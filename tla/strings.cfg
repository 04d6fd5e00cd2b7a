SPECIFICATION FairSpec
CONSTANTS
  Chars = {a, b}
  None = None
  DefaultBytes = 3
  Width = 6
  MaxView = 3
  MaxNeedle = 2
  MaxArgs = 2
  MaxLen = 3
  MaxPieces = 3
  NextPower <- Powers
INVARIANTS TypeOK PiecesTile
PROPERTIES ReplacesAll Terminates MisuseIsNarrow ReplaceReturns
CHECK_DEADLOCK FALSE
