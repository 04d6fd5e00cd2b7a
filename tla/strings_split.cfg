SPECIFICATION FairSpec
CONSTANTS
  Chars = {a, b}
  None = None
  DefaultBytes = 3
  Width = 6
  MaxView = 1
  MaxNeedle = 1
  MaxArgs = 2
  MaxLen = 4
  MaxPieces = 3
  NextPower <- Powers
PROPERTY SplitReturns
CHECK_DEADLOCK FALSE
