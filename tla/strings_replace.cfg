SPECIFICATION Spec
CONSTANTS
  Chars = {a, b}
  None = None
  DefaultBytes = 3
  Width = 6
  MaxView = 3
  MaxNeedle = 1
  MaxArgs = 2
  MaxLen = 4
  MaxPieces = 3
  NextPower <- Powers
PROPERTY ReplaceKeepsTheRest
CHECK_DEADLOCK FALSE
