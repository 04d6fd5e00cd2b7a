\* the sizes of the code, a map of ints (two entries skipped) and one key
SPECIFICATION MapSpec
CONSTANTS
  Keys = {15}
  Hash <- KeyHash
  Junk = junk
  Skip = 2
  NeighborhoodSize = 8
  MaxFailRetries = 5
  OccupiedBit = 31
  ConvertExisting = FALSE
  MaxStart = 8
  MaxEntries = 8
  MaxArray = 1
  Borrowed = borrowed
  NoValue = noValue
  MaxLive = 1
INVARIANT FinalizesElements
CHECK_DEADLOCK FALSE
