\* entries of 8 bytes and more (one skipped), neighbourhoods cut to 2
SPECIFICATION MapFairSpec
CONSTANTS
  Keys = {1, 7}
  Hash <- KeyHash
  Junk = junk
  Skip = 1
  NeighborhoodSize = 2
  MaxFailRetries = 2
  OccupiedBit = 7
  ConvertExisting = TRUE
  MaxStart = 4
  MaxEntries = 3
  MaxArray = 1
  Borrowed = borrowed
  NoValue = noValue
  MaxLive = 3
INVARIANTS MapTypeOK HeldOnce EntriesAreElements RehashSettles GrowthIsBounded
PROPERTIES CopiesAreLost PairsStay ReplaceIsSeen
CHECK_DEADLOCK FALSE
