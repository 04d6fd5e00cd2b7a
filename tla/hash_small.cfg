\* __fp_hash with 2 skipped elements (int) and neighbourhoods cut to 3
SPECIFICATION FairSpec
CONSTANTS
  Keys = {0, 1, 4}
  Hash <- KeyHash
  Junk = junk
  Skip = 2
  NeighborhoodSize = 3
  MaxFailRetries = 1
  OccupiedBit = 8
  ConvertExisting = FALSE
  MaxStart = 6
  MaxEntries = 4
  MaxArray = 2
INVARIANTS TypeOK ElementsArePut RehashSettles GrowthIsBounded
PROPERTIES IsMultiset InsertIsFound Returns
CHECK_DEADLOCK FALSE
