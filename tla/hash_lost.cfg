\* int entries with the sizes of the code: a key that rehash leaves where it hashes to
SPECIFICATION FairSpec
CONSTANTS
  Keys = {1, 9}
  Hash <- KeyHash
  Junk = junk
  Skip = 2
  NeighborhoodSize = 8
  MaxFailRetries = 5
  OccupiedBit = 31
  ConvertExisting = FALSE
  MaxStart = 8
  MaxEntries = 3
  MaxArray = 0
INVARIANT FindsAfterRehash
