SPECIFICATION FairSpec
CONSTANTS
  SECTOR_SIZE = 2
  SPC = 2
  DATA_START = 10
  ROOT = 2
  RESERVED = 15
  EOC = 16
  WORD = 64
  Fat <- MCFat
  Dir <- MCDir
  Names <- MCNames
  MaxEntries = {0, 1, 2, 5}
  ReadSizes = {0, 1, 3, 8}
  DiskFaults = TRUE
INVARIANTS ReadsInOrder ShortReadIsEof OpenFindsFirst
PROPERTY CallReturns
