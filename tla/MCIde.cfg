SPECIFICATION FairSpec
CONSTANTS
  TIMEOUT = 2
  SECTORS = 3
  MAX_COUNT = 2
INVARIANTS ReadDelivers WriteReported
PROPERTIES InitSound CallReturns
