SPECIFICATION Spec
CONSTANTS
  TOTAL_PAGES = 12
  KEND_PAGE = 1
  BIOS_LO = 3
  BIOS_HI = 3
  KSTACK_PAGE = 6
  USER_END_PAGE = 10
  PAGE_SIZE = 8
  HEADER_SIZE = 2
  MIN_ALLOC = 2
  ALIGN = 2
  INITIAL_PAGES = 2
  WORD = 128
  MAX_LIVE = 4
  Requests <- SmallRequests
INVARIANTS NoOverlap StatsExact OneSeam HeldOnce ReservedNeverHeld ZeroMeansFull
PROPERTY ImplementsAllocator
