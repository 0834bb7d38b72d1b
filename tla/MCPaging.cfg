SPECIFICATION Spec
CONSTANTS
  TOTAL_PAGES = 12
  KEND_PAGE = 1
  BIOS_LO = 2
  BIOS_HI = 2
  KSTACK_PAGE = 6
  USER_END_PAGE = 10
  PT_ENTRIES = 4
  PD_ENTRIES = 4
  IDENTITY_MAP_ENTRIES = 3
  Virts <- MCVirts
  Targets = {10}
  Flags <- MCFlags
  Fault = Fault
INVARIANTS TlbCoherent TablesExclusive TablesReachable
PROPERTY ImplementsAddressSpace
