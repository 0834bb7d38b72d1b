SPECIFICATION ThreadsFairSpec
CONSTANTS
  MAX_PROCESSES = 4
  SLICE = 2
  TICK_WRAP = 3
  STACK_PAGES = 2
  NoProc = NoProc
  WIDTH = 1
  HEIGHT = 2
  MAX_OVER = 1
INVARIANTS OneRunning PagesAccounted OffScreenIsRepaired
PROPERTIES RoundRobin ReadyRuns RowRecovers
CHECK_DEADLOCK FALSE
