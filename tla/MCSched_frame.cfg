SPECIFICATION Spec
CONSTANTS
  MAX_PROCESSES = 4
  SLICE = 2
  TICK_WRAP = 7
  STACK_PAGES = 2
  NoProc = NoProc
INVARIANT FrameBeforeRun
CHECK_DEADLOCK FALSE
