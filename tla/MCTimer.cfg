SPECIFICATION TimerFairSpec
CONSTANTS
  WORD = 16
  MS_PER_TICK = 2
  Sleeps = {0, 3, 4, 7, 10}
  MAX_COUNT = 20
INVARIANTS SleepAccurate SleepBounded
PROPERTY SleepReturns
