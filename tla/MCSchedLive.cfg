SPECIFICATION FairSpec
CONSTANTS
  MaxTasks = 3
  MaxSubs = 2
  Readers = {2, 3}
  Idle = Idle
  Boot = Boot
  Null = Null
  Stale = Stale
  Old = Old
INVARIANT ReadersCanBeWoken
PROPERTIES ReadyRuns SleepEnds WaitReturns
CHECK_DEADLOCK FALSE
