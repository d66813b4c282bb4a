SPECIFICATION Spec
CONSTANTS
  MaxTasks = 3
  MaxSubs = 1
  Readers = {2}
  Idle = Idle
  Boot = Boot
  Null = Null
  Stale = Stale
  Old = Old
INVARIANTS ContextsOwned
CHECK_DEADLOCK FALSE
