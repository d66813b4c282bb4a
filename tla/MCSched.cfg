SPECIFICATION Spec
CONSTANTS
  MaxTasks = 4
  MaxSubs = 2
  Readers = {2}
  Idle = Idle
  Boot = Boot
  Null = Null
  Stale = Stale
  Old = Old
INVARIANTS OnePlace OwnedUntilTorn NoDanglingSub
PROPERTY EndIsFinal
CHECK_DEADLOCK FALSE
