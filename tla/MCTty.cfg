SPECIFICATION Spec
CONSTANTS
  Environments <- MCEnvironments
  MaxBytes = 1
  Width = 2
  Height = 2
  TabStop = 2
  BufferSize = 3
  Lens = {1, 2}
INVARIANTS ModifiersTracked ReadsLineTyped EchoMatchesLine OnlyErasedStale
CHECK_DEADLOCK FALSE
