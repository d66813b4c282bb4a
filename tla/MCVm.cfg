SPECIFICATION MCSpec
CONSTANTS
  Spaces = {p, c}
  First = p
  Start = 8
  End = 19
  Wrap = 32
  PageSize = 2
  Sizes = {2, 5, 8, 31}
  FixedPtrs = {3, 10, 13, 30}
  MaxAreas = 3
  KTasks = {k1, k2}
  KFirst = k1
  KRoot = KRoot
  PerEntry = 12
  None = None
INVARIANTS AreasDisjoint MappedExactly ForkCopies KernelAreasSeen PanicsInWindowOnly
CHECK_DEADLOCK FALSE
