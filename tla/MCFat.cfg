SPECIFICATION MCSpec
CONSTANTS
  ClustCnt = 7
  PerSect = 4
  SectPerClust = 2
  SectSize = 1
  Mirror = FALSE
  full_file = full_file
  half_file = half_file
  Files = {full_file, half_file}
  StartClust <- MCStartClust
  Size0 <- MCSize0
  Root = 2
  Handles = {h1, h2}
  Modes = {TRUE}
  PowerFails = FALSE
  Sharing = FALSE
  Lens = {2}
  MaxOff = 3
  OldByte = 0
  NewByte = 1
  Closed = Closed
  Unknown = Unknown
  brief = brief
  long = long
  other = other
  DirNames = {brief, other, long}
  Lfns <- MCLfns
  Short <- MCShort
  SlotsPerSect = 2
  Paths <- MCPaths
  Foreign = long
  MaxCalls = 4
SYMMETRY HandleSymmetry
INVARIANTS DataKept ReadsWhatWasWritten DirsMatchTree ClustersOwned KeptAtPowerFailure
CHECK_DEADLOCK FALSE
