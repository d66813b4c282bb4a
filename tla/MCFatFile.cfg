SPECIFICATION Spec
CONSTANTS
  ClustCnt = 7
  PerSect = 2
  SectPerClust = 1
  SectSize = 1
  Mirror = TRUE
  full = full
  half = half
  Files = {full, half}
  StartClust <- MCStartClust
  Size0 <- MCSize0
  Root = 2
  Handles = {h1, h2}
  Modes = {TRUE}
  PowerFails = TRUE
  Sharing = TRUE
  Lens = {1}
  MaxOff = 2
  OldByte = Unknown
  NewByte = Unknown
  Closed = Closed
  Unknown = Unknown
SYMMETRY HandleSymmetry
INVARIANT VolumeSound
CHECK_DEADLOCK FALSE
