SPECIFICATION MCSpec
CONSTANTS
  Tasks = {t1, t2, t3}
  First = t1
  Rips = {i1, i2}
  Rsps = {s1, s2}
  Null = Null
  ITasks = {t1, t2, t3}
  IFirst = t1
  Core = c1
  Overridden = TRUE
INVARIANTS KernelStacksOwned GsMatchesMode ServiceEnds KeysArrive SpinsAreInterrupted
PROPERTIES RipKept
CHECK_DEADLOCK FALSE
