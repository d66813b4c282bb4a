SPECIFICATION Spec
CONSTANTS
  Tasks = {t1, t2}
  First = t1
  Rips = {i1, i2}
  Rsps = {s1, s2}
  Null = Null

PROPERTIES RspKept
