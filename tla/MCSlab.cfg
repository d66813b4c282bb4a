SPECIFICATION Spec
CONSTANTS
  PageSize = 6
  Word = 2
  Header = 2
  ObjSize <- MCObjSize
  CachePages <- MCCachePages
  NrPages = 5
  VmPages = 2
  AreaSize = 3
  Sizes = {0, 1, 3, 7}
  Null = Null
INVARIANTS GrantsDisjoint ObjectsConserved
CHECK_DEADLOCK FALSE
