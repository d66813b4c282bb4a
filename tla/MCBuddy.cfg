CONSTANTS
  NrPages = 9
  MM_MAX_ORDER = 3
  WordOrder = 1
  Pow2 <- MCPow2
  Usable <- MCUsable
  Callers = {c1, c2}
  Requests = {1, 2, 3, 5}
SYMMETRY CallerSymmetry
SPECIFICATION Spec
INVARIANTS BlocksDisjoint PagesConserved FullyCoalesced
PROPERTY ImplementsPageAlloc
CHECK_DEADLOCK FALSE
