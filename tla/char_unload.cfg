SPECIFICATION Spec
CONSTANTS
  MaxOps = 2
  NULL = NULL
  Proc = {p1}
  NoProc = NoProc
  Ptr = {b1, b2, b3, b4, b5}
  ZERO_SIZE_PTR = ZERO_SIZE_PTR
  x = x
  nl = nl
  Text = {x}
  NL = nl
  Chunks <- MCChunks
  Counts = {1}
  MaxEntry = 2
  MaxLoads = 1
SYMMETRY PtrSymmetry
INVARIANT UnloadFreesAll
CHECK_DEADLOCK FALSE
