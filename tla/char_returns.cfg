SPECIFICATION FairSpec
CONSTANTS
  MaxOps = 1
  NULL = NULL
  Proc = {p1, p2}
  NoProc = NoProc
  Ptr = {b1, b2, b3, b4}
  ZERO_SIZE_PTR = ZERO_SIZE_PTR
  x = x
  nl = nl
  Text = {x}
  NL = nl
  Chunks <- MCNonEmptyChunks
  Counts = {1}
  MaxEntry = 2
  MaxLoads = 2
PROPERTY CallsReturn
CHECK_DEADLOCK FALSE
