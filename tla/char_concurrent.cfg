SPECIFICATION Spec
CONSTANTS
  MaxOps = 3
  NULL = NULL
  Proc = {p1, p2}
  NoProc = NoProc
  Ptr = {b1, b2, b3, b4, b5}
  ZERO_SIZE_PTR = ZERO_SIZE_PTR
  x = x
  nl = nl
  Text = {x}
  NL = nl
  Chunks <- MCChunks
  Counts = {3}
  MaxEntry = 2
  MaxLoads = 1
SYMMETRY FullSymmetry
INVARIANTS RingShape SizesAgree FindIsConcatenation OopsOnlyOnEmptyWrite
INVARIANTS LockDiscipline SingleOwner NoLeakWhileLive ReadIsSlice
PROPERTY ImplementsWriteLog
CHECK_DEADLOCK FALSE
