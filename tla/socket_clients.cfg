SPECIFICATION Spec
CONSTANTS
  Conn = {c1, c2}
  Main = Main
  NoOne = NoOne
  Garbage = Garbage
  USE_AESD_CHAR_DEVICE = FALSE
  MaxOps = 1
  OldWrites = 1
  MaxItems = 1
  MaxStamps = 0
  RecvMax = 1
  RecvGrow = 1
  ReadMax = 1
  SndCap = 1
SYMMETRY ConnSymmetry
INVARIANTS TypeOK MutexDiscipline FdDiscipline ListIntact CleanExit OneLateAccept
PROPERTY ImplementsEcho
