SPECIFICATION Spec
CONSTANTS
  Conn = {c1}
  Main = Main
  NoOne = NoOne
  Garbage = Garbage
  USE_AESD_CHAR_DEVICE = FALSE
  MaxOps = 1
  OldWrites = 0
  MaxItems = 1
  MaxStamps = 0
  RecvMax = 2
  RecvGrow = 1
  ReadMax = 1
  SndCap = 2
INVARIANT NoLateAccept
