SPECIFICATION FairSpec
CONSTANTS
  Thread = {t1, t2}
  Caller = Caller
  NoThread = NoThread
  Millis = {0, 1, 2}
  PerMilli = 2
  UInt = 4
  MaxLocks = 1
INVARIANTS ReturnsUnlocked SuccessMeansHeld DataOwned
PROPERTY ThreadsReturn
CHECK_DEADLOCK FALSE
