SPECIFICATION FairSpec
CONSTANTS
  MaxProcs = 4
  MaxByHand = 1
  MaxPackets = 1
INVARIANTS OneServer HistoryKept StaleFileCause StopReachesAll
PROPERTY SignalEndsFamily
