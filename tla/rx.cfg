CONSTANTS
  NRx = 3
  NTx = 2
  ReadModes = {"bulk", "single"}
  TsHalf = 3
  Sends = TRUE
  MaxEvents = 5
  MaxNoMem = 1
  MaxSpiFaults = 1
SPECIFICATION FairSpec
INVARIANTS
  TypeOK
  RxInOrder
  RxAtMostOnce
  NothingLost
  QueueFits
PROPERTIES
  RxDelivered
CHECK_DEADLOCK FALSE
