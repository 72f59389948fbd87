CONSTANTS
  MaxFrames = 2
  MaxArrivals = 2
  MaxErrors = 3
  MaxOpens = 2
  RxSlots = 1
SPECIFICATION FairSpec
INVARIANTS
  TypeOK
  ReportsFollowWire
  
PROPERTIES
  ImplementsCanTxQueue
  QueueWakes
  RxDelivered
CHECK_DEADLOCK FALSE
