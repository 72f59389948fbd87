CONSTANTS
  TxFifoStart = 2
  NTxFifos = 2
  TefSize = 3
  OneShot = FALSE
  AutoRestart = TRUE
  TsHalf = 2
  MaxFrames = 5
  MaxStates = 1
  MaxSpiFaults = 1
  MaxLostFaults = 0
  MaxOpens = 2
SPECIFICATION Spec
INVARIANTS
  TypeOK
  MaskInv
  OrderInv
  WireInOrder
PROPERTIES
  WakeMeansIdle
  ImplementsCanTxQueue
CHECK_DEADLOCK FALSE
