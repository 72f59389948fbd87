CONSTANTS
  TxFifoStart = 2
  NTxFifos = 2
  TefSize = 3
  OneShot = FALSE
  AutoRestart = TRUE
  TsHalf = 2
  MaxFrames = 3
  MaxStates = 2
  MaxSpiFaults = 0
  MaxLostFaults = 0
  MaxOpens = 1
SPECIFICATION FairSpec
PROPERTIES
  LeavesBusOff
CHECK_DEADLOCK FALSE
