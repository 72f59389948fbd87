CONSTANTS
  TxFifoStart = 2
  NTxFifos = 2
  TefSize = 2
  OneShot = TRUE
  AutoRestart = TRUE
  TsHalf = 8
  MaxFrames = 5
  MaxStates = 0
  MaxSpiFaults = 0
  MaxLostFaults = 1
  MaxOpens = 1
SPECIFICATION Spec
INVARIANTS
  OvertakesOnlyAfterMisread
CHECK_DEADLOCK FALSE
