CONSTANTS
  TxFifoStart = 2
  NTxFifos = 2
  TefSize = 3
  OneShot = FALSE
  AutoRestart = FALSE
  TsHalf = 2
  MaxFrames = 5
  MaxStates = 1
  MaxSpiFaults = 0
  MaxLostFaults = 0
  MaxOpens = 1
SPECIFICATION FairSpec
INVARIANTS
  NextFifoValid
  ConfirmedFollowsWire
  EchoThereForTef
PROPERTIES
  QueueWakes
  FrameSent
CHECK_DEADLOCK FALSE
