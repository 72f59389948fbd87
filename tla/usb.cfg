CONSTANTS
 MaxTxUrbs = 3
 MaxFrames = 5
 MaxFaults = 1
 MaxOpens = 2
SPECIFICATION Spec
INVARIANTS TypeOK ActiveCounts EchoMatches LoopedBackInOrder
CHECK_DEADLOCK FALSE
