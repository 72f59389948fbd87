CONSTANTS
  NumDesc = 3
  MaxCount = 4
  Modulus = 5
  PeriodBytes = 2
  LastBytes = 1
  SlipBytes = 2
SPECIFICATION FairSpec
INVARIANTS
  TypeOK
  PointerNotAhead
PROPERTIES
  StreamInOrder
  StreamGoesOn
CHECK_DEADLOCK FALSE
