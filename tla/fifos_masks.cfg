CONSTANTS
  Params = {0}
  MaxOpens = 2
SPECIFICATION Spec
INVARIANTS
  MasksNameFifos
CHECK_DEADLOCK FALSE
