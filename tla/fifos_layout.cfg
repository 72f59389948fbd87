CONSTANTS
  Params = {0, 1, 23, 24, 30, 31}
  MaxOpens = 2
SPECIFICATION Spec
INVARIANTS
  TypeOK
  LayoutFits
  RamLayout
  FiltersFeedRx
CHECK_DEADLOCK FALSE
