CONSTANTS
  Gpios = {"GPIO0"}
  MaxClk = 3
  MaxSpiFaults = 0
SPECIFICATION Spec
INVARIANTS
  AwakeWhileUp
CHECK_DEADLOCK FALSE
