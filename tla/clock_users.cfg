CONSTANTS
  Gpios = {"GPIO0", "GPIO1"}
  MaxClk = 3
  MaxSpiFaults = 2
SPECIFICATION Spec
INVARIANTS
  TypeOK
  SuppliesPaired
  UsersAreHolders
  NeverRefused
CHECK_DEADLOCK FALSE
