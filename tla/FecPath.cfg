CONSTANTS
  K = 3
  R = 2
  BlockIds = 2
  MaxBlocks = 3
  MaxSwitches = 1
SPECIFICATION Spec
INVARIANT AnyKSuffice
CHECK_DEADLOCK FALSE
