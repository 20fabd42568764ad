CONSTANTS
  Environments <- MCEnvironments
  Timeout = 2
  Interval = 1
  MaxErrors = 0
  CanHang = FALSE
SPECIFICATION Spec
INVARIANT DisabledIsNoOp
CHECK_DEADLOCK FALSE
