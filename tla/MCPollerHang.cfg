CONSTANTS
  Environments <- MCEnvironments
  Timeout = 2
  Interval = 1
  MaxErrors = 4
  CanHang = TRUE
SPECIFICATION Spec
PROPERTY
  PollerTerminates
CHECK_DEADLOCK FALSE
