CONSTANTS
  Environments <- MCEnvironments
  Timeout = 2
  Interval = 1
  MaxErrors = 4
  CanHang = TRUE
SPECIFICATION Spec
INVARIANTS
  TypeOK
  DoneMeansRecovered
PROPERTY
  PollerEndsUnlessHung
  RecoveryRefined
CHECK_DEADLOCK FALSE
