CONSTANTS
  Indices <- MCIndices
  Sources <- MCSources
  Millis <- MCMillis
  TopNumber = 2
  MaxRecords = 3
SPECIFICATION Spec
INVARIANTS
  TypeOK
  ResultWellFormed
CHECK_DEADLOCK FALSE
