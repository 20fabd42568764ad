CONSTANTS
  Indices <- MCIndices
  Sources <- MCSources
  Millis <- MCMillisPair
  TopNumber = 2
  MaxRecords = 2
SPECIFICATION Spec
INVARIANT LongestPerQuery
CHECK_DEADLOCK FALSE
