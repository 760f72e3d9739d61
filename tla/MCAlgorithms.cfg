SPECIFICATION CallSpec
CONSTANTS
  Requests <- MCRequests
  Allotted <- MCAllotted
  NumNodes = 3
  Annotations <- MCAnnotations
  Statuses <- MCStatuses
  MaxInt = 32767
  NoInteger = NoInteger
  NoResult = NoResult
INVARIANTS
  FindsLeastBand
  AcceptanceIsMonotone
  IterationIsExact
  AssuranceRanks
  FreestCoreRanks
CHECK_DEADLOCK FALSE
