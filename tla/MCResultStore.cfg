SPECIFICATION FairSpec
CONSTANTS
  p1 = p1
  p2 = p2
  Pods = {p1, p2}
  Entries = {n1}
  MaxCycles <- MaxCyclesValue
  ApiFails = FALSE
  SilentFailure = FALSE
INVARIANTS
  NoNilResult
  OnlyLateIsLost
PROPERTIES
  BindingIsKept
  ResultsLeaveStore
CHECK_DEADLOCK FALSE
