SPECIFICATION FairSpec
CONSTANTS
  Pods = {p1}
  Nodes = {n1}
  MaxUid = 2
  None = None
  Binders = {b1}
  MaxLag = 1
  Handlers = {"pods"}
  Sched = Sched
PROPERTIES
  NoPodIsLost
  AssumedIsSettled
CHECK_DEADLOCK FALSE
