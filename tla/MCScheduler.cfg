SPECIFICATION Spec
CONSTANTS
  Pods = {p1}
  Nodes = {n1, n2}
  MaxUid = 2
  None = None
  Binders = {b1}
  MaxLag = 1
  Handlers = {"pods", "nodes"}
  Sched = Sched
SYMMETRY NodeSymmetry
INVARIANTS
  SchedulerInv
  CacheMatchesEvents
  NoFatal
  NoMissedEvent
