SPECIFICATION Spec
CONSTANTS
  p1 = p1
  p2 = p2
  p3 = p3
  n1 = n1
  n2 = n2
  a = a
  b = b
  NoPod = NoPod
  NoNode = NoNode
  Pods = {p1, p2, p3}
  Nodes = {n1, n2}
  Name <- NameValue
  Criticality <- CriticalityValue
  Wcethi <- WcethiValue
  Wcetlo <- WcetloValue
  Crashing = {n2}
  MaxPods = 2
  Lists <- ListsValue
INVARIANTS
  BoundIsAdmitted
  HeldUntilDeleted
  HeldOnce
PROPERTIES
  AdmissionSurvives
