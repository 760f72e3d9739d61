SPECIFICATION Spec
CONSTANTS
  pa = pa
  pn = pn
  pb = pb
  pc = pc
  Pods = {pa, pn, pb, pc}
  Tasks <- TasksValue
  NameLength <- NameLengthValue
  nCPUs = 2
  MaxContainers = 5
  MaxRestarts = 0
  StorageFails = TRUE
INVARIANTS
  PriorityOrder
  AllServed
PROPERTIES
  BudgetKept
  AdmissionSound
  BandLostOnlyWhenFull
  GuaranteesStand
VIEW memory
CHECK_DEADLOCK FALSE
