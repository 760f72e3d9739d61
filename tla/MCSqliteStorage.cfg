SPECIFICATION FairSpec
CONSTANTS
  pa = pa
  pb = pb
  pc = pc
  Pods = {pa, pb, pc}
  Retried = {pc}
  Tasks <- TasksValue
  nCPUs = 1
  MaxContainers = 2
  MaxTaskRows = 4
  MaxRestarts = 2
INVARIANTS
  StorageInv
  DeletedStaysDeleted
PROPERTIES
  EventuallySaved
CHECK_DEADLOCK FALSE
