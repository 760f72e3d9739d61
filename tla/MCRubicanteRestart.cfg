SPECIFICATION FairSpec
CONSTANTS
  pa = pa
  pn = pn
  pb = pb
  pc = pc
  Pods = {pa, pc}
  Tasks <- TasksValue
  NameLength <- NameLengthValue
  nCPUs = 1
  MaxContainers = 2
  MaxRestarts = 2
  StorageFails = FALSE
INVARIANTS
  SavedOrChanged
PROPERTIES
  EventuallySaved
CHECK_DEADLOCK FALSE
