SPECIFICATION Spec
CONSTANTS
  pa = pa
  pn = pn
  pb = pb
  pc = pc
  Pods = {pa, pn, pb, pc}
  Tasks <- TasksValue
  NameLength <- NameLengthValue
  nCPUs = 1
  MaxContainers = 4
  MaxRestarts = 0
  StorageFails = FALSE
PROPERTIES
  TestIsReadOnly
CHECK_DEADLOCK FALSE
