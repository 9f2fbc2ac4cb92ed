CONSTANTS
  c1 = c1
  c2 = c2
  c3 = c3
  Calls <- MC_Calls
  DiskFaults <- MC_DiskFaults
SPECIFICATION Spec
INVARIANTS
  TypeOK
CHECK_DEADLOCK FALSE
