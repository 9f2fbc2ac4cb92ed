CONSTANTS
  c1 = c1
  c2 = c2
  c3 = c3
  Calls <- MC_Calls
  DiskFaults <- MC_NoDiskFaults
SPECIFICATION Spec
INVARIANT
  TmpFilesRemoved
CHECK_DEADLOCK FALSE
