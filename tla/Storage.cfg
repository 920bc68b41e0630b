SPECIFICATION Spec
CONSTANTS
  c1 = c1
  c2 = c2
  Client = {c1, c2}
  Workloads <- MCWorkloads
  MayDie = TRUE
INVARIANTS
  TypeOK
  LinkedToDir
  UnlinkedIsInProgress
  NothingDangles
CHECK_DEADLOCK FALSE
