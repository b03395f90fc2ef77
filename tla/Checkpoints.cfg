CONSTANTS
  Paths = {p}
  Contents <- MCContents
  MaxLog = 4
  MaxMsgs = 3
  Faults = {"cancel", "begin", "seal", "write"}
  Ways = {"inplace", "fork"}
SPECIFICATION Spec
INVARIANTS
  TypeOK
  ContentIsDisk
  DependenciesHold
  PlanIsTheStart
PROPERTY ApprovalLeavesTheFiles
CHECK_DEADLOCK FALSE
