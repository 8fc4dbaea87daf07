CONSTANTS
  Heartbeats = {1, 2, 3}
  EntityOf <- MCEntity
  TimeOf <- MCTime
  Window <- MCWindow
  Invalid = {3}
  Targets = {"default"}
  TargetsOf <- MCOneTarget
  Legacy = {1}
  Procs = {"p1"}
  BatchLimit = 2
  SyncLimit = 0
  FaultKinds = {"item"}
  Endless = {}
  MaxFaults = 1
SPECIFICATION Spec
INVARIANT LegacyMigrated
CHECK_DEADLOCK FALSE
