CONSTANTS
  Heartbeats = {1, 2, 3}
  EntityOf <- MCEntity
  TimeOf <- MCFar
  Window <- MCWindow
  Invalid = {3}
  Targets = {"default"}
  TargetsOf <- MCOneTarget
  Legacy = {}
  Procs = {"p1", "p2"}
  BatchLimit = 2
  SyncLimit = 0
  FaultKinds = {}
  Endless = {}
  MaxFaults = 0
SPECIFICATION Spec
INVARIANT SyncDropsOnlyRejected
CHECK_DEADLOCK FALSE
