CONSTANTS
  Heartbeats = {1, 3}
  EntityOf <- MCEntity
  TimeOf <- MCNear
  Window <- MCWindow
  Invalid = {3}
  Targets = {"default", "team"}
  TargetsOf <- MCTwoTargets
  Legacy = {3}
  Procs = {"p1", "p2"}
  BatchLimit = 1
  SyncLimit = 0
  FaultKinds = {"transport", "item", "silent", "storage", "config", "corrupt", "crash"}
  Endless = {"item"}
  MaxFaults = 1
  Transcripts = {1, 2}
  Others = {2}
  Scans = {1, 2}
  Overlapping = {"messages"}
  Second = 2
  Lookback = 2
  TokenWindow = 1
  Delay = 1
  Earliest = 3
  Limit = 1
  MaxTime = 4
  MaxEntries = 2
  MaxStops = 1
SPECIFICATION CliSpec
INVARIANTS
    Accounted MarkTellsCounted
PROPERTIES
    StepLosesAtMostABatch CommandsComplete
CHECK_DEADLOCK FALSE
