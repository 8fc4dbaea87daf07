CONSTANTS
  Heartbeats = {1, 2, 3}
  EntityOf <- MCEntity
  TimeOf <- MCTime
  Window <- MCWindow
  Invalid = {3}
  Targets = {"default", "team"}
  TargetsOf <- MCTwoTargets
  Legacy = {3}
  Procs = {"p1"}
  BatchLimit = 1
  SyncLimit = 0
  FaultKinds = {"transport"}
  Endless = {}
  MaxFaults = 2
  Invocations = {1}
  Factor = 1
  BackoffMax = 2
  RateLimit = 1
  Old = 2
  Many = 2
  MaxMishaps = 2
  Hour = 2
  BlockDuration = 4
  Day = 4
  Zone = 1
  Days = 2
  Cent = 4
  Table <- MCTable
  Fallback <- MCFallback
  Aliases <- MCAliases
  CustomPrice <- MCCustomPrice
  CustomModels <- MCCustomModels
  Usages <- MCUsages
  MaxRows = 3
  Tasks = {t1}
  Engines = {e1}
  MaxVersion = 2
  MaxStamp = 3
SPECIFICATION ReportingSpec
INVARIANTS
    NothingLost ReportsAgree
PROPERTIES
    EventuallySettled ImplementsDelivery MergedIntoNear PostsTriedAgain EnginesFollowSnapshots PricesNeverGoBack
CHECK_DEADLOCK FALSE
