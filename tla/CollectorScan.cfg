CONSTANTS
  Collectors = {"c1", "c2"}
  Files = {"f"}
  Ids = {"m1", "m2"}
  Home <- MCHome
  MaxOut = 2
  MaxLines = 2
  MaxRewrites = 1
  MaxFaults = 1
  Setups <- MCSetups
  Agents <- MCAgents
  Places <- MCPlaces
  Requests = {1, 2}
  LongRequests = {1}
  StateRows = 2
  DocumentLimit = 2
  MaxRecords = 3
  MaxWrites = 3
  MaxScanFaults = 1
SPECIFICATION CollectorSpec
INVARIANTS
    SavedMeansStored CountsFinalUnlessOverlapped StateReadableUnlessOverlapped ScanMissesOnlyPassed UsageCountedOnce
PROPERTIES
    EventuallyCounted RecordsEventuallyCounted
CHECK_DEADLOCK FALSE
