SPECIFICATION WorkerSpec
CONSTANTS
    c1 = c1 c2 = c2 w1 = w1 w2 = w2 h1 = h1 h2 = h2
    Clients = {c1, c2}
    Workers = {w1}
    Heartbeats = {h1}
    Contents <- MCContents
    Entity <- MCEntity
    Time <- MCSameTime
    Sent <- MCSent
    Before = {h1}
    Rules <- MCRules
    PutSets <- MCPutSets
    Modes = {"queue", "inline"}
    PoolSize = 5
    MaxRetry = 1
    MaxChanges = 2
    MaxFaults = 1
    u1 = u1 u2 = u2 g1 = g1 g3 = g3
    Runs = {r1, r2}
    MaxJobRetry = 2
    MaxStored = 2
    MaxJobFaults = 3
    Users = {u1, u2}
    Goals = {g1, g3}
    GoalWorkers = {v1}
    Owner <- MCOwner
    Weekly = {g1}
    Improving = {g3}
    Zones <- MCZones
    HomeZone <- MCHomeZone
    DayHours = 2
    WeekDays = 2
    MaxHour = 4
    MaxTaskRetry = 1
    MaxBeats = 1
    MaxUpsets = 1
INVARIANTS
    CompletedMeansRewritten CachedRulesCurrent JobsSound EvaluationsSound
PROPERTIES
    NothingHangs CompletedStaysUnlessRepeated DaysAreEvaluated
CHECK_DEADLOCK FALSE
