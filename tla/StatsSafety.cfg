SPECIFICATION RequestsSpec
CONSTANTS
    c1 = c1 c2 = c2 w1 = w1 w2 = w2 h1 = h1 h2 = h2 s1 = s1 x1 = x1
    week = week year = year project = project
    Clients = {c1}
    Workers = {w1}
    Heartbeats = {h1}
    Settings = {s1}
    Extras = {}
    Ranges = {week}
    ProjectKeys = {project}
    DefaultRanges <- OneRange
    MaxRetry = 1
    FaultKinds = {"step", "enqueue"}
    MaxFaults = 1
    MaxWrites = 2
    MaxTasks = 1
    LimitKeys = {"token", "read", "write"}
    LimitOf <- MCLimit
    WindowOf <- MCWindow
    SweepInterval = 2
    MaxLimited = 2
    Calls = {1, 2}
    LastTime = 3
    MaxCalls = 4
    Invocations = {1, 2}
    Factor = 1
    BackoffMax = 2
    RateLimit = 1
    Old = 2
    Many = 2
    MaxMishaps = 1
INVARIANTS
    UpToDateUnlessMissed LimitsHold MarkKeptUnlessTorn
PROPERTIES
    BackoffAsFailed RetryAfterSuffices
