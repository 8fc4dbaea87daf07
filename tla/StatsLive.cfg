SPECIFICATION StatisticsSpec
CONSTANTS
    c1 = c1 c2 = c2 w1 = w1 w2 = w2 h1 = h1 h2 = h2 s1 = s1 x1 = x1
    week = week year = year project = project
    Clients = {c1}
    Workers = {w1}
    Heartbeats = {h1}
    Settings = {}
    Extras = {}
    Ranges = {week}
    ProjectKeys = {project}
    DefaultRanges <- OneRange
    MaxRetry = 0
    FaultKinds = {"step", "enqueue"}
    MaxFaults = 1
    MaxWrites = 1
    MaxTasks = 1
    Second = 2
    Hour = 2
    Day = 4
    Timeout = 4
    Zone = 2
    Days = 2
    Million = 2
    MaxRows = 3
    Requests = {r1, r2, r3}
    MaxConns = 2
INVARIANTS
    StatisticsAgree
PROPERTIES
    RefreshedWhenAsked EveryRequestEnds
CHECK_DEADLOCK FALSE
