SPECIFICATION FairSpec
CONSTANTS
    c1 = c1 c2 = c2 w1 = w1 w2 = w2 h1 = h1 h2 = h2 s1 = s1 x1 = x1
    week = week year = year project = project
    Clients = {c1, c2}
    Workers = {w1}
    Heartbeats = {h1}
    Settings = {}
    Extras = {}
    Ranges = {week}
    ProjectKeys = {project}
    DefaultRanges <- OneRange
    MaxRetry = 0
    FaultKinds = {}
    MaxFaults = 1
    MaxWrites = 1
    MaxTasks = 1
PROPERTIES AcknowledgedEventuallyCached
