SPECIFICATION Spec
CONSTANTS
    c1 = c1 c2 = c2 w1 = w1 w2 = w2 h1 = h1 h2 = h2
    Clients = {c1, c2}
    Workers = {w1}
    Heartbeats = {h1}
    Contents <- MCContents
    Entity <- MCEntity
    Time <- MCSameTime
    Sent <- MCSent
    Before = {h1}
    Rules <- MCRules
    PutSets <- MCPutSets
    Modes = {"queue", "inline"}
    PoolSize = 5
    MaxRetry = 1
    MaxChanges = 2
    MaxFaults = 0
INVARIANTS NewHeartbeatsUseRules
CHECK_DEADLOCK FALSE
