SPECIFICATION DataSpec
CONSTANTS
    c1 = c1 c2 = c2 w1 = w1 w2 = w2 h1 = h1 h2 = h2
    Clients = {c1, c2}
    Workers = {w1}
    Heartbeats = {h1, h2}
    Contents <- MCContents
    Entity <- MCEntity
    Time <- MCSameTime
    Sent <- MCSent
    Before = {h1}
    Rules <- MCRules
    PutSets <- MCPutSets
    Modes = {"queue", "inline"}
    PoolSize = 5
    MaxRetry = 1
    MaxChanges = 2
    MaxFaults = 0
    Apps = {a1}
    Users = {u1}
    Scopes = {"all", "read"}
    Covers <- MCCovers
    Registered <- MCRegistered
    Codes = {code}
    MaxTokens = 3
    Keep = 2
    Handlers = {x1, x2}
    None = None
    Views = {v1, v2}
    People = {p1}
    Filters = {"none"}
    StatusTTL = 1
    BoardTTL = 1
    DayTicks = 3
    MaxEntries = 2
    MaxClock = 3
    MaxSlow = 1
INVARIANTS
    CodeOnce ReplacedOnceUnlessRaced KeptUnlessCrowded AnswersFresh
PROPERTIES
    OnlyPutLeavesAborted RevokedHasNoSuccessor
CHECK_DEADLOCK FALSE
