SPECIFICATION SSpec
CONSTANTS
    p = p
    q = q
    a = a
    b = b
    c = c
    Runtime = Runtime
    User = User
    None = None
    Submissions = {a, b}
    Callers = {User, a, b}
    Fields = {p}
    Ruled = {p}
    DependsOn <- QReadsP
    Rank <- PBeforeQ
    Values = {0, 2, 3}
    InitValue = 3
    SyncFails <- Refused
    Asks <- Promised
    AsyncFails <- RefusedLate
    ValidateOn = {"change", "blur"}
    Debounced = FALSE
    Throwing = {}
    Policies = {"supersede"}
    Ways = {"action"}
    MaxRevision = 3
CHECK_DEADLOCK FALSE
PROPERTIES GateBlocks
