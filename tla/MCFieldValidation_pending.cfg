SPECIFICATION FSpec
CONSTANTS
    p = p
    q = q
    Runtime = Runtime
    User = User
    Callers = {User}
    Fields = {p, q}
    Ruled = {p, q}
    DependsOn <- QReadsP
    Values = {0, 2, 3}
    InitValue = 2
    SyncFails <- Refused
    Asks <- Promised
    AsyncFails <- RefusedLate
    ValidateOn = {"blur"}
    Debounced = FALSE
    Throwing = {}
    MaxRevision = 3
INVARIANTS PendingIsInFlight
CHECK_DEADLOCK FALSE
