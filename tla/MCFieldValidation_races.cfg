SPECIFICATION FSpec
CONSTANTS
    p = p
    q = q
    Runtime = Runtime
    User = User
    Callers = {User}
    Fields = {p, q}
    Ruled = {p, q}
    DependsOn <- QReadsP
    Values = {0, 2, 3}
    InitValue = 2
    SyncFails <- Refused
    Asks <- Promised
    AsyncFails <- RefusedLate
    ValidateOn = {"change", "blur"}
    Debounced = TRUE
    Throwing = {q}
    MaxRevision = 4
INVARIANTS VerdictsHold IssuesAgree PendingIsTrue
CHECK_DEADLOCK FALSE
