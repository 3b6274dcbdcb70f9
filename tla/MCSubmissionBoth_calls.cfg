SPECIFICATION BothSpec
CONSTANTS
    p = p
    q = q
    a = a
    b = b
    c = c
    Runtime = Runtime
    User = User
    None = None
    Submissions = {a, b, c}
    Callers = {User, a, b, c}
    Fields = {p}
    Ruled = {p}
    DependsOn <- QReadsP
    Rank <- PBeforeQ
    Values = {0, 2, 3}
    InitValue = 3
    SyncFails <- Refused
    Asks <- Promised
    AsyncFails <- RefusedLate
    ValidateOn = {"change", "blur"}
    Debounced = FALSE
    Throwing = {p}
    Policies = {"supersede", "reject"}
    Ways = {"action", "none", "unclonable"}
    MaxRevision = 3
SYMMETRY CallSymmetry
INVARIANTS SubmissionsEnd
PROPERTIES StaleCallsLeaveNothing GatesHold
CHECK_DEADLOCK FALSE
