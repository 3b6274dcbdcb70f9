SPECIFICATION BothSpec
CONSTANTS
    a = a
    b = b
    c = c
    d = d
    r = r
    e = e
    f = f
    u1 = u1
    u2 = u2
    u3 = u3
    None = None
    Nodes = {a, b, r, c, d, e, f}
    Cells = {a, b, r}
    Computeds = {c, d, e, f}
    Subs = {u1, u2, c, d, e, f}
    UserSubs = {u1, u2}
    MaxValue = 3
    LastVersion = 1
    Values <- Range0
    InitValue = 0
    NextValues <- Either
    Program <- BothProgram
    Meaning <- BothMeaning
    ListenerCalls = {"set", "subscribe", "unsubscribe", "get", "batch"}
    MaxFlush = 5
    MaxBatch = 1
    MaxOps = 2
SYMMETRY UserSymmetry
INVARIANTS RecomputesAreKept Fresh
PROPERTIES NoEcho
