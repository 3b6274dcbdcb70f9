SPECIFICATION LateSpec
CONSTANTS
    a = a
    b = b
    c = c
    d = d
    r = r
    e = e
    f = f
    u1 = u1
    u2 = u2
    u3 = u3
    None = None
    Nodes = {a, b, d}
    Cells = {a, b}
    Computeds = {d}
    Subs = {u1, u2, u3, d}
    UserSubs = {u1, u2, u3}
    MaxValue = 8
    LastVersion = 2
    Values <- Range0
    InitValue = 0
    NextValues <- NextVersion
    Program <- LateProgram
    Meaning <- LateMeaning
    ListenerCalls = {"set", "subscribe", "unsubscribe"}
    MaxFlush = 8
    MaxBatch = 0
    MaxOps = 3
INVARIANTS NothingIsSwallowed
