SPECIFICATION AloneSpec
CONSTANTS
    a = a
    b = b
    c = c
    d = d
    r = r
    f = f
    e = e
    u1 = u1
    u2 = u2
    u3 = u3
    None = None
    Nodes = {r, e, f}
    Cells = {r}
    Computeds = {e, f}
    Subs = {u1, u2, e, f}
    UserSubs = {u1, u2}
    MaxValue = 2
    LastVersion = 1
    Values <- Range0
    InitValue = 0
    NextValues <- Toggle
    Program <- RelayProgram
    Meaning <- RelayMeaning
    ListenerCalls = {"unsubscribe", "get"}
    MaxFlush = 8
    MaxBatch = 0
    MaxOps = 2
INVARIANTS NothingIsSwallowed
