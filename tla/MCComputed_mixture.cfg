SPECIFICATION AloneSpec
CONSTANTS
    a = a
    b = b
    c = c
    d = d
    r = r
    f = f
    e = e
    u1 = u1
    u2 = u2
    u3 = u3
    None = None
    Nodes = {a, c, d, e}
    Cells = {a}
    Computeds = {c, d, e}
    Subs = {u1, c, d, e}
    UserSubs = {u1}
    MaxValue = 3
    LastVersion = 1
    Values <- Range0
    InitValue = 0
    NextValues <- NextVersion
    Program <- MixProgram
    Meaning <- MixMeaning
    ListenerCalls = {}
    MaxFlush = 12
    MaxBatch = 0
    MaxOps = 0
PROPERTIES CalledFresh
