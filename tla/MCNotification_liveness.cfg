SPECIFICATION FairSpec
CONSTANTS
    s = s
    t = t
    u1 = u1
    u2 = u2
    None = None
    Nodes = {s, t}
    Cells = {s, t}
    Subs = {u1, u2}
    UserSubs = {u1, u2}
    MaxValue = 1
    Values <- Versions
    InitValue = 0
    NextValues <- Toggle
    MaxFlush = 2
    MaxBatch = 1
    MaxOps = 1
PROPERTIES FlushTerminates
