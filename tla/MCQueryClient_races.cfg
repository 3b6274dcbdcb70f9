SPECIFICATION QSpec
CONSTANTS
    h1 = h1
    h2 = h2
    e1 = e1
    e2 = e2
    None = None
    Keys <- OneKey
    Filters <- BothKeys
    MaxRecord = 2
    Handles = {h1, h2}
    Executions = {e1, e2}
    GcTime = "later"
    MaxGeneration = 3
SYMMETRY QuerySymmetry
INVARIANTS RecordsAreTrue
PROPERTIES NothingComesLate
CHECK_DEADLOCK FALSE
