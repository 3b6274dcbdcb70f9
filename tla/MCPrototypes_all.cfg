SPECIFICATION PrototypesSpec
CONSTANTS
    a = a  b = b  none = none  c1 = c1  c2 = c2
    Setups <- AllSetups
    MaxRevision = 3
    Keys = {}
    NoKey = none
    ArraySetups <- Unkeyed
    MaxItems = 2
    MaxNodes = 2
    Calls = {c1, c2}
    HasAsync = TRUE
    MaxRuns = 2
    MaxIssues = 1
SYMMETRY Symmetric
INVARIANTS SubmissionsAreSound
PROPERTIES FieldIsSound ArrayIsSound
CHECK_DEADLOCK FALSE
