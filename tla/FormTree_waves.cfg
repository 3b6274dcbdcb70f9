SPECIFICATION TreeSpec
CONSTANTS
    Fields = {a, b, c}
    Forms = {f1, f2}
    OnChange = {a, b}
    Debounced = {c}
    NoForm = none
INVARIANTS TreesAreSound VerdictsKnowDependencies
CHECK_DEADLOCK FALSE
