SPECIFICATION LSpec
CONSTANTS
    Nobody = Nobody
    Attempts = {x, y}
    ListenersThrow = TRUE
INVARIANTS EndedIsNotBusy
CHECK_DEADLOCK FALSE
