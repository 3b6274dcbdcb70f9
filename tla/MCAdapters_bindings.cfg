SPECIFICATION AdaptersSpec
CONSTANTS
    f1 = f1  f2 = f2  e1 = e1  e2 = e2  b1 = b1  b2 = b2  h1 = h1  h2 = h2  x = x  y = y
    MaxMoves = 2
    Fields = {f1, f2}
    Parsed = {f2}
    Blank = x
    Ticked = y
    Choice <- Choices
    Inputs = {e1, e2}
    Bindings = {b1, b2}
    Texts = {x, y}
    Judged = {f1, f2}
    Spots = {e1, e2}
    Holders = {h1, h2}
    Watched = {f1, f2}
    Places = {1, 2}
    Links = {b1, b2}
    MaxRequests = 1
SYMMETRY Alike
INVARIANTS ScreensAreSound AttributesFollowFields
PROPERTIES ControlsAreSound FocusIsSound
CHECK_DEADLOCK FALSE
