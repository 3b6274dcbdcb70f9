SPECIFICATION PackagesSpec
CONSTANTS
    root = root  c1 = c1  c2 = c2  p = p  q = q
    a = a  b = b  d = d  none = none
    Root = root
    Children = {c1, c2}
    Plain = {p, q}
    Null = none
    Nodes = {a, b, d}
    Id <- Keys
    Nothing = "nothing"
    Beyond = "beyond"
    Items = {"i", "j"}
    Position <- Indices
    Values = {"x", "y"}
    MaxOps = 3
SYMMETRY Symmetric
INVARIANTS ScopesAreSound ArraysAreSound IssuesKeepIdentity IssuesAgreeInTree
PROPERTIES ReinitializesWhole
CHECK_DEADLOCK FALSE
