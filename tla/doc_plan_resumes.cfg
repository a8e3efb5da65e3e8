SPECIFICATION Spec
CONSTANTS
    None = None
    c1 = c1
    c2 = c2
    c3 = c3
    v1 = v1
    r1 = r1
    r2 = r2
    x = x
    y = y
    Calls = {c1, c2}
    Revisions = {v1}
    Children = {x, y}
    Lists <- TwoLists
    Runs = {r1, r2}
    Serialized = {}
INVARIANTS RetryContinues
CHECK_DEADLOCK FALSE
