SPECIFICATION FairSpec
CONSTANTS
    None = None
    c1 = c1
    c2 = c2
    c3 = c3
    v1 = v1
    r1 = r1
    r2 = r2
    x = x
    y = y
    Calls = {c1, c2, c3}
    Revisions = {v1}
    Children = {x, y}
    Lists <- TwoLists
    Runs = {r1, r2}
    Serialized = {c3}
INVARIANTS TypeOK BlockersExist ReturnsWholeTree
PROPERTIES ImplementsPlanTree ChildrenAreWoken
CHECK_DEADLOCK FALSE
