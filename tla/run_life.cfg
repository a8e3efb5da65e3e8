SPECIFICATION BoundedSpec
CONSTANTS
    None = None
    r1 = r1
    r2 = r2
    p1 = p1
    p2 = p2
    Runs = {r1, r2}
    Woken = {r1}
    Silent = {r1}
    Passes = {p1, p2}
    MaxLosses = 1
    MaxRestarts = 1
INVARIANTS TypeOK RetriedHasEnded CancelledSucceedsByFoldOnly
PROPERTIES LostRunsEnd
CHECK_DEADLOCK FALSE
