SPECIFICATION FairSpec
CONSTANTS
    None = None
    w1 = w1
    w2 = w2
    w3 = w3
    a = a
    b = b
    r1 = r1
    r2 = r2
    r3 = r3
    Wakes = {w1, w2, w3}
    Comments = {w2, w3}
    Agents = {a, b}
    For <- SecondForOther
    Assignee = a
    Runs = {r1, r2}
    Troubles <- UnfitOrElse
INVARIANTS TypeOK WakeIsOnce WaitersHaveARun
PROPERTIES RecoveryGivesUp StrandedIssueMoves DeferredWakesEnd
CHECK_DEADLOCK FALSE
