SPECIFICATION FittingSpec
CONSTANTS
    r1 = r1
    r2 = r2
    q1 = q1
    q2 = q2
    Runs = {r1, r2}
    Requests = {q1, q2}
    Kinds <- Either
    Hires = {"direct", "approval"}
INVARIANTS TypeOK PausedMeansStopped BudgetSparesTheBoard DecisionsTakeEffect
PROPERTIES OneDecision
SYMMETRY Alike
CHECK_DEADLOCK FALSE
