SPECIFICATION Spec
CONSTANTS
    r1 = r1
    r2 = r2
    q1 = q1
    q2 = q2
    Runs = {r1, r2}
    Requests = {q1, q2}
    Kinds <- OnlyTerminate
    Hires = {"direct"}
SYMMETRY Alike
CHECK_DEADLOCK FALSE
PROPERTIES TerminatedIsFinal
