SPECIFICATION SweptSpec
CONSTANTS
    None = None
    a1 = a1
    a2 = a2
    u1 = u1
    r1 = r1
    r2 = r2
    r3 = r3
    q1 = q1
    q2 = q2
    s1 = s1
    Agents = {a1}
    Users = {}
    Runs = {r1, r2}
    Requests = {q1, s1}
    Sweepers = {s1}
    RunAgent <- TwoRunsOneAgent
    ContextRuns = {r1}
    IssuelessRuns = {r2}
    SourceScopedRuns = {}
    Expectations <- OpenExpectation
    Patches <- NoPatches
PROPERTIES StaleLockClears
