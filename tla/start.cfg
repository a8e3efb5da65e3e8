SPECIFICATION FairSpec
CONSTANTS
    None = None
    c1 = c1
    c2 = c2
    c3 = c3
    r1 = r1
    r2 = r2
    r3 = r3
    Calls = {c1, c2, c3}
    Runs = {r1, r2, r3}
    MaxConcurrentRuns = 2
    Rank <- FirstTied
    Gated = {r1}
    Troubles <- GateOrFailure
INVARIANTS TypeOK StartsAreExclusive CapacityRespected EntryCoversOpenCalls
PROPERTIES CallsReturn WorkConserving
