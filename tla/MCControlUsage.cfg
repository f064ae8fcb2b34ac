CONSTANTS
    Ids = {s1, s2}
    Reqs = {r1}
    Sweeper = sweeper
    Ops = {"create", "fork", "pause", "resume", "sleep", "wake", "stop", "start", "delete"}
    Faults = {"fail", "lost", "exit"}
    Orderly = TRUE
    MaxSandboxes = 0
    IdleS = 0
    TtlS = 1
    MaxTime = 2
    MaxCrashes = 0
    NoId = NoId
SPECIFICATION Spec
SYMMETRY Interchangeable
INVARIANTS UsageMatchesState
