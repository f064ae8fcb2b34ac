CONSTANTS
    Ids = {s1, s2}
    Reqs = {r1, r2}
    Sweeper = sweeper
    Ops = {"create", "start", "stop", "sleep", "wake", "delete", "force"}
    Faults = {"fail", "lost"}
    Orderly = FALSE
    MaxSandboxes = 1
    IdleS = 0
    TtlS = 0
    MaxTime = 1
    MaxCrashes = 0
    NoId = NoId
SPECIFICATION Spec
SYMMETRY Interchangeable
INVARIANTS QuotaRespected BillingStops
