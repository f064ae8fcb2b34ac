CONSTANTS
    Ids = {s1, s2}
    Reqs = {r1}
    Sweeper = sweeper
    Ops = {"create", "fork", "sleep", "wake", "delete", "exec", "traffic"}
    Faults = {"lost"}
    Orderly = TRUE
    MaxSandboxes = 2
    IdleS = 1
    TtlS = 1
    MaxTime = 2
    MaxCrashes = 1
    NoId = NoId
SPECIFICATION Spec
SYMMETRY Interchangeable
INVARIANTS NoVmForgotten
