CONSTANTS
    Ids = {v1}
    Reqs = {r1, r2}
    Pids = {1, 2}
    Slots = {0}
    Ops = {"create", "wake", "sleep", "pause", "resume"}
    Faults = {"restart", "drop"}
    Orderly = FALSE
    None = None
SPECIFICATION Spec
SYMMETRY Interchangeable
INVARIANTS CreatingIsWorkedOn SleepingHasSnapshot
