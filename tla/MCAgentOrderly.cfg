CONSTANTS
    Ids = {v1, v2}
    Reqs = {r1, r2}
    Pids = {1, 2}
    Slots = {0, 1}
    Ops = {"create", "start", "wake", "sleep", "stop", "delete", "capture"}
    Faults = {"fail", "exit"}
    Orderly = TRUE
    None = None
SPECIFICATION Spec
SYMMETRY Interchangeable
INVARIANTS TypeOK OneFcPerInstance NoOrphanFc SlotsExclusive SleepingIsCold CaptureIsQuiet
PROPERTY WakeIsFresh
