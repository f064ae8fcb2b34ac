CONSTANTS
    Ids = {v1, v2}
    Reqs = {r1}
    Pids = {1, 2}
    Slots = {0}
    Ops = {"create", "fork", "wake", "sleep", "stop", "delete"}
    Faults = {"fail", "litter", "exit", "restart", "reboot"}
    Orderly = TRUE
    None = None
SPECIFICATION FairSpec
INVARIANTS PidOwned RestartKeepsGuests
PROPERTY ExitIsNoticed
