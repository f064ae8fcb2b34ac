CONSTANTS
    s1 = s1
    web = web
    api = api
    Sandboxes = {s1, s2}
    First = s1
    Before <- OneName
    Names = {web}
    Ports = {1, 2}
    MaxNode = 3
    MaxPerSandbox = 2
    MaxPerTenant = 2
    Clients = {c1, c2}
    Gws = {g1, g2}
    Ops = {"expose", "unexpose", "fork", "autosleep", "sleep", "wake", "delete"}
    MaxOps = 2
    Faults = {"fail", "lost"}
    MaxFaults = 1
    Patient = TRUE
    Hosts <- NameAndPort
    MaxPolls = 1
    None = None
SPECIFICATION FairSpec
INVARIANTS CapsHold RowsMatchRules ActivityKept
PROPERTIES TableSettles RequestsEnd
