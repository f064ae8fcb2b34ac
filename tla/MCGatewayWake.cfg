CONSTANTS
    s1 = s1
    web = web
    api = api
    Sandboxes = {s1}
    First = s1
    Before <- TwoNames
    Names = {web, api}
    Ports = {1, 2}
    MaxNode = 2
    MaxPerSandbox = 2
    MaxPerTenant = 2
    Clients = {c1}
    Gws = {g1, g2}
    Ops = {"sleep", "wake"}
    MaxOps = 2
    Faults = {}
    MaxFaults = 0
    Patient = TRUE
    Hosts <- BothNames
    MaxPolls = 2
    None = None
SPECIFICATION Spec
INVARIANT RoutedByLabel
