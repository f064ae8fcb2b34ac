CONSTANTS
    v1 = v1
    v2 = v2
    Vms = {v1, v2, v3}
    AdoptedAt <- Left
    Parked = {p1}
    Tenants = {t1, t2}
    MaxSlots = 2
    MaxPort = 2
    Ports = {80}
    Handlers = {h1, h2}
    MaxOps = 3
    Ops = {"create", "fork", "delete", "start", "stop", "prewarm", "expose", "unexpose"}
    Faults = {"nft", "tap", "boot", "fence"}
    None = None
SPECIFICATION Spec
INVARIANTS    OneTarget LockIsShort
SYMMETRY Interchangeable
CHECK_DEADLOCK FALSE
