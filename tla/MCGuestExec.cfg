CONSTANTS
    Execs = {c1}
    Readdress = {r1}
    Streams = {out}
    MaxSlots = 1
    MaxBytes = 3
    Cap = 2
    Room = 1
    MaxTries = 2
    Modes = {"buffered", "streamed"}
    Helpers = {"group", "escaped"}
    Faults = {"connect", "spawn", "vm"}
    None = None
SPECIFICATION Spec
INVARIANTS PermitsCover CharactersWhole
PROPERTIES KeepsContract EveryCallEnds  SetIpSettles
CHECK_DEADLOCK FALSE
