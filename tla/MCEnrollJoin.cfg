CONSTANTS
    Workers = {w1, w2}
    Tokens = {t1, t2}
    Ips = {1, 2, 3}
    Creds = {1, 2, 3, 4}
    NodeIds = {1, 2, 3}
    MaxKeys = 2
    MaxBoots = 2
    MaxFaults = 3
    Mishaps = {"crash", "hubcrash", "lost", "disk", "torn", "store", "install", "expire", "stale", "rekey"}
    None = None
SPECIFICATION EnrollSpec
INVARIANTS AddressesDisjoint GrantBacked CredentialCurrent 
 
CHECK_DEADLOCK FALSE
