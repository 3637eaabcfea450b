SPECIFICATION Spec
CONSTANTS
    Adapters = {wifi}
    StaticServers = {}
    Users = {u1}
    ListenAddr = "127.0.0.1"
    YieldStreak = 2
    Faults = {"crash", "stopInSet", "flap", "restore", "read", "disk", "hook"}
INVARIANTS
    TypeOK
    BackupIsOwners
    HookWaitsForListing
