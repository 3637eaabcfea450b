SPECIFICATION Spec
CONSTANTS
    Adapters = {wifi}
    StaticServers = {quad9}
    Users = {u1}
    ListenAddr = "127.0.0.1"
    YieldStreak = 2
    Faults = {"flap"}
INVARIANTS
    NothingLeftBehind
