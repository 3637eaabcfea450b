SPECIFICATION Spec
CONSTANTS
    Adapters = {wifi, lan}
    StaticServers = {quad9}
    Users = {u1}
    ListenAddr = "127.0.0.1"
    YieldStreak = 1
    Faults = {"crash", "external", "set", "resolver", "bind"}
SYMMETRY AdapterSymmetry
INVARIANTS
    OriginalsHeld
    ReleasedIsRestored
