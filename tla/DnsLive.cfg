SPECIFICATION FairSpec
CONSTANTS
    Adapters = {wifi}
    StaticServers = {quad9}
    Users = {u1}
    ListenAddr = "127.0.0.1"
    YieldStreak = 2
    Faults = {"crash", "external", "conflict"}
PROPERTIES
    SettingsAreBorrowed
    CleanupReleased
    RevertedIsReenforced
    StaleOverrideRecovered
