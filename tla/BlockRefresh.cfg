SPECIFICATION Spec
CONSTANTS
    ads = ads
    sub = sub
    leaf = leaf
    player = player
    easylist = easylist
    adaway = adaway
    r1 = r1
    r2 = r2
    Domains <- Names
    Up <- Chain
    Builtin <- Players
    Urls <- Sources
    MaxVersion = 1
    Body <- Bodies
    Tagged <- Sources
    Editable = {ads}
    Refreshers = {r1, r2}
    Lookups = {q1}
    Faults = {"fetch", "build", "open", "crash"}
CONSTRAINT
    Explored
INVARIANTS
    TypeOK
    RulesWhole
    StoreIsFile
    CompactionKeepsCoverage
    CacheFromListsOnly
    AllowedPasses
