SPECIFICATION Spec
CONSTANTS
    ads = ads
    sub = sub
    leaf = leaf
    player = player
    easylist = easylist
    adaway = adaway
    r1 = r1
    r2 = r2
    Domains <- Names
    Up <- Chain
    Builtin <- Players
    Urls <- Sources
    MaxVersion = 1
    Body <- AdBodies
    Tagged <- Sources
    Editable = {}
    Refreshers = {}
    Lookups = {q1}
    Faults = {}
INVARIANTS
    CacheAgrees
