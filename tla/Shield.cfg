SPECIFICATION ShieldSpec
CONSTANTS
  Subjects = {"vault", "files", "canaries", "drives", "flood", "scan", "lists", "policy",
              "devices", "outage", "walls", "stats", "log", "spool", "programs", "commands", "window", "views",
              "settings", "disk", "folder", "clicks", "asked", "network", "filters", "imports"}
  Paths = {"p1", "p2"}
  Ids <- MCIds
  Drawn = {}
  Used = {}
  Contents = {"bad", "good"}
  Callers = {"g", "o"}
  VaultFaults = {}
  Guard = "g"
  Malicious = {"bad"}
  Bulky = {"good"}
  MassMutation = 2
  InspectMax = 1
  Canaries = {"app", "fold"}
  AppCanary = "app"
  PlantableDirs = {"fold"}
  CanaryForms = 2
  Drives = {"d1", "d2"}
  GuardInputs = {}
  Sources = {"lan", "gw", "pc"}
  Loopback = {"pc"}
  Macs = {"m1", "m2"}
  MaxQuarantineEntries = 1
  Inventories <- MCInventories
  Handlers = {"h1", "h2"}
  Ports = {"port"}
  HardLimit <- MCHardLimit
  FloodLimit = 1
  Keep = 1
  MaxTracked = 1
  Drop = 1
  ScanPorts = 2
  MaxBlocked = 1
  LogCap = 1
  Horizon = 1
  Names = {"plain", "long", "onion", "nas"}
  KindOf <- MCKindOf
  LocalNames = {"nas"}
  Traffic = {}
  MaxQueries = 4
  Ttl = 1
  QueryInputs = {}
  Recorders = {"h1"}
  Readers = {"ui"}
  DaysPerWeek = 2
  LastDay = 1
  MaxBlocks = 1
  StatFaults = {"write", "kill"}
  Loggers = {"h1"}
  Wanted = {1}
  MaxLogs = 1
  MaxEntries = 2
  LogFaults = {"disk", "kill"}
  Windows = {"w1"}
  Service = "svc"
  Calls = {"c1", "c2"}
  Tabs = {"security", "adblock"}
  Views = {"devices", "rules"}
  TabOf <- MCTabOf
  OwnViews = {"devices"}
  Lists = {"old", "new"}
  Orders <- MCOrders
  LinkInputs = {}
  Rules = {"r1"}
  Places = {1, 2}
  Cloners = {"geom"}
  MaxChanges = 3
  StoreFaults = {"disk", "kill", "unread"}
  Folders = {"top", "sub", "same", "deep", "noise"}
  ScanFiles = {"worm", "odd", "text", "void"}
  Roots = {"top", "noise"}
  Holds <- MCHolds
  RealOf <- MCRealOf
  SkippedFolders = {"noise"}
  LevelOf <- MCLevelOf
  MaxFiles = 2
  Scans = {"s1", "s2"}
  MaxClicks = 2
  ScanFaults = {"folder", "file", "panic"}
  Scanners = {"s1", "s2"}
  RiskyMacs = {"m2"}
  MaxMoves = 1
  Targets = {"ip", "zero"}
  BadTargets = {"zero"}
  Actors = {"t1", "t2"}
  MaxEdits = 1
  WfpFaults = {"refuse", "stuck"}
INVARIANTS
  ShieldTypeOK
  SealedBeforeShred
  IndexIsVault
  NothingSlipsBy
  CanaryAlarmIsReal
  QuarantineSafe
  AlertedIsBlocked
  HeldDecides
  EachJudgedOnce
  LoadsNoMore
  CleanIsStored
  LogSurvives
  WindowFollows
  ServedOverride
  LastWordHolds
  RulesAreKept
  KnownIsShown
  SettingsAreStored
  SettingsInForce
  ReportIsHonest
  ScansDoNotMix
  AllOrNoFilters
PROPERTIES
  TamperLocks
  PermitReturnsInOutage
  ReleasedOnEvidence
CHECK_DEADLOCK FALSE
