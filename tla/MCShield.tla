------------------------------- MODULE MCShield -------------------------------
(***************************************************************************)
(* The components other than DnsOverride and Blocklist, for TLC.  A        *)
(* behaviour is about one of the instances below: "subject" says which,    *)
(* and the variables of the other components keep their initial values.    *)
(* The constants of this module are the largest of the instances, so that  *)
(* the properties of the components read the same in all of them.          *)
(***************************************************************************)
EXTENDS RealtimeGuard, QueryPath, BlockStats, QueryLog, Instances,
    ServiceLink, SettingsStore, LocationScan, LanScan, WfpBlocker

CONSTANT Subjects    \* the instances of a run

VARIABLE subject

MCIds == Paths \X (1 .. 2)
MCHardLimit == [s \in Sources |-> 1]
Lenient == [s \in Sources |-> 3]
MCKindOf == [n \in Names |->
    CASE n = "long" -> "tunnel" [] n = "onion" -> "darknet" [] OTHER -> "plain"]

-----------------------------------------------------------------------------
(***************************************************************************)
(* Quarantine and guard                                                    *)
(***************************************************************************)
\* Two callers of the quarantine, writes that fail, files that cannot be
\* overwritten or removed, kills.
Vault == INSTANCE RealtimeGuard WITH
    Drawn <- Paths \X {1}, Used <- {"p1"}, VaultFaults <- {"write", "shred", "kill"}

\* Files change while the guard looks for them; it and the operator quarantine
\* one path, each with an entry of its own, and the operator what they listed.
FilesG == INSTANCE RealtimeGuard WITH Contents <- {"bad"}, Bulky <- {},
    Drawn <- {"p1"} \X (1 .. 2), Used <- {"p1"}, VaultFaults <- {},
    PlantableDirs <- {}, GuardInputs <- {"files", "unread"}

\* Canaries, floods of changes, the switches and the lock.
CanaryG == INSTANCE RealtimeGuard WITH Contents <- {"good"},
    Drawn <- {}, Used <- Paths, VaultFaults <- {},
    GuardInputs <- {"files", "tamper", "network", "refuse"}

\* Removable drives, the cooldown, a thread that is not spawned.
DriveG == INSTANCE RealtimeGuard WITH Contents <- {"good"},
    Drawn <- {}, Used <- {}, VaultFaults <- {}, PlantableDirs <- {},
    GuardInputs <- {"drives", "cooldown", "spawn", "options"}

-----------------------------------------------------------------------------
(***************************************************************************)
(* DNS packets                                                             *)
(***************************************************************************)
\* The limits, their histories and their blocks.
FloodQ == INSTANCE QueryPath WITH Traffic <- {<<"lan", "onion">>},
    QueryInputs <- {}

\* The switches of the IDS, and scans.
ScanQ == INSTANCE QueryPath WITH Traffic <- {<<"lan", "onion">>},
    MaxQueries <- 1, ScanPorts <- 1, QueryInputs <- {"ids"}

\* The list and the exceptions change while queries are judged, cached and answered.
ListQ == INSTANCE QueryPath WITH Traffic <- {<<"lan", "plain">>},
    MaxQueries <- 2, Horizon <- 0, HardLimit <- Lenient, FloodLimit <- 3,
    QueryInputs <- {"exceptions", "lists"}

\* The filter is paused, rules change, and clients get modes; this machine is one
\* of them.
PolicyQ == INSTANCE QueryPath WITH Traffic <- {<<"lan", "plain">>, <<"pc", "plain">>},
    MaxQueries <- 1, Horizon <- 0, QueryInputs <- {"rules", "exceptions", "policy"}

\* Devices are isolated, and come back with other addresses.
DeviceQ == INSTANCE QueryPath WITH Traffic <- {<<"lan", "plain">>},
    MaxQueries <- 1, Horizon <- 0, QueryInputs <- {"devices"}

\* The upstreams fail.
OutageQ == INSTANCE QueryPath WITH Traffic <- {<<"lan", "long">>},
    MaxQueries <- 2, Horizon <- 0, HardLimit <- Lenient, QueryInputs <- {"outage"}

\* A local name, a name of the darknet, this machine's own queries.
WallQ == INSTANCE QueryPath WITH Traffic <- {<<"lan", "nas">>, <<"pc", "onion">>},
    MaxQueries <- 2, QueryInputs <- {}

\* Commands that time out overtake each other.  Then commands may be refused,
\* the window saves what it has, and the service starts anew.
CommandL == INSTANCE ServiceLink WITH LinkInputs <- {"command", "lost", "disk"}
WindowL == INSTANCE ServiceLink WITH
    Orders <- {<<"rule", TRUE>>, <<"setting", TRUE>>},
    LinkInputs <- {"command", "refuse", "window", "restart"}

\* The lists and the views change under one snapshot at a time.
ViewL == INSTANCE ServiceLink WITH
    Calls <- {"c1"}, LinkInputs <- {"look", "change", "lost"}

MCTabOf == [v \in Views |-> IF v = "devices" THEN "security" ELSE "adblock"]
MCOrders == {<<"rule", TRUE>>, <<"rule", FALSE>>, <<"setting", TRUE>>}

\* The log and its saves are killed; then every fault, with one entry.
LogKept == INSTANCE QueryLog WITH LogFaults <- {"kill"}
LogSpooled == INSTANCE QueryLog WITH MaxEntries <- 1

\* The lock and its exceptions, while the window stays where it is; then every
\* fault, with fewer changes.
Saved == INSTANCE SettingsStore WITH StoreFaults <- {"kill"}, Places <- {1}
Spoilt == INSTANCE SettingsStore WITH MaxChanges <- 2

\* A folder, and two scans of a smaller one.
OneScan == INSTANCE LocationScan WITH MaxClicks <- 1
TwoScans == INSTANCE LocationScan WITH Roots <- {"sub"}, ScanFaults <- {}

\* Refused filters and deletions; then lists that are imported.
Refused == INSTANCE WfpBlocker WITH MaxEdits <- 0
Imported == INSTANCE WfpBlocker WITH WfpFaults <- {}

MCHolds == [f \in Folders |->
    CASE f = "top" -> {"sub", "same", "noise", "text", "void"}
      [] f \in {"sub", "same"} -> {"deep", "worm", "odd"}
      [] OTHER -> {}]
\* Two more names of one folder; the scan skips what goes by one of them.
MCRealOf == [f \in Folders |-> IF f \in {"same", "noise"} THEN "sub" ELSE f]
MCLevelOf == [f \in ScanFiles |->
    CASE f = "worm" -> "MALICIOUS" [] f = "odd" -> "SUSPICIOUS" [] f = "void" -> "empty"
      [] OTHER -> "other"]

\* Two scans of the network, then scans that follow each other while devices
\* and routes move; the device with the bad port is not the gateway.
TwoLans == INSTANCE LanScan WITH MaxMoves <- 0
OneLan == INSTANCE LanScan WITH Scanners <- {"s1"}
MCNetwork == [s \in Sources |->
    CASE s = "lan" -> "m2" [] s = "gw" -> "m1" [] OTHER -> NoMac]

MCInventories ==
    [seen : {[s \in Sources |-> IF s = "lan" THEN m ELSE NoMac] : m \in Macs \union {NoMac}},
     selves : {{"pc"}}, gates : {{"gw"}, {"lan", "gw"}}]

-----------------------------------------------------------------------------
\* A component nobody speaks of.
GuardAside ==
    /\ GuardInit
    /\ place = [p \in Paths |-> Missing] /\ canary = [c \in Canaries |-> Absent]
    /\ autoQuarantine /\ canaryAutolock /\ canaryInFolders
QueryFrom(m) ==
    /\ denied = {} /\ custom = {} /\ allowed = {} /\ mode = [s \in Sources |-> m]
    /\ QueryInit
    /\ (m = "default" => online)
QueryAside == QueryFrom("default") /\ detection /\ autoBlock
LinkAside == LinkInit /\ view = "devices" /\ tabLists = [t \in Tabs |-> "old"]
ProgramsAside == InstInit /\ scm = "absent" /\ ~saved
LanOne == LanInit /\ network = MCNetwork /\ route = "gw"
WfpAside == WfpInit /\ available /\ protected /\ configured = {}

ShieldInit ==
    /\ subject \in Subjects
    /\ CASE subject = "vault"    -> Vault!GuardInit
         [] subject = "files"    -> FilesG!GuardInit
         [] subject = "canaries" -> CanaryG!GuardInit
         [] subject = "drives"   -> DriveG!GuardInit
         [] OTHER -> GuardAside
    /\ CASE subject \in {"flood", "scan", "devices", "walls"} -> QueryFrom("default")
         [] subject = "outage" -> QueryFrom("trusted")
         [] OTHER -> QueryAside
    /\ StatInit /\ LogInit /\ LinkAside /\ StoreInit /\ LocInit
    /\ IF subject = "programs" THEN InstInit ELSE ProgramsAside
    /\ LanOne
    /\ CASE subject = "filters" -> WfpInit
         [] subject = "imports" -> WfpInit /\ available /\ configured = {"ip"}
         [] OTHER -> WfpAside

Is(x) == subject = x /\ UNCHANGED subject
\* What stays as it is, by the component that does not.
NotGuard == <<queryVars, statVars, logVars, instVars, linkVars, storeVars, locVars, lanVars, wfpVars>>
OnlyGuard == UNCHANGED NotGuard
OnlyQuery == UNCHANGED <<guardVars, statVars, logVars, instVars, linkVars, storeVars, locVars,
                         lanVars, wfpVars>>
OnlyLink == UNCHANGED <<guardVars, queryVars, statVars, logVars, instVars, storeVars, locVars,
                        lanVars, wfpVars>>
OnlyStat == UNCHANGED <<guardVars, queryVars, logVars, instVars, linkVars, storeVars, locVars,
                        lanVars, wfpVars>>
OnlyLog == UNCHANGED <<guardVars, queryVars, statVars, instVars, linkVars, storeVars, locVars,
                       lanVars, wfpVars>>
OnlyInst == UNCHANGED <<guardVars, queryVars, statVars, logVars, linkVars, storeVars, locVars,
                        lanVars, wfpVars>>
OnlyStore == UNCHANGED <<guardVars, queryVars, statVars, logVars, instVars, linkVars, locVars,
                         lanVars, wfpVars>>
OnlyScan == UNCHANGED <<guardVars, queryVars, statVars, logVars, instVars, linkVars, storeVars,
                        lanVars, wfpVars>>
OnlyWfp == UNCHANGED <<guardVars, queryVars, statVars, logVars, instVars, linkVars, storeVars,
                       locVars, lanVars>>
OnlyLan ==
    UNCHANGED <<guardVars, engineVars, counters, policy, verdicts, cache, online, statVars, logVars,
                instVars, linkVars, storeVars, locVars, wfpVars>>

VaultAlone ==
    /\ Vault!VaultNext
    /\ UNCHANGED <<switches, tick, stamps, sentinel, cooling, lock>>

ShieldNext ==
    \/ Is("vault")    /\ VaultAlone        /\ OnlyGuard
    \/ Is("files")    /\ FilesG!GuardNext  /\ OnlyGuard
    \/ Is("canaries") /\ CanaryG!GuardNext /\ OnlyGuard
    \/ Is("drives")   /\ DriveG!GuardNext  /\ OnlyGuard
    \/ Is("flood")    /\ FloodQ!QueryNext  /\ OnlyQuery
    \/ Is("scan")     /\ ScanQ!QueryNext   /\ OnlyQuery
    \/ Is("lists")    /\ ListQ!QueryNext   /\ OnlyQuery
    \/ Is("policy")   /\ PolicyQ!QueryNext /\ OnlyQuery
    \/ Is("devices")  /\ DeviceQ!QueryNext /\ OnlyQuery
    \/ Is("outage")   /\ OutageQ!QueryNext /\ OnlyQuery
    \/ Is("walls")    /\ WallQ!QueryNext   /\ OnlyQuery
    \/ Is("stats")    /\ StatNext          /\ OnlyStat
    \/ Is("log")      /\ LogKept!LogNext   /\ OnlyLog
    \/ Is("spool")    /\ LogSpooled!LogNext /\ OnlyLog
    \/ Is("programs") /\ InstNext          /\ OnlyInst
    \/ Is("commands") /\ CommandL!LinkNext /\ OnlyLink
    \/ Is("window")   /\ WindowL!LinkNext  /\ OnlyLink
    \/ Is("views")    /\ ViewL!LinkNext    /\ OnlyLink
    \/ Is("settings") /\ Saved!StoreNext   /\ OnlyStore
    \/ Is("disk")     /\ Spoilt!StoreNext  /\ OnlyStore
    \/ Is("folder")   /\ OneScan!LocNext   /\ OnlyScan
    \/ Is("clicks")   /\ TwoScans!LocNext  /\ OnlyScan
    \/ Is("asked")    /\ TwoLans!LanNext   /\ OnlyLan
    \/ Is("network")  /\ OneLan!LanNext    /\ OnlyLan
    \/ Is("filters")  /\ Refused!WfpNext   /\ OnlyWfp
    \/ Is("imports")  /\ Imported!WfpNext  /\ OnlyWfp

shieldVars == <<subject, guardVars, NotGuard>>

\* The fairness of RealtimeGuard and of QueryPath, where a property needs it.
\* Every step of the worker changes its tick or its call of the quarantine, every step
\* of a handler changes its call.
CanariesWork == subject = "canaries" /\ CanaryG!WorkerStep /\ OnlyGuard /\ UNCHANGED subject
HandlerWorks(u) == subject = "outage" /\ OutageQ!HandlerStep(u) /\ OnlyQuery /\ UNCHANGED subject

ShieldSpec ==
    /\ ShieldInit /\ [][ShieldNext]_shieldVars
    /\ WF_<<tick, hand>>(CanariesWork)
    /\ \A u \in Handlers : WF_call(HandlerWorks(u))

\* PermitReturns where the upstreams fail.
PermitReturnsInOutage == []<>~(subject = "outage" /\ Saturated)

\* Every component that the instance is about keeps to its types.
ShieldTypeOK ==
    /\ subject \in {"vault", "files", "canaries", "drives"} => GuardTypeOK
    /\ subject \in {"flood", "scan", "lists", "policy", "devices", "outage", "walls"} => QueryTypeOK
    /\ subject = "stats" => StatTypeOK
    /\ subject \in {"commands", "window", "views"} => LinkTypeOK
    /\ subject \in {"asked", "network"} => LanTypeOK /\ DevicesTypeOK
    /\ subject \in {"filters", "imports"} => WfpTypeOK
    /\ subject \in {"log", "spool"} => LogTypeOK
    /\ subject = "programs" => InstTypeOK
    /\ subject \in {"settings", "disk"} => StoreTypeOK
    /\ subject \in {"folder", "clicks"} => LocTypeOK

=============================================================================
