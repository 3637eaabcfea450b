---------------------------- MODULE NetworkProofs ----------------------------
(***************************************************************************)
(* The theorems about the network: DeviceQuarantine, LanScan and           *)
(* WfpBlocker, for any addresses, devices, tasks, targets and threads.     *)
(***************************************************************************)
EXTENDS LanScan, WfpBlocker, FiniteSetTheorems, TLAPS

-----------------------------------------------------------------------------
\* Isolated devices.
LEMMA InventoryType ==
  ASSUME NEW i \in Inventories
  PROVE  i.seen \in Observations /\ i.selves \subseteq Sources /\ i.gates \subseteq Sources
  BY DeviceAssumption

LEMMA DeviceTypeStep ==
  ASSUME DevicesTypeOK, [DevicesNext]_deviceVars
  PROVE  DevicesTypeOK'
  <1> USE DEF DevicesTypeOK
  <1>1. ASSUME NEW i \in Inventories, UpdateInventory(i.seen, i.selves, i.gates)
        PROVE  DevicesTypeOK'
    <2>1. entries' \in Observations
      BY <1>1 DEF UpdateInventory, Observations
    <2> QED BY <1>1, <2>1, InventoryType DEF UpdateInventory, Ages
  <1>2. ASSUME NEW s \in Sources, QuarantineIp(s) \/ UnquarantineIp(s)
        PROVE  DevicesTypeOK'
    BY <1>2 DEF QuarantineIp, UnquarantineIp, Observations
  <1>3. CASE InventoryAges
    BY <1>3 DEF InventoryAges, Ages
  <1>4. CASE UNCHANGED deviceVars
    BY <1>4 DEF deviceVars
  <1> QED BY <1>1, <1>2, <1>3, <1>4 DEF DevicesNext

\* Entries, inventory and age keep to their types: an entry is a MAC that an
\* inventory has shown.
THEOREM DevicesTypeCorrect == DevicesSpec => []DevicesTypeOK
  <1>1. DevicesInit => DevicesTypeOK
    BY DEF DevicesInit, DevicesTypeOK, Observations, Ages
  <1> QED BY <1>1, DeviceTypeStep, PTL DEF DevicesSpec

-----------------------------------------------------------------------------
\* The cap holds when addresses are released, and when one is added below it.
LEMMA CapKept ==
  ASSUME NEW S \in SUBSET Sources, NEW T \in SUBSET Sources,
         Cardinality(S) <= MaxQuarantineEntries,
         \/ T \subseteq S
         \/ Cardinality(S) < MaxQuarantineEntries /\ \E s \in Sources : T = S \union {s}
  PROVE  Cardinality(T) <= MaxQuarantineEntries
  <1>1. IsFiniteSet(S) /\ IsFiniteSet(T) /\ MaxQuarantineEntries \in Nat
    BY DeviceAssumption, FS_Subset
  <1>2. Cardinality(S) \in Nat /\ Cardinality(T) \in Nat
    BY <1>1, FS_CardinalityType
  <1>3. CASE T \subseteq S
    <2>1. Cardinality(T) <= Cardinality(S)
      BY <1>1, <1>3, FS_Subset
    <2> QED BY <1>1, <1>2, <2>1
  <1>4. ASSUME Cardinality(S) < MaxQuarantineEntries, NEW s \in Sources, T = S \union {s}
        PROVE  Cardinality(T) <= MaxQuarantineEntries
    <2>1. Cardinality(T) <= Cardinality(S) + 1
      BY <1>1, <1>2, <1>4, FS_AddElement
    <2> QED BY <1>1, <1>2, <1>4, <2>1
  <1> QED BY <1>3, <1>4

\* What can happen to the quarantine, with any inventory: the steps of
\* DeviceQuarantine, and those of its callers.
DeviceMove ==
  \/ \E seen \in Observations, selves \in SUBSET Sources, gates \in SUBSET Sources :
       UpdateInventory(seen, selves, gates)
  \/ \E s \in Sources : QuarantineIp(s) \/ UnquarantineIp(s)
  \/ InventoryAges

LEMMA NextIsAMove == DevicesNext => DeviceMove
  BY InventoryType DEF DevicesNext, DeviceMove

LEMMA SafeStep ==
  ASSUME DevicesTypeOK, QuarantineSafe, [DeviceMove]_deviceVars
  PROVE  QuarantineSafe'
  <1> USE DEF DevicesTypeOK, QuarantineSafe, Observations
  <1>1. Isolated \subseteq Sources /\ Isolated' \subseteq Sources
    BY DEF Isolated
  <1>2. ASSUME NEW seen \in Observations, NEW selves \in SUBSET Sources,
               NEW gates \in SUBSET Sources, UpdateInventory(seen, selves, gates)
        PROVE  QuarantineSafe'
    <2>1. \A s \in Sources : entries'[s] # NoMac =>
             /\ entries'[s] = entries[s]
             /\ s \notin selfIps' \union gateways'
             /\ inventory'[s] \in {NoMac, entries[s]}
      BY <1>2 DEF UpdateInventory, OwnerChanged
    <2>2. Isolated' \subseteq Isolated
      BY <2>1 DEF Isolated
    <2>3. Cardinality(Isolated') <= MaxQuarantineEntries
      BY <1>1, <2>2, CapKept
    <2> QED BY <2>1, <2>2, <2>3 DEF Isolated
  <1>3. ASSUME NEW s \in Sources, QuarantineIp(s) PROVE QuarantineSafe'
    <2>1. /\ UNCHANGED <<inventory, selfIps, gateways>>
          /\ entries' = [entries EXCEPT ![s] = inventory[s]]
          /\ s \notin Loopback \union selfIps \union gateways
          /\ inventory[s] # NoMac
          /\ s \notin Isolated /\ Cardinality(Isolated) < MaxQuarantineEntries
      BY <1>3 DEF QuarantineIp, Accepts
    <2>2. Isolated' = Isolated \union {s}
      BY <2>1 DEF Isolated
    <2>3. Cardinality(Isolated') <= MaxQuarantineEntries
      BY <1>1, <2>1, <2>2, CapKept
    <2>4. \A t \in Isolated' : t = s \/ (t \in Isolated /\ entries'[t] = entries[t])
      BY <2>1, <2>2, <1>1
    <2>5. entries'[s] = inventory[s]
      BY <2>1
    <2> QED BY <2>1, <2>3, <2>4, <2>5
  <1>4. ASSUME NEW s \in Sources, UnquarantineIp(s) PROVE QuarantineSafe'
    <2>1. /\ UNCHANGED <<inventory, selfIps, gateways>>
          /\ entries' = [entries EXCEPT ![s] = NoMac]
      BY <1>4 DEF UnquarantineIp
    <2>2. \A t \in Isolated' : t \in Isolated /\ entries'[t] = entries[t]
      BY <2>1 DEF Isolated
    <2>3. Cardinality(Isolated') <= MaxQuarantineEntries
      BY <1>1, <2>2, CapKept
    <2> QED BY <2>1, <2>2, <2>3
  <1>5. CASE InventoryAges \/ UNCHANGED deviceVars
    BY <1>5 DEF InventoryAges, deviceVars, Isolated
  <1> QED BY <1>2, <1>3, <1>4, <1>5 DEF DeviceMove

\* Neither this machine nor a gateway is ever isolated, an isolated address
\* still belongs to the MAC it was isolated for as far as the inventory knows,
\* and the cap holds, in whatever order clicks and refreshes come.
THEOREM IsolationIsSafe == DevicesSpec => []QuarantineSafe
  <1>1. DevicesInit => QuarantineSafe
    <2> SUFFICES ASSUME DevicesInit PROVE QuarantineSafe
      OBVIOUS
    <2>1. Isolated = {}
      BY DEF DevicesInit, Isolated
    <2> QED
      BY <2>1, FS_EmptySet, DeviceAssumption DEF QuarantineSafe
  <1>2. DevicesTypeOK /\ QuarantineSafe /\ [DevicesNext]_deviceVars => QuarantineSafe'
    BY SafeStep, NextIsAMove
  <1> QED BY <1>1, <1>2, DevicesTypeCorrect, PTL DEF DevicesSpec

\* What ReleasedOnEvidence says of one step.
ReleaseProven ==
  \A s \in Isolated :
    entries'[s] # entries[s] =>
      /\ entries'[s] = NoMac
      /\ \/ s \in selfIps' \union gateways'
         \/ inventory'[s] \notin {NoMac, entries[s]}
         \/ UnquarantineIp(s)

LEMMA ReleaseStep ==
  ASSUME DevicesTypeOK, DeviceMove
  PROVE  ReleaseProven
  <1> SUFFICES ASSUME NEW s \in Isolated, entries'[s] # entries[s]
               PROVE  /\ entries'[s] = NoMac
                      /\ \/ s \in selfIps' \union gateways'
                         \/ inventory'[s] \notin {NoMac, entries[s]}
                         \/ UnquarantineIp(s)
    BY DEF ReleaseProven
  <1>0. s \in Sources /\ entries \in Observations
    BY DEF Isolated, DevicesTypeOK
  <1>1. ASSUME NEW seen \in Observations, NEW selves \in SUBSET Sources,
               NEW gates \in SUBSET Sources, UpdateInventory(seen, selves, gates)
        PROVE  /\ entries'[s] = NoMac
               /\ s \in selfIps' \union gateways' \/ inventory'[s] \notin {NoMac, entries[s]}
    BY <1>0, <1>1 DEF UpdateInventory, OwnerChanged
  <1>2. ASSUME NEW t \in Sources, QuarantineIp(t) PROVE FALSE
    BY <1>0, <1>2 DEF QuarantineIp, Observations
  <1>3. ASSUME NEW t \in Sources, UnquarantineIp(t)
        PROVE  entries'[s] = NoMac /\ UnquarantineIp(s)
    <2>1. t = s
      BY <1>0, <1>3 DEF UnquarantineIp, Observations
    <2> QED BY <1>0, <1>3, <2>1 DEF UnquarantineIp, Observations
  <1>4. CASE InventoryAges
    BY <1>4 DEF InventoryAges
  <1> QED BY <1>1, <1>2, <1>3, <1>4 DEF DeviceMove

\* Only evidence, or the operator, releases an isolated address.
THEOREM ReleaseNeedsEvidence == DevicesSpec => ReleasedOnEvidence
  <1>1. DevicesTypeOK /\ [DevicesNext]_deviceVars => [ReleaseProven]_deviceVars
    BY ReleaseStep, NextIsAMove
  <1> QED
    BY <1>1, DevicesTypeCorrect, PTL DEF DevicesSpec, ReleasedOnEvidence, ReleaseProven

-----------------------------------------------------------------------------
\* The scan of the local network.
Scanning == [pc : ScanLabels, left : SUBSET Sources, found : Observations,
             risky : SUBSET Sources, gates : SUBSET Neighbours]

\* What the variables of LanScan are, in the form the steps below use.
LanTypes ==
  /\ DevicesTypeOK
  /\ network \in Observations /\ arpTable \in Observations /\ meant \in Observations
  /\ tableMacs \in Observations /\ devices.mac \in Observations
  /\ route \in Neighbours /\ routeCache \in Neighbours
  /\ watching \in BOOLEAN /\ scanning \in BOOLEAN /\ lapsed \in BOOLEAN
  /\ scan \in [Scanners -> Scanning]
  /\ devices.risky \in SUBSET Sources /\ notified \in SUBSET Sources
  /\ usedGateway \in Neighbours \union {"nowhere"}
  /\ lastGateway \in Neighbours \X Macs \union {NoGateway}
  /\ moves \in 0 .. MaxMoves
  /\ swaps \in [Sources -> Nat] /\ alarms \in [Sources -> Nat] /\ reports \in [Sources -> Nat]

LEMMA LanTypesAre == LanTypes => LanTypeOK
  BY DEF LanTypes, LanTypeOK, Scanning

LEMMA NobodyIsSeen == NobodyThere \in Observations /\ IdleScan \in Scanning
  BY DEF NobodyThere, Observations, IdleScan, Scanning, ScanLabels

LEMMA NeighboursAre == Neighbours \subseteq Sources /\ "nowhere" \notin Sources
  BY LanAssumption DEF Neighbours

\* The steps of a scan that only move it on.
LEMMA ScanTyped ==
  ASSUME LanTypes, NEW t \in Scanners, ScanStep(t)
  PROVE  scan' \in [Scanners -> Scanning]
  <1>0. scan \in [Scanners -> Scanning] /\ network \in Observations /\ arpTable \in Observations
    BY DEF LanTypes
  <1>1. CASE StartLanScan(t)
    <2>1. Begun \in Scanning
      BY NobodyIsSeen, NeighboursAre DEF Begun, IdleScan, Scanning, ScanLabels, LanTypes
    <2> QED BY <1>0, <1>1, <2>1 DEF StartLanScan
  <1>2. ASSUME NEW s \in Sources, AskAddress(t, s)
        PROVE  scan' \in [Scanners -> Scanning]
    <2>1. [scan[t].found EXCEPT ![s] = network[s]] \in Observations
      BY <1>0 DEF Observations, Scanning
    <2> QED BY <1>0, <1>2, <2>1 DEF AskAddress, Scanning
  <1>3. CASE ReadTable(t)
    <2>1. Filled(scan[t].found) \in Observations
      BY <1>0 DEF Filled, Observations, Scanning
    <2> QED BY <1>0, <1>3, <2>1 DEF ReadTable, Scanning, ScanLabels
  <1>4. CASE TellEngine(t)
    BY <1>0, <1>4 DEF TellEngine, Scanning, ScanLabels
  <1>5. ASSUME NEW s \in Sources, Enrich(t, s)
        PROVE  scan' \in [Scanners -> Scanning]
    BY <1>0, <1>5 DEF Enrich, Scanning
  <1>6. CASE WatchGateway(t)
    BY <1>0, <1>6 DEF WatchGateway, LanGoes, Scanning, ScanLabels
  <1>7. CASE NotifyRisks(t)
    BY <1>0, <1>7 DEF NotifyRisks, LanGoes, Scanning, ScanLabels
  <1>8. CASE Publish(t)
    BY <1>0, <1>8 DEF Publish, LanGoes, Scanning, ScanLabels
  <1>9. CASE EndLanScan(t)
    BY <1>0, <1>9, NobodyIsSeen DEF EndLanScan
  <1> QED BY <1>1, <1>2, <1>3, <1>4, <1>5, <1>6, <1>7, <1>8, <1>9 DEF ScanStep

LEMMA UpdateTyped ==
  ASSUME DevicesTypeOK, NEW seen \in Observations, NEW selves \in SUBSET Sources,
         NEW gates \in SUBSET Sources, UpdateInventory(seen, selves, gates)
  PROVE  DevicesTypeOK'
  BY DEF UpdateInventory, DevicesTypeOK, Observations, Ages

LEMMA LanTypeStep ==
  ASSUME LanTypes, [LanNext]_lanAllVars
  PROVE  LanTypes'
  <1>1. ASSUME NEW t \in Scanners, ScanStep(t)
        PROVE  LanTypes'
    <2>0. scan' \in [Scanners -> Scanning]
      BY <1>1, ScanTyped
    <2>a. scan[t] \in Scanning
      BY DEF LanTypes
    <2>1. CASE StartLanScan(t) \/ ReadTable(t) \/ EndLanScan(t)
      BY <2>0, <2>1 DEF LanTypes, StartLanScan, ReadTable, EndLanScan, lanWorld, watchVars, reportVars,
        listVars, deviceVars, DevicesTypeOK
    <2>2. ASSUME NEW s \in Sources, AskAddress(t, s)
          PROVE  LanTypes'
      <3>1. arpTable' \in Observations
        BY <2>2 DEF AskAddress, LanTypes, Observations
      <3> QED
        BY <2>0, <2>2, <3>1 DEF LanTypes, AskAddress, watchVars, reportVars, listVars, deviceVars,
          DevicesTypeOK
    <2>3. CASE TellEngine(t)
      <3>1. DevicesTypeOK'
        BY <2>3, <2>a, UpdateTyped, NeighboursAre, DeviceAssumption DEF TellEngine, LanTypes, Scanning
      <3> QED
        BY <2>0, <2>3, <3>1 DEF LanTypes, TellEngine, lanWorld, watchVars, reportVars, listVars
    <2>4. ASSUME NEW s \in Sources, Enrich(t, s)
          PROVE  LanTypes'
      BY <2>0, <2>4 DEF LanTypes, Enrich, AskRoute, lanWorld, reportVars, listVars, deviceVars,
        DevicesTypeOK
    <2>5. CASE WatchGateway(t)
      <3>1. routeCache' \in Neighbours
        BY <2>5 DEF WatchGateway, AskRoute, LanTypes
      <3>2. scan[t].found[routeCache'] \in Macs \union {NoMac}
        BY <2>a, <3>1, NeighboursAre DEF Scanning, Observations
      <3>3. lastGateway' \in Neighbours \X Macs \union {NoGateway}
        BY <2>5, <3>1, <3>2 DEF WatchGateway, InspectGateway, LanTypes
      <3>4. alarms' \in [Sources -> Nat]
        BY <2>5 DEF WatchGateway, InspectGateway, LanTypes
      <3>5. lapsed' \in BOOLEAN /\ usedGateway' \in Neighbours
        BY <2>5, <3>1 DEF WatchGateway
      <3> QED
        BY <2>0, <2>5, <3>1, <3>3, <3>4, <3>5 DEF LanTypes, WatchGateway, lanWorld, reportVars, listVars,
          deviceVars, DevicesTypeOK
    <2>6. CASE NotifyRisks(t)
      <3>1. notified' \in SUBSET Sources /\ reports' \in [Sources -> Nat]
        BY <2>6, <2>a DEF NotifyRisks, LanTypes, Scanning
      <3> QED
        BY <2>0, <2>6, <3>1 DEF LanTypes, NotifyRisks, lanWorld, watchVars, listVars, deviceVars,
          DevicesTypeOK
    <2>7. CASE Publish(t)
      <3>1. devices'.mac \in Observations /\ devices'.risky \in SUBSET Sources
        BY <2>7, <2>a DEF Publish, Scanning
      <3> QED
        BY <2>0, <2>7, <3>1 DEF LanTypes, Publish, lanWorld, watchVars, reportVars, deviceVars,
          DevicesTypeOK
    <2> QED BY <1>1, <2>1, <2>2, <2>3, <2>4, <2>5, <2>6, <2>7 DEF ScanStep
  <1>2. ASSUME NEW s \in Sources, NEW m \in Macs \union {NoMac}, DeviceMoves(s, m)
        PROVE  LanTypes'
    <2>1. network' \in Observations /\ swaps' \in [Sources -> Nat]
      BY <1>2 DEF DeviceMoves, LanTypes, Observations
    <2>2. moves' \in 0 .. MaxMoves
      BY <1>2, LanAssumption DEF DeviceMoves, LanTypes
    <2> QED
      BY <1>2, <2>1, <2>2 DEF LanTypes, DeviceMoves, watchVars, reportVars, listVars, deviceVars,
        DevicesTypeOK
  <1>3. ASSUME NEW s \in Sources, RouteMoves(s)
        PROVE  LanTypes'
    <2>1. moves' \in 0 .. MaxMoves /\ route' \in Neighbours
      BY <1>3, LanAssumption DEF RouteMoves, LanTypes
    <2> QED
      BY <1>3, <2>1 DEF LanTypes, RouteMoves, watchVars, reportVars, listVars, deviceVars, DevicesTypeOK
  <1>4. ASSUME NEW s \in Sources, TableLearns(s)
        PROVE  LanTypes'
    <2>1. arpTable' \in Observations
      BY <1>4 DEF TableLearns, LanTypes, Observations
    <2> QED
      BY <1>4, <2>1 DEF LanTypes, TableLearns, watchVars, reportVars, listVars, deviceVars, DevicesTypeOK
  <1>5. ASSUME NEW s \in Sources, IsolateShown(s) \/ FreeShown(s)
        PROVE  LanTypes'
    <2>1. DevicesTypeOK'
      BY <1>5 DEF IsolateShown, FreeShown, QuarantineIp, UnquarantineIp, LanTypes, DevicesTypeOK,
        Observations
    <2>2. meant' \in Observations
      BY <1>5 DEF IsolateShown, FreeShown, LanTypes, Observations, lanVars
    <2> QED
      BY <1>5, <2>1, <2>2 DEF LanTypes, IsolateShown, FreeShown, lanVars, lanWorld, watchVars, reportVars
  <1>6. CASE SwitchWatch
    BY <1>6 DEF SwitchWatch, LanTypes, lanWorld, watchVars, reportVars, listVars, deviceVars,
      DevicesTypeOK
  <1>7. CASE Diagnose \/ ShowDevices
    BY <1>7 DEF Diagnose, ShowDevices, LanTypes, lanWorld, watchVars, reportVars, listVars, deviceVars,
      DevicesTypeOK
  <1>8. CASE InventoryAges /\ UNCHANGED lanVars
    BY <1>8 DEF InventoryAges, LanTypes, lanVars, lanWorld, watchVars, reportVars, DevicesTypeOK, Ages
  <1>9. CASE UNCHANGED lanAllVars
    BY <1>9 DEF LanTypes, lanAllVars, lanVars, lanWorld, watchVars, reportVars, deviceVars, DevicesTypeOK
  <1> QED BY <1>1, <1>2, <1>3, <1>4, <1>5, <1>6, <1>7, <1>8, <1>9 DEF LanNext

LEMMA LanTypesHold == LanSpec => []LanTypes
  <1>1. ASSUME LanInit PROVE LanTypes
    <2>1. DevicesTypeOK
      BY <1>1 DEF LanInit, DevicesInit, DevicesTypeOK, Observations, Ages
    <2>2. scan \in [Scanners -> Scanning]
      BY <1>1, NobodyIsSeen DEF LanInit
    <2>3. /\ network \in Observations /\ arpTable \in Observations
          /\ devices.mac \in Observations /\ devices.risky \in SUBSET Sources
          /\ tableMacs \in Observations /\ meant \in Observations
      BY <1>1, NobodyIsSeen DEF LanInit, Observations, EmptyList
    <2>4. moves \in 0 .. MaxMoves
      BY <1>1, LanAssumption DEF LanInit
    <2>5. watching \in BOOLEAN /\ scanning \in BOOLEAN /\ lapsed \in BOOLEAN
      BY <1>1 DEF LanInit
    <2> QED BY <1>1, <2>1, <2>2, <2>3, <2>4, <2>5 DEF LanInit, LanTypes
  <1> QED BY <1>1, LanTypeStep, PTL DEF LanSpec

\* The types of LanScan.
THEOREM LanTypeCorrect == LanSpec => []LanTypeOK
  BY LanTypesHold, LanTypesAre, PTL

-----------------------------------------------------------------------------
\* The scan feeds the quarantine: every step is one of it, or none.
LEMMA LanMovesDevices ==
  ASSUME LanTypes, [LanNext]_lanAllVars
  PROVE  [DeviceMove]_deviceVars
  <1>1. ASSUME NEW t \in Scanners, ScanStep(t)
        PROVE  [DeviceMove]_deviceVars
    <2>1. CASE TellEngine(t)
      <3>1. /\ scan[t].found \in Observations /\ Loopback \in SUBSET Sources
            /\ scan[t].gates \in SUBSET Sources
        BY NeighboursAre, DeviceAssumption DEF LanTypes, Scanning
      <3>2. UpdateInventory(scan[t].found, Loopback, scan[t].gates)
        BY <2>1 DEF TellEngine
      <3> QED BY <3>1, <3>2 DEF DeviceMove
    <2>2. CASE ~TellEngine(t)
      BY <1>1, <2>2 DEF ScanStep, StartLanScan, AskAddress, ReadTable, Enrich, WatchGateway,
        NotifyRisks, Publish, EndLanScan
    <2> QED BY <2>1, <2>2
  <1>2. ASSUME NEW s \in Sources, IsolateShown(s) \/ FreeShown(s)
        PROVE  [DeviceMove]_deviceVars
    BY <1>2 DEF IsolateShown, FreeShown, DeviceMove
  <1>3. ASSUME NEW s \in Sources, NEW m \in Macs \union {NoMac},
               DeviceMoves(s, m) \/ RouteMoves(s) \/ TableLearns(s)
        PROVE  UNCHANGED deviceVars
    BY <1>3 DEF DeviceMoves, RouteMoves, TableLearns
  <1>4. CASE SwitchWatch \/ Diagnose \/ ShowDevices
    BY <1>4 DEF SwitchWatch, Diagnose, ShowDevices
  <1>5. CASE InventoryAges
    BY <1>5 DEF DeviceMove
  <1>6. CASE UNCHANGED lanAllVars
    BY <1>6 DEF lanAllVars
  <1> QED BY <1>1, <1>2, <1>3, <1>4, <1>5, <1>6 DEF LanNext

\* While scans of a changing network feed the inventory and the operator
\* clicks on a table that may be old, neither this machine nor the gateway of
\* the last scan is isolated, and an entry is never another device's.
THEOREM ScansIsolateSafely == LanSpec => []QuarantineSafe
  <1>1. LanInit => QuarantineSafe
    <2> SUFFICES ASSUME LanInit PROVE QuarantineSafe
      OBVIOUS
    <2>1. Isolated = {}
      BY DEF LanInit, DevicesInit, Isolated
    <2> QED BY <2>1, FS_EmptySet, DeviceAssumption DEF QuarantineSafe
  <1>2. LanTypes /\ QuarantineSafe /\ [LanNext]_lanAllVars => QuarantineSafe'
    BY SafeStep, LanMovesDevices DEF LanTypes
  <1> QED BY <1>1, <1>2, LanTypesHold, PTL DEF LanSpec

\* No scan releases an address without evidence either.
THEOREM ScansReleaseOnEvidence == LanSpec => ReleasedOnEvidence
  <1>1. LanTypes /\ [LanNext]_lanAllVars => [ReleaseProven]_deviceVars
    BY ReleaseStep, LanMovesDevices DEF LanTypes
  <1> QED
    BY <1>1, LanTypesHold, PTL DEF LanSpec, ReleasedOnEvidence, ReleaseProven

-----------------------------------------------------------------------------
\* One scan at a time.
ScansApart ==
  /\ \A t \in Scanners : scan[t].pc # "rest" => scanning
  /\ \A t, u \in Scanners : scan[t].pc # "rest" /\ scan[u].pc # "rest" => t = u

\* What the steps of a scan do to the tasks.
LEMMA ScanMoves ==
  ASSUME LanTypes, NEW t \in Scanners
  PROVE  /\ ScanStep(t) => \A u \in Scanners \ {t} : scan'[u] = scan[u]
         /\ StartLanScan(t) => scan[t].pc = "rest" /\ scan'[t] = Begun /\ ~scanning /\ scanning'
         /\ ReadTable(t) => scan[t].pc = "probe" /\ scan'[t].pc = "tell"
         /\ TellEngine(t) => /\ scan[t].pc = "tell" /\ scan'[t].pc = "enrich"
                             /\ scan'[t].found = scan[t].found
         /\ \A s \in Sources :
              /\ AskAddress(t, s) => scan[t].pc = "probe" /\ scan'[t].pc = "probe"
              /\ Enrich(t, s) => /\ scan[t].pc = "enrich" /\ scan'[t].pc = "enrich"
                                 /\ scan'[t].found = scan[t].found
         /\ WatchGateway(t) => /\ scan[t].pc = "enrich" /\ scan'[t].pc = "notify"
                               /\ scan'[t].found = scan[t].found /\ scan'[t].risky = scan[t].risky
         /\ NotifyRisks(t) => /\ scan[t].pc = "notify" /\ scan'[t].pc = "publish"
                              /\ scan'[t].found = scan[t].found /\ scan'[t].risky = scan[t].risky
         /\ Publish(t) => /\ scan[t].pc = "publish" /\ scan'[t].pc = "end"
                          /\ scan'[t].found = scan[t].found /\ scan'[t].risky = scan[t].risky
         /\ EndLanScan(t) => scan[t].pc = "end" /\ scan'[t] = IdleScan /\ ~scanning'
  <1>0. scan \in [Scanners -> Scanning]
    BY DEF LanTypes
  <1>1. ScanStep(t) => \A u \in Scanners \ {t} : scan'[u] = scan[u]
    BY <1>0 DEF ScanStep, StartLanScan, AskAddress, ReadTable, TellEngine, Enrich, WatchGateway,
      NotifyRisks, Publish, EndLanScan, LanGoes
  <1>2. StartLanScan(t) => scan[t].pc = "rest" /\ scan'[t] = Begun /\ ~scanning /\ scanning'
    BY <1>0 DEF StartLanScan, LanAt
  <1>3. EndLanScan(t) => scan[t].pc = "end" /\ scan'[t] = IdleScan /\ ~scanning'
    BY <1>0 DEF EndLanScan, LanAt
  <1>4. ReadTable(t) => scan[t].pc = "probe" /\ scan'[t].pc = "tell"
    BY <1>0 DEF ReadTable, LanAt, Scanning
  <1>5. TellEngine(t) => /\ scan[t].pc = "tell" /\ scan'[t].pc = "enrich"
                        /\ scan'[t].found = scan[t].found
    BY <1>0 DEF TellEngine, LanAt, Scanning
  <1>6. \A s \in Sources :
          /\ AskAddress(t, s) => scan[t].pc = "probe" /\ scan'[t].pc = "probe"
          /\ Enrich(t, s) => /\ scan[t].pc = "enrich" /\ scan'[t].pc = "enrich"
                             /\ scan'[t].found = scan[t].found
    BY <1>0 DEF AskAddress, Enrich, LanAt, Scanning
  <1>7. WatchGateway(t) => /\ scan[t].pc = "enrich" /\ scan'[t].pc = "notify"
                          /\ scan'[t].found = scan[t].found /\ scan'[t].risky = scan[t].risky
    BY <1>0 DEF WatchGateway, LanAt, LanGoes, Scanning
  <1>8. NotifyRisks(t) => /\ scan[t].pc = "notify" /\ scan'[t].pc = "publish"
                         /\ scan'[t].found = scan[t].found /\ scan'[t].risky = scan[t].risky
    BY <1>0 DEF NotifyRisks, LanAt, LanGoes, Scanning
  <1>9. Publish(t) => /\ scan[t].pc = "publish" /\ scan'[t].pc = "end"
                     /\ scan'[t].found = scan[t].found /\ scan'[t].risky = scan[t].risky
    BY <1>0 DEF Publish, LanAt, LanGoes, Scanning
  <1> QED BY <1>1, <1>2, <1>3, <1>4, <1>5, <1>6, <1>7, <1>8, <1>9

\* A step that is not one of a scan leaves the tasks, the list and what they
\* report alone.
LEMMA Around ==
  ASSUME [LanNext]_lanAllVars, ~ \E t \in Scanners : ScanStep(t)
  PROVE  UNCHANGED <<scan, scanning, devices, inventory, lastGateway, alarms, usedGateway, lapsed,
                     notified, reports>>
  BY DEF LanNext, DeviceMoves, RouteMoves, TableLearns, IsolateShown, FreeShown, SwitchWatch,
    Diagnose, ShowDevices, InventoryAges, QuarantineIp, UnquarantineIp, lanAllVars, lanVars, deviceVars,
    watchVars, reportVars, listVars

LEMMA ApartStep ==
  ASSUME LanTypes, ScansApart, [LanNext]_lanAllVars
  PROVE  ScansApart'
  <1>1. ASSUME NEW t \in Scanners, ScanStep(t)
        PROVE  ScansApart'
    <2>0. \A u \in Scanners \ {t} : scan'[u] = scan[u]
      BY <1>1, ScanMoves
    <2>1. CASE StartLanScan(t)
      BY <2>0, <2>1, ScanMoves DEF ScansApart
    <2>2. CASE EndLanScan(t)
      BY <2>0, <2>2, ScanMoves DEF ScansApart, IdleScan
    <2>3. CASE scanning' = scanning /\ scan[t].pc # "rest"
      BY <2>0, <2>3 DEF ScansApart
    <2>4. \/ StartLanScan(t) \/ EndLanScan(t)
          \/ (scanning' = scanning /\ scan[t].pc # "rest")
      <3>1. ASSUME NEW s \in Sources, AskAddress(t, s) \/ Enrich(t, s)
            PROVE  scanning' = scanning /\ scan[t].pc # "rest"
        BY <3>1 DEF AskAddress, Enrich, LanAt
      <3>2. ASSUME ReadTable(t) \/ TellEngine(t) \/ WatchGateway(t) \/ NotifyRisks(t) \/ Publish(t)
            PROVE  scanning' = scanning /\ scan[t].pc # "rest"
        BY <3>2 DEF ReadTable, TellEngine, WatchGateway, NotifyRisks, Publish, LanAt
      <3> QED BY <1>1, <3>1, <3>2 DEF ScanStep
    <2> QED BY <2>1, <2>2, <2>3, <2>4
  <1>2. CASE UNCHANGED <<scan, scanning>>
    BY <1>2 DEF ScansApart
  <1>3. CASE ~ \E t \in Scanners : ScanStep(t)
    BY <1>2, <1>3, Around
  <1> QED BY <1>1, <1>3

-----------------------------------------------------------------------------
\* The list and the inventory.
PictureFit ==
  /\ \A t \in Scanners :
       /\ scan[t].pc \in {"enrich", "notify", "publish", "end"} => inventory = scan[t].found
       /\ scan[t].pc = "end" => devices.mac = scan[t].found
  /\ ~scanning /\ devices # EmptyList => inventory = devices.mac

LEMMA PictureStep ==
  ASSUME LanTypes, ScansApart, PictureFit, [LanNext]_lanAllVars
  PROVE  PictureFit'
  <1>1. ASSUME NEW t \in Scanners, ScanStep(t)
        PROVE  PictureFit'
    <2>0. \A u \in Scanners \ {t} : scan'[u] = scan[u]
      BY <1>1, ScanMoves
    <2>1. CASE StartLanScan(t)
      <3>1. scan'[t].pc = "probe"
        BY <2>1, ScanMoves DEF Begun, IdleScan
      <3>2. UNCHANGED <<devices, inventory>> /\ scanning'
        BY <2>1 DEF StartLanScan, deviceVars, listVars
      <3> QED BY <2>0, <3>1, <3>2 DEF PictureFit
    <2>2. CASE ReadTable(t) \/ \E s \in Sources : AskAddress(t, s)
      <3>1. scan'[t].pc \in {"probe", "tell"} /\ scan[t].pc = "probe"
        BY <2>2, ScanMoves
      <3>2. UNCHANGED <<devices, inventory, scanning>>
        BY <2>2 DEF ReadTable, AskAddress, deviceVars, listVars
      <3> QED BY <2>0, <3>1, <3>2 DEF PictureFit
    <2>3. CASE TellEngine(t)
      <3>1. /\ scan[t].pc = "tell" /\ scan'[t].pc = "enrich" /\ scan'[t].found = scan[t].found
            /\ inventory' = scan[t].found /\ UNCHANGED <<devices, scanning>>
        BY <2>3, ScanMoves DEF TellEngine, UpdateInventory, listVars
      <3>2. \A u \in Scanners \ {t} : scan[u].pc = "rest"
        BY <3>1 DEF ScansApart
      <3>3. scanning
        BY <3>1 DEF ScansApart
      <3> QED BY <2>0, <3>1, <3>2, <3>3 DEF PictureFit
    <2>4. CASE WatchGateway(t) \/ NotifyRisks(t) \/ \E s \in Sources : Enrich(t, s)
      <3>1. scan[t].pc \in {"enrich", "notify"}
        BY <2>4, ScanMoves
      <3>a. scan'[t].pc \in {"enrich", "notify", "publish"} /\ scan'[t].found = scan[t].found
        BY <2>4, ScanMoves
      <3>2. UNCHANGED <<devices, inventory, scanning>>
        BY <2>4 DEF WatchGateway, NotifyRisks, Enrich, deviceVars, listVars
      <3> QED BY <2>0, <3>1, <3>a, <3>2 DEF PictureFit
    <2>5. CASE Publish(t)
      <3>1. /\ scan[t].pc = "publish" /\ scan'[t].pc = "end" /\ scan'[t].found = scan[t].found
            /\ devices'.mac = scan[t].found /\ UNCHANGED <<inventory, scanning>>
        BY <2>5, ScanMoves DEF Publish, deviceVars
      <3>2. \A u \in Scanners \ {t} : scan[u].pc = "rest"
        BY <3>1 DEF ScansApart
      <3>3. scanning
        BY <3>1 DEF ScansApart
      <3> QED BY <2>0, <3>1, <3>2, <3>3 DEF PictureFit
    <2>6. CASE EndLanScan(t)
      <3>1. scan[t].pc = "end" /\ scan'[t] = IdleScan
        BY <2>6, ScanMoves
      <3>2. scan'[t].pc = "rest"
        BY <3>1 DEF IdleScan
      <3>3. UNCHANGED <<inventory, devices>>
        BY <2>6 DEF EndLanScan, deviceVars, listVars
      <3> QED BY <2>0, <3>1, <3>2, <3>3 DEF PictureFit
    <2> QED BY <1>1, <2>1, <2>2, <2>3, <2>4, <2>5, <2>6 DEF ScanStep
  <1>2. CASE ~ \E t \in Scanners : ScanStep(t)
    BY <1>2, Around DEF PictureFit
  <1> QED BY <1>1, <1>2

-----------------------------------------------------------------------------
\* What the operator meant to isolate.
MeantFit ==
  \A s \in Sources : entries[s] # NoMac => meant[s] \in {NoMac, entries[s]}

LEMMA MeantStep ==
  ASSUME LanTypes, PictureFit, MeantFit, [LanNext]_lanAllVars
  PROVE  MeantFit'
  <1>0. entries \in Observations /\ meant \in Observations /\ scan \in [Scanners -> Scanning]
    BY DEF LanTypes, DevicesTypeOK
  <1>1. ASSUME NEW t \in Scanners, TellEngine(t)
        PROVE  MeantFit'
    <2>1. meant' = meant /\ \A s \in Sources : entries'[s] \in {NoMac, entries[s]}
      BY <1>1 DEF TellEngine, UpdateInventory, listVars
    <2> QED BY <2>1 DEF MeantFit
  <1>2. ASSUME NEW s \in Sources, IsolateShown(s)
        PROVE  MeantFit'
    <2>1. /\ entries' = [entries EXCEPT ![s] = inventory[s]] /\ tableMacs[s] # NoMac
          /\ meant' = [meant EXCEPT ![s] = IF scanning \/ tableMacs # devices.mac THEN NoMac
                                                                             ELSE tableMacs[s]]
      BY <1>2 DEF IsolateShown, QuarantineIp
    <2>2. ASSUME ~scanning, tableMacs = devices.mac
          PROVE  inventory[s] = tableMacs[s]
      <3>1. devices # EmptyList
        BY <2>1, <2>2 DEF EmptyList, NobodyThere
      <3> QED BY <2>2, <3>1 DEF PictureFit
    <2>3. meant'[s] \in {NoMac, entries'[s]}
      BY <1>0, <2>1, <2>2 DEF Observations
    <2>4. \A u \in Sources \ {s} : meant'[u] = meant[u] /\ entries'[u] = entries[u]
      BY <1>0, <2>1 DEF Observations
    <2> QED BY <2>3, <2>4 DEF MeantFit
  <1>3. ASSUME NEW s \in Sources, FreeShown(s)
        PROVE  MeantFit'
    BY <1>0, <1>3 DEF FreeShown, UnquarantineIp, MeantFit, Observations, lanVars
  <1>4. CASE UNCHANGED <<entries, meant>>
    BY <1>4 DEF MeantFit
  <1>5. ASSUME NEW t \in Scanners, ScanStep(t)
        PROVE  TellEngine(t) \/ UNCHANGED <<entries, meant>>
    BY <1>5 DEF ScanStep, StartLanScan, AskAddress, ReadTable, Enrich, WatchGateway, NotifyRisks, Publish,
      EndLanScan, deviceVars, listVars
  <1>6. ASSUME NEW s \in Sources, NEW m \in Macs \union {NoMac},
               DeviceMoves(s, m) \/ RouteMoves(s) \/ TableLearns(s)
        PROVE  UNCHANGED <<entries, meant>>
    BY <1>6 DEF DeviceMoves, RouteMoves, TableLearns, deviceVars, listVars
  <1>7. ASSUME SwitchWatch \/ Diagnose \/ ShowDevices \/ (InventoryAges /\ UNCHANGED lanVars)
                \/ UNCHANGED lanAllVars
        PROVE  UNCHANGED <<entries, meant>>
    BY <1>7 DEF SwitchWatch, Diagnose, ShowDevices, InventoryAges, lanAllVars, lanVars, deviceVars,
      listVars
  <1> QED BY <1>1, <1>2, <1>3, <1>4, <1>5, <1>6, <1>7 DEF LanNext

-----------------------------------------------------------------------------
\* The gateway on record, if every scan watched, is the one of a list.
OnRecord(macs) ==
  ~lapsed /\ lastGateway[1] = usedGateway /\ usedGateway # "nowhere" =>
    macs[usedGateway] \in {NoMac, lastGateway[2]}

GateFit ==
  /\ \A t \in Scanners : scan[t].pc \in {"notify", "publish", "end"} => OnRecord(scan[t].found)
  /\ ~scanning => OnRecord(devices.mac)

LEMMA GateStep ==
  ASSUME LanTypes, ScansApart, PictureFit, GateFit, [LanNext]_lanAllVars
  PROVE  GateFit'
  <1>1. ASSUME NEW t \in Scanners, ScanStep(t)
        PROVE  GateFit'
    <2>0. \A u \in Scanners \ {t} : scan'[u] = scan[u]
      BY <1>1, ScanMoves
    <2>1. CASE WatchGateway(t)
      <3>1. scan[t].pc = "enrich" /\ scan'[t].found = scan[t].found
        BY <2>1, ScanMoves
      <3>2. \A u \in Scanners \ {t} : scan'[u].pc = "rest"
        BY <2>0, <3>1 DEF ScansApart
      <3>3. scanning /\ scanning' = scanning
        BY <2>1, <3>1 DEF ScansApart, WatchGateway
      <3>4. scan[t].found[routeCache'] = NoMac \/ lapsed' \/ lastGateway'[2] = scan[t].found[routeCache']
        <4>1. watching \/ lapsed'
          BY <2>1 DEF WatchGateway
        <4>2. watching /\ scan[t].found[routeCache'] # NoMac
                => lastGateway' = <<routeCache', scan[t].found[routeCache']>>
          BY <2>1 DEF WatchGateway, InspectGateway
        <4> QED BY <4>1, <4>2
      <3>5. usedGateway' = routeCache'
        BY <2>1 DEF WatchGateway
      <3>6. OnRecord(scan[t].found)'
        BY <3>1, <3>4, <3>5 DEF OnRecord
      <3> QED BY <3>1, <3>2, <3>3, <3>6 DEF GateFit
    <2>2. CASE ~WatchGateway(t)
      <3>0. UNCHANGED <<lapsed, lastGateway, usedGateway>>
        BY <1>1, <2>2 DEF ScanStep, StartLanScan, AskAddress, ReadTable, TellEngine, Enrich, NotifyRisks,
          Publish, EndLanScan, watchVars
      <3>1. CASE EndLanScan(t)
        <4>1. scan[t].pc = "end" /\ scan'[t] = IdleScan /\ devices' = devices
          BY <3>1, ScanMoves DEF EndLanScan, listVars
        <4>2. scan'[t].pc = "rest"
          BY <4>1 DEF IdleScan
        <4>3. OnRecord(devices.mac)
          BY <4>1 DEF GateFit, PictureFit
        <4> QED BY <2>0, <3>0, <4>1, <4>2, <4>3 DEF GateFit, OnRecord
      <3>2. CASE StartLanScan(t)
        <4>1. scan'[t] = Begun /\ scanning'
          BY <3>2, ScanMoves
        <4>2. scan'[t].pc = "probe"
          BY <4>1 DEF Begun, IdleScan
        <4> QED BY <2>0, <3>0, <4>1, <4>2 DEF GateFit, OnRecord
      <3>3. CASE NotifyRisks(t) \/ Publish(t)
        <4>1. scan[t].pc \in {"notify", "publish"} /\ scan'[t].found = scan[t].found
          BY <3>3, ScanMoves
        <4>2. scanning /\ scanning' = scanning
          BY <3>3, <4>1 DEF ScansApart, NotifyRisks, Publish
        <4> QED BY <2>0, <3>0, <4>1, <4>2 DEF GateFit, OnRecord
      <3>4. CASE ReadTable(t) \/ TellEngine(t) \/ \E s \in Sources : AskAddress(t, s) \/ Enrich(t, s)
        <4>1. scan'[t].pc \in {"probe", "tell", "enrich"}
          BY <3>4, ScanMoves
        <4>2. scanning' = scanning /\ devices' = devices
          BY <3>4 DEF ReadTable, TellEngine, AskAddress, Enrich, listVars
        <4> QED BY <2>0, <3>0, <4>1, <4>2 DEF GateFit, OnRecord
      <3> QED BY <1>1, <2>2, <3>1, <3>2, <3>3, <3>4 DEF ScanStep
    <2> QED BY <2>1, <2>2
  <1>2. CASE ~ \E t \in Scanners : ScanStep(t)
    BY <1>2, Around DEF GateFit, OnRecord
  <1> QED BY <1>1, <1>2

-----------------------------------------------------------------------------
\* An address is reported when it is notified, and what is listed as risky has
\* been.
RiskFit ==
  /\ \A s \in Sources : reports[s] = IF s \in notified THEN 1 ELSE 0
  /\ devices.risky \subseteq notified
  /\ \A t \in Scanners : scan[t].pc \in {"publish", "end"} => scan[t].risky \subseteq notified

LEMMA RiskStep ==
  ASSUME LanTypes, RiskFit, [LanNext]_lanAllVars
  PROVE  RiskFit'
  <1>1. ASSUME NEW t \in Scanners, ScanStep(t)
        PROVE  RiskFit'
    <2>0. \A u \in Scanners \ {t} : scan'[u] = scan[u]
      BY <1>1, ScanMoves
    <2>1. CASE NotifyRisks(t)
      <3>1. /\ notified' = notified \union scan[t].risky /\ devices' = devices
            /\ reports' = [s \in Sources |-> IF s \in scan[t].risky \ notified THEN reports[s] + 1
                                                                          ELSE reports[s]]
        BY <2>1 DEF NotifyRisks, listVars
      <3>2. scan'[t].risky = scan[t].risky
        BY <2>1, ScanMoves
      <3> QED BY <2>0, <3>1, <3>2 DEF RiskFit
    <2>2. CASE Publish(t)
      <3>1. /\ scan[t].pc = "publish" /\ scan'[t].risky = scan[t].risky
            /\ devices'.risky = scan[t].risky /\ UNCHANGED reportVars
        BY <2>2, ScanMoves DEF Publish
      <3> QED BY <2>0, <3>1 DEF RiskFit, reportVars
    <2>3. CASE EndLanScan(t) \/ StartLanScan(t)
      <3>1. UNCHANGED <<devices, notified, reports>>
        BY <2>3 DEF EndLanScan, StartLanScan, listVars, reportVars
      <3>2. scan'[t].pc \in {"rest", "probe"}
        <4>1. IdleScan.pc = "rest" /\ Begun.pc = "probe"
          BY DEF IdleScan, Begun
        <4> QED BY <2>3, <4>1, ScanMoves
      <3> QED BY <2>0, <3>1, <3>2 DEF RiskFit
    <2>4. CASE ReadTable(t) \/ TellEngine(t) \/ WatchGateway(t)
            \/ \E s \in Sources : AskAddress(t, s) \/ Enrich(t, s)
      <3>1. scan'[t].pc \in {"probe", "tell", "enrich", "notify"}
        BY <2>4, ScanMoves
      <3>2. UNCHANGED <<devices, notified, reports>>
        BY <2>4 DEF ReadTable, TellEngine, WatchGateway, AskAddress, Enrich, listVars, reportVars
      <3> QED BY <2>0, <3>1, <3>2 DEF RiskFit
    <2> QED BY <1>1, <2>1, <2>2, <2>3, <2>4 DEF ScanStep
  <1>2. CASE ~ \E t \in Scanners : ScanStep(t)
    BY <1>2, Around DEF RiskFit
  <1> QED BY <1>1, <1>2

-----------------------------------------------------------------------------
(***************************************************************************)
(* Alarms.  What is known of an address's MAC is, from the oldest to the   *)
(* newest: the record of the gateway, what the scan found, what the        *)
(* operating system remembers, and what is there.  Of the changes between  *)
(* these no alarm has been made, and there were as many swaps at least.    *)
(***************************************************************************)
Newer(a, b) == IF b = NoMac THEN a ELSE b
Differ(a, b) == IF a = NoMac \/ b = a THEN 0 ELSE 1

Changes(l, f, a, n) ==
  Differ(l, Newer(l, f)) + Differ(Newer(l, f), Newer(Newer(l, f), a))
    + Differ(Newer(Newer(l, f), a), Newer(Newer(Newer(l, f), a), n))

LEMMA ChangesGo ==
  ASSUME NEW l, NEW f, NEW a, NEW n
  PROVE  /\ Changes(l, f, a, n) \in Nat
         /\ \A m : Changes(l, f, a, m) <= Changes(l, f, a, n) + 1
         /\ Changes(l, f, n, n) <= Changes(l, f, a, n)
         /\ Changes(l, NoMac, n, n) <= Changes(l, f, a, n)
         /\ Changes(l, n, n, n) <= Changes(l, f, a, n)
         /\ Changes(l, a, a, n) <= Changes(l, NoMac, a, n)
         /\ Changes(l, NoMac, a, n) <= Changes(l, f, a, n)
         /\ Changes(NoMac, f, a, n) <= Changes(l, f, a, n)
         /\ Changes(NoMac, NoMac, a, n) <= Changes(l, f, a, n)
         /\ f # NoMac =>
              /\ Changes(f, NoMac, a, n) + Differ(l, f) <= Changes(l, f, a, n)
              /\ Changes(f, NoMac, a, n) <= Changes(l, f, a, n)
  BY DEF Changes, Newer, Differ

RecordOf(s) == IF lastGateway[1] = s THEN lastGateway[2] ELSE NoMac

AlarmsLeft(s, f) == alarms[s] + Changes(RecordOf(s), f, arpTable[s], network[s]) <= swaps[s]

AlarmFit ==
  \A s \in Sources :
    /\ AlarmsLeft(s, NoMac)
    /\ \A t \in Scanners :
         scan[t].pc \in {"probe", "tell", "enrich"} => AlarmsLeft(s, scan[t].found[s])

LEMMA AlarmStep ==
  ASSUME LanTypes, ScansApart, AlarmFit, [LanNext]_lanAllVars
  PROVE  AlarmFit'
  <1>0. /\ alarms \in [Sources -> Nat] /\ swaps \in [Sources -> Nat]
        /\ scan \in [Scanners -> Scanning] /\ network \in Observations /\ arpTable \in Observations
    BY DEF LanTypes
  <1>n. \A l, f, a, n : Changes(l, f, a, n) \in Nat
    BY ChangesGo
  \* Nothing that an address's count is made of changes.
  <1>f. ASSUME UNCHANGED <<lastGateway, alarms, arpTable, network, swaps>>,
               \A t \in Scanners : scan'[t].pc \in {"probe", "tell", "enrich"} =>
                 /\ scan[t].pc \in {"probe", "tell", "enrich"} /\ scan'[t].found = scan[t].found
                 \/ scan'[t].found = NobodyThere
        PROVE  AlarmFit'
    BY <1>f DEF AlarmFit, AlarmsLeft, RecordOf, NobodyThere
  <1>1. ASSUME NEW t \in Scanners, ScanStep(t)
        PROVE  AlarmFit'
    <2>0. \A u \in Scanners \ {t} : scan'[u] = scan[u]
      BY <1>1, ScanMoves
    <2>1. CASE StartLanScan(t) \/ EndLanScan(t)
      <3>1. UNCHANGED <<lastGateway, alarms, arpTable, network, swaps>>
        BY <2>1 DEF StartLanScan, EndLanScan, lanWorld, watchVars
      <3>2. IdleScan.found = NobodyThere /\ Begun.found = NobodyThere
        BY DEF IdleScan, Begun
      <3>3. scan'[t].found = NobodyThere
        BY <2>1, <3>2, ScanMoves
      <3> QED BY <2>0, <3>1, <3>3, <1>f
    <2>2. CASE TellEngine(t) \/ \E s \in Sources : Enrich(t, s)
      <3>1. UNCHANGED <<lastGateway, alarms, arpTable, network, swaps>>
        BY <2>2 DEF TellEngine, Enrich, lanWorld, watchVars
      <3>2. scan[t].pc \in {"tell", "enrich"} /\ scan'[t].found = scan[t].found
        BY <2>2, ScanMoves
      <3> QED BY <2>0, <3>1, <3>2, <1>f
    <2>3. CASE NotifyRisks(t) \/ Publish(t)
      <3>1. UNCHANGED <<lastGateway, alarms, arpTable, network, swaps>>
        BY <2>3 DEF NotifyRisks, Publish, lanWorld, watchVars
      <3>2. scan'[t].pc \in {"publish", "end"}
        BY <2>3, ScanMoves
      <3> QED BY <2>0, <3>1, <3>2, <1>f
    <2>4. CASE ReadTable(t)
      <3>1. UNCHANGED <<lastGateway, alarms, arpTable, network, swaps>>
        BY <2>4 DEF ReadTable, lanWorld, watchVars
      <3>2. scan[t].pc = "probe" /\ scan'[t].found = Filled(scan[t].found)
        BY <1>0, <2>4 DEF ReadTable, LanAt, Scanning
      <3>3. \A s \in Sources : scan'[t].found[s] \in {scan[t].found[s], arpTable[s]}
              /\ (scan[t].found[s] # NoMac => scan'[t].found[s] = scan[t].found[s])
        BY <3>2 DEF Filled
      <3>4. ASSUME NEW s \in Sources
            PROVE  AlarmsLeft(s, scan'[t].found[s])
        <4>1. CASE scan'[t].found[s] = scan[t].found[s]
          BY <3>2, <4>1 DEF AlarmFit
        <4>2. CASE scan[t].found[s] = NoMac /\ scan'[t].found[s] = arpTable[s]
          <5>1. AlarmsLeft(s, NoMac)
            BY DEF AlarmFit
          <5>2. Changes(RecordOf(s), arpTable[s], arpTable[s], network[s])
                  <= Changes(RecordOf(s), NoMac, arpTable[s], network[s])
            BY ChangesGo
          <5> QED BY <1>0, <1>n, <4>2, <5>1, <5>2 DEF AlarmsLeft
        <4> QED BY <3>3, <4>1, <4>2
      <3> QED BY <2>0, <3>1, <3>4 DEF AlarmFit, AlarmsLeft, RecordOf
    <2>5. ASSUME NEW s \in Sources, AskAddress(t, s)
          PROVE  AlarmFit'
      <3>1. /\ UNCHANGED <<lastGateway, alarms, network, swaps>> /\ scan[t].pc = "probe"
            /\ \/ /\ arpTable' = [arpTable EXCEPT ![s] = network[s]]
                  /\ scan'[t].found = [scan[t].found EXCEPT ![s] = network[s]]
               \/ arpTable' = arpTable /\ scan'[t].found = scan[t].found
        BY <1>0, <2>5 DEF AskAddress, LanAt, watchVars, Scanning
      <3>2. CASE arpTable' = arpTable /\ scan'[t].found = scan[t].found
        BY <2>0, <3>1, <3>2, <1>f
      <3>3. CASE /\ arpTable' = [arpTable EXCEPT ![s] = network[s]]
                 /\ scan'[t].found = [scan[t].found EXCEPT ![s] = network[s]]
        <4>1. \A u \in Sources \ {s} : /\ arpTable'[u] = arpTable[u]
                                      /\ scan'[t].found[u] = scan[t].found[u]
          BY <1>0, <3>3 DEF Observations, Scanning
        <4>2. arpTable'[s] = network[s] /\ scan'[t].found[s] = network[s]
          BY <1>0, <3>3 DEF Observations, Scanning
        <4>3. /\ Changes(RecordOf(s), NoMac, network[s], network[s])
                   <= Changes(RecordOf(s), NoMac, arpTable[s], network[s])
              /\ Changes(RecordOf(s), network[s], network[s], network[s])
                   <= Changes(RecordOf(s), NoMac, arpTable[s], network[s])
          BY ChangesGo
        <4>4. alarms[s] + Changes(RecordOf(s), NoMac, arpTable[s], network[s]) <= swaps[s]
          BY DEF AlarmFit, AlarmsLeft
        <4>5. AlarmsLeft(s, NoMac)' /\ AlarmsLeft(s, scan[t].found[s])'
          BY <1>0, <1>n, <3>1, <4>2, <4>3, <4>4 DEF AlarmsLeft, RecordOf
        <4>6. \A u \in Scanners \ {t} : scan'[u].pc = "rest"
          BY <2>0, <3>1 DEF ScansApart
        <4>7. \A u \in Sources \ {s} : AlarmsLeft(u, NoMac)' /\ AlarmsLeft(u, scan[t].found[u])'
          BY <3>1, <4>1 DEF AlarmFit, AlarmsLeft, RecordOf
        <4> QED BY <4>5, <4>6, <4>7 DEF AlarmFit
      <3> QED BY <3>1, <3>2, <3>3
    <2>6. CASE WatchGateway(t)
      <3>1. scan[t].pc = "enrich" /\ scan'[t].pc = "notify"
        BY <2>6, ScanMoves
      <3>2. \A u \in Scanners : scan'[u].pc \in {"rest", "notify"}
        BY <2>0, <3>1 DEF ScansApart
      <3>3. UNCHANGED <<arpTable, network, swaps>>
        BY <2>6 DEF WatchGateway, lanWorld
      <3>4. CASE UNCHANGED <<lastGateway, alarms>>
        BY <3>2, <3>3, <3>4, <1>f
      <3>5. ASSUME lastGateway' = <<routeCache', scan[t].found[routeCache']>>,
                   scan[t].found[routeCache'] # NoMac,
                   alarms' = [s \in Sources |-> alarms[s] +
                     IF s = routeCache' /\ s = lastGateway[1]
                          /\ lastGateway # <<routeCache', scan[t].found[routeCache']>> THEN 1 ELSE 0]
            PROVE  AlarmFit'
        <4>0. PICK g, f : g = routeCache' /\ f = scan[t].found[routeCache']
          OBVIOUS
        <4>a. /\ lastGateway' = <<g, f>> /\ f # NoMac
              /\ alarms' = [s \in Sources |-> alarms[s] +
                   IF s = g /\ s = lastGateway[1] /\ lastGateway # <<g, f>> THEN 1 ELSE 0]
          BY <3>5, <4>0
        <4>1. ASSUME NEW s \in Sources, s # g
              PROVE  AlarmsLeft(s, NoMac)'
          <5>1. RecordOf(s)' = NoMac /\ alarms'[s] = alarms[s]
            BY <1>0, <4>a, <4>1 DEF RecordOf
          <5>2. AlarmsLeft(s, NoMac)
            BY DEF AlarmFit
          <5>3. Changes(NoMac, NoMac, arpTable[s], network[s])
                  <= Changes(RecordOf(s), NoMac, arpTable[s], network[s])
            BY ChangesGo
          <5> QED BY <1>0, <1>n, <3>3, <5>1, <5>2, <5>3 DEF AlarmsLeft
        <4>2. ASSUME g \in Sources
              PROVE  AlarmsLeft(g, NoMac)'
          <5>1. RecordOf(g)' = f
            BY <4>a DEF RecordOf
          <5>2. alarms'[g] <= alarms[g] + Differ(RecordOf(g), f)
            <6>1. CASE g = lastGateway[1] /\ lastGateway # <<g, f>>
              <7>1. lastGateway = <<lastGateway[1], lastGateway[2]>> /\ lastGateway[2] \in Macs
                BY <4>2, <6>1, NeighboursAre DEF LanTypes, NoGateway
              <7>2. RecordOf(g) # NoMac /\ RecordOf(g) # f
                BY <6>1, <7>1, DeviceAssumption DEF RecordOf
              <7> QED BY <1>0, <4>a, <4>2, <6>1, <7>2 DEF Differ
            <6>2. CASE ~(g = lastGateway[1] /\ lastGateway # <<g, f>>)
              <7>1. alarms'[g] = alarms[g]
                BY <1>0, <4>a, <4>2, <6>2
              <7> QED BY <1>0, <4>2, <7>1 DEF Differ
            <6> QED BY <6>1, <6>2
          <5>3. AlarmsLeft(g, f)
            BY <3>1, <4>0, <4>2 DEF AlarmFit
          <5>4. Changes(f, NoMac, arpTable[g], network[g]) + Differ(RecordOf(g), f)
                  <= Changes(RecordOf(g), f, arpTable[g], network[g])
            BY <4>a, ChangesGo
          <5>5. alarms'[g] \in Nat /\ Differ(RecordOf(g), f) \in Nat
            BY <1>0, <4>a, <4>2 DEF Differ
          <5>6. alarms'[g] + Changes(f, NoMac, arpTable[g], network[g]) <= swaps[g]
            BY <1>0, <1>n, <4>2, <5>2, <5>3, <5>4, <5>5 DEF AlarmsLeft
          <5> QED BY <3>3, <5>1, <5>6 DEF AlarmsLeft
        <4> QED BY <3>2, <4>1, <4>2 DEF AlarmFit
      <3> QED BY <2>6, <3>4, <3>5 DEF WatchGateway, InspectGateway
    <2> QED BY <1>1, <2>1, <2>2, <2>3, <2>4, <2>5, <2>6 DEF ScanStep
  <1>2. ASSUME NEW s \in Sources, NEW m \in Macs \union {NoMac}, DeviceMoves(s, m)
        PROVE  AlarmFit'
    <2>1. /\ UNCHANGED <<lastGateway, alarms, arpTable, scan>>
          /\ network' = [network EXCEPT ![s] = m] /\ swaps' = [swaps EXCEPT ![s] = @ + 1]
      BY <1>2 DEF DeviceMoves, watchVars
    <2>2. /\ network'[s] = m /\ swaps'[s] = swaps[s] + 1
          /\ \A u \in Sources \ {s} : network'[u] = network[u] /\ swaps'[u] = swaps[u]
      BY <1>0, <2>1 DEF Observations
    <2>3. ASSUME NEW f, AlarmsLeft(s, f)
          PROVE  alarms[s] + Changes(RecordOf(s), f, arpTable[s], m) <= swaps'[s]
      <3>1. Changes(RecordOf(s), f, arpTable[s], m) <= Changes(RecordOf(s), f, arpTable[s], network[s]) + 1
        BY ChangesGo
      <3> QED BY <1>0, <1>n, <2>2, <2>3, <3>1 DEF AlarmsLeft
    <2> QED BY <2>1, <2>2, <2>3 DEF AlarmFit, AlarmsLeft, RecordOf
  <1>3. ASSUME NEW s \in Sources, TableLearns(s)
        PROVE  AlarmFit'
    <2>1. /\ UNCHANGED <<lastGateway, alarms, network, swaps, scan>>
          /\ arpTable' = [arpTable EXCEPT ![s] = network[s]]
      BY <1>3 DEF TableLearns, watchVars
    <2>2. /\ arpTable'[s] = network[s]
          /\ \A u \in Sources \ {s} : arpTable'[u] = arpTable[u]
      BY <1>0, <2>1 DEF Observations
    <2>3. ASSUME NEW f, AlarmsLeft(s, f)
          PROVE  alarms[s] + Changes(RecordOf(s), f, network[s], network[s]) <= swaps[s]
      <3>1. Changes(RecordOf(s), f, network[s], network[s])
              <= Changes(RecordOf(s), f, arpTable[s], network[s])
        BY ChangesGo
      <3> QED BY <1>0, <1>n, <2>3, <3>1 DEF AlarmsLeft
    <2> QED BY <2>1, <2>2, <2>3 DEF AlarmFit, AlarmsLeft, RecordOf
  <1>4. ASSUME NEW s \in Sources, RouteMoves(s) \/ IsolateShown(s) \/ FreeShown(s)
        PROVE  AlarmFit'
    <2>1. UNCHANGED <<lastGateway, alarms, arpTable, network, swaps, scan>>
      BY <1>4 DEF RouteMoves, IsolateShown, FreeShown, lanVars, lanWorld, watchVars
    <2> QED BY <2>1, <1>f
  <1>5. ASSUME SwitchWatch \/ Diagnose \/ ShowDevices \/ (InventoryAges /\ UNCHANGED lanVars)
                \/ UNCHANGED lanAllVars
        PROVE  AlarmFit'
    <2>1. UNCHANGED <<lastGateway, alarms, arpTable, network, swaps, scan>>
      BY <1>5 DEF SwitchWatch, Diagnose, ShowDevices, lanAllVars, lanVars, lanWorld, watchVars
    <2> QED BY <2>1, <1>f
  <1> QED BY <1>1, <1>2, <1>3, <1>4, <1>5 DEF LanNext

-----------------------------------------------------------------------------
\* Scans never mix: list and inventory are one picture between two scans, what
\* is isolated is what the operator saw, the gateway alarms and its record fit
\* the changes of its MAC, and each risky address is reported once; for any
\* addresses, devices, tasks and changes of the network.
THEOREM ScansStayApart == LanSpec => []ScansDoNotMix
  <1>1. LanInit => ScansApart /\ PictureFit /\ MeantFit /\ GateFit /\ RiskFit /\ AlarmFit
    <2> SUFFICES ASSUME LanInit
                 PROVE  ScansApart /\ PictureFit /\ MeantFit /\ GateFit /\ RiskFit /\ AlarmFit
      OBVIOUS
    <2>1. \A t \in Scanners : scan[t].pc = "rest"
      BY DEF LanInit, IdleScan
    <2>2. ScansApart /\ PictureFit /\ MeantFit
      BY <2>1 DEF LanInit, DevicesInit, ScansApart, PictureFit, MeantFit
    <2>3. GateFit /\ RiskFit
      BY <2>1 DEF LanInit, GateFit, OnRecord, RiskFit, EmptyList
    <2>4. ASSUME NEW s \in Sources
          PROVE  AlarmsLeft(s, NoMac)
      <3>1. RecordOf(s) = NoMac /\ alarms[s] = 0 /\ swaps[s] = 0 /\ arpTable[s] = network[s]
        BY NeighboursAre DEF LanInit, RecordOf, NoGateway
      <3>2. Changes(NoMac, NoMac, network[s], network[s]) = 0
        BY DEF Changes, Newer, Differ
      <3> QED BY <3>1, <3>2 DEF AlarmsLeft
    <2> QED BY <2>1, <2>2, <2>3, <2>4 DEF AlarmFit
  <1>2. /\ LanTypes /\ ScansApart /\ PictureFit /\ MeantFit /\ GateFit /\ RiskFit /\ AlarmFit
        /\ [LanNext]_lanAllVars
        => (ScansApart /\ PictureFit /\ MeantFit /\ GateFit /\ RiskFit /\ AlarmFit)'
    BY ApartStep, PictureStep, MeantStep, GateStep, RiskStep, AlarmStep
  <1>3. LanTypes /\ PictureFit /\ MeantFit /\ GateFit /\ RiskFit /\ AlarmFit => ScansDoNotMix
    <2> SUFFICES ASSUME LanTypes, PictureFit, MeantFit, GateFit, RiskFit, AlarmFit
                 PROVE  ScansDoNotMix
      OBVIOUS
    <2>1. \A s \in Sources : alarms[s] <= swaps[s]
      <3> SUFFICES ASSUME NEW s \in Sources PROVE alarms[s] <= swaps[s]
        OBVIOUS
      <3>1. AlarmsLeft(s, NoMac) /\ Changes(RecordOf(s), NoMac, arpTable[s], network[s]) \in Nat
        BY ChangesGo DEF AlarmFit
      <3> QED BY <3>1 DEF AlarmsLeft, LanTypes
    <2>2. \A s \in Sources : reports[s] <= 1 /\ (s \in devices.risky => reports[s] = 1)
      BY DEF RiskFit
    <2>3. \A s \in Isolated : meant[s] \in {NoMac, entries[s]}
      BY DEF MeantFit, Isolated
    <2> QED BY <2>1, <2>2, <2>3 DEF ScansDoNotMix, PictureFit, GateFit, OnRecord
  <1> QED BY <1>1, <1>2, <1>3, LanTypesHold, PTL DEF LanSpec

-----------------------------------------------------------------------------
(***************************************************************************)
(* A scan of the network ends, and with it the flag that keeps others out. *)
(***************************************************************************)
\* Steps that a scan has still to make: one for each address it asks, and
\* again one for each it looks at.
Behind ==
  LET all == Cardinality(Sources) IN
  [rest |-> 0, end |-> 1, publish |-> 2, notify |-> 3, enrich |-> 4, tell |-> all + 5,
   probe |-> all + 6]
LanEffort(w) == Behind[w.pc] + Cardinality(w.left)

\* is_scanning is on just while a scan is on its way.
FlagIsHeld == scanning <=> \E t \in Scanners : scan[t].pc # "rest"

\* A step of a scan brings it nearer to its end, and no other step, of another
\* task or of the network, touches it.
LanAdvances(t) ==
  /\ ScanStep(t) /\ scan[t].pc # "rest" => LanEffort(scan'[t]) < LanEffort(scan[t])
  /\ ScanStep(t) /\ scan[t].pc = "rest" => scan'[t] = Begun
  /\ ~ScanStep(t) => scan'[t] = scan[t]

LEMMA LeftCounts ==
  ASSUME NEW w \in Scanning
  PROVE  /\ IsFiniteSet(w.left) /\ Cardinality(w.left) \in Nat /\ Cardinality(Sources) \in Nat
         /\ Cardinality(w.left) <= Cardinality(Sources)
  <1>1. w.left \subseteq Sources /\ IsFiniteSet(Sources)
    BY DeviceAssumption DEF Scanning
  <1> QED BY <1>1, FS_Subset, FS_CardinalityType

\* A scan that begins has two steps for each address before it, and six more.
LEMMA EffortIsBounded ==
  /\ \A w \in Scanning : LanEffort(w) \in Nat /\ (LanEffort(w) = 0 => w.pc = "rest")
  /\ LanEffort(Begun) <= 2 * Cardinality(Sources) + 6
  <1>1. ASSUME NEW w \in Scanning
        PROVE  LanEffort(w) \in Nat /\ (LanEffort(w) = 0 => w.pc = "rest")
    <2>1. w.pc \in ScanLabels
      BY DEF Scanning
    <2>2. Cardinality(w.left) \in Nat /\ Cardinality(Sources) \in Nat
      BY LeftCounts
    <2>3. Behind[w.pc] \in Nat /\ (w.pc # "rest" => Behind[w.pc] > 0)
      BY <2>1, <2>2 DEF Behind, ScanLabels
    <2> QED BY <2>2, <2>3 DEF LanEffort
  <1>2. /\ Begun.pc = "probe" /\ Begun.left = Neighbours
        /\ IsFiniteSet(Sources) /\ Neighbours \subseteq Sources
    BY DeviceAssumption, NeighboursAre DEF Begun, IdleScan
  <1>3. /\ Cardinality(Begun.left) <= Cardinality(Sources)
        /\ Cardinality(Begun.left) \in Nat /\ Cardinality(Sources) \in Nat
    BY <1>2, FS_Subset, FS_CardinalityType
  <1>4. Behind[Begun.pc] = Cardinality(Sources) + 6
    BY <1>2 DEF Behind
  <1>5. LanEffort(Begun) <= 2 * Cardinality(Sources) + 6
    BY <1>3, <1>4 DEF LanEffort
  <1> QED BY <1>1, <1>5

\* An address that is left is one step.
LEMMA OneLess ==
  ASSUME NEW w \in Scanning, NEW s \in w.left, NEW v, v.pc = w.pc, v.left = w.left \ {s}
  PROVE  LanEffort(v) < LanEffort(w)
  <1>1. /\ IsFiniteSet(w.left) /\ Cardinality(w.left) \in Nat
        /\ Cardinality(v.left) = Cardinality(w.left) - 1
    BY LeftCounts, FS_RemoveElement
  <1>2. Behind[w.pc] \in Nat
    BY LeftCounts DEF Behind, Scanning, ScanLabels
  <1> QED BY <1>1, <1>2 DEF LanEffort

\* Going to a later label is one less, with what was left or, for those that
\* are looked at, at most all.
LEMMA NextLabel ==
  ASSUME NEW w \in Scanning, NEW v,
         \/ w.pc = "probe" /\ v.pc = "tell" /\ v.left = w.left
         \/ w.pc = "tell" /\ v.pc = "enrich" /\ v.left \subseteq Sources
         \/ w.pc = "enrich" /\ v.pc = "notify" /\ v.left = w.left
         \/ w.pc = "notify" /\ v.pc = "publish" /\ v.left = w.left
         \/ w.pc = "publish" /\ v.pc = "end" /\ v.left = w.left
         \/ w.pc = "end" /\ v.pc = "rest" /\ v.left = {}
  PROVE  LanEffort(v) < LanEffort(w)
  <1>1. /\ Cardinality(w.left) \in Nat /\ Cardinality(Sources) \in Nat /\ IsFiniteSet(Sources)
    BY LeftCounts, DeviceAssumption
  <1>2. CASE w.pc = "tell" /\ v.pc = "enrich" /\ v.left \subseteq Sources
    <2>1. Cardinality(v.left) <= Cardinality(Sources) /\ Cardinality(v.left) \in Nat
      BY <1>1, <1>2, FS_Subset, FS_CardinalityType
    <2>2. Behind[v.pc] = 4 /\ Behind[w.pc] = Cardinality(Sources) + 5
      BY <1>2 DEF Behind
    <2> QED BY <1>1, <2>1, <2>2 DEF LanEffort
  <1>3. CASE w.pc = "end" /\ v.pc = "rest" /\ v.left = {}
    <2>1. Behind[v.pc] = 0 /\ Behind[w.pc] = 1 /\ Cardinality(v.left) = 0
      BY <1>3, FS_EmptySet DEF Behind
    <2> QED BY <1>1, <2>1 DEF LanEffort
  <1>4. CASE /\ v.left = w.left
             /\ \/ w.pc = "probe" /\ v.pc = "tell"
                \/ w.pc = "enrich" /\ v.pc = "notify"
                \/ w.pc = "notify" /\ v.pc = "publish"
                \/ w.pc = "publish" /\ v.pc = "end"
    <2>1. Behind[v.pc] + 1 = Behind[w.pc] /\ Behind[v.pc] \in Nat
      BY <1>1, <1>4 DEF Behind
    <2> QED BY <1>1, <1>4, <2>1 DEF LanEffort
  <1> QED BY <1>2, <1>3, <1>4

LEMMA LanStepAdvances ==
  ASSUME LanTypes, NEW t \in Scanners, ScanStep(t)
  PROVE  LanAdvances(t)
  <1> DEFINE old == scan[t]
  <1>1. scan \in [Scanners -> Scanning] /\ old \in Scanning
    BY DEF LanTypes
  <1>2. CASE StartLanScan(t)
    BY <1>2, ScanMoves DEF LanAdvances
  <1>3. ASSUME NEW s \in Sources, AskAddress(t, s) \/ Enrich(t, s)
        PROVE  LanAdvances(t)
    <2>1. old.pc # "rest" /\ s \in old.left /\ scan'[t].pc = old.pc /\ scan'[t].left = old.left \ {s}
      BY <1>1, <1>3 DEF AskAddress, Enrich, LanAt, Scanning
    <2>2. LanEffort(scan'[t]) < LanEffort(old)
      BY <1>1, <2>1, OneLess
    <2> QED BY <2>1, <2>2 DEF LanAdvances
  <1>4. CASE ReadTable(t)
    <2>1. old.pc = "probe" /\ scan'[t].pc = "tell" /\ scan'[t].left = old.left
      BY <1>1, <1>4 DEF ReadTable, LanAt, Scanning
    <2> QED BY <1>1, <2>1, NextLabel DEF LanAdvances
  <1>5. CASE TellEngine(t)
    <2>1. old.pc = "tell" /\ scan'[t].pc = "enrich" /\ scan'[t].left \subseteq Sources
      BY <1>1, <1>5 DEF TellEngine, LanAt, Scanning
    <2> QED BY <1>1, <2>1, NextLabel DEF LanAdvances
  <1>6. CASE WatchGateway(t) \/ NotifyRisks(t) \/ Publish(t)
    <2>1. /\ scan'[t].left = old.left
          /\ \/ old.pc = "enrich" /\ scan'[t].pc = "notify"
             \/ old.pc = "notify" /\ scan'[t].pc = "publish"
             \/ old.pc = "publish" /\ scan'[t].pc = "end"
      BY <1>1, <1>6 DEF WatchGateway, NotifyRisks, Publish, LanAt, LanGoes, Scanning
    <2> QED BY <1>1, <2>1, NextLabel DEF LanAdvances
  <1>7. CASE EndLanScan(t)
    <2>1. old.pc = "end" /\ scan'[t].pc = "rest" /\ scan'[t].left = {}
      BY <1>7, ScanMoves DEF IdleScan
    <2> QED BY <1>1, <2>1, NextLabel DEF LanAdvances
  <1> QED BY <1>2, <1>3, <1>4, <1>5, <1>6, <1>7 DEF ScanStep

\* The flag goes on and off with the scan that holds it.
LEMMA FlagStep ==
  ASSUME LanTypes, ScansApart, FlagIsHeld, [LanNext]_lanAllVars
  PROVE  FlagIsHeld'
  <1>1. ASSUME NEW t \in Scanners, ScanStep(t)
        PROVE  FlagIsHeld'
    <2>1. CASE StartLanScan(t)
      <3>1. scan'[t].pc = "probe" /\ scanning'
        BY <2>1, ScanMoves DEF Begun, IdleScan
      <3> QED BY <3>1 DEF FlagIsHeld
    <2>2. CASE EndLanScan(t)
      <3>1. /\ scan[t].pc = "end" /\ scan'[t].pc = "rest" /\ ~scanning'
            /\ \A u \in Scanners \ {t} : scan'[u] = scan[u]
        BY <1>1, <2>2, ScanMoves DEF IdleScan
      <3>2. \A u \in Scanners : scan'[u].pc = "rest"
        BY <3>1 DEF ScansApart
      <3> QED BY <3>1, <3>2 DEF FlagIsHeld
    <2>3. ASSUME ~StartLanScan(t), ~EndLanScan(t)
          PROVE  FlagIsHeld'
      <3>1. scanning' = scanning /\ scan[t].pc # "rest" /\ scan'[t].pc # "rest"
        <4>1. ASSUME NEW s \in Sources, AskAddress(t, s) \/ Enrich(t, s)
              PROVE  scanning' = scanning /\ scan[t].pc # "rest" /\ scan'[t].pc # "rest"
          <5>1. scan[t].pc \in {"probe", "enrich"} /\ scan'[t].pc \in {"probe", "enrich"}
            BY <4>1, ScanMoves
          <5> QED BY <4>1, <5>1 DEF AskAddress, Enrich
        <4>2. ASSUME ReadTable(t) \/ TellEngine(t) \/ WatchGateway(t) \/ NotifyRisks(t) \/ Publish(t)
              PROVE  scanning' = scanning /\ scan[t].pc # "rest" /\ scan'[t].pc # "rest"
          <5>1. /\ scan[t].pc \in {"probe", "tell", "enrich", "notify", "publish"}
                /\ scan'[t].pc \in {"tell", "enrich", "notify", "publish", "end"}
            BY <4>2, ScanMoves
          <5>2. scanning' = scanning
            BY <4>2 DEF ReadTable, TellEngine, WatchGateway, NotifyRisks, Publish
          <5> QED BY <5>1, <5>2
        <4> QED BY <1>1, <2>3, <4>1, <4>2 DEF ScanStep
      <3> QED BY <3>1 DEF FlagIsHeld
    <2> QED BY <2>1, <2>2, <2>3
  <1>2. CASE ~ \E t \in Scanners : ScanStep(t)
    BY <1>2, Around DEF FlagIsHeld
  <1> QED BY <1>1, <1>2

\* is_scanning never stays on without a scan that will take it off: while it is
\* on one scan is on its way, each of its steps brings it nearer to the end,
\* and nothing that happens around it sets it back; so "Refresh" is not refused
\* for ever (lan_scanner.rs: scan_network and its ScanGuard).
THEOREM LanScansEnd == LanSpec => []FlagIsHeld /\ [][\A t \in Scanners : LanAdvances(t)]_lanAllVars
  <1>1. LanInit => ScansApart /\ FlagIsHeld
    <2> SUFFICES ASSUME LanInit PROVE ScansApart /\ FlagIsHeld
      OBVIOUS
    <2>1. ~scanning /\ \A t \in Scanners : scan[t].pc = "rest"
      BY DEF LanInit, IdleScan
    <2> QED BY <2>1 DEF ScansApart, FlagIsHeld
  <1>2. ASSUME LanTypes, [LanNext]_lanAllVars, NEW t \in Scanners
        PROVE  LanAdvances(t)
    <2>1. CASE ScanStep(t)
      BY <1>2, <2>1, LanStepAdvances
    <2>2. CASE ~ScanStep(t)
      <3>1. CASE \E u \in Scanners : ScanStep(u)
        BY <1>2, <2>2, <3>1, ScanMoves DEF LanAdvances
      <3>2. CASE ~ \E u \in Scanners : ScanStep(u)
        BY <1>2, <2>2, <3>2, Around DEF LanAdvances
      <3> QED BY <3>1, <3>2
    <2> QED BY <2>1, <2>2
  <1>3. /\ LanTypes /\ ScansApart /\ FlagIsHeld /\ [LanNext]_lanAllVars
        => ScansApart' /\ FlagIsHeld'
    BY ApartStep, FlagStep
  <1>4. LanTypes /\ [LanNext]_lanAllVars => [\A t \in Scanners : LanAdvances(t)]_lanAllVars
    BY <1>2
  <1> QED BY <1>1, <1>3, <1>4, LanTypesHold, PTL DEF LanSpec

-----------------------------------------------------------------------------
\* The filters in the engine.
Acts == [pc : WfpLabels, call : WfpCalls,
         left : SUBSET Targets, failed : BOOLEAN, target : SUBSET Targets]

LEMMA MoveTyped ==
  ASSUME actor \in [Actors -> Acts], NEW t \in Actors
  PROVE  /\ ActEnds(t) => actor' \in [Actors -> Acts]
         /\ \A label \in WfpLabels : ActGoes(t, label) => actor' \in [Actors -> Acts]
  <1>1. NoAct \in Acts
    BY DEF NoAct, Acts, WfpLabels, WfpCalls
  <1>2. ActEnds(t) => actor' \in [Actors -> Acts]
    BY <1>1 DEF ActEnds
  <1>3. ASSUME NEW label \in WfpLabels, ActGoes(t, label)
        PROVE  actor' \in [Actors -> Acts]
    <2>1. [actor[t] EXCEPT !.pc = label] \in Acts
      BY DEF Acts
    <2> QED BY <1>3, <2>1 DEF ActGoes
  <1> QED BY <1>2, <1>3

LEMMA ClearTyped ==
  ASSUME WfpTypeOK, ClearFilters
  PROVE  filters' \subseteq Targets /\ strays' \subseteq Targets /\ filterIds' \subseteq Targets
  <1>1. PICK kept \in SUBSET filterIds : strays' = strays \union kept
    BY DEF ClearFilters
  <1> QED BY <1>1 DEF WfpTypeOK, ClearFilters

LEMMA WfpTypeStep ==
  ASSUME WfpTypeOK, [WfpNext]_wfpVars
  PROVE  WfpTypeOK'
  <1> USE DEF WfpTypeOK
  <1>1. ASSUME NEW t \in Actors, WfpStep(t)
        PROVE  WfpTypeOK'
    <2> DEFINE a == actor[t]
    <2>1. a \in Acts /\ actor \in [Actors -> Acts]
      BY DEF Acts
    <2> HIDE DEF WfpTypeOK
    <2>2. actor' \in [Actors -> Acts]
      <3> USE <2>1, MoveTyped
      <3>1. CASE RefreshLists(t) \/ LookEnabled(t)
        BY <3>1 DEF RefreshLists, LookEnabled, WfpLabels
      <3>2. CASE ClearFirst(t) \/ NoteFilter(t)
        BY <3>2, <2>1 DEF ClearFirst, NoteFilter, Acts, WfpLabels, WfpTypeOK
      <3>3. CASE AddFilter(t)
        BY <3>3, <2>1 DEF AddFilter, Acts, WfpLabels
      <3>4. CASE FinishEnable(t) \/ UndoEnable(t)
        BY <3>4 DEF FinishEnable, UndoEnable, WfpLabels
      <3>5. CASE LookDisabled(t) \/ DropFilters(t) \/ LowerFlag(t) \/ RescueEnds(t)
        BY <3>5 DEF LookDisabled, DropFilters, LowerFlag, RescueEnds, AfterDisable, WfpLabels
      <3> QED BY <1>1, <3>1, <3>2, <3>3, <3>4, <3>5 DEF WfpStep
    <2>3. /\ {configured, lists, filters, strays, filterIds}' \subseteq SUBSET Targets
          /\ {available, protected, enforced, starting, amended, deserted, crossed}' \subseteq BOOLEAN
          /\ edits' \in 0 .. MaxEdits
      <3> USE <2>1 DEF WfpTypeOK, Acts, engineState
      <3>1. CASE RefreshLists(t) \/ LookEnabled(t)
        BY <3>1 DEF RefreshLists, LookEnabled, TakeLists
      <3>2. CASE ClearFirst(t) \/ NoteFilter(t)
        BY <3>2, ClearTyped DEF ClearFirst, NoteFilter
      <3>3. CASE AddFilter(t)
        BY <3>3 DEF AddFilter
      <3>4. CASE FinishEnable(t)
        BY <3>4 DEF FinishEnable
      <3>5. CASE UndoEnable(t) \/ DropFilters(t)
        BY <3>5, ClearTyped DEF UndoEnable, DropFilters
      <3>6. CASE LookDisabled(t) \/ LowerFlag(t) \/ RescueEnds(t)
        BY <3>6 DEF LookDisabled, LowerFlag, RescueEnds
      <3> QED BY <1>1, <3>1, <3>2, <3>3, <3>4, <3>5, <3>6 DEF WfpStep
    <2> QED BY <2>2, <2>3 DEF Acts, WfpTypeOK
  <1>2. ASSUME NEW t \in Actors,
               FlipProtection(t) \/ Rescue(t) \/ \E on \in BOOLEAN : ApplyProtection(t, on)
        PROVE  WfpTypeOK'
    <2>1. actor' \in [Actors -> Acts]
      BY <1>2 DEF FlipProtection, Rescue, ApplyProtection, WfpLabels, WfpCalls, Acts
    <2>2. crossed' \in BOOLEAN /\ deserted' \in BOOLEAN
      BY <1>2 DEF FlipProtection, Rescue, ApplyProtection
    <2>3. protected' \in BOOLEAN
      BY <1>2 DEF FlipProtection, Rescue, ApplyProtection
    <2>4. UNCHANGED <<available, configured, lists, filters, strays, filterIds, enforced, starting,
                      edits, amended>>
      BY <1>2 DEF FlipProtection, Rescue, ApplyProtection, engineState
    <2> QED BY <2>1, <2>2, <2>3, <2>4 DEF Acts
  <1>3. CASE ImportLists
    BY <1>3, WfpAssumption DEF ImportLists, engineState
  <1>5. CASE BindFails
    BY <1>5 DEF BindFails, engineState
  <1>4. CASE UNCHANGED wfpVars
    BY <1>4 DEF wfpVars, engineState
  <1> QED BY <1>1, <1>2, <1>3, <1>4, <1>5 DEF WfpNext

\* The types of WfpBlocker.
THEOREM WfpTypeCorrect == WfpSpec => []WfpTypeOK
  <1>1. ASSUME WfpInit PROVE WfpTypeOK
    <2>1. actor \in [Actors -> Acts]
      BY <1>1 DEF WfpInit, NoAct, Acts, WfpLabels, WfpCalls
    <2>2. /\ available \in BOOLEAN /\ protected \in BOOLEAN /\ enforced \in BOOLEAN
          /\ starting \in BOOLEAN /\ amended \in BOOLEAN /\ deserted \in BOOLEAN /\ crossed \in BOOLEAN
      BY <1>1 DEF WfpInit
    <2>3. /\ edits \in 0 .. MaxEdits
          /\ {configured, lists, filters, strays, filterIds} \subseteq SUBSET Targets
      BY <1>1, WfpAssumption DEF WfpInit
    <2> QED BY <2>1, <2>2, <2>3 DEF WfpTypeOK, Acts
  <1> QED BY <1>1, WfpTypeStep, PTL DEF WfpSpec

-----------------------------------------------------------------------------
\* Which call a thread is in, by where it is; one thread switches at a time.
CallsFit ==
  /\ \A t \in Actors :
       /\ actor[t].pc = "rest" => actor[t].call = "none"
       /\ actor[t].pc = "flipped" <=> actor[t].call \in {"turnOn", "turnOff"}
       /\ actor[t].pc = "lists" => actor[t].call \in {"on", "off"}
       /\ actor[t].pc \in {"enable", "clear", "add", "note", "undo"} => actor[t].call = "on"
       /\ actor[t].pc \in {"disable", "drop", "lower"} => actor[t].call \in {"off", "rescue"}
       /\ actor[t].pc = "off" => actor[t].call = "rescue"
  /\ \A t, u \in Actors :
       actor[t].call \in {"on", "off"} /\ actor[u].call \in {"on", "off"} => t = u

LEMMA CallsStep ==
  ASSUME WfpTypeOK, CallsFit, [WfpNext]_wfpVars
  PROVE  CallsFit'
  <1>0. actor \in [Actors -> Acts]
    BY DEF WfpTypeOK, Acts
  <1>1. ASSUME NEW t \in Actors, RefreshLists(t) \/ LookEnabled(t) \/ ClearFirst(t) \/ AddFilter(t)
                 \/ NoteFilter(t) \/ FinishEnable(t) \/ UndoEnable(t)
        PROVE  CallsFit'
    <2>1. CASE RefreshLists(t)
      BY <1>0, <2>1 DEF CallsFit, RefreshLists, ActsAt, ActGoes, ActEnds, NoAct, Acts
    <2>2. CASE LookEnabled(t) \/ UndoEnable(t)
      BY <1>0, <2>2 DEF CallsFit, LookEnabled, UndoEnable, ActsAt, ActGoes, ActEnds, NoAct, Acts
    <2>3. CASE ClearFirst(t) \/ NoteFilter(t)
      BY <1>0, <2>3 DEF CallsFit, ClearFirst, NoteFilter, ActsAt, Acts
    <2>4. CASE AddFilter(t)
      BY <1>0, <2>4 DEF CallsFit, AddFilter, ActsAt, Acts
    <2>5. CASE FinishEnable(t)
      BY <1>0, <2>5 DEF CallsFit, FinishEnable, ActsAt, ActGoes, ActEnds, NoAct, Acts
    <2> QED BY <1>1, <2>1, <2>2, <2>3, <2>4, <2>5
  <1>2. ASSUME NEW t \in Actors, LookDisabled(t) \/ DropFilters(t) \/ LowerFlag(t) \/ RescueEnds(t)
        PROVE  CallsFit'
    <2>1. CASE LookDisabled(t) \/ LowerFlag(t)
      BY <1>0, <2>1 DEF CallsFit, LookDisabled, LowerFlag, AfterDisable, ActsAt, ActGoes, ActEnds,
        NoAct, Acts
    <2>2. CASE DropFilters(t) \/ RescueEnds(t)
      BY <1>0, <2>2 DEF CallsFit, DropFilters, RescueEnds, ActsAt, ActGoes, ActEnds, NoAct, Acts
    <2> QED BY <1>2, <2>1, <2>2
  <1>3. ASSUME NEW t \in Actors, NEW on \in BOOLEAN, ApplyProtection(t, on)
        PROVE  CallsFit'
    <2>1. \A u \in Actors : actor[u].call \notin {"on", "off"}
      BY <1>3 DEF ApplyProtection, Applying, InCall
    <2> QED BY <1>0, <1>3, <2>1 DEF CallsFit, ApplyProtection, ActsAt, Acts
  <1>4. ASSUME NEW t \in Actors, FlipProtection(t) \/ Rescue(t)
        PROVE  CallsFit'
    BY <1>0, <1>4 DEF CallsFit, FlipProtection, Rescue, ActsAt, Acts
  <1>5. CASE ImportLists \/ BindFails \/ UNCHANGED wfpVars
    BY <1>5 DEF CallsFit, ImportLists, BindFails, wfpVars
  <1> QED BY <1>1, <1>2, <1>3, <1>4, <1>5 DEF WfpNext, WfpStep

-----------------------------------------------------------------------------
\* What the program remembers of its filters, and what it does not yet.
IdsFit ==
  /\ filterIds \subseteq filters
  /\ \A x \in filters \ filterIds : \E t \in Actors : actor[t].target = {x}
  /\ \A t \in Actors :
       /\ actor[t].target # {} => actor[t].pc = "note"
       /\ actor[t].target \subseteq filters /\ actor[t].target \cap filterIds = {}
       /\ actor[t].pc \in {"add", "note"} =>
            actor[t].left \cap filterIds = {} /\ actor[t].left \cap actor[t].target = {}

\* A step that leaves the filters alone, and takes a thread without a target
\* anywhere but to the adding.
LEMMA IdsRest ==
  ASSUME WfpTypeOK, IdsFit, UNCHANGED <<filters, filterIds>>, NEW t \in Actors,
         \A u \in Actors \ {t} : actor'[u] = actor[u],
         actor[t].target = {}, actor'[t].target = {}, actor'[t].pc \notin {"add", "note"}
  PROVE  IdsFit'
  BY DEF IdsFit

\* The filters that are remembered are deleted.
LEMMA IdsCleared ==
  ASSUME WfpTypeOK, IdsFit, ClearFilters, NEW t \in Actors,
         \A u \in Actors \ {t} : actor'[u] = actor[u],
         actor[t].target = {}, actor'[t].target = {}
  PROVE  IdsFit'
  BY DEF IdsFit, ClearFilters

LEMMA IdsStep ==
  ASSUME WfpTypeOK, CallsFit, IdsFit, [WfpNext]_wfpVars
  PROVE  IdsFit'
  <1>0. actor \in [Actors -> Acts]
    BY DEF WfpTypeOK, Acts
  <1>1. ASSUME NEW t \in Actors, RefreshLists(t) \/ LookEnabled(t) \/ FinishEnable(t)
                 \/ LookDisabled(t) \/ LowerFlag(t) \/ RescueEnds(t)
        PROVE  IdsFit'
    <2>1. UNCHANGED <<filters, filterIds>>
      BY <1>1 DEF RefreshLists, LookEnabled, FinishEnable, LookDisabled, LowerFlag, RescueEnds,
        engineState
    <2>2. actor[t].pc # "note" /\ actor[t].target = {}
      BY <1>1 DEF IdsFit, RefreshLists, LookEnabled, FinishEnable, LookDisabled, LowerFlag, RescueEnds,
        ActsAt
    <2>3. /\ \A u \in Actors \ {t} : actor'[u] = actor[u]
          /\ actor'[t].target = {} /\ actor'[t].pc \notin {"add", "note"}
      BY <1>0, <1>1, <2>2 DEF RefreshLists, LookEnabled, FinishEnable, LookDisabled, LowerFlag, RescueEnds,
        AfterDisable, ActGoes, ActEnds, NoAct, Acts
    <2> QED BY <2>1, <2>2, <2>3, IdsRest
  <1>2. ASSUME NEW t \in Actors, UndoEnable(t) \/ DropFilters(t) \/ ClearFirst(t)
        PROVE  IdsFit'
    <2>1. ClearFilters
      BY <1>2 DEF UndoEnable, DropFilters, ClearFirst
    <2>2. actor[t].target = {}
      BY <1>2 DEF IdsFit, UndoEnable, DropFilters, ClearFirst, ActsAt
    <2>3. /\ \A u \in Actors \ {t} : actor'[u] = actor[u]
          /\ actor'[t].target = {}
      BY <1>0, <1>2, <2>2 DEF UndoEnable, DropFilters, ClearFirst, ActGoes, ActEnds, NoAct, Acts
    <2> QED BY <2>1, <2>2, <2>3, IdsCleared
  <1>3. ASSUME NEW t \in Actors, AddFilter(t)
        PROVE  IdsFit'
    <2>0. actor[t].pc = "add" /\ actor[t].target = {} /\ UNCHANGED filterIds
      BY <1>3 DEF AddFilter, ActsAt, IdsFit
    <2>1. PICK x \in actor[t].left :
            \/ /\ filters' = filters \union {x}
               /\ actor' = [actor EXCEPT ![t].pc = "note", ![t].left = @ \ {x}, ![t].target = {x}]
            \/ /\ actor' = [actor EXCEPT ![t].left = @ \ {x}, ![t].failed = TRUE]
               /\ UNCHANGED filters
      BY <1>3 DEF AddFilter
    <2>2. CASE UNCHANGED filters /\ actor' = [actor EXCEPT ![t].left = @ \ {x}, ![t].failed = TRUE]
      <3>1. /\ actor'[t].pc = "add" /\ actor'[t].left \subseteq actor[t].left /\ actor'[t].target = {}
            /\ \A u \in Actors \ {t} : actor'[u] = actor[u]
        BY <1>0, <2>0, <2>2 DEF Acts
      <3>2. \A u \in Actors : actor'[u].target = actor[u].target
        BY <2>0, <3>1
      <3>3. \A y \in (filters \ filterIds)' : \E u \in Actors : actor'[u].target = {y}
        BY <2>0, <2>2, <3>2 DEF IdsFit
      <3>4. \A u \in Actors :
              /\ actor'[u].target # {} => actor'[u].pc = "note"
              /\ actor'[u].target \subseteq filters' /\ actor'[u].target \cap filterIds' = {}
        BY <2>0, <2>2, <3>1, <3>2 DEF IdsFit
      <3>5. \A u \in Actors : actor'[u].pc \in {"add", "note"} =>
              actor'[u].left \cap filterIds' = {} /\ actor'[u].left \cap actor'[u].target = {}
        BY <2>0, <3>1 DEF IdsFit
      <3>6. (filterIds \subseteq filters)'
        BY <2>0, <2>2 DEF IdsFit
      <3> QED BY <3>3, <3>4, <3>5, <3>6 DEF IdsFit
    <2>3. CASE /\ filters' = filters \union {x}
               /\ actor' = [actor EXCEPT ![t].pc = "note", ![t].left = @ \ {x}, ![t].target = {x}]
      <3>1. /\ actor'[t].pc = "note" /\ actor'[t].left = actor[t].left \ {x} /\ actor'[t].target = {x}
            /\ \A u \in Actors \ {t} : actor'[u] = actor[u]
        BY <1>0, <2>3 DEF Acts
      <3>2. x \notin filterIds
        BY <2>0 DEF IdsFit
      <3>3. \A y \in (filters \ filterIds)' : \E u \in Actors : actor'[u].target = {y}
        <4> SUFFICES ASSUME NEW y \in filters \ filterIds
                     PROVE  \E u \in Actors : actor'[u].target = {y}
          BY <2>0, <2>3, <3>1
        <4>1. PICK u \in Actors : actor[u].target = {y}
          BY DEF IdsFit
        <4> QED BY <2>0, <3>1, <4>1
      <3>4. (filterIds \subseteq filters)'
        BY <2>0, <2>3 DEF IdsFit
      <3>5. \A u \in Actors \ {t} :
              /\ actor'[u].target # {} => actor'[u].pc = "note"
              /\ actor'[u].target \subseteq filters' /\ actor'[u].target \cap filterIds' = {}
              /\ actor'[u].pc \in {"add", "note"} =>
                   actor'[u].left \cap filterIds' = {} /\ actor'[u].left \cap actor'[u].target = {}
        BY <2>0, <2>3, <3>1 DEF IdsFit
      <3>6. /\ actor'[t].target \subseteq filters' /\ actor'[t].target \cap filterIds' = {}
            /\ actor'[t].left \cap filterIds' = {} /\ actor'[t].left \cap actor'[t].target = {}
        BY <2>0, <2>3, <3>1, <3>2 DEF IdsFit
      <3> QED BY <3>1, <3>3, <3>4, <3>5, <3>6 DEF IdsFit
    <2> QED BY <2>1, <2>2, <2>3
  <1>4. ASSUME NEW t \in Actors, NoteFilter(t)
        PROVE  IdsFit'
    <2>1. /\ actor'[t].pc = "add" /\ actor'[t].left = actor[t].left /\ actor'[t].target = {}
          /\ \A u \in Actors \ {t} : actor'[u] = actor[u]
          /\ filters' = filters /\ filterIds' = filterIds \union actor[t].target
      BY <1>0, <1>4 DEF NoteFilter, Acts
    <2>2. actor[t].pc = "note"
      BY <1>4 DEF NoteFilter, ActsAt
    <2>3. \A u \in Actors \ {t} : actor[u].pc \notin {"add", "note"}
      BY <2>2 DEF CallsFit
    <2> QED BY <2>1, <2>2, <2>3 DEF IdsFit
  <1>5. ASSUME NEW t \in Actors,
               FlipProtection(t) \/ Rescue(t) \/ \E on \in BOOLEAN : ApplyProtection(t, on)
        PROVE  IdsFit'
    <2>1. actor[t].target = {} /\ UNCHANGED <<filters, filterIds>>
      BY <1>5 DEF IdsFit, FlipProtection, Rescue, ApplyProtection, ActsAt, engineState
    <2>2. /\ \A u \in Actors \ {t} : actor'[u] = actor[u]
          /\ actor'[t].target = {} /\ actor'[t].pc \notin {"add", "note"}
      BY <1>0, <1>5, <2>1 DEF FlipProtection, Rescue, ApplyProtection, Acts
    <2> QED BY <2>1, <2>2, IdsRest
  <1>6. CASE ImportLists \/ BindFails \/ UNCHANGED wfpVars
    BY <1>6 DEF IdsFit, ImportLists, BindFails, wfpVars, engineState
  <1> QED BY <1>1, <1>2, <1>3, <1>4, <1>5, <1>6 DEF WfpNext, WfpStep

-----------------------------------------------------------------------------
\* While no emergency restore has met a switch: what the filters, the lists and
\* the flag have to do with each other in the middle of a call.
WholeFit ==
  ~crossed =>
    /\ \A t, u \in Actors : actor[t].call \in {"on", "off"} => actor[u].call # "rescue"
    /\ \A t \in Actors :
         /\ actor[t].pc \in {"clear", "add", "note", "undo", "off"} => ~enforced
         /\ actor[t].pc \in {"add", "note"} /\ ~actor[t].failed => filters \union actor[t].left = lists
         /\ actor[t].pc = "lower" => filters = {}
    /\ ~enforced => filters = {} \/ \E t \in Actors : actor[t].pc \in {"add", "note", "undo"}
    /\ enforced => \/ filters = configured \/ amended
                   \/ filters = {} /\ \E t \in Actors : actor[t].pc = "lower"

\* And when protection can be off while the blocker is enabled, or is about to be.
OffFits ==
  ~crossed /\ ~protected /\ ~deserted =>
    \/ \E t \in Actors : actor[t].call = "turnOff"
    \/ /\ \A t \in Actors : actor[t].call # "on"
       /\ enforced => \E t \in Actors : actor[t].call = "off"

\* A thread that adds filters is alone: every other is at rest.
LEMMA AddsAlone ==
  ASSUME CallsFit, WholeFit, ~crossed, NEW t \in Actors, actor[t].call = "on", NEW u \in Actors \ {t}
  PROVE  actor[u].call \notin {"on", "off", "rescue"}
         /\ actor[u].pc \notin {"lists", "enable", "clear", "add", "note", "undo", "disable", "drop",
                               "lower", "off"}
  BY DEF CallsFit, WholeFit

\* When no thread is between adding a filter and remembering it, deleting the
\* remembered ones deletes all.
LEMMA ClearsAll ==
  ASSUME IdsFit, ClearFilters, \A t \in Actors : actor[t].pc # "note"
  PROVE  filters' = {} /\ filterIds' = {}
  BY DEF IdsFit, ClearFilters

LEMMA OffStep ==
  ASSUME WfpTypeOK, CallsFit, WholeFit, OffFits, [WfpNext]_wfpVars
  PROVE  OffFits'
  <1>0. actor \in [Actors -> Acts] /\ enforced \in BOOLEAN /\ protected \in BOOLEAN
    BY DEF WfpTypeOK, Acts
  <1> SUFFICES ASSUME ~crossed', ~protected', ~deserted'
               PROVE  \/ \E t \in Actors : actor'[t].call = "turnOff"
                      \/ /\ \A t \in Actors : actor'[t].call # "on"
                         /\ enforced' => \E t \in Actors : actor'[t].call = "off"
    BY DEF OffFits
  <1>c. ~crossed
    BY DEF WfpNext, WfpStep, RefreshLists, LookEnabled, ClearFirst, AddFilter, NoteFilter, FinishEnable,
      UndoEnable, LookDisabled, DropFilters, LowerFlag, RescueEnds, Rescue, ApplyProtection,
      FlipProtection, BindFails, ImportLists, wfpVars
  <1>1. ASSUME NEW t \in Actors, RefreshLists(t) \/ LookEnabled(t) \/ ClearFirst(t) \/ AddFilter(t)
                 \/ NoteFilter(t) \/ UndoEnable(t)
        PROVE  OffFits'
    <2>1. UNCHANGED <<protected, deserted, enforced>>
      BY <1>1 DEF RefreshLists, LookEnabled, ClearFirst, AddFilter, NoteFilter, UndoEnable
    <2>2. \A u \in Actors \ {t} : actor'[u] = actor[u]
      BY <1>0, <1>1 DEF RefreshLists, LookEnabled, ClearFirst, AddFilter, NoteFilter, UndoEnable,
        ActGoes, ActEnds
    <2>3. \/ actor'[t].call = actor[t].call
          \/ actor[t].call = "on" /\ actor'[t].call = "none"
      <3>1. CASE RefreshLists(t)
        BY <1>0, <3>1 DEF RefreshLists, ActGoes, ActEnds, NoAct, Acts
      <3>2. CASE LookEnabled(t) \/ UndoEnable(t)
        BY <1>0, <3>2 DEF CallsFit, LookEnabled, UndoEnable, ActsAt, ActGoes, ActEnds, NoAct, Acts
      <3>3. CASE ClearFirst(t) \/ NoteFilter(t)
        BY <1>0, <3>3 DEF ClearFirst, NoteFilter, Acts
      <3>4. CASE AddFilter(t)
        BY <1>0, <3>4 DEF AddFilter, Acts
      <3> QED BY <1>1, <3>1, <3>2, <3>3, <3>4
    <2> QED BY <1>c, <2>1, <2>2, <2>3 DEF OffFits
  <1>2. ASSUME NEW t \in Actors, FinishEnable(t)
        PROVE  OffFits'
    <2>1. actor[t].call = "on" /\ UNCHANGED <<protected, deserted>>
      BY <1>2 DEF FinishEnable, ActsAt, CallsFit
    <2>2. \A u \in Actors \ {t} : actor'[u] = actor[u]
      BY <1>0, <1>2 DEF FinishEnable, ActGoes, ActEnds
    <2> QED BY <1>c, <2>1, <2>2 DEF OffFits
  <1>3. ASSUME NEW t \in Actors, LookDisabled(t) \/ DropFilters(t) \/ LowerFlag(t) \/ RescueEnds(t)
        PROVE  OffFits'
    <2>1. actor[t].call \in {"off", "rescue"} /\ UNCHANGED deserted
      BY <1>3 DEF LookDisabled, DropFilters, LowerFlag, RescueEnds, ActsAt, CallsFit
    <2>2. \A u \in Actors \ {t} : actor'[u] = actor[u]
      BY <1>0, <1>3 DEF LookDisabled, DropFilters, LowerFlag, RescueEnds, AfterDisable, ActGoes, ActEnds
    <2>3. \/ actor'[t].call = actor[t].call /\ enforced' \in {enforced, FALSE}
          \/ actor'[t].call = "none" /\ ~enforced'
      <3>1. CASE LookDisabled(t)
        BY <1>0, <3>1 DEF LookDisabled, AfterDisable, ActGoes, ActEnds, NoAct, Acts
      <3>2. CASE DropFilters(t)
        BY <1>0, <3>2 DEF DropFilters, ActGoes, Acts
      <3>3. CASE LowerFlag(t)
        <4>1. enforced' = FALSE
          BY <3>3 DEF LowerFlag
        <4>2. actor'[t].call = actor[t].call \/ actor'[t].call = "none"
          BY <1>0, <3>3 DEF LowerFlag, AfterDisable, ActGoes, ActEnds, NoAct, Acts
        <4> QED BY <4>1, <4>2
      <3>4. CASE RescueEnds(t)
        BY <1>0, <1>c, <3>4 DEF RescueEnds, ActEnds, ActsAt, NoAct, Acts, WholeFit
      <3> QED BY <1>3, <3>1, <3>2, <3>3, <3>4
    <2>4. \/ protected' = protected
          \/ ~enforced' /\ \A u \in Actors : actor'[u].call # "on"
      <3>1. CASE RescueEnds(t)
        <4>1. actor[t].call = "rescue" /\ ~enforced /\ enforced' = enforced
          BY <1>c, <3>1 DEF RescueEnds, ActsAt, WholeFit, CallsFit
        <4>2. \A u \in Actors : actor[u].call # "on"
          BY <1>c, <4>1 DEF WholeFit
        <4> QED BY <2>2, <2>3, <4>1, <4>2
      <3>2. CASE LookDisabled(t)
        BY <3>2 DEF LookDisabled
      <3>3. CASE DropFilters(t)
        BY <3>3 DEF DropFilters
      <3>4. CASE LowerFlag(t)
        BY <3>4 DEF LowerFlag
      <3> QED BY <1>3, <3>1, <3>2, <3>3, <3>4
    <2> QED BY <1>c, <2>1, <2>2, <2>3, <2>4 DEF OffFits
  <1>4. ASSUME NEW t \in Actors, NEW on \in BOOLEAN, ApplyProtection(t, on)
        PROVE  OffFits'
    <2>1. \A u \in Actors : actor[u].call \notin {"on", "off"}
      BY <1>4 DEF ApplyProtection, Applying, InCall
    <2>2. /\ \A u \in Actors \ {t} : actor'[u] = actor[u]
          /\ actor'[t].call = IF on THEN "on" ELSE "off"
          /\ protected' = on
      BY <1>0, <1>4 DEF ApplyProtection, Acts
    <2> QED BY <2>1, <2>2 DEF OffFits
  <1>5. ASSUME NEW t \in Actors, FlipProtection(t)
        PROVE  OffFits'
    <2>1. protected /\ actor'[t].call = "turnOff"
      BY <1>0, <1>5 DEF FlipProtection, Acts
    <2> QED BY <2>1 DEF OffFits
  <1>6. ASSUME NEW t \in Actors, Rescue(t)
        PROVE  OffFits'
    <2>1. /\ \A u \in Actors \ {t} : actor'[u] = actor[u]
          /\ actor[t].call = "none" /\ actor'[t].call = "rescue"
          /\ UNCHANGED <<protected, enforced, deserted>>
      BY <1>0, <1>6 DEF Rescue, ActsAt, CallsFit, Acts
    <2> QED BY <1>c, <2>1 DEF OffFits
  <1>7. CASE ImportLists \/ BindFails \/ UNCHANGED wfpVars
    BY <1>c, <1>7 DEF OffFits, ImportLists, BindFails, wfpVars
  <1> QED BY <1>1, <1>2, <1>3, <1>4, <1>5, <1>6, <1>7 DEF WfpNext, WfpStep, OffFits

LEMMA WholeStep ==
  ASSUME WfpTypeOK, CallsFit, IdsFit, WholeFit, [WfpNext]_wfpVars
  PROVE  WholeFit'
  <1>0. actor \in [Actors -> Acts] /\ enforced \in BOOLEAN /\ protected \in BOOLEAN
    BY DEF WfpTypeOK, Acts
  <1> SUFFICES ASSUME ~crossed'
               PROVE  WholeFit'
    BY DEF WholeFit
  <1>c. ~crossed
    BY DEF WfpNext, WfpStep, RefreshLists, LookEnabled, ClearFirst, AddFilter, NoteFilter, FinishEnable,
      UndoEnable, LookDisabled, DropFilters, LowerFlag, RescueEnds, Rescue, ApplyProtection,
      FlipProtection, BindFails, ImportLists, wfpVars
  <1> USE DEF engineState
  <1>1. ASSUME NEW t \in Actors, RefreshLists(t) \/ LookEnabled(t)
        PROVE  WholeFit'
    <2>1. CASE RefreshLists(t)
      <3>1. \A u \in Actors : actor[u].pc \notin {"add", "note"}
        BY <2>1 DEF RefreshLists, ActsAt, CallsFit
      <3> QED BY <1>0, <1>c, <2>1, <3>1 DEF WholeFit, RefreshLists, ActsAt, ActGoes, ActEnds, NoAct, Acts
    <2>2. CASE LookEnabled(t)
      BY <1>0, <1>c, <2>2 DEF WholeFit, CallsFit, LookEnabled, ActsAt, ActGoes, ActEnds, NoAct, Acts
    <2> QED BY <1>1, <2>1, <2>2
  <1>2. ASSUME NEW t \in Actors, ClearFirst(t)
        PROVE  WholeFit'
    <2>1. /\ actor'[t].pc = "add" /\ actor'[t].left = lists /\ actor'[t].call = actor[t].call
          /\ \A u \in Actors \ {t} : actor'[u] = actor[u]
          /\ UNCHANGED <<protected, lists, enforced, configured, amended>>
      BY <1>0, <1>2 DEF ClearFirst, Acts
    <2>2. actor[t].pc = "clear" /\ actor[t].call = "on"
      BY <1>2 DEF ClearFirst, ActsAt, CallsFit
    <2>3. filters' = {}
      BY <1>2, <2>2, ClearsAll, <1>c, AddsAlone DEF ClearFirst
    <2> QED BY <1>c, <2>1, <2>2, <2>3, AddsAlone DEF WholeFit
  <1>3. ASSUME NEW t \in Actors, AddFilter(t)
        PROVE  WholeFit'
    <2>1. PICK x \in actor[t].left :
            \/ /\ filters' = filters \union {x}
               /\ actor' = [actor EXCEPT ![t].pc = "note", ![t].left = @ \ {x}, ![t].target = {x}]
            \/ /\ actor' = [actor EXCEPT ![t].left = @ \ {x}, ![t].failed = TRUE]
               /\ UNCHANGED filters
      BY <1>3 DEF AddFilter
    <2>2. /\ \A u \in Actors \ {t} : actor'[u] = actor[u]
          /\ actor'[t].pc \in {"add", "note"} /\ actor'[t].call = actor[t].call
          /\ \/ actor'[t].failed
             \/ /\ actor'[t].failed = actor[t].failed
                /\ filters' \union actor'[t].left = filters \union actor[t].left
          /\ UNCHANGED <<protected, lists, enforced, configured, amended>>
      <3>1. UNCHANGED <<protected, lists, enforced, configured, amended>> /\ actor[t].pc = "add"
        BY <1>3 DEF AddFilter, ActsAt
      <3>2. CASE /\ filters' = filters \union {x}
                 /\ actor' = [actor EXCEPT ![t].pc = "note", ![t].left = @ \ {x}, ![t].target = {x}]
        <4>1. /\ actor'[t].left = actor[t].left \ {x} /\ actor'[t].failed = actor[t].failed
              /\ actor'[t].pc = "note" /\ actor'[t].call = actor[t].call
              /\ \A u \in Actors \ {t} : actor'[u] = actor[u]
          BY <1>0, <3>2 DEF Acts
        <4>2. filters' \union actor'[t].left = filters \union actor[t].left
          BY <3>2, <4>1
        <4> QED BY <3>1, <4>1, <4>2
      <3>3. CASE actor' = [actor EXCEPT ![t].left = @ \ {x}, ![t].failed = TRUE]
        <4>1. /\ actor'[t].failed = TRUE /\ actor'[t].pc = "add" /\ actor'[t].call = actor[t].call
              /\ \A u \in Actors \ {t} : actor'[u] = actor[u]
          BY <1>0, <3>1, <3>3 DEF Acts
        <4> QED BY <3>1, <4>1
      <3> QED BY <2>1, <3>2, <3>3
    <2>3. actor[t].pc = "add" /\ actor[t].call = "on"
      BY <1>3 DEF AddFilter, ActsAt, CallsFit
    <2> QED BY <1>c, <2>2, <2>3, AddsAlone DEF WholeFit
  <1>4. ASSUME NEW t \in Actors, NoteFilter(t)
        PROVE  WholeFit'
    <2>1. /\ \A u \in Actors \ {t} : actor'[u] = actor[u]
          /\ actor'[t].pc = "add" /\ actor'[t].call = actor[t].call /\ actor[t].pc = "note"
          /\ actor'[t].failed = actor[t].failed /\ actor'[t].left = actor[t].left
          /\ UNCHANGED <<protected, lists, enforced, configured, amended, filters>>
      BY <1>0, <1>4 DEF NoteFilter, ActsAt, Acts
    <2> QED BY <1>c, <2>1 DEF WholeFit
  <1>5. ASSUME NEW t \in Actors, FinishEnable(t)
        PROVE  WholeFit'
    <2>1. actor[t].pc = "add" /\ actor[t].call = "on" /\ actor[t].left = {}
      BY <1>5 DEF FinishEnable, ActsAt, CallsFit
    <2>2. \A u \in Actors \ {t} : actor'[u] = actor[u]
      BY <1>0, <1>5 DEF FinishEnable, ActGoes, ActEnds
    <2>3. CASE actor[t].failed
      <3>1. /\ actor'[t].pc = "undo" /\ actor'[t].call = "on"
            /\ UNCHANGED <<protected, lists, enforced, configured, amended, filters>>
        BY <1>0, <1>5, <2>1, <2>3 DEF FinishEnable, ActGoes, Acts
      <3> QED BY <1>c, <2>1, <2>2, <3>1, AddsAlone DEF WholeFit
    <2>4. CASE ~actor[t].failed
      <3>1. /\ actor'[t].pc = "rest" /\ actor'[t].call = "none"
            /\ enforced' = TRUE /\ amended' = (lists # configured)
            /\ UNCHANGED <<protected, lists, configured, filters>>
        BY <1>0, <1>5, <2>4 DEF FinishEnable, ActEnds, NoAct
      <3>2. filters = lists
        BY <1>c, <2>1, <2>4 DEF WholeFit
      <3>3. filters' = configured' \/ amended'
        BY <3>1, <3>2
      <3>4. \A u \in Actors : /\ actor'[u].call \notin {"on", "off", "rescue"}
                             /\ actor'[u].pc \notin {"clear", "add", "note", "undo", "off", "lower"}
        BY <1>c, <2>1, <2>2, <3>1, AddsAlone
      <3>5. enforced'
        BY <3>1
      <3> QED BY <3>3, <3>4, <3>5 DEF WholeFit
    <2> QED BY <2>3, <2>4
  <1>6. ASSUME NEW t \in Actors, UndoEnable(t)
        PROVE  WholeFit'
    <2>1. actor[t].pc = "undo" /\ actor[t].call = "on"
      BY <1>6 DEF UndoEnable, ActsAt, CallsFit
    <2>2. filters' = {}
      BY <1>6, <2>1, ClearsAll, <1>c, AddsAlone DEF UndoEnable
    <2>3. /\ \A u \in Actors \ {t} : actor'[u] = actor[u]
          /\ actor'[t].pc = "rest" /\ actor'[t].call = "none"
          /\ UNCHANGED <<protected, lists, enforced, configured, amended>>
      BY <1>0, <1>6 DEF UndoEnable, ActEnds, NoAct
    <2> QED BY <1>c, <2>1, <2>2, <2>3, AddsAlone DEF WholeFit
  <1>7. ASSUME NEW t \in Actors, LookDisabled(t)
        PROVE  WholeFit'
    BY <1>0, <1>c, <1>7 DEF WholeFit, LookDisabled, AfterDisable, ActsAt, ActGoes, ActEnds, NoAct, Acts
  <1>8. ASSUME NEW t \in Actors, DropFilters(t)
        PROVE  WholeFit'
    <2>1. actor[t].pc = "drop" /\ actor[t].call \in {"off", "rescue"}
      BY <1>8 DEF DropFilters, ActsAt, CallsFit
    <2>2. \A u \in Actors : actor[u].pc \notin {"add", "note"}
      BY <1>c, <2>1 DEF WholeFit, CallsFit
    <2>3. filters' = {}
      BY <1>8, <2>2, ClearsAll DEF DropFilters
    <2>4. /\ \A u \in Actors \ {t} : actor'[u] = actor[u]
          /\ actor'[t].pc = "lower" /\ actor'[t].call = actor[t].call
          /\ UNCHANGED <<protected, lists, enforced, configured, amended>>
      BY <1>0, <1>8 DEF DropFilters, ActGoes, Acts
    <2> QED BY <1>c, <2>1, <2>2, <2>3, <2>4 DEF WholeFit
  <1>9. ASSUME NEW t \in Actors, LowerFlag(t)
        PROVE  WholeFit'
    <2>1. actor[t].pc = "lower" /\ enforced' = FALSE /\ filters = {}
      BY <1>c, <1>9 DEF LowerFlag, ActsAt, WholeFit
    <2>2. /\ \A u \in Actors \ {t} : actor'[u] = actor[u]
          /\ actor'[t].pc \in {"off", "rest"}
          /\ actor'[t].call \in {actor[t].call, "none"}
          /\ UNCHANGED <<protected, lists, filters, configured, amended>>
      BY <1>0, <1>9 DEF LowerFlag, AfterDisable, ActGoes, ActEnds, NoAct, Acts
    <2> QED BY <1>c, <2>1, <2>2 DEF WholeFit
  <1>10. ASSUME NEW t \in Actors, RescueEnds(t)
        PROVE  WholeFit'
    <2>1. actor[t].pc = "off" /\ actor[t].call = "rescue" /\ ~enforced
      BY <1>c, <1>10 DEF RescueEnds, ActsAt, WholeFit, CallsFit
    <2>2. /\ \A u \in Actors \ {t} : actor'[u] = actor[u]
          /\ actor'[t].pc = "rest" /\ actor'[t].call = "none"
          /\ UNCHANGED <<enforced, lists, filters, configured, amended>>
      BY <1>0, <1>10 DEF RescueEnds, ActEnds, NoAct
    <2> QED BY <1>c, <2>1, <2>2 DEF WholeFit
  <1>15. ASSUME NEW t \in Actors, FlipProtection(t)
        PROVE  WholeFit'
    <2>1. /\ \A u \in Actors \ {t} : actor'[u] = actor[u]
          /\ actor[t].pc = "rest" /\ actor'[t].pc = "flipped"
          /\ actor'[t].call \in {"turnOn", "turnOff"}
          /\ UNCHANGED <<enforced, lists, filters, configured, amended>>
      BY <1>0, <1>15 DEF FlipProtection, ActsAt, Acts
    <2> QED BY <1>c, <2>1 DEF WholeFit
  <1>11. ASSUME NEW t \in Actors, Rescue(t)
        PROVE  WholeFit'
    <2>1. \A u \in Actors : actor[u].call \notin {"on", "off"}
      BY <1>11 DEF Rescue, Applying, InCall
    <2>2. /\ \A u \in Actors \ {t} : actor'[u] = actor[u]
          /\ actor[t].pc = "rest" /\ actor'[t].pc = "disable" /\ actor'[t].call = "rescue"
          /\ UNCHANGED <<protected, enforced, lists, filters, configured, amended>>
      BY <1>0, <1>11 DEF Rescue, ActsAt, Acts
    <2> QED BY <1>c, <2>1, <2>2 DEF WholeFit
  <1>12. ASSUME NEW t \in Actors, NEW on \in BOOLEAN, ApplyProtection(t, on)
        PROVE  WholeFit'
    <2>1. \A u \in Actors : actor[u].call \notin {"on", "off", "rescue"}
      BY <1>12 DEF ApplyProtection, Applying, InCall
    <2>2. /\ \A u \in Actors \ {t} : actor'[u] = actor[u]
          /\ actor[t].pc \in {"rest", "flipped"} /\ actor'[t].pc = "lists"
          /\ actor'[t].call = IF on THEN "on" ELSE "off"
          /\ UNCHANGED <<enforced, lists, filters, configured, amended>>
      BY <1>0, <1>12 DEF ApplyProtection, ActsAt, Acts
    <2> QED BY <1>c, <2>1, <2>2 DEF WholeFit
  <1>13. CASE ImportLists \/ BindFails
    BY <1>c, <1>13 DEF WholeFit, ImportLists, BindFails
  <1>14. CASE UNCHANGED wfpVars
    BY <1>c, <1>14 DEF WholeFit, wfpVars
  <1> QED BY <1>1, <1>2, <1>3, <1>4, <1>5, <1>6, <1>7, <1>8, <1>9, <1>10, <1>11, <1>12, <1>13, <1>14, <1>15
        DEF WfpNext, WfpStep

LEMMA WholeAtRest ==
  ASSUME CallsFit, IdsFit, WholeFit, OffFits
  PROVE  AllOrNoFilters
  <1>1. ASSUME ~crossed, \A t \in Actors : ActsAt(t, "rest")
        PROVE  IF enforced THEN (protected \/ deserted) /\ (filters = configured \/ amended)
               ELSE filters = {}
    <2>1. \A t \in Actors : actor[t].pc = "rest" /\ actor[t].call = "none"
      BY <1>1 DEF ActsAt, CallsFit
    <2> QED BY <1>1, <2>1 DEF WholeFit, OffFits
  <1> QED BY <1>1 DEF IdsFit, AllOrNoFilters

\* All of the operator's targets are blocked, or none is but those the engine
\* refused to release, and only their filters escape the remembered ids, for any
\* targets, threads, refusals, toggles and imports and a start that fails.
THEOREM FiltersAreWhole == WfpSpec => []AllOrNoFilters
  <1>1. WfpInit => CallsFit /\ IdsFit /\ WholeFit /\ OffFits
    BY DEF WfpInit, CallsFit, IdsFit, WholeFit, OffFits, NoAct
  <1>2. CallsFit /\ IdsFit /\ WholeFit /\ OffFits /\ WfpTypeOK /\ [WfpNext]_wfpVars
          => (CallsFit /\ IdsFit /\ WholeFit /\ OffFits)'
    BY CallsStep, IdsStep, WholeStep, OffStep
  <1>3. CallsFit /\ IdsFit /\ WholeFit /\ OffFits => AllOrNoFilters
    BY WholeAtRest
  <1> QED BY <1>1, <1>2, <1>3, WfpTypeCorrect, PTL DEF WfpSpec

=============================================================================
