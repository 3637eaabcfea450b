-------------------------------- MODULE LanScan --------------------------------
(***************************************************************************)
(* The scan of the local network (scan_network in                          *)
(* src/modules/monitor/lan_scanner.rs): it asks every address for its MAC, *)
(* hands what it found to the quarantine of the security engine            *)
(* (DeviceQuarantine), looks at each device's ports, watches the gateway's *)
(* MAC, and at the end replaces the list of devices in the window.         *)
(*                                                                         *)
(* It is started with the program, by "Refresh" and by the monitor's loop  *)
(* every hundredth round; is_scanning lets one scan in.  Meanwhile devices *)
(* come and go, and the operator isolates.                                 *)
(***************************************************************************)
EXTENDS DeviceQuarantine

CONSTANTS
    Scanners,    \* tasks that ask for a scan
    RiskyMacs,   \* devices that have a port of high risk open
    MaxMoves     \* changes of the network in an instance

Neighbours == Sources \ Loopback
NoGateway == <<"nowhere", NoMac>>
ScanLabels == {"rest", "probe", "tell", "enrich", "notify", "publish", "end"}

ASSUME LanAssumption ==
    /\ RiskyMacs \subseteq Macs /\ MaxMoves \in Nat
    /\ Neighbours # {} /\ "nowhere" \notin Sources

VARIABLES
    network,     \* who answers at each address
    arpTable,    \* what the operating system remembers of it
    route,       \* the default gateway
    routeCache,  \* detect_default_gateway_ip's, for up to a minute
    watching,    \* attack detection and its ARP part are on
    scanning,    \* is_scanning
    scan,        \* the tasks: where they are, and locals
    devices,     \* the list: the MAC at each address, and those at risk
    tableMacs,   \* the MACs in the window's table
    notified,    \* notified_high_risk
    lastGateway, \* last_known_gateway
    moves,       \* changes of the network so far
    \* For the property:
    swaps, alarms,  \* by address: changes of its MAC; alarms about it
    reports,        \* by address: incidents about its ports
    meant,          \* the MAC shown when the operator isolated an address,
                    \* unless a scan was running or its result was not shown
    usedGateway,    \* the gateway of the last scan
    lapsed          \* a scan was made that did not watch

lanWorld == <<network, arpTable, route, moves, swaps>>
watchVars == <<routeCache, lastGateway, alarms, usedGateway, lapsed>>
reportVars == <<notified, reports>>
listVars == <<devices, tableMacs, meant>>
lanVars == <<lanWorld, watchVars, reportVars, watching, scanning, scan, devices, tableMacs, meant>>
lanAllVars == <<deviceVars, lanVars>>

NobodyThere == [s \in Sources |-> NoMac]
EmptyList == [mac |-> NobodyThere, risky |-> {}]
IdleScan ==
    [pc |-> "rest", left |-> {}, found |-> NobodyThere, risky |-> {}, gates |-> {}]

LanInit ==
    /\ DevicesInit
    /\ network \in [Sources -> Macs \union {NoMac}]
    /\ \A s \in Loopback : network[s] = NoMac
    /\ arpTable = network
    /\ route \in Neighbours /\ routeCache = route
    /\ watching = TRUE
    /\ scanning = FALSE /\ scan = [t \in Scanners |-> IdleScan]
    /\ devices = EmptyList /\ tableMacs = NobodyThere
    /\ notified = {} /\ lastGateway = NoGateway
    /\ moves = 0
    /\ swaps = [s \in Sources |-> 0] /\ alarms = [s \in Sources |-> 0]
    /\ reports = [s \in Sources |-> 0]
    /\ meant = NobodyThere /\ usedGateway = "nowhere" /\ lapsed = FALSE

LanAt(t, label) == scan[t].pc = label
LanGoes(t, label) == scan' = [scan EXCEPT ![t].pc = label]

-----------------------------------------------------------------------------
(***************************************************************************)
(* scan_network                                                            *)
(***************************************************************************)
Begun == [IdleScan EXCEPT !.pc = "probe", !.left = Neighbours, !.gates = {route}]

\* A request that finds a scan running returns the list as it is.
StartLanScan(t) ==
    /\ LanAt(t, "rest") /\ ~scanning
    /\ scanning' = TRUE
    /\ scan' = [scan EXCEPT ![t] = Begun]
    /\ UNCHANGED <<deviceVars, lanWorld, watchVars, reportVars, watching, listVars>>

\* SendARP: an answer, which the operating system remembers too, or none.
AskAddress(t, s) ==
    /\ LanAt(t, "probe") /\ s \in scan[t].left
    /\ \/ /\ network[s] # NoMac
          /\ arpTable' = [arpTable EXCEPT ![s] = network[s]]
          /\ scan' = [scan EXCEPT ![t].left = @ \ {s}, ![t].found[s] = network[s]]
       \/ /\ scan' = [scan EXCEPT ![t].left = @ \ {s}]
          /\ UNCHANGED arpTable
    /\ UNCHANGED <<deviceVars, network, route, moves, swaps, watchVars, reportVars, watching,
                   scanning, listVars>>

\* arp -a, for the addresses that did not answer.
Filled(found) == [s \in Sources |-> IF found[s] = NoMac THEN arpTable[s] ELSE found[s]]

ReadTable(t) ==
    /\ LanAt(t, "probe") /\ scan[t].left = {}
    /\ scan' = [scan EXCEPT ![t].pc = "tell", ![t].found = Filled(@)]
    /\ UNCHANGED <<deviceVars, lanWorld, watchVars, reportVars, watching, scanning, listVars>>

TellEngine(t) ==
    /\ LanAt(t, "tell")
    /\ UpdateInventory(scan[t].found, Loopback, scan[t].gates)
    /\ scan' = [scan EXCEPT ![t].pc = "enrich",
                            ![t].left = {s \in Sources : scan[t].found[s] # NoMac}]
    /\ UNCHANGED <<lanWorld, watchVars, reportVars, watching, scanning, listVars>>

\* The ports are those of whoever is at the address by now.
AtRisk(s) == network[s] \in RiskyMacs

\* detect_default_gateway_ip: what it remembers, or the route table.
AskRoute == routeCache' \in {routeCache, route}

Enrich(t, s) ==
    /\ LanAt(t, "enrich") /\ s \in scan[t].left
    /\ AskRoute
    /\ scan' = [scan EXCEPT ![t].left = @ \ {s},
                            ![t].risky = IF AtRisk(s) THEN @ \union {s} ELSE @]
    /\ UNCHANGED <<deviceVars, lanWorld, lastGateway, alarms, usedGateway, lapsed, reportVars,
                   watching, scanning, listVars>>

\* inspect_arp_gateway: another MAC at the same address is an alarm.
InspectGateway(seen) ==
    IF watching /\ seen[2] # NoMac
    THEN /\ lastGateway' = seen
         /\ alarms' = [s \in Sources |-> alarms[s] +
              IF s = seen[1] /\ s = lastGateway[1] /\ lastGateway # seen THEN 1 ELSE 0]
    ELSE UNCHANGED <<lastGateway, alarms>>

\* If the gateway is among the devices.
WatchGateway(t) ==
    /\ LanAt(t, "enrich") /\ scan[t].left = {}
    /\ AskRoute
    /\ InspectGateway(<<routeCache', scan[t].found[routeCache']>>)
    /\ usedGateway' = routeCache'
    /\ lapsed' = (lapsed \/ ~watching)
    /\ LanGoes(t, "notify")
    /\ UNCHANGED <<deviceVars, lanWorld, reportVars, watching, scanning, listVars>>

\* One incident for an address, for as long as the program runs.
NotifyRisks(t) ==
    /\ LanAt(t, "notify")
    /\ LET fresh == scan[t].risky \ notified IN
       /\ notified' = notified \union fresh
       /\ reports' = [s \in Sources |-> IF s \in fresh THEN reports[s] + 1 ELSE reports[s]]
    /\ LanGoes(t, "publish")
    /\ UNCHANGED <<deviceVars, lanWorld, watchVars, watching, scanning, listVars>>

\* (mutant) The list is of what the operating system remembers by now.
PublishTable(t) ==
    /\ LanAt(t, "publish")
    /\ devices' = [mac |-> arpTable, risky |-> scan[t].risky]
    /\ LanGoes(t, "end")
    /\ UNCHANGED <<deviceVars, lanWorld, watchVars, reportVars, watching, scanning, tableMacs, meant>>

Publish(t) ==
    /\ LanAt(t, "publish")
    /\ devices' = [mac |-> scan[t].found, risky |-> scan[t].risky]
    /\ LanGoes(t, "end")
    /\ UNCHANGED <<deviceVars, lanWorld, watchVars, reportVars, watching, scanning, tableMacs, meant>>

\* ScanGuard is dropped.
EndLanScan(t) ==
    /\ LanAt(t, "end")
    /\ scanning' = FALSE
    /\ scan' = [scan EXCEPT ![t] = IdleScan]
    /\ UNCHANGED <<deviceVars, lanWorld, watchVars, reportVars, watching, listVars>>

-----------------------------------------------------------------------------
(***************************************************************************)
(* Around the scan                                                         *)
(***************************************************************************)
\* A device leaves an address, or another one has it.
DeviceMoves(s, m) ==
    /\ moves < MaxMoves /\ moves' = moves + 1
    /\ s \in Neighbours /\ m # network[s]
    /\ network' = [network EXCEPT ![s] = m]
    /\ swaps' = [swaps EXCEPT ![s] = @ + 1]
    /\ UNCHANGED <<deviceVars, arpTable, route, watchVars, reportVars, watching, scanning, scan,
                   listVars>>

RouteMoves(s) ==
    /\ moves < MaxMoves /\ moves' = moves + 1
    /\ s \in Neighbours \ {route}
    /\ route' = s
    /\ UNCHANGED <<deviceVars, network, arpTable, swaps, watchVars, reportVars, watching, scanning,
                   scan, listVars>>

\* The operating system talks to an address, or forgets it.
TableLearns(s) ==
    /\ arpTable[s] # network[s]
    /\ arpTable' = [arpTable EXCEPT ![s] = network[s]]
    /\ UNCHANGED <<deviceVars, network, route, moves, swaps, watchVars, reportVars, watching,
                   scanning, scan, listVars>>

\* The diagnostics of the network ask for the gateway too.
Diagnose ==
    /\ routeCache # route /\ routeCache' = route
    /\ UNCHANGED <<deviceVars, lanWorld, lastGateway, alarms, usedGateway, lapsed, reportVars,
                   watching, scanning, scan, listVars>>

\* The window refreshes its table, every few seconds.
ShowDevices ==
    /\ tableMacs # devices.mac /\ tableMacs' = devices.mac
    /\ UNCHANGED <<deviceVars, lanWorld, watchVars, reportVars, watching, scanning, scan,
                   devices, meant>>

SwitchWatch ==
    /\ watching' = ~watching
    /\ UNCHANGED <<deviceVars, lanWorld, watchVars, reportVars, scanning, scan, listVars>>

\* The operator isolates an address in the table, or frees it.
IsolateShown(s) ==
    /\ tableMacs[s] # NoMac
    /\ QuarantineIp(s)
    /\ meant' = [meant EXCEPT ![s] = IF scanning \/ tableMacs # devices.mac THEN NoMac ELSE tableMacs[s]]
    /\ UNCHANGED <<lanWorld, watchVars, reportVars, watching, scanning, scan, devices, tableMacs>>

FreeShown(s) ==
    /\ UnquarantineIp(s)
    /\ UNCHANGED lanVars

ScanStep(t) ==
    \/ StartLanScan(t)
    \/ \E s \in Sources : AskAddress(t, s) \/ Enrich(t, s)
    \/ ReadTable(t) \/ TellEngine(t) \/ WatchGateway(t) \/ NotifyRisks(t)
    \/ Publish(t) \/ EndLanScan(t)

LanNext ==
    \/ \E t \in Scanners : ScanStep(t)
    \/ \E s \in Sources :
         \/ \E m \in Macs \union {NoMac} : DeviceMoves(s, m)
         \/ RouteMoves(s) \/ TableLearns(s) \/ IsolateShown(s) \/ FreeShown(s)
    \/ SwitchWatch \/ Diagnose \/ ShowDevices
    \/ InventoryAges /\ UNCHANGED lanVars

LanSpec == LanInit /\ [][LanNext]_lanAllVars

-----------------------------------------------------------------------------
\* Every variable keeps to the values the code can give it.
LanTypeOK ==
    /\ {network, arpTable, meant, tableMacs, devices.mac} \subseteq Observations
    /\ {route, routeCache} \subseteq Neighbours
    /\ {watching, scanning, lapsed} \subseteq BOOLEAN
    /\ scan \in [Scanners -> [pc : ScanLabels, left : SUBSET Sources, found : Observations,
                              risky : SUBSET Sources, gates : SUBSET Neighbours]]
    /\ {devices.risky, notified} \subseteq SUBSET Sources
    /\ usedGateway \in Neighbours \union {"nowhere"}
    /\ lastGateway \in Neighbours \X Macs \union {NoGateway}
    /\ moves \in 0 .. MaxMoves /\ {swaps, alarms, reports} \subseteq [Sources -> Nat]

\* Scans follow each other and never mix, whoever asks for them and however
\* the network changes meanwhile.  Between two scans the window's list and the
\* inventory of the quarantine are one picture; what the operator isolates
\* once the window shows it is the device in the table, and not one that has
\* taken its address.  There is an alarm about the gateway only when its MAC
\* has changed, and, if every scan watched, the MAC on record for it is the one
\* in the list.  A listed device with a port of high risk has been reported,
\* once for its address.
ScansDoNotMix ==
    /\ ~scanning /\ devices # EmptyList => inventory = devices.mac
    /\ \A s \in Isolated : meant[s] \in {NoMac, entries[s]}
    /\ \A s \in Sources : alarms[s] <= swaps[s]
    /\ ~scanning /\ ~lapsed /\ lastGateway[1] = usedGateway /\ usedGateway # "nowhere" =>
         devices.mac[usedGateway] \in {NoMac, lastGateway[2]}
    /\ \A s \in Sources : reports[s] <= 1 /\ (s \in devices.risky => reports[s] = 1)

=============================================================================
