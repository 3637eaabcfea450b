---------------------------- MODULE SecurityEngine ----------------------------
(***************************************************************************)
(* The security engine (src/modules/security/mod.rs): rate limits, the     *)
(* temporary blocks of the IPS, the detectors of floods, tunnels,          *)
(* generated names and port scans, and the incident log.                   *)
(*                                                                         *)
(* The engine has no thread of its own.  The handlers of DNS packets and   *)
(* the connection monitor call it; every map has a lock of its own that is *)
(* held for one step only, so calls interleave between any two of them.    *)
(* What a caller does between two calls is in QueryPath.                   *)
(*                                                                         *)
(* One unit of time is the alert cooldown of the code, a minute: instants  *)
(* of the same unit are within the window of the rate limits.              *)
(***************************************************************************)
EXTENDS DeviceQuarantine, Sequences

CONSTANTS
    Handlers,      \* threads that call the engine
    Ports,         \* local ports a scanner may try
    HardLimit,     \* queries in the window before the hard limit, by source
    FloodLimit,    \* and before the flood detector
    Keep,          \* instants a history keeps when a limit is exceeded: 10
    MaxTracked,    \* histories before some are dropped: 1000
    Drop,          \* how many are dropped then: 256
    ScanPorts,     \* PORT_SCAN_DISTINCT_PORTS
    MaxBlocked,    \* blocks before those that ran out are swept: 500
    LogCap,        \* incidents kept: 500
    Horizon        \* the last instant of an instance

\* Minutes a source is blocked for, and minutes between two alerts.
Lasts == [hard |-> 1, dga |-> 2, tunnel |-> 3, flood |-> 5, scan |-> 10]
Cooldown == 1
ScanCooldown == 10

Never == -1
Instants == 0 .. Horizon
Kinds == {"plain", "tunnel", "dga", "darknet"}
EngineLabels == {"idle", "count", "alert", "isolate", "screen", "expire", "screened",
                 "inspect", "flood", "punish", "report", "inspected", "scan", "scanpunish"}

ASSUME EngineAssumption ==
    /\ IsFiniteSet(Handlers)
    /\ HardLimit \in [Sources -> Nat]
    /\ {FloodLimit, Keep, MaxTracked, ScanPorts, MaxBlocked, LogCap, Horizon} \subseteq Nat
    /\ Drop \in 1 .. MaxTracked

VARIABLES
    clock,
    detection, autoBlock,     \* the switches of the IDS and of the IPS
    hardHistory, history,     \* instants of the queries of each source, oldest first
    hardAlert, floodAlert,    \* the instants of the last alerts
    blocked,                  \* when the block of a source ends
    probes, scanAlert,        \* ports each source tried, and the last alert
    incidents,                \* the length of the incident log
    call                      \* the callers: where they are, and locals

limits == <<hardHistory, history, hardAlert, floodAlert>>
scans == <<probes, scanAlert>>
engineVars == <<clock, detection, autoBlock, limits, blocked, scans, incidents, call>>

\* A call of the engine: the source and the nature of the name it is about,
\* the instant it began, the block it is about to set, and its result.
At(u) == call[u].pc
Src(u) == call[u].src
\* A caller that returns forgets its call.
Idle == [pc |-> "idle", src |-> "nobody", name |-> "nothing", kind |-> "plain", at |-> Never,
         ips |-> FALSE, offence |-> "plain", incident |-> FALSE, reply |-> "nothing", held |-> {}]
Leave(u) == call' = [call EXCEPT ![u] = Idle]
Goto(u, label) == call' = [call EXCEPT ![u].pc = label]

-----------------------------------------------------------------------------
\* A source without a history counts as not tracked.
Tracked(h) == {s \in Sources : h[s] # <<>>}
\* What retain keeps: the queries of this instant.
Fresh(s, h) ==
    LET kept == {i \in DOMAIN h[s] : h[s][i] = clock} IN [i \in 1 .. Cardinality(kept) |-> clock]
Latest(h, s) == h[s][Len(h[s])]

\* Over the cap the histories without a fresh instant go, and then, while
\* there are still too many, those whose last query is the oldest.
Trimmed(h) ==
    LET live == {s \in Tracked(h) : Latest(h, s) = clock}
        Without(gone) == [s \in Sources |-> IF s \in gone THEN <<>> ELSE h[s]] IN
    IF Cardinality(Tracked(h)) <= MaxTracked THEN {h}
    ELSE IF Cardinality(live) <= MaxTracked \/ Cardinality(live) <= Drop
    THEN {Without(Tracked(h) \ live)}
    ELSE {Without(gone \union (Tracked(h) \ live)) :
            gone \in {d \in SUBSET live : Cardinality(d) = Drop}}

\* A query of s is counted in h; over the limit only the last ones are kept.
Counted(h, s, limit) ==
    LET n == Append(Fresh(s, h), clock) IN
    [h EXCEPT ![s] = IF Len(n) > limit /\ Len(n) > Keep
                     THEN SubSeq(n, Len(n) - Keep + 1, Len(n)) ELSE n]
Exceeds(h, s, limit) == Len(Fresh(s, h)) + 1 > limit

Within(t, from, span) == from # Never /\ t - from < span

\* block_ip_temporarily: the new end replaces the old one.
Block(s, minutes) ==
    LET live == [a \in Sources |-> IF blocked[a] > clock THEN blocked[a] ELSE Never]
        swept == IF Cardinality({a \in Sources : blocked[a] # Never}) > MaxBlocked
                 THEN live ELSE blocked IN
    blocked' = IF s \in Loopback THEN blocked ELSE [swept EXCEPT ![s] = clock + minutes]

IsLive(s) == blocked[s] > clock

-----------------------------------------------------------------------------
(***************************************************************************)
(* enforce_hard_rate_limit                                                 *)
(***************************************************************************)
CountQuery(u) ==
    /\ At(u) = "count"
    /\ \E h \in Trimmed(hardHistory) :
        /\ hardHistory' = Counted(h, Src(u), HardLimit[Src(u)])
        /\ call' = [call EXCEPT
             ![u].pc = IF Exceeds(h, Src(u), HardLimit[Src(u)]) THEN "alert" ELSE "screen",
             ![u].at = clock]
    /\ UNCHANGED <<clock, detection, autoBlock, history, hardAlert, floodAlert,
                   blocked, scans, incidents>>

\* One alert a minute; the query is dropped with or without one.
RaiseHardAlert(u) ==
    /\ At(u) = "alert"
    /\ IF Within(call[u].at, hardAlert[Src(u)], Cooldown)
       THEN Leave(u) /\ UNCHANGED hardAlert
       ELSE /\ hardAlert' = [hardAlert EXCEPT ![Src(u)] = call[u].at]
            /\ Goto(u, "isolate")
    /\ UNCHANGED <<clock, detection, autoBlock, hardHistory, history, floodAlert,
                   blocked, scans, incidents>>

IsolateSource(u) ==
    /\ At(u) = "isolate"
    /\ Block(Src(u), Lasts.hard)
    /\ Leave(u)
    /\ UNCHANGED <<clock, detection, autoBlock, limits, scans, incidents>>

(***************************************************************************)
(* is_ip_temporarily_blocked: under the read lock, and again under the     *)
(* write lock when the block seemed to have ended.                         *)
(***************************************************************************)
Screen(u) ==
    /\ At(u) = "screen"
    /\ \/ blocked[Src(u)] = Never /\ Goto(u, "screened")
       \/ blocked[Src(u)] # Never /\ ~IsLive(Src(u)) /\ Goto(u, "expire")
       \/ IsLive(Src(u)) /\ Leave(u)
    /\ UNCHANGED <<clock, detection, autoBlock, limits, blocked, scans, incidents>>

\* (mutant) What the read lock showed is not looked at again.
ExpireUnseen(u) ==
    /\ At(u) = "expire"
    /\ blocked' = [blocked EXCEPT ![Src(u)] = Never]
    /\ Goto(u, "screened")
    /\ UNCHANGED <<clock, detection, autoBlock, limits, scans, incidents>>

Expire(u) ==
    /\ At(u) = "expire"
    /\ IF IsLive(Src(u))
       THEN Leave(u) /\ UNCHANGED blocked
       ELSE /\ blocked' = [blocked EXCEPT ![Src(u)] = Never]
            /\ Goto(u, "screened")
    /\ UNCHANGED <<clock, detection, autoBlock, limits, scans, incidents>>

-----------------------------------------------------------------------------
(***************************************************************************)
(* inspect_dns_query.  The switches are read once, at its start.  The      *)
(* first detector that fires ends it.                                      *)
(***************************************************************************)
InspectQuery(u) ==
    /\ At(u) = "inspect"
    /\ IF ~detection
       THEN /\ call' = [call EXCEPT ![u].pc = "inspected", ![u].incident = FALSE]
            /\ UNCHANGED history
       ELSE \E h \in Trimmed(history) :
            /\ history' = Counted(h, Src(u), FloodLimit)
            /\ call' = [call EXCEPT
                 ![u].pc = IF Exceeds(h, Src(u), FloodLimit) THEN "flood"
                           ELSE CASE call[u].kind \in {"tunnel", "dga"} -> "punish"
                                  [] call[u].kind = "darknet" -> "report"
                                  [] OTHER -> "inspected",
                 ![u].at = clock, ![u].ips = autoBlock, ![u].incident = FALSE,
                 ![u].offence = IF Exceeds(h, Src(u), FloodLimit) THEN "flood" ELSE call[u].kind]
    /\ UNCHANGED <<clock, detection, autoBlock, hardHistory, hardAlert, floodAlert,
                   blocked, scans, incidents>>

\* Without the IPS one flood incident a minute; with it each flood is one, so
\* that the caller drops the query.
RaiseFloodAlert(u) ==
    /\ At(u) = "flood"
    /\ IF ~call[u].ips /\ Within(call[u].at, floodAlert[Src(u)], Cooldown)
       THEN Goto(u, "inspected") /\ UNCHANGED floodAlert
       ELSE /\ floodAlert' = [floodAlert EXCEPT ![Src(u)] = call[u].at]
            /\ Goto(u, "punish")
    /\ UNCHANGED <<clock, detection, autoBlock, hardHistory, history, hardAlert,
                   blocked, scans, incidents>>

Punish(u) ==
    /\ At(u) = "punish"
    /\ IF call[u].ips THEN Block(Src(u), Lasts[call[u].offence]) ELSE UNCHANGED blocked
    /\ Goto(u, "report")
    /\ UNCHANGED <<clock, detection, autoBlock, limits, scans, incidents>>

\* (mutant) The incident log is never trimmed.
RecordIncidentUntrimmed(u) ==
    /\ At(u) = "report"
    /\ incidents' = incidents + 1
    /\ IF call[u].offence = "scan" THEN Leave(u)
       ELSE call' = [call EXCEPT ![u].pc = "inspected", ![u].incident = TRUE]
    /\ UNCHANGED <<clock, detection, autoBlock, limits, blocked, scans>>

\* record_incident; the caller is told of it, or is done.
Recorded == IF incidents < LogCap THEN incidents + 1 ELSE LogCap
RecordIncident(u) ==
    /\ At(u) = "report"
    /\ incidents' = Recorded
    /\ IF call[u].offence = "scan" THEN Leave(u)
       ELSE call' = [call EXCEPT ![u].pc = "inspected", ![u].incident = TRUE]
    /\ UNCHANGED <<clock, detection, autoBlock, limits, blocked, scans>>

-----------------------------------------------------------------------------
(***************************************************************************)
(* record_inbound_port_probe, called by the connection monitor             *)
(***************************************************************************)
\* A port tried again within the window keeps its first instant.
FreshPorts(s) == {p \in probes[s] : p[2] = clock}
Probe(u, s, port) ==
    /\ At(u) = "idle"
    /\ detection /\ s \notin Loopback
    /\ LET seen == FreshPorts(s) \union {<<port, clock>>} IN
       /\ probes' = [probes EXCEPT ![s] = seen]
       /\ IF Cardinality(seen) < ScanPorts
          THEN UNCHANGED call
          ELSE call' = [call EXCEPT ![u].pc = "scan", ![u].src = s, ![u].at = clock,
                                    ![u].offence = "scan"]
    /\ UNCHANGED <<clock, detection, autoBlock, limits, blocked, scanAlert, incidents>>

RaiseScanAlert(u) ==
    /\ At(u) = "scan"
    /\ IF Within(call[u].at, scanAlert[Src(u)], ScanCooldown)
       THEN Leave(u) /\ UNCHANGED scanAlert
       ELSE /\ scanAlert' = [scanAlert EXCEPT ![Src(u)] = call[u].at]
            /\ Goto(u, "scanpunish")
    /\ UNCHANGED <<clock, detection, autoBlock, limits, blocked, probes, incidents>>

PunishScan(u) ==
    /\ At(u) = "scanpunish"
    /\ IF autoBlock THEN Block(Src(u), Lasts.scan) ELSE UNCHANGED blocked
    /\ Goto(u, "report")
    /\ UNCHANGED <<clock, detection, autoBlock, limits, scans, incidents>>

-----------------------------------------------------------------------------
ToggleDetection ==
    /\ detection' = ~detection
    /\ UNCHANGED <<clock, autoBlock, limits, blocked, scans, incidents, call>>

ToggleAutoBlock ==
    /\ autoBlock' = ~autoBlock
    /\ UNCHANGED <<clock, detection, limits, blocked, scans, incidents, call>>

ClearIncidents ==
    /\ incidents' = 0
    /\ UNCHANGED <<clock, detection, autoBlock, limits, blocked, scans, call>>

EngineStep(u) ==
    \/ CountQuery(u) \/ RaiseHardAlert(u) \/ IsolateSource(u)
    \/ Screen(u) \/ Expire(u)
    \/ InspectQuery(u) \/ RaiseFloodAlert(u) \/ Punish(u) \/ RecordIncident(u)
    \/ RaiseScanAlert(u) \/ PunishScan(u)

-----------------------------------------------------------------------------
\* A source whose hard-limit alerts are silenced for a minute is blocked for
\* that minute, once the caller that raised the alert has set the block:
\* whatever blocks it meanwhile lasts at least as long, and a block is removed
\* only when it has ended, although the lock is given up between the look and
\* the removal.
AlertedIsBlocked ==
    \A s \in Sources \ Loopback :
        /\ hardAlert[s] # Never /\ clock < hardAlert[s] + Cooldown
        /\ \A u \in Handlers : ~(At(u) = "isolate" /\ Src(u) = s)
        => IsLive(s)

=============================================================================
