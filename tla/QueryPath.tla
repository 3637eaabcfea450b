------------------------------- MODULE QueryPath -------------------------------
(***************************************************************************)
(* What happens to a DNS packet (src/modules/dns/mod.rs): run_dns_server   *)
(* starts a handler for it while one of the permits is free, and           *)
(* handle_dns_packet asks the security engine (SecurityEngine), the        *)
(* quarantine (DeviceQuarantine), the block list and the client policy,    *)
(* the cache, and the upstream resolvers, in that order.                   *)
(*                                                                         *)
(* A handler is one permit.  What the block list and the operator's rules  *)
(* say of a name is a membership here, and Blocklist says how it comes     *)
(* about; but the reads of the policy, of the rules, of the remembered     *)
(* verdicts and of the list are the separate steps they are in the code.   *)
(* The response policy of the code is left out, for nothing but a test     *)
(* sets one.                                                               *)
(***************************************************************************)
EXTENDS SecurityEngine

CONSTANTS
    Names,          \* domain names a client asks for
    KindOf,         \* what the detectors see in each name
    LocalNames,     \* names under .lan, .local and so on
    Traffic,        \* queries clients may send: a source and a name
    MaxQueries,     \* packets in an instance
    Ttl,            \* minutes an answer stays in the cache: one at most
    QueryInputs     \* what may happen around the handlers in this instance

\* What may happen around the handlers:
\*   ids       the switches of the engine, scanned ports, the incident log
\*   devices   the operator isolates devices, and the inventory changes
\*   rules     the names the operator blocks change
\*   exceptions  what they let pass changes
\*   lists     the block list changes, and verdicts are forgotten, or remembered
\*             for other names
\*   policy    the pause of the filter and the clients' modes
\*   outage    the upstreams can be out of reach
QueryInputKinds ==
    {"ids", "devices", "rules", "exceptions", "lists", "policy", "outage"}

Answers == {"public", "private"}
Replies == Answers \union {"nothing", "nxdomain", "sinkhole", "servfail"}
Modes == {"default", "trusted", "strict"}
Verdicts == {"unknown", "clear", "blocked"}
\* Where the policy and the lists are asked, in this order.
AskLabels == {"verdict", "mode", "allow", "rules", "known", "disk", "keep", "kept"}
HandlerLabels == EngineLabels \union AskLabels \union {"cached", "forward", "arrived", "done"}

ASSUME QueryAssumption ==
    /\ KindOf \in [Names -> Kinds]
    /\ LocalNames \subseteq Names
    /\ Traffic \subseteq Sources \X Names
    /\ MaxQueries \in Nat /\ Ttl \in Nat
    /\ QueryInputs \subseteq QueryInputKinds

VARIABLES
    packets,      \* packets received
    total, refused, passed,   \* total_queries, blocked_count, and the log's others
    denied,                   \* names that are themselves on the list in use
    custom, allowed,          \* names the operator's rules or the built-in ones deny;
                              \* the operator's allow list
    verdicts,                 \* fast_cache: what is remembered of each name
    paused, mode,             \* the client policy
    cache,        \* the answer stored for each name, and when
    online        \* the upstreams answer

counters == <<packets, total, refused, passed>>
policy == <<denied, custom, allowed, paused, mode>>
queryVars == <<deviceVars, engineVars, counters, policy, verdicts, cache, online>>

NoAnswer == [answer |-> "nothing", at |-> Never]
NoVerdicts == [n \in Names |-> "unknown"]

EngineInit ==
    /\ clock = 0
    /\ detection \in BOOLEAN /\ autoBlock \in BOOLEAN
    /\ hardHistory = [s \in Sources |-> <<>>] /\ history = [s \in Sources |-> <<>>]
    /\ hardAlert = [s \in Sources |-> Never] /\ floodAlert = [s \in Sources |-> Never]
    /\ blocked = [s \in Sources |-> Never]
    /\ probes = [s \in Sources |-> {}] /\ scanAlert = [s \in Sources |-> Never]
    /\ incidents = 0
    /\ call = [u \in Handlers |-> Idle]

QueryInit ==
    /\ DevicesInit /\ EngineInit
    /\ packets = 0 /\ total = 0 /\ refused = 0 /\ passed = 0
    \* of blocklist.bin and config.toml
    /\ denied \subseteq Names /\ custom \subseteq Names /\ allowed \subseteq Names
    /\ mode \in [Sources -> Modes]
    /\ verdicts = NoVerdicts /\ paused = FALSE
    /\ cache = [n \in Names |-> NoAnswer]
    /\ online \in BOOLEAN

-----------------------------------------------------------------------------
(***************************************************************************)
(* What has held for a query since it arrived (history for the properties) *)
(***************************************************************************)
\* A client in the strict mode gets no name; others none that a rule denies, nor
\* one that is on the list by its own name and is not remembered as clear.
StrictFor(s) == ~paused /\ mode[s] = "strict" /\ s \notin Loopback
FilterOn(s, n) == ~paused /\ mode[s] = "default" /\ n \notin allowed
RuledOut(s, n) == FilterOn(s, n) /\ n \in custom
OnList(s, n) == FilterOn(s, n) /\ n \in denied /\ verdicts[n] # "clear"
Walled(n) == n \notin LocalNames \union allowed
Facts == [s \in Sources |-> [n \in Names |->
    (IF IsLive(s) THEN {"banned"} ELSE {})
    \union (IF s \in Isolated THEN {"isolated"} ELSE {})
    \union (IF StrictFor(s) THEN {"strict"} ELSE {})
    \union (IF RuledOut(s, n) THEN {"ruled"} ELSE {})
    \union (IF OnList(s, n) THEN {"listed"} ELSE {})
    \union (IF Walled(n) THEN {"walled"} ELSE {})]]
Shields == {"banned", "isolated", "strict", "ruled", "listed", "walled"}

\* After a change of what the facts are about only what still holds is kept of
\* the calls c.
Holding(c) ==
    [u \in Handlers |->
        IF c[u].name \notin Names THEN c[u]
        ELSE [c[u] EXCEPT !.held = @ \intersect Facts'[c[u].src][c[u].name]]]
StillHeld == call' = Holding(call)

-----------------------------------------------------------------------------
(***************************************************************************)
(* handle_dns_packet                                                       *)
(***************************************************************************)
Quiet == UNCHANGED <<deviceVars, clock, detection, autoBlock, limits, blocked, scans,
                     policy, verdicts, online>>
Stay == Quiet /\ UNCHANGED incidents

\* A packet that finds no permit is dropped.
Receive(u, s, n) ==
    /\ At(u) = "idle"
    /\ <<s, n>> \in Traffic
    /\ packets < MaxQueries
    /\ packets' = packets + 1
    /\ call' = [call EXCEPT ![u] = [Idle EXCEPT !.pc = "count", !.src = s, !.name = n,
                                                !.kind = KindOf[n], !.held = Facts[s][n]]]
    /\ Stay /\ UNCHANGED <<total, refused, passed, cache>>

ReplyWith(u, reply) == call' = [call EXCEPT ![u].pc = "done", ![u].reply = reply]

CheckQuarantine(u) ==
    /\ At(u) = "screened"
    /\ IF Src(u) \in Isolated
       THEN ReplyWith(u, "nxdomain") /\ UNCHANGED total
       ELSE Goto(u, "inspect") /\ total' = total + 1
    /\ Stay /\ UNCHANGED <<packets, refused, passed, cache>>

\* (mutant) An incident is counted as a refusal although the query goes on.
JudgeCountsIncident(u) ==
    /\ At(u) = "inspected"
    /\ refused' = IF call[u].incident \/ call[u].kind = "darknet" THEN refused + 1 ELSE refused
    /\ IF call[u].kind = "darknet" \/ (call[u].incident /\ autoBlock)
       THEN ReplyWith(u, "nxdomain")
       ELSE Goto(u, "verdict")
    /\ Stay /\ UNCHANGED <<packets, total, passed, cache>>

\* After inspect_dns_query: names of the darknet are refused whatever it said,
\* others if it reported an incident and the IPS is on by now.
Judge(u) ==
    /\ At(u) = "inspected"
    /\ IF call[u].kind = "darknet" \/ (call[u].incident /\ autoBlock)
       THEN ReplyWith(u, "nxdomain") /\ refused' = refused + 1
       ELSE Goto(u, "verdict") /\ UNCHANGED refused
    /\ Stay /\ UNCHANGED <<packets, total, passed, cache>>

\* The name is sunk, or goes on to be resolved.
Sink(u) == ReplyWith(u, "sinkhole") /\ refused' = refused + 1 /\ UNCHANGED passed
Pass(u) == Goto(u, "cached") /\ passed' = passed + 1 /\ UNCHANGED refused
AskOn(u, label) == Goto(u, label) /\ UNCHANGED <<refused, passed>>
Asking == Stay /\ UNCHANGED <<packets, total, cache>>

\* is_paused
AskPause(u) ==
    /\ At(u) = "verdict"
    /\ IF paused THEN Pass(u) ELSE AskOn(u, "mode")
    /\ Asking

\* mode_for_client; the strict mode is not for this machine itself.
AskMode(u) ==
    /\ At(u) = "mode"
    /\ CASE mode[Src(u)] = "default" -> AskOn(u, "allow")
         [] mode[Src(u)] = "strict" /\ Src(u) \notin Loopback -> Sink(u)
         [] OTHER -> Pass(u)
    /\ Asking

\* should_block: the exceptions, the operator's own and the downloaded ones
\* under both locks; the rules; what is remembered; the list.
AskAllowed(u) ==
    /\ At(u) = "allow"
    /\ IF call[u].name \in allowed THEN Pass(u) ELSE AskOn(u, "rules")
    /\ Asking

AskRules(u) ==
    /\ At(u) = "rules"
    /\ IF call[u].name \in custom THEN Sink(u) ELSE AskOn(u, "known")
    /\ Asking

AskKnown(u) ==
    /\ At(u) = "known"
    /\ CASE verdicts[call[u].name] = "blocked" -> Sink(u)
         [] verdicts[call[u].name] = "clear" -> Pass(u)
         [] OTHER -> AskOn(u, "disk")
    /\ Asking

\* check_disk_hierarchy: a name that is not on the list may have a parent there,
\* but what is remembered of the parent counts; Blocklist has that in detail.
AskDisk(u) ==
    /\ At(u) = "disk"
    /\ \E reply \in IF call[u].name \in denied THEN {"sinkhole"} ELSE {"sinkhole", "nothing"} :
          call' = [call EXCEPT ![u].pc = "keep", ![u].reply = reply]
    /\ UNCHANGED <<refused, passed>>
    /\ Asking

\* The verdict is remembered after the lock of the list is given up.
KeepVerdict(u) ==
    /\ At(u) = "keep"
    /\ verdicts' = [verdicts EXCEPT ![call[u].name] =
                      IF call[u].reply = "sinkhole" THEN "blocked" ELSE "clear"]
    /\ UNCHANGED <<deviceVars, clock, detection, autoBlock, limits, blocked, scans, incidents,
                   counters, policy, cache, online>>
    /\ call' = Holding([call EXCEPT ![u].pc = "kept"])

Decide(u) ==
    /\ At(u) = "kept"
    /\ IF call[u].reply = "sinkhole" THEN Sink(u) ELSE Pass(u)
    /\ Asking

\* record_rebind_incident: one incident for a source and a name in a while.
RecordRebinding == incidents' \in {incidents, Recorded}

\* cached_response_for; store_cache_response
Cached(n) == cache[n] # NoAnswer /\ clock < cache[n].at + Ttl
Storing(n, answer) == [cache EXCEPT ![n] = [answer |-> answer, at |-> clock]]

\* (mutant) Stored answers are trusted.
ReplyCached(u) ==
    /\ At(u) = "cached"
    /\ IF Cached(call[u].name)
       THEN ReplyWith(u, cache[call[u].name].answer)
       ELSE Goto(u, "forward")
    /\ Stay /\ UNCHANGED <<counters, cache>>

\* The rebinding check is made over what the cache returns, too.
AskCache(u) ==
    /\ At(u) = "cached"
    /\ LET answer == cache[call[u].name].answer IN
       IF ~Cached(call[u].name)
       THEN Goto(u, "forward") /\ UNCHANGED incidents
       ELSE IF answer = "private" /\ Walled(call[u].name)
       THEN ReplyWith(u, "nxdomain") /\ RecordRebinding
       ELSE ReplyWith(u, answer) /\ UNCHANGED incidents
    /\ Quiet /\ UNCHANGED <<counters, cache>>

\* forward_parallel_racing is over: the first answer of an upstream that
\* matches the query, or none in time.  Late answers find nobody.
Arrive(u, answer) == call' = [call EXCEPT ![u].pc = "arrived", ![u].reply = answer]

\* (mutant) The race has no limit of time of its own.
ForwardForever(u) ==
    /\ At(u) = "forward"
    /\ online /\ \E a \in Answers : Arrive(u, a)
    /\ Stay /\ UNCHANGED <<counters, cache>>

Forward(u) ==
    /\ At(u) = "forward"
    /\ \/ online /\ \E a \in Answers : Arrive(u, a)
       \/ ReplyWith(u, "servfail")
    /\ Stay /\ UNCHANGED <<counters, cache>>

\* The rebinding check, and store_cache_response for what passes it.
TakeAnswer(u) ==
    /\ At(u) = "arrived"
    /\ IF call[u].reply = "private" /\ Walled(call[u].name)
       THEN ReplyWith(u, "nxdomain") /\ RecordRebinding /\ UNCHANGED cache
       ELSE /\ Goto(u, "done")
            /\ cache' = Storing(call[u].name, call[u].reply)
            /\ UNCHANGED incidents
    /\ Quiet /\ UNCHANGED counters

\* The reply is sent and the permit given back.
Finish(u) ==
    /\ At(u) = "done"
    /\ call' = [call EXCEPT ![u] = Idle]
    /\ Stay /\ UNCHANGED <<counters, cache>>

\* The calls of the engine; a caller that has ended has forgotten its query.
EngineWorks(u) ==
    /\ EngineStep(u)
    /\ UNCHANGED <<deviceVars, counters, policy, verdicts, cache, online>>

-----------------------------------------------------------------------------
(***************************************************************************)
(* Around the handlers                                                     *)
(***************************************************************************)
\* Only what is asked, and who asks, matters here.
Asked == {q[2] : q \in Traffic}
Askers == {q[1] : q \in Traffic}

Minute ==
    /\ clock < Horizon
    /\ clock' = clock + 1
    /\ UNCHANGED <<deviceVars, detection, autoBlock, limits, blocked, scans, incidents,
                   counters, policy, verdicts, cache, online>>
    /\ StillHeld

OperatorOfIds ==
    /\ "ids" \in QueryInputs
    /\ \/ ToggleDetection \/ ToggleAutoBlock \/ ClearIncidents
       \/ \E u \in Handlers, s \in Askers, p \in Ports : Probe(u, s, p)
    /\ UNCHANGED <<deviceVars, counters, policy, verdicts, cache, online>>

\* An isolation that is accepted is an incident.
OperatorOfDevices ==
    /\ "devices" \in QueryInputs
    /\ \/ DevicesNext /\ Isolated' \subseteq Isolated /\ UNCHANGED incidents
       \/ /\ \E s \in Sources : QuarantineIp(s)
          /\ incidents' = Recorded
    /\ UNCHANGED <<clock, detection, autoBlock, limits, blocked, scans, counters, policy,
                   verdicts, cache, online>>
    /\ StillHeld

Toggled(S, n) == IF n \in S THEN S \ {n} ELSE S \union {n}

\* Another list is taken into use; fast_cache is cleared after that.
ListChanges(n) ==
    /\ denied' = Toggled(denied, n)
    /\ UNCHANGED <<custom, allowed, verdicts>>

\* A rule or an exception is added or removed, which clears fast_cache under its
\* own lock; of the set of rules that an import brings, after it.
RuleChanges(n) ==
    /\ \/ "rules" \in QueryInputs /\ custom' = Toggled(custom, n) /\ UNCHANGED allowed
       \/ "exceptions" \in QueryInputs /\ allowed' = Toggled(allowed, n) /\ UNCHANGED custom
    /\ verdicts' \in {verdicts, NoVerdicts}
    /\ UNCHANGED denied

\* fast_cache is cleared after a change of the list or of the rules, and has one
\* place for many names.
VerdictsForgotten ==
    /\ \/ verdicts' = NoVerdicts
       \/ \E n \in Asked : verdicts' = [verdicts EXCEPT ![n] = "unknown"]
    /\ UNCHANGED <<denied, custom, allowed>>

\* check_disk_hierarchy for a name below n, by a query that is not followed:
\* what the list says of n itself is remembered, under the lock of the list.
LookBelow(n) ==
    /\ verdicts[n] = "unknown"
    /\ verdicts' = [verdicts EXCEPT ![n] = IF n \in denied THEN "blocked" ELSE "clear"]
    /\ UNCHANGED <<denied, custom, allowed>>

ListsChange ==
    /\ \/ \E n \in Asked : RuleChanges(n)
       \/ /\ "lists" \in QueryInputs
          /\ VerdictsForgotten \/ \E n \in Asked : ListChanges(n) \/ LookBelow(n)
    /\ UNCHANGED <<deviceVars, clock, detection, autoBlock, limits, blocked, scans, incidents,
                   counters, paused, mode, cache, online>>
    /\ StillHeld

\* pause_minutes; resume, or the end of the time.
PauseFilter == ~paused /\ paused' = TRUE /\ UNCHANGED mode
ResumeFilter == paused /\ paused' = FALSE /\ UNCHANGED mode

\* The window does not let the strict mode cut off its own machine.
SetClientMode(s, m) ==
    /\ m # mode[s]
    /\ ~(m = "strict" /\ s \in Loopback)
    /\ mode' = [mode EXCEPT ![s] = m]
    /\ UNCHANGED paused

RemoveClientMode(s) ==
    /\ mode[s] # "default"
    /\ mode' = [mode EXCEPT ![s] = "default"]
    /\ UNCHANGED paused

PolicyChanges ==
    /\ "policy" \in QueryInputs
    /\ \/ PauseFilter \/ ResumeFilter
       \/ \E s \in Askers : RemoveClientMode(s) \/ \E m \in Modes : SetClientMode(s, m)
    /\ UNCHANGED <<deviceVars, clock, detection, autoBlock, limits, blocked, scans, incidents,
                   counters, denied, custom, allowed, verdicts, cache, online>>
    /\ StillHeld

Upstreams ==
    /\ "outage" \in QueryInputs
    /\ online' = ~online
    /\ UNCHANGED <<deviceVars, engineVars, counters, policy, verdicts, cache>>

HandlerStep(u) ==
    \/ EngineWorks(u)
    \/ CheckQuarantine(u) \/ Judge(u)
    \/ AskPause(u) \/ AskMode(u) \/ AskAllowed(u) \/ AskRules(u) \/ AskKnown(u)
    \/ AskDisk(u) \/ KeepVerdict(u) \/ Decide(u)
    \/ AskCache(u) \/ Forward(u) \/ TakeAnswer(u) \/ Finish(u)

QueryNext ==
    \/ \E u \in Handlers, s \in Sources, n \in Names : Receive(u, s, n)
    \/ \E u \in Handlers : HandlerStep(u)
    \/ Minute \/ OperatorOfIds \/ OperatorOfDevices \/ ListsChange \/ PolicyChanges
    \/ Upstreams

QuerySpec == QueryInit /\ [][QueryNext]_queryVars

\* The runtime polls every handler that can go on.
QueryFairness == \A u \in Handlers : WF_queryVars(HandlerStep(u))

-----------------------------------------------------------------------------
\* Every variable keeps to the values the code can give it.
QueryTypeOK ==
    /\ DevicesTypeOK
    /\ clock \in Instants
    /\ {detection, autoBlock, paused, online} \subseteq BOOLEAN
    /\ \A s \in Sources : {hardHistory[s], history[s]} \subseteq Seq(Instants)
    /\ \A t \in {hardAlert, floodAlert, scanAlert} : t \in [Sources -> Instants \union {Never}]
    /\ blocked \in [Sources -> Int]
    /\ probes \in [Sources -> SUBSET (Ports \X Instants)]
    /\ incidents \in 0 .. LogCap
    /\ {total, refused, passed} \subseteq Nat /\ packets \in 0 .. MaxQueries
    /\ {denied, custom, allowed} \subseteq SUBSET Names
    /\ verdicts \in [Names -> Verdicts]
    /\ mode \in [Sources -> Modes]
    /\ cache \in [Names -> [answer : Answers \union {"nothing"}, at : Instants \union {Never}]]
    /\ call \in [Handlers ->
          [pc : HandlerLabels, src : Sources \union {"nobody"},
           name : Names \union {"nothing"}, kind : Kinds, at : Instants \union {Never},
           ips : BOOLEAN, offence : DOMAIN Lasts \union Kinds, incident : BOOLEAN,
           reply : Replies, held : SUBSET Shields]]

Sent(u, reply) == At(u) = "done" /\ call[u].reply = reply

\* What protects the client from the moment its query arrives until the reply
\* is ready decides the reply, although the policy, the rules, the verdicts and
\* the list are read one after the other, whatever the cache held from before
\* and whatever other handlers and the operator do meanwhile: a source that is
\* blocked all the time gets none; one in quarantine gets NXDOMAIN at most; a
\* name is not resolved for a client in the strict mode, nor when a rule denies
\* it, nor when it is on the list and was not remembered as clear at any moment;
\* and a public name that is not on the operator's allow list never resolves to
\* a private address.  A name that only a parent on the list denies, or that
\* another query remembers as clear, is not promised (CacheAgrees of Blocklist).
HeldDecides ==
    \A u \in Handlers : At(u) = "done" =>
        /\ "banned" \notin call[u].held
        /\ "isolated" \in call[u].held => call[u].reply = "nxdomain"
        /\ call[u].held \intersect {"strict", "ruled", "listed"} # {} =>
              call[u].reply \in {"sinkhole", "nxdomain"}
        /\ "walled" \in call[u].held => call[u].reply # "private"

\* Every query that is counted is in the end counted once more, as refused or
\* as passed.
InJudgement(u) ==
    \/ At(u) \in {"inspect", "flood", "punish", "inspected"} \union AskLabels
    \/ At(u) = "report" /\ call[u].offence # "scan"
EachJudgedOnce ==
    total = refused + passed + Cardinality({u \in Handlers : InJudgement(u)})

\* With every permit taken packets are dropped; even with all upstreams out of
\* reach the server takes packets again.
Saturated == \A u \in Handlers : At(u) # "idle"
PermitReturns == []<>~Saturated

=============================================================================
