------------------------------ MODULE QueryProofs ------------------------------
(***************************************************************************)
(* The safety theorems of QueryPath and of the security engine it calls,   *)
(* for any number of handlers, sources, names and limits, and whatever of  *)
(* QueryInputs happens; the step-by-step proof that the server is a caller *)
(* of DeviceQuarantine, with what follows from it; and that handlers end.  *)
(***************************************************************************)
EXTENDS QueryPath, NetworkProofs

-----------------------------------------------------------------------------
(***************************************************************************)
(* What is held decides                                                    *)
(***************************************************************************)
Offences == DOMAIN Lasts \union Kinds
Queries == [pc : HandlerLabels, src : Sources \union {"nobody"},
            name : Names \union {"nothing"}, kind : Kinds, at : Int, ips : BOOLEAN,
            offence : Offences, incident : BOOLEAN, reply : Replies, held : SUBSET Shields]

\* A call is a query of a name, or a port scan; the latter sees only its own
\* labels and the report.
Shape(q) ==
  /\ q.pc = "idle" => q.held = {}
  /\ q.pc \in {"flood", "punish"} => q.offence \in DOMAIN Lasts \ {"scan"}
  /\ q.pc \in {"scan", "scanpunish"} => q.offence = "scan"
  /\ q.pc = "report" => q.offence = "scan" \/ q.name \in Names
  /\ q.pc \notin {"idle", "scan", "scanpunish", "report"} => q.name \in Names

QueriesFit ==
  /\ call \in [Handlers -> Queries] /\ \A u \in Handlers : Shape(call[u])
  /\ clock \in Nat /\ autoBlock \in BOOLEAN
  /\ blocked \in [Sources -> Int]
  /\ cache \in [Names -> [answer : Replies, at : Int]]

\* What is remembered as held since the query arrived holds now.
HeldNow ==
  \A u \in Handlers : call[u].held # {} =>
    /\ Src(u) \in Sources /\ call[u].name \in Names
    /\ call[u].held \subseteq Facts[Src(u)][call[u].name]

\* How far a query gets under what is held, and with which reply: none gets past
\* the step that asks for what is held.
Consulting == {"known", "disk", "keep", "kept"}
Resolving == {"cached", "forward", "arrived", "done"}
Refused(q) == q.pc = "done" /\ q.reply \in {"sinkhole", "nxdomain"}
Decided(q) ==
  /\ "banned" \in q.held => q.pc \in {"count", "alert", "isolate", "screen", "expire"}
  /\ "isolated" \in q.held =>
       \/ q.pc \in {"count", "alert", "isolate", "screen", "expire", "screened"}
       \/ q.pc = "done" /\ q.reply = "nxdomain"
  /\ "strict" \in q.held =>
       q.pc \notin {"allow", "rules"} \union Consulting \union Resolving \/ Refused(q)
  /\ "ruled" \in q.held => q.pc \notin Consulting \union Resolving \/ Refused(q)
  /\ "listed" \in q.held =>
       /\ q.pc \notin Resolving \/ Refused(q)
       /\ q.pc \in {"keep", "kept"} => q.reply = "sinkhole"
  /\ "walled" \in q.held => ~(q.pc = "done" /\ q.reply = "private")
DecidedAt(u) == Decided(call[u])

DecideInv == QueriesFit /\ HeldNow /\ \A u \in Handlers : DecidedAt(u)

\* A step of u is about no other.
OtherCallsSame(u) == \A v \in Handlers \ {u} : call'[v] = call[v]

\* The call of u goes on, and is about the same query.
SameQuery(u) ==
  call'[u].held = call[u].held /\ call'[u].src = call[u].src /\ call'[u].name = call[u].name

LEMMA LastsPositive ==
  /\ DOMAIN Lasts = {"hard", "dga", "tunnel", "flood", "scan"}
  /\ \A o \in DOMAIN Lasts : Lasts[o] \in Int /\ Lasts[o] > 0
  BY DEF Lasts

LEMMA IdleFits == Idle \in Queries
  BY DEF Idle, Queries, HandlerLabels, EngineLabels, Kinds, Offences, Never, Replies

LEMMA FactsAt ==
  ASSUME NEW s \in Sources, NEW n \in Names
  PROVE  /\ "banned" \in Facts[s][n] <=> IsLive(s)
         /\ "isolated" \in Facts[s][n] <=> s \in Isolated
         /\ "strict" \in Facts[s][n] <=> StrictFor(s)
         /\ "ruled" \in Facts[s][n] <=> RuledOut(s, n)
         /\ "listed" \in Facts[s][n] <=> OnList(s, n)
         /\ "walled" \in Facts[s][n] <=> Walled(n)
         /\ Facts[s][n] \subseteq Shields
  <1> DEFINE F == (IF IsLive(s) THEN {"banned"} ELSE {})
                  \union (IF s \in Isolated THEN {"isolated"} ELSE {})
                  \union (IF StrictFor(s) THEN {"strict"} ELSE {})
                  \union (IF RuledOut(s, n) THEN {"ruled"} ELSE {})
                  \union (IF OnList(s, n) THEN {"listed"} ELSE {})
                  \union (IF Walled(n) THEN {"walled"} ELSE {})
  <1>1. Facts[s][n] = F
    BY DEF Facts
  <1>2. /\ "banned" \in F <=> IsLive(s)
        /\ "isolated" \in F <=> s \in Isolated
        /\ "strict" \in F <=> StrictFor(s)
        /\ "ruled" \in F <=> RuledOut(s, n)
        /\ "listed" \in F <=> OnList(s, n)
        /\ "walled" \in F <=> Walled(n)
        /\ F \subseteq Shields
    BY DEF Shields
  <1> QED BY <1>1, <1>2

LEMMA FactsAtNext ==
  ASSUME NEW s \in Sources, NEW n \in Names
  PROVE  /\ "banned" \in Facts'[s][n] <=> IsLive(s)'
         /\ "isolated" \in Facts'[s][n] <=> s \in Isolated'
         /\ "strict" \in Facts'[s][n] <=> StrictFor(s)'
         /\ "ruled" \in Facts'[s][n] <=> RuledOut(s, n)'
         /\ "listed" \in Facts'[s][n] <=> OnList(s, n)'
         /\ "walled" \in Facts'[s][n] <=> Walled(n)'
         /\ Facts'[s][n] \subseteq Shields
  <1> DEFINE F == (IF IsLive(s)' THEN {"banned"} ELSE {})
                  \union (IF s \in Isolated' THEN {"isolated"} ELSE {})
                  \union (IF StrictFor(s)' THEN {"strict"} ELSE {})
                  \union (IF RuledOut(s, n)' THEN {"ruled"} ELSE {})
                  \union (IF OnList(s, n)' THEN {"listed"} ELSE {})
                  \union (IF Walled(n)' THEN {"walled"} ELSE {})
  <1>1. Facts'[s][n] = F
    BY DEF Facts
  <1>2. /\ "banned" \in F <=> IsLive(s)'
        /\ "isolated" \in F <=> s \in Isolated'
        /\ "strict" \in F <=> StrictFor(s)'
        /\ "ruled" \in F <=> RuledOut(s, n)'
        /\ "listed" \in F <=> OnList(s, n)'
        /\ "walled" \in F <=> Walled(n)'
        /\ F \subseteq Shields
    BY DEF Shields
  <1> QED BY <1>1, <1>2

\* While the lists, the verdicts, the policy and the quarantine stay and blocks
\* only get longer, what holds goes on to hold.
LEMMA FactsStay ==
  ASSUME NEW s \in Sources, NEW n \in Names,
         UNCHANGED <<entries, policy, verdicts>>, IsLive(s) => IsLive(s)'
  PROVE  Facts[s][n] \subseteq Facts'[s][n]
  <1>1. /\ s \in Isolated => s \in Isolated'
        /\ StrictFor(s) => StrictFor(s)'
        /\ RuledOut(s, n) => RuledOut(s, n)'
        /\ OnList(s, n) => OnList(s, n)'
        /\ Walled(n) => Walled(n)'
    BY DEF policy, Isolated, StrictFor, RuledOut, OnList, FilterOn, Walled
  <1> SUFFICES ASSUME NEW x \in Facts[s][n] PROVE x \in Facts'[s][n]
    OBVIOUS
  <1>2. x \in {"banned", "isolated", "strict", "ruled", "listed", "walled"}
    BY FactsAt DEF Shields
  <1>3. CASE x = "banned"
    BY <1>1, <1>3, FactsAt, FactsAtNext, Zenon
  <1>4. CASE x = "isolated"
    BY <1>1, <1>4, FactsAt, FactsAtNext, Zenon
  <1>5. CASE x = "strict"
    BY <1>1, <1>5, FactsAt, FactsAtNext, Zenon
  <1>6. CASE x = "ruled"
    BY <1>1, <1>6, FactsAt, FactsAtNext, Zenon
  <1>7. CASE x = "listed"
    BY <1>1, <1>7, FactsAt, FactsAtNext, Zenon
  <1>8. CASE x = "walled"
    BY <1>1, <1>8, FactsAt, FactsAtNext, Zenon
  <1> QED BY <1>2, <1>3, <1>4, <1>5, <1>6, <1>7, <1>8

LEMMA BlockFits ==
  ASSUME QueriesFit, NEW s \in Sources \union {"nobody"}, NEW m \in Int, m > 0,
         Block(s, m), clock' = clock
  PROVE  /\ blocked' \in [Sources -> Int]
         /\ \A a \in Sources : IsLive(a) => IsLive(a)'
  <1> DEFINE live == [a \in Sources |-> IF blocked[a] > clock THEN blocked[a] ELSE Never]
             swept == IF Cardinality({a \in Sources : blocked[a] # Never}) > MaxBlocked
                      THEN live ELSE blocked
  <1>1. blocked' = IF s \in Loopback THEN blocked ELSE [swept EXCEPT ![s] = clock + m]
    BY DEF Block
  <1>2. live \in [Sources -> Int] /\ \A a \in Sources : IsLive(a) => live[a] = blocked[a]
    BY DEF QueriesFit, Never, IsLive
  <1>3. swept \in {live, blocked}
    OBVIOUS
  <1> HIDE DEF live, swept
  <1>4. swept \in [Sources -> Int] /\ \A a \in Sources : IsLive(a) => swept[a] = blocked[a]
    BY <1>2, <1>3 DEF QueriesFit
  <1>5. clock + m \in Int /\ clock + m > clock
    BY DEF QueriesFit
  <1>6. blocked' \in [Sources -> Int]
    BY <1>1, <1>4, <1>5 DEF QueriesFit
  <1>7. ASSUME NEW a \in Sources, IsLive(a) PROVE IsLive(a)'
    <2>1. blocked'[a] = blocked[a] \/ blocked'[a] = clock + m
      BY <1>1, <1>4, <1>7
    <2> QED BY <1>5, <1>7, <2>1 DEF IsLive
  <1> QED BY <1>6, <1>7

\* A step of the engine, for the time and everybody's blocks.
LEMMA EngineCarries ==
  ASSUME QueriesFit, NEW u \in Handlers, EngineStep(u)
  PROVE  /\ clock' = clock
         /\ blocked' \in [Sources -> Int] /\ \A a \in Sources : IsLive(a) => IsLive(a)'
  <1>1. clock' = clock
    BY DEF EngineStep, CountQuery, RaiseHardAlert, IsolateSource, Screen, Expire, InspectQuery,
           RaiseFloodAlert, Punish, RecordIncident, RaiseScanAlert, PunishScan
  <1>3. Src(u) \in Sources \union {"nobody"}
    BY DEF QueriesFit, Queries, Src
  <1>4. CASE \E m \in Int : m > 0 /\ Block(Src(u), m)
    BY <1>1, <1>3, <1>4, BlockFits
  <1>5. CASE blocked' = blocked
    BY <1>1, <1>5 DEF QueriesFit, IsLive
  <1>6. CASE Expire(u) /\ ~IsLive(Src(u))
    <2>1. blocked' = [blocked EXCEPT ![Src(u)] = Never]
      BY <1>6 DEF Expire
    <2>2. blocked' \in [Sources -> Int]
      <3>1. blocked \in [Sources -> Int] /\ Never \in Int
        BY DEF QueriesFit, Never
      <3> QED BY <2>1, <3>1
    <2>3. \A a \in Sources : IsLive(a) => IsLive(a)'
      <3> SUFFICES ASSUME NEW a \in Sources, IsLive(a) PROVE IsLive(a)'
        OBVIOUS
      <3>1. a # Src(u)
        BY <1>6
      <3>2. blocked'[a] = blocked[a]
        BY <2>1, <3>1 DEF QueriesFit
      <3> QED BY <1>1, <3>2 DEF IsLive
    <2> QED BY <1>1, <2>2, <2>3
  <1>7. CASE IsolateSource(u)
    BY <1>4, <1>7, LastsPositive DEF IsolateSource, Lasts
  <1>8. CASE Punish(u)
    <2>1. call[u].offence \in DOMAIN Lasts
      BY <1>8 DEF Punish, QueriesFit, Shape, At
    <2>2. Lasts[call[u].offence] \in Int /\ Lasts[call[u].offence] > 0
      BY <2>1, LastsPositive
    <2> QED BY <1>4, <1>5, <1>8, <2>2 DEF Punish
  <1>9. CASE PunishScan(u)
    BY <1>4, <1>5, <1>9, LastsPositive DEF PunishScan, Lasts
  <1> QED BY <1>5, <1>6, <1>7, <1>8, <1>9
          DEF EngineStep, CountQuery, RaiseHardAlert, Screen, Expire, InspectQuery,
              RaiseFloodAlert, RecordIncident, RaiseScanAlert, limits

Early == {"count", "alert", "isolate", "screen", "expire"}
Middle == {"inspect", "flood", "punish", "report", "inspected", "scan", "scanpunish"}

\* What a step makes of the call of u: it is still a call.
CallFits(u) == call' \in [Handlers -> Queries] /\ OtherCallsSame(u) /\ Shape(call'[u])

LEMMA LabelsKnown ==
  /\ HandlerLabels = Early \union Middle
                     \union {"verdict", "mode", "allow", "rules", "known", "disk", "keep", "kept"}
                     \union {"idle", "screened", "cached", "forward", "arrived", "done"}
  BY DEF HandlerLabels, EngineLabels, AskLabels, Early, Middle

LEMMA CallAt ==
  ASSUME QueriesFit, NEW u \in Handlers, NEW q \in Queries, call' = [call EXCEPT ![u] = q], Shape(q)
  PROVE  CallFits(u) /\ call'[u] = q
  BY DEF QueriesFit, CallFits, OtherCallsSame

LEMMA LeaveStep ==
  ASSUME QueriesFit, NEW u \in Handlers, call' = [call EXCEPT ![u] = Idle]
  PROVE  CallFits(u) /\ call'[u] = Idle /\ ~InJudgement(u)'
  <1>1. Shape(Idle) /\ Idle.pc = "idle"
    BY DEF Idle, Shape
  <1>2. CallFits(u) /\ call'[u] = Idle
    BY <1>1, IdleFits, CallAt
  <1>3. At(u)' = "idle"
    BY <1>1, <1>2 DEF At
  <1> QED BY <1>2, <1>3 DEF InJudgement, AskLabels

\* A query goes to another label, a scan to another of its own.
LEMMA GotoStep ==
  ASSUME QueriesFit, NEW u \in Handlers, NEW label \in HandlerLabels, Goto(u, label),
         \/ call[u].name \in Names /\ label \notin {"idle", "flood", "punish", "scan", "scanpunish"}
         \/ call[u].offence = "scan" /\ label \in {"scanpunish", "report"}
         \/ /\ call[u].offence \in DOMAIN Lasts \ {"scan"} /\ call[u].name \in Names
            /\ label = "punish"
  PROVE  /\ CallFits(u) /\ SameQuery(u) /\ At(u)' = label
         /\ call'[u].reply = call[u].reply /\ call'[u].offence = call[u].offence
  <1> DEFINE q == [call[u] EXCEPT !.pc = label]
  <1>1. call[u] \in Queries /\ call' = [call EXCEPT ![u] = q]
    BY DEF QueriesFit, Goto
  <1>2. /\ q \in Queries /\ q.pc = label /\ q.offence = call[u].offence /\ q.reply = call[u].reply
        /\ q.held = call[u].held /\ q.src = call[u].src /\ q.name = call[u].name
    BY <1>1 DEF Queries
  <1> HIDE DEF q
  <1>3. Shape(q)
    BY <1>2 DEF Shape
  <1> QED BY <1>1, <1>2, <1>3, CallAt DEF SameQuery, At

LEMMA CountStep ==
  ASSUME QueriesFit, NEW u \in Handlers, CountQuery(u)
  PROVE  CallFits(u) /\ SameQuery(u) /\ At(u)' \in Early
  <1> PICK label \in {"alert", "screen"} :
        call' = [call EXCEPT ![u].pc = label, ![u].at = clock]
    BY DEF CountQuery
  <1> DEFINE q == [call[u] EXCEPT !.pc = label, !.at = clock]
  <1>1. call[u] \in Queries /\ clock \in Int /\ label \in HandlerLabels /\ call[u].name \in Names
    BY LabelsKnown DEF QueriesFit, Early, CountQuery, Shape, At
  <1>2. /\ q \in Queries /\ q.pc = label
        /\ q.held = call[u].held /\ q.src = call[u].src /\ q.name = call[u].name
    BY <1>1 DEF Queries
  <1>3. call' = [call EXCEPT ![u] = q]
    OBVIOUS
  <1> HIDE DEF q
  <1>4. Shape(q)
    BY <1>1, <1>2 DEF Shape
  <1> QED BY <1>2, <1>3, <1>4, CallAt DEF SameQuery, At, Early

LEMMA InspectStep ==
  ASSUME QueriesFit, NEW u \in Handlers, InspectQuery(u)
  PROVE  /\ CallFits(u) /\ SameQuery(u)
         /\ At(u)' \in {"flood", "punish", "report", "inspected"}
         /\ call'[u].offence = "scan" => At(u)' = "inspected"
  <1>0. call[u] \in Queries /\ clock \in Int /\ autoBlock \in BOOLEAN /\ call[u].name \in Names
    <2>1. At(u) = "inspect"
      BY DEF InspectQuery
    <2>2. call[u].name \in Names
      BY <2>1 DEF QueriesFit, Shape, At
    <2> QED BY <2>2 DEF QueriesFit
  <1>1. CASE ~detection
    <2> DEFINE q == [call[u] EXCEPT !.pc = "inspected", !.incident = FALSE]
    <2>1. call' = [call EXCEPT ![u] = q]
      BY <1>1 DEF InspectQuery
    <2>2. /\ q \in Queries /\ q.pc = "inspected"
          /\ q.held = call[u].held /\ q.src = call[u].src /\ q.name = call[u].name
      BY <1>0, LabelsKnown DEF Queries, Middle
    <2> HIDE DEF q
    <2>3. Shape(q)
      BY <1>0, <2>2 DEF Shape
    <2> QED BY <2>1, <2>2, <2>3, CallAt DEF SameQuery, At
  <1>2. CASE detection
    <2> DEFINE Becomes(label, o) ==
          call' = [call EXCEPT ![u].pc = label, ![u].at = clock, ![u].ips = autoBlock,
                               ![u].incident = FALSE, ![u].offence = o]
    <2>1. ASSUME NEW label \in {"flood", "punish", "report", "inspected"},
                 NEW o \in Offences \ {"scan"},
                 label \in {"flood", "punish"} => o \in DOMAIN Lasts, Becomes(label, o)
          PROVE  /\ CallFits(u) /\ SameQuery(u) /\ At(u)' = label /\ call'[u].offence = o
      <3> DEFINE q == [call[u] EXCEPT !.pc = label, !.at = clock, !.ips = autoBlock,
                                      !.incident = FALSE, !.offence = o]
      <3>1. call' = [call EXCEPT ![u] = q]
        BY <2>1
      <3>2. label \in HandlerLabels
        BY LabelsKnown DEF Middle
      <3>3. /\ q \in Queries /\ q.pc = label /\ q.offence = o
            /\ q.held = call[u].held /\ q.src = call[u].src /\ q.name = call[u].name
        BY <1>0, <3>2 DEF Queries
      <3> HIDE DEF q
      <3>4. Shape(q)
        BY <1>0, <2>1, <3>3 DEF Shape
      <3> QED BY <3>1, <3>3, <3>4, CallAt DEF SameQuery, At
    <2>2. call[u].kind \in Kinds
      BY <1>0 DEF Queries
    <2>3. PICK h \in Trimmed(history) :
            Becomes(IF Exceeds(h, Src(u), FloodLimit) THEN "flood"
                    ELSE CASE call[u].kind \in {"tunnel", "dga"} -> "punish"
                           [] call[u].kind = "darknet" -> "report"
                           [] OTHER -> "inspected",
                    IF Exceeds(h, Src(u), FloodLimit) THEN "flood" ELSE call[u].kind)
      BY <1>2 DEF InspectQuery
    <2> HIDE DEF Becomes
    <2>4. \/ Becomes("flood", "flood")
          \/ call[u].kind \in {"tunnel", "dga"} /\ Becomes("punish", call[u].kind)
          \/ Becomes("report", call[u].kind) \/ Becomes("inspected", call[u].kind)
      <3>1. CASE Exceeds(h, Src(u), FloodLimit)
        BY <2>3, <3>1
      <3>2. CASE ~Exceeds(h, Src(u), FloodLimit)
        <4>1. CASE call[u].kind \in {"tunnel", "dga"}
          BY <2>3, <3>2, <4>1
        <4>2. CASE call[u].kind = "darknet"
          BY <2>3, <3>2, <4>2
        <4>3. CASE call[u].kind = "plain"
          BY <2>3, <3>2, <4>3
        <4> QED BY <2>2, <4>1, <4>2, <4>3 DEF Kinds
      <3> QED BY <3>1, <3>2
    <2>5. /\ "flood" \in Offences \ {"scan"} /\ call[u].kind \in Offences \ {"scan"}
          /\ {"flood", "tunnel", "dga"} \subseteq DOMAIN Lasts
      BY <2>2, LastsPositive DEF Offences, Kinds
    <2> QED BY <2>1, <2>4, <2>5
  <1> QED BY <1>1, <1>2

LEMMA IncidentStep ==
  ASSUME QueriesFit, NEW u \in Handlers, RecordIncident(u)
  PROVE  /\ CallFits(u)
         /\ IF call[u].offence = "scan" THEN call'[u] = Idle /\ ~InJudgement(u)'
            ELSE SameQuery(u) /\ At(u)' = "inspected"
  <1>1. CASE call[u].offence = "scan"
    BY <1>1, LeaveStep DEF RecordIncident, Leave
  <1>2. CASE call[u].offence # "scan"
    <2> DEFINE q == [call[u] EXCEPT !.pc = "inspected", !.incident = TRUE]
    <2>1. call' = [call EXCEPT ![u] = q]
      BY <1>2 DEF RecordIncident
    <2>2. call[u] \in Queries /\ call[u].name \in Names
      BY <1>2 DEF QueriesFit, Shape, RecordIncident, At
    <2>3. /\ q \in Queries /\ q.pc = "inspected"
          /\ q.held = call[u].held /\ q.src = call[u].src /\ q.name = call[u].name
      BY <2>2, LabelsKnown DEF Queries, Middle
    <2> HIDE DEF q
    <2>4. Shape(q)
      BY <2>2, <2>3 DEF Shape
    <2> QED BY <1>2, <2>1, <2>3, <2>4, CallAt DEF SameQuery, At
  <1> QED BY <1>1, <1>2

LEMMA EngineMoves ==
  ASSUME QueriesFit, NEW u \in Handlers, EngineStep(u)
  PROVE  /\ CallFits(u)
         /\ InJudgement(u)' <=> InJudgement(u)
         /\ \/ call'[u] = Idle
            \/ SameQuery(u) /\ At(u) \in Early
               /\ (At(u)' \in Early \/ (At(u)' = "screened" /\ ~IsLive(Src(u))))
            \/ SameQuery(u) /\ At(u) \in Middle /\ At(u)' \in Middle
  <1> USE LabelsKnown DEF Early, Middle
  <1>1. CASE CountQuery(u)
    BY <1>1, CountStep DEF CountQuery, InJudgement, AskLabels
  <1>2. CASE RaiseHardAlert(u) \/ IsolateSource(u) \/ Screen(u) \/ Expire(u)
    <2>1. At(u) \in Early /\ call[u].name \in Names
      BY <1>2 DEF RaiseHardAlert, IsolateSource, Screen, Expire, QueriesFit, Shape, At
    <2>2. \/ call' = [call EXCEPT ![u] = Idle]
          \/ Goto(u, "isolate") \/ Goto(u, "expire")
          \/ Goto(u, "screened") /\ ~IsLive(Src(u))
      <3>1. CASE RaiseHardAlert(u) \/ IsolateSource(u) \/ Expire(u)
        BY <3>1 DEF RaiseHardAlert, IsolateSource, Expire, Leave
      <3>2. blocked[Src(u)] = Never => ~IsLive(Src(u))
        BY DEF QueriesFit, IsLive, Never
      <3> QED BY <1>2, <3>1, <3>2 DEF Screen, Leave
    <2>3. CASE call' = [call EXCEPT ![u] = Idle]
      BY <2>1, <2>3, LeaveStep DEF InJudgement, AskLabels
    <2>4. CASE Goto(u, "isolate") \/ Goto(u, "expire") \/ (Goto(u, "screened") /\ ~IsLive(Src(u)))
      BY <2>1, <2>4, GotoStep DEF InJudgement, AskLabels
    <2> QED BY <2>2, <2>3, <2>4
  <1>3. CASE InspectQuery(u)
    BY <1>3, InspectStep DEF InspectQuery, InJudgement, AskLabels
  <1>4. CASE RaiseFloodAlert(u)
    <2>1. /\ At(u) = "flood" /\ (Goto(u, "inspected") \/ Goto(u, "punish"))
          /\ call[u].name \in Names /\ call[u].offence \in DOMAIN Lasts \ {"scan"}
      BY <1>4 DEF RaiseFloodAlert, QueriesFit, Shape, At
    <2> QED BY <2>1, GotoStep DEF InJudgement, AskLabels
  <1>5. CASE Punish(u)
    <2>1. /\ At(u) = "punish" /\ Goto(u, "report") /\ call[u].name \in Names
          /\ call[u].offence # "scan"
      BY <1>5 DEF Punish, QueriesFit, Shape, At
    <2> QED BY <2>1, GotoStep DEF InJudgement, AskLabels
  <1>6. CASE PunishScan(u)
    <2>1. At(u) = "scanpunish" /\ Goto(u, "report") /\ call[u].offence = "scan"
      BY <1>6 DEF PunishScan, QueriesFit, Shape, At
    <2> QED BY <2>1, GotoStep DEF InJudgement, AskLabels
  <1>7. CASE RecordIncident(u)
    <2>1. At(u) = "report"
      BY <1>7 DEF RecordIncident
    <2>2. CASE call[u].offence = "scan"
      BY <1>7, <2>1, <2>2, IncidentStep DEF InJudgement, AskLabels
    <2>3. CASE call[u].offence # "scan"
      BY <1>7, <2>1, <2>3, IncidentStep DEF InJudgement, AskLabels
    <2> QED BY <2>2, <2>3
  <1>8. CASE RaiseScanAlert(u)
    <2>1. /\ At(u) = "scan" /\ (Goto(u, "scanpunish") \/ call' = [call EXCEPT ![u] = Idle])
          /\ call[u].offence = "scan"
      BY <1>8 DEF RaiseScanAlert, Leave, QueriesFit, Shape, At
    <2>2. CASE call' = [call EXCEPT ![u] = Idle]
      BY <2>1, <2>2, LeaveStep DEF InJudgement, AskLabels
    <2> QED BY <2>1, <2>2, GotoStep DEF InJudgement, AskLabels
  <1> QED BY <1>1, <1>2, <1>3, <1>4, <1>5, <1>6, <1>7, <1>8 DEF EngineStep

LEMMA ReplyStep ==
  ASSUME QueriesFit, NEW u \in Handlers, NEW answer \in Replies, call[u].name \in Names,
         NEW label \in {"keep", "done", "arrived"},
         call' = [call EXCEPT ![u].pc = label, ![u].reply = answer]
  PROVE  CallFits(u) /\ SameQuery(u) /\ At(u)' = label /\ call'[u].reply = answer
  <1> DEFINE q == [call[u] EXCEPT !.pc = label, !.reply = answer]
  <1>1. call[u] \in Queries /\ call' = [call EXCEPT ![u] = q]
    BY DEF QueriesFit
  <1>2. /\ q \in Queries /\ q.pc = label /\ q.reply = answer
        /\ q.held = call[u].held /\ q.src = call[u].src /\ q.name = call[u].name
    BY <1>1, LabelsKnown DEF Queries
  <1> HIDE DEF q
  <1>3. Shape(q)
    BY <1>2 DEF Shape
  <1> QED BY <1>1, <1>2, <1>3, CallAt DEF SameQuery, At

\* How far a step takes a query, and what it has seen to hold.
Moves(u) ==
  \/ call'[u] = Idle
  \/ /\ SameQuery(u)
     /\ \/ At(u) \in Early
           /\ (At(u)' \in Early \/ (At(u)' = "screened" /\ ~IsLive(Src(u))))
        \/ At(u) = "screened"
           /\ (Sent(u, "nxdomain")' \/ (At(u)' = "inspect" /\ Src(u) \notin Isolated))
        \/ At(u) \in Middle /\ At(u)' \in Middle \union {"verdict"}
        \/ At(u) \in Middle /\ Sent(u, "nxdomain")'
        \/ At(u) = "verdict" /\ (At(u)' = "mode" \/ (At(u)' = "cached" /\ paused))
        \/ At(u) = "mode"
           /\ \/ Sent(u, "sinkhole")'
              \/ At(u)' = "allow" /\ mode[Src(u)] = "default"
              \/ /\ At(u)' = "cached" /\ mode[Src(u)] # "default"
                 /\ mode[Src(u)] = "strict" => Src(u) \in Loopback
        \/ At(u) = "allow" /\ (At(u)' = "rules" \/ (At(u)' = "cached" /\ call[u].name \in allowed))
        \/ At(u) = "rules"
           /\ (Sent(u, "sinkhole")' \/ (At(u)' = "known" /\ call[u].name \notin custom))
        \/ At(u) = "known"
           /\ \/ Sent(u, "sinkhole")' \/ At(u)' = "disk"
              \/ At(u)' = "cached" /\ verdicts[call[u].name] = "clear"
        \/ At(u) = "disk"
           /\ At(u)' = "keep" /\ (call[u].name \in denied => call'[u].reply = "sinkhole")
        \/ At(u) = "kept"
           /\ (Sent(u, "sinkhole")' \/ (At(u)' = "cached" /\ call[u].reply # "sinkhole"))
        \/ At(u) \in {"cached", "forward", "arrived"}
           /\ \/ At(u)' \in {"forward", "arrived"}
              \/ Sent(u, "nxdomain")' \/ Sent(u, "servfail")'
              \/ At(u)' = "done" /\ (call'[u].reply # "private" \/ ~Walled(call[u].name))

\* A query is counted when it gets past the quarantine, and once more when it
\* has been judged.
Judged(u) ==
  \/ UNCHANGED <<total, refused, passed>> /\ (InJudgement(u)' <=> InJudgement(u))
  \/ /\ total' = total + 1 /\ UNCHANGED <<refused, passed>>
     /\ ~InJudgement(u) /\ InJudgement(u)'
  \/ /\ total' = total /\ InJudgement(u) /\ ~InJudgement(u)'
     /\ \/ refused' = refused + 1 /\ passed' = passed
        \/ passed' = passed + 1 /\ refused' = refused

LEMMA JudgingMoves ==
  ASSUME QueriesFit, NEW u \in Handlers, CheckQuarantine(u) \/ Judge(u)
  PROVE  CallFits(u) /\ Moves(u) /\ Judged(u) /\ cache' = cache
  <1> USE LabelsKnown DEF Middle, Sent, AskLabels
  <1>1. call[u].name \in Names /\ {"nxdomain", "sinkhole"} \subseteq Replies
    BY DEF CheckQuarantine, Judge, QueriesFit, Shape, At, Replies
  <1>2. CASE CheckQuarantine(u)
    <2>1. /\ At(u) = "screened" /\ UNCHANGED <<refused, passed, cache>>
          /\ \/ ReplyWith(u, "nxdomain") /\ total' = total
             \/ Goto(u, "inspect") /\ total' = total + 1 /\ Src(u) \notin Isolated
      BY <1>2 DEF CheckQuarantine
    <2>2. CASE ReplyWith(u, "nxdomain") /\ total' = total
      BY <1>1, <2>1, <2>2, ReplyStep DEF ReplyWith, Moves, Judged, InJudgement, AskLabels
    <2>3. CASE Goto(u, "inspect") /\ total' = total + 1 /\ Src(u) \notin Isolated
      BY <1>1, <2>1, <2>3, GotoStep DEF Moves, Judged, InJudgement, AskLabels
    <2> QED BY <2>1, <2>2, <2>3
  <1>3. CASE Judge(u)
    <2>1. /\ At(u) = "inspected" /\ UNCHANGED <<total, passed, cache>>
          /\ \/ ReplyWith(u, "nxdomain") /\ refused' = refused + 1
             \/ Goto(u, "verdict") /\ refused' = refused
      BY <1>3 DEF Judge
    <2>2. CASE ReplyWith(u, "nxdomain") /\ refused' = refused + 1
      BY <1>1, <2>1, <2>2, ReplyStep DEF ReplyWith, Moves, Judged, InJudgement, AskLabels
    <2>3. CASE Goto(u, "verdict") /\ refused' = refused
      BY <1>1, <2>1, <2>3, GotoStep DEF Moves, Judged, InJudgement, AskLabels
    <2> QED BY <2>1, <2>2, <2>3
  <1> QED BY <1>2, <1>3

\* The steps that ask the policy and the lists, but for the one that remembers.
AskStep(u) ==
  \/ AskPause(u) \/ AskMode(u) \/ AskAllowed(u) \/ AskRules(u) \/ AskKnown(u) \/ AskDisk(u)
  \/ Decide(u)

\* Where they lead: on, or with the query counted to its end or to the cache.
LEMMA AskingLeads ==
  ASSUME QueriesFit, NEW u \in Handlers, At(u) \in AskLabels, UNCHANGED total
  PROVE  /\ Sink(u) => /\ CallFits(u) /\ SameQuery(u) /\ Judged(u) /\ Sent(u, "sinkhole")'
         /\ Pass(u) => /\ CallFits(u) /\ SameQuery(u) /\ Judged(u) /\ At(u)' = "cached"
         /\ \A label \in AskLabels : AskOn(u, label) =>
              CallFits(u) /\ SameQuery(u) /\ Judged(u) /\ At(u)' = label
  <1>1. call[u].name \in Names /\ "sinkhole" \in Replies /\ InJudgement(u)
    BY DEF QueriesFit, Shape, At, Replies, AskLabels, InJudgement
  <1>2. ASSUME Sink(u)
        PROVE  CallFits(u) /\ SameQuery(u) /\ Judged(u) /\ Sent(u, "sinkhole")'
    <2>1. CallFits(u) /\ SameQuery(u) /\ At(u)' = "done" /\ call'[u].reply = "sinkhole"
      BY <1>1, <1>2, ReplyStep DEF Sink, ReplyWith
    <2>2. ~InJudgement(u)'
      BY <2>1 DEF InJudgement, AskLabels
    <2> QED BY <1>1, <1>2, <2>1, <2>2 DEF Sink, Judged, Sent
  <1>3. ASSUME Pass(u)
        PROVE  CallFits(u) /\ SameQuery(u) /\ Judged(u) /\ At(u)' = "cached"
    <2>1. CallFits(u) /\ SameQuery(u) /\ At(u)' = "cached"
      BY <1>1, <1>3, GotoStep, LabelsKnown DEF Pass
    <2>2. ~InJudgement(u)'
      BY <2>1 DEF InJudgement, AskLabels
    <2> QED BY <1>1, <1>3, <2>1, <2>2 DEF Pass, Judged
  <1>4. ASSUME NEW label \in AskLabels, AskOn(u, label)
        PROVE  CallFits(u) /\ SameQuery(u) /\ Judged(u) /\ At(u)' = label
    <2>1. CallFits(u) /\ SameQuery(u) /\ At(u)' = label
      BY <1>1, <1>4, GotoStep, LabelsKnown DEF AskOn, AskLabels
    <2>2. InJudgement(u)'
      BY <2>1 DEF InJudgement, AskLabels
    <2> QED BY <1>1, <1>4, <2>1, <2>2 DEF AskOn, Judged
  <1> QED BY <1>2, <1>3, <1>4

LEMMA AskingMoves ==
  ASSUME QueriesFit, NEW u \in Handlers, AskStep(u)
  PROVE  CallFits(u) /\ Moves(u) /\ Judged(u) /\ cache' = cache
  <1>0. /\ UNCHANGED <<total, cache>>
        /\ At(u) \in {"verdict", "mode", "allow", "rules", "known", "disk", "kept"}
    BY DEF AskStep, AskPause, AskMode, AskAllowed, AskRules, AskKnown, AskDisk, Decide, Asking
  <1>a. /\ Sink(u) => /\ CallFits(u) /\ SameQuery(u) /\ Judged(u) /\ Sent(u, "sinkhole")'
        /\ Pass(u) => /\ CallFits(u) /\ SameQuery(u) /\ Judged(u) /\ At(u)' = "cached"
        /\ \A label \in {"mode", "allow", "rules", "known", "disk"} : AskOn(u, label) =>
             CallFits(u) /\ SameQuery(u) /\ Judged(u) /\ At(u)' = label
    <2>1. At(u) \in AskLabels
      BY <1>0 DEF AskLabels
    <2> QED BY <1>0, <2>1, AskingLeads DEF AskLabels
  <1>1. CASE AskPause(u)
    <2>1. At(u) = "verdict" /\ ((Pass(u) /\ paused) \/ AskOn(u, "mode"))
      BY <1>1 DEF AskPause
    <2> QED BY <1>0, <1>a, <2>1 DEF Moves
  <1>2. CASE AskMode(u)
    <2>1. /\ At(u) = "mode"
          /\ \/ AskOn(u, "allow") /\ mode[Src(u)] = "default"
             \/ Sink(u)
             \/ /\ Pass(u) /\ mode[Src(u)] # "default"
                /\ mode[Src(u)] = "strict" => Src(u) \in Loopback
      <3>1. CASE mode[Src(u)] = "default"
        BY <1>2, <3>1 DEF AskMode
      <3>2. CASE mode[Src(u)] = "strict" /\ Src(u) \notin Loopback
        BY <1>2, <3>2 DEF AskMode
      <3>3. CASE mode[Src(u)] # "default" /\ ~(mode[Src(u)] = "strict" /\ Src(u) \notin Loopback)
        BY <1>2, <3>3 DEF AskMode
      <3> QED BY <3>1, <3>2, <3>3
    <2> QED BY <1>0, <1>a, <2>1 DEF Moves
  <1>3. CASE AskAllowed(u)
    <2>1. At(u) = "allow" /\ ((Pass(u) /\ call[u].name \in allowed) \/ AskOn(u, "rules"))
      BY <1>3 DEF AskAllowed
    <2> QED BY <1>0, <1>a, <2>1 DEF Moves
  <1>4. CASE AskRules(u)
    <2>1. At(u) = "rules" /\ (Sink(u) \/ (AskOn(u, "known") /\ call[u].name \notin custom))
      BY <1>4 DEF AskRules
    <2> QED BY <1>0, <1>a, <2>1 DEF Moves
  <1>5. CASE AskKnown(u)
    <2>1. /\ At(u) = "known"
          /\ \/ Sink(u) \/ AskOn(u, "disk")
             \/ Pass(u) /\ verdicts[call[u].name] = "clear"
      BY <1>5 DEF AskKnown
    <2> QED BY <1>0, <1>a, <2>1 DEF Moves
  <1>6. CASE AskDisk(u)
    <2>1. /\ At(u) = "disk" /\ UNCHANGED <<refused, passed>> /\ call[u].name \in Names
      BY <1>6 DEF AskDisk, QueriesFit, Shape, At
    <2>2. PICK reply \in {"sinkhole", "nothing"} :
            /\ call[u].name \in denied => reply = "sinkhole"
            /\ call' = [call EXCEPT ![u].pc = "keep", ![u].reply = reply]
      BY <1>6 DEF AskDisk
    <2>3. CallFits(u) /\ SameQuery(u) /\ At(u)' = "keep" /\ call'[u].reply = reply
      BY <2>1, <2>2, ReplyStep DEF Replies
    <2>4. InJudgement(u) /\ InJudgement(u)'
      BY <2>1, <2>3 DEF InJudgement, AskLabels
    <2> QED BY <1>0, <2>1, <2>2, <2>3, <2>4 DEF Moves, Judged
  <1>7. CASE Decide(u)
    <2>1. At(u) = "kept" /\ (Sink(u) \/ (Pass(u) /\ call[u].reply # "sinkhole"))
      BY <1>7 DEF Decide
    <2> QED BY <1>0, <1>a, <2>1 DEF Moves
  <1> QED BY <1>1, <1>2, <1>3, <1>4, <1>5, <1>6, <1>7 DEF AskStep

LEMMA ResolvingMoves ==
  ASSUME QueriesFit, NEW u \in Handlers,
         AskCache(u) \/ Forward(u) \/ TakeAnswer(u) \/ Finish(u)
  PROVE  /\ CallFits(u) /\ Moves(u) /\ Judged(u)
         /\ cache' \in [Names -> [answer : Replies, at : Int]]
  <1> USE LabelsKnown DEF Sent
  <1>1. /\ UNCHANGED <<total, refused, passed>> /\ call[u].name \in Names
        /\ At(u) \in {"cached", "forward", "arrived", "done"}
    BY DEF AskCache, Forward, TakeAnswer, Finish, QueriesFit, Shape, At, counters
  <1>2. {"nxdomain", "servfail"} \union Answers \subseteq Replies
    BY DEF Replies
  <1>3. CASE AskCache(u)
    <2> DEFINE answer == cache[call[u].name].answer
    <2>1. answer \in Replies
      BY <1>1 DEF QueriesFit
    <2>2. /\ cache' = cache /\ At(u) = "cached"
          /\ \/ Goto(u, "forward") \/ ReplyWith(u, "nxdomain")
             \/ ReplyWith(u, answer) /\ (answer # "private" \/ ~Walled(call[u].name))
      BY <1>3 DEF AskCache
    <2> HIDE DEF answer
    <2>3. CASE Goto(u, "forward")
      BY <1>1, <2>2, <2>3, GotoStep DEF Moves, Judged, InJudgement, AskLabels, QueriesFit
    <2>4. CASE ReplyWith(u, "nxdomain")
      BY <1>1, <1>2, <2>2, <2>4, ReplyStep
        DEF ReplyWith, Moves, Judged, InJudgement, AskLabels, QueriesFit
    <2>5. CASE ReplyWith(u, answer) /\ (answer # "private" \/ ~Walled(call[u].name))
      BY <1>1, <2>1, <2>2, <2>5, ReplyStep
        DEF ReplyWith, Moves, Judged, InJudgement, AskLabels, QueriesFit
    <2> QED BY <2>2, <2>3, <2>4, <2>5
  <1>4. CASE Forward(u)
    <2>1. /\ cache' = cache /\ At(u) = "forward"
          /\ (\E a \in Answers : Arrive(u, a)) \/ ReplyWith(u, "servfail")
      BY <1>4 DEF Forward
    <2>2. ASSUME NEW a \in Answers, Arrive(u, a)
          PROVE  CallFits(u) /\ Moves(u) /\ Judged(u)
      BY <1>1, <1>2, <2>1, <2>2, ReplyStep DEF Arrive, Moves, Judged, InJudgement, AskLabels
    <2>3. CASE ReplyWith(u, "servfail")
      BY <1>1, <1>2, <2>1, <2>3, ReplyStep
        DEF ReplyWith, Moves, Judged, InJudgement, AskLabels, QueriesFit
    <2> QED BY <2>1, <2>2, <2>3 DEF QueriesFit
  <1>5. CASE TakeAnswer(u)
    <2>1. /\ At(u) = "arrived"
          /\ \/ ReplyWith(u, "nxdomain") /\ cache' = cache
             \/ /\ Goto(u, "done") /\ cache' = Storing(call[u].name, call[u].reply)
                /\ call[u].reply # "private" \/ ~Walled(call[u].name)
      BY <1>5 DEF TakeAnswer
    <2>2. CASE ReplyWith(u, "nxdomain") /\ cache' = cache
      BY <1>1, <1>2, <2>1, <2>2, ReplyStep
        DEF ReplyWith, Moves, Judged, InJudgement, AskLabels, QueriesFit
    <2>3. CASE /\ Goto(u, "done") /\ cache' = Storing(call[u].name, call[u].reply)
               /\ call[u].reply # "private" \/ ~Walled(call[u].name)
      <3>1. call[u].reply \in Replies
        BY DEF QueriesFit, Queries
      <3>2. cache' \in [Names -> [answer : Replies, at : Int]]
        <4>1. [answer |-> call[u].reply, at |-> clock] \in [answer : Replies, at : Int]
          BY <3>1 DEF QueriesFit
        <4>2. cache \in [Names -> [answer : Replies, at : Int]]
          BY DEF QueriesFit
        <4> QED BY <2>3, <4>1, <4>2 DEF Storing
      <3> QED BY <1>1, <2>1, <2>3, <3>2, GotoStep DEF Moves, Judged, InJudgement, AskLabels
    <2> QED BY <2>1, <2>2, <2>3
  <1>6. CASE Finish(u)
    <2>1. cache' = cache /\ call' = [call EXCEPT ![u] = Idle] /\ At(u) = "done"
      BY <1>6 DEF Finish
    <2> QED BY <1>1, <2>1, LeaveStep DEF Moves, Judged, InJudgement, AskLabels, QueriesFit
  <1> QED BY <1>3, <1>4, <1>5, <1>6

LEMMA HandlerMoves ==
  ASSUME QueriesFit, NEW u \in Handlers, HandlerStep(u), ~KeepVerdict(u)
  PROVE  /\ CallFits(u) /\ Moves(u) /\ Judged(u) /\ QueriesFit'
         /\ UNCHANGED <<entries, policy, verdicts>>
         /\ \A a \in Sources : IsLive(a) => IsLive(a)'
  <1>1. CASE EngineWorks(u)
    <2>1. /\ EngineStep(u)
          /\ UNCHANGED <<entries, policy, verdicts, cache, total, refused, passed>>
      BY <1>1 DEF EngineWorks, deviceVars, counters
    <2>2. autoBlock' = autoBlock
      BY <2>1 DEF EngineStep, CountQuery, RaiseHardAlert, IsolateSource, Screen, Expire,
         InspectQuery, RaiseFloodAlert, Punish, RecordIncident, RaiseScanAlert, PunishScan
    <2>3. CallFits(u) /\ Moves(u) /\ Judged(u)
      BY <2>1, EngineMoves DEF Moves, Judged
    <2>4. QueriesFit'
      BY <2>1, <2>2, <2>3, EngineCarries DEF QueriesFit, CallFits, OtherCallsSame
    <2> QED BY <2>1, <2>3, <2>4, EngineCarries
  <1>2. CASE ~EngineWorks(u)
    <2>0. \/ CheckQuarantine(u) \/ Judge(u) \/ AskStep(u)
          \/ AskCache(u) \/ Forward(u) \/ TakeAnswer(u) \/ Finish(u)
      BY <1>2 DEF HandlerStep, AskStep
    <2>1. UNCHANGED <<entries, policy, verdicts, clock, autoBlock, blocked>>
      BY <2>0 DEF CheckQuarantine, Judge, AskStep, AskPause, AskMode, AskAllowed, AskRules,
         AskKnown, AskDisk, Decide, Asking, AskCache, Forward, TakeAnswer, Finish, Stay, Quiet,
         deviceVars
    <2>2. /\ CallFits(u) /\ Moves(u) /\ Judged(u)
          /\ cache' \in [Names -> [answer : Replies, at : Int]]
      BY <2>0, JudgingMoves, AskingMoves, ResolvingMoves DEF QueriesFit
    <2>3. QueriesFit'
      BY <2>1, <2>2 DEF QueriesFit, CallFits, OtherCallsSame
    <2> QED BY <2>1, <2>2, <2>3 DEF IsLive
  <1> QED BY <1>1, <1>2

LEMMA MovesDecided ==
  ASSUME HeldNow, NEW u \in Handlers, DecidedAt(u), Moves(u)
  PROVE  DecidedAt(u)'
  <1> USE DEF Early, Middle, Sent, Consulting, Resolving, Refused, Decided, At
  <1>1. CASE call'[u] = Idle
    BY <1>1 DEF DecidedAt, Idle
  <1>2. CASE SameQuery(u) /\ call[u].held = {}
    BY <1>2 DEF DecidedAt, SameQuery
  <1>3. CASE SameQuery(u) /\ call[u].held # {}
    <2>1. /\ Src(u) \in Sources /\ call[u].name \in Names
          /\ call[u].held \subseteq Facts[Src(u)][call[u].name]
      BY <1>3 DEF HeldNow
    <2>2. /\ "banned" \in call[u].held => IsLive(Src(u))
          /\ "isolated" \in call[u].held => Src(u) \in Isolated
          /\ "strict" \in call[u].held =>
               ~paused /\ mode[Src(u)] = "strict" /\ Src(u) \notin Loopback
          /\ {"ruled", "listed"} \intersect call[u].held # {} =>
               ~paused /\ mode[Src(u)] = "default" /\ call[u].name \notin allowed
          /\ "ruled" \in call[u].held => call[u].name \in custom
          /\ "listed" \in call[u].held =>
               call[u].name \in denied /\ verdicts[call[u].name] # "clear"
          /\ "walled" \in call[u].held => Walled(call[u].name)
      BY <2>1, FactsAt DEF StrictFor, RuledOut, OnList, FilterOn
    <2>3. call'[u].held = call[u].held
      BY <1>3 DEF SameQuery
    <2>4. CASE At(u) \in Early /\ (At(u)' \in Early \/ (At(u)' = "screened" /\ ~IsLive(Src(u))))
      BY <2>2, <2>3, <2>4 DEF DecidedAt
    <2>5. CASE At(u) = "screened"
                 /\ (Sent(u, "nxdomain")' \/ (At(u)' = "inspect" /\ Src(u) \notin Isolated))
      BY <2>2, <2>3, <2>5 DEF DecidedAt
    <2>6. CASE At(u) \in Middle /\ (At(u)' \in Middle \union {"verdict"} \/ Sent(u, "nxdomain")')
      BY <2>2, <2>3, <2>6 DEF DecidedAt
    <2>7. CASE At(u) = "verdict" /\ (At(u)' = "mode" \/ (At(u)' = "cached" /\ paused))
      BY <2>2, <2>3, <2>7 DEF DecidedAt
    <2>10. CASE At(u) = "mode"
                  /\ \/ Sent(u, "sinkhole")'
                     \/ At(u)' = "allow" /\ mode[Src(u)] = "default"
                     \/ /\ At(u)' = "cached" /\ mode[Src(u)] # "default"
                        /\ mode[Src(u)] = "strict" => Src(u) \in Loopback
      BY <2>2, <2>3, <2>10 DEF DecidedAt
    <2>11. CASE At(u) = "allow"
                  /\ (At(u)' = "rules" \/ (At(u)' = "cached" /\ call[u].name \in allowed))
      BY <2>2, <2>3, <2>11 DEF DecidedAt
    <2>12. CASE At(u) = "rules"
                  /\ (Sent(u, "sinkhole")' \/ (At(u)' = "known" /\ call[u].name \notin custom))
      BY <2>2, <2>3, <2>12 DEF DecidedAt
    <2>13. CASE At(u) = "known"
                  /\ \/ Sent(u, "sinkhole")' \/ At(u)' = "disk"
                     \/ At(u)' = "cached" /\ verdicts[call[u].name] = "clear"
      BY <2>2, <2>3, <2>13 DEF DecidedAt
    <2>14. CASE At(u) = "disk"
                  /\ At(u)' = "keep" /\ (call[u].name \in denied => call'[u].reply = "sinkhole")
      BY <2>2, <2>3, <2>14 DEF DecidedAt
    <2>15. CASE At(u) = "kept"
                  /\ (Sent(u, "sinkhole")' \/ (At(u)' = "cached" /\ call[u].reply # "sinkhole"))
      BY <2>2, <2>3, <2>15 DEF DecidedAt
    <2>8. CASE At(u) \in {"cached", "forward", "arrived"}
                 /\ \/ At(u)' \in {"forward", "arrived"}
                    \/ Sent(u, "nxdomain")' \/ Sent(u, "servfail")'
                    \/ At(u)' = "done" /\ (call'[u].reply # "private" \/ ~Walled(call[u].name))
      BY <2>2, <2>3, <2>8 DEF DecidedAt
    <2>9. CASE call'[u] = Idle
      BY <1>1, <2>9
    <2> HIDE DEF Decided
    <2> QED BY <2>4, <2>5, <2>6, <2>7, <2>8, <2>9, <2>10, <2>11, <2>12, <2>13, <2>14, <2>15
            DEF Moves
  <1> QED BY <1>1, <1>2, <1>3 DEF Moves

LEMMA HandlerDecides ==
  ASSUME DecideInv, NEW u \in Handlers, HandlerStep(u), ~KeepVerdict(u)
  PROVE  DecideInv'
  <1>1. /\ CallFits(u) /\ Moves(u) /\ QueriesFit' /\ UNCHANGED <<entries, policy, verdicts>>
        /\ \A a \in Sources : IsLive(a) => IsLive(a)'
    BY HandlerMoves DEF DecideInv
  <1>2. ASSUME NEW v \in Handlers
        PROVE  call'[v].held # {} =>
                 /\ Src(v)' \in Sources /\ call'[v].name \in Names
                 /\ call'[v].held \subseteq Facts'[Src(v)'][call'[v].name]
    <2>1. call'[v] = Idle \/ SameQuery(v)
      BY <1>1 DEF CallFits, OtherCallsSame, Moves, SameQuery
    <2>2. CASE call'[v] = Idle
      BY <2>2 DEF Idle
    <2>3. CASE SameQuery(v)
      BY <1>1, <2>3, FactsStay DEF DecideInv, HeldNow, SameQuery, Src
    <2> QED BY <2>1, <2>2, <2>3
  <1>3. HeldNow'
    BY <1>2 DEF HeldNow
  <1>4. \A v \in Handlers : DecidedAt(v)'
    <2> SUFFICES ASSUME NEW v \in Handlers PROVE DecidedAt(v)'
      OBVIOUS
    <2>1. CASE v = u
      BY <1>1, <2>1, MovesDecided DEF DecideInv
    <2>2. CASE v # u
      BY <1>1, <2>2 DEF DecideInv, CallFits, OtherCallsSame, DecidedAt, Sent, At
    <2> QED BY <2>1, <2>2
  <1> QED BY <1>1, <1>3, <1>4 DEF DecideInv

\* What Holding leaves of the calls c: all but what holds no longer.
LEMMA HoldingKeeps ==
  ASSUME NEW c \in [Handlers -> Queries], call' = Holding(c)
  PROVE  /\ call' \in [Handlers -> Queries]
         /\ \A u \in Handlers :
              /\ call'[u].pc = c[u].pc /\ call'[u].src = c[u].src /\ call'[u].name = c[u].name
              /\ call'[u].at = c[u].at /\ call'[u].reply = c[u].reply
              /\ call'[u].offence = c[u].offence
              /\ call'[u].held \subseteq c[u].held
              /\ c[u].name \in Names => call'[u].held \subseteq Facts'[c[u].src][c[u].name]
  <1> DEFINE Left(u) == c[u].held \intersect Facts'[c[u].src][c[u].name]
  <1>1. ASSUME NEW u \in Handlers
        PROVE  /\ call'[u] \in Queries
               /\ call'[u].pc = c[u].pc /\ call'[u].src = c[u].src /\ call'[u].name = c[u].name
               /\ call'[u].at = c[u].at /\ call'[u].reply = c[u].reply
               /\ call'[u].offence = c[u].offence
               /\ call'[u].held \subseteq c[u].held
               /\ c[u].name \in Names => call'[u].held \subseteq Facts'[c[u].src][c[u].name]
    <2>1. c[u] \in Queries
      OBVIOUS
    <2>2. CASE c[u].name \notin Names
      <3>1. call'[u] = c[u]
        BY <2>2 DEF Holding
      <3> QED BY <2>1, <2>2, <3>1
    <2>3. CASE c[u].name \in Names
      <3> DEFINE q == [c[u] EXCEPT !.held = Left(u)]
      <3>1. call'[u] = q
        BY <2>3 DEF Holding
      <3>2. /\ Left(u) \subseteq c[u].held
            /\ Left(u) \subseteq Facts'[c[u].src][c[u].name]
        OBVIOUS
      <3> HIDE DEF Left
      <3>3. /\ q \in Queries /\ q.pc = c[u].pc /\ q.src = c[u].src /\ q.name = c[u].name
            /\ q.at = c[u].at /\ q.reply = c[u].reply /\ q.offence = c[u].offence
            /\ q.held = Left(u)
        BY <2>1, <3>2 DEF Queries
      <3> HIDE DEF q
      <3> QED BY <3>1, <3>2, <3>3
    <2> QED BY <2>2, <2>3
  <1>2. call' \in [Handlers -> Queries]
    BY <1>1 DEF Holding
  <1> QED BY <1>1, <1>2

\* Calls that are decided are so with what still holds of them.
LEMMA HoldingDecides ==
  ASSUME QueriesFit, clock' \in Nat, UNCHANGED <<autoBlock, blocked, cache>>,
         NEW c \in [Handlers -> Queries], call' = Holding(c),
         \A u \in Handlers : Shape(c[u]) /\ Decided(c[u]),
         \A u \in Handlers : c[u].held # {} => c[u].src \in Sources /\ c[u].name \in Names
  PROVE  DecideInv'
  <1>1. /\ call' \in [Handlers -> Queries]
        /\ \A u \in Handlers :
             /\ call'[u].pc = c[u].pc /\ call'[u].src = c[u].src /\ call'[u].name = c[u].name
             /\ call'[u].reply = c[u].reply /\ call'[u].offence = c[u].offence
             /\ call'[u].held \subseteq c[u].held
             /\ c[u].name \in Names => call'[u].held \subseteq Facts'[c[u].src][c[u].name]
    BY HoldingKeeps
  <1>2. ASSUME NEW u \in Handlers PROVE Shape(call'[u]) /\ Decided(call'[u])
    <2>1. Shape(c[u]) /\ Decided(c[u])
      OBVIOUS
    <2>2. Shape(call'[u])
      BY <1>1, <2>1 DEF Shape
    <2>3. Decided(call'[u])
      BY <1>1, <2>1 DEF Decided, Refused
    <2> QED BY <2>2, <2>3
  <1>3. QueriesFit'
    BY <1>1, <1>2 DEF QueriesFit
  <1>4. HeldNow'
    BY <1>1 DEF HeldNow, Src
  <1>5. \A u \in Handlers : DecidedAt(u)'
    BY <1>2 DEF DecidedAt
  <1> QED BY <1>3, <1>4, <1>5 DEF DecideInv

\* Around the handlers only what still holds is kept.
LEMMA AroundDecides ==
  ASSUME DecideInv, StillHeld, clock' \in Nat, UNCHANGED <<autoBlock, blocked, cache>>
  PROVE  /\ DecideInv'
         /\ \A u \in Handlers : At(u)' = At(u) /\ call'[u].offence = call[u].offence
  <1>1. QueriesFit /\ call \in [Handlers -> Queries] /\ call' = Holding(call)
    BY DEF DecideInv, QueriesFit, StillHeld
  <1>2. \A u \in Handlers : Shape(call[u]) /\ Decided(call[u])
    BY DEF DecideInv, QueriesFit, DecidedAt
  <1>3. \A u \in Handlers : call[u].held # {} => call[u].src \in Sources /\ call[u].name \in Names
    BY DEF DecideInv, HeldNow, Src
  <1>4. DecideInv'
    BY <1>1, <1>2, <1>3, HoldingDecides
  <1> QED BY <1>1, <1>4, HoldingKeeps DEF At

\* What KeepVerdict does to the calls.
LEMMA KeepStep ==
  ASSUME QueriesFit, NEW u \in Handlers, KeepVerdict(u)
  PROVE  \E c \in [Handlers -> Queries] :
           /\ call' = Holding(c)
           /\ \A v \in Handlers \ {u} : c[v] = call[v]
           /\ call[u].pc = "keep" /\ c[u].pc = "kept"
           /\ c[u].src = call[u].src /\ c[u].name = call[u].name /\ c[u].at = call[u].at
           /\ c[u].reply = call[u].reply /\ c[u].offence = call[u].offence
           /\ c[u].held = call[u].held
  <1> DEFINE q == [call[u] EXCEPT !.pc = "kept"]
             c == [call EXCEPT ![u].pc = "kept"]
  <1>1. call \in [Handlers -> Queries] /\ call[u] \in Queries /\ "kept" \in HandlerLabels
    BY LabelsKnown DEF QueriesFit
  <1>2. /\ q \in Queries /\ q.pc = "kept" /\ q.src = call[u].src /\ q.name = call[u].name
        /\ q.at = call[u].at /\ q.reply = call[u].reply /\ q.offence = call[u].offence
        /\ q.held = call[u].held
    BY <1>1 DEF Queries
  <1>3. c = [call EXCEPT ![u] = q]
    OBVIOUS
  <1>4. call' = Holding(c) /\ call[u].pc = "keep"
    BY DEF KeepVerdict, At
  <1> HIDE DEF q, c
  <1>5. c \in [Handlers -> Queries] /\ c[u] = q /\ \A v \in Handlers \ {u} : c[v] = call[v]
    BY <1>1, <1>2, <1>3
  <1> QED BY <1>2, <1>4, <1>5

\* A verdict that is remembered disturbs no query that the list protects: what
\* is remembered as clear no longer counts as held, and a query that is itself
\* protected remembers that the name is blocked.
LEMMA KeepDecides ==
  ASSUME DecideInv, NEW u \in Handlers, KeepVerdict(u)
  PROVE  /\ DecideInv'
         /\ At(u) = "keep" /\ At(u)' = "kept"
         /\ \A v \in Handlers \ {u} : At(v)' = At(v)
         /\ \A v \in Handlers :
              /\ Src(v)' = Src(v) /\ call'[v].at = call[v].at /\ call'[v].reply = call[v].reply
              /\ call'[v].offence = call[v].offence
  <1>1. QueriesFit
    BY DEF DecideInv
  <1>2. PICK c \in [Handlers -> Queries] :
           /\ call' = Holding(c)
           /\ \A v \in Handlers \ {u} : c[v] = call[v]
           /\ call[u].pc = "keep" /\ c[u].pc = "kept"
           /\ c[u].src = call[u].src /\ c[u].name = call[u].name /\ c[u].at = call[u].at
           /\ c[u].reply = call[u].reply /\ c[u].offence = call[u].offence
           /\ c[u].held = call[u].held
    BY <1>1, KeepStep
  <1>3. ASSUME NEW v \in Handlers
        PROVE  /\ Shape(c[v]) /\ Decided(c[v])
               /\ c[v].held # {} => c[v].src \in Sources /\ c[v].name \in Names
    <2>1. /\ Shape(call[v]) /\ Decided(call[v])
          /\ call[v].held # {} => call[v].src \in Sources /\ call[v].name \in Names
      BY DEF DecideInv, QueriesFit, DecidedAt, HeldNow, Src
    <2>2. CASE v # u
      BY <1>2, <2>1, <2>2
    <2>3. CASE v = u
      <3>1. Shape(c[v])
        BY <1>2, <2>1, <2>3 DEF Shape
      <3>2. Decided(c[v])
        BY <1>2, <2>1, <2>3 DEF Decided, Refused, Consulting, Resolving
      <3> QED BY <1>2, <2>1, <2>3, <3>1, <3>2
    <2> QED BY <2>2, <2>3
  <1>4. clock' \in Nat /\ UNCHANGED <<autoBlock, blocked, cache>>
    BY <1>1 DEF KeepVerdict, QueriesFit
  <1>5. DecideInv'
    BY <1>1, <1>2, <1>3, <1>4, HoldingDecides
  <1>6. \A v \in Handlers :
          /\ call'[v].pc = c[v].pc /\ call'[v].src = c[v].src /\ call'[v].at = c[v].at
          /\ call'[v].reply = c[v].reply /\ call'[v].offence = c[v].offence
    BY <1>2, HoldingKeeps
  <1>7. \A v \in Handlers :
              /\ Src(v)' = Src(v) /\ call'[v].at = call[v].at /\ call'[v].reply = call[v].reply
              /\ call'[v].offence = call[v].offence
    <2> SUFFICES ASSUME NEW v \in Handlers
                 PROVE  /\ Src(v)' = Src(v) /\ call'[v].at = call[v].at
                        /\ call'[v].reply = call[v].reply /\ call'[v].offence = call[v].offence
      OBVIOUS
    <2>1. CASE v = u
      BY <1>2, <1>6, <2>1 DEF Src
    <2>2. CASE v # u
      BY <1>2, <1>6, <2>2 DEF Src
    <2> QED BY <2>1, <2>2
  <1> QED BY <1>2, <1>5, <1>6, <1>7 DEF At

LEMMA ReceiveDecides ==
  ASSUME DecideInv, NEW u \in Handlers, NEW s \in Sources, NEW n \in Names, Receive(u, s, n)
  PROVE  DecideInv' /\ ~InJudgement(u) /\ ~InJudgement(u)' /\ OtherCallsSame(u)
  <1> DEFINE q == [Idle EXCEPT !.pc = "count", !.src = s, !.name = n, !.kind = KindOf[n],
                               !.held = Facts[s][n]]
  <1>1. /\ At(u) = "idle" /\ call' = [call EXCEPT ![u] = q]
        /\ UNCHANGED <<entries, policy, verdicts, clock, autoBlock, blocked, cache>>
    BY DEF Receive, Stay, Quiet, deviceVars
  <1>2. Facts[s][n] \subseteq Shields /\ KindOf[n] \in Kinds /\ "count" \in HandlerLabels
    BY FactsAt, QueryAssumption, LabelsKnown DEF Early
  <1>3. /\ q \in Queries /\ q.pc = "count" /\ q.src = s /\ q.name = n
        /\ q.held = Facts[s][n] /\ q.reply = "nothing"
    BY <1>2, IdleFits DEF Queries, Idle
  <1> HIDE DEF q
  <1>4. Shape(q)
    BY <1>3 DEF Shape
  <1>5. CallFits(u) /\ call'[u] = q
    BY <1>1, <1>3, <1>4, CallAt DEF DecideInv
  <1>6. QueriesFit'
    BY <1>1, <1>5 DEF DecideInv, QueriesFit, CallFits, OtherCallsSame
  <1>7. Facts' = Facts
    BY <1>1 DEF Facts, IsLive, Isolated, StrictFor, RuledOut, OnList, FilterOn, Walled, policy
  <1>8. HeldNow'
    <2> SUFFICES ASSUME NEW v \in Handlers, call'[v].held # {}
                 PROVE  /\ Src(v)' \in Sources /\ call'[v].name \in Names
                        /\ call'[v].held \subseteq Facts'[Src(v)'][call'[v].name]
      BY DEF HeldNow
    <2>1. CASE v = u
      BY <1>3, <1>5, <1>7, <2>1 DEF Src
    <2>2. CASE v # u
      BY <1>5, <1>7, <2>2 DEF DecideInv, HeldNow, CallFits, OtherCallsSame, Src
    <2> QED BY <2>1, <2>2
  <1>9. \A v \in Handlers : DecidedAt(v)'
    <2>1. Decided(q)
      BY <1>3 DEF Decided, Consulting, Resolving
    <2> QED BY <1>5, <2>1 DEF DecideInv, CallFits, OtherCallsSame, DecidedAt
  <1>10. ~InJudgement(u) /\ ~InJudgement(u)'
    BY <1>1, <1>3, <1>5 DEF InJudgement, AskLabels, At
  <1> QED BY <1>5, <1>6, <1>8, <1>9, <1>10 DEF DecideInv, CallFits

LEMMA ProbeDecides ==
  ASSUME DecideInv, NEW u \in Handlers, NEW s \in Sources, NEW p \in Ports, Probe(u, s, p),
         UNCHANGED <<entries, policy, verdicts, cache>>
  PROVE  DecideInv' /\ ~InJudgement(u) /\ ~InJudgement(u)' /\ OtherCallsSame(u)
  <1> DEFINE q == [call[u] EXCEPT !.pc = "scan", !.src = s, !.at = clock, !.offence = "scan"]
  <1>1. At(u) = "idle" /\ UNCHANGED <<clock, autoBlock, blocked>>
    BY DEF Probe
  <1>2. call' = call \/ call' = [call EXCEPT ![u] = q]
    BY DEF Probe
  <1>3. call[u] \in Queries /\ call[u].held = {} /\ clock \in Int /\ "scan" \in Offences
    BY <1>1, LastsPositive DEF DecideInv, QueriesFit, Shape, At, Offences
  <1>4. q \in Queries /\ q.pc = "scan" /\ q.offence = "scan" /\ q.held = {}
    BY <1>3, LabelsKnown DEF Queries, Middle
  <1> HIDE DEF q
  <1>5. Shape(q)
    BY <1>4 DEF Shape
  <1>6. OtherCallsSame(u) /\ (call' = call \/ (CallFits(u) /\ call'[u] = q))
    BY <1>2, <1>4, <1>5, CallAt DEF DecideInv, CallFits, OtherCallsSame
  <1>7. QueriesFit'
    BY <1>1, <1>6 DEF DecideInv, QueriesFit, CallFits, OtherCallsSame
  <1>8. Facts' = Facts
    BY <1>1 DEF Facts, IsLive, Isolated, StrictFor, RuledOut, OnList, FilterOn, Walled, policy
  <1>9. HeldNow'
    <2> SUFFICES ASSUME NEW v \in Handlers, call'[v].held # {}
                 PROVE  /\ Src(v)' \in Sources /\ call'[v].name \in Names
                        /\ call'[v].held \subseteq Facts'[Src(v)'][call'[v].name]
      BY DEF HeldNow
    <2>1. call'[v] = call[v]
      BY <1>3, <1>4, <1>6 DEF OtherCallsSame
    <2> QED BY <1>8, <2>1 DEF DecideInv, HeldNow, Src
  <1>10. \A v \in Handlers : DecidedAt(v)'
    <2>1. Decided(q)
      BY <1>4 DEF Decided
    <2> QED BY <1>6, <2>1 DEF DecideInv, OtherCallsSame, DecidedAt
  <1>11. ~InJudgement(u) /\ ~InJudgement(u)'
    BY <1>1, <1>4, <1>6 DEF InJudgement, AskLabels, At
  <1> QED BY <1>6, <1>7, <1>9, <1>10, <1>11 DEF DecideInv

\* What a step is for the calls.
QueryKinds ==
  \/ \E u \in Handlers : HandlerStep(u) /\ ~KeepVerdict(u)
  \/ /\ \E u \in Handlers : OtherCallsSame(u) /\ ~InJudgement(u) /\ ~InJudgement(u)'
     /\ UNCHANGED <<total, refused, passed>>
  \/ /\ \A u \in Handlers : InJudgement(u)' <=> InJudgement(u)
     /\ UNCHANGED <<total, refused, passed>>

LEMMA QueryStep ==
  ASSUME DecideInv, [QueryNext]_queryVars
  PROVE  DecideInv' /\ QueryKinds
  <1>1. ASSUME NEW u \in Handlers, NEW s \in Sources, NEW n \in Names, Receive(u, s, n)
        PROVE  DecideInv' /\ QueryKinds
    <2>1. UNCHANGED <<total, refused, passed>>
      BY <1>1 DEF Receive
    <2> QED BY <1>1, <2>1, ReceiveDecides DEF QueryKinds
  <1>2. ASSUME NEW u \in Handlers, HandlerStep(u), ~KeepVerdict(u)
        PROVE  DecideInv' /\ QueryKinds
    BY <1>2, HandlerDecides DEF QueryKinds
  <1>7. ASSUME NEW u \in Handlers, KeepVerdict(u)
        PROVE  DecideInv' /\ QueryKinds
    <2>1. UNCHANGED <<total, refused, passed>>
      BY <1>7 DEF KeepVerdict, counters
    <2>2. \A v \in Handlers : InJudgement(v)' <=> InJudgement(v)
      <3> SUFFICES ASSUME NEW v \in Handlers PROVE InJudgement(v)' <=> InJudgement(v)
        OBVIOUS
      <3>1. CASE v = u
        BY <1>7, <3>1, KeepDecides DEF InJudgement, AskLabels
      <3>2. CASE v # u
        BY <1>7, <3>2, KeepDecides DEF InJudgement, AskLabels
      <3> QED BY <3>1, <3>2
    <2> QED BY <1>7, <2>1, <2>2, KeepDecides DEF QueryKinds
  <1>3. CASE Minute \/ OperatorOfDevices \/ ListsChange \/ PolicyChanges
    <2>1. /\ StillHeld /\ clock' \in Nat /\ UNCHANGED <<autoBlock, blocked, cache>>
          /\ UNCHANGED <<total, refused, passed>>
      BY <1>3 DEF DecideInv, QueriesFit, Minute, OperatorOfDevices, ListsChange, PolicyChanges,
                  counters
    <2>2. /\ DecideInv'
          /\ \A u \in Handlers : At(u)' = At(u) /\ call'[u].offence = call[u].offence
      BY <2>1, AroundDecides
    <2>3. \A u \in Handlers : InJudgement(u)' <=> InJudgement(u)
      BY <2>2 DEF InJudgement, AskLabels
    <2> QED BY <2>1, <2>2, <2>3 DEF QueryKinds
  <1>4. ASSUME UNCHANGED <<call, clock, blocked, entries, policy, verdicts, cache>>,
               UNCHANGED <<total, refused, passed>>, autoBlock' \in BOOLEAN
        PROVE  DecideInv' /\ QueryKinds
    <2>1. QueriesFit'
      BY <1>4 DEF DecideInv, QueriesFit
    <2>2. Facts' = Facts
      BY <1>4 DEF Facts, IsLive, Isolated, StrictFor, RuledOut, OnList, FilterOn, Walled, policy
    <2>3. HeldNow' /\ \A u \in Handlers : DecidedAt(u)'
      BY <1>4, <2>2 DEF DecideInv, HeldNow, DecidedAt, Src
    <2>4. \A u \in Handlers : InJudgement(u)' <=> InJudgement(u)
      BY <1>4 DEF InJudgement, AskLabels, At
    <2> QED BY <1>4, <2>1, <2>3, <2>4 DEF DecideInv, QueryKinds
  <1>5. CASE OperatorOfIds
    <2>1. UNCHANGED <<entries, policy, verdicts, cache, total, refused, passed>>
      BY <1>5 DEF OperatorOfIds, deviceVars, counters
    <2>2. CASE ToggleDetection \/ ToggleAutoBlock \/ ClearIncidents
      <3>1. UNCHANGED <<call, clock, blocked>> /\ autoBlock' \in BOOLEAN
        BY <2>2 DEF ToggleDetection, ToggleAutoBlock, ClearIncidents, DecideInv, QueriesFit
      <3> QED BY <1>4, <2>1, <3>1
    <2>3. ASSUME NEW u \in Handlers, NEW s \in Askers, NEW p \in Ports, Probe(u, s, p)
          PROVE  DecideInv' /\ QueryKinds
      <3>1. s \in Sources
        BY QueryAssumption DEF Askers
      <3> QED BY <2>1, <2>3, <3>1, ProbeDecides DEF QueryKinds
    <2> QED BY <1>5, <2>2, <2>3 DEF OperatorOfIds
  <1>6. CASE Upstreams \/ UNCHANGED queryVars
    <2>1. /\ UNCHANGED <<call, clock, blocked, entries, policy, verdicts, cache>>
          /\ UNCHANGED <<total, refused, passed>> /\ autoBlock' = autoBlock
      BY <1>6 DEF Upstreams, queryVars, engineVars, deviceVars, counters
    <2> QED BY <1>4, <2>1 DEF DecideInv, QueriesFit
  <1> QED BY <1>1, <1>2, <1>3, <1>5, <1>6, <1>7 DEF QueryNext

LEMMA QueryInitDecides == QueryInit => DecideInv
  <1> SUFFICES ASSUME QueryInit PROVE DecideInv
    OBVIOUS
  <1>1. /\ call = [u \in Handlers |-> Idle] /\ clock = 0 /\ autoBlock \in BOOLEAN
        /\ blocked = [s \in Sources |-> Never] /\ cache = [n \in Names |-> NoAnswer]
    BY DEF QueryInit, EngineInit
  <1>2. \A u \in Handlers : call[u] = Idle
    BY <1>1
  <1>3. Idle.held = {} /\ Shape(Idle) /\ NoAnswer \in [answer : Replies, at : Int] /\ Never \in Int
    BY DEF Idle, Shape, NoAnswer, Replies, Never
  <1>4. QueriesFit
    BY <1>1, <1>3, IdleFits DEF QueriesFit
  <1>5. HeldNow /\ \A u \in Handlers : DecidedAt(u)
    BY <1>2, <1>3 DEF HeldNow, DecidedAt, Decided
  <1> QED BY <1>4, <1>5 DEF DecideInv

\* What protects a client while its query is on the way decides the reply: a
\* banned source gets none, an isolated one NXDOMAIN; a name is not resolved that
\* the strict mode or a rule denies, nor one on the list that is not remembered
\* as clear, and a public name never to a private address, whatever other
\* handlers, the detectors, the cache and the operator do between its steps
\* (dns/mod.rs: handle_dns_packet, should_block).
THEOREM ProtectionDecides == QuerySpec => []HeldDecides
  <1>1. DecideInv => HeldDecides
    BY DEF DecideInv, DecidedAt, Decided, Refused, Resolving, HeldDecides, At
  <1>2. DecideInv /\ [QueryNext]_queryVars => DecideInv'
    BY QueryStep
  <1> QED BY <1>1, <1>2, QueryInitDecides, PTL DEF QuerySpec

JudgeInv == DecideInv /\ {total, refused, passed} \subseteq Int /\ EachJudgedOnce
Judging == {u \in Handlers : InJudgement(u)}

LEMMA JudgingChanges ==
  ASSUME NEW u \in Handlers, OtherCallsSame(u)
  PROVE  /\ Cardinality(Judging) \in Nat
         /\ (InJudgement(u)' <=> InJudgement(u)) => Judging' = Judging
         /\ ~InJudgement(u) /\ InJudgement(u)' => Cardinality(Judging') = Cardinality(Judging) + 1
         /\ InJudgement(u) /\ ~InJudgement(u)' => Cardinality(Judging') = Cardinality(Judging) - 1
  <1>1. \A v \in Handlers \ {u} : InJudgement(v)' <=> InJudgement(v)
    BY DEF OtherCallsSame, InJudgement, AskLabels, At
  <1>2. IsFiniteSet(Handlers)
    BY EngineAssumption
  <1>3. IsFiniteSet(Judging)
    BY <1>2, FS_Subset DEF Judging
  <1>4. (InJudgement(u)' <=> InJudgement(u)) => Judging' = Judging
    BY <1>1 DEF Judging
  <1>5. ~InJudgement(u) /\ InJudgement(u)' => u \notin Judging /\ Judging' = Judging \union {u}
    BY <1>1 DEF Judging
  <1>6. InJudgement(u) /\ ~InJudgement(u)' => u \in Judging /\ Judging' = Judging \ {u}
    BY <1>1 DEF Judging
  <1> QED BY <1>3, <1>4, <1>5, <1>6, FS_CardinalityType, FS_AddElement, FS_RemoveElement

\* Every query that is counted is counted once more, as refused or as passed,
\* for any number of handlers.
THEOREM CountsAreEven == QuerySpec => []EachJudgedOnce
  <1>1. QueryInit => JudgeInv
    <2> SUFFICES ASSUME QueryInit PROVE JudgeInv
      OBVIOUS
    <2>1. total = 0 /\ refused = 0 /\ passed = 0 /\ \A u \in Handlers : call[u] = Idle
      BY DEF QueryInit, EngineInit
    <2>2. {u \in Handlers : InJudgement(u)} = {}
      BY <2>1 DEF InJudgement, AskLabels, At, Idle
    <2>3. EachJudgedOnce
      BY <2>1, <2>2, FS_EmptySet DEF EachJudgedOnce
    <2> QED BY <2>1, <2>3, QueryInitDecides DEF JudgeInv
  <1>2. JudgeInv /\ [QueryNext]_queryVars => JudgeInv'
    <2> SUFFICES ASSUME JudgeInv, [QueryNext]_queryVars PROVE JudgeInv'
      OBVIOUS
    <2>1. DecideInv' /\ QueryKinds
      BY QueryStep DEF JudgeInv
    <2>2. total = refused + passed + Cardinality(Judging)
      BY DEF JudgeInv, EachJudgedOnce, Judging
    <2>3. /\ {total, refused, passed}' \subseteq Int
          /\ total' = refused' + passed' + Cardinality(Judging')
      <3>1. CASE /\ \A u \in Handlers : InJudgement(u)' <=> InJudgement(u)
                 /\ UNCHANGED <<total, refused, passed>>
        <4>1. Judging' = Judging
          BY <3>1 DEF Judging
        <4> QED BY <2>2, <3>1, <4>1 DEF JudgeInv
      <3>2. ASSUME NEW u \in Handlers, OtherCallsSame(u), Judged(u)
            PROVE  /\ {total, refused, passed}' \subseteq Int
                   /\ total' = refused' + passed' + Cardinality(Judging')
        <4>1. {total, refused, passed} \subseteq Int /\ Cardinality(Judging) \in Nat
          BY <3>2, JudgingChanges DEF JudgeInv
        <4> QED BY <2>2, <3>2, <4>1, JudgingChanges DEF Judged
      <3>3. ASSUME NEW u \in Handlers, HandlerStep(u), ~KeepVerdict(u)
            PROVE  OtherCallsSame(u) /\ Judged(u)
        BY <3>3, HandlerMoves DEF JudgeInv, DecideInv, CallFits
      <3> QED BY <2>1, <3>1, <3>2, <3>3 DEF QueryKinds, Judged
    <2> QED BY <2>1, <2>3 DEF JudgeInv, EachJudgedOnce, Judging
  <1>3. JudgeInv => EachJudgedOnce
    BY DEF JudgeInv
  <1> QED BY <1>1, <1>2, <1>3, PTL DEF QuerySpec

-----------------------------------------------------------------------------
(***************************************************************************)
(* Who is alerted on is blocked                                            *)
(***************************************************************************)
AlertInv ==
  /\ DecideInv /\ hardAlert \in [Sources -> Int]
  /\ \A s \in Sources : hardAlert[s] <= clock
  /\ \A u \in Handlers : At(u) = "alert" => call[u].at <= clock
  /\ AlertedIsBlocked

\* A step that raises no alert, ends no block that is on, and leaves whoever is
\* about to isolate a source where it is.
LEMMA AlertsRest ==
  ASSUME AlertInv, DecideInv', clock' = clock, hardAlert' = hardAlert,
         \A u \in Handlers : At(u)' = "alert" => call'[u].at <= clock,
         \A s \in Sources : IsLive(s) => IsLive(s)',
         \A u \in Handlers : At(u) = "isolate" =>
            \/ At(u)' = "isolate" /\ Src(u)' = Src(u)
            \/ \A s \in Sources \ Loopback : s = Src(u) => IsLive(s)'
  PROVE  AlertInv'
  <1>1. AlertedIsBlocked'
    <2> SUFFICES ASSUME NEW s \in Sources \ Loopback,
                        hardAlert'[s] # Never /\ clock' < hardAlert'[s] + Cooldown,
                        \A u \in Handlers : ~(At(u)' = "isolate" /\ Src(u)' = s)
                 PROVE  IsLive(s)'
      BY DEF AlertedIsBlocked
    <2>1. CASE \E u \in Handlers : At(u) = "isolate" /\ Src(u) = s
      BY <2>1
    <2>2. CASE \A u \in Handlers : ~(At(u) = "isolate" /\ Src(u) = s)
      BY <2>2 DEF AlertInv, AlertedIsBlocked
    <2> QED BY <2>1, <2>2
  <1> QED BY <1>1 DEF AlertInv

LEMMA CallsAlone ==
  ASSUME AlertInv, DecideInv', NEW u \in Handlers, OtherCallsSame(u), clock' = clock,
         hardAlert' = hardAlert, At(u) # "isolate", At(u)' # "alert",
         \A s \in Sources : IsLive(s) => IsLive(s)'
  PROVE  AlertInv'
  <1>1. \A v \in Handlers : At(v)' = "alert" => call'[v].at <= clock
    BY DEF OtherCallsSame, AlertInv, At
  <1>2. \A v \in Handlers : At(v) = "isolate" => At(v)' = "isolate" /\ Src(v)' = Src(v)
    BY DEF OtherCallsSame, At, Src
  <1> QED BY <1>1, <1>2, AlertsRest

LEMMA IdleRests ==
  ASSUME NEW u \in Handlers, call'[u] = Idle
  PROVE  At(u)' = "idle"
  <1>1. Idle.pc = "idle"
    BY DEF Idle
  <1> QED BY <1>1 DEF At

LEMMA EngineAlerts ==
  ASSUME AlertInv, NEW u \in Handlers, EngineStep(u), DecideInv'
  PROVE  AlertInv'
  <1>1. /\ clock' = clock /\ \A s \in Sources : IsLive(s) => IsLive(s)'
        /\ CallFits(u) /\ OtherCallsSame(u) /\ QueriesFit
    BY EngineCarries, EngineMoves DEF AlertInv, DecideInv, CallFits
  <1>2. CASE CountQuery(u)
    <2>1. At(u) = "count" /\ hardAlert' = hardAlert /\ call'[u].at = clock
      BY <1>1, <1>2 DEF CountQuery, QueriesFit, Queries
    <2>2. \A v \in Handlers : At(v)' = "alert" => call'[v].at <= clock
      BY <1>1, <2>1 DEF OtherCallsSame, AlertInv, At, QueriesFit
    <2>3. \A v \in Handlers : At(v) = "isolate" => At(v)' = "isolate" /\ Src(v)' = Src(v)
      BY <1>1, <2>1 DEF OtherCallsSame, At, Src
    <2> QED BY <1>1, <2>1, <2>2, <2>3, AlertsRest
  <1>3. CASE RaiseHardAlert(u)
    <2>1. At(u) = "alert" /\ call[u].name \in Names /\ call[u].at \in Int /\ call[u].at <= clock
      BY <1>1, <1>3 DEF RaiseHardAlert, QueriesFit, Queries, Shape, At, AlertInv
    <2>2. CASE call' = [call EXCEPT ![u] = Idle] /\ hardAlert' = hardAlert
      <3>1. At(u)' # "alert"
        BY <1>1, <2>2, LeaveStep, IdleRests
      <3> QED BY <1>1, <2>1, <2>2, <3>1, CallsAlone
    <2>3. CASE Goto(u, "isolate") /\ hardAlert' = [hardAlert EXCEPT ![Src(u)] = call[u].at]
      <3>1. At(u)' = "isolate" /\ Src(u)' = Src(u)
        BY <1>1, <2>1, <2>3, GotoStep, LabelsKnown DEF Early, SameQuery, Src
      <3>2. /\ hardAlert' \in [Sources -> Int] /\ \A s \in Sources : hardAlert'[s] <= clock'
            /\ \A s \in Sources \ {Src(u)} : hardAlert'[s] = hardAlert[s]
        <4>1. hardAlert \in [Sources -> Int] /\ \A s \in Sources : hardAlert[s] <= clock
          BY DEF AlertInv
        <4> HIDE DEF AlertInv
        <4> QED BY <1>1, <2>1, <2>3, <4>1
      <3>3. \A v \in Handlers : At(v)' = "alert" => call'[v].at <= clock'
        BY <1>1, <3>1 DEF OtherCallsSame, AlertInv, At
      <3>4. \A v \in Handlers : At(v) = "isolate" => At(v)' = "isolate" /\ Src(v)' = Src(v)
        BY <1>1, <2>1 DEF OtherCallsSame, At, Src
      <3>5. AlertedIsBlocked'
        <4> SUFFICES ASSUME NEW s \in Sources \ Loopback,
                            hardAlert'[s] # Never /\ clock' < hardAlert'[s] + Cooldown,
                            \A v \in Handlers : ~(At(v)' = "isolate" /\ Src(v)' = s)
                     PROVE  IsLive(s)'
          BY DEF AlertedIsBlocked
        <4>1. s # Src(u)
          BY <3>1
        <4> QED BY <1>1, <3>2, <3>4, <4>1 DEF AlertInv, AlertedIsBlocked
      <3> QED BY <3>2, <3>3, <3>5 DEF AlertInv
    <2> QED BY <1>3, <2>2, <2>3 DEF RaiseHardAlert, Leave
  <1>4. CASE IsolateSource(u)
    <2>1. /\ At(u) = "isolate" /\ hardAlert' = hardAlert /\ Block(Src(u), 1)
          /\ call' = [call EXCEPT ![u] = Idle]
      BY <1>4 DEF IsolateSource, limits, Leave, Lasts
    <2>2. \A s \in Sources \ Loopback : s = Src(u) => IsLive(s)'
      <3> SUFFICES ASSUME Src(u) \in Sources \ Loopback PROVE clock' < blocked'[Src(u)]
        BY DEF IsLive, QueriesFit
      <3> DEFINE live == [a \in Sources |-> IF blocked[a] > clock THEN blocked[a] ELSE Never]
                 swept == IF Cardinality({a \in Sources : blocked[a] # Never}) > MaxBlocked
                          THEN live ELSE blocked
      <3>1. blocked' = [swept EXCEPT ![Src(u)] = clock + 1]
        BY <2>1 DEF Block
      <3>2. DOMAIN swept = Sources
        BY <1>1 DEF QueriesFit
      <3> HIDE DEF swept
      <3>3. blocked'[Src(u)] = clock + 1
        BY <3>1, <3>2
      <3> QED BY <1>1, <3>3 DEF QueriesFit
    <2>3. At(u)' = "idle"
      BY <1>1, <2>1, LeaveStep, IdleRests
    <2>4. \A v \in Handlers : At(v)' = "alert" => call'[v].at <= clock
      BY <1>1, <2>3 DEF OtherCallsSame, AlertInv, At
    <2>5. \A v \in Handlers : At(v) = "isolate" =>
             (At(v)' = "isolate" /\ Src(v)' = Src(v))
              \/ \A s \in Sources \ Loopback : s = Src(v) => IsLive(s)'
      BY <1>1, <2>2 DEF OtherCallsSame, At, Src
    <2> QED BY <1>1, <2>1, <2>4, <2>5, AlertsRest
  <1>5. CASE \/ Screen(u) \/ Expire(u) \/ InspectQuery(u) \/ RaiseFloodAlert(u) \/ Punish(u)
             \/ RecordIncident(u) \/ RaiseScanAlert(u) \/ PunishScan(u)
    <2>1. At(u) \notin {"count", "alert", "isolate"} /\ hardAlert' = hardAlert
      BY <1>5 DEF Screen, Expire, InspectQuery, RaiseFloodAlert, Punish, RecordIncident,
                  RaiseScanAlert, PunishScan, limits
    <2>2. At(u)' # "alert"
      <3>1. CASE Screen(u) \/ Expire(u)
        <4>1. /\ call[u].name \in Names
              /\ call' = [call EXCEPT ![u] = Idle] \/ Goto(u, "expire") \/ Goto(u, "screened")
          BY <1>1, <3>1 DEF Screen, Expire, Leave, QueriesFit, Shape, At
        <4> QED BY <1>1, <4>1, LeaveStep, GotoStep, LabelsKnown DEF Early, At, Idle
      <3>2. CASE ~(Screen(u) \/ Expire(u))
        <4>1. At(u) \notin Early
          BY <1>5, <3>2 DEF Early, InspectQuery, RaiseFloodAlert, Punish, RecordIncident,
                            RaiseScanAlert, PunishScan
        <4> QED BY <1>1, <4>1, EngineMoves DEF Middle, At, Idle
      <3> QED BY <3>1, <3>2
    <2> QED BY <1>1, <2>1, <2>2, CallsAlone
  <1> QED BY <1>2, <1>3, <1>4, <1>5 DEF EngineStep

LEMMA AlertStep ==
  ASSUME AlertInv, [QueryNext]_queryVars
  PROVE  AlertInv'
  <1>1. DecideInv /\ DecideInv' /\ QueriesFit
    BY QueryStep DEF AlertInv, DecideInv
  <1>2. ASSUME NEW u \in Handlers, EngineWorks(u)
        PROVE  AlertInv'
    BY <1>1, <1>2, EngineAlerts DEF EngineWorks
  <1>3. ASSUME NEW u \in Handlers, HandlerStep(u), ~EngineWorks(u), ~KeepVerdict(u)
        PROVE  AlertInv'
    <2>1. /\ UNCHANGED <<clock, hardAlert, blocked>>
          /\ At(u) \in {"screened", "inspected", "cached", "forward", "arrived", "done"}
                       \union AskLabels
      BY <1>3 DEF HandlerStep, CheckQuarantine, Judge, AskPause, AskMode, AskAllowed, AskRules,
         AskKnown, AskDisk, Decide, Asking, AskCache, Forward, TakeAnswer, Finish, Stay, Quiet,
         limits, AskLabels
    <2>2. OtherCallsSame(u) /\ Moves(u)
      BY <1>1, <1>3, HandlerMoves DEF CallFits
    <2>3. At(u)' # "alert"
      BY <2>1, <2>2 DEF Moves, Early, Middle, Sent, Idle, At, AskLabels
    <2>4. At(u) \notin {"count", "alert", "isolate"}
      BY <2>1 DEF AskLabels
    <2> QED BY <1>1, <2>1, <2>2, <2>3, <2>4, CallsAlone DEF IsLive
  <1>9. ASSUME NEW u \in Handlers, KeepVerdict(u)
        PROVE  AlertInv'
    <2>1. UNCHANGED <<clock, hardAlert, blocked>>
      BY <1>9 DEF KeepVerdict, limits
    <2>2. \A v \in Handlers : /\ At(v)' = At(v) \/ (At(v) = "keep" /\ At(v)' = "kept")
                              /\ call'[v].at = call[v].at /\ Src(v)' = Src(v)
      <3> SUFFICES ASSUME NEW v \in Handlers
                   PROVE  /\ At(v)' = At(v) \/ (At(v) = "keep" /\ At(v)' = "kept")
                          /\ call'[v].at = call[v].at /\ Src(v)' = Src(v)
        OBVIOUS
      <3>1. CASE v = u
        BY <1>1, <1>9, <3>1, KeepDecides
      <3>2. CASE v # u
        BY <1>1, <1>9, <3>2, KeepDecides
      <3> QED BY <3>1, <3>2
    <2>3. \A v \in Handlers : At(v)' = "alert" => call'[v].at <= clock
      BY <2>2 DEF AlertInv
    <2>4. \A v \in Handlers : At(v) = "isolate" =>
            (At(v)' = "isolate" /\ Src(v)' = Src(v))
             \/ \A s \in Sources \ Loopback : s = Src(v) => IsLive(s)'
      BY <2>2
    <2> QED BY <1>1, <2>1, <2>3, <2>4, AlertsRest DEF IsLive
  <1>4. ASSUME NEW u \in Handlers, NEW s \in Sources, NEW n \in Names, Receive(u, s, n)
        PROVE  AlertInv'
    <2>1. /\ UNCHANGED <<clock, hardAlert, blocked>> /\ At(u) = "idle"
          /\ call' = [call EXCEPT ![u] = [Idle EXCEPT !.pc = "count", !.src = s, !.name = n,
                                            !.kind = KindOf[n], !.held = Facts[s][n]]]
      BY <1>4 DEF Receive, Stay, Quiet, limits
    <2>2. At(u)' = "count"
      BY <1>1, <2>1 DEF QueriesFit, At, Idle
    <2> QED BY <1>1, <1>4, <2>1, <2>2, ReceiveDecides, CallsAlone DEF IsLive
  <1>5. CASE Minute
    <2>1. /\ clock' = clock + 1 /\ UNCHANGED <<hardAlert, blocked, autoBlock, cache>> /\ StillHeld
      BY <1>5 DEF Minute, limits
    <2>2. \A u \in Handlers : At(u)' = "alert" => call'[u].at <= clock'
      <3> SUFFICES ASSUME NEW u \in Handlers, At(u)' = "alert" PROVE call'[u].at <= clock'
        OBVIOUS
      <3>1. At(u) = "alert"
        BY <1>1, <2>1, AroundDecides DEF QueriesFit
      <3>2. call'[u].at = call[u].at /\ call[u].at \in Int
        BY <1>1, <2>1, HoldingKeeps DEF StillHeld, QueriesFit, Queries
      <3> QED BY <1>1, <2>1, <3>1, <3>2 DEF AlertInv, QueriesFit
    <2>3. \A s \in Sources : hardAlert'[s] <= clock' /\ ~(clock' < hardAlert'[s] + Cooldown)
      BY <1>1, <2>1 DEF AlertInv, QueriesFit, Cooldown
    <2> QED BY <1>1, <2>1, <2>2, <2>3 DEF AlertInv, AlertedIsBlocked
  <1>6. CASE OperatorOfDevices \/ ListsChange \/ PolicyChanges
    <2>1. UNCHANGED <<clock, hardAlert, blocked, autoBlock, cache>> /\ StillHeld
      BY <1>6 DEF OperatorOfDevices, ListsChange, PolicyChanges, limits
    <2>2. \A u \in Handlers : At(u)' = At(u)
      BY <1>1, <2>1, AroundDecides DEF QueriesFit
    <2>3. \A u \in Handlers : call'[u].at = call[u].at /\ Src(u)' = Src(u)
      BY <1>1, <2>1, HoldingKeeps DEF StillHeld, QueriesFit, Src
    <2> QED BY <1>1, <2>1, <2>2, <2>3, AlertsRest DEF AlertInv, IsLive
  <1>7. CASE OperatorOfIds
    <2>1. CASE ToggleDetection \/ ToggleAutoBlock \/ ClearIncidents
      BY <1>1, <2>1, AlertsRest DEF ToggleDetection, ToggleAutoBlock, ClearIncidents, limits,
         AlertInv, IsLive, At, Src
    <2>2. ASSUME NEW u \in Handlers, NEW s \in Askers, NEW p \in Ports, Probe(u, s, p)
          PROVE  AlertInv'
      <3>1. UNCHANGED <<clock, hardAlert, blocked>> /\ At(u) = "idle" /\ s \in Sources
        BY <2>2, QueryAssumption DEF Probe, limits, Askers
      <3>2. UNCHANGED <<entries, policy, verdicts, cache>>
        BY <1>7 DEF OperatorOfIds, deviceVars
      <3>3. OtherCallsSame(u)
        BY <1>1, <2>2, <3>1, <3>2, ProbeDecides
      <3>4. \/ call' = call
            \/ call' = [call EXCEPT ![u].pc = "scan", ![u].src = s, ![u].at = clock,
                                    ![u].offence = "scan"]
        BY <2>2 DEF Probe
      <3>5. At(u)' # "alert"
        BY <1>1, <3>1, <3>4 DEF QueriesFit, Queries, At
      <3> QED BY <1>1, <3>1, <3>3, <3>5, CallsAlone DEF IsLive
    <2> QED BY <1>7, <2>1, <2>2 DEF OperatorOfIds
  <1>8. CASE Upstreams \/ UNCHANGED queryVars
    <2>1. UNCHANGED <<clock, hardAlert, blocked, call>>
      BY <1>8 DEF Upstreams, queryVars, engineVars, limits
    <2> QED BY <1>1, <2>1, AlertsRest DEF AlertInv, IsLive, At, Src
  <1> QED BY <1>2, <1>3, <1>4, <1>5, <1>6, <1>7, <1>8, <1>9 DEF QueryNext

\* A source whose alerts the hard limit has silenced for a minute is blocked
\* for that minute, but for the moment its handler needs to set the block:
\* no detector shortens it and no lookup removes it.
THEOREM AlertedStaysBlocked == QuerySpec => []AlertedIsBlocked
  <1>1. QueryInit => AlertInv
    <2> SUFFICES ASSUME QueryInit PROVE AlertInv
      OBVIOUS
    <2>1. /\ call = [u \in Handlers |-> Idle] /\ clock = 0
          /\ hardAlert = [s \in Sources |-> Never]
      BY DEF QueryInit, EngineInit
    <2>2. \A u \in Handlers : At(u) = "idle"
      BY <2>1 DEF At, Idle
    <2> QED BY <2>1, <2>2, QueryInitDecides DEF AlertInv, AlertedIsBlocked, Never
  <1>2. AlertInv /\ [QueryNext]_queryVars => AlertInv'
    BY AlertStep
  <1>3. AlertInv => AlertedIsBlocked
    BY DEF AlertInv
  <1> QED BY <1>1, <1>2, <1>3, PTL DEF QuerySpec

-----------------------------------------------------------------------------
(***************************************************************************)
(* The server is a caller of the quarantine                                *)
(***************************************************************************)
LEMMA QueryStepIsDeviceStep ==
  ASSUME [QueryNext]_queryVars
  PROVE  [DevicesNext]_deviceVars
  <1>1. ASSUME NEW u \in Handlers, HandlerStep(u) PROVE UNCHANGED deviceVars
    BY <1>1 DEF HandlerStep, EngineWorks, CheckQuarantine, Judge, AskPause, AskMode, AskAllowed,
      AskRules, AskKnown, AskDisk, KeepVerdict, Decide, Asking, AskCache, Forward, TakeAnswer,
      Finish, Stay, Quiet
  <1>2. ASSUME NEW u \in Handlers, NEW s \in Sources, NEW n \in Names, Receive(u, s, n)
        PROVE  UNCHANGED deviceVars
    BY <1>2 DEF Receive, Stay, Quiet
  <1>3. CASE OperatorOfDevices
    BY <1>3 DEF OperatorOfDevices, DevicesNext
  <1>4. CASE Minute \/ OperatorOfIds \/ ListsChange \/ PolicyChanges \/ Upstreams
    BY <1>4 DEF Minute, OperatorOfIds, ListsChange, PolicyChanges, Upstreams
  <1>5. CASE UNCHANGED queryVars
    BY <1>5 DEF queryVars
  <1> QED BY <1>1, <1>2, <1>3, <1>4, <1>5 DEF QueryNext

\* The DNS server and the engine change the quarantine only by calls of it, as
\* DeviceQuarantine has them: whatever is proved of it holds while queries are
\* answered.
THEOREM QueryUsesDevices == QuerySpec => DevicesSpec
  <1>1. QueryInit => DevicesInit
    BY DEF QueryInit
  <1> QED BY <1>1, QueryStepIsDeviceStep, PTL DEF QuerySpec, DevicesSpec

\* Neither this machine nor a gateway is isolated while queries are answered,
\* clicks come and the inventory is refreshed between any two steps of the
\* handlers (security/mod.rs: quarantine_ip, update_quarantine_inventory).
THEOREM ServerIsolatesSafely == QuerySpec => []QuarantineSafe
  BY QueryUsesDevices, IsolationIsSafe, PTL

\* Nor does answering queries release an address without evidence.
THEOREM ServerReleasesOnEvidence == QuerySpec => ReleasedOnEvidence
  BY QueryUsesDevices, ReleaseNeedsEvidence, PTL

-----------------------------------------------------------------------------
(***************************************************************************)
(* A handler comes to its end                                              *)
(***************************************************************************)
\* The steps a handler still makes from each label, at most.
StepsLeft ==
  [idle |-> 0, done |-> 1, arrived |-> 2, forward |-> 3, cached |-> 4,
   kept |-> 5, keep |-> 6, disk |-> 7, known |-> 8, rules |-> 9, allow |-> 10, mode |-> 11,
   verdict |-> 12, inspected |-> 13, report |-> 14, punish |-> 15, scanpunish |-> 15,
   flood |-> 16, scan |-> 16, inspect |-> 17, screened |-> 18, expire |-> 19, screen |-> 20,
   isolate |-> 1, alert |-> 2, count |-> 21]

\* A step of u brings it nearer to its end; no other step, of another handler,
\* of time or of the operator, touches where it is, but that an idle one takes
\* a packet or a probe.
HandlerAdvances(u) ==
  /\ HandlerStep(u) => StepsLeft[At(u)'] < StepsLeft[At(u)]
  /\ ~HandlerStep(u) => At(u)' = At(u) \/ (At(u) = "idle" /\ At(u)' \in {"count", "scan"})

LEMMA StepsAreFew ==
  /\ \A label \in HandlerLabels : StepsLeft[label] \in 0 .. 21
  /\ \A label \in HandlerLabels : StepsLeft[label] = 0 => label = "idle"
  BY DEF StepsLeft, HandlerLabels, EngineLabels, AskLabels

\* Where the steps of the engine take a call.
LEMMA EngineAdvances ==
  ASSUME QueriesFit, NEW u \in Handlers, EngineStep(u)
  PROVE  StepsLeft[At(u)'] < StepsLeft[At(u)]
  <1>0. call \in [Handlers -> Queries] /\ call[u] \in Queries
    BY DEF QueriesFit
  <1>1. ASSUME NEW label, Goto(u, label)
        PROVE  At(u)' = label
    BY <1>0, <1>1 DEF Goto, At, Queries
  <1>2. Leave(u) => At(u)' = "idle"
    <2>1. Leave(u) => call'[u] = Idle
      BY <1>0 DEF Leave
    <2> QED BY <2>1, IdleRests
  <1>3. CASE CountQuery(u)
    <2>1. At(u) = "count" /\ At(u)' \in {"alert", "screen"}
      BY <1>0, <1>3 DEF CountQuery, At, Queries
    <2> QED BY <2>1 DEF StepsLeft
  <1>4. CASE RaiseHardAlert(u) \/ IsolateSource(u)
    <2>1. \/ At(u) = "alert" /\ At(u)' \in {"idle", "isolate"}
          \/ At(u) = "isolate" /\ At(u)' = "idle"
      BY <1>1, <1>2, <1>4 DEF RaiseHardAlert, IsolateSource
    <2> QED BY <2>1 DEF StepsLeft
  <1>5. CASE Screen(u) \/ Expire(u)
    <2>1. \/ At(u) = "screen" /\ At(u)' \in {"screened", "expire", "idle"}
          \/ At(u) = "expire" /\ At(u)' \in {"screened", "idle"}
      BY <1>1, <1>2, <1>5 DEF Screen, Expire
    <2> QED BY <2>1 DEF StepsLeft
  <1>6. CASE InspectQuery(u)
    <2>1. At(u) = "inspect"
      BY <1>6, Zenon DEF InspectQuery
    <2>2. At(u)' \in {"flood", "punish", "report", "inspected"}
      BY <1>6, InspectStep
    <2> QED BY <2>1, <2>2 DEF StepsLeft
  <1>7. CASE RaiseFloodAlert(u) \/ Punish(u)
    <2>1. \/ At(u) = "flood" /\ At(u)' \in {"inspected", "punish"}
          \/ At(u) = "punish" /\ At(u)' = "report"
      BY <1>1, <1>7 DEF RaiseFloodAlert, Punish
    <2> QED BY <2>1 DEF StepsLeft
  <1>8. CASE RecordIncident(u)
    <2>1. At(u) = "report" /\ At(u)' \in {"idle", "inspected"}
      BY <1>8, IncidentStep, IdleRests DEF RecordIncident
    <2> QED BY <2>1 DEF StepsLeft
  <1>9. CASE RaiseScanAlert(u) \/ PunishScan(u)
    <2>1. \/ At(u) = "scan" /\ At(u)' \in {"scanpunish", "idle"}
          \/ At(u) = "scanpunish" /\ At(u)' = "report"
      BY <1>1, <1>2, <1>9 DEF RaiseScanAlert, PunishScan
    <2> QED BY <2>1 DEF StepsLeft
  <1> QED BY <1>3, <1>4, <1>5, <1>6, <1>7, <1>8, <1>9 DEF EngineStep

LEMMA HandlerStepAdvances ==
  ASSUME DecideInv, NEW u \in Handlers, HandlerStep(u)
  PROVE  StepsLeft[At(u)'] < StepsLeft[At(u)]
  <1>0. QueriesFit /\ call \in [Handlers -> Queries] /\ call[u] \in Queries
    BY DEF DecideInv, QueriesFit
  <1>1. ASSUME NEW label, Goto(u, label)
        PROVE  At(u)' = label
    BY <1>0, <1>1 DEF Goto, At, Queries
  <1>2. ASSUME NEW reply, ReplyWith(u, reply)
        PROVE  At(u)' = "done"
    BY <1>0, <1>2 DEF ReplyWith, At, Queries
  <1>3. CASE EngineWorks(u)
    BY <1>0, <1>3, EngineAdvances DEF EngineWorks
  <1>4. CASE CheckQuarantine(u) \/ Judge(u)
    <2>1. \/ At(u) = "screened" /\ At(u)' \in {"done", "inspect"}
          \/ At(u) = "inspected" /\ At(u)' \in {"done", "verdict"}
      BY <1>1, <1>2, <1>4 DEF CheckQuarantine, Judge
    <2> QED BY <2>1 DEF StepsLeft
  <1>9. CASE AskStep(u)
    <2>0. /\ Sink(u) => At(u)' = "done"
          /\ Pass(u) => At(u)' = "cached"
          /\ \A label \in AskLabels : AskOn(u, label) => At(u)' = label
      BY <1>1, <1>2 DEF Sink, Pass, AskOn
    <2>1. CASE AskPause(u)
      <3>1. At(u) = "verdict" /\ At(u)' \in {"cached", "mode"}
        BY <2>0, <2>1 DEF AskPause, AskLabels
      <3> QED BY <3>1 DEF StepsLeft
    <2>2. CASE AskMode(u)
      <3>1. At(u) = "mode" /\ (AskOn(u, "allow") \/ Sink(u) \/ Pass(u))
        <4>1. CASE mode[Src(u)] = "default"
          BY <2>2, <4>1 DEF AskMode
        <4>2. CASE mode[Src(u)] = "strict" /\ Src(u) \notin Loopback
          BY <2>2, <4>2 DEF AskMode
        <4>3. CASE mode[Src(u)] # "default" /\ ~(mode[Src(u)] = "strict" /\ Src(u) \notin Loopback)
          BY <2>2, <4>3 DEF AskMode
        <4> QED BY <4>1, <4>2, <4>3
      <3>2. At(u)' \in {"done", "cached", "allow"}
        BY <2>0, <3>1 DEF AskLabels
      <3> QED BY <3>1, <3>2 DEF StepsLeft
    <2>3. CASE AskAllowed(u) \/ AskRules(u)
      <3>1. \/ At(u) = "allow" /\ At(u)' \in {"cached", "rules"}
            \/ At(u) = "rules" /\ At(u)' \in {"done", "known"}
        BY <2>0, <2>3 DEF AskAllowed, AskRules, AskLabels
      <3> QED BY <3>1 DEF StepsLeft
    <2>4. CASE AskKnown(u) \/ Decide(u)
      <3>1. \/ At(u) = "known" /\ At(u)' \in {"done", "cached", "disk"}
            \/ At(u) = "kept" /\ At(u)' \in {"done", "cached"}
        BY <2>0, <2>4 DEF AskKnown, Decide, AskLabels
      <3> QED BY <3>1 DEF StepsLeft
    <2>5. CASE AskDisk(u)
      <3>1. At(u) = "disk" /\ At(u)' = "keep"
        BY <1>0, <2>5 DEF AskDisk, At, Queries
      <3> QED BY <3>1 DEF StepsLeft
    <2> QED BY <1>9, <2>1, <2>2, <2>3, <2>4, <2>5 DEF AskStep
  <1>10. CASE KeepVerdict(u)
    BY <1>10, KeepDecides DEF StepsLeft
  <1>5. CASE AskCache(u)
    <2>1. At(u) = "cached" /\ At(u)' \in {"done", "forward"}
      BY <1>1, <1>2, <1>5 DEF AskCache
    <2> QED BY <2>1 DEF StepsLeft
  <1>6. CASE Forward(u)
    <2>1. \A a : Arrive(u, a) => At(u)' = "arrived"
      BY <1>0 DEF Arrive, At, Queries
    <2>2. At(u) = "forward" /\ At(u)' \in {"done", "arrived"}
      BY <1>2, <1>6, <2>1 DEF Forward
    <2> QED BY <2>2 DEF StepsLeft
  <1>7. CASE TakeAnswer(u)
    <2>1. At(u) = "arrived" /\ At(u)' = "done"
      BY <1>1, <1>2, <1>7 DEF TakeAnswer
    <2> QED BY <2>1 DEF StepsLeft
  <1>8. CASE Finish(u)
    <2>1. At(u) = "done" /\ At(u)' = "idle"
      BY <1>0, <1>8, IdleRests DEF Finish
    <2> QED BY <2>1 DEF StepsLeft
  <1> QED BY <1>3, <1>4, <1>5, <1>6, <1>7, <1>8, <1>9, <1>10 DEF HandlerStep, AskStep

\* What is not a step of u leaves it where it is, or finds it idle.
LEMMA OthersLeaveIt ==
  ASSUME DecideInv, [QueryNext]_queryVars, NEW u \in Handlers, ~HandlerStep(u)
  PROVE  At(u)' = At(u) \/ (At(u) = "idle" /\ At(u)' \in {"count", "scan"})
  <1>0. QueriesFit /\ call \in [Handlers -> Queries] /\ call[u] \in Queries
    BY DEF DecideInv, QueriesFit
  <1>1. ASSUME NEW v \in Handlers, NEW s \in Sources, NEW n \in Names, Receive(v, s, n)
        PROVE  At(u)' = At(u) \/ (At(u) = "idle" /\ At(u)' \in {"count", "scan"})
    <2>1. CASE v = u
      <3> DEFINE q == [Idle EXCEPT !.pc = "count", !.src = s, !.name = n, !.kind = KindOf[n],
                                   !.held = Facts[s][n]]
      <3>1. q.pc = "count"
        BY DEF Idle
      <3>2. At(u) = "idle" /\ call' = [call EXCEPT ![u] = q]
        BY <1>1, <2>1 DEF Receive
      <3> HIDE DEF q
      <3> QED BY <1>0, <3>1, <3>2 DEF At
    <2>2. CASE v # u
      BY <1>1, <2>2, ReceiveDecides DEF OtherCallsSame, At
    <2> QED BY <2>1, <2>2
  <1>2. ASSUME NEW v \in Handlers \ {u}, HandlerStep(v)
        PROVE  At(u)' = At(u)
    <2>1. CASE KeepVerdict(v)
      BY <1>2, <2>1, KeepDecides
    <2>2. CASE ~KeepVerdict(v)
      BY <1>0, <1>2, <2>2, HandlerMoves DEF CallFits, OtherCallsSame, At
    <2> QED BY <2>1, <2>2
  <1>3. CASE Minute \/ OperatorOfDevices \/ ListsChange \/ PolicyChanges
    <2>1. StillHeld
      BY <1>3 DEF Minute, OperatorOfDevices, ListsChange, PolicyChanges
    <2> QED BY <1>0, <2>1, HoldingKeeps DEF StillHeld, At
  <1>4. CASE OperatorOfIds
    <2>1. ASSUME NEW v \in Handlers, NEW s \in Askers, NEW p \in Ports, Probe(v, s, p)
          PROVE  At(u)' = At(u) \/ (At(u) = "idle" /\ At(u)' \in {"count", "scan"})
      <3>1. CASE call' = call
        BY <3>1 DEF At
      <3>2. CASE call' = [call EXCEPT ![v].pc = "scan", ![v].src = s, ![v].at = clock,
                                      ![v].offence = "scan"]
        <4>1. CASE v = u
          <5>1. At(u) = "idle"
            BY <2>1, <4>1 DEF Probe
          <5>2. call'[u].pc = "scan"
            BY <1>0, <3>2, <4>1 DEF Queries
          <5> QED BY <5>1, <5>2 DEF At
        <4>2. CASE v # u
          BY <1>0, <3>2, <4>2 DEF At
        <4> QED BY <4>1, <4>2
      <3> QED BY <2>1, <3>1, <3>2 DEF Probe
    <2>2. CASE ToggleDetection \/ ToggleAutoBlock \/ ClearIncidents
      BY <2>2 DEF ToggleDetection, ToggleAutoBlock, ClearIncidents, At
    <2> QED BY <1>4, <2>1, <2>2 DEF OperatorOfIds
  <1>5. CASE Upstreams \/ UNCHANGED queryVars
    BY <1>5 DEF Upstreams, queryVars, engineVars, At
  <1> QED BY <1>1, <1>2, <1>3, <1>4, <1>5 DEF QueryNext

\* A packet costs a handler 21 steps at most, whatever other handlers, the
\* operator and the upstreams do: no step goes back, and none waits for another
\* handler's to count.  With QueryFairness that gives the permit back
\* (PermitReturns; dns/mod.rs: handle_dns_packet has no loop of its own).
THEOREM HandlersFinish == QuerySpec => [][\A u \in Handlers : HandlerAdvances(u)]_queryVars
  <1>1. DecideInv /\ [QueryNext]_queryVars => DecideInv'
    BY QueryStep
  <1>2. ASSUME DecideInv, [QueryNext]_queryVars, NEW u \in Handlers
        PROVE  HandlerAdvances(u)
    BY <1>2, HandlerStepAdvances, OthersLeaveIt DEF HandlerAdvances, DecideInv
  <1>3. DecideInv /\ [QueryNext]_queryVars => [\A u \in Handlers : HandlerAdvances(u)]_queryVars
    BY <1>2
  <1> QED BY <1>1, <1>3, QueryInitDecides, PTL DEF QuerySpec

-----------------------------------------------------------------------------
(***************************************************************************)
(* The histories of the detectors                                          *)
(***************************************************************************)
Histories == [Sources -> Seq(Instants)]

\* A flood from ever new sources costs a bounded memory: MaxTracked histories
\* and the one being counted, each within its limit or cut to the last few.
HistoriesBounded ==
  /\ Cardinality(Tracked(hardHistory)) <= MaxTracked + 1
  /\ Cardinality(Tracked(history)) <= MaxTracked + 1
  /\ \A s \in Sources :
       /\ Len(hardHistory[s]) <= HardLimit[s] \/ Len(hardHistory[s]) <= Keep
       /\ Len(history[s]) <= FloodLimit \/ Len(history[s]) <= Keep

LEMMA SameAgain ==
  ASSUME NEW S, NEW c \in S, NEW n \in Nat
  PROVE  [i \in 1 .. n |-> c] \in Seq(S)
  OBVIOUS

LEMMA FreshFits ==
  ASSUME NEW h \in Histories, NEW s \in Sources, clock \in Instants
  PROVE  Fresh(s, h) \in Seq(Instants)
  <1> DEFINE kept == {i \in DOMAIN h[s] : h[s][i] = clock}
  <1>1. DOMAIN h[s] = 1 .. Len(h[s]) /\ Len(h[s]) \in Nat
    BY DEF Histories
  <1>2. IsFiniteSet(kept)
    <2>1. IsFiniteSet(1 .. Len(h[s])) /\ kept \subseteq 1 .. Len(h[s])
      BY <1>1, FS_Interval
    <2> QED BY <2>1, FS_Subset
  <1>3. Cardinality(kept) \in Nat
    BY <1>2, FS_CardinalityType
  <1>4. Fresh(s, h) = [i \in 1 .. Cardinality(kept) |-> clock]
    BY DEF Fresh
  <1> QED BY <1>3, <1>4, SameAgain

\* A query of s is counted: s has a history within the limit, or the last few.
LEMMA CountedFits ==
  ASSUME NEW h \in Histories, NEW s, NEW limit, s \in Sources => limit \in Nat, clock \in Instants
  PROVE  /\ Counted(h, s, limit) \in Histories
         /\ \A a \in Sources \ {s} : Counted(h, s, limit)[a] = h[a]
         /\ s \in Sources => \/ Len(Counted(h, s, limit)[s]) <= limit
                             \/ Len(Counted(h, s, limit)[s]) <= Keep
  <1> DEFINE n == Append(Fresh(s, h), clock)
             m == IF Len(n) > limit /\ Len(n) > Keep
                  THEN SubSeq(n, Len(n) - Keep + 1, Len(n)) ELSE n
  <1>1. Counted(h, s, limit) = [h EXCEPT ![s] = m]
    BY DEF Counted
  <1>2. CASE s \notin Sources
    BY <1>1, <1>2 DEF Histories
  <1>3. CASE s \in Sources
    <2>1. n \in Seq(Instants) /\ Len(n) \in Nat
      BY <1>3, FreshFits
    <2>2. Keep \in Nat /\ limit \in Nat
      BY <1>3, EngineAssumption
    <2> HIDE DEF n
    <2>3. CASE Len(n) > limit /\ Len(n) > Keep
      <3>1. m = SubSeq(n, Len(n) - Keep + 1, Len(n))
        BY <2>3
      <3>2. \A i \in Len(n) - Keep + 1 .. Len(n) : i \in 1 .. Len(n)
        BY <2>1, <2>2, <2>3
      <3>3. \A i \in Len(n) - Keep + 1 .. Len(n) : n[i] \in Instants
        BY <2>1, <3>2
      <3>4. m \in Seq(Instants) /\ Len(m) = IF Len(n) - Keep + 1 <= Len(n)
                                           THEN Len(n) - (Len(n) - Keep + 1) + 1 ELSE 0
        BY <2>1, <2>2, <2>3, <3>1, <3>3
      <3>5. Len(m) <= Keep
        BY <2>1, <2>2, <3>4
      <3> HIDE DEF m
      <3> QED BY <1>1, <1>3, <3>4, <3>5 DEF Histories
    <2>4. CASE ~(Len(n) > limit /\ Len(n) > Keep)
      <3>1. m = n
        BY <2>4
      <3>2. Len(m) <= limit \/ Len(m) <= Keep
        BY <2>1, <2>2, <2>4, <3>1
      <3> HIDE DEF m
      <3> QED BY <1>1, <1>3, <2>1, <3>1, <3>2 DEF Histories
    <2> QED BY <2>3, <2>4
  <1> QED BY <1>2, <1>3

\* What is left of the histories when there are too many.
LEMMA TrimmedFits ==
  ASSUME NEW h \in Histories, NEW left \in Trimmed(h)
  PROVE  left \in Histories /\ \A s \in Sources : left[s] \in {<<>>, h[s]}
  <1> DEFINE Without(gone) == [s \in Sources |-> IF s \in gone THEN <<>> ELSE h[s]]
  <1>1. left = h \/ \E gone : left = Without(gone)
    BY DEF Trimmed
  <1>2. <<>> \in Seq(Instants)
    OBVIOUS
  <1> QED BY <1>1, <1>2 DEF Histories

LEMMA TrimmedLeavesRoom ==
  ASSUME NEW h \in Histories, Cardinality(Tracked(h)) <= MaxTracked + 1, NEW left \in Trimmed(h)
  PROVE  Cardinality(Tracked(left)) <= MaxTracked
  <1> DEFINE live == {s \in Tracked(h) : Latest(h, s) = clock}
             Without(gone) == [s \in Sources |-> IF s \in gone THEN <<>> ELSE h[s]]
  <1>1. IsFiniteSet(Tracked(h)) /\ live \subseteq Tracked(h)
    BY DeviceAssumption, FS_Subset DEF Tracked
  <1>2. IsFiniteSet(live) /\ Cardinality(live) <= Cardinality(Tracked(h))
    BY <1>1, FS_Subset
  <1>3. Cardinality(live) \in Nat /\ Cardinality(Tracked(h)) \in Nat
    BY <1>1, <1>2, FS_CardinalityType
  <1>4. MaxTracked \in Nat /\ Drop \in 1 .. MaxTracked
    BY EngineAssumption
  <1>5. \A gone : Tracked(Without(gone)) = Tracked(h) \ gone
    BY DEF Tracked
  <1>6. CASE Cardinality(Tracked(h)) <= MaxTracked
    <2>1. Trimmed(h) = {h}
      BY <1>6 DEF Trimmed
    <2> QED BY <1>6, <2>1
  <1>7. CASE /\ Cardinality(Tracked(h)) > MaxTracked
             /\ Cardinality(live) <= MaxTracked \/ Cardinality(live) <= Drop
    <2>1. left = Without(Tracked(h) \ live)
      BY <1>3, <1>4, <1>7 DEF Trimmed
    <2>2. Tracked(left) = live
      BY <1>1, <1>5, <2>1
    <2> HIDE DEF live
    <2> QED BY <1>3, <1>4, <1>7, <2>2
  <1>8. CASE /\ Cardinality(Tracked(h)) > MaxTracked
             /\ Cardinality(live) > MaxTracked /\ Cardinality(live) > Drop
    <2>1. PICK d \in SUBSET live : /\ Cardinality(d) = Drop
                                   /\ left = Without(d \union (Tracked(h) \ live))
      BY <1>3, <1>4, <1>8 DEF Trimmed
    <2>2. Tracked(left) = live \ d
      <3>1. Tracked(left) = Tracked(h) \ (d \union (Tracked(h) \ live))
        BY <1>5, <2>1
      <3> HIDE DEF live
      <3> QED BY <1>1, <3>1
    <2> HIDE DEF live
    <2>3. IsFiniteSet(d) /\ live \intersect d = d
      BY <1>2, <2>1, FS_Subset
    <2>4. Cardinality(live \ d) = Cardinality(live) - Cardinality(d)
      BY <1>2, <2>3, FS_Difference
    <2> QED BY <1>2, <1>3, <1>4, <2>1, <2>2, <2>4
  <1> QED BY <1>3, <1>4, <1>6, <1>7, <1>8

\* Counting a query of any source keeps the histories within their number and
\* their lengths.
LEMMA CountingFits ==
  ASSUME NEW h \in Histories, NEW s \in Sources \union {"nobody"},
         NEW limit \in [Sources -> Nat], clock \in Instants, NEW left \in Trimmed(h)
  PROVE  LET after == Counted(left, s, limit[s]) IN
         /\ after \in Histories
         /\ Cardinality(Tracked(h)) <= MaxTracked + 1
              => Cardinality(Tracked(after)) <= MaxTracked + 1
         /\ (\A a \in Sources : Len(h[a]) <= limit[a] \/ Len(h[a]) <= Keep) =>
              \A a \in Sources : Len(after[a]) <= limit[a] \/ Len(after[a]) <= Keep
  <1> DEFINE after == Counted(left, s, limit[s])
  <1>1. left \in Histories /\ \A a \in Sources : left[a] \in {<<>>, h[a]}
    BY TrimmedFits
  <1>2. /\ after \in Histories
        /\ \A a \in Sources \ {s} : after[a] = left[a]
        /\ s \in Sources => Len(after[s]) <= limit[s] \/ Len(after[s]) <= Keep
    BY <1>1, CountedFits
  <1> HIDE DEF after
  <1>3. ASSUME Cardinality(Tracked(h)) <= MaxTracked + 1
        PROVE  Cardinality(Tracked(after)) <= MaxTracked + 1
    <2>1. Cardinality(Tracked(left)) <= MaxTracked /\ MaxTracked \in Nat
      BY <1>3, TrimmedLeavesRoom, EngineAssumption
    <2>2. IsFiniteSet(Tracked(left))
      BY DeviceAssumption, FS_Subset DEF Tracked
    <2>3. Tracked(after) \subseteq Tracked(left) \union {s}
      BY <1>2 DEF Tracked
    <2>4. /\ IsFiniteSet(Tracked(left) \union {s})
          /\ Cardinality(Tracked(left) \union {s}) <= Cardinality(Tracked(left)) + 1
          /\ Cardinality(Tracked(left)) \in Nat
      <3>1. Cardinality(Tracked(left)) \in Nat
        BY <2>2, FS_CardinalityType
      <3> QED BY <2>2, <3>1, FS_AddElement
    <2>5. Cardinality(Tracked(after)) <= Cardinality(Tracked(left) \union {s})
      BY <2>3, <2>4, FS_Subset
    <2>6. Cardinality(Tracked(after)) \in Nat /\ Cardinality(Tracked(left) \union {s}) \in Nat
      BY <2>3, <2>4, FS_Subset, FS_CardinalityType
    <2> QED BY <2>1, <2>4, <2>5, <2>6
  <1>4. ASSUME \A a \in Sources : Len(h[a]) <= limit[a] \/ Len(h[a]) <= Keep, NEW a \in Sources
        PROVE  Len(after[a]) <= limit[a] \/ Len(after[a]) <= Keep
    <2>1. CASE a = s
      BY <1>2, <2>1
    <2>2. CASE a # s
      <3>1. after[a] = <<>> \/ after[a] = h[a]
        BY <1>1, <1>2, <2>2
      <3>2. Len(<<>>) = 0 /\ limit[a] \in Nat
        OBVIOUS
      <3> QED BY <1>4, <3>1, <3>2
    <2> QED BY <2>1, <2>2
  <1> QED BY <1>2, <1>3, <1>4 DEF after

-----------------------------------------------------------------------------
(***************************************************************************)
(* The types of the server                                                 *)
(***************************************************************************)
Moments == Instants \union {Never}
Stored == [answer : Answers \union {"nothing"}, at : Moments]

\* What QueryTypeOK says of the engine's own variables.
EngineFits ==
  /\ clock \in Instants /\ detection \in BOOLEAN
  /\ hardHistory \in Histories /\ history \in Histories
  /\ hardAlert \in [Sources -> Moments] /\ floodAlert \in [Sources -> Moments]
  /\ scanAlert \in [Sources -> Moments]
  /\ probes \in [Sources -> SUBSET (Ports \X Instants)]
  /\ incidents \in 0 .. LogCap

\* Of the instants and the answers the handlers hold.
HandsFit ==
  \A u \in Handlers :
    /\ call[u].at \in Moments
    /\ At(u) = "arrived" => call[u].reply \in Answers

\* And of the server's.
ServerFits ==
  /\ packets \in 0 .. MaxQueries /\ total \in Nat /\ refused \in Nat /\ passed \in Nat
  /\ denied \subseteq Names /\ custom \subseteq Names /\ allowed \subseteq Names
  /\ verdicts \in [Names -> Verdicts]
  /\ paused \in BOOLEAN /\ online \in BOOLEAN
  /\ mode \in [Sources -> Modes]
  /\ cache \in [Names -> Stored]

QueryInv ==
  DecideInv /\ DevicesTypeOK /\ EngineFits /\ HandsFit /\ ServerFits /\ HistoriesBounded

LEMMA MomentsAre == clock \in Instants => clock \in Moments /\ Never \in Moments
  BY DEF Moments

LEMMA RecordedFits == incidents \in 0 .. LogCap => Recorded \in 0 .. LogCap /\ 0 \in 0 .. LogCap
  BY EngineAssumption DEF Recorded

\* The steps of the engine, for its own variables.
LEMMA EngineTyped ==
  ASSUME QueriesFit, EngineFits, HandsFit, HistoriesBounded, NEW u \in Handlers, EngineStep(u)
  PROVE  EngineFits' /\ HistoriesBounded'
  <1>0. /\ Src(u) \in Sources \union {"nobody"} /\ call[u].at \in Moments
        /\ HardLimit \in [Sources -> Nat] /\ FloodLimit \in Nat
    BY EngineAssumption DEF QueriesFit, Queries, Src, HandsFit
  <1>1. ASSUME UNCHANGED <<hardHistory, history>> PROVE HistoriesBounded'
    BY <1>1 DEF HistoriesBounded
  <1>2. CASE CountQuery(u)
    <2>1. PICK h \in Trimmed(hardHistory) : hardHistory' = Counted(h, Src(u), HardLimit[Src(u)])
      BY <1>2 DEF CountQuery
    <2>2. /\ UNCHANGED <<clock, detection, history, hardAlert, floodAlert, scanAlert>>
          /\ UNCHANGED <<probes, incidents>>
      BY <1>2 DEF CountQuery, scans
    <2>3. /\ hardHistory' \in Histories /\ Cardinality(Tracked(hardHistory')) <= MaxTracked + 1
          /\ \A a \in Sources :
               Len(hardHistory'[a]) <= HardLimit[a] \/ Len(hardHistory'[a]) <= Keep
      BY <1>0, <2>1, CountingFits DEF EngineFits, HistoriesBounded
    <2> QED BY <2>2, <2>3 DEF EngineFits, HistoriesBounded
  <1>3. CASE InspectQuery(u)
    <2>1. /\ UNCHANGED <<clock, detection, hardHistory, hardAlert, floodAlert, scanAlert>>
          /\ UNCHANGED <<probes, incidents>>
      BY <1>3 DEF InspectQuery, scans
    <2>2. CASE ~detection
      BY <1>1, <1>3, <2>1, <2>2 DEF InspectQuery, EngineFits
    <2>3. CASE detection
      <3> DEFINE limit == [a \in Sources |-> FloodLimit]
      <3>1. PICK h \in Trimmed(history) : history' = Counted(h, Src(u), FloodLimit)
        BY <1>3, <2>3 DEF InspectQuery
      <3>2. Counted(h, Src(u), limit[Src(u)]) = Counted(h, Src(u), FloodLimit)
        <4>1. h \in Histories
          BY <3>1, TrimmedFits DEF EngineFits
        <4>2. CASE Src(u) \in Sources
          <5>1. limit[Src(u)] = FloodLimit
            BY <4>2
          <5> QED BY <5>1
        <4>3. CASE Src(u) \notin Sources
          BY <4>1, <4>3 DEF Histories, Counted
        <4> QED BY <4>2, <4>3
      <3>3. limit \in [Sources -> Nat] /\ \A a \in Sources : limit[a] = FloodLimit
        BY <1>0
      <3> HIDE DEF limit
      <3>4. /\ history' = Counted(h, Src(u), limit[Src(u)]) /\ history \in Histories
            /\ Cardinality(Tracked(history)) <= MaxTracked + 1 /\ clock \in Instants
            /\ \A a \in Sources : Len(history[a]) <= limit[a] \/ Len(history[a]) <= Keep
        BY <3>1, <3>2, <3>3 DEF EngineFits, HistoriesBounded
      <3>5. /\ history' \in Histories /\ Cardinality(Tracked(history')) <= MaxTracked + 1
            /\ \A a \in Sources : Len(history'[a]) <= limit[a] \/ Len(history'[a]) <= Keep
        BY <1>0, <3>1, <3>3, <3>4, CountingFits
      <3> QED BY <2>1, <3>3, <3>5 DEF EngineFits, HistoriesBounded
    <2> QED BY <2>2, <2>3
  <1>4. CASE RaiseHardAlert(u) \/ RaiseFloodAlert(u) \/ RaiseScanAlert(u)
    <2>1. /\ hardAlert' = hardAlert \/ hardAlert' = [hardAlert EXCEPT ![Src(u)] = call[u].at]
          /\ floodAlert' = floodAlert \/ floodAlert' = [floodAlert EXCEPT ![Src(u)] = call[u].at]
          /\ scanAlert' = scanAlert \/ scanAlert' = [scanAlert EXCEPT ![Src(u)] = call[u].at]
          /\ UNCHANGED <<clock, detection, hardHistory, history, probes, incidents>>
      BY <1>4 DEF RaiseHardAlert, RaiseFloodAlert, RaiseScanAlert, limits, scans
    <2>2. /\ hardAlert' \in [Sources -> Moments] /\ floodAlert' \in [Sources -> Moments]
          /\ scanAlert' \in [Sources -> Moments]
      BY <1>0, <2>1 DEF EngineFits
    <2> QED BY <1>1, <2>1, <2>2 DEF EngineFits
  <1>5. CASE \/ IsolateSource(u) \/ Screen(u) \/ Expire(u) \/ Punish(u) \/ PunishScan(u)
             \/ RecordIncident(u)
    <2>1. /\ incidents' \in {incidents, Recorded}
          /\ UNCHANGED <<clock, detection, limits, scans>>
      BY <1>5 DEF IsolateSource, Screen, Expire, Punish, PunishScan, RecordIncident
    <2> QED BY <1>1, <2>1, RecordedFits DEF EngineFits, limits, scans
  <1> QED BY <1>2, <1>3, <1>4, <1>5 DEF EngineStep

\* And for what its callers hold.
LEMMA EngineHands ==
  ASSUME QueriesFit, EngineFits, HandsFit, NEW u \in Handlers, EngineStep(u)
  PROVE  HandsFit'
  <1>0. call \in [Handlers -> Queries] /\ Never \in Moments /\ clock \in Moments
    BY MomentsAre DEF QueriesFit, EngineFits
  <1>1. OtherCallsSame(u) /\ At(u)' # "arrived"
    <2>1. CallFits(u) /\ (call'[u] = Idle \/ At(u)' \in Early \union Middle \union {"screened"})
      BY EngineMoves
    <2> QED BY <2>1, IdleRests DEF CallFits, Early, Middle
  <1>2. call'[u].at \in {call[u].at, clock, Never}
    <2>1. CASE CountQuery(u)
      BY <1>0, <2>1 DEF CountQuery, Queries
    <2>2. CASE InspectQuery(u)
      <3>1. CASE ~detection
        BY <1>0, <2>2, <3>1 DEF InspectQuery, Queries
      <3>2. CASE detection
        <4>1. \E label, o : call' = [call EXCEPT ![u].pc = label, ![u].at = clock,
                                  ![u].ips = autoBlock, ![u].incident = FALSE, ![u].offence = o]
          BY <2>2, <3>2 DEF InspectQuery
        <4> QED BY <1>0, <4>1 DEF Queries
      <3> QED BY <3>1, <3>2
    <2>3. CASE RecordIncident(u)
      BY <1>0, <2>3 DEF RecordIncident, Queries, Leave, Idle
    <2>4. CASE ~(CountQuery(u) \/ InspectQuery(u) \/ RecordIncident(u))
      <3>1. Leave(u) \/ \E label \in HandlerLabels : Goto(u, label)
        BY <2>4, LabelsKnown DEF EngineStep, RaiseHardAlert, IsolateSource, Screen, Expire,
          RaiseFloodAlert, Punish, RaiseScanAlert, PunishScan, Early, Middle
      <3> QED BY <1>0, <3>1 DEF Leave, Goto, Queries, Idle
    <2> QED BY <2>1, <2>2, <2>3, <2>4
  <1> QED BY <1>0, <1>1, <1>2 DEF HandsFit, OtherCallsSame, At

\* The steps of the server for what the handlers hold.
LEMMA ServerHands ==
  ASSUME QueriesFit, EngineFits, HandsFit, ServerFits, NEW u \in Handlers,
         HandlerStep(u), ~EngineWorks(u), ~KeepVerdict(u)
  PROVE  /\ HandsFit' /\ ServerFits' /\ incidents' \in 0 .. LogCap
         /\ UNCHANGED <<deviceVars, clock, detection, limits, scans>>
  <1>0. /\ call \in [Handlers -> Queries] /\ call[u].at \in Moments /\ Never \in Moments
        /\ clock \in Moments /\ Recorded \in 0 .. LogCap
    BY MomentsAre, RecordedFits DEF QueriesFit, EngineFits, HandsFit
  <1>x. \/ CheckQuarantine(u) \/ Judge(u) \/ AskStep(u)
        \/ AskCache(u) \/ Forward(u) \/ TakeAnswer(u) \/ Finish(u)
    BY DEF HandlerStep, AskStep
  <1>1. /\ UNCHANGED <<deviceVars, clock, detection, limits, scans, policy, verdicts>>
        /\ UNCHANGED <<online, packets>> /\ incidents' \in {incidents, Recorded}
        /\ total' \in {total, total + 1} /\ refused' \in {refused, refused + 1}
        /\ passed' \in {passed, passed + 1}
    <2>1. CASE AskStep(u)
      BY <2>1 DEF AskStep, AskPause, AskMode, AskAllowed, AskRules, AskKnown, AskDisk, Decide,
        Asking, Sink, Pass, AskOn, Stay, Quiet
    <2>2. CASE ~AskStep(u)
      BY <1>x, <2>2 DEF CheckQuarantine, Judge, AskCache, Forward, TakeAnswer, Finish,
        Stay, Quiet, counters, RecordRebinding
    <2> QED BY <2>1, <2>2
  <1>2. cache' \in [Names -> Stored]
    <2>1. CASE TakeAnswer(u)
      <3>1. At(u) = "arrived" /\ call[u].reply \in Answers
        BY <2>1 DEF TakeAnswer, HandsFit
      <3>2. [answer |-> call[u].reply, at |-> clock] \in Stored
        BY <1>0, <3>1 DEF Stored
      <3>3. cache' = cache \/ cache' = Storing(call[u].name, call[u].reply)
        BY <2>1 DEF TakeAnswer
      <3> QED BY <3>2, <3>3 DEF Storing, ServerFits
    <2>2. CASE ~TakeAnswer(u)
      BY <1>x, <2>2 DEF CheckQuarantine, Judge, AskStep, AskPause, AskMode, AskAllowed, AskRules,
        AskKnown, AskDisk, Decide, Asking, AskCache, Forward, Finish, Stay, Quiet, ServerFits
    <2> QED BY <2>1, <2>2
  <1>3. HandsFit'
    <2> DEFINE On == {"inspect", "verdict", "mode", "allow", "rules", "known", "disk", "cached",
                      "forward", "done"}
    <2>1. \/ call' = [call EXCEPT ![u] = Idle]
          \/ \E label \in On : Goto(u, label)
          \/ \E answer : ReplyWith(u, answer)
          \/ \E a \in Answers : Arrive(u, a)
          \/ \E reply : call' = [call EXCEPT ![u].pc = "keep", ![u].reply = reply]
      <3>1. CASE AskStep(u)
        BY <3>1 DEF AskStep, AskPause, AskMode, AskAllowed, AskRules, AskKnown, AskDisk, Decide,
          Sink, Pass, AskOn
      <3>2. CASE ~AskStep(u)
        BY <1>x, <3>2 DEF CheckQuarantine, Judge, AskCache, Forward, TakeAnswer, Finish
      <3> QED BY <3>1, <3>2
    <2>6. ASSUME NEW reply, call' = [call EXCEPT ![u].pc = "keep", ![u].reply = reply]
          PROVE  HandsFit'
      BY <1>0, <2>6 DEF HandsFit, At, Queries
    <2>2. CASE call' = [call EXCEPT ![u] = Idle]
      BY <1>0, <2>2 DEF HandsFit, At, Idle
    <2>3. ASSUME NEW label \in On, Goto(u, label)
          PROVE  HandsFit'
      BY <1>0, <2>3 DEF HandsFit, At, Goto, Queries
    <2>4. ASSUME NEW answer, ReplyWith(u, answer)
          PROVE  HandsFit'
      BY <1>0, <2>4 DEF HandsFit, At, ReplyWith, Queries
    <2>5. ASSUME NEW a \in Answers, Arrive(u, a)
          PROVE  HandsFit'
      BY <1>0, <2>5 DEF HandsFit, At, Arrive, Queries
    <2> QED BY <2>1, <2>2, <2>3, <2>4, <2>5, <2>6
  <1>4. ServerFits'
    BY <1>1, <1>2 DEF ServerFits, policy
  <1> QED BY <1>0, <1>1, <1>3, <1>4 DEF EngineFits

\* A verdict that is remembered, for what the handlers hold.
LEMMA KeepHands ==
  ASSUME DecideInv, EngineFits, HandsFit, ServerFits, NEW u \in Handlers, KeepVerdict(u)
  PROVE  HandsFit' /\ ServerFits' /\ EngineFits' /\ UNCHANGED limits
  <1>1. UNCHANGED <<clock, detection, limits, scans, incidents, counters, policy, cache, online>>
    BY DEF KeepVerdict
  <1>2. verdicts' \in [Names -> Verdicts]
    BY DEF KeepVerdict, ServerFits, Verdicts
  <1>3. ServerFits' /\ EngineFits'
    BY <1>1, <1>2 DEF ServerFits, EngineFits, counters, policy, limits, scans
  <1>4. HandsFit'
    <2> SUFFICES ASSUME NEW v \in Handlers
                 PROVE  /\ call'[v].at \in Moments
                        /\ At(v)' = "arrived" => call'[v].reply \in Answers
      BY DEF HandsFit
    <2>1. /\ call'[v].at = call[v].at /\ call'[v].reply = call[v].reply
          /\ At(v)' = "arrived" => At(v) = "arrived"
      <3>1. CASE v = u
        BY <3>1, KeepDecides
      <3>2. CASE v # u
        BY <3>2, KeepDecides
      <3> QED BY <3>1, <3>2
    <2> QED BY <2>1 DEF HandsFit
  <1> QED BY <1>1, <1>3, <1>4

\* A step around the handlers keeps what they hold.
LEMMA HeldHands ==
  ASSUME QueriesFit, HandsFit, StillHeld \/ call' = call
  PROVE  HandsFit'
  BY HoldingKeeps DEF QueriesFit, HandsFit, StillHeld, At

LEMMA DevicesTyped ==
  ASSUME DevicesTypeOK, [DevicesNext]_deviceVars
  PROVE  DevicesTypeOK'
  <1> USE DEF DevicesTypeOK
  <1>1. ASSUME NEW i \in Inventories, UpdateInventory(i.seen, i.selves, i.gates)
        PROVE  DevicesTypeOK'
    <2>1. i.seen \in Observations /\ i.selves \subseteq Sources /\ i.gates \subseteq Sources
      BY DeviceAssumption
    <2>2. entries' \in Observations
      BY <1>1 DEF UpdateInventory, Observations
    <2> QED BY <1>1, <2>1, <2>2 DEF UpdateInventory, Ages
  <1>2. ASSUME NEW s \in Sources, QuarantineIp(s) \/ UnquarantineIp(s)
        PROVE  DevicesTypeOK'
    BY <1>2 DEF QuarantineIp, UnquarantineIp, Observations
  <1>3. CASE InventoryAges \/ UNCHANGED deviceVars
    BY <1>3 DEF InventoryAges, Ages, deviceVars
  <1> QED BY <1>1, <1>2, <1>3 DEF DevicesNext

LEMMA QueryTypeStep ==
  ASSUME QueryInv, [QueryNext]_queryVars
  PROVE  QueryInv'
  <1>0. DecideInv' /\ DevicesTypeOK'
    BY QueryStep, QueryStepIsDeviceStep, DevicesTyped DEF QueryInv
  <1> SUFFICES EngineFits' /\ HandsFit' /\ ServerFits' /\ HistoriesBounded'
    BY <1>0 DEF QueryInv
  <1>a. QueriesFit /\ EngineFits /\ HandsFit /\ ServerFits /\ HistoriesBounded
    BY DEF QueryInv, DecideInv
  <1>b. ASSUME UNCHANGED <<hardHistory, history>> PROVE HistoriesBounded'
    BY <1>a, <1>b DEF HistoriesBounded
  <1>1. ASSUME NEW u \in Handlers, HandlerStep(u)
        PROVE  EngineFits' /\ HandsFit' /\ ServerFits' /\ HistoriesBounded'
    <2>1. CASE EngineWorks(u)
      <3>1. EngineFits' /\ HistoriesBounded' /\ HandsFit'
        BY <1>a, <2>1, EngineTyped, EngineHands DEF EngineWorks
      <3>2. ServerFits'
        BY <1>a, <2>1 DEF EngineWorks, ServerFits, counters, policy
      <3> QED BY <3>1, <3>2
    <2>2. CASE KeepVerdict(u)
      BY <1>a, <1>b, <2>2, KeepHands DEF QueryInv, limits
    <2>3. CASE ~EngineWorks(u) /\ ~KeepVerdict(u)
      BY <1>a, <1>b, <1>1, <2>3, ServerHands DEF EngineFits, limits, scans
    <2> QED BY <2>1, <2>2, <2>3
  <1>2. ASSUME NEW u \in Handlers, NEW s \in Sources, NEW n \in Names, Receive(u, s, n)
        PROVE  EngineFits' /\ HandsFit' /\ ServerFits' /\ HistoriesBounded'
    <2>1. /\ UNCHANGED <<clock, detection, limits, scans, policy, verdicts, online, incidents>>
          /\ UNCHANGED <<total, refused, passed, cache>>
          /\ packets < MaxQueries /\ packets' = packets + 1
          /\ call' = [call EXCEPT ![u] = [Idle EXCEPT !.pc = "count", !.src = s, !.name = n,
                                                     !.kind = KindOf[n], !.held = Facts[s][n]]]
      BY <1>2 DEF Receive, Stay, Quiet
    <2>2. EngineFits' /\ HistoriesBounded'
      BY <1>a, <1>b, <2>1 DEF EngineFits, limits, scans
    <2>3. packets' \in 0 .. MaxQueries
      BY <1>a, <2>1, QueryAssumption DEF ServerFits
    <2>4. ServerFits'
      BY <1>a, <2>1, <2>3 DEF ServerFits, policy
    <2>5. HandsFit'
      BY <1>a, <2>1 DEF QueriesFit, HandsFit, Idle, At, Moments
    <2> QED BY <2>2, <2>4, <2>5
  <1>3. CASE Minute \/ ListsChange \/ PolicyChanges \/ Upstreams \/ OperatorOfDevices
    <2>1. /\ StillHeld \/ call' = call
          /\ UNCHANGED <<detection, limits, scans, counters, cache>>
          /\ clock' \in Instants /\ incidents' \in 0 .. LogCap
      <3>1. CASE Minute
        BY <1>a, <3>1, EngineAssumption DEF Minute, EngineFits, Instants
      <3>2. CASE ~Minute
        BY <1>3, <1>a, <3>2, RecordedFits DEF ListsChange, PolicyChanges, Upstreams,
          OperatorOfDevices, EngineFits, engineVars
      <3> QED BY <3>1, <3>2
    <2>2. HandsFit' /\ EngineFits' /\ HistoriesBounded'
      BY <1>a, <1>b, <2>1, HeldHands DEF EngineFits, limits, scans
    <2>3. /\ denied' \subseteq Names /\ custom' \subseteq Names /\ allowed' \subseteq Names
          /\ verdicts' \in [Names -> Verdicts]
          /\ paused' \in BOOLEAN /\ online' \in BOOLEAN /\ mode' \in [Sources -> Modes]
      <3>1. Asked \subseteq Names /\ Askers \subseteq Sources
        BY QueryAssumption DEF Asked, Askers
      <3>2. CASE ListsChange
        <4>1. /\ denied' \subseteq Names /\ custom' \subseteq Names /\ allowed' \subseteq Names
          BY <1>a, <3>1, <3>2 DEF ListsChange, RuleChanges, ListChanges, LookBelow,
            VerdictsForgotten, Toggled, ServerFits
        <4>2. verdicts' \in [Names -> Verdicts]
          BY <1>a, <3>1, <3>2 DEF ListsChange, RuleChanges, ListChanges, LookBelow,
            VerdictsForgotten, NoVerdicts, Verdicts, ServerFits
        <4>3. UNCHANGED <<paused, mode, online>>
          BY <3>2 DEF ListsChange
        <4> QED BY <1>a, <4>1, <4>2, <4>3 DEF ServerFits
      <3>3. CASE PolicyChanges
        BY <1>a, <3>1, <3>3 DEF PolicyChanges, PauseFilter, ResumeFilter, RemoveClientMode,
          SetClientMode, Modes, ServerFits
      <3>4. CASE Minute \/ OperatorOfDevices \/ Upstreams
        BY <1>a, <3>4 DEF Minute, OperatorOfDevices, Upstreams, policy, ServerFits
      <3> QED BY <1>3, <3>2, <3>3, <3>4
    <2>4. ServerFits'
      BY <1>a, <2>1, <2>3 DEF ServerFits, counters
    <2> QED BY <2>2, <2>4
  <1>4. CASE OperatorOfIds
    <2>1. UNCHANGED <<counters, policy, verdicts, cache, online>>
      BY <1>4 DEF OperatorOfIds
    <2>2. ServerFits'
      BY <1>a, <2>1 DEF ServerFits, counters, policy
    <2>3. CASE ToggleDetection \/ ToggleAutoBlock \/ ClearIncidents
      <3>1. /\ call' = call /\ detection' \in BOOLEAN /\ incidents' \in 0 .. LogCap
            /\ UNCHANGED <<clock, limits, scans>>
        BY <1>a, <2>3, RecordedFits DEF ToggleDetection, ToggleAutoBlock, ClearIncidents, EngineFits
      <3>2. EngineFits' /\ HandsFit' /\ HistoriesBounded'
        BY <1>a, <1>b, <3>1, HeldHands DEF EngineFits, limits, scans
      <3> QED BY <2>2, <3>2
    <2>4. ASSUME NEW u \in Handlers, NEW s \in Askers, NEW p \in Ports, Probe(u, s, p)
          PROVE  EngineFits' /\ HandsFit' /\ ServerFits' /\ HistoriesBounded'
      <3>1. UNCHANGED <<clock, detection, limits, scanAlert, incidents>> /\ At(u) = "idle"
        BY <2>4 DEF Probe
      <3>2. /\ probes' = [probes EXCEPT ![s] = FreshPorts(s) \union {<<p, clock>>}]
            /\ s \in Sources
        BY <2>4, QueryAssumption DEF Probe, Askers
      <3>3. probes' \in [Sources -> SUBSET (Ports \X Instants)]
        BY <1>a, <3>2 DEF EngineFits, FreshPorts
      <3>4. EngineFits' /\ HistoriesBounded'
        BY <1>a, <1>b, <3>1, <3>3 DEF EngineFits, limits
      <3>5. \/ call' = call
            \/ call' = [call EXCEPT ![u].pc = "scan", ![u].src = s, ![u].at = clock,
                                    ![u].offence = "scan"]
        BY <2>4 DEF Probe
      <3>6. HandsFit'
        BY <1>a, <3>5, MomentsAre DEF QueriesFit, Queries, EngineFits, HandsFit, At
      <3> QED BY <2>2, <3>4, <3>6
    <2> QED BY <1>4, <2>3, <2>4 DEF OperatorOfIds
  <1>5. CASE UNCHANGED queryVars
    <2>1. /\ UNCHANGED <<call, clock, detection, limits, scans, incidents, counters, policy>>
          /\ UNCHANGED <<verdicts, cache, online>>
      BY <1>5 DEF queryVars, engineVars
    <2>2. EngineFits' /\ HandsFit' /\ HistoriesBounded'
      BY <1>a, <1>b, <2>1, HeldHands DEF EngineFits, limits, scans
    <2> QED BY <1>a, <2>1, <2>2 DEF ServerFits, counters, policy
  <1> QED BY <1>1, <1>2, <1>3, <1>4, <1>5 DEF QueryNext

LEMMA QueryInitFits == QueryInit => QueryInv
  <1> SUFFICES ASSUME QueryInit PROVE QueryInv
    OBVIOUS
  <1>1. DecideInv /\ DevicesTypeOK
    BY QueryInitDecides DEF QueryInit, DevicesInit, DevicesTypeOK, Observations, Ages
  <1>2. /\ hardHistory = [s \in Sources |-> <<>>] /\ history = [s \in Sources |-> <<>>]
        /\ clock = 0 /\ detection \in BOOLEAN /\ incidents = 0
        /\ hardAlert = [s \in Sources |-> Never] /\ floodAlert = [s \in Sources |-> Never]
        /\ scanAlert = [s \in Sources |-> Never] /\ probes = [s \in Sources |-> {}]
        /\ call = [u \in Handlers |-> Idle]
    BY DEF QueryInit, EngineInit
  <1>3. 0 \in Instants /\ 0 \in 0 .. LogCap /\ Never \in Moments
    BY EngineAssumption DEF Instants, Moments
  <1>4. EngineFits
    <2>1. hardHistory \in Histories /\ history \in Histories
      BY <1>2 DEF Histories
    <2> QED BY <1>2, <1>3, <2>1 DEF EngineFits
  <1>5. HistoriesBounded
    <2>1. Tracked(hardHistory) = {} /\ Tracked(history) = {}
      BY <1>2 DEF Tracked
    <2>2. \A s \in Sources : Len(hardHistory[s]) = 0 /\ Len(history[s]) = 0
      BY <1>2
    <2>3. MaxTracked \in Nat /\ Keep \in Nat
      BY EngineAssumption
    <2> QED BY <2>1, <2>2, <2>3, FS_EmptySet DEF HistoriesBounded
  <1>6. HandsFit
    BY <1>2, <1>3 DEF HandsFit, Idle, At
  <1>7. ServerFits
    <2>1. NoAnswer \in Stored /\ NoVerdicts \in [Names -> Verdicts]
      BY <1>3 DEF NoAnswer, Stored, NoVerdicts, Verdicts
    <2>2. /\ packets = 0 /\ total = 0 /\ refused = 0 /\ passed = 0
          /\ denied \subseteq Names /\ custom \subseteq Names /\ allowed \subseteq Names
          /\ verdicts = NoVerdicts
          /\ paused = FALSE /\ online \in BOOLEAN
          /\ mode \in [Sources -> Modes] /\ cache = [n \in Names |-> NoAnswer]
      BY DEF QueryInit
    <2>3. 0 \in 0 .. MaxQueries
      BY QueryAssumption
    <2> QED BY <2>1, <2>2, <2>3 DEF ServerFits
  <1> QED BY <1>1, <1>4, <1>5, <1>6, <1>7 DEF QueryInv

LEMMA QueryInvHolds == QuerySpec => []QueryInv
  BY QueryInitFits, QueryTypeStep, PTL DEF QuerySpec

\* Every variable of the server and of the engine keeps its type: among other
\* things the incident log stays within its cap, and only the answer of an
\* upstream is ever stored.
THEOREM QueryTypeCorrect == QuerySpec => []QueryTypeOK
  <1>1. QueryInv => QueryTypeOK
    <2> SUFFICES ASSUME QueryInv PROVE QueryTypeOK
      OBVIOUS
    <2>1. /\ DevicesTypeOK /\ clock \in Instants
          /\ {detection, autoBlock, paused, online} \subseteq BOOLEAN
          /\ blocked \in [Sources -> Int]
          /\ \A t \in {hardAlert, floodAlert, scanAlert} :
               t \in [Sources -> Instants \union {Never}]
          /\ probes \in [Sources -> SUBSET (Ports \X Instants)]
          /\ incidents \in 0 .. LogCap
      BY DEF QueryInv, DecideInv, QueriesFit, EngineFits, ServerFits, Moments
    <2>2. \A s \in Sources : {hardHistory[s], history[s]} \subseteq Seq(Instants)
      BY DEF QueryInv, EngineFits, Histories
    <2>3. /\ {total, refused, passed} \subseteq Nat /\ packets \in 0 .. MaxQueries
          /\ {denied, custom, allowed} \subseteq SUBSET Names
          /\ verdicts \in [Names -> Verdicts]
          /\ mode \in [Sources -> Modes]
          /\ cache \in [Names -> [answer : Answers \union {"nothing"},
                                  at : Instants \union {Never}]]
      BY DEF QueryInv, ServerFits, Stored, Moments
    <2>4. call \in [Handlers ->
            [pc : HandlerLabels, src : Sources \union {"nobody"},
             name : Names \union {"nothing"}, kind : Kinds, at : Instants \union {Never},
             ips : BOOLEAN, offence : DOMAIN Lasts \union Kinds, incident : BOOLEAN,
             reply : Replies, held : SUBSET Shields]]
      BY DEF QueryInv, DecideInv, QueriesFit, Queries, HandsFit, Offences, Moments
    <2> QED BY <2>1, <2>2, <2>3, <2>4 DEF QueryTypeOK
  <1> QED BY <1>1, QueryInvHolds, PTL

\* However many sources a flood comes from, the histories of the rate limits
\* and of the flood detector stay within their number and their lengths.
THEOREM MemoryStaysBounded == QuerySpec => []HistoriesBounded
  <1>1. QueryInv => HistoriesBounded
    BY DEF QueryInv
  <1> QED BY <1>1, QueryInvHolds, PTL

=============================================================================
