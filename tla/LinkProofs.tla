------------------------------- MODULE LinkProofs -------------------------------
(***************************************************************************)
(* The safety theorems of the window and the service: of ServiceLink, for  *)
(* any number of requests, tabs, views and lists, and whatever of          *)
(* LinkInputs happens; of Instances, for one window; and of LocationScan,  *)
(* for any tree of folders, any number of scans and any budget.            *)
(***************************************************************************)
EXTENDS ServiceLink, Instances, LocationScan, FiniteSetTheorems, TLAPS

\* A step of request c is about no other.
OthersKept(c) == \A d \in Calls \ {c} : request'[d] = request[d]

\* What c carries is what it was sent with.
CarriesOn(c) ==
    /\ request'[c].kind = request[c].kind
    /\ request'[c].on = request[c].on
    /\ request'[c].tab = request[c].tab

LEMMA RequestAt ==
  ASSUME LinkTypeOK, NEW c \in Calls, NEW r \in Requests,
         request' = [request EXCEPT ![c] = r]
  PROVE  request' \in [Calls -> Requests] /\ request'[c] = r /\ OthersKept(c)
  BY DEF LinkTypeOK, OthersKept

LEMMA UnusedIsRequest == Unused \in Requests
  BY DEF Unused, Requests, Stages, Hashes, NoHash

LEMMA AdvanceStep ==
  ASSUME LinkTypeOK, NEW c \in Calls, NEW label \in Stages, Advance(c, label)
  PROVE  /\ request' \in [Calls -> Requests] /\ OthersKept(c) /\ CarriesOn(c)
         /\ request'[c].pc = label
         /\ request'[c].known = request[c].known /\ request'[c].hash = request[c].hash
         /\ request'[c].full = request[c].full
  <1> DEFINE r == [request[c] EXCEPT !.pc = label]
  <1>1. request[c] \in Requests
    BY DEF LinkTypeOK
  <1>2. r \in Requests
    BY <1>1 DEF Requests
  <1>3. request' = [request EXCEPT ![c] = r]
    BY DEF Advance, LinkTypeOK
  <1>4. request' \in [Calls -> Requests] /\ request'[c] = r /\ OthersKept(c)
    <2> HIDE DEF r
    <2> QED BY <1>2, <1>3, RequestAt
  <1> QED BY <1>1, <1>4 DEF CarriesOn, Requests

LEMMA EndStep ==
  ASSUME LinkTypeOK, NEW c \in Calls, Ends(c)
  PROVE  /\ request' \in [Calls -> Requests] /\ OthersKept(c)
         /\ request'[c].pc = "unused" /\ ~IsCommand(c)'
  <1>1. request' \in [Calls -> Requests] /\ OthersKept(c) /\ request'[c] = Unused
    BY UnusedIsRequest, RequestAt DEF Ends
  <1> QED BY <1>1 DEF Unused, IsCommand, Commands

LEMMA SendStep ==
  ASSUME LinkTypeOK, NEW c \in Calls, NEW order \in Orders,
         SendCommand(c, order[1], order[2])
  PROVE  /\ request' \in [Calls -> Requests] /\ OthersKept(c)
         /\ request'[c].pc = "connect" /\ request'[c].kind = order[1]
         /\ request'[c].on = order[2] /\ order[1] \in Commands /\ order[2] \in BOOLEAN
  <1> DEFINE r == [Started(order[1]) EXCEPT !.on = order[2]]
  <1>1. order[1] \in Commands /\ order[2] \in BOOLEAN
    BY LinkAssumption
  <1>2. r \in Requests
    BY <1>1 DEF Started, Unused, Requests, Stages, Hashes, NoHash
  <1>3. request' = [request EXCEPT ![c] = r]
    BY DEF SendCommand
  <1>4. request' \in [Calls -> Requests] /\ request'[c] = r /\ OthersKept(c)
    <2> HIDE DEF r
    <2> QED BY <1>2, <1>3, RequestAt
  <1> QED BY <1>1, <1>4 DEF Started, Unused

LEMMA TickStep ==
  ASSUME LinkTypeOK, NEW c \in Calls, PollTick(c)
  PROVE  /\ request' \in [Calls -> Requests] /\ OthersKept(c)
         /\ request'[c].pc = "polled" /\ ~IsCommand(c)'
         /\ request'[c].tab = TabOf[view]
  <1> DEFINE r == [Unused EXCEPT !.pc = "polled", !.tab = TabOf[view]]
  <1>1. r \in Requests
    BY LinkAssumption DEF LinkTypeOK, Unused, Requests, Stages, Hashes, NoHash
  <1>2. request' = [request EXCEPT ![c] = r]
    BY DEF PollTick
  <1>3. request' \in [Calls -> Requests] /\ request'[c] = r /\ OthersKept(c)
    <2> HIDE DEF r
    <2> QED BY <1>1, <1>2, RequestAt
  <1> QED BY <1>3 DEF Unused, IsCommand, Commands

LEMMA TaskStep ==
  ASSUME LinkTypeOK, NEW c \in Calls, PollTask(c)
  PROVE  /\ request' \in [Calls -> Requests] /\ OthersKept(c) /\ CarriesOn(c)
         /\ request'[c].pc = "connect" /\ request'[c].known = knownHash
  <1> DEFINE r == [request[c] EXCEPT !.pc = "connect", !.known = knownHash]
  <1>1. request[c] \in Requests /\ knownHash \in Hashes
    BY DEF LinkTypeOK
  <1>2. r \in Requests
    BY <1>1 DEF Requests, Stages
  <1>3. request' = [request EXCEPT ![c] = r]
    BY DEF PollTask, LinkTypeOK
  <1>4. request' \in [Calls -> Requests] /\ request'[c] = r /\ OthersKept(c)
    <2> HIDE DEF r
    <2> QED BY <1>2, <1>3, RequestAt
  <1> QED BY <1>1, <1>4 DEF CarriesOn, Requests

\* A poll that reached the service asks about a tab.
PollsATab == \A c \in Calls :
    ~IsCommand(c) /\ Outstanding(c) => request[c].tab \in Tabs

LEMMA BuildStep ==
  ASSUME LinkTypeOK, PollsATab, NEW c \in Calls, BuildSnapshot(c)
  PROVE  /\ request' \in [Calls -> Requests] /\ OthersKept(c) /\ CarriesOn(c)
         /\ request'[c].pc = "fetched" /\ request'[c].known = request[c].known
         /\ request'[c].hash = Built(request[c].tab)
         /\ request'[c].full = (Built(request[c].tab) # request[c].known)
  <1> DEFINE new == Built(request[c].tab)
             r == [request[c] EXCEPT !.pc = "fetched", !.hash = new,
                                     !.full = new # request[c].known]
  <1>1. request[c] \in Requests
    BY DEF LinkTypeOK
  <1>2. new \in Hashes
    BY DEF PollsATab, BuildSnapshot, Outstanding, Stage, LinkTypeOK, Built, Hashes
  <1> HIDE DEF new
  <1>3. r \in Requests
    BY <1>1, <1>2 DEF Requests, Stages
  <1>4. request' = [request EXCEPT ![c] = r]
    BY DEF BuildSnapshot, LinkTypeOK, new
  <1>5. request' \in [Calls -> Requests] /\ request'[c] = r /\ OthersKept(c)
    <2> HIDE DEF r
    <2> QED BY <1>3, <1>4, RequestAt
  <1>6. /\ request'[c].pc = "fetched" /\ request'[c].known = request[c].known
        /\ request'[c].hash = new /\ request'[c].full = (new # request[c].known)
        /\ CarriesOn(c)
    BY <1>1, <1>5 DEF CarriesOn, Requests
  <1> QED BY <1>5, <1>6 DEF new

LEMMA DieStep ==
  ASSUME LinkTypeOK, ServiceDies
  PROVE  /\ request' \in [Calls -> Requests]
         /\ \A c \in Calls : request'[c] = request[c] \/ (c \in InService /\ request'[c] = Unused)
         /\ \A c \in InService : request'[c] = Unused
  BY UnusedIsRequest DEF ServiceDies, LinkTypeOK, InService

-----------------------------------------------------------------------------
(***************************************************************************)
(* Types                                                                   *)
(***************************************************************************)
RequestsFit == \A c \in Calls :
    IF IsCommand(c) THEN ~Stage(c, "fetched") /\ ~Stage(c, "polled")
    ELSE ~Stage(c, "store") /\ ~Stage(c, "reply")
AwaitsCommand == awaited \in Calls => Outstanding(awaited) /\ IsCommand(awaited)

\* The part of the types that is about the requests.
RequestsOK ==
    /\ request \in [Calls -> Requests] /\ awaited \in Calls \union {NoCall}
    /\ RequestsFit /\ AwaitsCommand /\ PollsATab

\* The rest.
ServiceOK ==
    /\ serving \in {"up", "deaf", "down"}
    /\ {inForce, config, stored, word} \subseteq [Commands -> BOOLEAN]
    /\ tabLists \in [Tabs -> Lists]
    /\ view \in Views /\ knownHash \in Hashes
    /\ onScreen \in [Views -> Lists \union {NoList, OwnList}]
    /\ unsure \in BOOLEAN /\ reverted \in BOOLEAN /\ strayed \in BOOLEAN

LEMMA TypeParts == LinkTypeOK /\ PollsATab <=> RequestsOK /\ ServiceOK
  BY DEF LinkTypeOK, RequestsOK, ServiceOK, RequestsFit, AwaitsCommand

\* A request is now at a stage that fits its kind, and the rest as before.
LEMMA RequestFits ==
  ASSUME RequestsOK, NEW c \in Calls, request' \in [Calls -> Requests], OthersKept(c),
         IF IsCommand(c)' THEN request'[c].pc \in {"connect", "dispatch", "store", "reply"}
         ELSE /\ request'[c].pc \in {"unused", "polled", "connect", "dispatch", "fetched"}
              /\ request'[c].pc = "unused" \/ request'[c].tab \in Tabs,
         \/ awaited' = awaited /\ (awaited = c => IsCommand(c)')
         \/ awaited' = c /\ IsCommand(c)'
         \/ awaited' = NoCall
  PROVE  RequestsOK'
  <1>1. RequestsFit' /\ PollsATab'
    BY DEF RequestsOK, RequestsFit, PollsATab, OthersKept, IsCommand, Stage, Outstanding
  <1>2. AwaitsCommand'
    BY LinkAssumption
    DEF RequestsOK, AwaitsCommand, OthersKept, IsCommand, Stage, Outstanding
  <1> QED BY <1>1, <1>2 DEF RequestsOK

LEMMA RequestsStep ==
  ASSUME RequestsOK, ServiceOK, [LinkNext]_linkVars
  PROVE  RequestsOK'
  <1> USE LinkAssumption
  <1>0. LinkTypeOK /\ PollsATab
    BY TypeParts
  <1>1. ASSUME NEW c \in Calls, NEW order \in Orders, SendCommand(c, order[1], order[2])
        PROVE  RequestsOK'
    BY <1>0, <1>1, SendStep, RequestFits DEF SendCommand, IsCommand
  <1>2. ASSUME NEW c \in Calls, PollTick(c) PROVE RequestsOK'
    <2>1. awaited # c /\ awaited' = awaited /\ TabOf[view] \in Tabs
      BY <1>2 DEF PollTick, RequestsOK, ServiceOK, AwaitsCommand, Outstanding
    <2> QED BY <1>0, <1>2, <2>1, TickStep, RequestFits
  <1>3. ASSUME NEW c \in Calls, PollTask(c) PROVE RequestsOK'
    <2>1. ~IsCommand(c) /\ request[c].tab \in Tabs /\ awaited' = awaited /\ awaited # c
      BY <1>3 DEF PollTask, RequestsOK, RequestsFit, PollsATab, AwaitsCommand, Stage, Outstanding
    <2>2. CarriesOn(c) /\ OthersKept(c) /\ request' \in [Calls -> Requests]
          /\ request'[c].pc = "connect"
      BY <1>0, <1>3, TaskStep
    <2>3. ~IsCommand(c)' /\ request'[c].tab \in Tabs
      BY <2>1, <2>2 DEF CarriesOn, IsCommand
    <2> QED BY <2>1, <2>2, <2>3, RequestFits
  <1>4. ASSUME NEW c \in Calls, Ends(c),
               awaited' = NoCall \/ (awaited' = awaited /\ awaited # c)
        PROVE  RequestsOK'
    BY <1>0, <1>4, EndStep, RequestFits
  <1>5. ASSUME NEW c \in Calls, PollTimesOut(c) \/ ApplySnapshot(c) PROVE RequestsOK'
    <2>1. ~IsCommand(c) /\ Ends(c) /\ awaited' = awaited
      BY <1>5 DEF PollTimesOut, ApplySnapshot, Fetching, RequestsOK, RequestsFit
    <2>2. awaited # c
      BY <2>1 DEF RequestsOK, AwaitsCommand
    <2> QED BY <1>4, <2>1, <2>2
  <1>6. ASSUME NEW c \in Calls, NEW label \in {"dispatch", "store", "reply"},
               Advance(c, label), awaited' = awaited, Outstanding(c),
               label # "dispatch" => IsCommand(c)
        PROVE  RequestsOK'
    <2>1. CarriesOn(c) /\ OthersKept(c) /\ request' \in [Calls -> Requests]
          /\ request'[c].pc = label
      BY <1>0, <1>6, AdvanceStep DEF Stages
    <2>2. IsCommand(c)' <=> IsCommand(c)
      BY <2>1 DEF CarriesOn, IsCommand
    <2>3. awaited = c => IsCommand(c)
      BY DEF RequestsOK, AwaitsCommand
    <2>4. ~IsCommand(c) => request'[c].tab \in Tabs
      BY <1>6, <2>1 DEF RequestsOK, PollsATab, CarriesOn
    <2> QED BY <1>6, <2>1, <2>2, <2>3, <2>4, RequestFits
  <1>7. ASSUME NEW c \in Calls, Connect(c) PROVE RequestsOK'
    <2>1. Outstanding(c)
      BY <1>7 DEF Connect, Outstanding, Stage
    <2>2. CASE Advance(c, "dispatch") /\ awaited' = awaited
      BY <1>6, <2>1, <2>2
    <2>3. CASE Ends(c) /\ awaited' = IF awaited = c THEN NoCall ELSE awaited
      <3>1. Ends(c)
        BY <2>3
      <3>2. awaited' = NoCall \/ (awaited' = awaited /\ awaited # c)
        BY <2>3
      <3> QED BY <1>4, <3>1, <3>2
    <2> QED BY <1>7, <2>2, <2>3 DEF Connect
  <1>14. ASSUME NEW c \in Calls, RefuseCommand(c) PROVE RequestsOK'
    <2>1. Ends(c) /\ (awaited' = NoCall \/ (awaited' = awaited /\ awaited # c))
      BY <1>14 DEF RefuseCommand
    <2> QED BY <1>4, <2>1
  <1>8. ASSUME NEW c \in Calls, DispatchCommand(c) \/ Persist(c) PROVE RequestsOK'
    <2>1. IsCommand(c) /\ Outstanding(c) /\ awaited' = awaited
      BY <1>8 DEF DispatchCommand, Persist, Outstanding, Stage, RequestsOK, RequestsFit
    <2>2. Advance(c, "store") \/ Advance(c, "reply")
      BY <1>8 DEF DispatchCommand, Persist
    <2> QED BY <1>6, <2>1, <2>2
  <1>9. ASSUME NEW c \in Calls, ReplyToCommand(c) PROVE RequestsOK'
    <2>1. Ends(c)
      BY <1>9 DEF ReplyToCommand
    <2>2. awaited' = NoCall \/ (awaited' = awaited /\ awaited # c)
      BY <1>9 DEF ReplyToCommand
    <2> QED BY <1>4, <2>1, <2>2
  <1>10. ASSUME NEW c \in Calls, BuildSnapshot(c) PROVE RequestsOK'
    <2>1. ~IsCommand(c) /\ request[c].tab \in Tabs /\ awaited' = awaited /\ awaited # c
      BY <1>10 DEF BuildSnapshot, RequestsOK, PollsATab, AwaitsCommand, Stage, Outstanding
    <2>2. CarriesOn(c) /\ OthersKept(c) /\ request' \in [Calls -> Requests]
          /\ request'[c].pc = "fetched"
      BY <1>0, <1>10, BuildStep
    <2>3. ~IsCommand(c)' /\ request'[c].tab \in Tabs
      BY <2>1, <2>2 DEF CarriesOn, IsCommand
    <2> QED BY <2>1, <2>2, <2>3, RequestFits
  <1>11. CASE ServiceDies
    <2>1. /\ request' \in [Calls -> Requests]
          /\ \A c \in Calls : request'[c] = request[c] \/ (c \in InService /\ request'[c] = Unused)
      BY <1>0, <1>11, DieStep
    <2>2. awaited' = IF awaited \in InService THEN NoCall ELSE awaited
      BY <1>11 DEF ServiceDies
    <2>3. RequestsFit' /\ PollsATab'
      BY <2>1 DEF RequestsOK, RequestsFit, PollsATab, IsCommand, Stage, Outstanding, Unused, Commands
    <2>4. AwaitsCommand'
      BY <2>1, <2>2 DEF RequestsOK, AwaitsCommand, IsCommand, Stage, Outstanding
    <2> QED BY <2>1, <2>2, <2>3, <2>4 DEF RequestsOK
  <1>12. ASSUME request' = request, awaited' \in {awaited, NoCall} PROVE RequestsOK'
    BY <1>12 DEF RequestsOK, RequestsFit, AwaitsCommand, PollsATab, IsCommand, Stage, Outstanding
  <1>13. CASE \/ CallTimesOut \/ WindowSaves \/ RefreshOwn \/ PipeIsLost \/ ServiceStarts
              \/ \E v \in Views : SwitchView(v)
              \/ \E t \in Tabs, l \in Lists : ListsMove(t, l)
              \/ UNCHANGED linkVars
    BY <1>12, <1>13
    DEF CallTimesOut, WindowSaves, RefreshOwn, PipeIsLost, ServiceStarts, SwitchView, ListsMove,
        linkVars
  <1> QED
    BY <1>1, <1>2, <1>3, <1>5, <1>7, <1>8, <1>9, <1>10, <1>11, <1>13, <1>14 DEF LinkNext

LEMMA ServiceStep ==
  ASSUME RequestsOK, ServiceOK, [LinkNext]_linkVars
  PROVE  ServiceOK'
  <1> USE DEF ServiceOK, service, screen, promised
  <1>1. ASSUME NEW c \in Calls, IsCommand(c)
        PROVE  request[c].kind \in Commands /\ request[c].on \in BOOLEAN
    BY <1>1 DEF RequestsOK, Requests, IsCommand
  <1>2. ASSUME NEW c \in Calls, DispatchCommand(c) PROVE ServiceOK'
    BY <1>1, <1>2 DEF DispatchCommand
  <1>3. ASSUME NEW c \in Calls, Stage(c, "store") \/ Stage(c, "reply") PROVE IsCommand(c)
    BY <1>3 DEF RequestsOK, RequestsFit
  <1>4. ASSUME NEW c \in Calls, Persist(c) PROVE ServiceOK'
    <2>1. Kept(request[c]) \in BOOLEAN /\ request[c].kind \in Commands
      BY <1>1, <1>3, <1>4 DEF Persist, Kept, Commands
    <2>2. config' \in [Commands -> BOOLEAN] /\ stored' \in {config', stored}
      BY <1>4, <2>1 DEF Persist
    <2> QED BY <1>4, <2>2 DEF Persist
  <1>5. ASSUME NEW c \in Calls, ReplyToCommand(c) PROVE ServiceOK'
    <2>1. word' \in [Commands -> BOOLEAN]
      BY <1>1, <1>3, <1>5 DEF ReplyToCommand
    <2> QED BY <1>5, <2>1 DEF ReplyToCommand
  <1>6. ASSUME NEW c \in Calls, ApplySnapshot(c) PROVE ServiceOK'
    <2>1. request[c].hash \in Hashes
      BY DEF RequestsOK, Requests
    <2>2. request[c].hash[2] \in Lists \union {NoList}
      BY <2>1 DEF Hashes, NoHash
    <2>3. onScreen' \in [Views -> Lists \union {NoList, OwnList}]
      BY <1>6, <2>2 DEF ApplySnapshot, ShownBy
    <2> QED BY <1>6, <2>1, <2>3 DEF ApplySnapshot
  <1>7. ASSUME NEW c \in Calls, \/ \E order \in Orders : SendCommand(c, order[1], order[2])
                                \/ PollTick(c) \/ PollTask(c) \/ PollTimesOut(c)
                                \/ Connect(c) \/ RefuseCommand(c) \/ BuildSnapshot(c)
        PROVE  ServiceOK'
    BY <1>7 DEF SendCommand, PollTick, PollTask, PollTimesOut, Connect, RefuseCommand,
                BuildSnapshot
  <1>8. CASE ServiceDies
    BY <1>8 DEF ServiceDies
  <1>9. CASE \E t \in Tabs, l \in Lists : ListsMove(t, l)
    BY <1>9 DEF ListsMove
  <1>10. CASE \/ CallTimesOut \/ PipeIsLost \/ ServiceStarts
              \/ \E v \in Views : SwitchView(v)
              \/ UNCHANGED linkVars
    BY <1>10 DEF CallTimesOut, PipeIsLost, ServiceStarts, SwitchView, linkVars
  <1>11. CASE WindowSaves
    BY <1>11 DEF WindowSaves, OwnConfig
  <1>12. CASE RefreshOwn
    BY <1>12 DEF RefreshOwn
  <1> QED
    BY <1>2, <1>4, <1>5, <1>6, <1>7, <1>8, <1>9, <1>10, <1>11, <1>12 DEF LinkNext

LEMMA LinkInitOK == LinkInit => RequestsOK /\ ServiceOK
  <1> SUFFICES ASSUME LinkInit PROVE RequestsOK /\ ServiceOK
    OBVIOUS
  <1>1. request \in [Calls -> Requests] /\ \A c \in Calls : request[c] = Unused
    BY UnusedIsRequest DEF LinkInit
  <1>2. RequestsOK
    BY <1>1, LinkAssumption
    DEF LinkInit, RequestsOK, RequestsFit, AwaitsCommand, PollsATab, IsCommand, Stage,
        Outstanding, Unused, Commands
  <1>3. ServiceOK
    BY DEF LinkInit, ServiceOK, Hashes, NoHash
  <1> QED BY <1>2, <1>3

\* Every variable keeps its type, the command that is waited for is
\* outstanding, and only snapshots end on the screen.
THEOREM LinkTypeCorrect == LinkSpec => []LinkTypeOK
  <1>1. RequestsOK /\ ServiceOK /\ [LinkNext]_linkVars => (RequestsOK /\ ServiceOK)'
    BY RequestsStep, ServiceStep
  <1>2. RequestsOK /\ ServiceOK => LinkTypeOK
    BY TypeParts
  <1> QED BY <1>1, <1>2, LinkInitOK, PTL DEF LinkSpec

-----------------------------------------------------------------------------
(***************************************************************************)
(* The rules                                                               *)
(***************************************************************************)
\* Only a rule that is still to be saved lets the two differ.
RulesInv ==
    (\A c \in Calls : Stage(c, "store") => request[c].kind # "rule") =>
        config["rule"] = inForce["rule"]

LEMMA RulesStep ==
  ASSUME RequestsOK, ServiceOK, RulesInv, [LinkNext]_linkVars
  PROVE  RulesInv'
  <1> SUFFICES ASSUME (\A c \in Calls : Stage(c, "store") => request[c].kind # "rule")'
               PROVE  config'["rule"] = inForce'["rule"]
    BY DEF RulesInv
  <1> USE DEF service
  <1>0. LinkTypeOK /\ PollsATab
    BY TypeParts
  <1>1. ASSUME UNCHANGED <<config, inForce>>,
               \A c \in Calls : Stage(c, "store") =>
                  request'[c].pc = "store" /\ request'[c].kind = request[c].kind
        PROVE  config'["rule"] = inForce'["rule"]
    BY <1>1 DEF RulesInv, Stage
  <1>2. ASSUME NEW c \in Calls, ~Stage(c, "store"), OthersKept(c), UNCHANGED <<config, inForce>>
        PROVE  config'["rule"] = inForce'["rule"]
    BY <1>1, <1>2 DEF OthersKept, Stage
  <1>3. ASSUME NEW c \in Calls, DispatchCommand(c)
        PROVE  config'["rule"] = inForce'["rule"]
    <2>1. OthersKept(c) /\ CarriesOn(c) /\ request'[c].pc = "store"
      BY <1>0, <1>3, AdvanceStep DEF DispatchCommand, Stages
    <2>2. request[c].kind # "rule"
      BY <2>1 DEF CarriesOn, Stage
    <2>3. inForce'["rule"] = inForce["rule"] /\ config' = config
      BY <1>3, <2>2 DEF DispatchCommand, ServiceOK
    <2>4. ~Stage(c, "store")
      BY <1>3 DEF DispatchCommand, Stage
    <2> QED BY <2>1, <2>3, <2>4 DEF RulesInv, OthersKept, Stage
  <1>4. ASSUME NEW c \in Calls, Persist(c)
        PROVE  config'["rule"] = inForce'["rule"]
    <2>1. OthersKept(c) /\ inForce' = inForce
      BY <1>0, <1>4, AdvanceStep DEF Persist, Stages
    <2>2. config' = [config EXCEPT ![request[c].kind] = Kept(request[c])]
      BY <1>4 DEF Persist
    <2>3. CASE request[c].kind = "rule"
      BY <2>1, <2>2, <2>3 DEF Kept, ServiceOK, Commands
    <2>4. CASE request[c].kind # "rule"
      <3>1. config'["rule"] = config["rule"]
        BY <2>2, <2>4 DEF ServiceOK, Commands
      <3>2. \A d \in Calls : Stage(d, "store") => request[d].kind # "rule"
        BY <2>1, <2>4 DEF OthersKept, Stage
      <3> QED BY <2>1, <3>1, <3>2 DEF RulesInv
    <2> QED BY <2>3, <2>4
  <1>5. ASSUME NEW c \in Calls,
               \/ \E order \in Orders : SendCommand(c, order[1], order[2])
               \/ PollTick(c) \/ PollTask(c) \/ PollTimesOut(c) \/ ApplySnapshot(c)
               \/ Connect(c) \/ RefuseCommand(c) \/ ReplyToCommand(c) \/ BuildSnapshot(c)
        PROVE  config'["rule"] = inForce'["rule"]
    <2>1. UNCHANGED <<config, inForce>>
      BY <1>5 DEF SendCommand, PollTick, PollTask, PollTimesOut, ApplySnapshot, Connect,
                  RefuseCommand, ReplyToCommand, BuildSnapshot
    <2>2. ~Stage(c, "store")
      BY <1>5 DEF SendCommand, PollTick, PollTask, PollTimesOut, ApplySnapshot, Connect,
                  RefuseCommand, ReplyToCommand, BuildSnapshot, Stage
    <2>3. Ends(c) \/ Advance(c, "dispatch") => OthersKept(c)
      BY <1>0, EndStep, AdvanceStep DEF Stages
    <2>4. OthersKept(c)
      BY <1>0, <1>5, <2>3, SendStep, TickStep, TaskStep, BuildStep
      DEF PollTimesOut, ApplySnapshot, Connect, RefuseCommand, ReplyToCommand
    <2> QED BY <1>2, <2>1, <2>2, <2>4
  <1>6. CASE ServiceDies
    BY <1>6 DEF ServiceDies
  <1>7. CASE \/ CallTimesOut \/ WindowSaves \/ RefreshOwn \/ PipeIsLost \/ ServiceStarts
             \/ \E v \in Views : SwitchView(v)
             \/ \E t \in Tabs, l \in Lists : ListsMove(t, l)
             \/ UNCHANGED linkVars
    <2>1. UNCHANGED <<config, inForce>> /\ request' = request
      BY <1>7 DEF CallTimesOut, WindowSaves, RefreshOwn, PipeIsLost, ServiceStarts, SwitchView, ListsMove, linkVars
    <2> QED BY <1>1, <2>1 DEF Stage
  <1> QED BY <1>3, <1>4, <1>5, <1>6, <1>7 DEF LinkNext

\* The client rules in the configuration are those in force, in whatever order
\* commands, late ones among them, are carried out.
THEOREM RulesStayKept == LinkSpec => []RulesAreKept
  <1> DEFINE Inv == RequestsOK /\ ServiceOK /\ RulesInv
  <1>1. LinkInit => Inv
    BY LinkInitOK DEF LinkInit, RulesInv
  <1>2. Inv /\ [LinkNext]_linkVars => Inv'
    BY RequestsStep, ServiceStep, RulesStep
  <1>3. Inv => RulesAreKept
    BY DEF RulesInv, RulesAreKept, InCommand, IsCommand, Commands, Outstanding, Stage
  <1> QED BY <1>1, <1>2, <1>3, PTL DEF LinkSpec

-----------------------------------------------------------------------------
(***************************************************************************)
(* The last word                                                           *)
(***************************************************************************)
\* Everything has k as the last answered command of its kind left it, the file
\* unless it is the window's.
Settled(k) ==
    inForce[k] = word[k] /\ config[k] = word[k] /\ (stored[k] = word[k] \/ reverted)

\* As long as nothing went wrong there is one command at most, the one that is
\* waited for, and only its kind is not settled once the service has it.
WordInv == ~unsure =>
    /\ \A c \in InCommand : c = awaited
    /\ \A k \in Commands :
         \/ /\ awaited \in Calls /\ request[awaited].kind = k
            /\ request[awaited].pc \in {"store", "reply"}
         \/ Settled(k)
    /\ awaited \in Calls =>
         /\ Stage(awaited, "store") => inForce[request[awaited].kind] = request[awaited].on
         /\ Stage(awaited, "reply") =>
              /\ \A x \in {inForce, config} : x[request[awaited].kind] = request[awaited].on
              /\ stored[request[awaited].kind] = request[awaited].on \/ reverted

LEMMA WordStep ==
  ASSUME RequestsOK, ServiceOK, WordInv, [LinkNext]_linkVars
  PROVE  WordInv'
  <1> SUFFICES ASSUME ~unsure' PROVE WordInv'
    BY DEF WordInv
  <1> USE LinkAssumption DEF service, screen, promised
  <1>0. LinkTypeOK /\ PollsATab
    BY TypeParts
  <1>1. awaited \in Calls => IsCommand(awaited) /\ Outstanding(awaited)
    BY DEF RequestsOK, AwaitsCommand
  \* Steps that leave commands, settings and the last word alone.
  <1>2. ASSUME UNCHANGED <<awaited, inForce, config, stored, word, unsure, reverted>>,
               \A c \in Calls : (IsCommand(c) /\ Outstanding(c))' =>
                  IsCommand(c) /\ Outstanding(c),
               \A c \in Calls : IsCommand(c) /\ Outstanding(c) => request'[c] = request[c]
        PROVE  WordInv'
    BY <1>1, <1>2 DEF WordInv, InCommand, Settled, Stage
  <1>3. ASSUME NEW c \in Calls,
               PollTick(c) \/ PollTask(c) \/ PollTimesOut(c) \/ ApplySnapshot(c) \/ BuildSnapshot(c)
        PROVE  WordInv'
    <2>1. ~(IsCommand(c) /\ Outstanding(c))
      BY <1>3 DEF PollTick, PollTask, PollTimesOut, ApplySnapshot, BuildSnapshot,
                  RequestsOK, RequestsFit, Outstanding, Fetching, Stage
    <2>2. OthersKept(c) /\ ~IsCommand(c)'
      <3>1. CASE PollTask(c) \/ BuildSnapshot(c)
        <4>1. OthersKept(c) /\ CarriesOn(c)
          BY <1>0, <3>1, TaskStep, BuildStep
        <4>2. ~IsCommand(c)
          BY <2>1, <3>1 DEF PollTask, BuildSnapshot, Outstanding, Stage
        <4> QED BY <4>1, <4>2 DEF CarriesOn, IsCommand
      <3>2. CASE PollTimesOut(c) \/ ApplySnapshot(c)
        BY <1>0, <3>2, EndStep DEF PollTimesOut, ApplySnapshot
      <3>3. CASE PollTick(c)
        BY <1>0, <3>3, TickStep
      <3> QED BY <1>3, <3>1, <3>2, <3>3
    <2>3. UNCHANGED <<awaited, inForce, config, stored, word, unsure, reverted>>
      BY <1>3 DEF PollTick, PollTask, PollTimesOut, ApplySnapshot, BuildSnapshot
    <2> QED BY <1>2, <2>1, <2>2, <2>3 DEF OthersKept, IsCommand, Outstanding, Stage
  \* Steps of the command that is waited for.
  <1>4. ASSUME NEW c \in Calls, NEW order \in Orders, SendCommand(c, order[1], order[2])
        PROVE  WordInv'
    <2>1. OthersKept(c) /\ request'[c].pc = "connect" /\ awaited = NoCall /\ awaited' = c
      BY <1>0, <1>4, SendStep DEF SendCommand
    <2>2. UNCHANGED <<inForce, config, stored, word, unsure, reverted>>
      BY <1>4 DEF SendCommand
    <2> QED BY <2>1, <2>2 DEF WordInv, InCommand, Settled, Stage, OthersKept, IsCommand, Outstanding
  <1>5. ASSUME NEW c \in Calls, Connect(c) \/ RefuseCommand(c) PROVE WordInv'
    <2>1. UNCHANGED <<inForce, config, stored, word, unsure, reverted>>
          /\ (Stage(c, "connect") \/ Stage(c, "dispatch"))
      BY <1>5 DEF Connect, RefuseCommand
    <2>2. IsCommand(c) => c = awaited
      BY <2>1 DEF WordInv, InCommand, Outstanding, Stage
    <2>3. CASE Advance(c, "dispatch") /\ awaited' = awaited
      <3>1. OthersKept(c) /\ CarriesOn(c) /\ request'[c].pc = "dispatch"
        BY <1>0, <2>3, AdvanceStep DEF Stages
      <3> QED
        BY <2>1, <2>2, <2>3, <3>1
        DEF WordInv, InCommand, Settled, Stage, OthersKept, CarriesOn, IsCommand, Outstanding
    <2>4. CASE Ends(c) /\ awaited' = IF awaited = c THEN NoCall ELSE awaited
      <3>1. OthersKept(c) /\ ~IsCommand(c)'
        BY <1>0, <2>4, EndStep
      <3>2. awaited # c => awaited' = awaited
        BY <2>4
      <3>3. awaited = c => awaited' = NoCall
        BY <2>4
      <3> QED
        BY <2>1, <2>2, <3>1, <3>2, <3>3
        DEF WordInv, InCommand, Settled, Stage, OthersKept, IsCommand, Outstanding
    <2> QED BY <1>5, <2>3, <2>4 DEF Connect, RefuseCommand
  <1>sure. ~unsure
    BY DEF LinkNext, SendCommand, RefuseCommand, WindowSaves, RefreshOwn, CallTimesOut, PollTick, PollTask, PollTimesOut, ApplySnapshot,
           SwitchView, Connect, PipeIsLost, DispatchCommand, Persist, ReplyToCommand,
           BuildSnapshot, ListsMove, ServiceDies, ServiceStarts, linkVars
  <1>6. ASSUME NEW c \in Calls,
               \/ Stage(c, "dispatch") /\ IsCommand(c)
               \/ Stage(c, "store")
               \/ Stage(c, "reply")
        PROVE  /\ c = awaited /\ request[c].kind \in Commands /\ request[c].on \in BOOLEAN
               /\ \A d \in Calls \ {c} : ~(IsCommand(d) /\ Outstanding(d))
    <2>1. IsCommand(c) /\ Outstanding(c)
      BY <1>6 DEF RequestsOK, RequestsFit, Outstanding, Stage
    <2>2. request[c] \in Requests
      BY DEF RequestsOK
    <2> QED BY <1>sure, <2>1, <2>2 DEF WordInv, Requests, InCommand, IsCommand
  <1>7. ASSUME NEW c \in Calls, DispatchCommand(c) PROVE WordInv'
    <2>1. OthersKept(c) /\ CarriesOn(c) /\ request'[c].pc = "store"
      BY <1>0, <1>7, AdvanceStep DEF DispatchCommand, Stages
    <2>2. /\ inForce' = [inForce EXCEPT ![request[c].kind] = request[c].on]
          /\ UNCHANGED <<awaited, config, stored, word, unsure, reverted>>
          /\ Stage(c, "dispatch") /\ IsCommand(c)
      BY <1>7 DEF DispatchCommand
    <2>3. inForce \in [Commands -> BOOLEAN]
      BY DEF ServiceOK
    <2> QED
      BY <1>6, <2>1, <2>2, <2>3
      DEF WordInv, InCommand, Settled, Stage, OthersKept, CarriesOn, IsCommand, Outstanding
  <1>8. ASSUME NEW c \in Calls, Persist(c) PROVE WordInv'
    <2>1. OthersKept(c) /\ CarriesOn(c) /\ request'[c].pc = "reply"
      BY <1>0, <1>8, AdvanceStep DEF Persist, Stages
    <2>2. /\ config' = [config EXCEPT ![request[c].kind] = Kept(request[c])]
          /\ stored' = config' /\ reverted' = FALSE /\ unsure' = unsure
          /\ UNCHANGED <<awaited, inForce, word>> /\ Stage(c, "store")
      BY <1>8 DEF Persist
    <2>3. config \in [Commands -> BOOLEAN]
      BY DEF ServiceOK
    <2>4. inForce[request[c].kind] = request[c].on
      BY <1>6, <2>2 DEF WordInv
    <2>5. Kept(request[c]) = request[c].on
      BY <2>4 DEF Kept
    <2> QED
      BY <1>6, <2>1, <2>2, <2>3, <2>4, <2>5
      DEF WordInv, InCommand, Settled, Stage, OthersKept, CarriesOn, IsCommand, Outstanding
  <1>9. ASSUME NEW c \in Calls, ReplyToCommand(c) PROVE WordInv'
    <2>1. OthersKept(c) /\ ~IsCommand(c)'
      BY <1>0, <1>9, EndStep DEF ReplyToCommand
    <2>2. Stage(c, "reply") /\ UNCHANGED <<inForce, config, stored, unsure, reverted>>
      BY <1>9 DEF ReplyToCommand
    <2>3. awaited' = NoCall /\ word' = [word EXCEPT ![request[c].kind] = request[c].on]
      BY <1>6, <1>9, <2>2 DEF ReplyToCommand
    <2>4. word \in [Commands -> BOOLEAN]
      BY DEF ServiceOK
    <2> QED
      BY <1>6, <2>1, <2>2, <2>3, <2>4
      DEF WordInv, InCommand, Settled, Stage, OthersKept, IsCommand, Outstanding
  <1>10. CASE ServiceDies
    <2>1. /\ \A c \in Calls : request'[c] = request[c] \/ (c \in InService /\ request'[c] = Unused)
          /\ ~unsure /\ ~reverted /\ InService \intersect InCommand = {}
      BY <1>0, <1>10, DieStep DEF ServiceDies
    <2>2. config' = stored /\ inForce' = stored /\ UNCHANGED <<stored, word, reverted>>
      BY <1>10 DEF ServiceDies
    <2>3. awaited \notin InService
      BY <1>1, <2>1 DEF InCommand, InService
    <2>4. awaited' = awaited
      BY <1>10, <2>3 DEF ServiceDies
    <2>5. awaited \in Calls => request'[awaited] = request[awaited]
      BY <2>1, <2>3
    <2>6. \A c \in InCommand' : c \in InCommand
      BY <2>1 DEF InCommand, IsCommand, Outstanding, Stage, Unused, Commands
    <2> QED
      BY <2>1, <2>2, <2>3, <2>4, <2>5, <2>6 DEF WordInv, Settled, Stage, InService
  <1>13. CASE WindowSaves
    <2>1. UNCHANGED <<request, awaited, inForce, config, word, unsure>> /\ reverted'
      BY <1>13 DEF WindowSaves
    <2> QED BY <2>1, <1>1 DEF WordInv, InCommand, Settled, Stage, IsCommand, Outstanding
  <1>11. CASE \/ RefreshOwn \/ PipeIsLost \/ ServiceStarts
              \/ \E v \in Views : SwitchView(v)
              \/ \E t \in Tabs, l \in Lists : ListsMove(t, l)
              \/ UNCHANGED linkVars
    <2>1. UNCHANGED <<request, awaited, inForce, config, stored, word, unsure, reverted>>
      BY <1>11 DEF RefreshOwn, PipeIsLost, ServiceStarts, SwitchView, ListsMove, linkVars
    <2> QED BY <1>2, <2>1 DEF IsCommand, Outstanding, Stage
  <1>12. CASE CallTimesOut
    BY <1>12 DEF CallTimesOut
  <1> QED
    BY <1>3, <1>4, <1>5, <1>7, <1>8, <1>9, <1>10, <1>11, <1>12, <1>13 DEF LinkNext

\* As long as no command timed out, was cut off or went unsaved, the service
\* does what the last command says that was not refused, and its file has it
\* until the window saves its own.
THEOREM LastWordIsKept == LinkSpec => []LastWordHolds
  <1> DEFINE Inv == RequestsOK /\ ServiceOK /\ WordInv
  <1>1. LinkInit => Inv
    <2> SUFFICES ASSUME LinkInit PROVE WordInv
      BY LinkInitOK
    <2>1. awaited \notin Calls
      BY LinkAssumption DEF LinkInit
    <2>2. \A c \in Calls : request[c].pc = "unused"
      BY DEF LinkInit, Unused
    <2>3. inForce = word /\ config = word /\ stored = word
      BY DEF LinkInit
    <2> QED BY <2>1, <2>2, <2>3 DEF WordInv, InCommand, Outstanding, Stage, Settled
  <1>2. Inv /\ [LinkNext]_linkVars => Inv'
    BY RequestsStep, ServiceStep, WordStep
  <1>3. Inv => LastWordHolds
    <2> SUFFICES ASSUME Inv, ~unsure, InCommand = {}
                 PROVE  inForce = word /\ config = word /\ (stored = word \/ reverted)
      BY DEF LastWordHolds
    <2>1. awaited \notin Calls
      BY DEF RequestsOK, AwaitsCommand, InCommand
    <2>2. \A k \in Commands : Settled(k)
      BY <2>1 DEF WordInv
    <2> QED BY <2>2 DEF ServiceOK, Settled
  <1> QED BY <1>1, <1>2, <1>3, PTL DEF LinkSpec

-----------------------------------------------------------------------------
(***************************************************************************)
(* What the hash stands for                                                *)
(***************************************************************************)
\* No other view shares v's tab.
Alone(v) == \A w \in Views \ {v} : TabOf[w] # TabOf[v]

\* A snapshot that is under way is about the tab in view, knows what the
\* window knows, and brings the lists unless they are known.
Faithful(c) ==
    /\ request[c].tab = TabOf[view]
    /\ Stage(c, "polled") \/ request[c].known = knownHash
    /\ Stage(c, "fetched") =>
         /\ request[c].hash[1] = request[c].tab
         /\ request[c].full = (request[c].hash # request[c].known)

\* As long as nothing strayed one snapshot at most is under way, and the known
\* hash stands for what is shown, or would be shown again, unless that is the
\* window's own list.
ShownInv == ~strayed =>
    /\ \A c, d \in Fetching : c = d
    /\ \A c \in Fetching : Faithful(c)
    /\ \A v \in Views : knownHash[1] = TabOf[v] /\ (v = view \/ Alone(v)) =>
          onScreen[v] \in {knownHash[2], OwnList}

LEMMA ShownStep ==
  ASSUME RequestsOK, ServiceOK, ShownInv, [LinkNext]_linkVars
  PROVE  ShownInv'
  <1> SUFFICES ASSUME ~strayed' PROVE ShownInv'
    BY DEF ShownInv
  <1> USE LinkAssumption DEF service, screen, promised
  <1>0. LinkTypeOK /\ PollsATab
    BY TypeParts
  <1>1. ~strayed
    BY DEF LinkNext, SendCommand, RefuseCommand, WindowSaves, RefreshOwn, CallTimesOut, PollTick, PollTask, PollTimesOut, ApplySnapshot,
           SwitchView, Connect, PipeIsLost, DispatchCommand, Persist, ReplyToCommand,
           BuildSnapshot, ListsMove, ServiceDies, ServiceStarts, linkVars
  \* Snapshots under way may end, but otherwise they and the window stay.
  <1>2. ASSUME UNCHANGED screen,
               \A c \in Calls : c \in Fetching' => c \in Fetching /\ request'[c] = request[c]
        PROVE  ShownInv'
    BY <1>1, <1>2 DEF ShownInv, Faithful, Stage, Fetching
  <1>3. ASSUME NEW c \in Calls, OthersKept(c), UNCHANGED screen, c \notin Fetching'
        PROVE  ShownInv'
    BY <1>2, <1>3 DEF OthersKept, Fetching, Outstanding, Stage, IsCommand
  <1>4. ASSUME NEW c \in Calls,
               \/ \E order \in Orders : SendCommand(c, order[1], order[2])
               \/ PollTimesOut(c) \/ DispatchCommand(c) \/ Persist(c) \/ ReplyToCommand(c)
               \/ RefuseCommand(c)
        PROVE  ShownInv'
    <2>1. UNCHANGED screen
      BY <1>4 DEF SendCommand, PollTimesOut, DispatchCommand, Persist, ReplyToCommand,
                  RefuseCommand
    <2>2. OthersKept(c) /\ c \notin Fetching'
      <3>1. CASE \E order \in Orders : SendCommand(c, order[1], order[2])
        BY <1>0, <3>1, SendStep DEF Fetching, IsCommand
      <3>2. CASE PollTimesOut(c) \/ ReplyToCommand(c) \/ RefuseCommand(c)
        BY <1>0, <3>2, EndStep
        DEF PollTimesOut, ReplyToCommand, RefuseCommand, Fetching, Outstanding, Stage
      <3>3. CASE DispatchCommand(c) \/ Persist(c)
        <4>1. IsCommand(c)
          BY <3>3 DEF DispatchCommand, Persist, RequestsOK, RequestsFit
        <4>2. OthersKept(c) /\ CarriesOn(c)
          BY <1>0, <3>3, AdvanceStep DEF DispatchCommand, Persist, Stages
        <4> QED BY <4>1, <4>2 DEF CarriesOn, Fetching, IsCommand
      <3> QED BY <1>4, <3>1, <3>2, <3>3
    <2> QED BY <1>3, <2>1, <2>2
  \* The one snapshot goes on.
  <1>5. ASSUME NEW c \in Fetching, OthersKept(c), UNCHANGED screen, Faithful(c)'
        PROVE  ShownInv'
    <2>1. \A d \in Fetching' : d = c
      BY <1>1, <1>5 DEF ShownInv, OthersKept, Fetching, Outstanding, Stage, IsCommand
    <2>2. \A v \in Views : knownHash'[1] = TabOf[v] /\ (v = view' \/ Alone(v)) =>
            onScreen'[v] \in {knownHash'[2], OwnList}
      BY <1>1, <1>5 DEF ShownInv
    <2> QED BY <1>5, <2>1, <2>2 DEF ShownInv, Alone
  <1>6. ASSUME NEW c \in Fetching PROVE Faithful(c) /\ c \in Calls
    BY <1>1, <1>6 DEF ShownInv, Fetching
  <1>7. ASSUME NEW c \in Calls, PollTick(c) PROVE ShownInv'
    <2>1. Fetching = {} /\ UNCHANGED screen
      BY <1>7 DEF PollTick
    <2>2. OthersKept(c) /\ request'[c].pc = "polled" /\ request'[c].tab = TabOf[view]
      BY <1>0, <1>7, TickStep
    <2>3. \A d \in Fetching' : d = c
      BY <2>1, <2>2 DEF OthersKept, Fetching, Outstanding, Stage, IsCommand
    <2> QED BY <1>1, <2>1, <2>2, <2>3 DEF ShownInv, Faithful, Stage, Fetching
  <1>8. ASSUME NEW c \in Calls, PollTask(c) PROVE ShownInv'
    <2>1. c \in Fetching /\ UNCHANGED screen
      BY <1>8 DEF PollTask, Fetching, RequestsOK, RequestsFit, Outstanding, Stage
    <2>2. /\ OthersKept(c) /\ CarriesOn(c)
          /\ request'[c].pc = "connect" /\ request'[c].known = knownHash
      BY <1>0, <1>8, TaskStep
    <2>3. Faithful(c)'
      BY <1>6, <2>1, <2>2 DEF Faithful, CarriesOn, Stage
    <2> QED BY <1>5, <2>1, <2>2, <2>3
  <1>9. ASSUME NEW c \in Calls, BuildSnapshot(c) PROVE ShownInv'
    <2>1. c \in Fetching /\ UNCHANGED screen /\ ~Stage(c, "polled")
      BY <1>9 DEF BuildSnapshot, Fetching, Outstanding, Stage
    <2>2. /\ OthersKept(c) /\ CarriesOn(c) /\ request'[c].known = request[c].known
          /\ request'[c].hash = Built(request[c].tab)
          /\ request'[c].full = (Built(request[c].tab) # request[c].known)
      BY <1>0, <1>9, BuildStep
    <2>3. Faithful(c)'
      BY <1>6, <2>1, <2>2 DEF Faithful, CarriesOn, Built
    <2> QED BY <1>5, <2>1, <2>2, <2>3
  <1>10. ASSUME NEW c \in Calls, Connect(c) PROVE ShownInv'
    <2>1. UNCHANGED screen /\ Stage(c, "connect")
      BY <1>10 DEF Connect
    <2>2. CASE Ends(c)
      <3>1. OthersKept(c) /\ ~Outstanding(c)'
        BY <1>0, <2>2, EndStep DEF Outstanding, Stage
      <3> QED BY <1>3, <2>1, <3>1 DEF Fetching
    <2>3. CASE Advance(c, "dispatch")
      <3>1. /\ OthersKept(c) /\ CarriesOn(c) /\ request'[c].pc = "dispatch"
            /\ request'[c].known = request[c].known
        BY <1>0, <2>3, AdvanceStep DEF Stages
      <3>2. CASE IsCommand(c)
        BY <1>3, <2>1, <3>1, <3>2 DEF CarriesOn, Fetching, IsCommand
      <3>3. CASE ~IsCommand(c)
        <4>1. c \in Fetching
          BY <2>1, <3>3 DEF Fetching, Outstanding, Stage
        <4>2. Faithful(c)'
          BY <1>6, <2>1, <3>1, <4>1 DEF Faithful, CarriesOn, Stage
        <4> QED BY <1>5, <2>1, <3>1, <4>1, <4>2
      <3> QED BY <3>2, <3>3
    <2> QED BY <1>10, <2>2, <2>3 DEF Connect
  <1>11. ASSUME NEW c \in Calls, ApplySnapshot(c) PROVE ShownInv'
    <2> DEFINE new == request[c].hash
    <2>1. Stage(c, "fetched") /\ knownHash' = new /\ view' = view
      BY <1>11 DEF ApplySnapshot
    <2>2. c \in Fetching
      BY <2>1 DEF Fetching, RequestsOK, RequestsFit, Outstanding, Stage
    <2>3. /\ new[1] = TabOf[view] /\ request[c].tab = TabOf[view]
          /\ request[c].full = (new # knownHash)
      BY <1>6, <2>1, <2>2 DEF Faithful, Stage
    <2>4. OthersKept(c) /\ ~Outstanding(c)'
      BY <1>0, <1>11, EndStep DEF ApplySnapshot, Outstanding, Stage
    <2>5. Fetching' = {}
      BY <1>1, <2>2, <2>4 DEF ShownInv, OthersKept, Fetching, Outstanding, Stage, IsCommand
    <2>6. onScreen'[view] \in {new[2], OwnList}
      <3>1. CASE new # knownHash
        <4>1. onScreen' = [onScreen EXCEPT ![view] = new[2]]
          BY <1>11, <2>3, <3>1 DEF ApplySnapshot, ShownBy
        <4> QED BY <4>1 DEF ServiceOK
      <3>2. CASE new = knownHash
        <4>1. onScreen' = onScreen
          BY <1>11, <2>3, <3>2 DEF ApplySnapshot, ShownBy
        <4>2. onScreen[view] \in {knownHash[2], OwnList}
          BY <1>1, <2>3, <3>2 DEF ShownInv, ServiceOK
        <4> QED BY <3>2, <4>1, <4>2
      <3> QED BY <3>1, <3>2
    <2>7. ASSUME NEW v \in Views, knownHash'[1] = TabOf[v], v = view \/ Alone(v)
          PROVE  v = view
      BY <2>1, <2>3, <2>7 DEF Alone, ServiceOK
    <2>8. \A v \in Views : knownHash'[1] = TabOf[v] /\ (v = view' \/ Alone(v)) =>
            onScreen'[v] \in {knownHash'[2], OwnList}
      BY <2>1, <2>6, <2>7
    <2> QED BY <2>5, <2>8 DEF ShownInv, Alone
  <1>12. ASSUME NEW v \in Views, SwitchView(v) PROVE ShownInv'
    <2>1. Fetching = {} /\ Alone(v) /\ view' = v
      BY <1>12 DEF SwitchView, Alone
    <2>2. UNCHANGED <<request, knownHash, onScreen>>
      BY <1>12 DEF SwitchView
    <2>3. Fetching' = {}
      BY <2>1, <2>2 DEF Fetching, Outstanding, Stage, IsCommand
    <2>4. \A w \in Views : knownHash'[1] = TabOf[w] /\ (w = view' \/ Alone(w)) =>
            onScreen'[w] \in {knownHash'[2], OwnList}
      BY <1>1, <2>1, <2>2 DEF ShownInv
    <2> QED BY <2>3, <2>4 DEF ShownInv, Alone
  <1>13. CASE ServiceDies
    <2>1. UNCHANGED screen
      BY <1>13 DEF ServiceDies
    <2>2. \A c \in Calls : request'[c] = request[c] \/ request'[c].pc = "unused"
      BY <1>0, <1>13, DieStep DEF Unused
    <2> QED BY <1>2, <2>1, <2>2 DEF Fetching, Outstanding, Stage, IsCommand
  <1>15. CASE RefreshOwn
    <2>1. /\ onScreen' = [onScreen EXCEPT ![view] = OwnList]
          /\ UNCHANGED <<request, view, knownHash>>
      BY <1>15 DEF RefreshOwn
    <2>2. Fetching' = Fetching /\ \A c \in Calls : Faithful(c)' <=> Faithful(c)
      BY <2>1 DEF Fetching, Outstanding, Stage, IsCommand, Faithful
    <2>3. \A v \in Views : onScreen'[v] \in {onScreen[v], OwnList}
      BY <2>1 DEF ServiceOK
    <2> QED BY <1>1, <2>1, <2>2, <2>3 DEF ShownInv, Alone, Fetching
  <1>14. CASE \/ CallTimesOut \/ WindowSaves \/ PipeIsLost \/ ServiceStarts
              \/ \E t \in Tabs, l \in Lists : ListsMove(t, l)
              \/ UNCHANGED linkVars
    <2>1. UNCHANGED <<request, screen>>
      BY <1>14 DEF CallTimesOut, WindowSaves, PipeIsLost, ServiceStarts, ListsMove, linkVars
    <2> QED BY <1>2, <2>1 DEF Fetching, Outstanding, Stage, IsCommand
  <1> QED
    BY <1>4, <1>7, <1>8, <1>9, <1>10, <1>11, <1>12, <1>13, <1>14, <1>15 DEF LinkNext

\* A list that a snapshot leaves out is on the screen, or the window's own list
\* over it, unless snapshots overlap or a view changes under one of them or to a
\* view that shares its tab.
THEOREM KnownStaysShown == LinkSpec => []KnownIsShown
  <1> DEFINE Inv == RequestsOK /\ ServiceOK /\ ShownInv
  <1>1. LinkInit => Inv
    <2> SUFFICES ASSUME LinkInit PROVE ShownInv
      BY LinkInitOK
    <2>1. Fetching = {}
      BY DEF LinkInit, Fetching, Outstanding, Stage, Unused
    <2>2. \A v \in Views : knownHash[1] # TabOf[v]
      BY LinkAssumption DEF LinkInit, NoHash
    <2> QED BY <2>1, <2>2 DEF ShownInv
  <1>2. Inv /\ [LinkNext]_linkVars => Inv'
    BY RequestsStep, ServiceStep, ShownStep
  <1>3. Inv => KnownIsShown
    BY DEF ShownInv, KnownIsShown, ServiceOK
  <1> QED BY <1>1, <1>2, <1>3, PTL DEF LinkSpec

-----------------------------------------------------------------------------
(***************************************************************************)
(* The override is served                                                  *)
(***************************************************************************)
InstTypes ==
  /\ port \in Programs \union {Nobody} /\ mutex \in Programs \union {Nobody}
  /\ main \in [Programs -> MainLabels] /\ boot \in [Programs -> BootLabels]
  /\ holds \in [Programs -> BOOLEAN] /\ alert \in [Programs -> BOOLEAN]
  /\ remote \in [Programs -> BOOLEAN]
  /\ systemDns \in {"owner", "ours"} /\ forced \in BOOLEAN /\ late \in BOOLEAN

\* A process has a task for the port only when it is up and runs the stack
\* itself, and once the task has bound the port it is the process that has it.
TasksFit ==
  \A p \in Programs :
    /\ main[p] \in {"off", "query", "probe", "load", "recover"} \/ remote[p] => boot[p] = "none"
    /\ main[p] = "recover" => ~remote[p]
    /\ boot[p] \in {"apply", "serving"} => port = p

\* The mutex belongs to a window that is past its acquisition.
MutexFits ==
  /\ main[Service] \notin {"query", "acquire"} /\ ~remote[Service]
  /\ mutex # Nobody => mutex # Service /\ main[mutex] \in {"run", "close", "restore", "end"}

\* Unless an operator forced it, only a process that serves remembers the
\* servers it replaced or is about to replace them again; and while they are
\* replaced, a process remembers them that has its last restore still to come,
\* unless they were replaced after one.
HoldersServe ==
  ~forced =>
    /\ \A p \in Programs : holds[p] \/ alert[p] => boot[p] = "serving"
    /\ systemDns = "ours" => late \/ \E p \in Programs : holds[p] /\ main[p] # "end"

ServeInv == InstTypes /\ TasksFit /\ MutexFits /\ HoldersServe

OneWindow == \E w : Windows = {w}

LEMMA Names ==
  /\ Nobody \notin Programs /\ Service \in Programs /\ Windows \subseteq Programs
  /\ Service \notin Windows
  BY InstancesAssumption DEF Programs

\* What a step leaves alone, in the variables of the invariant.
OthersAsTheyWere(p) ==
  \A q \in Programs \ {p} :
    /\ main'[q] = main[q] /\ boot'[q] = boot[q]
    /\ holds'[q] = holds[q] /\ alert'[q] = alert[q] /\ remote'[q] = remote[q]

LEMMA ExitServes ==
  ASSUME ServeInv, NEW p \in Programs, Exit(p), UNCHANGED <<systemDns, remote, forced, late>>,
         ~holds[p] \/ main[p] = "end" \/ forced
  PROVE  ServeInv'
  <1> USE Names
  <1>1. /\ main' = [main EXCEPT ![p] = "off"] /\ boot' = [boot EXCEPT ![p] = "none"]
        /\ holds' = [holds EXCEPT ![p] = FALSE] /\ alert' = [alert EXCEPT ![p] = FALSE]
        /\ port' = (IF port = p THEN Nobody ELSE port)
        /\ mutex' = (IF mutex = p THEN Nobody ELSE mutex)
    BY DEF Exit, MainGoes, BootGoes
  <1>2. "off" \in MainLabels /\ "none" \in BootLabels
    BY DEF MainLabels, BootLabels
  <1>3. InstTypes'
    BY <1>1, <1>2 DEF ServeInv, InstTypes
  <1>4. main'[p] = "off" /\ boot'[p] = "none" /\ ~holds'[p] /\ ~alert'[p] /\ OthersAsTheyWere(p)
    BY <1>1 DEF ServeInv, InstTypes, OthersAsTheyWere
  <1>5. TasksFit'
    BY <1>1, <1>4 DEF ServeInv, TasksFit, OthersAsTheyWere
  <1>6. MutexFits'
    BY <1>1, <1>4 DEF ServeInv, MutexFits, InstTypes, OthersAsTheyWere
  <1>7. HoldersServe'
    BY <1>3, <1>4 DEF ServeInv, HoldersServe, InstTypes, OthersAsTheyWere
  <1> QED BY <1>3, <1>5, <1>6, <1>7 DEF ServeInv

\* Starting, up to the task for the port.
LEMMA StartServes ==
  ASSUME ServeInv, NEW p \in Programs,
         \/ Launch(p) \/ AttachOrNot(p) \/ LoadConfig(p) \/ RecoverAndSpawn(p) \/ SwitchToLocal(p)
  PROVE  ServeInv'
  <1> USE Names DEF ServeInv
  <1>1. /\ UNCHANGED <<port, mutex, holds, alert, forced>>
        /\ \/ UNCHANGED <<systemDns, late>>
           \/ systemDns' = "owner" /\ late' = FALSE
    BY DEF Launch, AttachOrNot, LoadConfig, RecoverAndSpawn, SwitchToLocal, Recover, machine,
           switch, ServeInv, InstTypes
  <1>2. /\ \/ main' = main
           \/ \E label \in {"query", "load", "recover", "acquire", "run"} :
                main' = [main EXCEPT ![p] = label]
        /\ boot' = boot \/ boot' = [boot EXCEPT ![p] = "bind"]
        /\ remote' = remote \/ \E r \in BOOLEAN : remote' = [remote EXCEPT ![p] = r]
    BY DEF Launch, AttachOrNot, LoadConfig, RecoverAndSpawn, SwitchToLocal, SpawnServer,
           MainGoes, BootGoes
  <1>3. InstTypes'
    <2>1. main' \in [Programs -> MainLabels] /\ boot' \in [Programs -> BootLabels]
      BY <1>2 DEF InstTypes, MainLabels, BootLabels
    <2>2. remote' \in [Programs -> BOOLEAN]
      BY <1>2 DEF InstTypes
    <2>3. systemDns' \in {"owner", "ours"} /\ late' \in BOOLEAN
      BY <1>1 DEF InstTypes
    <2> QED BY <1>1, <2>1, <2>2, <2>3 DEF InstTypes
  <1>4. OthersAsTheyWere(p)
    BY <1>1, <1>2 DEF OthersAsTheyWere, InstTypes
  <1>5. /\ main[p] \in {"off", "query", "load", "recover"} \/ remote[p]
        /\ boot[p] = "none" /\ (~holds[p] \/ forced)
    BY DEF Launch, AttachOrNot, LoadConfig, RecoverAndSpawn, SwitchToLocal, Local, TasksFit,
           HoldersServe, InstTypes
  <1>6. \/ Launch(p) /\ p # Service /\ main[p] = "off" /\ main'[p] = "query" /\ boot'[p] = boot[p]
             /\ remote'[p] = remote[p]
        \/ AttachOrNot(p) /\ main[p] = "query" /\ main'[p] = "load" /\ boot'[p] = boot[p]
        \/ LoadConfig(p) /\ main[p] = "load" /\ boot'[p] = boot[p] /\ remote'[p] = remote[p]
             /\ main'[p] = IF remote[p] THEN "acquire" ELSE "recover"
        \/ RecoverAndSpawn(p) /\ main[p] = "recover" /\ boot'[p] = "bind" /\ remote'[p] = remote[p]
             /\ main'[p] = IF p = Service THEN "run" ELSE "acquire"
        \/ SwitchToLocal(p) /\ main[p] = "run" /\ main'[p] = "run" /\ boot'[p] = "bind"
             /\ remote[p] /\ ~remote'[p]
    BY <1>1 DEF Launch, AttachOrNot, LoadConfig, RecoverAndSpawn, SwitchToLocal, SpawnServer,
           MainGoes, BootGoes, InstTypes, Local, machine
  <1>7. TasksFit'
    <2>1. \A q \in Programs \ {p} :
            /\ main'[q] \in {"off", "query", "probe", "load", "recover"} \/ remote'[q]
                 => boot'[q] = "none"
            /\ main'[q] = "recover" => ~remote'[q]
            /\ boot'[q] \in {"apply", "serving"} => port' = q
      BY <1>1, <1>4 DEF OthersAsTheyWere, TasksFit
    <2>2. boot[p] = "none"
      BY <1>6 DEF TasksFit
    <2>3. /\ main'[p] \in {"off", "query", "probe", "load", "recover"} \/ remote'[p]
                 => boot'[p] = "none"
          /\ main'[p] = "recover" => ~remote'[p]
          /\ boot'[p] \notin {"apply", "serving"}
      BY <1>6, <2>2 DEF TasksFit
    <2> QED BY <2>1, <2>3 DEF TasksFit
  <1>8. MutexFits'
    <2>1. main'[Service] \notin {"query", "acquire"} /\ ~remote'[Service]
      BY <1>4, <1>6 DEF MutexFits, OthersAsTheyWere
    <2>2. mutex # Nobody => main'[mutex] \in {"run", "close", "restore", "end"}
      BY <1>4, <1>6 DEF MutexFits, OthersAsTheyWere, InstTypes
    <2> QED BY <1>1, <2>1, <2>2 DEF MutexFits
  <1>9. HoldersServe'
    <2>1. ASSUME ~forced PROVE \A q \in Programs : holds[q] \/ alert[q] => boot'[q] = "serving"
      BY <1>4, <1>5, <2>1 DEF OthersAsTheyWere, HoldersServe
    <2>2. main'[p] # "end"
      BY <1>6, <1>5
    <2>3. \A q \in Programs : main[q] # "end" => main'[q] # "end"
      BY <1>4, <2>2 DEF OthersAsTheyWere
    <2> QED BY <1>1, <2>1, <2>3 DEF HoldersServe
  <1> QED BY <1>3, <1>7, <1>8, <1>9

\* The task for the port.
LEMMA TaskServes ==
  ASSUME ServeInv, NEW p \in Programs, Bind(p) \/ ApplyAtBoot(p) \/ BindFailed(p)
  PROVE  ServeInv'
  <1> USE Names DEF ServeInv
  <1>1. UNCHANGED <<main, remote, mutex, forced>>
    BY DEF Bind, ApplyAtBoot, BindFailed
  <1>2. /\ \E label \in {"apply", "fail", "serving", "failed"} : boot' = [boot EXCEPT ![p] = label]
        /\ holds' = holds \/ holds' = [holds EXCEPT ![p] = TRUE]
        /\ late' = late \/ late' = (late \/ main[p] = "end")
        /\ alert' = alert /\ port' \in {port, p} /\ systemDns' \in {systemDns, "ours"}
    BY DEF Bind, ApplyAtBoot, BindFailed, BootGoes, Override, switch
  <1>3. InstTypes'
    BY <1>1, <1>2 DEF InstTypes, BootLabels
  <1>4. OthersAsTheyWere(p)
    BY <1>1, <1>2 DEF OthersAsTheyWere, InstTypes
  <1>5. \/ /\ boot[p] = "bind" /\ boot'[p] = "apply" /\ port = Nobody /\ port' = p
           /\ UNCHANGED <<holds, systemDns, late>>
        \/ /\ boot[p] = "bind" /\ boot'[p] = "fail" /\ UNCHANGED <<port, holds, systemDns, late>>
        \/ /\ boot[p] = "apply" /\ boot'[p] = "serving" /\ port' = port
           /\ \/ UNCHANGED <<holds, systemDns, late>>
              \/ systemDns' = "ours" /\ holds'[p] /\ (late' \/ (main[p] # "end" /\ late' = late))
        \/ /\ boot[p] = "fail" /\ boot'[p] = "failed" /\ UNCHANGED <<port, holds, systemDns, late>>
    BY DEF Bind, ApplyAtBoot, BindFailed, BootGoes, Override, switch, InstTypes
  <1>6. TasksFit'
    <2>1. \A q \in Programs \ {p} : boot'[q] \in {"apply", "serving"} => port' = q
      BY <1>4, <1>5 DEF OthersAsTheyWere, TasksFit
    <2>2. boot'[p] \in {"apply", "serving"} => port' = p
      BY <1>5 DEF TasksFit
    <2>3. ~(main[p] \in {"off", "query", "probe", "load", "recover"} \/ remote[p])
      BY <1>5 DEF TasksFit
    <2> QED BY <1>1, <1>4, <2>1, <2>2, <2>3 DEF OthersAsTheyWere, TasksFit
  <1>7. MutexFits'
    BY <1>1 DEF MutexFits
  <1>8. HoldersServe'
    <2> SUFFICES ASSUME ~forced
                 PROVE  /\ \A q \in Programs : holds'[q] \/ alert'[q] => boot'[q] = "serving"
                        /\ systemDns' = "ours" =>
                              late' \/ \E q \in Programs : holds'[q] /\ main'[q] # "end"
      BY <1>1 DEF HoldersServe
    <2>1. \A q \in Programs : holds'[q] \/ alert'[q] => boot'[q] = "serving"
      BY <1>2, <1>4, <1>5 DEF OthersAsTheyWere, HoldersServe
    <2>2. systemDns' = "ours" => late' \/ \E q \in Programs : holds'[q] /\ main'[q] # "end"
      BY <1>1, <1>4, <1>5 DEF OthersAsTheyWere, HoldersServe
    <2> QED BY <2>1, <2>2
  <1> QED BY <1>3, <1>6, <1>7, <1>8

\* A process that switches protection, or whose watchdog sees to the override.
LEMMA SwitchServes ==
  ASSUME ServeInv, NEW p \in Programs,
         UNCHANGED <<main, boot, remote, mutex, port>>,
         alert' = alert \/ alert' = [alert EXCEPT ![p] = FALSE],
         \/ Override(p) /\ ((boot[p] = "serving" /\ forced' = forced) \/ forced')
         \/ Restore(p) /\ forced' = forced,
         forced' \in BOOLEAN /\ (forced => forced')
  PROVE  ServeInv'
  <1> USE Names DEF ServeInv
  <1>1. InstTypes'
    <2>1. systemDns' \in {"owner", "ours"} /\ late' \in BOOLEAN
      BY DEF InstTypes, Restore, Override
    <2>2. holds' \in [Programs -> BOOLEAN] /\ alert' \in [Programs -> BOOLEAN]
      BY DEF InstTypes, Restore, Override
    <2> QED BY <2>1, <2>2 DEF InstTypes
  <1>2. TasksFit' /\ MutexFits'
    BY DEF TasksFit, MutexFits
  <1>3. HoldersServe'
    <2> SUFFICES ASSUME ~forced'
                 PROVE  /\ \A q \in Programs : holds'[q] \/ alert'[q] => boot[q] = "serving"
                        /\ systemDns' = "ours" =>
                              late' \/ \E q \in Programs : holds'[q] /\ main[q] # "end"
      BY DEF HoldersServe
    <2>1. ~forced /\ \A q \in Programs : alert'[q] => alert[q]
      BY DEF InstTypes
    <2>2. CASE Override(p)
      <3>1. holds' = [holds EXCEPT ![p] = TRUE] /\ (main[p] = "end" \/ late => late')
        BY <2>2 DEF Override
      <3>2. boot[p] = "serving"
        <4>1. CASE Restore(p)
          BY <2>2, <4>1 DEF Restore, Override, InstTypes
        <4> QED BY <4>1
      <3>3. holds'[p] /\ \A q \in Programs \ {p} : holds'[q] = holds[q]
        BY <3>1 DEF InstTypes
      <3>4. \A q \in Programs : holds'[q] \/ alert'[q] => boot[q] = "serving"
        BY <2>1, <3>2, <3>3 DEF HoldersServe
      <3> QED BY <3>1, <3>3, <3>4
    <2>3. CASE Restore(p)
      BY <2>1, <2>3 DEF HoldersServe, InstTypes, Restore
    <2> QED BY <2>2, <2>3
  <1> QED BY <1>1, <1>2, <1>3

\* A main thread that only moves on, between labels of a process that is up.
LEMMA MoveServes ==
  ASSUME ServeInv, NEW p \in Programs, NEW label \in MainLabels,
         main' = [main EXCEPT ![p] = label],
         \/ /\ label \in {"run", "close", "restore", "end"}
            /\ main[p] \in {"acquire", "run", "close", "restore"}
            /\ mutex' = mutex \/ (mutex = Nobody /\ mutex' = p /\ p # Service)
         \/ /\ p = Service /\ label \in {"off", "probe", "load"} /\ main[p] \in {"off", "probe"}
            /\ mutex' = mutex,
         \/ UNCHANGED <<holds, systemDns, late>> /\ label # "end"
         \/ Restore(p),
         UNCHANGED <<boot, remote, port, forced, alert>>
  PROVE  ServeInv'
  <1> USE Names DEF ServeInv
  <1>1. InstTypes'
    BY DEF InstTypes, Restore
  <1>2. main'[p] = label /\ \A q \in Programs \ {p} : main'[q] = main[q]
    BY DEF InstTypes
  <1>3. TasksFit'
    BY <1>2 DEF TasksFit
  <1>4. MutexFits'
    BY <1>2 DEF MutexFits, InstTypes
  <1>5. HoldersServe'
    BY <1>2 DEF HoldersServe, InstTypes, Restore
  <1> QED BY <1>1, <1>3, <1>4, <1>5

LEMMA ServeStep ==
  ASSUME NEW w, Windows = {w}, ServeInv, [InstNext]_instVars
  PROVE  ServeInv'
  <1> USE Names
  <1>1. ASSUME NEW p \in Programs,
               \/ Launch(p) \/ AttachOrNot(p) \/ LoadConfig(p) \/ RecoverAndSpawn(p)
               \/ SwitchToLocal(p) \/ Bind(p) \/ ApplyAtBoot(p) \/ BindFailed(p)
        PROVE  ServeInv'
    BY <1>1, StartServes, TaskServes
  <1>2. ASSUME NEW p \in Programs, Acquire(p)
        PROVE  ServeInv'
    <2>1. p # Service /\ main[p] = "acquire"
      BY <1>2 DEF Acquire, ServeInv, MutexFits
    <2>2. p = w /\ (mutex # Nobody => mutex = w)
      BY <2>1 DEF Programs, ServeInv, MutexFits, InstTypes
    <2>3. mutex = Nobody
      BY <2>1, <2>2 DEF ServeInv, MutexFits
    <2>4. /\ mutex' = p /\ main' = [main EXCEPT ![p] = "run"]
          /\ UNCHANGED <<port, boot, holds, alert, systemDns, remote, forced, late>>
      BY <1>2, <2>3 DEF Acquire, MainGoes
    <2> QED BY <2>1, <2>3, <2>4, MoveServes DEF MainLabels
  <1>3. ASSUME NEW p \in Programs, WatchdogActs(p)
        PROVE  ServeInv'
    <2>1. boot[p] = "serving" \/ forced
      BY <1>3 DEF WatchdogActs, ServeInv, HoldersServe
    <2>2. /\ Override(p) \/ Restore(p)
          /\ alert' = [alert EXCEPT ![p] = FALSE] /\ forced' = forced
          /\ UNCHANGED <<main, boot, remote, mutex, port>>
      BY <1>3 DEF WatchdogActs
    <2> QED BY <2>1, <2>2, SwitchServes DEF ServeInv, InstTypes
  <1>10. ASSUME NEW p \in Programs, WatchdogLooks(p)
         PROVE  ServeInv'
    <2>1. /\ holds[p] /\ alert' = [alert EXCEPT ![p] = TRUE]
          /\ UNCHANGED <<port, mutex, main, boot, holds, systemDns, remote, forced, late>>
      BY <1>10 DEF WatchdogLooks, machine
    <2> QED BY <2>1 DEF ServeInv, InstTypes, TasksFit, MutexFits, HoldersServe
  <1>4. ASSUME NEW p \in Programs, NEW wanted \in BOOLEAN, Switch(p, wanted)
        PROVE  ServeInv'
    <2> DEFINE who == IF Local(p) THEN p ELSE Service
    <2>1. who \in Programs
      OBVIOUS
    <2>2. /\ Protect(who, wanted)
          /\ forced' = (forced \/ (wanted /\ boot[who] # "serving"))
          /\ UNCHANGED <<port, mutex, main, boot, alert, remote>>
      BY <1>4 DEF Switch
    <2> HIDE DEF who
    <2>3. forced' \in BOOLEAN /\ (forced => forced')
      BY <2>2 DEF ServeInv, InstTypes
    <2>4. CASE wanted
      <3>1. Override(who)
        BY <2>2, <2>4 DEF Protect
      <3>2. (boot[who] = "serving" /\ forced' = forced) \/ forced'
        BY <2>2, <2>4 DEF ServeInv, InstTypes
      <3> QED BY <2>1, <2>2, <2>3, <3>1, <3>2, SwitchServes
    <2>5. CASE ~wanted
      <3>1. Restore(who) /\ forced' = forced
        BY <2>2, <2>5 DEF Protect, ServeInv, InstTypes
      <3> QED BY <2>1, <2>2, <2>3, <3>1, SwitchServes
    <2> QED BY <2>4, <2>5
  <1>5. ASSUME NEW p \in Programs, Close(p)
        PROVE  ServeInv'
    <2>1. CASE Local(p)
      <3>1. /\ main[p] = "run" /\ main' = [main EXCEPT ![p] = "close"]
            /\ UNCHANGED <<port, mutex, boot, holds, alert, systemDns, remote, forced, late>>
        BY <1>5, <2>1 DEF Close, MainGoes
      <3> QED BY <3>1, MoveServes DEF MainLabels
    <2>2. CASE ~Local(p)
      <3>1. boot[p] = "none"
        BY <2>2 DEF Local, ServeInv, TasksFit
      <3>2. Exit(p) /\ UNCHANGED <<systemDns, remote, forced, late>>
        BY <1>5, <2>2 DEF Close
      <3>3. CASE ~holds[p]
        BY <3>2, <3>3, ExitServes
      <3>4. CASE holds[p]
        <4>1. forced
          BY <3>1, <3>4 DEF ServeInv, HoldersServe
        <4> QED BY <3>2, <4>1, ExitServes
      <3> QED BY <3>3, <3>4
    <2> QED BY <2>1, <2>2
  <1>6. ASSUME NEW p \in Programs, ProtectionOff(p)
        PROVE  ServeInv'
    <2>1. /\ main[p] = "close" /\ main' = [main EXCEPT ![p] = "restore"] /\ Restore(p)
          /\ UNCHANGED <<mutex, boot, remote, port, forced, alert>>
      BY <1>6 DEF ProtectionOff, Protect, MainGoes
    <2> QED BY <2>1, MoveServes DEF MainLabels
  <1>7. ASSUME NEW p \in Programs, RestoreLast(p)
        PROVE  ServeInv'
    <2>1. /\ main[p] = "restore" /\ main' = [main EXCEPT ![p] = "end"] /\ Restore(p)
          /\ UNCHANGED <<mutex, boot, remote, port, forced, alert>>
      BY <1>7 DEF RestoreLast, MainGoes
    <2> QED BY <2>1, MoveServes DEF MainLabels
  <1>11. ASSUME NEW p \in Programs, EndProcess(p)
         PROVE  ServeInv'
    BY <1>11, ExitServes DEF EndProcess
  <1>8. CASE ProbePort \/ StartService \/ StopService
    <2>1. /\ UNCHANGED <<port, mutex, boot, holds, alert, systemDns, remote, forced, late>>
          /\ \/ /\ main[Service] = "run" /\ main' = [main EXCEPT ![Service] = "close"]
             \/ /\ main[Service] \in {"off", "probe"}
                /\ \E label \in {"off", "probe", "load"} : main' = [main EXCEPT ![Service] = label]
      BY <1>8 DEF ProbePort, StartService, StopService, MainGoes, switch
    <2>2. ASSUME NEW label \in {"off", "probe", "load"}, main[Service] \in {"off", "probe"},
                 main' = [main EXCEPT ![Service] = label]
          PROVE  ServeInv'
      BY <2>1, <2>2, MoveServes DEF MainLabels
    <2>3. CASE main[Service] = "run" /\ main' = [main EXCEPT ![Service] = "close"]
      BY <2>1, <2>3, MoveServes DEF MainLabels
    <2> QED BY <2>1, <2>2, <2>3
  <1>9. CASE InstallService \/ Uninstall \/ ReportStopped \/ UNCHANGED instVars
    <2>1. UNCHANGED <<port, mutex, main, boot, holds, alert, systemDns, remote, forced, late>>
      BY <1>9 DEF InstallService, Uninstall, ReportStopped, instVars, machine, process, switch
    <2> QED BY <2>1 DEF ServeInv, InstTypes, TasksFit, MutexFits, HoldersServe
  <1> QED
    BY <1>1, <1>2, <1>3, <1>4, <1>5, <1>6, <1>7, <1>8, <1>9, <1>10, <1>11 DEF InstNext

\* The machine's DNS points at the program only while a process of it answers:
\* for one window and the service, in whatever order they are installed,
\* started, attached, switched and stopped, but for an override that a process
\* sets after its last restore.
THEOREM OverrideIsServed == OneWindow /\ InstSpec => []ServedOverride
  <1>1. InstInit => ServeInv
    <2> SUFFICES ASSUME InstInit PROVE ServeInv
      OBVIOUS
    <2>1. /\ port = Nobody /\ mutex = Nobody /\ systemDns = "owner" /\ forced = FALSE
          /\ main = [p \in Programs |-> "off"] /\ boot = [p \in Programs |-> "none"]
          /\ holds = [p \in Programs |-> FALSE] /\ alert = [p \in Programs |-> FALSE]
          /\ remote = [p \in Programs |-> FALSE] /\ late = FALSE
      BY DEF InstInit
    <2>2. InstTypes
      BY <2>1 DEF InstTypes, MainLabels, BootLabels
    <2>3. TasksFit /\ MutexFits /\ HoldersServe
      BY <2>1, Names DEF TasksFit, MutexFits, HoldersServe
    <2> QED BY <2>2, <2>3 DEF ServeInv
  <1>2. ServeInv => ServedOverride
    BY Names DEF ServeInv, InstTypes, TasksFit, HoldersServe, ServedOverride
  <1>3. OneWindow /\ ServeInv /\ [InstNext]_instVars => OneWindow' /\ ServeInv'
    BY ServeStep DEF OneWindow
  <1> QED BY <1>1, <1>2, <1>3, PTL DEF InstSpec

------------------------------------------------------------------------------
(***************************************************************************)
(* The scan of a folder.  Everything it owes is said of one scan, a record *)
(* of sweep, so that a step is about the record it leaves.                 *)
(***************************************************************************)
\* The threats are those among the files scanned, and there is budget left for
\* the file in hand.
Counted(w) ==
    /\ w.report.threats = {f \in w.report.scanned : LevelOf[f] \in ThreatLevels}
    /\ IsFiniteSet(w.report.scanned) /\ Cardinality(w.report.scanned) <= MaxFiles
    /\ w.pc = "file" => w.hand \in ScanFiles /\ Cardinality(w.report.scanned) < MaxFiles

\* A scan that has not begun has nothing to report, and starts at a folder.
Begun(w) ==
    /\ w.pc \in {"none", "start"} => w.report = EmptyReport /\ w.left = {}
    /\ w.pc = "start" => w.root \in Folders
    /\ w.pc = "folders" => w.left = {}

\* The folders that wait.
Waiting(stack) == {stack[i] : i \in 1 .. Len(stack)}

\* While nothing has cut it short, a scan has dealt with each entry it met, has
\* it still to take, or has it in hand; and of each canonical path it visited
\* it has read a name, met one that is skipped, or has one that waits.
Complete(w) ==
    LET r == w.report
        met == Met(r.read) IN
    /\ w.pc \in Walks => w.left \subseteq met
    /\ ~r.cancelled /\ ~r.budget =>
         /\ w.pc = "over" => Covers(r)
         /\ w.pc \in Walks =>
              /\ \A e \in (met \ w.left) \ Folders :
                   \/ LevelOf[e] = "other" \/ e \in r.scanned \union r.skipped
                   \/ w.pc = "file" /\ e = w.hand
              /\ \A e \in (met \ w.left) \intersect Folders : RealOf[e] \in w.visited
              /\ \A v \in w.visited :
                   \E d \in r.read \union r.unread \union (met \intersect SkippedFolders)
                             \union Waiting(w.stack) :
                     RealOf[d] = v

\* The engine knows the malicious files.
Told(w, engine) == {f \in w.report.threats : LevelOf[f] = "MALICIOUS"} \subseteq engine

Sound(w, engine) == Counted(w) /\ Begun(w) /\ Complete(w) /\ Told(w, engine)

\* A stop that counts is still set.  After it, only the file that was in hand
\* is scanned: the next one is asked for where cancel is read.
StopFits(s) ==
    /\ stops[s].pressed => cancel
    /\ ~stops[s].pressed => stops[s].late = 0
    /\ stops[s].late <= 1
    /\ ScanAt(s, "file") => stops[s].late = 0

CancelFits(s) ==
    sweep[s].report.cancelled => cancel \/ \E t \in Scans \ {s} : ~ScanAt(t, "none")

LocInv ==
    /\ cancel \in BOOLEAN /\ alerted \subseteq ScanFiles
    /\ sweep \in [Scans -> Sweeps]
    /\ stops \in [Scans -> [pressed : BOOLEAN, late : Nat]]
    /\ \A s \in Scans : Sound(sweep[s], alerted) /\ StopFits(s) /\ CancelFits(s)

LEMMA EmptyIsCounted ==
  /\ EmptyReport \in Reports /\ Met({}) = {} /\ Covers(EmptyReport)
  /\ \A w \in Sweeps : w.report = EmptyReport /\ w.pc # "file" => Counted(w)
  /\ \A w, engine : w.report = EmptyReport => Told(w, engine)
  <1>1. EmptyReport \in Reports
    BY DEF EmptyReport, Reports
  <1>2. Met({}) = {}
    BY DEF Met
  <1>3. Covers(EmptyReport)
    BY <1>2 DEF Covers, EmptyReport
  <1>4. ASSUME NEW w \in Sweeps, w.report = EmptyReport, w.pc # "file"
        PROVE  Counted(w)
    <2>1. IsFiniteSet({}) /\ Cardinality({}) = 0
      BY FS_EmptySet
    <2> QED BY <1>4, <2>1, LocationAssumption DEF Counted, EmptyReport
  <1>5. \A w, engine : w.report = EmptyReport => Told(w, engine)
    BY DEF Told, EmptyReport
  <1> QED BY <1>1, <1>2, <1>3, <1>4, <1>5

LEMMA NoScanIsSound ==
  NoScan \in Sweeps /\ NoScan.pc = "none" /\ \A engine : Sound(NoScan, engine)
  <1>1. NoScan \in Sweeps /\ NoScan.report = EmptyReport /\ NoScan.left = {} /\ NoScan.pc = "none"
    BY EmptyIsCounted DEF NoScan, Sweeps, AnyFolder, Walks
  <1>2. Counted(NoScan) /\ \A engine : Told(NoScan, engine)
    BY <1>1, EmptyIsCounted
  <1>3. Begun(NoScan) /\ Complete(NoScan)
    BY <1>1 DEF Begun, Complete, Walks
  <1> QED BY <1>1, <1>2, <1>3 DEF Sound

LEMMA StackPushed ==
  ASSUME NEW stack \in Seq(Folders), NEW e \in Folders
  PROVE  /\ Append(stack, e) \in Seq(Folders)
         /\ Waiting(stack) \subseteq Waiting(Append(stack, e)) /\ e \in Waiting(Append(stack, e))
  <1> DEFINE more == Append(stack, e)
  <1>1. more \in Seq(Folders) /\ Len(more) = Len(stack) + 1 /\ Len(stack) \in Nat
    OBVIOUS
  <1>2. more[Len(stack) + 1] = e /\ \A i \in 1 .. Len(stack) : more[i] = stack[i]
    OBVIOUS
  <1> HIDE DEF more
  <1>3. Waiting(more) = {more[i] : i \in 1 .. Len(stack) + 1}
    BY <1>1 DEF Waiting
  <1>4. Waiting(stack) \subseteq Waiting(more)
    BY <1>1, <1>2, <1>3 DEF Waiting
  <1>5. e \in Waiting(more)
    BY <1>1, <1>2, <1>3
  <1> QED BY <1>1, <1>4, <1>5 DEF more

LEMMA StackPopped ==
  ASSUME NEW stack \in Seq(Folders), stack # <<>>
  PROVE  /\ SubSeq(stack, 1, Len(stack) - 1) \in Seq(Folders) /\ stack[Len(stack)] \in Folders
         /\ Waiting(stack) \subseteq
              Waiting(SubSeq(stack, 1, Len(stack) - 1)) \union {stack[Len(stack)]}
  <1>1. Len(stack) \in Nat \ {0} /\ stack[Len(stack)] \in Folders
    OBVIOUS
  <1> DEFINE n == Len(stack) - 1
  <1>2. n \in 0 .. Len(stack) /\ Len(stack) = n + 1
    BY <1>1
  <1> HIDE DEF n
  <1> DEFINE rest == SubSeq(stack, 1, n)
  <1>3. /\ rest \in Seq(Folders) /\ Len(rest) = n
        /\ \A i \in 1 .. n : rest[i] = stack[i]
    BY <1>2
  <1> HIDE DEF rest
  <1>4. ASSUME NEW i \in 1 .. Len(stack)
        PROVE  stack[i] \in Waiting(rest) \union {stack[Len(stack)]}
    <2>1. CASE i = Len(stack)
      BY <2>1
    <2>2. CASE i # Len(stack)
      <3>1. i \in 1 .. Len(rest)
        BY <1>2, <1>3, <2>2
      <3> QED BY <3>1, <1>2, <1>3 DEF Waiting
    <2> QED BY <2>1, <2>2
  <1>5. Waiting(stack) \subseteq Waiting(rest) \union {stack[Len(stack)]}
    BY <1>4 DEF Waiting
  <1> QED BY <1>1, <1>3, <1>5 DEF rest, n

\* What a step that Goes(s, w) leaves, if w is sound.
LEMMA GoesKeeps ==
  ASSUME LocInv, NEW s \in Scans, NEW w \in Sweeps, Goes(s, w),
         alerted' \subseteq ScanFiles, alerted \subseteq alerted', Sound(w, alerted'),
         ~ScanAt(s, "none"), w.pc # "none", UNCHANGED cancel,
         w.report.cancelled => sweep[s].report.cancelled \/ cancel,
         stops' \in [Scans -> [pressed : BOOLEAN, late : Nat]],
         \A t \in Scans : stops'[t].pressed = stops[t].pressed,
         \A t \in Scans \ {s} : stops'[t] = stops[t],
         ~stops'[s].pressed => stops'[s].late = 0,
         stops'[s].late <= 1, w.pc = "file" => stops'[s].late = 0
  PROVE  LocInv'
  <1>1. /\ sweep' \in [Scans -> Sweeps] /\ sweep'[s] = w
        /\ \A t \in Scans \ {s} : sweep'[t] = sweep[t]
    BY DEF Goes, LocInv
  <1>2. \A t \in Scans : sweep'[t].pc = "none" => sweep[t].pc = "none" /\ t # s
    BY <1>1
  <1>3. \A t \in Scans : Sound(sweep'[t], alerted')
    <2> SUFFICES ASSUME NEW t \in Scans PROVE Sound(sweep'[t], alerted')
      OBVIOUS
    <2>1. CASE t = s
      BY <2>1, <1>1
    <2>2. CASE t # s
      <3>1. Sound(sweep[t], alerted) /\ sweep'[t] = sweep[t]
        BY <1>1, <2>2 DEF LocInv
      <3> QED BY <3>1 DEF Sound, Told
    <2> QED BY <2>1, <2>2
  <1>4. \A t \in Scans : StopFits(t)'
    <2> SUFFICES ASSUME NEW t \in Scans PROVE StopFits(t)'
      OBVIOUS
    <2>1. StopFits(t) /\ StopFits(s)
      BY DEF LocInv
    <2>2. CASE t = s
      BY <2>1, <2>2, <1>1 DEF StopFits, ScanAt
    <2>3. CASE t # s
      BY <2>1, <2>3, <1>1 DEF StopFits, ScanAt
    <2> QED BY <2>2, <2>3
  <1>5. \A t \in Scans : CancelFits(t)'
    <2> SUFFICES ASSUME NEW t \in Scans PROVE CancelFits(t)'
      OBVIOUS
    <2>1. CancelFits(t)
      BY DEF LocInv
    <2>2. sweep'[t].report.cancelled => sweep[t].report.cancelled \/ cancel
      BY <1>1
    <2> QED BY <2>1, <2>2, <1>2 DEF CancelFits, ScanAt
  <1> QED BY <1>1, <1>3, <1>4, <1>5 DEF LocInv

\* The same, for a step that scans no file.
LEMMA WalkKeeps ==
  ASSUME LocInv, NEW s \in Scans, NEW w \in Sweeps, Goes(s, w), Sound(w, alerted),
         ~ScanAt(s, "none"), w.pc # "none", UNCHANGED <<cancel, alerted, stops>>,
         w.report.cancelled => sweep[s].report.cancelled \/ cancel,
         w.pc = "file" => ~cancel
  PROVE  LocInv'
  <1>1. StopFits(s) /\ alerted \subseteq ScanFiles
        /\ stops \in [Scans -> [pressed : BOOLEAN, late : Nat]]
    BY DEF LocInv
  <1>2. w.pc = "file" => stops'[s].late = 0
    BY <1>1 DEF StopFits
  <1>3. (~stops'[s].pressed => stops'[s].late = 0) /\ stops'[s].late <= 1
    BY <1>1 DEF StopFits
  <1> QED BY <1>1, <1>2, <1>3, GoesKeeps

LEMMA EndSound ==
  ASSUME LocInv, NEW s \in Scans, NEW report \in Reports, EndScan(s, report),
         ~ScanAt(s, "none"), UNCHANGED <<cancel, alerted, stops>>,
         report.threats = {f \in report.scanned : LevelOf[f] \in ThreatLevels},
         IsFiniteSet(report.scanned), Cardinality(report.scanned) <= MaxFiles,
         {f \in report.threats : LevelOf[f] = "MALICIOUS"} \subseteq alerted,
         ~report.cancelled /\ ~report.budget => Covers(report),
         report.cancelled => sweep[s].report.cancelled \/ cancel
  PROVE  LocInv'
  <1> DEFINE w == [NoScan EXCEPT !.pc = "over", !.root = sweep[s].root, !.report = report]
  <1>1. Goes(s, w)
    BY DEF EndScan
  <1>2. NoScan \in Sweeps /\ sweep[s].root \in AnyFolder /\ NoScan.left = {}
    BY NoScanIsSound DEF Sweeps, LocInv, NoScan
  <1>3. w \in Sweeps /\ w.pc = "over" /\ w.report = report /\ w.left = {}
    BY <1>2 DEF Sweeps
  <1> HIDE DEF w
  <1>4. Counted(w) /\ Begun(w) /\ Told(w, alerted)
    BY <1>3 DEF Counted, Begun, Told
  <1>5. Complete(w)
    BY <1>3 DEF Complete, Walks
  <1> QED BY <1>1, <1>3, <1>4, <1>5, WalkKeeps DEF Sound

LEMMA ChooseKeeps ==
  ASSUME LocInv, NEW s \in Scans, NEW root \in Roots, ChooseFolder(s, root)
  PROVE  LocInv'
  <1> DEFINE w == [sweep[s] EXCEPT !.pc = "start", !.root = root]
  <1>1. sweep[s] \in Sweeps /\ Sound(sweep[s], alerted) /\ sweep[s].pc = "none"
    BY DEF LocInv, ChooseFolder, ScanAt
  <1>2. root \in Folders
    BY LocationAssumption
  <1>3. /\ w \in Sweeps /\ w.pc = "start" /\ w.root = root
        /\ w.report = sweep[s].report /\ w.left = sweep[s].left
    BY <1>1, <1>2 DEF Sweeps, AnyFolder
  <1>4. /\ sweep' \in [Scans -> Sweeps] /\ sweep'[s] = w
        /\ \A t \in Scans \ {s} : sweep'[t] = sweep[t]
    <2>1. sweep' = [sweep EXCEPT ![s] = w]
      BY DEF ChooseFolder, LocInv
    <2> HIDE DEF w
    <2> QED BY <2>1, <1>3 DEF LocInv
  <1> HIDE DEF w
  <1>5. sweep[s].report = EmptyReport
    BY <1>1 DEF Sound, Begun
  <1>6. Sound(w, alerted)
    <2>1. Counted(w) /\ Told(w, alerted)
      BY <1>3, <1>5, EmptyIsCounted
    <2>2. Begun(w) /\ Complete(w)
      BY <1>1, <1>2, <1>3, <1>5 DEF Begun, Complete, Walks, Sound
    <2> QED BY <2>1, <2>2 DEF Sound
  <1>7. /\ stops' \in [Scans -> [pressed : BOOLEAN, late : Nat]] /\ cancel' = FALSE
        /\ \A t \in Scans : ~stops'[t].pressed /\ stops'[t].late = 0
        /\ alerted' = alerted
    BY DEF ChooseFolder
  <1>8. \A t \in Scans : StopFits(t)'
    BY <1>7 DEF StopFits
  <1>9. \A t \in Scans : CancelFits(t)'
    <2> SUFFICES ASSUME NEW t \in Scans, sweep'[t].report.cancelled PROVE CancelFits(t)'
      BY DEF CancelFits
    <2>1. t # s
      BY <1>3, <1>4, <1>5 DEF EmptyReport
    <2>2. ~ScanAt(s, "none")'
      BY <1>3, <1>4 DEF ScanAt
    <2> QED BY <2>1, <2>2 DEF CancelFits
  <1>10. \A t \in Scans : Sound(sweep'[t], alerted')
    BY <1>4, <1>6, <1>7 DEF LocInv
  <1> QED BY <1>4, <1>7, <1>8, <1>9, <1>10 DEF LocInv

\* The stop button, and the window.
LEMMA ButtonsKeep ==
  ASSUME LocInv, StopScan \/ ShowScan
  PROVE  LocInv'
  <1>1. CASE StopScan
    <2>1. /\ sweep' = sweep /\ alerted' = alerted /\ cancel' = TRUE
          /\ stops' \in [Scans -> [pressed : BOOLEAN, late : Nat]]
          /\ \A s \in Scans : stops'[s].late = stops[s].late
          /\ \A s \in Scans : stops[s].pressed => stops'[s].pressed
      BY <1>1 DEF StopScan, LocInv
    <2>2. ASSUME NEW s \in Scans PROVE StopFits(s)'
      <3>1. StopFits(s)
        BY DEF LocInv
      <3>2. /\ stops'[s].late = stops[s].late /\ sweep'[s].pc = sweep[s].pc
            /\ stops[s].pressed => stops'[s].pressed
        BY <2>1
      <3> QED BY <2>1, <3>1, <3>2 DEF StopFits, ScanAt
    <2>3. \A s \in Scans : CancelFits(s)'
      BY <2>1 DEF CancelFits
    <2>4. \A s \in Scans : Sound(sweep'[s], alerted')
      BY <2>1 DEF LocInv
    <2> QED BY <2>1, <2>2, <2>3, <2>4 DEF LocInv
  <1>2. CASE ShowScan
    BY <1>2 DEF ShowScan, LocInv, StopFits, CancelFits, ScanAt
  <1> QED BY <1>1, <1>2

LEMMA StartKeeps ==
  ASSUME LocInv, NEW s \in Scans, StartScan(s)
  PROVE  LocInv'
  <1> DEFINE old == sweep[s]
  <1>1. old \in Sweeps /\ Sound(old, alerted) /\ old.pc = "start" /\ ~ScanAt(s, "none")
    BY DEF LocInv, StartScan, ScanAt
  <1>2. old.report = EmptyReport /\ old.left = {} /\ old.root \in Folders
    BY <1>1 DEF Sound, Begun
  <1>3. CASE old.root \in SkippedFolders
    <2>1. EndScan(s, EmptyReport) /\ UNCHANGED <<cancel, alerted, stops>>
      BY <1>3 DEF StartScan
    <2>2. IsFiniteSet({}) /\ Cardinality({}) = 0
      BY FS_EmptySet
    <2>3. EmptyReport.threats = {} /\ EmptyReport.scanned = {} /\ ~EmptyReport.cancelled
      BY DEF EmptyReport
    <2>4. Cardinality(EmptyReport.scanned) <= MaxFiles
      BY <2>2, <2>3, LocationAssumption
    <2> QED BY <1>1, <2>1, <2>2, <2>3, <2>4, EmptyIsCounted, EndSound
  <1>4. CASE old.root \notin SkippedFolders
    <2> DEFINE w == [old EXCEPT !.pc = "folders", !.stack = <<old.root>>,
                                !.visited = {RealOf[old.root]}]
    <2>1. Goes(s, w) /\ UNCHANGED <<cancel, alerted, stops>>
      BY <1>4 DEF StartScan
    <2>2. RealOf[old.root] \in Folders /\ <<old.root>> \in Seq(Folders)
      BY <1>2, LocationAssumption
    <2>3. /\ w \in Sweeps /\ w.pc = "folders" /\ w.stack = <<old.root>>
          /\ w.visited = {RealOf[old.root]} /\ w.report = EmptyReport /\ w.left = {}
      BY <1>1, <1>2, <2>2 DEF Sweeps, Walks
    <2> HIDE DEF w
    <2>4. Counted(w) /\ Told(w, alerted) /\ Begun(w)
      BY <2>3, EmptyIsCounted DEF Begun
    <2>5. old.root \in Waiting(w.stack)
      BY <2>3 DEF Waiting
    <2>6. w.report.read = {} /\ ~w.report.cancelled
      BY <2>3 DEF EmptyReport
    <2>7. Complete(w)
      BY <2>3, <2>5, <2>6, EmptyIsCounted DEF Complete
    <2> QED BY <1>1, <2>1, <2>3, <2>4, <2>6, <2>7, WalkKeeps DEF Sound
  <1> QED BY <1>3, <1>4

LEMMA FolderKeeps ==
  ASSUME LocInv, NEW s \in Scans, NextFolder(s)
  PROVE  LocInv'
  <1> DEFINE old == sweep[s]
             r == old.report
  <1>1. /\ old \in Sweeps /\ Sound(old, alerted) /\ old.pc = "folders"
        /\ ~ScanAt(s, "none") /\ old.left = {} /\ UNCHANGED <<cancel, alerted, stops>>
    BY DEF LocInv, NextFolder, ScanAt, Sound, Begun
  <1>2. /\ r \in Reports /\ r.read \subseteq Folders /\ r.unread \subseteq Folders
        /\ old.stack \in Seq(Folders) /\ r.cancelled \in BOOLEAN /\ r.budget \in BOOLEAN
    BY <1>1 DEF Sweeps, Reports
  <1>3. /\ r.threats = {f \in r.scanned : LevelOf[f] \in ThreatLevels}
        /\ IsFiniteSet(r.scanned) /\ Cardinality(r.scanned) <= MaxFiles
        /\ {f \in r.threats : LevelOf[f] = "MALICIOUS"} \subseteq alerted
    BY <1>1 DEF Sound, Counted, Told
  <1>4. CASE old.stack = <<>> /\ EndScan(s, r)
    <2>1. ASSUME ~r.cancelled, ~r.budget PROVE Covers(r)
      <3> DEFINE met == Met(r.read)
      <3>1. /\ \A e \in met \ Folders : LevelOf[e] = "other" \/ e \in r.scanned \union r.skipped
            /\ \A e \in met \intersect Folders : RealOf[e] \in old.visited
            /\ \A v \in old.visited :
                 \E d \in r.read \union r.unread \union (met \intersect SkippedFolders)
                           \union Waiting(old.stack) : RealOf[d] = v
        BY <1>1, <2>1 DEF Sound, Complete, Walks
      <3>2. Waiting(old.stack) = {}
        BY <1>4 DEF Waiting
      <3> QED BY <3>1, <3>2 DEF Covers
    <2> QED BY <1>1, <1>2, <1>3, <1>4, <2>1, EndSound
  <1>5. ASSUME NEW n \in Reports, EndScan(s, n), n.cancelled \/ n.budget,
               n.scanned = r.scanned, n.threats = r.threats,
               n.cancelled => r.cancelled \/ cancel
        PROVE  LocInv'
    BY <1>1, <1>3, <1>5, EndSound
  <1>6. CASE cancel /\ EndScan(s, [r EXCEPT !.cancelled = TRUE])
    <2> DEFINE n == [r EXCEPT !.cancelled = TRUE]
    <2>1. n \in Reports /\ n.cancelled /\ n.scanned = r.scanned /\ n.threats = r.threats
      BY <1>2 DEF Reports
    <2> QED BY <1>5, <1>6, <2>1
  <1>7. CASE EndScan(s, [r EXCEPT !.budget = TRUE])
    <2> DEFINE n == [r EXCEPT !.budget = TRUE]
    <2>1. /\ n \in Reports /\ n.budget /\ n.scanned = r.scanned /\ n.threats = r.threats
          /\ n.cancelled = r.cancelled
      BY <1>2 DEF Reports
    <2> QED BY <1>5, <1>7, <2>1
  <1> DEFINE top == old.stack[Len(old.stack)]
             rest == SubSeq(old.stack, 1, Len(old.stack) - 1)
             read == [old EXCEPT !.pc = "entries", !.stack = rest, !.left = Holds[top],
                                 !.report.read = @ \union {top}]
             unread == [old EXCEPT !.stack = rest, !.report.unread = @ \union {top}]
  <1>8. ASSUME NEW w \in Sweeps, old.stack # <<>>, Goes(s, w), w.pc \in {"folders", "entries"},
               w.stack = rest, w.visited = old.visited, w.left = Holds[top] \/ w.left = {},
               w.pc = "folders" => w.left = {}, w.left = {} \/ top \in w.report.read,
               w.report.scanned = r.scanned, w.report.skipped = r.skipped,
               w.report.threats = r.threats,
               w.report.cancelled = r.cancelled, w.report.budget = r.budget,
               \/ w.report.read = r.read \union {top} /\ w.report.unread = r.unread
                  /\ w.left = Holds[top]
               \/ w.report.read = r.read /\ w.report.unread = r.unread \union {top}
                  /\ w.left = {}
        PROVE  LocInv'
    <2>1. /\ top \in Folders /\ rest \in Seq(Folders)
          /\ Waiting(old.stack) \subseteq Waiting(w.stack) \union {top}
      BY <1>2, <1>8, StackPopped
    <2> HIDE DEF top, rest
    <2>2. Met(r.read) \subseteq Met(w.report.read) /\ w.left \subseteq Met(w.report.read)
      BY <1>8 DEF Met
    <2>3. Met(w.report.read) \ w.left \subseteq Met(r.read)
      BY <1>8 DEF Met
    <2>4. Counted(w) /\ Begun(w) /\ Told(w, alerted)
      BY <1>3, <1>8 DEF Counted, Begun, Told
    <2>5. Complete(w)
      <3> SUFFICES ASSUME ~w.report.cancelled, ~w.report.budget
                   PROVE  /\ \A e \in (Met(w.report.read) \ w.left) \ Folders :
                               LevelOf[e] = "other" \/ e \in r.scanned \union r.skipped
                          /\ \A e \in (Met(w.report.read) \ w.left) \intersect Folders :
                               RealOf[e] \in w.visited
                          /\ \A v \in w.visited :
                               \E d \in w.report.read \union w.report.unread
                                         \union (Met(w.report.read) \intersect SkippedFolders)
                                         \union Waiting(w.stack) : RealOf[d] = v
        BY <1>8, <2>2 DEF Complete
      <3>1. /\ \A e \in Met(r.read) \ Folders :
                 LevelOf[e] = "other" \/ e \in r.scanned \union r.skipped
            /\ \A e \in Met(r.read) \intersect Folders : RealOf[e] \in old.visited
            /\ \A v \in old.visited :
                 \E d \in r.read \union r.unread \union (Met(r.read) \intersect SkippedFolders)
                           \union Waiting(old.stack) : RealOf[d] = v
        BY <1>1, <1>8 DEF Sound, Complete, Walks
      <3>2. r.read \union r.unread \union (Met(r.read) \intersect SkippedFolders)
              \union Waiting(old.stack)
            \subseteq w.report.read \union w.report.unread
              \union (Met(w.report.read) \intersect SkippedFolders) \union Waiting(w.stack)
        BY <1>8, <2>1, <2>2
      <3> QED BY <1>8, <2>3, <3>1, <3>2
    <2> QED BY <1>1, <1>8, <2>4, <2>5, WalkKeeps DEF Sound
  <1>9. CASE old.stack # <<>> /\ (Goes(s, read) \/ Goes(s, unread))
    <2>1. top \in Folders /\ rest \in Seq(Folders) /\ Holds[top] \subseteq Folders \union ScanFiles
      BY <1>2, <1>9, StackPopped, LocationAssumption
    <2> HIDE DEF top, rest
    <2>2. /\ read \in Sweeps /\ unread \in Sweeps
          /\ read.pc = "entries" /\ read.stack = rest /\ read.visited = old.visited
          /\ read.left = Holds[top] /\ read.report = [r EXCEPT !.read = @ \union {top}]
          /\ unread.pc = "folders" /\ unread.stack = rest /\ unread.visited = old.visited
          /\ unread.left = {} /\ unread.report = [r EXCEPT !.unread = @ \union {top}]
      BY <1>1, <1>2, <2>1 DEF Sweeps, Reports, Walks
    <2> HIDE DEF read, unread
    <2>3. CASE Goes(s, read)
      BY <1>2, <1>8, <1>9, <2>2, <2>3 DEF Reports
    <2>4. CASE Goes(s, unread)
      BY <1>2, <1>8, <1>9, <2>2, <2>4 DEF Reports
    <2> QED BY <1>9, <2>3, <2>4
  <1>10. \/ old.stack = <<>> /\ EndScan(s, r)
         \/ cancel /\ EndScan(s, [r EXCEPT !.cancelled = TRUE])
         \/ EndScan(s, [r EXCEPT !.budget = TRUE])
         \/ old.stack # <<>> /\ (Goes(s, read) \/ Goes(s, unread))
    BY DEF NextFolder
  <1> QED BY <1>4, <1>6, <1>7, <1>9, <1>10

LEMMA EntryKeeps ==
  ASSUME LocInv, NEW s \in Scans, NextEntry(s)
  PROVE  LocInv'
  <1> DEFINE old == sweep[s]
             r == old.report
             out == [old EXCEPT !.pc = "folders", !.left = {}]
  <1>1. /\ old \in Sweeps /\ Sound(old, alerted) /\ old.pc = "entries"
        /\ ~ScanAt(s, "none") /\ UNCHANGED <<cancel, alerted, stops>>
    BY DEF LocInv, NextEntry, ScanAt
  <1>2. /\ r \in Reports /\ old.stack \in Seq(Folders) /\ r.cancelled \in BOOLEAN
        /\ r.scanned \subseteq ScanFiles /\ old.left \subseteq Folders \union ScanFiles
        /\ old.visited \subseteq Folders
    BY <1>1 DEF Sweeps, Reports
  <1>3. /\ r.threats = {f \in r.scanned : LevelOf[f] \in ThreatLevels}
        /\ IsFiniteSet(r.scanned) /\ Cardinality(r.scanned) <= MaxFiles
        /\ {f \in r.threats : LevelOf[f] = "MALICIOUS"} \subseteq alerted
        /\ old.left \subseteq Met(r.read)
    BY <1>1 DEF Sound, Counted, Told, Complete, Walks
  \* The folder is left.
  <1>4. ASSUME NEW w \in Sweeps, Goes(s, w), w.pc = "folders", w.left = {},
               w.report.scanned = r.scanned, w.report.threats = r.threats,
               w.report.cancelled => r.cancelled \/ cancel,
               \/ w.report.cancelled \/ w.report.budget
               \/ /\ old.left = {} /\ w.report = r
                  /\ w.stack = old.stack /\ w.visited = old.visited
        PROVE  LocInv'
    <2>1. Counted(w) /\ Begun(w) /\ Told(w, alerted)
      BY <1>3, <1>4 DEF Counted, Begun, Told
    <2>2. Complete(w)
      <3>1. CASE w.report.cancelled \/ w.report.budget
        BY <1>4, <3>1 DEF Complete
      <3>2. CASE /\ old.left = {} /\ w.report = r /\ w.stack = old.stack
                 /\ w.visited = old.visited
        BY <1>1, <1>4, <3>2 DEF Sound, Complete, Walks
      <3> QED BY <1>4, <3>1, <3>2
    <2> QED BY <1>1, <1>4, <2>1, <2>2, WalkKeeps DEF Sound
  <1>5. /\ out \in Sweeps /\ out.pc = "folders" /\ out.left = {} /\ out.report = r
        /\ out.stack = old.stack /\ out.visited = old.visited
    BY <1>1 DEF Sweeps, Walks
  <1>6. CASE old.left = {} /\ Goes(s, out)
    BY <1>4, <1>5, <1>6
  <1>7. CASE cancel /\ Goes(s, [out EXCEPT !.report.cancelled = TRUE])
    <2> DEFINE w == [out EXCEPT !.report.cancelled = TRUE]
    <2>1. /\ w \in Sweeps /\ w.pc = "folders" /\ w.left = {} /\ w.report.cancelled
          /\ w.report.scanned = r.scanned /\ w.report.threats = r.threats
      BY <1>2, <1>5 DEF Sweeps, Reports
    <2> HIDE DEF w
    <2> QED BY <1>4, <1>7, <2>1 DEF w
  <1>8. CASE Goes(s, [out EXCEPT !.report.budget = TRUE])
    <2> DEFINE w == [out EXCEPT !.report.budget = TRUE]
    <2>1. /\ w \in Sweeps /\ w.pc = "folders" /\ w.left = {} /\ w.report.budget
          /\ w.report.scanned = r.scanned /\ w.report.threats = r.threats
          /\ w.report.cancelled = r.cancelled
      BY <1>2, <1>5 DEF Sweeps, Reports
    <2> HIDE DEF w
    <2> QED BY <1>4, <1>8, <2>1 DEF w
  \* An entry is taken.
  <1>9. ASSUME ~cancel, ~BudgetSpent(s), NEW e \in old.left, Goes(s, Taken(old, e))
        PROVE  LocInv'
    <2> DEFINE w == Taken(old, e)
               v == [old EXCEPT !.left = @ \ {e}]
    <2>1. Cardinality(r.scanned) < MaxFiles
      BY <1>3, <1>9, FS_CardinalityType, LocationAssumption DEF BudgetSpent
    <2>2. /\ v \in Sweeps /\ v.pc = "entries" /\ v.left = old.left \ {e} /\ v.report = r
          /\ v.stack = old.stack /\ v.visited = old.visited /\ v.hand = old.hand
      BY <1>1 DEF Sweeps
    \* What is left of Sound to show of the record.
    <2>3. ASSUME NEW x \in Sweeps, x = w, x.pc \in {"entries", "file"},
                 x.left = old.left \ {e}, x.pc = "file" => x.hand \in ScanFiles,
                 \E m \in SUBSET ScanFiles : x.report = [r EXCEPT !.skipped = @ \union m],
                 e \notin Folders =>
                   \/ LevelOf[e] = "other" \/ e \in x.report.skipped
                   \/ x.pc = "file" /\ e = x.hand,
                 e \in Folders => RealOf[e] \in x.visited,
                 old.visited \subseteq x.visited, Waiting(old.stack) \subseteq Waiting(x.stack),
                 \A u \in x.visited \ old.visited :
                   e \in Folders /\ u = RealOf[e] /\ e \in SkippedFolders \union Waiting(x.stack)
          PROVE  LocInv'
      <3>1. PICK m \in SUBSET ScanFiles : x.report = [r EXCEPT !.skipped = @ \union m]
        BY <2>3
      <3>2. /\ x.report.scanned = r.scanned /\ x.report.threats = r.threats
            /\ x.report.read = r.read /\ x.report.unread = r.unread
            /\ x.report.cancelled = r.cancelled /\ x.report.budget = r.budget
            /\ r.skipped \subseteq x.report.skipped
        BY <1>2, <3>1 DEF Reports
      <3>3. Counted(x) /\ Begun(x) /\ Told(x, alerted)
        BY <1>3, <2>1, <2>3, <3>2 DEF Counted, Begun, Told
      <3>4. Complete(x)
        <4> DEFINE met == Met(r.read)
        <4>1. e \in met /\ x.left \subseteq met
          BY <1>3, <2>3
        <4> SUFFICES ASSUME ~r.cancelled, ~r.budget
                     PROVE  /\ \A d \in (met \ x.left) \ Folders :
                                 \/ LevelOf[d] = "other" \/ d \in r.scanned \union x.report.skipped
                                 \/ x.pc = "file" /\ d = x.hand
                            /\ \A d \in (met \ x.left) \intersect Folders : RealOf[d] \in x.visited
                            /\ \A u \in x.visited :
                                 \E d \in r.read \union r.unread \union (met \intersect SkippedFolders)
                                           \union Waiting(x.stack) : RealOf[d] = u
          BY <2>3, <3>2, <4>1 DEF Complete
        <4>2. /\ \A d \in (met \ old.left) \ Folders :
                   LevelOf[d] = "other" \/ d \in r.scanned \union r.skipped
              /\ \A d \in (met \ old.left) \intersect Folders : RealOf[d] \in old.visited
              /\ \A u \in old.visited :
                   \E d \in r.read \union r.unread \union (met \intersect SkippedFolders)
                             \union Waiting(old.stack) : RealOf[d] = u
          BY <1>1 DEF Sound, Complete, Walks
        <4> HIDE DEF met
        <4>3. \A d \in met \ x.left : d \in met \ old.left \/ d = e
          BY <2>3
        <4>4. ASSUME NEW d \in (met \ x.left) \ Folders
              PROVE  \/ LevelOf[d] = "other" \/ d \in r.scanned \union x.report.skipped
                     \/ x.pc = "file" /\ d = x.hand
          BY <2>3, <3>2, <4>2, <4>3
        <4>5. \A d \in (met \ x.left) \intersect Folders : RealOf[d] \in x.visited
          BY <2>3, <4>2, <4>3
        <4>6. ASSUME NEW u \in x.visited
              PROVE  \E d \in r.read \union r.unread \union (met \intersect SkippedFolders)
                               \union Waiting(x.stack) : RealOf[d] = u
          <5>1. CASE u \in old.visited
            BY <2>3, <4>2, <5>1
          <5>2. CASE u \notin old.visited
            BY <2>3, <4>1, <5>2
          <5> QED BY <5>1, <5>2
        <4> QED BY <4>4, <4>5, <4>6
      <3> QED BY <1>1, <1>9, <2>3, <3>2, <3>3, <3>4, WalkKeeps DEF Sound
    <2> HIDE DEF v
    <2>4. CASE e \in Folders
      <3> DEFINE fresh == RealOf[e] \notin old.visited /\ e \notin SkippedFolders
                 pushed == IF fresh THEN Append(old.stack, e) ELSE old.stack
      <3>1. RealOf[e] \in Folders
        BY <2>4, LocationAssumption
      <3>2. /\ pushed \in Seq(Folders) /\ Waiting(old.stack) \subseteq Waiting(pushed)
            /\ fresh => e \in Waiting(pushed)
        BY <1>2, <2>4, StackPushed
      <3>3. w = [v EXCEPT !.visited = @ \union {RealOf[e]}, !.stack = pushed]
        BY <2>2, <2>4 DEF Taken, v
      <3> HIDE DEF w, pushed
      <3>4. /\ w \in Sweeps /\ w.pc = "entries" /\ w.left = old.left \ {e}
            /\ w.report = r /\ w.visited = old.visited \union {RealOf[e]} /\ w.stack = pushed
        BY <1>2, <2>2, <3>1, <3>2, <3>3 DEF Sweeps
      <3>5. w.report = [r EXCEPT !.skipped = @ \union {}] /\ {} \in SUBSET ScanFiles
        BY <1>2, <3>4 DEF Reports
      <3> QED BY <2>3, <2>4, <3>2, <3>4, <3>5 DEF w
    <2>5. CASE e \notin Folders
      <3>1. e \in ScanFiles
        BY <1>2, <2>5
      <3>2. CASE LevelOf[e] = "other"
        <4>1. w = v
          BY <2>5, <3>2 DEF Taken, v
        <4> HIDE DEF w
        <4>2. w.report = [r EXCEPT !.skipped = @ \union {}] /\ {} \in SUBSET ScanFiles
          BY <1>2, <2>2, <4>1 DEF Reports
        <4> QED BY <2>2, <2>3, <2>5, <3>2, <4>1, <4>2 DEF w
      <3>3. CASE LevelOf[e] = "empty"
        <4>1. w = [v EXCEPT !.report.skipped = @ \union {e}]
          BY <2>5, <3>3 DEF Taken, v
        <4> HIDE DEF w
        <4>2. /\ w \in Sweeps /\ w.pc = "entries" /\ w.left = old.left \ {e}
              /\ w.report = [r EXCEPT !.skipped = @ \union {e}] /\ e \in w.report.skipped
              /\ w.visited = old.visited /\ w.stack = old.stack
          BY <1>2, <2>2, <3>1, <4>1 DEF Sweeps, Reports
        <4> QED BY <2>3, <2>5, <3>1, <4>2 DEF w
      <3>4. CASE LevelOf[e] \notin {"other", "empty"}
        <4>1. w = [v EXCEPT !.pc = "file", !.hand = e]
          BY <2>5, <3>4 DEF Taken, v
        <4> HIDE DEF w
        <4>2. /\ w \in Sweeps /\ w.pc = "file" /\ w.left = old.left \ {e} /\ w.hand = e
              /\ w.report = r /\ w.visited = old.visited /\ w.stack = old.stack
          BY <2>2, <3>1, <4>1 DEF Sweeps, Walks
        <4>3. w.report = [r EXCEPT !.skipped = @ \union {}] /\ {} \in SUBSET ScanFiles
          BY <1>2, <4>2 DEF Reports
        <4> QED BY <2>3, <2>5, <3>1, <4>2, <4>3 DEF w
      <3> QED BY <3>2, <3>3, <3>4
    <2> QED BY <2>4, <2>5
  <1>10. \/ old.left = {} /\ Goes(s, out)
         \/ cancel /\ Goes(s, [out EXCEPT !.report.cancelled = TRUE])
         \/ Goes(s, [out EXCEPT !.report.budget = TRUE])
         \/ ~cancel /\ ~BudgetSpent(s) /\ \E e \in old.left : Goes(s, Taken(old, e))
    BY DEF NextEntry
  <1> QED BY <1>6, <1>7, <1>8, <1>9, <1>10

LEMMA FileKeeps ==
  ASSUME LocInv, NEW s \in Scans, ScanOneFile(s)
  PROVE  LocInv'
  <1> DEFINE old == sweep[s]
             r == old.report
             f == old.hand
             back == [old EXCEPT !.pc = "entries", !.hand = "none"]
             threat == IF LevelOf[f] \in ThreatLevels THEN {f} ELSE {}
  <1>1. /\ old \in Sweeps /\ Sound(old, alerted) /\ StopFits(s) /\ old.pc = "file"
        /\ ~ScanAt(s, "none") /\ UNCHANGED cancel /\ alerted \subseteq ScanFiles
        /\ stops \in [Scans -> [pressed : BOOLEAN, late : Nat]]
    BY DEF LocInv, ScanOneFile, ScanAt
  <1>2. /\ r \in Reports /\ r.scanned \subseteq ScanFiles /\ f \in ScanFiles
        /\ r.threats = {g \in r.scanned : LevelOf[g] \in ThreatLevels}
        /\ IsFiniteSet(r.scanned) /\ Cardinality(r.scanned) < MaxFiles
        /\ {g \in r.threats : LevelOf[g] = "MALICIOUS"} \subseteq alerted
        /\ old.left \subseteq Met(r.read)
    BY <1>1 DEF Sweeps, Reports, Sound, Counted, Told, Complete, Walks
  <1>3. /\ back \in Sweeps /\ back.pc = "entries" /\ back.report = r
        /\ back.left = old.left /\ back.visited = old.visited /\ back.stack = old.stack
    BY <1>1 DEF Sweeps, Walks
  <1>4. stops[s].late = 0
    BY <1>1 DEF StopFits, ScanAt
  <1>5. /\ stops' \in [Scans -> [pressed : BOOLEAN, late : Nat]]
        /\ \A t \in Scans : stops'[t].pressed = stops[t].pressed
        /\ \A t \in Scans \ {s} : stops'[t] = stops[t]
        /\ stops'[s].late = IF stops[s].pressed THEN 1 ELSE 0
    <2> DEFINE n == IF stops[s].pressed THEN stops[s].late + 1 ELSE stops[s].late
    <2>1. stops' = [stops EXCEPT ![s].late = n]
      BY DEF ScanOneFile
    <2>2. n \in Nat /\ n = IF stops[s].pressed THEN 1 ELSE 0
      BY <1>4
    <2> HIDE DEF n
    <2>3. \A t \in Scans : stops'[t] = IF t = s THEN [stops[s] EXCEPT !.late = n] ELSE stops[t]
      BY <1>1, <2>1
    <2>4. \A t \in Scans : stops[t] \in [pressed : BOOLEAN, late : Nat]
      BY <1>1
    <2>5. /\ [stops[s] EXCEPT !.late = n] \in [pressed : BOOLEAN, late : Nat]
          /\ [stops[s] EXCEPT !.late = n].pressed = stops[s].pressed
          /\ [stops[s] EXCEPT !.late = n].late = n
      BY <2>2, <2>4
    <2>6. stops' \in [Scans -> [pressed : BOOLEAN, late : Nat]]
      BY <1>1, <2>1, <2>5
    <2> QED BY <2>2, <2>3, <2>5, <2>6
  <1>6. ASSUME NEW w \in Sweeps, Goes(s, w), w.pc = "entries",
               w.left = old.left, w.visited = old.visited, w.stack = old.stack,
               Counted(w), Told(w, alerted'), alerted' \subseteq ScanFiles,
               alerted \subseteq alerted',
               w.report.read = r.read, w.report.unread = r.unread,
               w.report.cancelled = r.cancelled, w.report.budget = r.budget,
               w.report.scanned \union w.report.skipped = r.scanned \union r.skipped \union {f}
        PROVE  LocInv'
    <2>1. Begun(w)
      BY <1>6 DEF Begun
    <2>2. Complete(w)
      <3> DEFINE met == Met(r.read)
      <3> SUFFICES ASSUME ~r.cancelled, ~r.budget
                   PROVE  /\ \A e \in (met \ old.left) \ Folders :
                               \/ LevelOf[e] = "other"
                               \/ e \in w.report.scanned \union w.report.skipped
                          /\ \A e \in (met \ old.left) \intersect Folders :
                               RealOf[e] \in old.visited
                          /\ \A v \in old.visited :
                               \E d \in r.read \union r.unread \union (met \intersect SkippedFolders)
                                         \union Waiting(old.stack) : RealOf[d] = v
        BY <1>2, <1>6 DEF Complete
      <3> QED BY <1>1, <1>6 DEF Sound, Complete, Walks
    <2>3. (~stops'[s].pressed => stops'[s].late = 0) /\ stops'[s].late <= 1
      BY <1>5
    <2> QED BY <1>1, <1>5, <1>6, <2>1, <2>2, <2>3, GoesKeeps DEF Sound
  <1>7. ASSUME Goes(s, [back EXCEPT !.report.scanned = @ \union {f},
                                    !.report.threats = @ \union threat]),
               alerted' = IF LevelOf[f] = "MALICIOUS" THEN alerted \union {f} ELSE alerted
        PROVE  LocInv'
    <2> DEFINE w == [back EXCEPT !.report.scanned = @ \union {f},
                                 !.report.threats = @ \union threat]
    <2>1. threat \subseteq ScanFiles /\ threat = {g \in {f} : LevelOf[g] \in ThreatLevels}
      BY <1>2
    <2> HIDE DEF threat, back
    <2>2. /\ w \in Sweeps /\ w.pc = "entries" /\ w.left = old.left
          /\ w.visited = old.visited /\ w.stack = old.stack
          /\ w.report.scanned = r.scanned \union {f} /\ w.report.threats = r.threats \union threat
          /\ w.report.skipped = r.skipped
          /\ w.report.read = r.read /\ w.report.unread = r.unread
          /\ w.report.cancelled = r.cancelled /\ w.report.budget = r.budget
      BY <1>2, <1>3, <2>1 DEF Sweeps, Reports
    <2> HIDE DEF w
    <2>3. /\ IsFiniteSet(r.scanned \union {f})
          /\ Cardinality(r.scanned \union {f}) <= MaxFiles
      <3>1. /\ Cardinality(r.scanned) \in Nat /\ IsFiniteSet(r.scanned \union {f})
            /\ Cardinality(r.scanned \union {f}) \in {Cardinality(r.scanned), Cardinality(r.scanned) + 1}
        BY <1>2, FS_CardinalityType, FS_AddElement
      <3> QED BY <1>2, <3>1, LocationAssumption
    <2>4. Counted(w)
      <3>1. w.report.threats = {g \in w.report.scanned : LevelOf[g] \in ThreatLevels}
        BY <1>2, <2>1, <2>2
      <3> QED BY <2>2, <2>3, <3>1 DEF Counted
    <2>5. Told(w, alerted')
      <3> SUFFICES ASSUME NEW g \in r.threats \union threat, LevelOf[g] = "MALICIOUS"
                   PROVE  g \in alerted'
        BY <2>2 DEF Told
      <3>1. CASE g \in r.threats
        BY <1>2, <1>7, <3>1
      <3>2. CASE g \in threat
        BY <1>7, <2>1, <3>2
      <3> QED BY <3>1, <3>2
    <2>6. Goes(s, w)
      BY <1>7 DEF w
    <2> QED BY <1>1, <1>2, <1>6, <1>7, <2>2, <2>4, <2>5, <2>6
  <1>8. ASSUME Goes(s, [back EXCEPT !.report.skipped = @ \union {f}]), UNCHANGED alerted
        PROVE  LocInv'
    <2> DEFINE w == [back EXCEPT !.report.skipped = @ \union {f}]
    <2> HIDE DEF back
    <2>1. /\ w \in Sweeps /\ w.pc = "entries" /\ w.left = old.left
          /\ w.visited = old.visited /\ w.stack = old.stack
          /\ w.report.scanned = r.scanned /\ w.report.threats = r.threats
          /\ w.report.skipped = r.skipped \union {f}
          /\ w.report.read = r.read /\ w.report.unread = r.unread
          /\ w.report.cancelled = r.cancelled /\ w.report.budget = r.budget
      BY <1>2, <1>3 DEF Sweeps, Reports
    <2> HIDE DEF w
    <2>2. Counted(w) /\ Told(w, alerted')
      BY <1>2, <1>8, <2>1, FS_CardinalityType, LocationAssumption DEF Counted, Told
    <2>3. Goes(s, w)
      BY <1>8 DEF w
    <2> QED BY <1>1, <1>6, <1>8, <2>1, <2>2, <2>3
  <1>9. \/ /\ Goes(s, [back EXCEPT !.report.scanned = @ \union {f},
                                    !.report.threats = @ \union threat])
           /\ alerted' = IF LevelOf[f] = "MALICIOUS" THEN alerted \union {f} ELSE alerted
        \/ Goes(s, [back EXCEPT !.report.skipped = @ \union {f}]) /\ UNCHANGED alerted
    BY DEF ScanOneFile
  <1> QED BY <1>7, <1>8, <1>9

LEMMA DyingKeeps ==
  ASSUME LocInv, NEW s \in Scans, ScanDies(s)
  PROVE  LocInv'
  <1> DEFINE w == [NoScan EXCEPT !.pc = "died"]
  <1>1. Goes(s, w) /\ ~ScanAt(s, "none") /\ UNCHANGED <<cancel, alerted, stops>>
    BY DEF ScanDies, ScanAt
  <1>2. NoScan \in Sweeps /\ NoScan.report = EmptyReport /\ NoScan.left = {}
    BY NoScanIsSound DEF NoScan
  <1>3. w \in Sweeps /\ w.pc = "died" /\ w.report = EmptyReport /\ w.left = {}
    BY <1>2 DEF Sweeps
  <1> HIDE DEF w
  <1>4. Counted(w) /\ Told(w, alerted) /\ Begun(w) /\ Complete(w) /\ ~w.report.cancelled
    BY <1>3, EmptyIsCounted DEF Begun, Complete, Walks, EmptyReport
  <1> QED BY <1>1, <1>3, <1>4, WalkKeeps DEF Sound

LEMMA LocStart == LocInit => LocInv
  <1> SUFFICES ASSUME LocInit PROVE LocInv
    OBVIOUS
  <1>1. \A s \in Scans : sweep[s] = NoScan /\ stops[s] = [pressed |-> FALSE, late |-> 0]
    BY DEF LocInit
  <1>2. /\ cancel \in BOOLEAN /\ alerted \subseteq ScanFiles /\ sweep \in [Scans -> Sweeps]
        /\ stops \in [Scans -> [pressed : BOOLEAN, late : Nat]]
    BY NoScanIsSound DEF LocInit
  <1>3. ASSUME NEW s \in Scans PROVE Sound(sweep[s], alerted) /\ StopFits(s)
    <2>1. sweep[s] = NoScan /\ stops[s].pressed = FALSE /\ stops[s].late = 0
      BY <1>1
    <2> QED BY <2>1, NoScanIsSound DEF StopFits
  <1>4. ASSUME NEW s \in Scans PROVE CancelFits(s)
    <2>1. NoScan.report = EmptyReport /\ EmptyReport.cancelled = FALSE
      BY DEF NoScan, EmptyReport
    <2> QED BY <1>1, <2>1 DEF CancelFits
  <1> QED BY <1>2, <1>3, <1>4 DEF LocInv

LEMMA LocStep ==
  ASSUME LocInv, [LocNext]_locVars
  PROVE  LocInv'
  <1>1. ASSUME NEW s \in Scans, NEW root \in Roots, ChooseFolder(s, root) PROVE LocInv'
    BY <1>1, ChooseKeeps
  <1>2. ASSUME NEW s \in Scans, StartScan(s) PROVE LocInv'
    BY <1>2, StartKeeps
  <1>3. ASSUME NEW s \in Scans, NextFolder(s) PROVE LocInv'
    BY <1>3, FolderKeeps
  <1>4. ASSUME NEW s \in Scans, NextEntry(s) PROVE LocInv'
    BY <1>4, EntryKeeps
  <1>5. ASSUME NEW s \in Scans, ScanOneFile(s) PROVE LocInv'
    BY <1>5, FileKeeps
  <1>6. ASSUME NEW s \in Scans, ScanDies(s) PROVE LocInv'
    BY <1>6, DyingKeeps
  <1>7. CASE StopScan \/ ShowScan
    BY <1>7, ButtonsKeep
  <1>8. CASE UNCHANGED locVars
    BY <1>8 DEF locVars, LocInv, StopFits, CancelFits, ScanAt
  <1> QED BY <1>1, <1>2, <1>3, <1>4, <1>5, <1>6, <1>7, <1>8 DEF LocNext

\* Whatever stops, second scans and failures come between, a report leaves out
\* nothing it could read without saying why, names every threat it met and
\* keeps to its budget, and a stop leaves at most the file in hand to scan
\* (location_scan.rs 191-336).
THEOREM ReportsAreHonest == LocSpec => []ReportIsHonest
  <1>1. LocInv => ReportIsHonest
    <2> SUFFICES ASSUME LocInv, NEW s \in Scans
                 PROVE  LET r == sweep[s].report IN
                        /\ r.threats = {f \in r.scanned : LevelOf[f] \in ThreatLevels}
                        /\ {f \in r.threats : LevelOf[f] = "MALICIOUS"} \subseteq alerted
                        /\ Cardinality(r.scanned) <= MaxFiles
                        /\ ScanAt(s, "over") /\ ~r.cancelled /\ ~r.budget => Covers(r)
                        /\ r.cancelled => cancel \/ \E t \in Scans \ {s} : ~ScanAt(t, "none")
                        /\ stops[s].late <= 1
      BY DEF ReportIsHonest
    <2>1. Sound(sweep[s], alerted) /\ StopFits(s) /\ CancelFits(s)
      BY DEF LocInv
    <2>2. ScanAt(s, "over") /\ ~sweep[s].report.cancelled /\ ~sweep[s].report.budget
            => Covers(sweep[s].report)
      BY <2>1 DEF Sound, Complete, ScanAt
    <2> QED BY <2>1, <2>2 DEF Sound, Counted, Told, StopFits, CancelFits
  <1> QED BY <1>1, LocStart, LocStep, PTL DEF LocSpec

(***************************************************************************)
(* A scan ends.  Folders may have any number of names, the names of a      *)
(* cycle of links included; what is finite is the canonical paths, and     *)
(* what one folder lists.                                                  *)
(***************************************************************************)
Reals == {RealOf[f] : f \in Folders}
FiniteTree(m) ==
    /\ IsFiniteSet(Reals) /\ m \in Nat
    /\ \A f \in Folders : IsFiniteSet(Holds[f]) /\ Cardinality(Holds[f]) <= m

\* Canonical paths that are not visited and folders that wait, each with a
\* listing of at most m entries to go through: two steps for an entry, one to
\* open the folder and one to leave it.
Turn(m) == 2 * m + 2
Ahead(w) == Cardinality(Reals \ w.visited) + Len(w.stack)
Effort(w, m) ==
    CASE w.pc = "start"   -> 2 + Turn(m) * Cardinality(Reals)
      [] w.pc = "folders" -> 1 + Turn(m) * Ahead(w)
      [] w.pc = "entries" -> 2 + 2 * Cardinality(w.left) + Turn(m) * Ahead(w)
      [] w.pc = "file"    -> 3 + 2 * Cardinality(w.left) + Turn(m) * Ahead(w)
      [] OTHER            -> 0

\* A scan that has begun stays as it is, or has less to do than before.
ScanAdvances(s, m) ==
    ~ScanAt(s, "none") =>
        \/ sweep'[s] = sweep[s]
        \/ Effort(sweep[s], m)' \in Nat /\ Effort(sweep[s], m)' < Effort(sweep[s], m)

WalkFits(w) == w.visited \subseteq Reals /\ IsFiniteSet(w.left)
WalksFit == \A s \in Scans : WalkFits(sweep[s])

LEMMA TurnProduct ==
  ASSUME NEW m \in Nat, NEW n \in Nat
  PROVE  /\ Turn(m) \in Nat /\ Turn(m) * n \in Nat
         /\ n > 0 => Turn(m) * n = Turn(m) * (n - 1) + Turn(m)
  <1> DEFINE b == Turn(m)
  <1>1. b \in Nat
    BY DEF Turn
  <1> HIDE DEF b
  <1>2. b * n \in Nat /\ (n > 0 => b * n = b * (n - 1) + b)
    BY <1>1
  <1> QED BY <1>1, <1>2 DEF b

LEMMA AheadCounts ==
  ASSUME NEW w \in Sweeps, IsFiniteSet(Reals)
  PROVE  /\ IsFiniteSet(Reals \ w.visited) /\ Cardinality(Reals \ w.visited) \in Nat
         /\ Len(w.stack) \in Nat /\ Ahead(w) \in Nat
  <1>1. IsFiniteSet(Reals \ w.visited)
    BY FS_Subset
  <1>2. Cardinality(Reals \ w.visited) \in Nat
    BY <1>1, FS_CardinalityType
  <1>3. w.stack \in Seq(Folders)
    BY DEF Sweeps
  <1> QED BY <1>1, <1>2, <1>3 DEF Ahead

\* What a step of s owes if it Goes(s, w).
LEMMA GoesAdvances ==
  ASSUME LocInv, WalksFit, NEW s \in Scans, NEW w, Goes(s, w), NEW m,
         WalkFits(w), Effort(w, m) \in Nat, Effort(w, m) < Effort(sweep[s], m)
  PROVE  WalksFit' /\ \A t \in Scans : ScanAdvances(t, m)
  <1>1. sweep'[s] = w /\ \A t \in Scans \ {s} : sweep'[t] = sweep[t]
    BY DEF Goes, LocInv
  <1>2. WalksFit'
    <2> SUFFICES ASSUME NEW t \in Scans PROVE WalkFits(sweep'[t])
      BY DEF WalksFit, WalkFits
    <2> QED BY <1>1 DEF WalksFit
  <1>3. ScanAdvances(s, m)
    <2>1. Effort(sweep[s], m)' = Effort(w, m)
      BY <1>1 DEF Effort, Ahead
    <2> QED BY <2>1 DEF ScanAdvances
  <1>4. ASSUME NEW t \in Scans \ {s} PROVE ScanAdvances(t, m)
    BY <1>1 DEF ScanAdvances
  <1> QED BY <1>2, <1>3, <1>4

\* The end of a scan.
LEMMA EndAdvances ==
  ASSUME LocInv, WalksFit, NEW s \in Scans, NEW m, Effort(sweep[s], m) \in Nat \ {0},
         (\E r : EndScan(s, r)) \/ ScanDies(s)
  PROVE  WalksFit' /\ \A t \in Scans : ScanAdvances(t, m)
  <1>1. PICK w : Goes(s, w) /\ w.pc \in {"over", "died"} /\ w.visited = {} /\ w.left = {}
    <2>1. CASE ScanDies(s)
      <3> DEFINE w == [NoScan EXCEPT !.pc = "died"]
      <3>1. Goes(s, w) /\ w.pc = "died" /\ w.visited = {} /\ w.left = {}
        BY <2>1 DEF ScanDies, NoScan
      <3> QED BY <3>1
    <2>2. ASSUME NEW r, EndScan(s, r)
          PROVE  \E w : /\ Goes(s, w) /\ w.pc \in {"over", "died"}
                        /\ w.visited = {} /\ w.left = {}
      <3> DEFINE w == [NoScan EXCEPT !.pc = "over", !.root = sweep[s].root, !.report = r]
      <3>1. Goes(s, w) /\ w.pc = "over" /\ w.visited = {} /\ w.left = {}
        BY <2>2 DEF EndScan, NoScan
      <3> QED BY <3>1
    <2> QED BY <2>1, <2>2
  <1>2. Effort(w, m) = 0
    BY <1>1 DEF Effort
  <1>3. WalkFits(w)
    BY <1>1, FS_EmptySet DEF WalkFits
  <1> QED BY <1>1, <1>2, <1>3, GoesAdvances

LEMMA EffortIsReal ==
  ASSUME LocInv, WalksFit, NEW m, FiniteTree(m), NEW s \in Scans,
         sweep[s].pc \in Walks \union {"start"}
  PROVE  Effort(sweep[s], m) \in Nat \ {0}
  <1> DEFINE w == sweep[s]
  <1>1. w \in Sweeps /\ IsFiniteSet(w.left)
    BY DEF LocInv, WalksFit, WalkFits
  <1>2. Ahead(w) \in Nat /\ Cardinality(w.left) \in Nat /\ Cardinality(Reals) \in Nat
    BY <1>1, AheadCounts, FS_CardinalityType DEF FiniteTree
  <1>3. Turn(m) * Ahead(w) \in Nat /\ Turn(m) * Cardinality(Reals) \in Nat
    BY <1>2, TurnProduct DEF FiniteTree
  <1> QED BY <1>2, <1>3 DEF Effort, Walks

LEMMA StartAdvances ==
  ASSUME LocInv, WalksFit, NEW m, FiniteTree(m), NEW s \in Scans, StartScan(s)
  PROVE  WalksFit' /\ \A t \in Scans : ScanAdvances(t, m)
  <1> DEFINE old == sweep[s]
             root == old.root
             real == RealOf[root]
  <1>1. old.pc = "start" /\ old \in Sweeps /\ IsFiniteSet(old.left)
    BY DEF StartScan, ScanAt, LocInv, WalksFit, WalkFits
  <1>2. root \in Folders /\ real \in Reals
    BY <1>1 DEF LocInv, Sound, Begun, Reals
  <1>3. CASE root \in SkippedFolders
    <2>1. EndScan(s, EmptyReport)
      BY <1>3 DEF StartScan
    <2>2. Effort(old, m) \in Nat \ {0}
      BY <1>1, EffortIsReal
    <2> QED BY <2>1, <2>2, EndAdvances
  <1>4. CASE root \notin SkippedFolders
    <2> DEFINE w == [old EXCEPT !.pc = "folders", !.stack = <<root>>, !.visited = {real}]
    <2>1. Goes(s, w)
      BY <1>4 DEF StartScan
    <2>2. w.pc = "folders" /\ w.stack = <<root>> /\ w.visited = {real} /\ w.left = old.left
      BY <1>1 DEF Sweeps
    <2>3. Cardinality(Reals \ {real}) = Cardinality(Reals) - 1 /\ Cardinality(Reals) \in Nat
      <3> HIDE DEF real
      <3>1. IsFiniteSet(Reals)
        BY DEF FiniteTree
      <3> QED BY <1>2, <3>1, FS_RemoveElement, FS_CardinalityType
    <2> HIDE DEF w
    <2>4. Ahead(w) = Cardinality(Reals)
      BY <2>2, <2>3 DEF Ahead
    <2>5. Turn(m) * Cardinality(Reals) \in Nat
      BY <2>3, TurnProduct DEF FiniteTree
    <2>6. Effort(w, m) = 1 + Turn(m) * Cardinality(Reals)
      BY <2>2, <2>4 DEF Effort
    <2>7. Effort(old, m) = 2 + Turn(m) * Cardinality(Reals)
      BY <1>1 DEF Effort
    <2>8. WalkFits(w)
      BY <1>1, <1>2, <2>2 DEF WalkFits
    <2> QED BY <2>1, <2>5, <2>6, <2>7, <2>8, GoesAdvances
  <1> QED BY <1>3, <1>4

LEMMA FolderAdvances ==
  ASSUME LocInv, WalksFit, NEW m, FiniteTree(m), NEW s \in Scans, NextFolder(s)
  PROVE  WalksFit' /\ \A t \in Scans : ScanAdvances(t, m)
  <1> DEFINE old == sweep[s]
             top == old.stack[Len(old.stack)]
             rest == SubSeq(old.stack, 1, Len(old.stack) - 1)
             entered == [old EXCEPT !.pc = "entries", !.stack = rest, !.left = Holds[top],
                                    !.report.read = @ \union {top}]
             passed == [old EXCEPT !.stack = rest, !.report.unread = @ \union {top}]
             n == Ahead(old)
  <1>1. /\ old.pc = "folders" /\ old \in Sweeps /\ old.left = {}
        /\ old.visited \subseteq Reals /\ m \in Nat
    BY DEF NextFolder, ScanAt, LocInv, WalksFit, WalkFits, Sound, Begun, FiniteTree
  <1>2. n \in Nat /\ Effort(old, m) = 1 + Turn(m) * n /\ Effort(old, m) \in Nat \ {0}
    BY <1>1, AheadCounts, EffortIsReal DEF Effort, FiniteTree, Walks
  <1>3. ASSUME NEW r, EndScan(s, r)
        PROVE  WalksFit' /\ \A t \in Scans : ScanAdvances(t, m)
    BY <1>2, <1>3, EndAdvances
  <1>4. ASSUME old.stack # <<>>
        PROVE  /\ top \in Folders /\ n > 0
               /\ Cardinality(Reals \ old.visited) + Len(rest) = n - 1
    <2>1. old.stack \in Seq(Folders)
      BY <1>1 DEF Sweeps
    <2>2. Len(old.stack) \in Nat \ {0} /\ top \in Folders /\ Len(rest) = Len(old.stack) - 1
      BY <1>4, <2>1
    <2>3. Cardinality(Reals \ old.visited) \in Nat
      BY <1>1, AheadCounts DEF FiniteTree
    <2> QED BY <2>2, <2>3 DEF Ahead
  <1>5. ASSUME old.stack # <<>>, Goes(s, entered)
        PROVE  WalksFit' /\ \A t \in Scans : ScanAdvances(t, m)
    <2>1. entered.pc = "entries" /\ entered.left = Holds[top]
          /\ entered.visited = old.visited /\ entered.stack = rest
      BY <1>1 DEF Sweeps
    <2>2. IsFiniteSet(Holds[top]) /\ Cardinality(Holds[top]) <= m /\ Cardinality(Holds[top]) \in Nat
      BY <1>4, <1>5, FS_CardinalityType DEF FiniteTree
    <2>3. Goes(s, entered)
      BY <1>5
    <2> HIDE DEF entered
    <2>4. Effort(entered, m) = 2 + 2 * Cardinality(Holds[top]) + Turn(m) * (n - 1)
      BY <1>4, <1>5, <2>1 DEF Effort, Ahead
    <2> HIDE DEF top, n
    <2>5. /\ Turn(m) * n = Turn(m) * (n - 1) + Turn(m) /\ Turn(m) * (n - 1) \in Nat
          /\ n - 1 \in Nat /\ Turn(m) = 2 * m + 2
      <3>1. n - 1 \in Nat
        BY <1>2, <1>4, <1>5
      <3> QED BY <1>1, <1>2, <1>4, <1>5, <3>1, TurnProduct DEF Turn
    <2> DEFINE x == Turn(m) * (n - 1)
               y == Turn(m) * n
               h == Cardinality(Holds[top])
    <2>6. x \in Nat /\ y = x + (2 * m + 2) /\ h \in Nat /\ h <= m
      BY <2>2, <2>5
    <2> HIDE DEF x, y, h
    <2>7. 2 + 2 * h + x \in Nat /\ 2 + 2 * h + x < 1 + y
      BY <1>1, <2>6
    <2>8. Effort(entered, m) \in Nat /\ Effort(entered, m) < Effort(old, m)
      BY <1>2, <2>4, <2>7 DEF x, y, h
    <2>9. WalkFits(entered)
      BY <1>1, <2>1, <2>2 DEF WalkFits
    <2> QED BY <2>3, <2>8, <2>9, GoesAdvances
  <1>6. ASSUME old.stack # <<>>, Goes(s, passed)
        PROVE  WalksFit' /\ \A t \in Scans : ScanAdvances(t, m)
    <2>1. passed.pc = "folders" /\ passed.left = {}
          /\ passed.visited = old.visited /\ passed.stack = rest
      BY <1>1 DEF Sweeps
    <2>2. Goes(s, passed)
      BY <1>6
    <2> HIDE DEF passed
    <2>3. Effort(passed, m) = 1 + Turn(m) * (n - 1)
      BY <1>4, <1>6, <2>1 DEF Effort, Ahead
    <2> HIDE DEF n
    <2>4. /\ Turn(m) * n = Turn(m) * (n - 1) + Turn(m) /\ Turn(m) * (n - 1) \in Nat
          /\ Turn(m) = 2 * m + 2
      <3>1. n - 1 \in Nat
        BY <1>2, <1>4, <1>6
      <3> QED BY <1>1, <1>2, <1>4, <1>6, <3>1, TurnProduct DEF Turn
    <2> DEFINE x == Turn(m) * (n - 1)
               y == Turn(m) * n
    <2>5. x \in Nat /\ y = x + (2 * m + 2)
      BY <2>4
    <2> HIDE DEF x, y
    <2>6. 1 + x \in Nat /\ 1 + x < 1 + y
      BY <1>1, <2>5
    <2>7. Effort(passed, m) \in Nat /\ Effort(passed, m) < Effort(old, m)
      BY <1>2, <2>3, <2>6 DEF x, y
    <2>8. WalkFits(passed)
      BY <1>1, <2>1, FS_EmptySet DEF WalkFits
    <2> QED BY <2>2, <2>7, <2>8, GoesAdvances
  <1> HIDE DEF entered, passed, n
  <1>7. \/ \E r : EndScan(s, r)
        \/ old.stack # <<>> /\ (Goes(s, entered) \/ Goes(s, passed))
    BY DEF NextFolder, entered, passed
  <1> QED BY <1>3, <1>5, <1>6, <1>7

\* Taking an entry: a folder not visited yet goes from the one count to the
\* other, any other entry only leaves the listing.
LEMMA TakenAdvances ==
  ASSUME NEW w \in Sweeps, w.pc = "entries", WalkFits(w), NEW m, FiniteTree(m),
         NEW e \in w.left
  PROVE  /\ WalkFits(Taken(w, e))
         /\ Effort(Taken(w, e), m) \in Nat /\ Effort(Taken(w, e), m) < Effort(w, m)
  <1> DEFINE v == [w EXCEPT !.left = @ \ {e}]
             h == Cardinality(w.left)
             n == Ahead(w)
             real == RealOf[e]
  <1>1. /\ w.left \subseteq Folders \union ScanFiles /\ w.visited \subseteq Reals
        /\ w.stack \in Seq(Folders) /\ IsFiniteSet(w.left)
    BY DEF Sweeps, WalkFits
  <1>2. /\ IsFiniteSet(w.left \ {e}) /\ Cardinality(w.left \ {e}) = h - 1 /\ h - 1 \in Nat
        /\ h \in Nat
    <2>1. IsFiniteSet(w.left \ {e}) /\ Cardinality(w.left \ {e}) = h - 1
      BY <1>1, FS_RemoveElement
    <2>2. h \in Nat /\ Cardinality(w.left \ {e}) \in Nat
      BY <1>1, <2>1, FS_CardinalityType
    <2> QED BY <2>1, <2>2
  <1>3. n \in Nat /\ Turn(m) * n \in Nat /\ m \in Nat /\ IsFiniteSet(Reals)
    BY AheadCounts, TurnProduct DEF FiniteTree
  <1>4. Effort(w, m) = 2 + 2 * h + Turn(m) * n
    BY DEF Effort
  <1> HIDE DEF h
  <1>5. CASE e \in Folders
    <2> DEFINE push == real \notin w.visited /\ e \notin SkippedFolders
               stack == IF push THEN Append(w.stack, e) ELSE w.stack
               u == Taken(w, e)
               k == Cardinality(Reals \ (w.visited \union {real})) + Len(stack)
    <2>1. real \in Reals
      BY <1>5 DEF Reals
    <2>2. /\ u.pc = "entries" /\ u.left = w.left \ {e}
          /\ u.visited = w.visited \union {real} /\ u.stack = stack
      <3>1. u = [v EXCEPT !.visited = @ \union {real},
                          !.stack = IF push THEN Append(@, e) ELSE @]
        BY <1>5 DEF Taken
      <3> QED BY <3>1 DEF Sweeps
    <2>3. k = n \/ (k = n - 1 /\ n > 0)
      <3>1. Len(w.stack) \in Nat /\ Len(stack) \in {Len(w.stack), Len(w.stack) + 1}
        <4>1. Len(w.stack) \in Nat /\ Len(Append(w.stack, e)) = Len(w.stack) + 1
          BY <1>1, <1>5
        <4> QED BY <4>1
      <3> DEFINE c == Cardinality(Reals \ w.visited)
                 d == Cardinality(Reals \ (w.visited \union {real}))
      <3>2. c \in Nat /\ IsFiniteSet(Reals \ w.visited)
        BY <1>3, AheadCounts
      <3>3. CASE real \in w.visited
        <4>1. Reals \ (w.visited \union {real}) = Reals \ w.visited
          BY <3>3
        <4>2. ~push /\ d = c
          BY <3>3, <4>1
        <4> QED BY <3>1, <3>2, <4>2 DEF Ahead
      <3>4. CASE real \notin w.visited
        <4> HIDE DEF real
        <4>1. Reals \ (w.visited \union {real}) = (Reals \ w.visited) \ {real}
          OBVIOUS
        <4>2. Cardinality((Reals \ w.visited) \ {real}) = c - 1
          BY <2>1, <3>2, <3>4, FS_RemoveElement
        <4>3. IsFiniteSet((Reals \ w.visited) \ {real})
          BY <3>2, FS_RemoveElement
        <4>4. d = c - 1 /\ d \in Nat
          BY <4>1, <4>2, <4>3, FS_CardinalityType
        <4> HIDE DEF c, d, push, stack
        <4>5. n = c + Len(w.stack) /\ k = d + Len(stack)
          BY DEF Ahead, c, d
        <4> HIDE DEF n, k
        <4> QED BY <3>1, <3>2, <4>4, <4>5
      <3> QED BY <3>3, <3>4
    <2> HIDE DEF u
    <2>4. Ahead(u) = k
      BY <2>2 DEF Ahead
    <2> HIDE DEF k, n
    <2>5. Turn(m) * k \in Nat /\ Turn(m) * k <= Turn(m) * n
      <3>1. CASE k = n
        BY <1>3, <3>1
      <3>2. CASE k = n - 1 /\ n > 0
        <4>1. n - 1 \in Nat
          BY <1>3, <3>2
        <4>2. /\ Turn(m) \in Nat /\ Turn(m) * (n - 1) \in Nat
              /\ Turn(m) * n = Turn(m) * (n - 1) + Turn(m)
          BY <1>3, <3>2, <4>1, TurnProduct
        <4> QED BY <3>2, <4>2
      <3> QED BY <2>3, <3>1, <3>2
    <2>6. Effort(u, m) = 2 + 2 * (h - 1) + Turn(m) * k
      BY <1>2, <2>2, <2>4 DEF Effort
    <2> DEFINE x == Turn(m) * k
               y == Turn(m) * n
    <2>7. x \in Nat /\ y \in Nat /\ x <= y
      BY <1>3, <2>5
    <2> HIDE DEF x, y
    <2>8. 2 + 2 * (h - 1) + x \in Nat /\ 2 + 2 * (h - 1) + x < 2 + 2 * h + y
      BY <1>2, <2>7
    <2>9. Effort(u, m) \in Nat /\ Effort(u, m) < Effort(w, m)
      BY <1>4, <2>6, <2>8 DEF x, y
    <2>10. WalkFits(u)
      BY <1>1, <1>2, <2>1, <2>2 DEF WalkFits
    <2> QED BY <2>9, <2>10 DEF u
  <1>6. CASE e \notin Folders
    <2> DEFINE u == Taken(w, e)
    <2>1. /\ u.left = w.left \ {e} /\ u.visited = w.visited /\ u.stack = w.stack
          /\ u.pc \in {"entries", "file"}
      <3>1. /\ v.left = w.left \ {e} /\ v.visited = w.visited /\ v.stack = w.stack
            /\ v.pc = "entries" /\ v \in Sweeps
        BY DEF Sweeps
      <3>2. u \in {v, [v EXCEPT !.report.skipped = @ \union {e}],
                   [v EXCEPT !.pc = "file", !.hand = e]}
        <4>1. u = CASE LevelOf[e] = "other" -> v
                    [] LevelOf[e] = "empty" -> [v EXCEPT !.report.skipped = @ \union {e}]
                    [] OTHER -> [v EXCEPT !.pc = "file", !.hand = e]
          BY <1>6 DEF Taken
        <4> HIDE DEF u, v
        <4> QED BY <4>1
      <3> HIDE DEF u, v
      <3> QED BY <3>1, <3>2 DEF Sweeps
    <2> HIDE DEF u
    <2>2. Ahead(u) = n
      BY <2>1 DEF Ahead
    <2> HIDE DEF n
    <2>3. Effort(u, m) \in {2 + 2 * (h - 1) + Turn(m) * n, 3 + 2 * (h - 1) + Turn(m) * n}
      BY <1>2, <2>1, <2>2 DEF Effort
    <2> DEFINE y == Turn(m) * n
    <2>4. y \in Nat
      BY <1>3
    <2> HIDE DEF y
    <2>5. /\ 2 + 2 * (h - 1) + y \in Nat /\ 2 + 2 * (h - 1) + y < 2 + 2 * h + y
          /\ 3 + 2 * (h - 1) + y \in Nat /\ 3 + 2 * (h - 1) + y < 2 + 2 * h + y
      BY <1>2, <2>4
    <2>6. Effort(u, m) \in Nat /\ Effort(u, m) < Effort(w, m)
      BY <1>4, <2>3, <2>5 DEF y
    <2>7. WalkFits(u)
      BY <1>1, <1>2, <2>1 DEF WalkFits
    <2> QED BY <2>6, <2>7 DEF u
  <1> QED BY <1>5, <1>6

LEMMA EntryAdvances ==
  ASSUME LocInv, WalksFit, NEW m, FiniteTree(m), NEW s \in Scans, NextEntry(s)
  PROVE  WalksFit' /\ \A t \in Scans : ScanAdvances(t, m)
  <1> DEFINE old == sweep[s]
             out == [old EXCEPT !.pc = "folders", !.left = {}]
  <1>1. old.pc = "entries" /\ old \in Sweeps /\ WalkFits(old)
    BY DEF NextEntry, ScanAt, LocInv, WalksFit
  <1>2. ASSUME NEW w, Goes(s, w), w.pc = "folders", w.left = {},
               w.visited = old.visited, w.stack = old.stack
        PROVE  WalksFit' /\ \A t \in Scans : ScanAdvances(t, m)
    <2>1. Ahead(w) = Ahead(old) /\ Ahead(old) \in Nat
      BY <1>1, <1>2, AheadCounts DEF Ahead, FiniteTree
    <2>2. Cardinality(old.left) \in Nat /\ Turn(m) * Ahead(old) \in Nat
      BY <1>1, <2>1, FS_CardinalityType, TurnProduct DEF WalkFits, FiniteTree
    <2>3. /\ Effort(w, m) = 1 + Turn(m) * Ahead(old)
          /\ Effort(old, m) = 2 + 2 * Cardinality(old.left) + Turn(m) * Ahead(old)
      BY <1>1, <1>2, <2>1 DEF Effort
    <2>4. Effort(w, m) \in Nat /\ Effort(w, m) < Effort(old, m)
      BY <2>2, <2>3
    <2>5. WalkFits(w)
      BY <1>1, <1>2, FS_EmptySet DEF WalkFits
    <2> QED BY <1>2, <2>4, <2>5, GoesAdvances
  <1>3. \/ \E w : /\ Goes(s, w) /\ w.pc = "folders" /\ w.left = {}
                  /\ w.visited = old.visited /\ w.stack = old.stack
        \/ \E e \in old.left : Goes(s, Taken(old, e))
    <2> DEFINE stopped == [out EXCEPT !.report.cancelled = TRUE]
               spent == [out EXCEPT !.report.budget = TRUE]
    <2>1. /\ out.pc = "folders" /\ out.left = {}
          /\ out.visited = old.visited /\ out.stack = old.stack
      BY <1>1 DEF Sweeps
    <2>2. /\ stopped.pc = "folders" /\ stopped.left = {}
          /\ stopped.visited = old.visited /\ stopped.stack = old.stack
      BY <1>1 DEF Sweeps
    <2>3. /\ spent.pc = "folders" /\ spent.left = {}
          /\ spent.visited = old.visited /\ spent.stack = old.stack
      BY <1>1 DEF Sweeps
    <2>4. \/ Goes(s, out) \/ Goes(s, stopped) \/ Goes(s, spent)
          \/ \E e \in old.left : Goes(s, Taken(old, e))
      BY DEF NextEntry
    <2> HIDE DEF out, stopped, spent
    <2> QED BY <2>1, <2>2, <2>3, <2>4
  <1>4. ASSUME NEW e \in old.left, Goes(s, Taken(old, e))
        PROVE  WalksFit' /\ \A t \in Scans : ScanAdvances(t, m)
    BY <1>1, <1>4, TakenAdvances, GoesAdvances
  <1> HIDE DEF old
  <1> QED BY <1>2, <1>3, <1>4

LEMMA FileAdvances ==
  ASSUME LocInv, WalksFit, NEW m, FiniteTree(m), NEW s \in Scans, ScanOneFile(s)
  PROVE  WalksFit' /\ \A t \in Scans : ScanAdvances(t, m)
  <1> DEFINE old == sweep[s]
  <1>1. old.pc = "file" /\ old \in Sweeps /\ WalkFits(old)
    BY DEF ScanOneFile, ScanAt, LocInv, WalksFit
  <1>2. PICK w : /\ Goes(s, w) /\ w.pc = "entries" /\ w.left = old.left
                 /\ w.visited = old.visited /\ w.stack = old.stack
    <2> DEFINE back == [old EXCEPT !.pc = "entries", !.hand = "none"]
               threat == IF LevelOf[old.hand] \in ThreatLevels THEN {old.hand} ELSE {}
               scanned == [back EXCEPT !.report.scanned = @ \union {old.hand},
                                       !.report.threats = @ \union threat]
               skipped == [back EXCEPT !.report.skipped = @ \union {old.hand}]
    <2>1. /\ scanned.pc = "entries" /\ scanned.left = old.left
          /\ scanned.visited = old.visited /\ scanned.stack = old.stack
      BY <1>1 DEF Sweeps
    <2>2. /\ skipped.pc = "entries" /\ skipped.left = old.left
          /\ skipped.visited = old.visited /\ skipped.stack = old.stack
      BY <1>1 DEF Sweeps
    <2>3. Goes(s, scanned) \/ Goes(s, skipped)
      BY DEF ScanOneFile
    <2> HIDE DEF scanned, skipped
    <2> QED BY <2>1, <2>2, <2>3
  <1>3. Ahead(w) = Ahead(old) /\ Ahead(old) \in Nat
    BY <1>1, <1>2, AheadCounts DEF Ahead, FiniteTree
  <1>4. Cardinality(old.left) \in Nat /\ Turn(m) * Ahead(old) \in Nat
    BY <1>1, <1>3, FS_CardinalityType, TurnProduct DEF WalkFits, FiniteTree
  <1>5. /\ Effort(w, m) = 2 + 2 * Cardinality(old.left) + Turn(m) * Ahead(old)
        /\ Effort(old, m) = 3 + 2 * Cardinality(old.left) + Turn(m) * Ahead(old)
    BY <1>1, <1>2, <1>3 DEF Effort
  <1>6. Effort(w, m) \in Nat /\ Effort(w, m) < Effort(old, m)
    BY <1>4, <1>5
  <1>7. WalkFits(w)
    BY <1>1, <1>2 DEF WalkFits
  <1> QED BY <1>2, <1>6, <1>7, GoesAdvances

\* A choice starts a scan that has not begun, and no other.
LEMMA ChooseAdvances ==
  ASSUME LocInv, WalksFit, NEW m, NEW s \in Scans, NEW root \in Roots, ChooseFolder(s, root)
  PROVE  WalksFit' /\ \A t \in Scans : ScanAdvances(t, m)
  <1>1. /\ ScanAt(s, "none")
        /\ sweep' = [sweep EXCEPT ![s].pc = "start", ![s].root = root]
    BY DEF ChooseFolder
  <1>2. /\ \A t \in Scans \ {s} : sweep'[t] = sweep[t]
        /\ sweep'[s].visited = sweep[s].visited /\ sweep'[s].left = sweep[s].left
    BY <1>1 DEF LocInv, Sweeps
  <1>3. WalksFit'
    <2> SUFFICES ASSUME NEW t \in Scans PROVE WalkFits(sweep'[t])
      BY DEF WalksFit, WalkFits
    <2>1. WalkFits(sweep[t])
      BY DEF WalksFit
    <2> QED BY <1>2, <2>1 DEF WalkFits
  <1> QED BY <1>1, <1>2, <1>3 DEF ScanAdvances

\* The scan of a folder ends: whatever links, aliases and cycles of folders it
\* walks, and whatever other scans, stops and failures come between, each step
\* takes it nearer to its end, which is at most Turn(m) times the number of
\* canonical folders and two steps after its start (location_scan.rs 191-336:
\* the walk tests visited before it puts a folder on its stack).
THEOREM ScansEnd ==
  ASSUME NEW m, FiniteTree(m)
  PROVE  LocSpec => [][\A s \in Scans : ScanAdvances(s, m)]_locVars
  <1>1. LocInit => WalksFit
    <2> SUFFICES ASSUME LocInit, NEW s \in Scans PROVE WalkFits(sweep[s])
      BY DEF WalksFit
    <2>1. sweep[s].visited = {} /\ sweep[s].left = {}
      BY DEF LocInit, NoScan
    <2> QED BY <2>1, FS_EmptySet DEF WalkFits
  <1>2. ASSUME LocInv, WalksFit, [LocNext]_locVars
        PROVE  WalksFit' /\ \A t \in Scans : ScanAdvances(t, m)
    <2>1. ASSUME NEW s \in Scans, NEW root \in Roots, ChooseFolder(s, root)
          PROVE  WalksFit' /\ \A t \in Scans : ScanAdvances(t, m)
      BY <1>2, <2>1, ChooseAdvances
    <2>2. ASSUME NEW s \in Scans, ScanDies(s)
          PROVE  WalksFit' /\ \A t \in Scans : ScanAdvances(t, m)
      <3>1. Effort(sweep[s], m) \in Nat \ {0}
        BY <1>2, <2>2, EffortIsReal DEF ScanDies, ScanAt, Walks
      <3> QED BY <1>2, <2>2, <3>1, EndAdvances
    <2>3. ASSUME NEW s \in Scans,
                 StartScan(s) \/ NextFolder(s) \/ NextEntry(s) \/ ScanOneFile(s)
          PROVE  WalksFit' /\ \A t \in Scans : ScanAdvances(t, m)
      BY <1>2, <2>3, StartAdvances, FolderAdvances, EntryAdvances, FileAdvances
    <2>4. CASE StopScan \/ ShowScan \/ UNCHANGED locVars
      <3>1. sweep' = sweep
        BY <2>4 DEF StopScan, ShowScan, locVars
      <3>2. WalksFit'
        BY <1>2, <3>1 DEF WalksFit, WalkFits
      <3> QED BY <3>1, <3>2 DEF ScanAdvances
    <2> QED BY <1>2, <2>1, <2>2, <2>3, <2>4 DEF LocNext
  <1>3. LocInv /\ WalksFit /\ [LocNext]_locVars => LocInv' /\ WalksFit'
    BY <1>2, LocStep
  <1>4. LocInv /\ WalksFit /\ [LocNext]_locVars => [\A s \in Scans : ScanAdvances(s, m)]_locVars
    BY <1>2
  <1> QED BY <1>1, <1>3, <1>4, LocStart, PTL DEF LocSpec

==============================================================================
