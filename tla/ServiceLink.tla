------------------------------ MODULE ServiceLink ------------------------------
(***************************************************************************)
(* A window attached to the core service: commands and snapshots over the  *)
(* pipe (src/app/control_plane.rs, src/modules/service/pipe.rs and         *)
(* snapshot.rs, the remote half of ui_bridge/poller.rs and refresh.rs).    *)
(*                                                                         *)
(* Every request has a thread and a connection of its own.  A caller waits *)
(* for a few seconds and then gives up, but the thread and the service     *)
(* still carry the request out.  The poller asks for a snapshot every      *)
(* second whether or not the last one has come back; a snapshot leaves its *)
(* lists out when their hash is the one the window says it knows.          *)
(*                                                                         *)
(* The window has a configuration of its own, read when it started, which  *)
(* it writes to the same file, and lists of its own, which it may show.    *)
(***************************************************************************)
EXTENDS Naturals

CONSTANTS
    Calls,       \* the requests that can be outstanding at a time
    Tabs,        \* tabs of the window that show lists of the service
    Views,       \* what those tabs can show: each has a list of its own
    TabOf,       \* the tab of each view
    OwnViews,    \* views that refresh_ui_state fills too, from the window's own lists
    Lists,       \* states of a tab's lists
    Orders,      \* what the operator commands: a kind of command, and on or off
    LinkInputs   \* what may happen in this instance

\* What may happen:
\*   command   the operator patches a setting, or sets a client's rule
\*   refuse    the service refuses a command
\*   window    the window saves its own configuration
\*   look      the poller fetches snapshots, and the operator changes views
\*   change    the lists of the service change
\*   lost      the pipe cannot be created again for the next client
\*   disk      the configuration cannot be written
\*   restart   the service is killed and started again
LinkInputKinds == {"command", "refuse", "window", "look", "change", "lost", "disk", "restart"}

Commands == {"setting", "rule"}
NoCall == "no call"
NoList == "no list"
OwnList == "own list"
NoHash == <<NoCall, NoList>>
Hashes == (Tabs \X Lists) \union {NoHash}

ASSUME LinkAssumption ==
    /\ NoCall \notin Calls /\ NoCall \notin Tabs /\ NoList \notin Lists
    /\ OwnList \notin Lists
    /\ TabOf \in [Views -> Tabs] /\ OwnViews \subseteq Views
    /\ Orders \subseteq Commands \X BOOLEAN
    /\ LinkInputs \subseteq LinkInputKinds

VARIABLES
    request,    \* the requests: where they are, and what they carry
    awaited,    \* the command the window's thread waits for
    serving,    \* "up", "deaf" (the pipe is gone for good) or "down"
    inForce,    \* what the engine and the policy act on
    config,     \* the configuration of the service, in memory
    stored,     \* config.toml
    tabLists,   \* the lists behind each tab
    view,       \* what the window shows
    knownHash,  \* known_lists_hash
    onScreen,   \* the list shown in each view
    \* For the properties:
    word,       \* the last command that was answered
    unsure,     \* a command timed out, was cut off, was not saved, or was
                \* reverted when the service started again
    reverted,   \* the window saved its own configuration after the service's
    strayed     \* snapshots overlapped, or a view changed under one of them or
                \* to a view that shares its tab

service == <<serving, inForce, config, stored, tabLists>>
screen == <<view, knownHash, onScreen>>
promised == <<word, unsure, reverted, strayed>>
linkVars == <<request, awaited, service, screen, promised>>

Unused == [pc |-> "unused", kind |-> "snapshot", on |-> FALSE, tab |-> NoCall,
           known |-> NoHash, hash |-> NoHash, full |-> FALSE]
Started(kind) == [Unused EXCEPT !.pc = "connect", !.kind = kind]

Stage(c, label) == request[c].pc = label
Advance(c, label) == request' = [request EXCEPT ![c].pc = label]
Ends(c) == request' = [request EXCEPT ![c] = Unused]
IsCommand(c) == request[c].kind \in Commands
\* Requests that still can have an effect.
Outstanding(c) == ~Stage(c, "unused")
Fetching == {c \in Calls : Outstanding(c) /\ ~IsCommand(c)}
InCommand == {c \in Calls : Outstanding(c) /\ IsCommand(c)}
InService == {c \in Calls : request[c].pc \in {"dispatch", "store", "reply"}}

LinkInit ==
    /\ request = [c \in Calls |-> Unused]
    /\ awaited = NoCall
    /\ serving = "up"
    /\ inForce = [k \in Commands |-> FALSE] /\ config = inForce /\ stored = inForce
    /\ tabLists \in [Tabs -> Lists]
    /\ view \in Views
    /\ knownHash = NoHash
    /\ onScreen = [v \in Views |-> NoList]
    /\ word = inForce /\ unsure = FALSE /\ reverted = FALSE /\ strayed = FALSE

\* What the window read when it started: it keeps that whatever it sends to the
\* service, as remote_config_patch and remote_send return before it is changed.
OwnConfig == [k \in Commands |-> FALSE]

Stages == {"unused", "polled", "connect", "dispatch", "store", "reply", "fetched"}
Requests ==
    [pc : Stages, kind : Commands \union {"snapshot"}, on : BOOLEAN, tab : Tabs \union {NoCall},
     known : Hashes, hash : Hashes, full : BOOLEAN]

\* Types; a command that is waited for is outstanding, and a snapshot is the
\* only request that ends on the screen.
LinkTypeOK ==
    /\ request \in [Calls -> Requests]
    /\ awaited \in Calls \union {NoCall}
    /\ awaited \in Calls => Outstanding(awaited) /\ IsCommand(awaited)
    /\ \A c \in Calls : IF IsCommand(c) THEN ~Stage(c, "fetched") /\ ~Stage(c, "polled")
                       ELSE ~Stage(c, "store") /\ ~Stage(c, "reply")
    /\ serving \in {"up", "deaf", "down"}
    /\ {inForce, config, stored, word} \subseteq [Commands -> BOOLEAN]
    /\ tabLists \in [Tabs -> Lists]
    /\ view \in Views /\ knownHash \in Hashes
    /\ onScreen \in [Views -> Lists \union {NoList, OwnList}]
    /\ unsure \in BOOLEAN /\ reverted \in BOOLEAN /\ strayed \in BOOLEAN

-----------------------------------------------------------------------------
(***************************************************************************)
(* The window                                                              *)
(***************************************************************************)
\* CoreClient::call, from a callback of the window, which waits for it.
SendCommand(c, kind, on) ==
    /\ "command" \in LinkInputs
    /\ awaited = NoCall /\ Stage(c, "unused")
    /\ request' = [request EXCEPT ![c] = [Started(kind) EXCEPT !.on = on]]
    /\ awaited' = c
    /\ UNCHANGED <<service, screen, promised>>

CallTimesOut ==
    /\ awaited # NoCall
    /\ awaited' = NoCall
    /\ unsure' = TRUE
    /\ UNCHANGED <<request, service, screen, word, reverted, strayed>>

\* persist_window_geom, the autostart, tray, language and notification
\* callbacks: each saves the whole configuration of the window.
WindowSaves ==
    /\ "window" \in LinkInputs
    /\ stored' = OwnConfig
    /\ reverted' = TRUE
    /\ UNCHANGED <<request, awaited, serving, inForce, config, tabLists, screen, word, unsure,
                   strayed>>

\* The poller's tick takes the tab; the task it spawns reads known_lists_hash.
PollTick(c) ==
    /\ "look" \in LinkInputs
    /\ Stage(c, "unused")
    /\ request' = [request EXCEPT ![c] = [Unused EXCEPT !.pc = "polled", !.tab = TabOf[view]]]
    /\ strayed' = (strayed \/ Fetching # {})
    /\ UNCHANGED <<awaited, service, screen, word, unsure, reverted>>

PollTask(c) ==
    /\ Stage(c, "polled")
    /\ request' = [request EXCEPT ![c].pc = "connect", ![c].known = knownHash]
    /\ UNCHANGED <<awaited, service, screen, promised>>

\* A snapshot that times out is not applied, whenever it comes.
PollTimesOut(c) ==
    /\ c \in Fetching /\ request[c].pc \in {"connect", "dispatch"}
    /\ Ends(c)
    /\ UNCHANGED <<awaited, service, screen, promised>>

\* apply_remote_snapshot, on the window's thread: the hash is kept, the lists
\* go where the window is by now.
ShownBy(snap) ==
    IF snap.full /\ snap.tab = TabOf[view]
    THEN [onScreen EXCEPT ![view] = snap.hash[2]] ELSE onScreen
ApplySnapshot(c) ==
    /\ Stage(c, "fetched")
    /\ knownHash' = request[c].hash
    /\ onScreen' = ShownBy(request[c])
    /\ Ends(c)
    /\ UNCHANGED <<awaited, service, view, promised>>

\* refresh_ui_state, after a device was isolated or the language changed, shows
\* the window's own lists, as if no service were there.
RefreshOwn ==
    /\ "look" \in LinkInputs
    /\ view \in OwnViews
    /\ onScreen' = [onScreen EXCEPT ![view] = OwnList]
    /\ UNCHANGED <<request, awaited, service, view, knownHash, promised>>

\* Nothing forgets known_lists_hash, here or there.
SwitchView(v) ==
    /\ "look" \in LinkInputs
    /\ v # view
    /\ view' = v
    /\ strayed' = (strayed \/ Fetching # {} \/ \E w \in Views \ {v} : TabOf[w] = TabOf[v])
    /\ UNCHANGED <<request, awaited, service, knownHash, onScreen, word, unsure,
                   reverted>>

-----------------------------------------------------------------------------
(***************************************************************************)
(* The pipe and dispatch                                                   *)
(***************************************************************************)
\* open_and_authenticate: no instance may be free, or the call goes through
\* the handshake.
Connect(c) ==
    /\ Stage(c, "connect")
    /\ \/ serving = "up" /\ Advance(c, "dispatch") /\ UNCHANGED awaited
       \/ /\ Ends(c)
          /\ awaited' = IF awaited = c THEN NoCall ELSE awaited
    /\ UNCHANGED <<service, screen, promised>>

\* serve returns when it cannot create the instance for the next client.
PipeIsLost ==
    /\ "lost" \in LinkInputs
    /\ serving = "up" /\ InService # {}
    /\ serving' = "deaf"
    /\ UNCHANGED <<request, awaited, inForce, config, stored, tabLists, screen, promised>>

\* apply_config_patch and apply_policy begin with the engine or the policy.
DispatchCommand(c) ==
    /\ Stage(c, "dispatch") /\ IsCommand(c)
    /\ inForce' = [inForce EXCEPT ![request[c].kind] = request[c].on]
    /\ Advance(c, "store")
    /\ UNCHANGED <<awaited, serving, config, stored, tabLists, screen, promised>>

\* A command may be refused before anything is changed: by apply_policy for a
\* strict rule about this machine, by apply_config_patch for an unknown field.
RefuseCommand(c) ==
    /\ "refuse" \in LinkInputs
    /\ Stage(c, "dispatch") /\ IsCommand(c)
    /\ awaited' = IF awaited = c THEN NoCall ELSE awaited
    /\ Ends(c)
    /\ UNCHANGED <<service, screen, promised>>

\* (mutant) The rule of the request is saved.
PersistRequest(c) ==
    /\ Stage(c, "store")
    /\ config' = [config EXCEPT ![request[c].kind] = request[c].on]
    /\ stored' = config'
    /\ Advance(c, "reply")
    /\ UNCHANGED <<awaited, serving, inForce, tabLists, screen, promised>>

\* A setting is kept as the request has it, the rules as they are by now
\* (persist_client_rules).
Kept(order) == IF order.kind = "rule" THEN inForce.rule ELSE order.on

\* (mutant) Only the configuration in memory changes.
PersistUnsaved(c) ==
    /\ Stage(c, "store")
    /\ config' = [config EXCEPT ![request[c].kind] = Kept(request[c])]
    /\ Advance(c, "reply")
    /\ UNCHANGED <<awaited, serving, inForce, stored, tabLists, screen, promised>>

\* The rest holds the configuration's lock.
Persist(c) ==
    /\ Stage(c, "store")
    /\ config' = [config EXCEPT ![request[c].kind] = Kept(request[c])]
    /\ \/ stored' = config' /\ reverted' = FALSE /\ UNCHANGED unsure
       \/ "disk" \in LinkInputs /\ unsure' = TRUE /\ UNCHANGED <<stored, reverted>>
    /\ Advance(c, "reply")
    /\ UNCHANGED <<awaited, serving, inForce, tabLists, screen, word, strayed>>

ReplyToCommand(c) ==
    /\ Stage(c, "reply")
    /\ word' = IF awaited = c THEN [word EXCEPT ![request[c].kind] = request[c].on] ELSE word
    /\ awaited' = IF awaited = c THEN NoCall ELSE awaited
    /\ Ends(c)
    /\ UNCHANGED <<service, screen, unsure, reverted, strayed>>

\* What build collects for a tab, for which its hash stands.
Built(tab) == <<tab, tabLists[tab]>>

\* (mutant) The tab is not part of the hash.
BuildUnmarked(c) ==
    /\ Stage(c, "dispatch") /\ ~IsCommand(c)
    /\ request' = [request EXCEPT
         ![c].pc = "fetched",
         ![c].hash = Built(request[c].tab),
         ![c].full = tabLists[request[c].tab] # request[c].known[2]]
    /\ UNCHANGED <<awaited, service, screen, promised>>

\* snapshot::build: the hash covers the tab and its lists.
BuildSnapshot(c) ==
    /\ Stage(c, "dispatch") /\ ~IsCommand(c)
    /\ LET hash == Built(request[c].tab) IN
       request' = [request EXCEPT ![c].pc = "fetched", ![c].hash = hash,
                                  ![c].full = hash # request[c].known]
    /\ UNCHANGED <<awaited, service, screen, promised>>

ListsMove(t, l) ==
    /\ "change" \in LinkInputs
    /\ tabLists[t] # l
    /\ tabLists' = [tabLists EXCEPT ![t] = l]
    /\ UNCHANGED <<request, awaited, serving, inForce, config, stored, screen, promised>>

\* The requests in the service end with it; a caller sees a closed pipe.  It
\* starts again with what is on disk.
ServiceDies ==
    /\ "restart" \in LinkInputs
    /\ serving # "down"
    /\ serving' = "down"
    /\ request' = [c \in Calls |->
                     IF c \in InService THEN Unused ELSE request[c]]
    /\ awaited' = IF awaited \in InService THEN NoCall ELSE awaited
    /\ unsure' = (unsure \/ reverted \/ InService \intersect InCommand # {})
    /\ config' = stored /\ inForce' = stored
    /\ UNCHANGED <<stored, tabLists, screen, word, reverted, strayed>>

ServiceStarts ==
    /\ serving = "down"
    /\ serving' = "up"
    /\ UNCHANGED <<request, awaited, inForce, config, stored, tabLists, screen, promised>>

LinkNext ==
    \/ \E c \in Calls :
         \/ \E order \in Orders : SendCommand(c, order[1], order[2])
         \/ PollTick(c) \/ PollTask(c) \/ PollTimesOut(c) \/ ApplySnapshot(c)
         \/ Connect(c) \/ RefuseCommand(c) \/ DispatchCommand(c) \/ Persist(c)
         \/ ReplyToCommand(c) \/ BuildSnapshot(c)
    \/ CallTimesOut \/ WindowSaves \/ RefreshOwn
    \/ \E v \in Views : SwitchView(v)
    \/ \E t \in Tabs, l \in Lists : ListsMove(t, l)
    \/ PipeIsLost \/ ServiceDies \/ ServiceStarts

LinkSpec == LinkInit /\ [][LinkNext]_linkVars

-----------------------------------------------------------------------------
\* As long as no command has timed out, was cut off or went unsaved, the
\* service acts on the operator's last command that was not refused, and has it
\* in its configuration; so has the file, until the window saves its own, and
\* while the file has it a service that is started again still acts on it.
LastWordHolds ==
    ~unsure /\ InCommand = {} =>
        inForce = word /\ config = word /\ (stored = word \/ reverted)

\* The client rules in the configuration are those in force, even when
\* commands that timed out overtake each other.
RulesAreKept ==
    (\A c \in InCommand : ~Stage(c, "store")) => config.rule = inForce.rule

\* A snapshot leaves out only lists that are on the screen: unless snapshots
\* overlap or views share a tab, the view shows what known_lists_hash stands for,
\* but where the window has put its own list over it, which stays until the
\* service's lists change.
KnownIsShown ==
    ~strayed /\ knownHash[1] = TabOf[view] => onScreen[view] \in {knownHash[2], OwnList}

=============================================================================
