------------------------------ MODULE WfpBlocker ------------------------------
(***************************************************************************)
(* The operator's own blocks of addresses and ports                        *)
(* (src/modules/blocker/mod.rs): filters in the Windows filtering engine,  *)
(* added when protection is switched on and deleted by the ids the program *)
(* remembers.                                                              *)
(*                                                                         *)
(* apply_protection enables and disables them under its own lock.  The     *)
(* emergency restores of window and tray disable them without it, and a    *)
(* start that cannot bind its port lowers the flag of the protection       *)
(* without disabling anything.  In the blocker itself the handle, the ids  *)
(* and the lists have a lock each, and the flag has none.                  *)
(***************************************************************************)
EXTENDS Naturals

CONSTANTS
    Targets,     \* addresses and ports the operator may list
    BadTargets,  \* those that are no IPv4 address, or port 0
    Actors,      \* threads that switch protection or restore the network
    MaxEdits,    \* changes of the configured lists in an instance
    WfpFaults    \* "refuse": the engine refuses a filter; "stuck": a deletion

ASSUME WfpAssumption ==
    BadTargets \subseteq Targets /\ MaxEdits \in Nat /\ WfpFaults \subseteq {"refuse", "stuck"}

VARIABLES
    available,   \* the engine could be opened when the program was started
    protected,   \* protection_atomic
    configured,  \* wfp_blocked_ips and wfp_blocked_ports of the configuration
    lists,       \* blocked_ips and blocked_ports
    filters,     \* targets of this program's filters in the engine, but the strays
    strays,      \* targets of filters whose deletion the engine has refused
    filterIds,   \* filter_ids: those it remembers
    enforced,    \* enabled
    starting,    \* the start-up task has not bound its port yet
    actor,       \* the threads: where they are, and locals
    edits,       \* changes so far
    \* For the property:
    amended,     \* the configured lists changed since the filters were added
    deserted,    \* the port was not bound, and nobody has switched since
    crossed      \* an emergency restore met a switch

engineState == <<filters, strays, filterIds>>
wfpVars == <<available, protected, configured, lists, engineState, enforced, starting, actor, edits,
             amended, deserted, crossed>>

WfpLabels == {"rest", "flipped", "lists", "enable", "clear", "add", "note", "undo",
              "disable", "drop", "lower", "off"}

WfpCalls == {"none", "turnOn", "turnOff", "on", "off", "rescue"}

\* call: which call it is, or is going to be; left: targets still to be added; failed: one could
\* not be; target: the filter just added.
NoAct == [pc |-> "rest", call |-> "none", left |-> {}, failed |-> FALSE, target |-> {}]

WfpInit ==
    /\ available \in BOOLEAN /\ protected \in BOOLEAN
    /\ configured \in SUBSET Targets /\ lists = configured
    /\ filters = {} /\ strays = {} /\ filterIds = {} /\ enforced = FALSE /\ starting = TRUE
    /\ actor = [t \in Actors |-> NoAct]
    /\ edits = 0 /\ amended = FALSE /\ deserted = FALSE /\ crossed = FALSE

ActsAt(t, label) == actor[t].pc = label
ActGoes(t, label) == actor' = [actor EXCEPT ![t].pc = label]
ActEnds(t) == actor' = [actor EXCEPT ![t] = NoAct]
InCall(call) == {t \in Actors : actor[t].call = call}
Applying == InCall("on") \union InCall("off")

\* clear_filters, under the locks of the handle and of the ids.  The ids are
\* forgotten whatever the engine says to the deletions.
ClearFilters ==
    /\ filters' = filters \ filterIds /\ filterIds' = {}
    /\ \E kept \in IF "stuck" \in WfpFaults THEN SUBSET filterIds ELSE {{}} :
         strays' = strays \union kept

-----------------------------------------------------------------------------
(***************************************************************************)
(* Start and toggles                                                       *)
(***************************************************************************)
\* The port is taken: protection goes off, the filters stay.
BindFails ==
    /\ starting /\ starting' = FALSE
    /\ protected' = FALSE
    /\ deserted' = TRUE
    /\ UNCHANGED <<available, configured, lists, engineState, enforced, actor, edits, amended, crossed>>

\* Tray and hotkey invert the flag before their thread calls apply_protection.
FlipProtection(t) ==
    /\ ActsAt(t, "rest")
    /\ protected' = ~protected
    /\ actor' = [actor EXCEPT ![t].pc = "flipped",
                              ![t].call = IF protected THEN "turnOff" ELSE "turnOn"]
    /\ UNCHANGED <<available, configured, lists, engineState, enforced, starting, edits, amended,
                   deserted, crossed>>

-----------------------------------------------------------------------------
(***************************************************************************)
(* apply_protection                                                        *)
(***************************************************************************)
ApplyProtection(t, on) ==
    /\ \/ ActsAt(t, "rest")
       \/ ActsAt(t, "flipped") /\ actor[t].call = IF on THEN "turnOn" ELSE "turnOff"
    /\ Applying = {}
    /\ protected' = on
    /\ actor' = [actor EXCEPT ![t].pc = "lists", ![t].call = IF on THEN "on" ELSE "off"]
    /\ deserted' = FALSE
    /\ crossed' = (crossed \/ InCall("rescue") # {})
    /\ UNCHANGED <<available, configured, lists, engineState, enforced, starting, edits, amended>>

\* The lists are taken from the configuration again; without the engine
\* nothing is enabled.
TakeLists == lists' = configured

RefreshLists(t) ==
    /\ ActsAt(t, "lists")
    /\ TakeLists
    /\ \/ actor[t].call = "on" /\ available /\ ActGoes(t, "enable")
       \/ actor[t].call = "on" /\ ~available /\ ActEnds(t)
       \/ actor[t].call = "off" /\ ActGoes(t, "disable")
    /\ UNCHANGED <<available, protected, configured, engineState, enforced, starting, edits,
                   amended, deserted, crossed>>

-----------------------------------------------------------------------------
(***************************************************************************)
(* enable                                                                  *)
(***************************************************************************)
LookEnabled(t) ==
    /\ ActsAt(t, "enable")
    /\ IF enforced THEN ActEnds(t) ELSE ActGoes(t, "clear")
    /\ UNCHANGED <<available, protected, configured, lists, engineState, enforced, starting, edits,
                   amended, deserted, crossed>>

ClearFirst(t) ==
    /\ ActsAt(t, "clear")
    /\ ClearFilters
    /\ actor' = [actor EXCEPT ![t].pc = "add", ![t].left = lists]
    /\ UNCHANGED <<available, protected, configured, lists, enforced, starting, edits, amended,
                   deserted, crossed>>

\* One target: a filter is added, or the target counts as failed.
AddFilter(t) ==
    /\ ActsAt(t, "add")
    /\ \E x \in actor[t].left :
         \/ /\ x \notin BadTargets
            /\ filters' = filters \union {x}
            /\ actor' = [actor EXCEPT ![t].pc = "note", ![t].left = @ \ {x}, ![t].target = {x}]
         \/ /\ x \in BadTargets \/ "refuse" \in WfpFaults
            /\ actor' = [actor EXCEPT ![t].left = @ \ {x}, ![t].failed = TRUE]
            /\ UNCHANGED filters
    /\ UNCHANGED <<available, protected, configured, lists, strays, filterIds, enforced, starting,
                   edits, amended, deserted, crossed>>

NoteFilter(t) ==
    /\ ActsAt(t, "note")
    /\ filterIds' = filterIds \union actor[t].target
    /\ actor' = [actor EXCEPT ![t].pc = "add", ![t].target = {}]
    /\ UNCHANGED <<available, protected, configured, lists, filters, strays, enforced, starting,
                   edits, amended, deserted, crossed>>

\* (mutant) The filters that could be added stay when another could not.
FinishPartly(t) ==
    /\ ActsAt(t, "add") /\ actor[t].left = {}
    /\ IF actor[t].failed
       THEN UNCHANGED <<enforced, amended>>
       ELSE enforced' = TRUE /\ amended' = (lists # configured)
    /\ ActEnds(t)
    /\ UNCHANGED <<available, protected, configured, lists, engineState, starting, edits, deserted,
                   crossed>>

FinishEnable(t) ==
    /\ ActsAt(t, "add") /\ actor[t].left = {}
    /\ IF actor[t].failed
       THEN ActGoes(t, "undo") /\ UNCHANGED <<enforced, amended>>
       ELSE ActEnds(t) /\ enforced' = TRUE /\ amended' = (lists # configured)
    /\ UNCHANGED <<available, protected, configured, lists, engineState, starting, edits, deserted,
                   crossed>>

UndoEnable(t) ==
    /\ ActsAt(t, "undo")
    /\ ClearFilters
    /\ ActEnds(t)
    /\ UNCHANGED <<available, protected, configured, lists, enforced, starting, edits, amended,
                   deserted, crossed>>

-----------------------------------------------------------------------------
(***************************************************************************)
(* disable, and the emergency restores                                     *)
(***************************************************************************)
AfterDisable(t) == IF actor[t].call = "rescue" THEN ActGoes(t, "off") ELSE ActEnds(t)

LookDisabled(t) ==
    /\ ActsAt(t, "disable")
    /\ IF enforced THEN ActGoes(t, "drop") ELSE AfterDisable(t)
    /\ UNCHANGED <<available, protected, configured, lists, engineState, enforced, starting, edits,
                   amended, deserted, crossed>>

DropFilters(t) ==
    /\ ActsAt(t, "drop")
    /\ ClearFilters
    /\ ActGoes(t, "lower")
    /\ UNCHANGED <<available, protected, configured, lists, enforced, starting, edits, amended,
                   deserted, crossed>>

LowerFlag(t) ==
    /\ ActsAt(t, "lower")
    /\ enforced' = FALSE
    /\ AfterDisable(t)
    /\ UNCHANGED <<available, protected, configured, lists, engineState, starting, edits, amended,
                   deserted, crossed>>

\* What comes before, the DNS and the master lock, is in DnsOverride.
Rescue(t) ==
    /\ ActsAt(t, "rest")
    /\ actor' = [actor EXCEPT ![t].pc = "disable", ![t].call = "rescue"]
    /\ crossed' = (crossed \/ Applying # {})
    /\ UNCHANGED <<available, protected, configured, lists, engineState, enforced, starting, edits,
                   amended, deserted>>

RescueEnds(t) ==
    /\ ActsAt(t, "off")
    /\ protected' = FALSE
    /\ ActEnds(t)
    /\ UNCHANGED <<available, configured, lists, engineState, enforced, starting, edits, amended,
                   deserted, crossed>>

\* A backup with other lists is imported.
ImportLists ==
    /\ edits < MaxEdits /\ edits' = edits + 1
    /\ configured' \in SUBSET Targets \ {configured}
    /\ amended' = TRUE
    /\ UNCHANGED <<available, protected, lists, engineState, enforced, starting, actor, deserted,
                   crossed>>

WfpStep(t) ==
    \/ RefreshLists(t) \/ LookEnabled(t) \/ ClearFirst(t) \/ AddFilter(t) \/ NoteFilter(t)
    \/ FinishEnable(t) \/ UndoEnable(t)
    \/ LookDisabled(t) \/ DropFilters(t) \/ LowerFlag(t) \/ RescueEnds(t)

WfpNext ==
    \/ \E t \in Actors : WfpStep(t) \/ FlipProtection(t) \/ Rescue(t)
    \/ \E t \in Actors, on \in BOOLEAN : ApplyProtection(t, on)
    \/ BindFails \/ ImportLists

WfpSpec == WfpInit /\ [][WfpNext]_wfpVars

-----------------------------------------------------------------------------
\* Every variable keeps to the values the code can give it.
WfpTypeOK ==
    /\ {available, protected, enforced, starting, amended, deserted, crossed} \subseteq BOOLEAN
    /\ {configured, lists, filters, strays, filterIds} \subseteq SUBSET Targets
    /\ actor \in [Actors -> [pc : WfpLabels, call : WfpCalls,
                             left : SUBSET Targets, failed : BOOLEAN, target : SUBSET Targets]]
    /\ edits \in 0 .. MaxEdits

\* A filter in the engine is one whose id the program remembers, or is about
\* to, so that a disable can take it away, or one whose deletion the engine has
\* refused: those stay.  When no call is under way, all of the operator's targets
\* are blocked or none is but those: all of them if the blocker says it is enabled,
\* which with protection off it is only where the start has failed to bind its
\* port since the last switch; none otherwise, whatever switches and refusals came
\* before.  Only lists imported since wait for the next switch, and an emergency
\* restore that meets a switch may break this.
AllOrNoFilters ==
    /\ filterIds \subseteq filters
    /\ \A x \in filters \ filterIds : \E t \in Actors : actor[t].target = {x}
    /\ ~crossed /\ (\A t \in Actors : ActsAt(t, "rest")) =>
         LET blocked == filters \union strays IN
         IF enforced
         THEN (protected \/ deserted) /\ (blocked = configured \union strays \/ amended)
         ELSE blocked = strays

=============================================================================
