----------------------------- MODULE LocationScan -----------------------------
(***************************************************************************)
(* The scan of a folder (src/modules/security/location_scan.rs) and the    *)
(* callbacks that start, stop and show it (handlers.rs 1756-2034).         *)
(*                                                                         *)
(* One flag, cancel, is shared by all scans.  The window refuses a second  *)
(* scan by its "busy" property, which an event sets after the callback is  *)
(* over: a click that was already waiting starts a second one, whose start *)
(* takes back a stop meant for the first.                                  *)
(***************************************************************************)
EXTENDS Naturals, FiniteSets, Sequences

CONSTANTS
    Folders, ScanFiles,  \* paths
    Roots,               \* folders the operator may choose
    Holds,               \* folder -> its folders and files
    RealOf,              \* folder -> its canonical path
    SkippedFolders,      \* noise, or covered by a root of the system
    LevelOf,             \* file -> what it is
    MaxFiles,            \* location_scan_max_files
    Scans, MaxClicks,    \* clicks that pass the dialog, and how many may
    ScanFaults           \* what may go wrong in this instance

\* "empty" also stands for a file too large, "other" for a name whose extension
\* is not wanted, or for a link.
ScanLevels == {"clean", "SUSPICIOUS", "MALICIOUS", "empty", "other"}
ThreatLevels == {"SUSPICIOUS", "MALICIOUS"}

ASSUME LocationAssumption ==
    /\ MaxFiles \in Nat \ {0} /\ MaxClicks \in Nat /\ Roots \subseteq Folders
    /\ Holds \in [Folders -> SUBSET (Folders \union ScanFiles)]
    /\ RealOf \in [Folders -> Folders] /\ SkippedFolders \subseteq Folders
    /\ LevelOf \in [ScanFiles -> ScanLevels]
    /\ ScanFaults \subseteq {"folder", "file", "panic"}

VARIABLES
    cancel,     \* location_scan_cancel
    busy,       \* location_scan_is_busy
    listed,     \* location_scan_threats
    toWindow,   \* events that wait for the window's thread
    sweep,      \* scan -> where it is, its locals and its report
    alerted,    \* files the engine was told of
    \* For the property:
    stops       \* scan -> a stop was pressed after it was chosen, and how
                \* many files it has begun since

locVars == <<cancel, busy, listed, toWindow, sweep, alerted, stops>>

\* unread, the folders that could not be read, is for the property only.
EmptyReport == [scanned |-> {}, skipped |-> {}, read |-> {}, unread |-> {}, threats |-> {},
                cancelled |-> FALSE, budget |-> FALSE]
NoScan == [pc |-> "none", root |-> CHOOSE f \in Folders : TRUE, stack |-> <<>>,
           visited |-> {}, left |-> {}, hand |-> "none", report |-> EmptyReport]

ScanAt(s, label) == sweep[s].pc = label
Underway == {s \in Scans : sweep[s].pc \notin {"none", "over", "died"}}
BudgetSpent(s) == Cardinality(sweep[s].report.scanned) >= MaxFiles

LocInit ==
    /\ cancel = FALSE /\ busy = FALSE
    /\ listed = {} /\ toWindow = <<>>
    /\ sweep = [s \in Scans |-> NoScan]
    /\ alerted = {}
    /\ stops = [s \in Scans |-> [pressed |-> FALSE, late |-> 0]]

-----------------------------------------------------------------------------
(***************************************************************************)
(* The window                                                              *)
(***************************************************************************)
ChooseFolder(s, root) ==
    /\ ~busy /\ ScanAt(s, "none")
    /\ Cardinality({t \in Scans : ~ScanAt(t, "none")}) < MaxClicks
    /\ cancel' = FALSE
    /\ toWindow' = Append(toWindow, [busy |-> TRUE, died |-> FALSE, threats |-> {}])
    /\ sweep' = [sweep EXCEPT ![s].pc = "start", ![s].root = root]
    \* What was pressed before this no longer counts.
    /\ stops' = [t \in Scans |-> [pressed |-> FALSE, late |-> 0]]
    /\ UNCHANGED <<busy, listed, alerted>>

StopScan ==
    /\ Underway # {}
    /\ cancel' = TRUE
    /\ stops' = [s \in Scans |-> [stops[s] EXCEPT !.pressed = @ \/ s \in Underway]]
    /\ UNCHANGED <<busy, listed, toWindow, sweep, alerted>>

ShowScan ==
    /\ toWindow # <<>>
    /\ busy' = Head(toWindow).busy
    /\ listed' = IF Head(toWindow).died THEN listed ELSE Head(toWindow).threats
    /\ toWindow' = Tail(toWindow)
    /\ UNCHANGED <<cancel, sweep, alerted, stops>>

-----------------------------------------------------------------------------
(***************************************************************************)
(* scan_location                                                           *)
(***************************************************************************)
Goes(s, work) == sweep' = [sweep EXCEPT ![s] = work]

\* scan_location returns report, and the task sends it to the window.
EndScan(s, report) ==
    /\ Goes(s, [NoScan EXCEPT !.pc = "over", !.root = sweep[s].root, !.report = report])
    /\ toWindow' = Append(toWindow, [busy |-> FALSE, died |-> FALSE, threats |-> report.threats])

StartScan(s) ==
    /\ ScanAt(s, "start")
    /\ LET root == sweep[s].root IN
       IF root \in SkippedFolders
       THEN EndScan(s, EmptyReport)
       ELSE /\ Goes(s, [sweep[s] EXCEPT !.pc = "folders", !.stack = <<root>>,
                                        !.visited = {RealOf[root]}])
            /\ UNCHANGED toWindow
    /\ UNCHANGED <<cancel, busy, listed, alerted, stops>>

NextFolder(s) ==
    /\ ScanAt(s, "folders")
    /\ LET w == sweep[s]
           top == w.stack[Len(w.stack)]
           rest == SubSeq(w.stack, 1, Len(w.stack) - 1) IN
       \/ w.stack = <<>> /\ EndScan(s, w.report)
       \/ w.stack # <<>> /\ cancel /\ EndScan(s, [w.report EXCEPT !.cancelled = TRUE])
       \/ /\ w.stack # <<>> /\ ~cancel /\ BudgetSpent(s)
          /\ EndScan(s, [w.report EXCEPT !.budget = TRUE])
       \/ /\ w.stack # <<>> /\ ~cancel /\ ~BudgetSpent(s)
          /\ \/ Goes(s, [w EXCEPT !.pc = "entries", !.stack = rest, !.left = Holds[top],
                                  !.report.read = @ \union {top}])
             \* A folder that cannot be read is not counted anywhere.
             \/ /\ "folder" \in ScanFaults
                /\ Goes(s, [w EXCEPT !.stack = rest, !.report.unread = @ \union {top}])
          /\ UNCHANGED toWindow
    /\ UNCHANGED <<cancel, busy, listed, alerted, stops>>

\* What an entry of the folder at hand leads to.
Taken(w, e) ==
    LET v == [w EXCEPT !.left = @ \ {e}] IN
    IF e \in Folders
    THEN [v EXCEPT !.visited = @ \union {RealOf[e]},
                   !.stack = IF RealOf[e] \notin w.visited /\ e \notin SkippedFolders
                             THEN Append(@, e) ELSE @]
    ELSE CASE LevelOf[e] = "other" -> v
           [] LevelOf[e] = "empty" -> [v EXCEPT !.report.skipped = @ \union {e}]
           [] OTHER -> [v EXCEPT !.pc = "file", !.hand = e]

\* (mutant) Out of budget, the rest of the folder is left without a word.
NextEntrySilently(s) ==
    /\ ScanAt(s, "entries")
    /\ LET w == sweep[s] IN
       IF w.left = {} \/ BudgetSpent(s) THEN Goes(s, [w EXCEPT !.pc = "folders", !.left = {}])
       ELSE IF cancel
       THEN Goes(s, [w EXCEPT !.pc = "folders", !.left = {}, !.report.cancelled = TRUE])
       ELSE \E e \in w.left : Goes(s, Taken(w, e))
    /\ UNCHANGED <<cancel, busy, listed, toWindow, alerted, stops>>

\* Leaving a folder early, the scan asks again before the next one.
NextEntry(s) ==
    /\ ScanAt(s, "entries")
    /\ LET w == sweep[s]
           out == [w EXCEPT !.pc = "folders", !.left = {}] IN
       IF w.left = {} THEN Goes(s, out)
       ELSE IF cancel THEN Goes(s, [out EXCEPT !.report.cancelled = TRUE])
       ELSE IF BudgetSpent(s) THEN Goes(s, [out EXCEPT !.report.budget = TRUE])
       ELSE \E e \in w.left : Goes(s, Taken(w, e))
    /\ UNCHANGED <<cancel, busy, listed, toWindow, alerted, stops>>

ScanOneFile(s) ==
    /\ ScanAt(s, "file")
    /\ LET w == sweep[s]
           f == w.hand
           back == [w EXCEPT !.pc = "entries", !.hand = "none"]
           threat == IF LevelOf[f] \in ThreatLevels THEN {f} ELSE {} IN
       \/ /\ Goes(s, [back EXCEPT !.report.scanned = @ \union {f},
                                  !.report.threats = @ \union threat])
          /\ alerted' = IF LevelOf[f] = "MALICIOUS" THEN alerted \union {f} ELSE alerted
       \/ /\ "file" \in ScanFaults
          /\ Goes(s, [back EXCEPT !.report.skipped = @ \union {f}])
          /\ UNCHANGED alerted
    /\ stops' = [stops EXCEPT ![s].late = IF stops[s].pressed THEN @ + 1 ELSE @]
    /\ UNCHANGED <<cancel, busy, listed, toWindow>>

\* The task has died: the window is told, and keeps the list it shows.
ScanDies(s) ==
    /\ ScanAt(s, "file") /\ "panic" \in ScanFaults
    /\ Goes(s, [NoScan EXCEPT !.pc = "died"])
    /\ toWindow' = Append(toWindow, [busy |-> FALSE, died |-> TRUE, threats |-> {}])
    /\ UNCHANGED <<cancel, busy, listed, alerted, stops>>

LocNext ==
    \/ \E s \in Scans :
         \/ \E root \in Roots : ChooseFolder(s, root)
         \/ StartScan(s) \/ NextFolder(s) \/ NextEntry(s) \/ ScanOneFile(s) \/ ScanDies(s)
    \/ StopScan \/ ShowScan

LocSpec == LocInit /\ [][LocNext]_locVars

-----------------------------------------------------------------------------
Reports == [scanned : SUBSET ScanFiles, skipped : SUBSET ScanFiles, read : SUBSET Folders,
            unread : SUBSET Folders, threats : SUBSET ScanFiles,
            cancelled : BOOLEAN, budget : BOOLEAN]
Walks == {"folders", "entries", "file"}
AnyFolder == Folders \union {CHOOSE f \in Folders : TRUE}
Sweeps == [pc : Walks \union {"none", "start", "over", "died"}, root : AnyFolder,
           stack : Seq(Folders), visited : SUBSET Folders,
           left : SUBSET (Folders \union ScanFiles), hand : ScanFiles \union {"none"},
           report : Reports]

LocTypeOK ==
    /\ {cancel, busy} \subseteq BOOLEAN
    /\ listed \subseteq ScanFiles /\ alerted \subseteq ScanFiles
    /\ toWindow \in Seq([busy : BOOLEAN, died : BOOLEAN, threats : SUBSET ScanFiles])
    /\ sweep \in [Scans -> Sweeps]
    /\ stops \in [Scans -> [pressed : BOOLEAN, late : Nat]]

\* What the folders in read hold.
Met(read) == UNION {Holds[d] : d \in read}

\* What a report that says "complete" owes: the files of every folder it read,
\* scanned or counted as skipped, and every folder it met, under some name.  A
\* name that is skipped speaks for the others: it too goes to visited.
Covers(r) ==
    /\ \A e \in Met(r.read) \ Folders : LevelOf[e] = "other" \/ e \in r.scanned \union r.skipped
    /\ \A e \in Met(r.read) \intersect Folders :
         \E d \in r.read \union r.unread \union (Met(r.read) \intersect SkippedFolders) :
           RealOf[d] = RealOf[e]

\* Whatever stops, second scans and failures come between: a report that does
\* not say it was stopped or ran out of budget leaves out nothing it could
\* read, and one says it was stopped only if it was; every threat it met is
\* named in it, the engine knows the malicious ones, and the budget is kept.
\* After a stop that no other scan takes back, at most the file in hand is
\* still scanned.
ReportIsHonest == \A s \in Scans :
    LET r == sweep[s].report IN
    /\ r.threats = {f \in r.scanned : LevelOf[f] \in ThreatLevels}
    /\ {f \in r.threats : LevelOf[f] = "MALICIOUS"} \subseteq alerted
    /\ Cardinality(r.scanned) <= MaxFiles
    /\ ScanAt(s, "over") /\ ~r.cancelled /\ ~r.budget => Covers(r)
    /\ r.cancelled => cancel \/ \E t \in Scans \ {s} : ~ScanAt(t, "none")
    /\ stops[s].late <= 1

=============================================================================
