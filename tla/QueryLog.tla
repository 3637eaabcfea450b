------------------------------- MODULE QueryLog -------------------------------
(***************************************************************************)
(* The log of DNS queries (src/modules/monitor/mod.rs): a bounded list of  *)
(* entries, newest first, the filtered copy of it the window may ask for,  *)
(* and dns_log.json, saved by the monitor's loop and by "clear".           *)
(*                                                                         *)
(* The list and the copy have a lock each.  A save keeps the read lock of  *)
(* the list until the file has been written aside and renamed, so saves    *)
(* may overlap each other, but not a change of the list.  All of them      *)
(* write to the same dns_log.json.tmp.                                     *)
(***************************************************************************)
EXTENDS Integers, Sequences, FiniteSets

CONSTANTS
    Loggers,      \* threads that log queries
    Wanted,       \* entries the window's filter lets through
    MaxLogs,      \* entries the list keeps
    MaxEntries,   \* entries logged in an instance, numbered
    LogFaults     \* what may go wrong in this instance

\* What may go wrong:
\*   disk   the file cannot be written, or not be renamed
\*   kill   the process is killed, and started again
LogFaultKinds == {"disk", "kill"}

Entries == 1 .. MaxEntries
NoCopy == <<0>>     \* filtered_cache is None
Torn   == <<-1>>    \* a file whose end is missing
Gone   == <<-2>>    \* no file

Threads == Loggers \union {"loop", "window"}
Saving == {"open", "write", "rename"}
LogLabels == Saving \union {"rest", "push", "uncopy", "announce", "wipe", "copy", "look"}

ASSUME LogAssumption ==
    /\ MaxLogs \in Nat \ {0} /\ MaxEntries \in Nat
    /\ LogFaults \subseteq LogFaultKinds

VARIABLES
    list,       \* logs
    copy,       \* filtered_cache
    behind,     \* logs_version is not the version the window has seen
    next,       \* the next entry
    shown,      \* what the window shows
    readers,    \* threads that hold the read lock of the list
    job,        \* the threads: where they are, and locals
    tmp, file,  \* dns_log.json.tmp and dns_log.json
    \* For the properties:
    cleared,    \* entries the operator has cleared, and the disk too
    lifted,     \* the filter was lifted since the last version
    crowded     \* two saves have overlapped

files == <<tmp, file>>
ghosts == <<cleared, lifted, crowded>>
logVars == <<list, copy, behind, next, shown, readers, job, files, ghosts>>

\* data: the copy or snapshot in hand; clears: the job is a "clear", of that
\* many entries; at: the file its open handle belongs to.
NoJob == [pc |-> "rest", data |-> <<>>, clears |-> {}, at |-> "none"]

SetOf(s) == {s[i] : i \in DOMAIN s}
Upto(s, n) == SubSeq(s, 1, IF Len(s) < n THEN Len(s) ELSE n)
Listed(content) == IF content \in {Torn, Gone} THEN <<>> ELSE content
Filtered(s) == SelectSeq(s, LAMBDA e : e \in Wanted)
Display == IF copy = NoCopy THEN list ELSE copy      \* get_logs

LogInit ==
    /\ list = <<>> /\ copy = NoCopy /\ behind = TRUE /\ next = 1
    /\ shown = <<>>
    /\ readers = {}
    /\ job = [t \in Threads |-> NoJob]
    /\ tmp = Gone /\ file = Gone
    /\ cleared = {} /\ lifted = FALSE /\ crowded = FALSE

In(t, label) == job[t].pc = label
Go(t, label) == job' = [job EXCEPT ![t].pc = label]
Savers == {t \in Threads : job[t].pc \in Saving}

-----------------------------------------------------------------------------
(***************************************************************************)
(* add_log                                                                 *)
(***************************************************************************)
\* (mutant) The version is counted before the copy is dropped.
PushAnnounced(t) ==
    /\ In(t, "rest") /\ next \in Entries /\ readers = {}
    /\ next' = next + 1
    /\ list' = Upto(<<next>> \o list, MaxLogs)
    /\ behind' = TRUE /\ lifted' = FALSE
    /\ job' = [job EXCEPT ![t].pc = "uncopy", ![t].at = "announced"]
    /\ UNCHANGED <<copy, shown, readers, files, cleared, crowded>>

PushEntry(t) ==
    /\ In(t, "rest") /\ next \in Entries /\ readers = {}
    /\ next' = next + 1
    /\ list' = Upto(<<next>> \o list, MaxLogs)
    /\ Go(t, "uncopy")
    /\ UNCHANGED <<copy, behind, shown, readers, files, ghosts>>

DropCopy(t) ==
    /\ In(t, "uncopy")
    /\ copy' = NoCopy
    /\ job' = [job EXCEPT ![t].pc = IF job[t].at = "announced" THEN "rest" ELSE "announce",
                          ![t].at = "none"]
    /\ UNCHANGED <<list, behind, next, shown, readers, files, ghosts>>

\* The end of add_log, of apply_filter, and of clear_logs but for its save.
Announce(t) ==
    /\ In(t, "announce")
    /\ behind' = TRUE /\ lifted' = FALSE
    /\ IF job[t].clears = {}
       THEN job' = [job EXCEPT ![t] = NoJob]
       ELSE Go(t, "wipe")
    /\ UNCHANGED <<list, copy, next, shown, readers, files, cleared, crowded>>

-----------------------------------------------------------------------------
(***************************************************************************)
(* The window's thread: apply_filter, clear_logs, and the refresh of the   *)
(* page when the version has changed.                                      *)
(***************************************************************************)
ApplyFilter ==
    /\ In("window", "rest")
    /\ job' = [job EXCEPT !["window"].pc = "copy", !["window"].data = Filtered(list)]
    /\ UNCHANGED <<list, copy, behind, next, shown, readers, files, ghosts>>

SetCopy ==
    /\ In("window", "copy")
    /\ copy' = job["window"].data
    /\ Go("window", "announce")
    /\ UNCHANGED <<list, behind, next, shown, readers, files, ghosts>>

\* With an empty filter the copy is dropped, and the version stays.
LiftFilter ==
    /\ In("window", "rest") /\ copy # NoCopy
    /\ copy' = NoCopy /\ lifted' = TRUE
    /\ UNCHANGED <<list, behind, next, shown, readers, job, files, cleared, crowded>>

ClearLogs ==
    /\ In("window", "rest") /\ list # <<>> /\ readers = {}
    /\ list' = <<>>
    /\ job' = [job EXCEPT !["window"].pc = "uncopy", !["window"].clears = 1 .. next - 1]
    /\ UNCHANGED <<copy, behind, next, shown, readers, files, ghosts>>

LookAtVersion ==
    /\ In("window", "rest") /\ behind
    /\ behind' = FALSE
    /\ Go("window", "look")
    /\ UNCHANGED <<list, copy, next, shown, readers, files, ghosts>>

ShowRows ==
    /\ In("window", "look")
    /\ shown' = Display
    /\ Go("window", "rest")
    /\ UNCHANGED <<list, copy, behind, next, readers, files, ghosts>>

-----------------------------------------------------------------------------
(***************************************************************************)
(* save_logs_to_disk, of the loop and at the end of clear_logs             *)
(***************************************************************************)
MaySave(t) == In(t, "wipe") \/ (t = "loop" /\ In(t, "rest"))
BeginSave(t) == job' = [job EXCEPT ![t].pc = "open", ![t].data = list]

\* (mutant) The lock is released before the file is written, as in the export.
StartSaveUnlocked(t) ==
    /\ MaySave(t) /\ BeginSave(t)
    /\ crowded' = (crowded \/ Savers # {})
    /\ UNCHANGED <<list, copy, behind, next, shown, readers, files, cleared, lifted>>

StartSave(t) ==
    /\ MaySave(t) /\ BeginSave(t)
    /\ readers' = readers \union {t}
    /\ crowded' = (crowded \/ Savers # {})
    /\ UNCHANGED <<list, copy, behind, next, shown, files, cleared, lifted>>

OpenTmp(t) ==
    /\ In(t, "open")
    /\ tmp' = Torn
    /\ job' = [job EXCEPT ![t].pc = "write", ![t].at = "tmp"]
    /\ UNCHANGED <<list, copy, behind, next, shown, readers, file, ghosts>>

EndSave(t, done, jobs) ==
    /\ readers' = readers \ {t}
    /\ cleared' = IF done THEN cleared \union job[t].clears ELSE cleared
    /\ job' = [jobs EXCEPT ![t] = NoJob]

\* The bytes go to the file that was opened, wherever it has been moved.
WriteTmp(t) ==
    /\ In(t, "write")
    /\ \/ /\ tmp' = IF job[t].at = "tmp" THEN job[t].data ELSE tmp
          /\ file' = IF job[t].at = "file" THEN job[t].data ELSE file
          /\ job' = [job EXCEPT ![t].pc = "rename", ![t].at = "none"]
          /\ UNCHANGED <<readers, cleared>>
       \/ "disk" \in LogFaults /\ EndSave(t, FALSE, job) /\ UNCHANGED files
    /\ UNCHANGED <<list, copy, behind, next, shown, lifted, crowded>>

\* It fails without a word: when another save has moved the file aside, when
\* the file it would replace is open, or when the disk fails.
RenameTmp(t) ==
    /\ In(t, "rename")
    /\ LET open == {w \in Threads : job[w].at = "file"}
           moved == [w \in Threads |->
                       [job[w] EXCEPT !.at = CASE @ = "tmp" -> "file"
                                               [] @ = "file" -> "gone"
                                               [] OTHER -> @]] IN
       \/ /\ tmp # Gone
          /\ file' = tmp /\ tmp' = Gone
          /\ EndSave(t, TRUE, moved)
       \/ /\ tmp = Gone \/ open # {} \/ "disk" \in LogFaults
          /\ EndSave(t, tmp = Gone \/ open # {}, job)
          /\ UNCHANGED files
    /\ UNCHANGED <<list, copy, behind, next, shown, lifted, crowded>>

-----------------------------------------------------------------------------
\* Killed, and started again: load_logs_from_disk.
LogRestart ==
    /\ "kill" \in LogFaults
    /\ list' = Upto(Listed(file), MaxLogs)
    /\ copy' = NoCopy /\ behind' = TRUE /\ lifted' = FALSE
    /\ shown' = <<>>
    /\ readers' = {} /\ job' = [t \in Threads |-> NoJob]
    /\ UNCHANGED <<next, files, cleared, crowded>>

LogNext ==
    \/ \E t \in Loggers : PushEntry(t)
    \/ ApplyFilter \/ SetCopy \/ LiftFilter \/ ClearLogs \/ LookAtVersion \/ ShowRows
    \/ \E t \in Threads :
         \/ DropCopy(t) \/ Announce(t)
         \/ StartSave(t) \/ OpenTmp(t) \/ WriteTmp(t) \/ RenameTmp(t)
    \/ LogRestart

LogSpec == LogInit /\ [][LogNext]_logVars

-----------------------------------------------------------------------------
Rows == Seq(1 .. next - 1)    \* of the entries so far

LogTypeOK ==
    /\ next \in Nat \ {0}
    /\ {list, shown} \subseteq Rows /\ copy \in Rows \union {NoCopy}
    /\ {tmp, file} \subseteq Rows \union {Torn, Gone}
    /\ readers \subseteq Threads /\ cleared \subseteq 1 .. next - 1
    /\ \A t \in Threads :
         /\ job[t].pc \in LogLabels /\ job[t].data \in Rows
         /\ job[t].clears \subseteq 1 .. next - 1
         /\ job[t].at \in {"none", "tmp", "file", "gone"}
    /\ {behind, lifted, crowded} \subseteq BOOLEAN

\* The program can be killed at any moment of a save and finds a whole file,
\* unless two saves have overlapped; and entries that were cleared stay away,
\* from the list and from that file, even if it is killed at once and started
\* again: a save of the loop that was already running when the operator cleared
\* them does not put them back.  Only a save of the "clear" that fails itself
\* leaves them in the file.
LogSurvives ==
    /\ file = Torn => crowded
    /\ (SetOf(list) \union SetOf(Listed(file))) \intersect cleared = {}

\* When nothing is going on and the window shows the present version, it shows
\* what get_logs returns; but a filter that is lifted is not noticed.
WindowFollows ==
    (\A t \in Threads : In(t, "rest")) /\ ~behind =>
        shown = Display \/ lifted

=============================================================================
