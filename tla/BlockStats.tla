------------------------------ MODULE BlockStats ------------------------------
(***************************************************************************)
(* The counters of blocked queries (src/modules/stats.rs): one for the day *)
(* and one for the ISO week, rolled over by whoever looks at them first in *)
(* a new period, counted up by the DNS handlers, and flushed to            *)
(* block_stats.json by the monitor's loop.                                 *)
(*                                                                         *)
(* The key of a period has a lock of its own; the counts and the flag      *)
(* dirty are atomic and are not under it.  A file is written aside and     *)
(* renamed, so that it is replaced in one step.                            *)
(***************************************************************************)
EXTENDS Integers

CONSTANTS
    Recorders,     \* threads that record blocks: the handlers of DNS packets
    Readers,       \* threads that read the counts: the window, the service
    DaysPerWeek,   \* days of an instance that share an ISO week
    LastDay,       \* the calendar's last day of an instance
    MaxBlocks,     \* blocks recorded in an instance
    StatFaults     \* what may go wrong in this instance

\* What may go wrong:
\*   write   the file cannot be written or renamed
\*   kill    the process is killed, and started again
StatFaultKinds == {"write", "kill"}

Counters == Recorders \union Readers
Periods == {"day", "week"}
Calendar == 0 .. LastDay
Key(p, day) == IF p = "day" THEN day ELSE day \div DaysPerWeek
Counting == {"rest", "roll", "zero", "add", "mark"}
Flushing == {"rest", "key", "count", "store"}

ASSUME StatsAssumption ==
    /\ DaysPerWeek \in Nat \ {0} /\ LastDay \in Nat /\ MaxBlocks \in Nat
    /\ StatFaults \subseteq StatFaultKinds

VARIABLES
    today,      \* the calendar
    current,    \* current_day and current_week
    count,      \* day_count and week_count
    dirty,
    throttled,  \* the period was checked less than a second ago
    counter,    \* the threads: where they are, and the date they have read
    flusher,    \* the monitor's flush: where it is, and its snapshot
    statFile,   \* block_stats.json
    recorded    \* increments made in each period, by the calendar (for the
                \* properties)

statVars == <<today, current, count, dirty, throttled, counter, flusher, statFile, recorded>>

ByPeriod(S) == [Periods -> S]
Zero == [p \in Periods |-> 0]
KeysOf(day) == [p \in Periods |-> Key(p, day)]
NoFile == [key |-> [p \in Periods |-> -1], count |-> Zero]
AtRest == [pc |-> "rest", period |-> "day", day |-> 0]
Unflushed == [pc |-> "rest", period |-> "day", key |-> Zero, count |-> Zero]

\* load_from_dir: a count of the file is taken if its period is the present one.
Loaded(file, keys) == [p \in Periods |-> IF file.key[p] = keys[p] THEN file.count[p] ELSE 0]

StatInit ==
    /\ today = 0
    /\ current = KeysOf(0) /\ count = Zero
    /\ dirty = FALSE /\ throttled = FALSE
    /\ counter = [u \in Counters |-> AtRest]
    /\ flusher = Unflushed
    /\ statFile = NoFile
    /\ recorded = [p \in Periods |-> [k \in Calendar |-> 0]]

-----------------------------------------------------------------------------
(***************************************************************************)
(* record_block, day_count and week_count begin with roll_if_new_period.   *)
(***************************************************************************)
CountsAt(u, label) == counter[u].pc = label
Locked(p) == \E u \in Counters : counter[u].pc = "zero" /\ counter[u].period = p

\* The day comes before the week, wherever both are touched.
StepTo(u, p, label, after) ==
    counter' = [counter EXCEPT ![u].pc = IF p = "day" THEN label ELSE after,
                               ![u].period = IF p = "day" THEN "week" ELSE "day"]
Blocks(u) == u \in Recorders
AfterRoll(u) == IF Blocks(u) THEN "add" ELSE "rest"

\* At most one check a second; the date is read when the check is claimed.
StartCount(u) ==
    /\ CountsAt(u, "rest")
    /\ Blocks(u) => recorded["day"][today] < MaxBlocks
    /\ counter' = [counter EXCEPT ![u] =
         [pc |-> IF throttled THEN AfterRoll(u) ELSE "roll", period |-> "day", day |-> today]]
    /\ throttled' = TRUE
    /\ UNCHANGED <<today, current, count, dirty, flusher, statFile, recorded>>

\* The key's lock is held from here until the count is reset.
Roll(u, p) ==
    /\ CountsAt(u, "roll") /\ counter[u].period = p
    /\ ~Locked(p)
    /\ IF current[p] = Key(p, counter[u].day)
       THEN StepTo(u, p, "roll", AfterRoll(u)) /\ UNCHANGED current
       ELSE /\ current' = [current EXCEPT ![p] = Key(p, counter[u].day)]
            /\ counter' = [counter EXCEPT ![u].pc = "zero"]
    /\ UNCHANGED <<today, count, dirty, throttled, flusher, statFile, recorded>>

ResetCount(u, p) ==
    /\ CountsAt(u, "zero") /\ counter[u].period = p
    /\ count' = [count EXCEPT ![p] = 0]
    /\ dirty' = TRUE
    /\ StepTo(u, p, "roll", AfterRoll(u))
    /\ UNCHANGED <<today, current, throttled, flusher, statFile, recorded>>

AddBlock(u, p) ==
    /\ CountsAt(u, "add") /\ counter[u].period = p
    /\ count' = [count EXCEPT ![p] = @ + 1]
    /\ recorded' = [recorded EXCEPT ![p][Key(p, today)] = @ + 1]
    /\ StepTo(u, p, "add", "mark")
    /\ UNCHANGED <<today, current, dirty, throttled, flusher, statFile>>

MarkDirty(u) ==
    /\ CountsAt(u, "mark")
    /\ dirty' = TRUE
    /\ counter' = [counter EXCEPT ![u] = AtRest]
    /\ UNCHANGED <<today, current, count, throttled, flusher, statFile, recorded>>

-----------------------------------------------------------------------------
(***************************************************************************)
(* flush_if_dirty, of the monitor's loop alone: the keys, each under its   *)
(* lock, then the counts.                                                  *)
(***************************************************************************)
StartFlush ==
    /\ flusher.pc = "rest"
    /\ dirty
    /\ dirty' = FALSE
    /\ flusher' = [flusher EXCEPT !.pc = "key"]
    /\ UNCHANGED <<today, current, count, throttled, counter, statFile, recorded>>

Snapshots(p, field, value, after) ==
    flusher' = [flusher EXCEPT ![field][p] = value,
                               !.period = IF p = "day" THEN "week" ELSE "day",
                               !.pc = IF p = "day" THEN @ ELSE after]

\* (mutant) The key is read without its lock.
ReadKeyUnlocked(p) ==
    /\ flusher.pc = "key" /\ flusher.period = p
    /\ Snapshots(p, "key", current[p], "count")
    /\ UNCHANGED <<today, current, count, dirty, throttled, counter, statFile, recorded>>

ReadKey(p) ==
    /\ flusher.pc = "key" /\ flusher.period = p
    /\ ~Locked(p)
    /\ Snapshots(p, "key", current[p], "count")
    /\ UNCHANGED <<today, current, count, dirty, throttled, counter, statFile, recorded>>

ReadCount(p) ==
    /\ flusher.pc = "count" /\ flusher.period = p
    /\ Snapshots(p, "count", count[p], "store")
    /\ UNCHANGED <<today, current, count, dirty, throttled, counter, statFile, recorded>>

\* (mutant) A file that was written leaves nothing to write.
StoreCleans ==
    /\ flusher.pc = "store"
    /\ statFile' = [key |-> flusher.key, count |-> flusher.count] /\ dirty' = FALSE
    /\ flusher' = Unflushed
    /\ UNCHANGED <<today, current, count, throttled, counter, recorded>>

\* A file that could not be written or renamed is tried again.
Store ==
    /\ flusher.pc = "store"
    /\ \/ statFile' = [key |-> flusher.key, count |-> flusher.count] /\ UNCHANGED dirty
       \/ "write" \in StatFaults /\ dirty' = TRUE /\ UNCHANGED statFile
    /\ flusher' = Unflushed
    /\ UNCHANGED <<today, current, count, throttled, counter, recorded>>

-----------------------------------------------------------------------------
Midnight ==
    /\ today < LastDay
    /\ today' = today + 1
    /\ UNCHANGED <<current, count, dirty, throttled, counter, flusher, statFile, recorded>>

SecondPasses ==
    /\ throttled' = FALSE
    /\ UNCHANGED <<today, current, count, dirty, counter, flusher, statFile, recorded>>

\* Killed, and started again: load_from_dir.
StatRestart ==
    /\ "kill" \in StatFaults
    /\ current' = KeysOf(today)
    /\ count' = Loaded(statFile, KeysOf(today))
    /\ dirty' = FALSE /\ throttled' = FALSE
    /\ counter' = [u \in Counters |-> AtRest]
    /\ flusher' = Unflushed
    /\ UNCHANGED <<today, statFile, recorded>>

StatNext ==
    \/ \E u \in Counters :
         \/ StartCount(u)
         \/ \E p \in Periods : Roll(u, p) \/ ResetCount(u, p) \/ AddBlock(u, p)
         \/ MarkDirty(u)
    \/ StartFlush \/ (\E p \in Periods : ReadKey(p) \/ ReadCount(p)) \/ Store
    \/ Midnight \/ SecondPasses \/ StatRestart

StatSpec == StatInit /\ [][StatNext]_statVars

-----------------------------------------------------------------------------
\* Every variable keeps to the values the code can give it.
StatTypeOK ==
    /\ today \in Calendar
    /\ current \in ByPeriod(Calendar) /\ count \in ByPeriod(Nat)
    /\ {dirty, throttled} \subseteq BOOLEAN
    /\ counter \in [Counters -> [pc : Counting, period : Periods, day : Calendar]]
    /\ flusher \in [pc : Flushing, period : Periods, key : ByPeriod(Calendar), count : ByPeriod(Nat)]
    /\ statFile \in [key : ByPeriod(Calendar \union {-1}), count : ByPeriod(Nat)]
    /\ recorded \in [Periods -> [Calendar -> Nat]]

\* What the program would load now is no more than what was really blocked in
\* the present day and week: a flush never pairs a new period with the count
\* of the old one, however it is interleaved with the threads that roll over,
\* even when one of them is late and rolls back for a while.
LoadsNoMore ==
    \A p \in Periods :
        Loaded(statFile, KeysOf(today))[p] <= recorded[p][Key(p, today)]

\* A clean counter that nobody is working on is the one on disk: what was
\* counted while a flush ran is not forgotten.
CleanIsStored ==
    ~dirty /\ flusher.pc = "rest" /\ (\A u \in Counters : CountsAt(u, "rest")) =>
        count = Loaded(statFile, current)

=============================================================================
