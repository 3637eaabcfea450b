----------------------------- MODULE RealtimeGuard -----------------------------
(***************************************************************************)
(* The real-time guard (src/modules/security/realtime_guard.rs): a worker  *)
(* thread that wakes every three seconds, looks for files that changed in  *)
(* the watched folders, checks the ransomware canaries and the removable   *)
(* drives, has changed files analysed, and hands the malicious ones to the *)
(* quarantine (QuarantineVault, which this module extends: the guard is    *)
(* one of its callers, and the operator goes on calling it meanwhile).     *)
(*                                                                         *)
(* The master internet lock the guard may close is that of DnsOverride;    *)
(* here it is a flag that others may open or close as well.                *)
(***************************************************************************)
EXTENDS QuarantineVault

CONSTANTS
    Guard,          \* the worker, as a caller of the quarantine
    Malicious,      \* contents the analyser calls MALICIOUS
    Bulky,          \* contents longer than MAX_SCAN_BYTES
    MassMutation,   \* MASS_MUTATION_THRESHOLD: so many changes are a flood
    InspectMax,     \* files inspected in one tick
    Canaries,       \* canary files: the application's and one per folder
    AppCanary,
    PlantableDirs,  \* canaries whose folder exists
    CanaryForms,    \* versions of a canary's bytes, the first one planted
    Drives,         \* drive letters a removable drive may get
    GuardInputs     \* what may happen around the guard in this instance

\* What may happen around the guard:
\*   files     the owner saves files, and calls the quarantine
\*   options   the operator turns switches other than the guard's
\*   tamper    somebody rewrites or deletes a canary
\*   drives    removable drives come and go
\*   network   somebody else opens or closes the master internet lock
\*   cooldown  a minute passes since an incident of a kind
\*   spawn     the worker thread cannot be started
\*   unread    the analysis of a file fails
\*   refuse    the adapters cannot be set when the lock is closed or opened
GuardInputKinds == {"files", "options", "tamper", "drives", "network", "cooldown", "spawn",
                    "unread", "refuse"}

Incidents == {"BULK_FILE_CHANGE", "CANARY_TAMPER", "USB_DEVICE_ATTACHED",
              "FILE_MALICIOUS", "CANARY_LOCK_RELEASED"}
GuardLabels == {"none", "sleep", "scan", "canaries", "drives", "sift", "inspect", "isolate", "isolating"}
Absent  == 0
Unknown == 0      \* no hash is remembered
RawBytes == -1    \* the canary's own bytes are remembered, not their hash

ASSUME GuardAssumption ==
    /\ Guard \in Callers
    /\ Malicious \subseteq Contents /\ Bulky \subseteq Contents
    /\ AppCanary \in Canaries
    /\ PlantableDirs \subseteq Canaries
    /\ CanaryForms \in Nat \ {0}
    /\ MassMutation \in Nat \ {0} /\ InspectMax \in Nat
    /\ GuardInputs \subseteq GuardInputKinds

VARIABLES
    enabled, autoQuarantine, canaryAutolock, canaryInFolders,  \* the switches
    started,    \* worker_started
    worker,     \* where the worker thread is
    unseen,     \* files whose stamp is not the one in the snapshot
    changed,    \* files this tick has still to inspect
    suspect,    \* the file it has just found malicious
    tampered,   \* canaries this tick has found tampered with
    canary,     \* the canary files
    hash,       \* canary_hashes
    drives, known,   \* removable drives, and removable_drives
    cooling,    \* incidents recorded less than a minute ago
    lockActive, \* the flag of that name
    netLock,    \* MASTER_INTERNET_LOCKED
    touched,    \* canaries somebody has rewritten or deleted
    planted,    \* canaries this process has planted
    settled,    \* files that were judged in their present form
    spared,     \* files passed over in their present form
    lockFailed  \* the automatic lock was refused when it was last asked for

switches == <<enabled, autoQuarantine, canaryAutolock, canaryInFolders, started>>
tick     == <<worker, changed, suspect, tampered>>
sentinel == <<canary, hash, drives, known, touched, planted>>
lock     == <<lockActive, netLock, lockFailed>>
stamps   == <<unseen, settled, spared>>
guardVars == <<vaultVars, switches, tick, stamps, sentinel, cooling, lock>>

\* The saved configuration; all on where the operator does not turn them.
InitialSwitch == IF "options" \in GuardInputs THEN BOOLEAN ELSE {TRUE}

GuardInit ==
    /\ VaultInit
    /\ enabled = FALSE /\ started = FALSE
    /\ autoQuarantine \in InitialSwitch /\ canaryAutolock \in InitialSwitch
    /\ canaryInFolders \in InitialSwitch
    /\ worker = "none"
    /\ changed = {} /\ suspect = {} /\ tampered = {}
    /\ unseen = Paths /\ settled = {} /\ spared = {}
    /\ canary \in [Canaries -> {Absent, 1}]    \* of an earlier process
    /\ \A c \in Canaries \ PlantableDirs : canary[c] = Absent
    /\ hash = [c \in Canaries |-> Unknown]
    /\ drives = {} /\ known = {} /\ touched = {} /\ planted = {}
    /\ cooling = {}
    /\ lockActive = FALSE /\ netLock = FALSE /\ lockFailed = FALSE

\* A file that is written or removed gets another stamp, or none.
Restamped == {p \in Paths : place'[p] # place[p]}
Restamp ==
    /\ unseen' = unseen \union Restamped
    /\ settled' = settled \ Restamped
    /\ spared' = spared \ Restamped
SameFiles == UNCHANGED <<vaultVars, stamps>>

\* emit_incident: one incident of a kind a minute.
Emit(kinds) == cooling' = cooling \union kinds

\* set_master_internet_lock: when the adapters cannot be set, the flag stays.
LockOutcomes(on) == {on} \union (IF "refuse" \in GuardInputs THEN {netLock} ELSE {})

-----------------------------------------------------------------------------
\* set_enabled and ensure_worker.  A thread that cannot be spawned is not
\* tried again: worker_started stays up.
SetEnabled(on) ==
    /\ enabled # on
    /\ enabled' = on
    /\ started' = (started \/ on)
    /\ \/ worker' = IF on /\ ~started THEN "sleep" ELSE worker
       \/ "spawn" \in GuardInputs /\ on /\ ~started /\ UNCHANGED worker
    /\ SameFiles
    /\ UNCHANGED <<autoQuarantine, canaryAutolock, canaryInFolders, changed,
                   suspect, tampered, sentinel, cooling, lock>>

SetOption ==
    /\ "options" \in GuardInputs
    /\ \/ autoQuarantine' = ~autoQuarantine /\ UNCHANGED <<canaryAutolock, canaryInFolders>>
       \/ canaryAutolock' = ~canaryAutolock /\ UNCHANGED <<autoQuarantine, canaryInFolders>>
       \/ canaryInFolders' = ~canaryInFolders /\ UNCHANGED <<autoQuarantine, canaryAutolock>>
    /\ SameFiles
    /\ UNCHANGED <<enabled, started, tick, sentinel, cooling, lock>>

\* force_unlock, the button of the antivirus tab.
ForceUnlock ==
    /\ lockActive' = FALSE
    /\ netLock' \in IF lockActive THEN LockOutcomes(FALSE) ELSE {netLock}
    /\ SameFiles
    /\ UNCHANGED <<switches, tick, sentinel, cooling, lockFailed>>

-----------------------------------------------------------------------------
(***************************************************************************)
(* The worker's tick.                                                      *)
(***************************************************************************)

\* release_expired_lock comes first; it looks at lock_active.  The five
\* minutes may or may not be over.
Wake ==
    /\ worker = "sleep"
    /\ enabled
    /\ worker' = "scan"
    /\ \E expired \in BOOLEAN :
         LET released == lockActive /\ expired IN
         /\ lockActive' = (lockActive /\ ~released)
         /\ netLock' \in IF released THEN LockOutcomes(FALSE) ELSE {netLock}
         /\ Emit(IF released THEN {"CANARY_LOCK_RELEASED"} ELSE {})
    /\ SameFiles
    /\ UNCHANGED <<switches, changed, suspect, tampered, sentinel, lockFailed>>

\* (mutant) The first snapshot is only one to compare with.
ScanFromBaseline ==
    /\ worker = "scan"
    /\ changed' = {p \in unseen : place[p] # Missing /\ settled \union spared # {}}
    /\ unseen' = {p \in unseen : place[p] = Missing}
    /\ worker' = "canaries"
    /\ UNCHANGED <<vaultVars, switches, settled, spared, suspect, tampered, sentinel, cooling, lock>>

\* collect_dir_stamps; the new snapshot holds every file there is.
ScanFolders ==
    /\ worker = "scan"
    /\ changed' = {p \in unseen : place[p] # Missing}
    /\ unseen' = {p \in unseen : place[p] = Missing}
    /\ worker' = "canaries"
    /\ UNCHANGED <<vaultVars, switches, settled, spared, suspect, tampered, sentinel, cooling, lock>>

Watched == {AppCanary} \union (IF canaryInFolders THEN Canaries ELSE {})
Differs(c) == canary[c] # Absent /\ hash[c] # Unknown /\ hash[c] # canary[c]
Plants(c) == c \in Watched /\ canary[c] = Absent /\ c \in PlantableDirs

\* (mutant) The automatic lock is forgotten.
CheckCanariesNoLock ==
    /\ worker = "canaries"
    /\ tampered' = {c \in Watched : Differs(c)}
    /\ canary' = [c \in Canaries |-> IF Plants(c) THEN 1 ELSE canary[c]]
    /\ hash' = [c \in Canaries |->
                  IF Plants(c) THEN RawBytes
                  ELSE IF c \in Watched /\ hash[c] = Unknown THEN canary[c] ELSE hash[c]]
    /\ worker' = "drives"
    /\ SameFiles
    /\ UNCHANGED <<switches, changed, suspect, drives, known, touched, planted, cooling, lock>>

\* (mutant) A canary found for the first time is remembered by its bytes too.
CheckCanariesRaw ==
    /\ worker = "canaries"
    /\ tampered' = {c \in Watched : Differs(c)}
    /\ hash' = [c \in Canaries |->
                  IF c \in Watched /\ hash[c] = Unknown /\ canary[c] # Absent
                  THEN RawBytes ELSE hash[c]]
    /\ worker' = "drives"
    /\ SameFiles
    /\ UNCHANGED <<switches, changed, suspect, canary, drives, known, touched, planted,
                   cooling, lock>>

\* check_canaries.  A canary that is not there is planted, and its bytes are
\* remembered in the place of its hash; one seen for the first time is
\* remembered by its hash; one that differs is an incident, and closes the
\* master internet lock if the operator wants that and the adapters can be set.
\* lock_active stays down.
CheckCanaries ==
    /\ worker = "canaries"
    /\ tampered' = {c \in Watched : Differs(c)}
    /\ canary' = [c \in Canaries |-> IF Plants(c) THEN 1 ELSE canary[c]]
    /\ hash' = [c \in Canaries |->
                  IF Plants(c) THEN RawBytes
                  ELSE IF c \in Watched /\ hash[c] = Unknown THEN canary[c] ELSE hash[c]]
    /\ touched' = {c \in touched : ~Plants(c)}
    /\ planted' = planted \union {c \in Canaries : Plants(c)}
    /\ Emit(IF tampered' = {} THEN {} ELSE {"CANARY_TAMPER"})
    /\ LET closes == tampered' # {} /\ canaryAutolock IN
       /\ netLock' \in IF closes THEN LockOutcomes(TRUE) ELSE {netLock}
       /\ lockFailed' = (closes /\ ~netLock')
    /\ worker' = "drives"
    /\ SameFiles
    /\ UNCHANGED <<switches, changed, suspect, drives, known, lockActive>>

\* detect_new_removable_drives: with no drive known, those that are there now
\* become known without an incident.
CheckDrives ==
    /\ worker = "drives"
    /\ known' = drives
    /\ Emit(IF known # {} /\ ~(drives \subseteq known) THEN {"USB_DEVICE_ATTACHED"} ELSE {})
    /\ worker' = "sift"
    /\ SameFiles
    /\ UNCHANGED <<switches, changed, suspect, tampered, canary, hash, drives, touched, planted, lock>>

TickEnds == worker' = "sleep" /\ tampered' = {}

\* A flood of changes, or a canary, ends the tick.  Otherwise some of the
\* changed files are inspected, as the folders happened to list them.
Sift ==
    /\ worker = "sift"
    /\ IF Cardinality(changed) >= MassMutation \/ tampered # {}
       THEN /\ Emit(IF Cardinality(changed) >= MassMutation THEN {"BULK_FILE_CHANGE"} ELSE {})
            /\ spared' = spared \union (changed \ unseen)
            /\ changed' = {}
            /\ TickEnds
       ELSE /\ \E kept \in SUBSET changed :
                 /\ Cardinality(kept) =
                      IF Cardinality(changed) < InspectMax THEN Cardinality(changed) ELSE InspectMax
                 /\ changed' = kept
                 /\ spared' = spared \union ((changed \ kept) \ unseen)
            /\ worker' = "inspect"
            /\ UNCHANGED <<tampered, cooling>>
    /\ UNCHANGED <<vaultVars, unseen, settled, switches, suspect, sentinel, lock>>

\* inspect_file, for the next of the files.  One that is gone or too long is left
\* alone.  (The folder of the quarantine is no watched one, nor in one that is
\* listed: its files never get here.)
TakeNext(p) ==
    /\ worker = "inspect"
    /\ p \in changed
    /\ changed' = changed \ {p}
    /\ UNCHANGED <<vaultVars, unseen, switches, tampered, sentinel, cooling, lock>>

LeaveFile(p) ==
    /\ TakeNext(p)
    /\ place[p] \in Bulky \union {Missing}
    /\ UNCHANGED <<settled, spared, suspect, worker>>

\* scan_file cannot read it to its end.
AnalysisFails(p) ==
    /\ TakeNext(p)
    /\ "unread" \in GuardInputs
    /\ place[p] \notin Bulky \union {Missing}
    /\ spared' = spared \union ({p} \ unseen)
    /\ UNCHANGED <<settled, suspect, worker>>

\* scan_file judges what the file holds now.
InspectFile(p) ==
    /\ TakeNext(p)
    /\ place[p] \notin Bulky \union {Missing}
    /\ settled' = settled \union ({p} \ unseen)
    /\ IF place[p] \in Malicious
       THEN suspect' = {p} /\ worker' = "isolate"
       ELSE UNCHANGED <<suspect, worker>>
    /\ UNCHANGED spared

\* The call of quarantine_file, if the operator wants it: it reads the file
\* again, and returns at once, having changed nothing, if the file is gone.
Isolate ==
    /\ worker = "isolate"
    /\ IF autoQuarantine
       THEN \E p \in suspect :
              IF place[p] # Missing THEN TakeFile(Guard, p) ELSE UNCHANGED vaultVars
       ELSE UNCHANGED vaultVars
    /\ worker' = "isolating"
    /\ UNCHANGED <<stamps, switches, changed, suspect, tampered, sentinel, cooling, lock>>

IsolateDone ==
    /\ worker = "isolating"
    /\ ~Busy(Guard)
    /\ suspect' = {}
    /\ worker' = "inspect"
    /\ Emit({"FILE_MALICIOUS"})
    /\ SameFiles
    /\ UNCHANGED <<switches, changed, tampered, sentinel, lock>>

TickDone ==
    /\ worker = "inspect"
    /\ changed = {}
    /\ TickEnds
    /\ SameFiles
    /\ UNCHANGED <<switches, changed, suspect, sentinel, cooling, lock>>

-----------------------------------------------------------------------------
(***************************************************************************)
(* Around the guard.                                                       *)
(***************************************************************************)
Quarantines(u) ==
    /\ VaultStep(u)
    /\ Restamp
    /\ UNCHANGED <<switches, tick, sentinel, cooling, lock>>

OperatorActs ==
    /\ "files" \in GuardInputs
    /\ \/ \E u \in Callers \ {Guard} : VaultRequest(u)
       \/ \E p \in Used, c \in Contents : OwnerSaves(p, c)
    /\ Restamp
    /\ UNCHANGED <<switches, tick, sentinel, cooling, lock>>

Tamper(c) ==
    /\ "tamper" \in GuardInputs
    /\ canary[c] # Absent
    /\ \E v \in {Absent} \union (canary[c] + 1 .. CanaryForms) : canary' = [canary EXCEPT ![c] = v]
    /\ touched' = touched \union {c}
    /\ SameFiles
    /\ UNCHANGED <<switches, tick, hash, drives, known, planted, cooling, lock>>

PlugDrive(d) ==
    /\ "drives" \in GuardInputs
    /\ drives' = IF d \in drives THEN drives \ {d} ELSE drives \union {d}
    /\ SameFiles
    /\ UNCHANGED <<switches, tick, canary, hash, known, touched, planted, cooling, lock>>

Others ==
    /\ \/ "network" \in GuardInputs /\ netLock' = ~netLock /\ UNCHANGED cooling
       \/ "cooldown" \in GuardInputs /\ UNCHANGED netLock
          /\ \E kind \in cooling : cooling' = cooling \ {kind}
    /\ SameFiles
    /\ UNCHANGED <<switches, tick, sentinel, lockActive, lockFailed>>

WorkerStep ==
    \/ Wake \/ ScanFolders \/ CheckCanaries \/ CheckDrives \/ Sift
    \/ \E p \in Paths : LeaveFile(p) \/ AnalysisFails(p) \/ InspectFile(p)
    \/ Isolate \/ Quarantines(Guard) \/ IsolateDone \/ TickDone

GuardNext ==
    \/ \E on \in BOOLEAN : SetEnabled(on)
    \/ SetOption \/ ForceUnlock
    \/ WorkerStep
    \/ \E u \in Callers \ {Guard} : Quarantines(u)
    \/ OperatorActs
    \/ \E c \in Canaries : Tamper(c)
    \/ \E d \in Drives : PlugDrive(d)
    \/ Others

GuardSpec == GuardInit /\ [][GuardNext]_guardVars

\* The worker loops for the life of the process.
GuardFairness == WF_guardVars(WorkerStep)

-----------------------------------------------------------------------------
\* Every variable keeps to the values the code can give it.
GuardTypeOK ==
    /\ VaultTypeOK
    /\ switches \in BOOLEAN \X BOOLEAN \X BOOLEAN \X BOOLEAN \X BOOLEAN
    /\ worker \in GuardLabels
    /\ {unseen, settled, spared, changed, suspect} \subseteq SUBSET Paths
    /\ {tampered, touched, planted} \subseteq SUBSET Canaries
    /\ canary \in [Canaries -> 0 .. CanaryForms]
    /\ hash \in [Canaries -> -1 .. CanaryForms]
    /\ {drives, known} \subseteq SUBSET Drives
    /\ cooling \subseteq Incidents
    /\ lock \in BOOLEAN \X BOOLEAN \X BOOLEAN

\* Between two ticks every file has been judged as it is now, will be looked at
\* again, or is one of those the code passes over: those longer than the limit, those
\* left out because of a flood, a canary or the limit of a tick, and those whose
\* analysis failed.  So a file that changes while a tick runs, is restored from the
\* quarantine, or takes the place of one that was, is not taken for one that is known.
NothingSlipsBy ==
    worker \in {"none", "sleep"} =>
        \A p \in Paths :
            \/ place[p] \in Bulky \union {Missing}
            \/ p \in unseen \union settled \union spared

\* A canary whose hash is known and that is rewritten closes the master lock,
\* as long as guard and automatic lock stay on and the canary stays there: a lock
\* that is refused is tried again on every tick, so it closes unless the
\* refusals have no end.
MustLock ==
    /\ worker # "none" /\ \E c \in Canaries : Differs(c)
    /\ enabled /\ canaryAutolock /\ canaryInFolders
    /\ ~netLock
TamperLocks == <>[]~lockFailed => []<>~MustLock

\* A canary is reported only if somebody has rewritten or deleted it, or if
\* this process planted it: those it planted are reported on every tick, for
\* their bytes were remembered in the place of their hash.
CanaryAlarmIsReal == tampered \subseteq touched \union planted

=============================================================================
