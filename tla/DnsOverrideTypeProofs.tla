------------------------ MODULE DnsOverrideTypeProofs ------------------------
(***************************************************************************)
(* Type correctness of DnsOverride, for any adapters, settings and threads *)
(* and any set of faults.                                                  *)
(***************************************************************************)
EXTENDS DnsOverrideInv, TLAPS

LEMMA RestingType == Resting \in ThreadStates
  BY DEF Resting, ThreadStates, Empty, Maps, Labels, Jobs

LEMMA EmptyType == Empty \in Maps
  BY DEF Empty, Maps

LEMMA SpecialThreads == {Boot, Dog, Hook} \subseteq Threads /\ Users \subseteq Threads
  BY DEF Threads

LEMMA InitType == Init => TypeOK
  <1> SUFFICES ASSUME Init PROVE TypeOK
    OBVIOUS
  <1> USE DEF Init
  <1>1. dns \in [Adapters -> Settings] /\ owner \in [Adapters -> OwnerSettings]
    BY DEF Settings
  <1>2. th \in [Threads -> ThreadStates]
    BY RestingType
  <1>3. streak \in 0 .. (YieldStreak - 1)
    BY YieldAssumption
  <1> QED
    BY <1>1, <1>2, <1>3, EmptyType DEF TypeOK, ThreadStates, Maps

\* The moves of one thread keep the type of the threads.
LEMMA UpdateType ==
  ASSUME TypeOK, NEW t \in Threads, NEW r \in ThreadStates,
         th' = [th EXCEPT ![t] = r]
  PROVE  th' \in [Threads -> ThreadStates]
  BY DEF TypeOK

LEMMA GotoType ==
  ASSUME TypeOK, NEW t \in Threads, NEW label \in Labels, Goto(t, label)
  PROVE  th' \in [Threads -> ThreadStates]
  BY DEF TypeOK, Goto, ThreadStates

LEMMA BeginType ==
  ASSUME TypeOK, NEW t \in Threads, NEW j \in Jobs, NEW label \in Labels,
         Begin(t, j, label)
  PROVE  th' \in [Threads -> ThreadStates]
  <1> DEFINE r == [th[t] EXCEPT !.job = j, !.pc = label]
  <1>1. r \in ThreadStates
    BY DEF TypeOK, ThreadStates
  <1>2. th' = [th EXCEPT ![t] = r]
    BY DEF Begin, TypeOK
  <1> QED
    BY <1>1, <1>2, UpdateType

LEMMA FinishType ==
  ASSUME TypeOK, NEW t \in Threads, Finish(t)
  PROVE  th' \in [Threads -> ThreadStates]
  BY RestingType DEF TypeOK, Finish

LEMMA SetType ==
  ASSUME TypeOK, NEW t \in Threads, SetStep(t)
  PROVE  TypeOK'
  <1> USE DEF machine, disk, life, flags, locks, At
  <1>1. CASE SetRefused(t)
    <2> Goto(t, "setErr") BY <1>1 DEF SetRefused
    <2> th' \in [Threads -> ThreadStates] BY GotoType DEF Labels
    <2> QED BY <1>1 DEF SetRefused, TypeOK
  <1>2. CASE SetBegin(t)
    <2> DEFINE r == [th[t] EXCEPT !.pc = "backup", !.todo = active,
                                  !.good = FALSE, !.bad = FALSE]
    <2>a. r \in ThreadStates
      BY DEF TypeOK, ThreadStates, Labels
    <2>b. th' = [th EXCEPT ![t] = r]
      BY <1>2 DEF SetBegin, TypeOK
    <2>1. th' \in [Threads -> ThreadStates]
      BY <2>a, <2>b, UpdateType
    <2> QED BY <1>2, <2>1 DEF SetBegin, TypeOK
  <1>7. ASSUME NEW a \in Adapters, BackUpAdapter(t, a) PROVE TypeOK'
    <2>1. PICK state \in ReadDns(dns[a]) : orig' = [orig EXCEPT ![a] = state]
      BY <1>7 DEF BackUpAdapter
    <2>2. state \in Settings
      BY DEF ReadDns, Settings, OwnerSettings, TypeOK
    <2>3. orig' \in Maps
      BY <2>1, <2>2 DEF Maps, TypeOK
    <2> QED BY <1>7, <2>3 DEF BackUpAdapter, TypeOK
  <1>8. CASE BackUpDone(t)
    <2> Goto(t, "writing") BY <1>8 DEF BackUpDone
    <2> th' \in [Threads -> ThreadStates] BY GotoType DEF Labels
    <2> QED BY <1>8 DEF BackUpDone, TypeOK
  <1>3. ASSUME NEW a \in Adapters, SetAdapter(t, a) PROVE TypeOK'
    <2> DEFINE rest == th[t].todo \ {a}
               hit  == [th[t] EXCEPT !.todo = rest, !.good = TRUE]
               miss == [th[t] EXCEPT !.todo = rest, !.bad = TRUE]
    <2>a. hit \in ThreadStates /\ miss \in ThreadStates
      BY DEF TypeOK, ThreadStates
    <2>b. th' = [th EXCEPT ![t] = hit] \/ th' = [th EXCEPT ![t] = miss]
      BY <1>3 DEF SetAdapter, TypeOK
    <2>1. th' \in [Threads -> ThreadStates]
      BY <2>a, <2>b, UpdateType
    <2>2. Target(t) \in Settings
      BY ListenAssumption DEF Target, Settings, OwnAddresses
    <2>3. dns' \in [Adapters -> Settings]
      BY <1>3, <2>2 DEF SetAdapter, TypeOK
    <2> QED BY <1>3, <2>1, <2>3 DEF SetAdapter, TypeOK
  <1>4. CASE SetCommit(t)
    <2> Goto(t, "persist") BY <1>4 DEF SetCommit
    <2> th' \in [Threads -> ThreadStates] BY GotoType DEF Labels
    <2> QED BY <1>4 DEF SetCommit, TypeOK
  <1>5. CASE SetFailed(t)
    <2> Goto(t, "setErr") BY <1>5 DEF SetFailed
    <2> th' \in [Threads -> ThreadStates] BY GotoType DEF Labels
    <2> QED BY <1>5 DEF SetFailed, TypeOK
  <1>6. CASE Persist(t)
    <2> DEFINE label == IF th[t].bad THEN "setErr" ELSE "setOk"
    <2> Goto(t, label) BY <1>6 DEF Persist
    <2> label \in Labels BY DEF Labels
    <2> HIDE DEF label
    <2> th' \in [Threads -> ThreadStates] BY GotoType
    <2> file' \in Maps BY <1>6 DEF Persist, TypeOK, Maps
    <2> QED BY <1>6 DEF Persist, TypeOK
  <1> QED
    BY <1>1, <1>2, <1>3, <1>4, <1>5, <1>6, <1>7, <1>8 DEF SetStep

LEMMA RestoreType ==
  ASSUME TypeOK, PutbackKnown, NEW t \in Threads, RestoreStep(t)
  PROVE  TypeOK'
  <1> USE EmptyType DEF machine, disk, life, flags, locks, At
  <1>1. CASE RestoreBegin(t)
    <2> DEFINE r == [th[t] EXCEPT !.pc = "putback", !.took = orig,
                                  !.todo = active \cap Entries(orig)]
    <2>1. r \in ThreadStates
      BY DEF TypeOK, ThreadStates, Labels
    <2>2. th' = [th EXCEPT ![t] = r]
      BY <1>1 DEF RestoreBegin, TypeOK
    <2>3. th' \in [Threads -> ThreadStates]
      BY <2>1, <2>2, UpdateType
    <2> QED BY <1>1, <2>3 DEF RestoreBegin, TypeOK
  <1>2. CASE RestoreNothing(t)
    <2> Goto(t, "restored") BY <1>2 DEF RestoreNothing
    <2> th' \in [Threads -> ThreadStates] BY GotoType DEF Labels
    <2> QED BY <1>2 DEF RestoreNothing, TypeOK
  <1>3. ASSUME NEW a \in Adapters, RestoreAdapter(t, a) PROVE TypeOK'
    <2> DEFINE r == [th[t] EXCEPT !.todo = @ \ {a}]
    <2>1. r \in ThreadStates
      BY DEF TypeOK, ThreadStates
    <2>2. th' = [th EXCEPT ![t] = r]
      BY <1>3 DEF RestoreAdapter, TypeOK
    <2>3. th' \in [Threads -> ThreadStates]
      BY <2>1, <2>2, UpdateType
    <2>4. th[t].took[a] \in Settings
      BY <1>3 DEF RestoreAdapter, PutbackKnown, TypeOK, ThreadStates, Maps
    <2>5. dns' \in [Adapters -> Settings]
      BY <1>3, <2>4 DEF RestoreAdapter, TypeOK
    <2> QED BY <1>3, <2>3, <2>5 DEF RestoreAdapter, TypeOK
  <1>4. CASE RestoreEnd(t)
    <2> DEFINE r == [th[t] EXCEPT !.pc = "restored", !.took = Empty]
    <2>1. r \in ThreadStates
      BY DEF TypeOK, ThreadStates, Labels
    <2>2. th' = [th EXCEPT ![t] = r]
      BY <1>4 DEF RestoreEnd, TypeOK
    <2>3. th' \in [Threads -> ThreadStates]
      BY <2>1, <2>2, UpdateType
    <2> QED BY <1>4, <2>3 DEF RestoreEnd, Release, TypeOK
  <1> QED
    BY <1>1, <1>2, <1>3, <1>4 DEF RestoreStep

LEMMA BootType ==
  ASSUME TypeOK, BootStep
  PROVE  TypeOK'
  <1> USE SpecialThreads DEF machine, disk, life, flags, locks, At
  <1>1. CASE RecoverStale
    <2> DEFINE r == [th[Boot] EXCEPT !.pc = "putback", !.took = file,
                                     !.todo = active \cap Entries(file)]
    <2>1. r \in ThreadStates
      BY DEF TypeOK, ThreadStates, Labels
    <2>2. Goto(Boot, "detect") \/ th' = [th EXCEPT ![Boot] = r]
      BY <1>1 DEF RecoverStale, TypeOK
    <2>3. th' \in [Threads -> ThreadStates]
      BY <2>1, <2>2, UpdateType, GotoType DEF Labels
    <2> QED BY <1>1, <2>3 DEF RecoverStale, TypeOK
  <1>2. CASE Recovered
    <2> Goto(Boot, "detect") BY <1>2 DEF Recovered
    <2> th' \in [Threads -> ThreadStates] BY GotoType DEF Labels
    <2> QED BY <1>2 DEF Recovered, TypeOK
  <1>3. CASE DetectConflict
    <2>1. lanOnly' \in BOOLEAN /\ dogOn' \in BOOLEAN
      BY <1>3 DEF DetectConflict, Conflict
    <2> DEFINE p == savedProt /\ ~lanOnly'
               r == [th[Boot] EXCEPT !.pc = "bind", !.prev = p]
    <2>2. p \in BOOLEAN
      OBVIOUS
    <2>3. th' = [th EXCEPT ![Boot] = r]
      BY <1>3 DEF DetectConflict, TypeOK
    <2> HIDE DEF p
    <2>4. r \in ThreadStates
      BY <2>2 DEF TypeOK, ThreadStates, Labels
    <2>5. th' \in [Threads -> ThreadStates]
      BY <2>3, <2>4, UpdateType
    <2> QED BY <1>3, <2>1, <2>5 DEF DetectConflict, TypeOK
  <1>4. CASE BindOk
    <2>1. Goto(Boot, "set") \/ Finish(Boot)
      BY <1>4 DEF BindOk
    <2>2. th' \in [Threads -> ThreadStates]
      BY <2>1, GotoType, FinishType DEF Labels
    <2> QED BY <1>4, <2>2 DEF BindOk, TypeOK
  <1>5. CASE BindFailed
    <2> Finish(Boot) BY <1>5 DEF BindFailed
    <2> th' \in [Threads -> ThreadStates] BY FinishType
    <2> QED BY <1>5 DEF BindFailed, TypeOK
  <1>6. CASE BootSetDone
    <2> Finish(Boot) BY <1>6 DEF BootSetDone
    <2> th' \in [Threads -> ThreadStates] BY FinishType
    <2> QED BY <1>6 DEF BootSetDone, TypeOK
  <1> QED
    BY <1>1, <1>2, <1>3, <1>4, <1>5, <1>6 DEF BootStep

LEMMA DogType ==
  ASSUME TypeOK, DogStep
  PROVE  TypeOK'
  <1> USE SpecialThreads, YieldAssumption DEF machine, disk, life, flags, locks, At
  <1>1. CASE DogQuiet
    BY <1>1 DEF DogQuiet, TypeOK
  <1>2. CASE DogAlarm
    <2> Begin(Dog, "watch", "probe") BY <1>2 DEF DogAlarm
    <2> th' \in [Threads -> ThreadStates] BY BeginType DEF Labels, Jobs
    <2> QED BY <1>2 DEF DogAlarm, TypeOK
  <1>3. CASE DogProbe
    <2>1. Goto(Dog, "set") \/ Goto(Dog, "restore")
      BY <1>3 DEF DogProbe
    <2>2. th' \in [Threads -> ThreadStates]
      BY <2>1, GotoType DEF Labels
    <2> QED BY <1>3, <2>2 DEF DogProbe, TypeOK
  <1>4. CASE DogFixed
    <2> Finish(Dog) BY <1>4 DEF DogFixed
    <2> th' \in [Threads -> ThreadStates] BY FinishType
    <2> QED BY <1>4 DEF DogFixed, TypeOK
  <1>5. CASE DogFailed
    <2>1. Goto(Dog, "restore") \/ Finish(Dog)
      BY <1>5 DEF DogFailed
    <2>2. th' \in [Threads -> ThreadStates]
      BY <2>1, GotoType, FinishType DEF Labels
    <2>3. streak' \in 0 .. (YieldStreak - 1)
      BY <1>5 DEF DogFailed, TooMany, TypeOK
    <2> QED BY <1>5, <2>2, <2>3 DEF DogFailed, TypeOK
  <1>6. CASE DogYielded
    <2> Finish(Dog) BY <1>6 DEF DogYielded
    <2> th' \in [Threads -> ThreadStates] BY FinishType
    <2> QED BY <1>6 DEF DogYielded, TypeOK
  <1> QED
    BY <1>1, <1>2, <1>3, <1>4, <1>5, <1>6 DEF DogStep

LEMMA HookType ==
  ASSUME TypeOK, HookFires \/ HookDone
  PROVE  TypeOK'
  <1> USE SpecialThreads DEF machine, disk, life, flags, locks, At
  <1>1. CASE HookFires
    <2> Begin(Hook, "hook", "restore") BY <1>1 DEF HookFires
    <2> th' \in [Threads -> ThreadStates] BY BeginType DEF Labels, Jobs
    <2> QED BY <1>1 DEF HookFires, TypeOK
  <1>2. CASE HookDone
    <2> Finish(Hook) BY <1>2 DEF HookDone
    <2> th' \in [Threads -> ThreadStates] BY FinishType
    <2> QED BY <1>2 DEF HookDone, TypeOK
  <1> QED BY <1>1, <1>2

LEMMA RequestType ==
  ASSUME TypeOK, NEW t \in Users, Request(t)
  PROVE  TypeOK'
  <1> USE SpecialThreads DEF machine, disk, life, flags, locks, At
  <1>1. ASSUME NEW on \in BOOLEAN, NEW inverted \in BOOLEAN,
               RequestProtection(t, on, inverted)
        PROVE  TypeOK'
    <2> DEFINE j == IF on THEN "protOn" ELSE "protOff"
    <2>1. j \in Jobs BY DEF Jobs
    <2>2. Begin(t, j, "apply") BY <1>1 DEF RequestProtection
    <2> HIDE DEF j
    <2>3. th' \in [Threads -> ThreadStates]
      BY <2>1, <2>2, BeginType DEF Labels
    <2>4. protection' \in BOOLEAN
      BY <1>1 DEF RequestProtection, TypeOK
    <2> QED BY <1>1, <2>3, <2>4 DEF RequestProtection, TypeOK
  <1>2. ASSUME NEW on \in BOOLEAN, RequestLock(t, on) PROVE TypeOK'
    <2> DEFINE j == IF on THEN "lock" ELSE "unlock"
               r == [th[t] EXCEPT !.job = j, !.pc = "set", !.prev = locked]
    <2>1. j \in Jobs BY DEF Jobs
    <2>2. th' = [th EXCEPT ![t] = r]
      BY <1>2 DEF RequestLock, TypeOK
    <2> HIDE DEF j
    <2>3. r \in ThreadStates
      BY <2>1 DEF TypeOK, ThreadStates, Labels
    <2>4. th' \in [Threads -> ThreadStates]
      BY <2>2, <2>3, UpdateType
    <2> QED BY <1>2, <2>4 DEF RequestLock, TypeOK
  <1>3. CASE RequestEmergency(t)
    <2> Begin(t, "emergency", "restore") BY <1>3 DEF RequestEmergency
    <2> th' \in [Threads -> ThreadStates] BY BeginType DEF Labels, Jobs
    <2> QED BY <1>3 DEF RequestEmergency, TypeOK
  <1>4. CASE RequestQuit(t)
    <2> Begin(t, "quit", "apply") BY <1>4 DEF RequestQuit
    <2> th' \in [Threads -> ThreadStates] BY BeginType DEF Labels, Jobs
    <2> QED BY <1>4 DEF RequestQuit, TypeOK
  <1> QED
    BY <1>1, <1>2, <1>3, <1>4 DEF Request

LEMMA EndType ==
  ASSUME TypeOK, ProcessEnds
  PROVE  TypeOK'
  <1>1. th' \in [Threads -> ThreadStates]
    BY RestingType DEF ProcessEnds
  <1>2. streak' \in 0 .. (YieldStreak - 1)
    BY YieldAssumption DEF ProcessEnds
  <1> QED
    BY <1>1, <1>2, EmptyType DEF ProcessEnds, TypeOK, machine, disk

LEMMA UserType ==
  ASSUME TypeOK, NEW t \in Users, UserStep(t)
  PROVE  TypeOK'
  <1> USE SpecialThreads DEF machine, disk, life, flags, locks, At
  <1>1. CASE ApplyOn(t)
    <2>1. Finish(t) \/ Goto(t, "set")
      BY <1>1 DEF ApplyOn
    <2>2. th' \in [Threads -> ThreadStates]
      BY <2>1, GotoType, FinishType DEF Labels
    <2>3. lanOnly' \in BOOLEAN
      BY <1>1 DEF ApplyOn, Conflict
    <2>4. applying' \in Users \union {Free}
      BY <1>1 DEF ApplyOn, TypeOK
    <2> QED BY <1>1, <2>2, <2>3, <2>4 DEF ApplyOn, TypeOK
  <1>2. CASE ApplyOff(t)
    <2> Goto(t, "restore") BY <1>2 DEF ApplyOff
    <2> th' \in [Threads -> ThreadStates] BY GotoType DEF Labels
    <2> QED BY <1>2 DEF ApplyOff, TypeOK
  <1>3. CASE ApplyDone(t)
    <2> Finish(t) BY <1>3 DEF ApplyDone
    <2> th' \in [Threads -> ThreadStates] BY FinishType
    <2> QED BY <1>3 DEF ApplyDone, TypeOK
  <1>4. CASE LockDone(t)
    <2> Finish(t) BY <1>4 DEF LockDone
    <2>1. th' \in [Threads -> ThreadStates] BY FinishType
    <2>2. locked' \in BOOLEAN
      BY <1>4 DEF LockDone, LockReturns, Doing, TypeOK, ThreadStates
    <2> QED BY <1>4, <2>1, <2>2 DEF LockDone, LockReturns, TypeOK
  <1>5. CASE EmergencyUnlock(t)
    <2> DEFINE r == [th[t] EXCEPT !.pc = "set", !.prev = locked]
    <2>1. th' = [th EXCEPT ![t] = r]
      BY <1>5 DEF EmergencyUnlock, TypeOK
    <2>2. r \in ThreadStates
      BY DEF TypeOK, ThreadStates, Labels
    <2>3. th' \in [Threads -> ThreadStates]
      BY <2>1, <2>2, UpdateType
    <2> QED BY <1>5, <2>3 DEF EmergencyUnlock, TypeOK
  <1>6. CASE EmergencyUnlocked(t)
    <2> Goto(t, "finish") BY <1>6 DEF EmergencyUnlocked
    <2>1. th' \in [Threads -> ThreadStates] BY GotoType DEF Labels
    <2>2. locked' \in BOOLEAN
      BY <1>6 DEF EmergencyUnlocked, LockReturns, Doing, TypeOK, ThreadStates
    <2> QED BY <1>6, <2>1, <2>2 DEF EmergencyUnlocked, LockReturns, TypeOK
  <1>7. CASE EmergencyDone(t)
    <2> Finish(t) BY <1>7 DEF EmergencyDone
    <2> th' \in [Threads -> ThreadStates] BY FinishType
    <2> QED BY <1>7 DEF EmergencyDone, TypeOK
  <1>8. CASE QuitAgain(t)
    <2> Begin(t, "quit2", "restore") BY <1>8 DEF QuitAgain
    <2> th' \in [Threads -> ThreadStates] BY BeginType DEF Labels, Jobs
    <2> QED BY <1>8 DEF QuitAgain, TypeOK
  <1>9. CASE Exit(t)
    BY <1>9, EndType DEF Exit
  <1> QED
    BY <1>1, <1>2, <1>3, <1>4, <1>5, <1>6, <1>7, <1>8, <1>9 DEF UserStep

LEMMA EnvironmentType ==
  ASSUME TypeOK, Environment
  PROVE  TypeOK'
  <1> USE DEF machine, disk, life, flags, locks
  <1>1. CASE Crash
    BY <1>1, EndType DEF Crash
  <1>2. ASSUME NEW a \in Adapters, Flap(a) PROVE TypeOK'
    BY <1>2 DEF Flap, TypeOK
  <1>3. ASSUME NEW a \in Adapters, External(a) PROVE TypeOK'
    <2>1. dns' \in [Adapters -> Settings]
      BY <1>3 DEF External, TypeOK, Settings
    <2> QED BY <1>3, <2>1 DEF External, TypeOK
  <1>4. CASE ResolverDies
    BY <1>4 DEF ResolverDies, TypeOK
  <1> QED
    BY <1>1, <1>2, <1>3, <1>4 DEF Environment

LEMMA StartType ==
  ASSUME TypeOK, Start
  PROVE  TypeOK'
  <1> Begin(Boot, "boot", "recover") BY DEF Start
  <1> th' \in [Threads -> ThreadStates]
    BY BeginType, SpecialThreads DEF Labels, Jobs
  <1> QED BY DEF Start, TypeOK, machine, disk, locks

LEMMA NextType ==
  ASSUME TypeOK, PutbackKnown, [Next]_vars
  PROVE  TypeOK'
  <1>1. CASE UNCHANGED vars
    BY <1>1 DEF vars, machine, disk, life, flags, locks, TypeOK
  <1>2. CASE Next
    BY <1>2, StartType, BootType, DogType, RequestType, UserType, SetType,
       RestoreType, HookType, EnvironmentType
    DEF Next
  <1> QED BY <1>1, <1>2
=============================================================================
