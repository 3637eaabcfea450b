-------------------------- MODULE DnsOverrideProofs --------------------------
(***************************************************************************)
(* The safety theorems of DnsOverride, for any adapters, settings and      *)
(* threads and any set of faults that a statement does not exclude.        *)
(***************************************************************************)
EXTENDS DnsOverrideTypeProofs, FiniteSetTheorems

-----------------------------------------------------------------------------
(***************************************************************************)
(* Most steps are quiet                                                    *)
(***************************************************************************)

\* No two of the program's own threads are the same, and none is an operator's.
LEMMA DistinctThreads ==
  /\ Boot # Dog /\ Dog # Hook /\ Boot # Hook
  /\ \A t \in Users : t \notin {Boot, Dog, Hook, Free}
  /\ Free \notin Threads
  BY UsersAssumption DEF Boot, Dog, Hook, Free, Threads

LEMMA UserIsUp ==
  ASSUME TypeOK, Schedule, NEW t \in Threads \ {Boot}, ~At(t, "idle")
  PROVE  phase = "up"
  BY DEF Schedule, TypeOK

\* Moving a thread to another label keeps its locals and the other threads.
LEMMA GotoKeeps ==
  ASSUME TypeOK, NEW t \in Threads, NEW label, Goto(t, label)
  PROVE  /\ \A u \in Threads \ {t} : th'[u] = th[u]
         /\ th'[t].pc = label
         /\ th'[t].took = th[t].took
         /\ th'[t].todo = th[t].todo
         /\ th'[t].good = th[t].good
  BY DEF Goto, TypeOK, ThreadStates

LEMMA QuietGoto ==
  ASSUME TypeOK, Shape, phase = "up", NEW t \in Threads \ {Hook},
         NEW label \in ServerLabels \ Critical,
         th[t].pc \notin Critical, Goto(t, label),
         UNCHANGED <<machine, file, phase, orig, overridden, cleanup>>
  PROVE  Quiet(t)
  BY DEF Goto, Quiet, TypeOK, Shape, TookOnlyInPutback, Critical, At

LEMMA QuietFinish ==
  ASSUME TypeOK, phase = "up", NEW t \in Threads \ {Hook},
         th[t].pc \notin Critical, Finish(t),
         UNCHANGED <<machine, file, phase, orig, overridden, cleanup>>
  PROVE  Quiet(t)
  BY DEF Finish, Resting, Quiet, TypeOK, Critical, ServerLabels

LEMMA QuietSet ==
  ASSUME TypeOK, Shape, NEW t \in Threads, SetRefused(t)
  PROVE  Quiet(t)
  <1> USE DEF SetRefused, At, Shape
  <1>1. phase = "up"
    BY UserIsUp DEF Schedule, TypeOK, BootLabels
  <1>2. t # Hook
    BY DEF Schedule, HookLabels
  <1> QED
    BY <1>1, <1>2 DEF Goto, Quiet, TypeOK, Critical, TookOnlyInPutback,
       ServerLabels, machine, disk, life, flags, locks

LEMMA QuietBoot ==
  ASSUME TypeOK, Shape, BootStep
  PROVE  RecoverStale \/ DetectConflict \/ Quiet(Boot)
  <1> USE SpecialThreads, DistinctThreads
      DEF At, Shape, Quiet, TypeOK, Critical, TookOnlyInPutback, machine, disk,
          life, flags, locks
  <1>1. CASE Recovered
    <2>1. phase = "boot"
      BY <1>1 DEF Recovered, Schedule, ServerLabels
    <2> QED BY <1>1, <2>1 DEF Recovered, Goto
  <1>2. CASE BindOk
    <2>1. phase = "up"
      BY <1>2 DEF BindOk, Schedule, BootLabels
    <2>2. Goto(Boot, "set") \/ Finish(Boot)
      BY <1>2 DEF BindOk
    <2>3. th[Boot].pc \notin Critical
      BY <1>2 DEF BindOk
    <2>4. UNCHANGED <<machine, file, phase, orig, overridden, cleanup>>
      BY <1>2 DEF BindOk
    <2> HIDE DEF Quiet
    <2> QED
      BY <2>1, <2>2, <2>3, <2>4, QuietGoto, QuietFinish DEF ServerLabels
  <1>3. CASE BindFailed
    <2>1. phase = "up"
      BY <1>3 DEF BindFailed, Schedule, BootLabels
    <2> QED BY <1>3, <2>1 DEF BindFailed, Finish, Resting, ServerLabels
  <1>4. CASE BootSetDone
    <2>1. phase = "up"
      BY <1>4 DEF BootSetDone, Schedule, BootLabels
    <2> QED BY <1>4, <2>1 DEF BootSetDone, Finish, Resting, ServerLabels
  <1> QED
    BY <1>1, <1>2, <1>3, <1>4 DEF BootStep

LEMMA QuietDog ==
  ASSUME TypeOK, Shape, DogStep
  PROVE  Still \/ Quiet(Dog)
  <1> USE SpecialThreads, DistinctThreads
      DEF At, Shape, Quiet, TypeOK, Critical, TookOnlyInPutback, machine, disk,
          life, flags, locks
  <1>1. CASE DogQuiet
    BY <1>1 DEF DogQuiet, Still
  <1>2. CASE DogAlarm
    BY <1>2 DEF DogAlarm, Idle, Begin
  <1>3. CASE DogProbe
    <2>1. phase = "up"
      BY <1>3, UserIsUp DEF DogProbe
    <2> QED BY <1>3, <2>1 DEF DogProbe, Goto
  <1>4. CASE DogFixed
    <2>1. phase = "up"
      BY <1>4, UserIsUp DEF DogFixed
    <2> QED BY <1>4, <2>1 DEF DogFixed, Finish, Resting
  <1>5. CASE DogFailed
    <2>1. phase = "up"
      BY <1>5, UserIsUp DEF DogFailed
    <2>2. CASE Finish(Dog)
      BY <1>5, <2>1, <2>2 DEF DogFailed, Finish, Resting
    <2>3. CASE Goto(Dog, "restore")
      BY <1>5, <2>1, <2>3 DEF DogFailed, Goto
    <2> QED BY <1>5, <2>2, <2>3 DEF DogFailed
  <1>6. CASE DogYielded
    <2>1. phase = "up"
      BY <1>6, UserIsUp DEF DogYielded
    <2> QED BY <1>6, <2>1 DEF DogYielded, Finish, Resting
  <1> QED
    BY <1>1, <1>2, <1>3, <1>4, <1>5, <1>6 DEF DogStep

LEMMA QuietHook ==
  ASSUME TypeOK, Shape, HookFires \/ HookDone
  PROVE  Quiet(Hook)
  <1> USE SpecialThreads, DistinctThreads
      DEF At, Shape, Quiet, TypeOK, Critical, TookOnlyInPutback, HookLabels,
          machine, disk, life, flags, locks
  <1>1. CASE HookFires
    BY <1>1 DEF HookFires, Idle, Begin
  <1>2. CASE HookDone
    <2>1. phase = "up"
      BY <1>2, UserIsUp DEF HookDone
    <2>2. "hook" \in Faults
      BY <1>2 DEF HookDone, Schedule
    <2> QED BY <1>2, <2>1, <2>2 DEF HookDone, Finish, Resting
  <1> QED
    BY <1>1, <1>2

LEMMA QuietRequest ==
  ASSUME TypeOK, Shape, NEW t \in Users, Request(t)
  PROVE  Quiet(t)
  <1> USE SpecialThreads, DistinctThreads
      DEF At, Shape, Idle, Begin, Quiet, TypeOK, Critical, TookOnlyInPutback,
          machine, disk, life, flags, locks
  <1>1. ASSUME NEW on \in BOOLEAN, NEW inverted \in BOOLEAN,
               RequestProtection(t, on, inverted)
        PROVE  Quiet(t)
    BY <1>1 DEF RequestProtection
  <1>2. ASSUME NEW on \in BOOLEAN, RequestLock(t, on) PROVE Quiet(t)
    BY <1>2 DEF RequestLock
  <1>3. CASE RequestEmergency(t)
    BY <1>3 DEF RequestEmergency
  <1>4. CASE RequestQuit(t)
    BY <1>4 DEF RequestQuit
  <1> QED
    BY <1>1, <1>2, <1>3, <1>4 DEF Request

LEMMA QuietUser ==
  ASSUME TypeOK, Shape, NEW t \in Users, UserStep(t)
  PROVE  Quiet(t) \/ ProcessEnds
  <1>1. CASE At(t, "idle")
    BY <1>1, DistinctThreads
    DEF UserStep, ApplyOn, ApplyOff, ApplyDone, LockDone, LockReturns,
        EmergencyUnlock, EmergencyUnlocked, EmergencyDone, QuitAgain, Exit, At
  <1>2. CASE ~At(t, "idle")
    <2>1. phase = "up"
      BY <1>2, UserIsUp, DistinctThreads, SpecialThreads DEF Shape
    <2> USE <2>1, SpecialThreads, DistinctThreads
        DEF At, Shape, Begin, Goto, Finish, Resting, Quiet, TypeOK, Critical,
            TookOnlyInPutback, machine, disk, life, flags, locks
    <2>2. CASE ApplyOn(t)
      <3>1. Goto(t, "set") \/ Finish(t)
        BY <2>2 DEF ApplyOn
      <3>2. th[t].pc \notin Critical
        BY <2>2 DEF ApplyOn
      <3>3. UNCHANGED <<machine, file, phase, orig, overridden, cleanup>>
        BY <2>2 DEF ApplyOn
      <3> HIDE DEF Quiet, Goto, Finish
      <3> QED
        BY <3>1, <3>2, <3>3, QuietGoto, QuietFinish DEF ServerLabels
    <2>3. CASE ApplyOff(t)
      BY <2>3 DEF ApplyOff
    <2>4. CASE ApplyDone(t)
      BY <2>4 DEF ApplyDone
    <2>5. CASE LockDone(t)
      BY <2>5 DEF LockDone, LockReturns
    <2>6. CASE EmergencyUnlock(t)
      BY <2>6 DEF EmergencyUnlock
    <2>7. CASE EmergencyUnlocked(t)
      BY <2>7 DEF EmergencyUnlocked, LockReturns
    <2>8. CASE EmergencyDone(t)
      BY <2>8 DEF EmergencyDone
    <2>9. CASE QuitAgain(t)
      BY <2>9 DEF QuitAgain
    <2>10. CASE Exit(t)
      BY <2>10 DEF Exit
    <2> QED
      BY <2>2, <2>3, <2>4, <2>5, <2>6, <2>7, <2>8, <2>9, <2>10 DEF UserStep
  <1> QED BY <1>1, <1>2

\* The steps that matter to the invariant, and all the others.
LEMMA StepKinds ==
  ASSUME TypeOK, Shape, [Next]_vars
  PROVE  \/ Still
         \/ \E t \in Threads : Quiet(t)
         \/ Start \/ RecoverStale \/ DetectConflict
         \/ \E t \in Threads :
                SetBegin(t) \/ BackUpDone(t) \/ SetCommit(t) \/ SetFailed(t) \/ Persist(t)
         \/ \E t \in Threads, a \in Adapters : BackUpAdapter(t, a)
         \/ \E t \in Threads, a \in Adapters : SetAdapter(t, a)
         \/ \E t \in Threads : RestoreBegin(t) \/ RestoreNothing(t) \/ RestoreEnd(t)
         \/ \E t \in Threads, a \in Adapters : RestoreAdapter(t, a)
         \/ ProcessEnds
         \/ \E a \in Adapters : Flap(a)
         \/ \E a \in Adapters : External(a)
  <1>1. CASE UNCHANGED vars
    BY <1>1 DEF vars, Still, machine, disk, life, flags, locks
  <1>2. CASE BootStep
    BY <1>2, QuietBoot, SpecialThreads
  <1>3. CASE DogStep
    BY <1>3, QuietDog, SpecialThreads
  <1>4. CASE HookFires \/ HookDone
    BY <1>4, QuietHook, SpecialThreads
  <1>5. CASE \E t \in Users : Request(t)
    BY <1>5, QuietRequest, SpecialThreads
  <1>6. CASE \E t \in Users : UserStep(t)
    BY <1>6, QuietUser, SpecialThreads
  <1>7. CASE \E t \in Threads : SetStep(t)
    BY <1>7, QuietSet DEF SetStep
  <1>8. CASE \E t \in Threads : RestoreStep(t)
    BY <1>8 DEF RestoreStep
  <1>9. CASE Environment
    BY <1>9 DEF Environment, Crash, ResolverDies, Still, machine, disk, flags, locks
  <1> QED
    BY <1>1, <1>2, <1>3, <1>4, <1>5, <1>6, <1>7, <1>8, <1>9 DEF Next

-----------------------------------------------------------------------------
(***************************************************************************)
(* Where the threads may be                                                *)
(***************************************************************************)

LEMMA InitShape == Init => Shape
  BY SpecialThreads
  DEF Init, Shape, PutbackKnown, TookOnlyInPutback, Schedule, HoldsCleanup,
      InCritical, Critical, Resting, At, HookLabels

LEMMA ShapeStep ==
  ASSUME TypeOK, Shape, [Next]_vars
  PROVE  Shape'
  <1> USE SpecialThreads, DistinctThreads
      DEF Shape, PutbackKnown, TookOnlyInPutback, Schedule, HoldsCleanup,
          InCritical, Critical, At, BootLabels, ServerLabels, HookLabels,
          machine, disk, life, flags, locks
  <1>1. CASE Still
    BY <1>1 DEF Still
  <1>2. ASSUME NEW t \in Threads, Quiet(t) PROVE Shape'
    BY <1>2 DEF Quiet, TypeOK, Empty
  <1>3. CASE Start
    BY <1>3 DEF Start, Begin, TypeOK
  <1>4. CASE RecoverStale
    <2>1. phase = "boot"
      BY <1>4 DEF RecoverStale, TypeOK
    <2>2. CASE Goto(Boot, "detect")
      <3>1. UNCHANGED <<phase, cleanup>> /\ At(Boot, "recover")
        BY <1>4 DEF RecoverStale
      <3> QED BY <2>1, <2>2, <3>1 DEF Goto, TypeOK
    <2>3. CASE th' = [th EXCEPT ![Boot].pc = "putback", ![Boot].took = file,
                                ![Boot].todo = active \cap Entries(file)]
      <3>2. UNCHANGED <<phase, cleanup>>
        BY <1>4 DEF RecoverStale
      <3> QED BY <2>1, <2>3, <3>2 DEF Entries, TypeOK
    <2> QED BY <1>4, <2>2, <2>3 DEF RecoverStale
  <1>5. CASE DetectConflict
    BY <1>5 DEF DetectConflict, TypeOK
  <1>6. ASSUME NEW t \in Threads, SetBegin(t) PROVE Shape'
    BY <1>6 DEF SetBegin, TypeOK
  <1>17. ASSUME NEW t \in Threads, NEW a \in Adapters, BackUpAdapter(t, a) PROVE Shape'
    BY <1>17 DEF BackUpAdapter
  <1>18. ASSUME NEW t \in Threads, BackUpDone(t) PROVE Shape'
    BY <1>18 DEF BackUpDone, Goto, TypeOK
  <1>7. ASSUME NEW t \in Threads, NEW a \in Adapters, SetAdapter(t, a) PROVE Shape'
    <2>1. At(t, "writing") /\ UNCHANGED <<phase, cleanup>>
      BY <1>7 DEF SetAdapter
    <2>2. /\ \A u \in Threads \ {t} : th'[u] = th[u]
          /\ th'[t].pc = "writing" /\ th'[t].took = th[t].took
      BY <1>7 DEF SetAdapter, TypeOK, ThreadStates
    <2> QED BY <2>1, <2>2
  <1>8. ASSUME NEW t \in Threads, SetCommit(t) PROVE Shape'
    BY <1>8 DEF SetCommit, Goto, TypeOK
  <1>9. ASSUME NEW t \in Threads, SetFailed(t) PROVE Shape'
    BY <1>9 DEF SetFailed, Goto, TypeOK
  <1>10. ASSUME NEW t \in Threads, Persist(t) PROVE Shape'
    BY <1>10 DEF Persist, Goto, TypeOK
  <1>11. ASSUME NEW t \in Threads, RestoreBegin(t) PROVE Shape'
    BY <1>11 DEF RestoreBegin, MayRestore, Entries, TypeOK
  <1>12. ASSUME NEW t \in Threads, RestoreNothing(t) PROVE Shape'
    BY <1>12 DEF RestoreNothing, Goto, TypeOK
  <1>13. ASSUME NEW t \in Threads, NEW a \in Adapters, RestoreAdapter(t, a) PROVE Shape'
    BY <1>13 DEF RestoreAdapter, TypeOK
  <1>14. ASSUME NEW t \in Threads, RestoreEnd(t) PROVE Shape'
    BY <1>14 DEF RestoreEnd, Release, TypeOK
  <1>15. ASSUME ProcessEnds PROVE Shape'
    BY <1>15 DEF ProcessEnds, Resting
  <1>16. ASSUME NEW a \in Adapters, Flap(a) \/ External(a) PROVE Shape'
    BY <1>16 DEF Flap, External
  <1> QED
    BY StepKinds, <1>1, <1>2, <1>3, <1>4, <1>5, <1>6, <1>7, <1>8, <1>9, <1>10,
       <1>11, <1>12, <1>13, <1>14, <1>15, <1>16, <1>17, <1>18

-----------------------------------------------------------------------------
(***************************************************************************)
(* Saved settings are never the program's own                              *)
(***************************************************************************)

LEMMA InitBackup == Init => OwnOrOriginal /\ BackupIsOwners
  <1> SUFFICES ASSUME Init, NEW a \in Adapters
               PROVE  /\ dns[a] \in OwnAddresses \union (Recordable(a) \ {NoEntry})
                      /\ orig[a] \in Recordable(a)
                      /\ file[a] \in Recordable(a)
                      /\ \A t \in Threads : th[t].took[a] \in Recordable(a)
    BY DEF OwnOrOriginal, BackupIsOwners
  <1>1. owner[a] # NoEntry
    BY ServersAssumption
    DEF Init, OwnerSettings, Dhcp, Resolver, Blackhole, AnyAddr, NoEntry
  <1> QED
    BY <1>1 DEF Init, Recordable, Resting, Empty

LEMMA BackupStep ==
  ASSUME TypeOK, Shape, OwnOrOriginal, BackupIsOwners, [Next]_vars
  PROVE  OwnOrOriginal' /\ BackupIsOwners'
  <1> SUFFICES ASSUME NEW a \in Adapters
               PROVE  /\ dns'[a] \in OwnAddresses \union (Recordable(a)' \ {NoEntry})
                      /\ orig'[a] \in Recordable(a)'
                      /\ file'[a] \in Recordable(a)'
                      /\ \A t \in Threads : th'[t].took[a] \in Recordable(a)'
    BY DEF OwnOrOriginal, BackupIsOwners
  <1> DEFINE Good == /\ dns'[a] \in OwnAddresses \union (Recordable(a)' \ {NoEntry})
                     /\ orig'[a] \in Recordable(a)'
                     /\ file'[a] \in Recordable(a)'
                     /\ \A t \in Threads : th'[t].took[a] \in Recordable(a)'
  <1> USE SpecialThreads, DistinctThreads
      DEF OwnOrOriginal, BackupIsOwners, machine, disk, life, flags, locks, At
  <1>a. NoEntry \in Recordable(a)
    BY DEF Recordable
  <1>b. owner' = owner => Recordable(a)' = Recordable(a)
    BY DEF Recordable
  <1>c. Empty[a] = NoEntry
    BY DEF Empty
  <1> USE <1>a, <1>b, <1>c
  <1>1. CASE Still
    BY <1>1 DEF Still
  <1>2. ASSUME NEW t \in Threads, Quiet(t) PROVE Good
    BY <1>2 DEF Quiet
  <1>3. CASE Start
    BY <1>3 DEF Start, Begin, TypeOK
  <1>4. CASE RecoverStale
    <2>1. UNCHANGED <<machine, disk, orig>>
      BY <1>4 DEF RecoverStale
    <2>2. \A t \in Threads : th'[t].took \in {th[t].took, file}
      <3>1. CASE Goto(Boot, "detect")
        BY <3>1 DEF Goto, TypeOK
      <3>2. CASE th' = [th EXCEPT ![Boot].pc = "putback", ![Boot].took = file,
                                  ![Boot].todo = active \cap Entries(file)]
        BY <3>2 DEF TypeOK
      <3> QED BY <1>4, <3>1, <3>2 DEF RecoverStale
    <2> QED BY <2>1, <2>2
  <1>5. CASE DetectConflict
    BY <1>5 DEF DetectConflict, TypeOK
  <1>17. ASSUME NEW t \in Threads, SetBegin(t) PROVE Good
    BY <1>17 DEF SetBegin, TypeOK
  <1>18. ASSUME NEW t \in Threads, BackUpDone(t) PROVE Good
    BY <1>18, GotoKeeps DEF BackUpDone
  <1>6. ASSUME NEW t \in Threads, NEW b \in Adapters, BackUpAdapter(t, b) PROVE Good
    <2>1. UNCHANGED <<machine, disk, th>>
      BY <1>6 DEF BackUpAdapter
    <2>2. orig'[a] \in {orig[a]} \union ReadDns(dns[a])
      BY <1>6 DEF BackUpAdapter, TypeOK, Maps
    <2>3. ReadDns(dns[a]) \subseteq Recordable(a)
      BY DEF ReadDns, Recordable
    <2> QED BY <2>1, <2>2, <2>3
  <1>7. ASSUME NEW t \in Threads, NEW b \in Adapters, SetAdapter(t, b) PROVE Good
    <2>1. /\ UNCHANGED <<owner, orig, file>>
          /\ \A u \in Threads : th'[u].took = th[u].took
      BY <1>7 DEF SetAdapter, TypeOK, ThreadStates
    <2>2. dns'[a] \in {dns[a], Target(t)}
      BY <1>7 DEF SetAdapter, TypeOK
    <2>3. Target(t) \in OwnAddresses \union (Recordable(a) \ {NoEntry})
      BY ListenAssumption
      DEF Target, OwnAddresses, Recordable, Resolver, Blackhole, AnyAddr, NoEntry
    <2> QED BY <2>1, <2>2, <2>3
  <1>8. ASSUME NEW t \in Threads, SetCommit(t) \/ SetFailed(t) PROVE Good
    <2>1. UNCHANGED <<machine, disk, orig>>
      BY <1>8 DEF SetCommit, SetFailed
    <2>2. Goto(t, "persist") \/ Goto(t, "setErr")
      BY <1>8 DEF SetCommit, SetFailed
    <2>3. \A u \in Threads : th'[u].took = th[u].took
      BY <2>2, GotoKeeps
    <2> QED BY <2>1, <2>3
  <1>9. ASSUME NEW t \in Threads, Persist(t) PROVE Good
    <2>1. UNCHANGED <<machine, orig>> /\ file' \in {file, orig}
      BY <1>9 DEF Persist
    <2>2. \A u \in Threads : th'[u].took = th[u].took
      BY <1>9 DEF Persist, Goto, TypeOK
    <2> QED BY <2>1, <2>2
  <1>10. ASSUME NEW t \in Threads, RestoreBegin(t) PROVE Good
    <2>1. /\ UNCHANGED <<machine, disk>> /\ orig' = Empty
          /\ \A u \in Threads : th'[u].took \in {th[u].took, orig}
      BY <1>10 DEF RestoreBegin, TypeOK
    <2> QED BY <2>1
  <1>11. ASSUME NEW t \in Threads, RestoreNothing(t) PROVE Good
    BY <1>11 DEF RestoreNothing, Goto, TypeOK
  <1>12. ASSUME NEW t \in Threads, NEW b \in Adapters, RestoreAdapter(t, b) PROVE Good
    <2>1. UNCHANGED <<owner, disk, orig>> /\ \A u \in Threads : th'[u].took = th[u].took
      BY <1>12 DEF RestoreAdapter, TypeOK
    <2>2. dns'[a] = dns[a] \/ (dns'[a] = th[t].took[a] /\ a = b)
      BY <1>12 DEF RestoreAdapter, TypeOK
    <2>3. th[t].took[b] # NoEntry
      BY <1>12 DEF RestoreAdapter, Shape, PutbackKnown
    <2> QED BY <2>1, <2>2, <2>3
  <1>13. ASSUME NEW t \in Threads, RestoreEnd(t) PROVE Good
    BY <1>13 DEF RestoreEnd, TypeOK
  <1>14. ASSUME ProcessEnds PROVE Good
    BY <1>14 DEF ProcessEnds, Resting
  <1>15. ASSUME NEW b \in Adapters, Flap(b) PROVE Good
    BY <1>15 DEF Flap
  <1>16. ASSUME NEW b \in Adapters, External(b) PROVE Good
    <2>1. dns'[a] \in {dns[a], owner[a]} /\ UNCHANGED <<owner, disk, orig, th>>
      BY <1>16 DEF External, TypeOK
    <2>2. owner[a] \in Recordable(a) \ {NoEntry}
      BY ServersAssumption
      DEF TypeOK, OwnerSettings, Recordable, Dhcp, Resolver, Blackhole, AnyAddr, NoEntry
    <2> QED BY <2>1, <2>2
  <1> QED
    BY StepKinds, <1>1, <1>2, <1>3, <1>4, <1>5, <1>6, <1>7, <1>8, <1>9, <1>10,
       <1>11, <1>12, <1>13, <1>14, <1>15, <1>16, <1>17, <1>18

-----------------------------------------------------------------------------
(***************************************************************************)
(* The original settings are kept                                          *)
(***************************************************************************)

\* What a lossless environment rules out.
LEMMA LosslessMeans ==
  ASSUME Lossless
  PROVE  "hook" \notin Faults /\ "flap" \notin Faults /\ "read" \notin Faults
         /\ "restore" \notin Faults /\ "disk" \notin Faults
         /\ "stopInSet" \notin Faults
  BY DEF Lossless

LEMMA OwnersApart ==
  ASSUME TypeOK, NEW a \in Adapters
  PROVE  owner[a] \notin OwnAddresses \union {NoEntry}
  BY ServersAssumption
  DEF TypeOK, OwnerSettings, OwnAddresses, Dhcp, Resolver, Blackhole, NoEntry

\* With the lock held or free, nobody else is changing adapters.
LEMMA OnlyHolder ==
  ASSUME TypeOK, Shape, Lossless, phase # "boot",
         NEW t \in Threads, cleanup = t \/ cleanup = Free,
         NEW u \in Threads \ {t}
  PROVE  ~InCritical(u)
  BY LosslessMeans, DistinctThreads
  DEF Shape, Schedule, HoldsCleanup, InCritical, Critical, At

LEMMA InitKept == Init => Kept
  BY DEF Init, Kept, RecordsAreOriginals, UnrecordedUntouched, WritesRecorded,
         PutbackEmptiesMap, RecoveryRestores, FileCovers, FlagTells, Resting,
         Empty, At

\* A step that keeps owner, the phase and the threads at their critical work
\* only has to account for what it does to settings and records.
LEMMA KeptStill ==
  ASSUME TypeOK, Shape, Kept, Still
  PROVE  Kept'
  BY DEF Still, Kept, RecordsAreOriginals, UnrecordedUntouched, WritesRecorded,
         PutbackEmptiesMap, RecoveryRestores, FileCovers, FlagTells, SomeDirty,
         Dirty, ComingBack, At, machine

LEMMA KeptQuiet ==
  ASSUME TypeOK, Shape, Kept, Lossless, NEW t \in Threads, Quiet(t)
  PROVE  Kept'
  <1> USE SpecialThreads DEF Quiet, At, machine
  <1>1. /\ ~At(t, "writing") /\ ~At(t, "persist") /\ ~At(t, "putback")
        /\ ~At(t, "writing")' /\ ~At(t, "persist")' /\ ~At(t, "putback")'
    BY DEF Critical
  <1>2. SomeDirty' = SomeDirty
    BY <1>1 DEF SomeDirty, Dirty
  <1>3. \A a \in Adapters : ComingBack(a)' = ComingBack(a)
    BY <1>1 DEF ComingBack
  <1>4. RecordsAreOriginals'
    BY DEF Kept, RecordsAreOriginals, Empty
  <1>5. UnrecordedUntouched'
    BY <1>3 DEF Kept, UnrecordedUntouched
  <1>6. WritesRecorded' /\ PutbackEmptiesMap'
    BY <1>1 DEF Kept, WritesRecorded, PutbackEmptiesMap
  <1>7. RecoveryRestores'
    BY <1>1 DEF Kept, RecoveryRestores
  <1>8. FlagTells'
    BY <1>1, <1>2 DEF Kept, FlagTells
  <1> QED
    BY <1>2, <1>4, <1>5, <1>6, <1>7, <1>8 DEF Kept, FileCovers

\* Before the program runs, and while it is recovering, no set has begun.
LEMMA NoneDirty ==
  ASSUME TypeOK, Shape, phase # "up"
  PROVE  ~SomeDirty
  BY SpecialThreads
  DEF Shape, Schedule, SomeDirty, Dirty, At, BootLabels, TypeOK

LEMMA KeptStart ==
  ASSUME TypeOK, Shape, Kept, Start
  PROVE  Kept'
  <1> USE SpecialThreads DEF Start, Begin, At, machine, disk
  <1>1. FileCovers
    BY NoneDirty DEF Kept
  <1>2. FileCovers'
    BY <1>1 DEF FileCovers
  <1>3. \A t \in Threads : /\ th'[t].took = th[t].took
                           /\ th'[t].pc \in {"idle", "recover"}
    BY DEF TypeOK, Shape, Schedule
  <1> QED
    BY <1>2, <1>3
    DEF Kept, RecordsAreOriginals, UnrecordedUntouched, WritesRecorded,
        PutbackEmptiesMap, RecoveryRestores, FlagTells

LEMMA KeptRecover ==
  ASSUME TypeOK, Shape, Kept, RecoverStale
  PROVE  Kept'
  <1> USE SpecialThreads DEF At, machine, disk, life
  <1>1. phase = "boot" /\ UNCHANGED <<machine, disk, phase, orig>>
    BY DEF RecoverStale, Shape, Schedule, TypeOK, ServerLabels
  <1>2. FileCovers /\ FileCovers'
    BY <1>1, NoneDirty DEF Kept, FileCovers
  <1>3. \A t \in Threads \ {Boot} : th'[t] = th[t] /\ At(t, "idle")
    BY <1>1 DEF RecoverStale, Goto, TypeOK, Shape, Schedule
  <1>4. CASE Goto(Boot, "detect")
    <2>1. th'[Boot].pc = "detect" /\ th'[Boot].took = th[Boot].took
      BY <1>4 DEF Goto, TypeOK
    <2>2. CASE Entries(file) = {}
      BY <1>1, <1>2, <1>3, <2>1, <2>2
      DEF Kept, RecordsAreOriginals, UnrecordedUntouched, WritesRecorded,
          PutbackEmptiesMap, RecoveryRestores, FlagTells, FileCovers, Entries,
          TypeOK
    <2>3. CASE Entries(file) # {}
      <3>1. th' = [th EXCEPT ![Boot].pc = "putback", ![Boot].took = file,
                             ![Boot].todo = active \cap Entries(file)]
        BY <2>3 DEF RecoverStale
      <3>2. th'[Boot].pc = "putback"
        BY <3>1 DEF TypeOK
      <3> QED BY <2>1, <3>2
    <2> QED BY <2>2, <2>3
  <1>5. CASE th' = [th EXCEPT ![Boot].pc = "putback", ![Boot].took = file,
                              ![Boot].todo = active \cap Entries(file)]
    <2>1. /\ th'[Boot].pc = "putback" /\ th'[Boot].took = file
          /\ th'[Boot].todo = active \cap Entries(file)
      BY <1>5 DEF TypeOK
    <2> QED
      BY <1>1, <1>2, <1>3, <2>1
      DEF Kept, RecordsAreOriginals, UnrecordedUntouched, WritesRecorded,
          PutbackEmptiesMap, RecoveryRestores, FlagTells, FileCovers, Entries
  <1> QED BY <1>4, <1>5 DEF RecoverStale

LEMMA KeptDetect ==
  ASSUME TypeOK, Shape, Kept, DetectConflict
  PROVE  Kept'
  <1> USE SpecialThreads DEF At, machine, disk, life
  <1>1. phase = "boot" /\ phase' = "up" /\ UNCHANGED <<machine, disk, orig, overridden>>
    BY DEF DetectConflict, Shape, Schedule, TypeOK, ServerLabels
  <1>2. dns = owner
    BY <1>1 DEF Kept, RecoveryRestores, DetectConflict
  <1>3. \A t \in Threads : /\ th'[t].took = th[t].took
                           /\ th'[t].pc \in {"idle", "bind"}
    BY <1>1 DEF DetectConflict, TypeOK, Shape, Schedule
  <1> QED
    BY <1>1, <1>2, <1>3
    DEF Kept, RecordsAreOriginals, UnrecordedUntouched, WritesRecorded,
        PutbackEmptiesMap, RecoveryRestores, FlagTells, FileCovers

\* The thread of a set or of a restore while the program is up.
LEMMA CriticalIsUp ==
  ASSUME TypeOK, Shape, NEW t \in Threads,
         th[t].pc \in {"set", "restore", "backup", "writing", "persist"}
  PROVE  phase = "up"
  BY DEF Shape, Schedule, At, BootLabels, TypeOK

LEMMA KeptSetBegin ==
  ASSUME TypeOK, Shape, Kept, Lossless, NEW t \in Threads, SetBegin(t)
  PROVE  Kept'
  <1> USE DEF machine, disk, life, flags, At
  <1>1. /\ phase = "up" /\ cleanup = Free
        /\ UNCHANGED <<machine, disk, phase, overridden>>
    BY CriticalIsUp DEF SetBegin
  <1>2. /\ \A u \in Threads \ {t} : th'[u] = th[u]
        /\ th'[t].pc = "backup" /\ th'[t].took = th[t].took
    BY DEF SetBegin, TypeOK, ThreadStates
  <1>3. th[t].pc = "set" /\ UNCHANGED orig
    BY DEF SetBegin
  <1>4. SomeDirty' = SomeDirty
    BY <1>2, <1>3 DEF SomeDirty, Dirty
  <1>5. \A a \in Adapters : ComingBack(a)' = ComingBack(a)
    BY <1>2, <1>3 DEF ComingBack
  <1>6. RecordsAreOriginals' /\ WritesRecorded' /\ PutbackEmptiesMap'
    BY <1>1, <1>2, <1>3 DEF Kept, RecordsAreOriginals, WritesRecorded, PutbackEmptiesMap
  <1>7. UnrecordedUntouched' /\ RecoveryRestores' /\ FlagTells'
    BY <1>1, <1>2, <1>3, <1>4, <1>5
    DEF Kept, UnrecordedUntouched, RecoveryRestores, FlagTells
  <1> QED
    BY <1>1, <1>4, <1>6, <1>7 DEF Kept, FileCovers

\* The holder of CLEANUP_LOCK is alone in the part that it protects.
LEMMA ListsAlone ==
  ASSUME TypeOK, Shape, Lossless, NEW t \in Threads, At(t, "backup")
  PROVE  \A u \in Threads \ {t} : ~InCritical(u)
  <1>1. phase = "up" /\ cleanup = t
    BY CriticalIsUp
    DEF At, Shape, HoldsCleanup, Schedule, InCritical, Critical, HookLabels
  <1> QED BY <1>1, OnlyHolder

\* What is recorded of an adapter that no record named is the owner's setting:
\* nobody has touched it.
LEMMA KeptBackUpAdapter ==
  ASSUME TypeOK, Shape, Kept, Lossless, NEW t \in Threads, NEW b \in Adapters,
         BackUpAdapter(t, b)
  PROVE  Kept'
  <1> USE DEF machine, disk, life, flags, At
  <1>1. /\ phase = "up" /\ th[t].pc = "backup" /\ orig[b] = NoEntry
        /\ UNCHANGED <<machine, disk, phase, overridden, th>>
    BY CriticalIsUp DEF BackUpAdapter, Unlisted
  <1>2. \A u \in Threads : ~At(u, "putback") /\ ~At(u, "writing")
    BY <1>1, ListsAlone DEF InCritical, Critical
  <1>3. dns[b] = owner[b]
    BY <1>1, <1>2 DEF Kept, UnrecordedUntouched, ComingBack
  <1>4. ReadDns(dns[b]) = {owner[b]}
    BY <1>3, OwnersApart, LosslessMeans DEF ReadDns
  <1>5. orig'[b] = owner[b] /\ \A a \in Adapters \ {b} : orig'[a] = orig[a]
    BY <1>4 DEF BackUpAdapter, TypeOK, Maps
  <1>6. RecordsAreOriginals'
    BY <1>1, <1>5 DEF Kept, RecordsAreOriginals
  <1>7. UnrecordedUntouched'
    BY <1>1, <1>2, <1>3, <1>5 DEF Kept, UnrecordedUntouched, ComingBack
  <1>8. WritesRecorded' /\ PutbackEmptiesMap'
    BY <1>1, <1>2 DEF WritesRecorded, PutbackEmptiesMap
  <1>9. (FileCovers \/ SomeDirty)' /\ FlagTells' /\ RecoveryRestores' /\ active' = Adapters
    BY <1>1 DEF Kept, FileCovers, SomeDirty, Dirty, FlagTells, RecoveryRestores
  <1> QED
    BY <1>6, <1>7, <1>8, <1>9 DEF Kept

LEMMA KeptBackUpDone ==
  ASSUME TypeOK, Shape, Kept, Lossless, NEW t \in Threads, BackUpDone(t)
  PROVE  Kept'
  <1> USE DEF machine, disk, life, flags, At
  <1>1. /\ phase = "up" /\ th[t].pc = "backup"
        /\ UNCHANGED <<machine, disk, phase, orig, overridden>>
    BY CriticalIsUp DEF BackUpDone
  <1>2. /\ \A u \in Threads \ {t} : th'[u] = th[u]
        /\ th'[t].pc = "writing" /\ th'[t].todo = th[t].todo
        /\ th'[t].took = th[t].took
    BY DEF BackUpDone, Goto, TypeOK, ThreadStates
  <1>3. \A u \in Threads : ~At(u, "putback") /\ ~At(u, "writing") /\ ~At(u, "persist")
    BY <1>1, ListsAlone DEF InCritical, Critical
  <1>4. \A a \in th[t].todo : orig[a] # NoEntry
    BY DEF BackUpDone, Unlisted
  <1>5. \A u \in Threads : ~At(u, "putback")'
    BY <1>2, <1>3
  <1>6. RecordsAreOriginals' /\ WritesRecorded' /\ PutbackEmptiesMap'
    BY <1>1, <1>2, <1>3, <1>4, <1>5
    DEF Kept, RecordsAreOriginals, WritesRecorded, PutbackEmptiesMap
  <1>7. dns = owner \/ overridden
    BY <1>1, <1>3 DEF Kept, FlagTells, SomeDirty, Dirty
  <1>8. FileCovers' /\ active' = Adapters
    BY <1>1, <1>3 DEF Kept, FileCovers, SomeDirty, Dirty
  <1>9. UnrecordedUntouched' /\ RecoveryRestores' /\ FlagTells'
    BY <1>1, <1>2, <1>3, <1>5, <1>7
    DEF Kept, UnrecordedUntouched, ComingBack, RecoveryRestores, FlagTells
  <1> QED
    BY <1>6, <1>8, <1>9 DEF Kept

LEMMA KeptSetAdapter ==
  ASSUME TypeOK, Shape, Kept, Lossless, NEW t \in Threads, NEW b \in Adapters,
         SetAdapter(t, b)
  PROVE  Kept'
  <1> USE DEF machine, disk, life, flags, At
  <1>1. /\ phase = "up" /\ th[t].pc = "writing" /\ b \in th[t].todo
        /\ UNCHANGED <<owner, active, disk, phase, orig, overridden>>
    BY CriticalIsUp DEF SetAdapter
  <1>2. /\ \A u \in Threads \ {t} : th'[u] = th[u]
        /\ th'[t].pc = "writing" /\ th'[t].todo = th[t].todo \ {b}
        /\ th'[t].took = th[t].took
        /\ \/ th'[t].good
           \/ dns' = dns /\ th'[t].good = th[t].good
    BY DEF SetAdapter, TypeOK, ThreadStates
  <1>3. \A a \in Adapters \ {b} : dns'[a] = dns[a]
    BY DEF SetAdapter, TypeOK
  <1>4. orig[b] # NoEntry
    BY <1>1 DEF Kept, WritesRecorded
  <1>5. \A a \in Adapters : ComingBack(a)' = ComingBack(a)
    BY <1>1, <1>2 DEF ComingBack
  <1>6. (FileCovers \/ SomeDirty)'
    BY <1>1, <1>2 DEF Kept, FileCovers, SomeDirty, Dirty
  <1>7. RecordsAreOriginals' /\ WritesRecorded' /\ PutbackEmptiesMap'
    BY <1>1, <1>2 DEF Kept, RecordsAreOriginals, WritesRecorded, PutbackEmptiesMap
  <1>8. UnrecordedUntouched'
    BY <1>1, <1>3, <1>4, <1>5 DEF Kept, UnrecordedUntouched
  <1>9. FlagTells'
    BY <1>1, <1>2 DEF Kept, FlagTells, SomeDirty, Dirty
  <1>10. RecoveryRestores' /\ active' = Adapters
    BY <1>1 DEF Kept, RecoveryRestores
  <1> QED
    BY <1>6, <1>7, <1>8, <1>9, <1>10 DEF Kept

\* The end of a set, whichever way it goes, leaves adapters and records alone.
LEMMA KeptSetCommit ==
  ASSUME TypeOK, Shape, Kept, Lossless, NEW t \in Threads, SetCommit(t)
  PROVE  Kept'
  <1> USE DEF machine, disk, life, At
  <1>1. /\ phase = "up" /\ overridden'
        /\ UNCHANGED <<machine, disk, phase, orig>>
    BY CriticalIsUp DEF SetCommit
  <1>2. /\ \A u \in Threads \ {t} : th'[u] = th[u]
        /\ th'[t].pc = "persist" /\ th'[t].took = th[t].took
    BY GotoKeeps DEF SetCommit
  <1>3. th[t].pc = "writing"
    BY DEF SetCommit
  <1>4. SomeDirty'
    BY <1>2 DEF SomeDirty, Dirty
  <1>5. \A a \in Adapters : ComingBack(a)' = ComingBack(a)
    BY <1>2, <1>3 DEF ComingBack
  <1> QED
    BY <1>1, <1>2, <1>3, <1>4, <1>5
    DEF Kept, RecordsAreOriginals, UnrecordedUntouched, WritesRecorded,
        PutbackEmptiesMap, RecoveryRestores, FlagTells

LEMMA KeptSetFailed ==
  ASSUME TypeOK, Shape, Kept, Lossless, NEW t \in Threads, SetFailed(t)
  PROVE  Kept'
  <1> USE DEF machine, disk, life, flags, At
  <1>1. phase = "up" /\ UNCHANGED <<machine, disk, phase, orig, overridden>>
    BY CriticalIsUp DEF SetFailed
  <1>2. /\ \A u \in Threads \ {t} : th'[u] = th[u]
        /\ th'[t].pc = "setErr" /\ th'[t].took = th[t].took
    BY GotoKeeps DEF SetFailed
  <1>3. th[t].pc = "writing" /\ ~th[t].good
    BY DEF SetFailed
  <1>4. SomeDirty' = SomeDirty
    BY <1>2, <1>3 DEF SomeDirty, Dirty
  <1>5. \A a \in Adapters : ComingBack(a)' = ComingBack(a)
    BY <1>2, <1>3 DEF ComingBack
  <1>6. RecordsAreOriginals' /\ WritesRecorded' /\ PutbackEmptiesMap'
    BY <1>1, <1>2 DEF Kept, RecordsAreOriginals, WritesRecorded, PutbackEmptiesMap
  <1>7. UnrecordedUntouched' /\ RecoveryRestores' /\ FlagTells'
    BY <1>1, <1>2, <1>4, <1>5
    DEF Kept, UnrecordedUntouched, RecoveryRestores, FlagTells
  <1> QED
    BY <1>1, <1>4, <1>6, <1>7 DEF Kept, FileCovers

\* Saving the map makes the file cover the adapters: what the map does not
\* name is untouched, for nobody else is putting anything back.
LEMMA KeptPersist ==
  ASSUME TypeOK, Shape, Kept, Lossless, NEW t \in Threads, Persist(t)
  PROVE  Kept'
  <1> USE DEF machine, life, flags, At
  <1>1. /\ phase = "up" /\ th[t].pc = "persist"
        /\ file' = IF Entries(orig) = {} THEN file ELSE orig
        /\ UNCHANGED <<machine, phase, orig, overridden>>
    BY CriticalIsUp, LosslessMeans DEF Persist
  <1>2. /\ \A u \in Threads \ {t} : th'[u] = th[u]
        /\ th'[t].pc \in {"setErr", "setOk"} /\ th'[t].took = th[t].took
    <2> DEFINE label == IF th[t].bad THEN "setErr" ELSE "setOk"
    <2>1. Goto(t, label)
      BY DEF Persist
    <2>2. label \in {"setErr", "setOk"}
      OBVIOUS
    <2> HIDE DEF label
    <2> QED BY <2>1, <2>2, GotoKeeps
  <1>3. cleanup = t
    BY <1>1, LosslessMeans
    DEF Shape, HoldsCleanup, Schedule, InCritical, Critical, HookLabels
  <1>4. \A u \in Threads \ {t} : ~InCritical(u)
    BY <1>1, <1>3, OnlyHolder
  <1>5. \A a \in Adapters : ~ComingBack(a) /\ ~ComingBack(a)'
    BY <1>1, <1>2, <1>4 DEF ComingBack, InCritical, Critical
  <1>6. \A a \in Adapters : orig[a] = NoEntry => dns[a] = owner[a]
    BY <1>1, <1>5 DEF Kept, UnrecordedUntouched
  <1>7. FileCovers'
    BY <1>1, <1>6 DEF FileCovers, Entries
  <1>8. RecordsAreOriginals'
    BY <1>1, <1>2 DEF Kept, RecordsAreOriginals
  <1>9. UnrecordedUntouched' /\ WritesRecorded' /\ PutbackEmptiesMap'
    BY <1>1, <1>2, <1>6
    DEF Kept, UnrecordedUntouched, WritesRecorded, PutbackEmptiesMap
  <1>10. RecoveryRestores' /\ FlagTells' /\ active' = Adapters
    BY <1>1, <1>2 DEF Kept, RecoveryRestores, FlagTells
  <1> QED
    BY <1>7, <1>8, <1>9, <1>10 DEF Kept

LEMMA KeptRestoreBegin ==
  ASSUME TypeOK, Shape, Kept, Lossless, NEW t \in Threads, RestoreBegin(t)
  PROVE  Kept'
  <1> USE DEF machine, disk, life, flags, At
  <1>1. /\ phase = "up" /\ orig' = Empty /\ Entries(orig) # {}
        /\ UNCHANGED <<machine, disk, phase, overridden>>
    BY CriticalIsUp DEF RestoreBegin
  <1>2. /\ \A u \in Threads \ {t} : th'[u] = th[u]
        /\ th'[t].pc = "putback" /\ th'[t].took = orig
        /\ th'[t].todo = active \cap Entries(orig)
    BY DEF RestoreBegin, TypeOK, ThreadStates
  <1>3. th[t].pc = "restore" /\ cleanup = Free
    BY LosslessMeans DEF RestoreBegin, MayRestore, Shape, Schedule
  <1>4. \A u \in Threads : ~InCritical(u)
    BY <1>1, <1>3, OnlyHolder DEF InCritical, Critical
  <1>5. \A a \in Adapters : orig[a] = NoEntry => dns[a] = owner[a]
    BY <1>1, <1>4 DEF Kept, UnrecordedUntouched, ComingBack, InCritical, Critical
  <1>6. \A a \in Adapters : ComingBack(a)' <=> orig[a] # NoEntry
    BY <1>1, <1>2, <1>4 DEF Kept, ComingBack, InCritical, Critical, Entries
  <1>7. ~SomeDirty /\ ~SomeDirty'
    BY <1>2, <1>4 DEF SomeDirty, Dirty, InCritical, Critical
  <1>8. RecordsAreOriginals' /\ UnrecordedUntouched'
    BY <1>1, <1>2, <1>5, <1>6
    DEF Kept, RecordsAreOriginals, UnrecordedUntouched, Empty
  <1>9. WritesRecorded' /\ PutbackEmptiesMap' /\ RecoveryRestores'
    BY <1>1, <1>2, <1>4
    DEF WritesRecorded, PutbackEmptiesMap, RecoveryRestores, InCritical, Critical
  <1>10. FileCovers' /\ FlagTells' /\ active' = Adapters
    BY <1>1, <1>2, <1>4, <1>7
    DEF Kept, FileCovers, FlagTells, InCritical, Critical
  <1> QED
    BY <1>8, <1>9, <1>10 DEF Kept

\* With nothing on record there is nothing to put back.
LEMMA KeptRestoreNothing ==
  ASSUME TypeOK, Shape, Kept, Lossless, NEW t \in Threads, RestoreNothing(t)
  PROVE  Kept'
  <1> USE DEF machine, disk, life, flags, At
  <1>1. /\ phase = "up" /\ file' = Empty /\ Entries(orig) = {}
        /\ UNCHANGED <<machine, phase, orig>>
    BY CriticalIsUp DEF RestoreNothing
  <1>2. /\ \A u \in Threads \ {t} : th'[u] = th[u]
        /\ th'[t].pc = "restored" /\ th'[t].took = th[t].took
    BY GotoKeeps DEF RestoreNothing
  <1>3. th[t].pc = "restore" /\ cleanup = Free
    BY LosslessMeans DEF RestoreNothing, MayRestore, Shape, Schedule
  <1>4. \A u \in Threads : ~InCritical(u)
    BY <1>1, <1>3, OnlyHolder DEF InCritical, Critical
  <1>5. \A a \in Adapters : dns[a] = owner[a]
    BY <1>1, <1>4
    DEF Kept, UnrecordedUntouched, ComingBack, InCritical, Critical, Entries
  <1>6. dns' = owner'
    BY <1>1, <1>5 DEF TypeOK
  <1>7. RecordsAreOriginals'
    BY <1>1, <1>2 DEF Kept, RecordsAreOriginals, Empty
  <1>8. UnrecordedUntouched' /\ FileCovers'
    BY <1>6 DEF UnrecordedUntouched, FileCovers
  <1>9. WritesRecorded' /\ PutbackEmptiesMap' /\ RecoveryRestores'
    BY <1>1, <1>2, <1>4
    DEF WritesRecorded, PutbackEmptiesMap, RecoveryRestores, InCritical, Critical
  <1>10. FlagTells' /\ active' = Adapters
    BY <1>1, <1>2, <1>4, <1>6 DEF Kept, FlagTells, InCritical, Critical
  <1> QED
    BY <1>7, <1>8, <1>9, <1>10 DEF Kept

LEMMA KeptRestoreAdapter ==
  ASSUME TypeOK, Shape, Kept, Lossless, NEW t \in Threads, NEW b \in Adapters,
         RestoreAdapter(t, b)
  PROVE  Kept'
  <1> USE DEF machine, disk, life, flags, At
  <1>1. /\ th[t].pc = "putback" /\ b \in th[t].todo
        /\ UNCHANGED <<owner, active, disk, phase, orig, overridden>>
    BY DEF RestoreAdapter
  <1>2. /\ \A u \in Threads \ {t} : th'[u] = th[u]
        /\ th'[t].pc = "putback" /\ th'[t].todo = th[t].todo \ {b}
        /\ th'[t].took = th[t].took
    BY DEF RestoreAdapter, TypeOK, ThreadStates
  <1>3. th[t].took[b] = owner[b]
    BY <1>1 DEF Kept, RecordsAreOriginals, Shape, PutbackKnown
  <1>4. dns'[b] = owner[b] /\ \A a \in Adapters \ {b} : dns'[a] = dns[a]
    BY <1>3, LosslessMeans DEF RestoreAdapter, TypeOK
  <1>5. dns' \in [Adapters -> Settings] /\ (dns = owner => dns' = owner)
    <2>1. owner[b] \in Settings
      BY DEF TypeOK, Settings
    <2>2. dns' = [dns EXCEPT ![b] = owner[b]]
      BY <1>3, LosslessMeans DEF RestoreAdapter
    <2> QED BY <2>1, <2>2 DEF TypeOK
  <1>6. \A a \in Adapters \ {b} : ComingBack(a)' = ComingBack(a)
    BY <1>1, <1>2 DEF ComingBack
  <1>7. SomeDirty' = SomeDirty
    BY <1>1, <1>2 DEF SomeDirty, Dirty
  <1>8. RecordsAreOriginals' /\ WritesRecorded' /\ PutbackEmptiesMap'
    BY <1>1, <1>2 DEF Kept, RecordsAreOriginals, WritesRecorded, PutbackEmptiesMap
  <1>9. UnrecordedUntouched' /\ active' = Adapters
    BY <1>1, <1>4, <1>6 DEF Kept, UnrecordedUntouched
  <1>10. RecoveryRestores'
    BY <1>1, <1>2, <1>4, <1>5, SpecialThreads DEF Kept, RecoveryRestores
  <1>11. (FileCovers \/ SomeDirty)'
    BY <1>1, <1>4, <1>7 DEF Kept, FileCovers
  <1>12. FlagTells'
    BY <1>1, <1>2, <1>5, <1>7 DEF Kept, FlagTells
  <1> QED
    BY <1>8, <1>9, <1>10, <1>11, <1>12 DEF Kept

\* A restore, or the recovery at startup, ends with every adapter the owner's.
LEMMA KeptRestoreEnd ==
  ASSUME TypeOK, Shape, Kept, Lossless, NEW t \in Threads, RestoreEnd(t)
  PROVE  Kept'
  <1> USE DEF machine, disk, life, At
  <1>1. /\ th[t].pc = "putback" /\ th[t].todo = {} /\ file' = Empty
        /\ UNCHANGED <<machine, phase, orig>>
    BY DEF RestoreEnd
  <1>2. /\ \A u \in Threads \ {t} : th'[u] = th[u]
        /\ th'[t].pc = "restored" /\ th'[t].took = Empty
    BY DEF RestoreEnd, TypeOK, ThreadStates
  <1>3. \A u \in Threads \ {t} : ~InCritical(u)
    <2>1. CASE phase = "boot"
      BY <1>1, <2>1
      DEF Shape, Schedule, InCritical, Critical
    <2>2. CASE phase # "boot"
      <3>1. cleanup = t
        BY <1>1, <2>2, LosslessMeans
        DEF Shape, Schedule, HoldsCleanup, InCritical, Critical
      <3> QED BY <2>2, <3>1, OnlyHolder
    <2> QED BY <2>1, <2>2
  <1>4. phase \in {"boot", "up"}
    BY <1>1 DEF Shape, Schedule, TypeOK
  <1>5. \A a \in Adapters : dns[a] = owner[a]
    <2>1. CASE phase = "boot"
      <3>1. t = Boot
        BY <1>1, <2>1 DEF Shape, Schedule
      <3> QED BY <1>1, <2>1, <3>1 DEF Kept, RecoveryRestores
    <2>2. CASE phase = "up"
      <3>1. orig = Empty
        BY <1>1, <2>2 DEF Kept, PutbackEmptiesMap
      <3>2. \A a \in Adapters : ~ComingBack(a)
        BY <1>1, <1>3 DEF ComingBack, InCritical, Critical
      <3> QED BY <2>2, <3>1, <3>2 DEF Kept, UnrecordedUntouched, Empty
    <2> QED BY <1>4, <2>1, <2>2
  <1>6. dns' = owner'
    BY <1>1, <1>5 DEF TypeOK
  <1>7. RecordsAreOriginals' /\ active' = Adapters
    BY <1>1, <1>2 DEF Kept, RecordsAreOriginals, Empty
  <1>8. UnrecordedUntouched' /\ FileCovers' /\ RecoveryRestores'
    BY <1>6 DEF UnrecordedUntouched, FileCovers, RecoveryRestores
  <1>9. WritesRecorded' /\ PutbackEmptiesMap'
    BY <1>1, <1>2, <1>3
    DEF WritesRecorded, PutbackEmptiesMap, InCritical, Critical
  <1>10. FlagTells'
    BY <1>2, <1>3, <1>6 DEF FlagTells, InCritical, Critical
  <1> QED
    BY <1>7, <1>8, <1>9, <1>10 DEF Kept

\* The process dies only when the file covers the adapters.
LEMMA KeptEnd ==
  ASSUME TypeOK, Shape, Kept, Lossless, ProcessEnds
  PROVE  Kept'
  <1> USE DEF machine, disk, At
  <1>1. ~SomeDirty
    BY LosslessMeans DEF ProcessEnds, NoSetInFlight, SomeDirty, Dirty
  <1>2. /\ UNCHANGED <<machine, disk>> /\ phase' = "off" /\ orig' = Empty
        /\ \A t \in Threads : th'[t].pc = "idle" /\ th'[t].took = Empty
    BY DEF ProcessEnds, Resting
  <1> QED
    BY <1>1, <1>2
    DEF Kept, RecordsAreOriginals, UnrecordedUntouched, WritesRecorded,
        PutbackEmptiesMap, RecoveryRestores, FileCovers, FlagTells, Empty

LEMMA KeptExternal ==
  ASSUME TypeOK, Shape, Kept, NEW b \in Adapters, External(b)
  PROVE  Kept'
  <1> USE DEF machine, disk, life, flags, At
  <1>1. /\ UNCHANGED <<owner, active, disk, phase, orig, overridden, th>>
        /\ \A a \in Adapters : dns'[a] \in {dns[a], owner[a]}
        /\ dns # owner
    BY DEF External, TypeOK
  <1>2. dns' = [dns EXCEPT ![b] = owner[b]]
    BY DEF External
  <1>3. dns' \in [Adapters -> Settings]
    BY <1>2 DEF TypeOK, Settings
  <1> QED
    BY <1>1, <1>3
    DEF Kept, RecordsAreOriginals, UnrecordedUntouched, WritesRecorded,
        PutbackEmptiesMap, RecoveryRestores, FileCovers, FlagTells, SomeDirty,
        Dirty, ComingBack

LEMMA KeptStep ==
  ASSUME TypeOK, Shape, Kept, Lossless, [Next]_vars
  PROVE  Kept'
  <1>1. ASSUME NEW a \in Adapters, Flap(a) PROVE FALSE
    BY <1>1, LosslessMeans DEF Flap
  <1> QED
    BY <1>1, StepKinds, KeptStill, KeptQuiet, KeptStart, KeptRecover, KeptDetect,
       KeptSetBegin, KeptBackUpAdapter, KeptBackUpDone, KeptSetAdapter, KeptSetCommit, KeptSetFailed, KeptPersist,
       KeptRestoreBegin, KeptRestoreNothing, KeptRestoreAdapter, KeptRestoreEnd,
       KeptEnd, KeptExternal

-----------------------------------------------------------------------------
(***************************************************************************)
(* The theorems                                                            *)
(***************************************************************************)

LEMMA IndInvHolds == Spec => []IndInv
  <1>1. Init => IndInv
    BY InitType, InitShape, InitBackup, InitKept DEF IndInv
  <1>2. IndInv /\ [Next]_vars => IndInv'
    <2> SUFFICES ASSUME IndInv, [Next]_vars PROVE IndInv'
      OBVIOUS
    <2>1. TypeOK'
      BY NextType DEF IndInv, Shape
    <2>2. Shape'
      BY ShapeStep DEF IndInv
    <2>3. OwnOrOriginal' /\ BackupIsOwners'
      BY BackupStep DEF IndInv
    <2>4. Lossless => Kept'
      BY KeptStep DEF IndInv
    <2> QED
      BY <2>1, <2>2, <2>3, <2>4 DEF IndInv, Lossless
  <1> QED BY <1>1, <1>2, PTL DEF Spec

\* Every variable of the DNS override, the threads and their locals included,
\* keeps its type in every environment.
THEOREM TypeCorrect == Spec => []TypeOK
  <1>1. IndInv => TypeOK
    BY DEF IndInv
  <1> QED BY <1>1, IndInvHolds, PTL

\* Whatever fails, dies or interferes, no saved DNS setting (the map in memory,
\* the backup file, the map a restore has in its hands) is an address of the
\* program itself.
THEOREM BackupsAreOwners == Spec => []BackupIsOwners
  <1>1. IndInv => BackupIsOwners
    BY DEF IndInv
  <1> QED BY <1>1, IndInvHolds, PTL

\* At most one thread of set_system_dns, restore_system_dns and the startup
\* recovery is changing adapters, the emergency hooks aside.
THEOREM OneCleanup == Spec => []CleanupExclusive
  <1>1. IndInv => CleanupExclusive
    <2> SUFFICES ASSUME IndInv, NEW t \in Threads \ {Hook}, NEW u \in Threads \ {Hook},
                        InCritical(t), InCritical(u)
                 PROVE  t = u
      BY DEF CleanupExclusive, InCritical, Critical
    <2>1. CASE phase = "boot"
      BY <2>1 DEF IndInv, Shape, Schedule, InCritical, Critical, At
    <2>2. CASE phase # "boot"
      BY <2>2 DEF IndInv, Shape, HoldsCleanup
    <2> QED BY <2>1, <2>2
  <1> QED BY <1>1, IndInvHolds, PTL

\* An adapter that has lost the owner's setting has it on record: in memory
\* while the program runs, in the file when it does not.
THEOREM OriginalsAreHeld == Spec => []OriginalsHeld
  <1>1. IndInv => OriginalsHeld
    <2> SUFFICES ASSUME IndInv, Lossless, NEW a \in Adapters, dns[a] # owner[a]
                 PROVE  IF phase = "up"
                        THEN \/ orig[a] = owner[a]
                             \/ \E t \in Threads : th[t].took[a] = owner[a]
                        ELSE file[a] = owner[a]
      BY DEF OriginalsHeld
    <2>1. CASE phase = "up"
      <3>1. CASE orig[a] # NoEntry
        BY <2>1, <3>1 DEF IndInv, Kept, RecordsAreOriginals
      <3>2. CASE orig[a] = NoEntry
        <4>1. PICK t \in Threads : At(t, "putback") /\ a \in th[t].todo
          BY <2>1, <3>2 DEF IndInv, Kept, UnrecordedUntouched, ComingBack
        <4>2. th[t].took[a] # NoEntry
          BY <4>1 DEF IndInv, Shape, PutbackKnown
        <4> QED
          BY <2>1, <4>2 DEF IndInv, Kept, RecordsAreOriginals
      <3> QED BY <3>1, <3>2
    <2>2. CASE phase # "up"
      <3>1. FileCovers
        BY <2>2, NoneDirty DEF IndInv, Kept
      <3> QED
        BY <2>2, <3>1 DEF IndInv, Kept, RecordsAreOriginals, FileCovers
    <2> QED BY <2>1, <2>2
  <1> QED BY <1>1, IndInvHolds, PTL

\* While DNS_OVERRIDDEN is down and no set is under way, every adapter has the
\* owner's setting.
THEOREM ReleasedMeansRestored == Spec => []ReleasedIsRestored
  <1>1. IndInv => ReleasedIsRestored
    BY DEF IndInv, Kept, FlagTells, ReleasedIsRestored, NoSetInFlight,
           SomeDirty, Dirty
  <1> QED BY <1>1, IndInvHolds, PTL

-----------------------------------------------------------------------------
(***************************************************************************)
(* The locks                                                               *)
(***************************************************************************)

LEMMA InitLocks == Init => CleanupFits /\ ApplyFits
  <1> SUFFICES ASSUME Init PROVE CleanupFits /\ ApplyFits
    OBVIOUS
  <1>1. cleanup = Free /\ applying = Free
    BY DEF Init
  <1>2. \A t \in Users : t # Free /\ th[t].job = "none"
    BY DistinctThreads, SpecialThreads DEF Init, Resting
  <1> QED BY <1>1, <1>2 DEF CleanupFits, ApplyFits, Applies, Doing

\* Before the program is up nobody holds CLEANUP_LOCK.
LEMMA CleanupStep ==
  ASSUME TypeOK, Shape, CleanupFits, [Next]_vars
  PROVE  CleanupFits'
  <1> USE SpecialThreads, DistinctThreads
      DEF CleanupFits, InCritical, Critical, At, machine, disk, life, flags, locks
  <1>1. CASE Still
    BY <1>1 DEF Still
  <1>2. ASSUME NEW t \in Threads, Quiet(t) PROVE CleanupFits'
    BY <1>2 DEF Quiet
  <1>3. CASE Start \/ RecoverStale \/ DetectConflict
    <2>1. phase # "up"
      BY <1>3 DEF Start, RecoverStale, DetectConflict, Shape, Schedule, ServerLabels
    <2> QED BY <1>3, <2>1 DEF Start, RecoverStale, DetectConflict
  <1>4. ASSUME NEW t \in Threads, SetBegin(t) PROVE CleanupFits'
    <2>1. phase = "up"
      BY <1>4, CriticalIsUp DEF SetBegin
    <2>2. t # Hook
      BY <1>4 DEF SetBegin, Shape, Schedule, HookLabels
    <2> QED BY <1>4, <2>1, <2>2 DEF SetBegin, TypeOK
  <1>5. ASSUME NEW t \in Threads, SetCommit(t) PROVE CleanupFits'
    BY <1>5 DEF SetCommit, Goto, TypeOK
  <1>15. ASSUME NEW t \in Threads, BackUpDone(t) PROVE CleanupFits'
    BY <1>15 DEF BackUpDone, Goto, TypeOK
  <1>14. ASSUME NEW t \in Threads, NEW a \in Adapters, BackUpAdapter(t, a) PROVE CleanupFits'
    BY <1>14 DEF BackUpAdapter
  <1>6. ASSUME NEW t \in Threads, SetFailed(t) \/ Persist(t) PROVE CleanupFits'
    BY <1>6 DEF SetFailed, Persist
  <1>7. ASSUME NEW t \in Threads, NEW a \in Adapters, SetAdapter(t, a) PROVE CleanupFits'
    <2>1. th'[t].pc = "writing" /\ \A u \in Threads \ {t} : th'[u] = th[u]
      BY <1>7 DEF SetAdapter, TypeOK, ThreadStates
    <2>2. UNCHANGED <<phase, cleanup>>
      BY <1>7 DEF SetAdapter
    <2> QED BY <2>1, <2>2
  <1>8. ASSUME NEW t \in Threads, RestoreBegin(t) PROVE CleanupFits'
    <2>1. phase = "up"
      BY <1>8, CriticalIsUp DEF RestoreBegin
    <2> QED BY <1>8, <2>1 DEF RestoreBegin, MayRestore, TypeOK
  <1>9. ASSUME NEW t \in Threads, RestoreNothing(t) PROVE CleanupFits'
    BY <1>9 DEF RestoreNothing, Goto, TypeOK
  <1>10. ASSUME NEW t \in Threads, NEW a \in Adapters, RestoreAdapter(t, a) PROVE CleanupFits'
    <2>1. th'[t].pc = "putback" /\ \A u \in Threads \ {t} : th'[u] = th[u]
      BY <1>10 DEF RestoreAdapter, TypeOK
    <2>2. UNCHANGED <<phase, cleanup>>
      BY <1>10 DEF RestoreAdapter
    <2> QED BY <2>1, <2>2
  <1>11. ASSUME NEW t \in Threads, RestoreEnd(t) PROVE CleanupFits'
    <2>1. \A u \in Threads \ {t} : th'[u] = th[u]
      BY <1>11 DEF RestoreEnd, TypeOK
    <2>2. phase' = phase /\ cleanup' = IF cleanup = t THEN Free ELSE cleanup
      BY <1>11 DEF RestoreEnd, Release
    <2> QED BY <2>1, <2>2
  <1>12. CASE ProcessEnds
    BY <1>12 DEF ProcessEnds
  <1>13. ASSUME NEW a \in Adapters, Flap(a) \/ External(a) PROVE CleanupFits'
    BY <1>13 DEF Flap, External
  <1> QED
    BY StepKinds, <1>1, <1>2, <1>3, <1>4, <1>5, <1>6, <1>7, <1>8, <1>9, <1>10,
       <1>11, <1>12, <1>13, <1>14, <1>15

\* A step of a set or of a restore moves its thread within the labels of one.
LEMMA WorkKeepsApplies ==
  ASSUME TypeOK, NEW t \in Threads, SetStep(t) \/ RestoreStep(t)
  PROVE  /\ applying' = applying
         /\ \A u \in Threads : Applies(u)' <=> Applies(u)
  <1> USE DEF At, TypeOK, ThreadStates, Goto, locks
  <1>1. CASE SetStep(t)
    <2>1. applying' = applying
      BY <1>1
      DEF SetStep, SetRefused, SetBegin, BackUpAdapter, BackUpDone, SetAdapter, SetCommit,
          SetFailed, Persist
    <2>2. /\ \A u \in Threads \ {t} : th'[u] = th[u]
          /\ th'[t].job = th[t].job
          /\ th[t].pc \in SetLabels /\ th'[t].pc \in SetLabels
      <3> USE DEF SetLabels
      <3>1. CASE SetRefused(t)
        BY <3>1 DEF SetRefused
      <3>2. CASE SetBegin(t) \/ BackUpDone(t)
        BY <3>2 DEF SetBegin, BackUpDone
      <3>7. ASSUME NEW a \in Adapters, BackUpAdapter(t, a)
            PROVE  /\ \A u \in Threads \ {t} : th'[u] = th[u]
                   /\ th'[t].job = th[t].job
                   /\ th[t].pc \in SetLabels /\ th'[t].pc \in SetLabels
        BY <3>7 DEF BackUpAdapter
      <3>3. ASSUME NEW a \in Adapters, SetAdapter(t, a)
            PROVE  /\ \A u \in Threads \ {t} : th'[u] = th[u]
                   /\ th'[t].job = th[t].job
                   /\ th[t].pc \in SetLabels /\ th'[t].pc \in SetLabels
        BY <3>3 DEF SetAdapter
      <3>4. CASE SetCommit(t)
        BY <3>4 DEF SetCommit
      <3>5. CASE SetFailed(t)
        BY <3>5 DEF SetFailed
      <3>6. CASE Persist(t)
        BY <3>6 DEF Persist
      <3> QED BY <1>1, <3>1, <3>2, <3>3, <3>4, <3>5, <3>6, <3>7 DEF SetStep
    <2> QED BY <2>1, <2>2 DEF Applies, Doing, SetLabels, RestoreLabels
  <1>2. CASE RestoreStep(t)
    <2>1. applying' = applying
      BY <1>2 DEF RestoreStep, RestoreBegin, RestoreNothing, RestoreAdapter, RestoreEnd
    <2>2. /\ \A u \in Threads \ {t} : th'[u] = th[u]
          /\ th'[t].job = th[t].job
          /\ th[t].pc \in RestoreLabels /\ th'[t].pc \in RestoreLabels
      <3> USE DEF RestoreLabels
      <3>1. CASE RestoreBegin(t)
        BY <3>1 DEF RestoreBegin
      <3>2. CASE RestoreNothing(t)
        BY <3>2 DEF RestoreNothing
      <3>3. ASSUME NEW a \in Adapters, RestoreAdapter(t, a)
            PROVE  /\ \A u \in Threads \ {t} : th'[u] = th[u]
                   /\ th'[t].job = th[t].job
                   /\ th[t].pc \in RestoreLabels /\ th'[t].pc \in RestoreLabels
        BY <3>3 DEF RestoreAdapter
      <3>4. CASE RestoreEnd(t)
        BY <3>4 DEF RestoreEnd
      <3> QED BY <1>2, <3>1, <3>2, <3>3, <3>4 DEF RestoreStep
    <2> QED BY <2>1, <2>2 DEF Applies, Doing, SetLabels, RestoreLabels
  <1> QED BY <1>1, <1>2

\* The startup, the watchdog and the hooks do not touch the lock, nor a thread
\* that carries out requests.
LEMMA OwnThreadsApart ==
  ASSUME TypeOK, Start \/ BootStep \/ DogStep \/ HookFires \/ HookDone
  PROVE  applying' = applying /\ \A t \in Users : th'[t] = th[t]
  <1> USE SpecialThreads, DistinctThreads
      DEF TypeOK, Goto, Begin, Finish, locks
  <1>1. CASE Start
    BY <1>1 DEF Start
  <1>2. CASE BootStep
    <2>1. applying' = applying
      BY <1>2 DEF BootStep, RecoverStale, Recovered, DetectConflict, BindOk, BindFailed,
                  BootSetDone
    <2>2. \E r : th' = [th EXCEPT ![Boot] = r]
      <3>1. CASE RecoverStale
        BY <3>1 DEF RecoverStale
      <3>2. CASE Recovered \/ DetectConflict
        BY <3>2 DEF Recovered, DetectConflict
      <3>3. CASE BindOk
        BY <3>3 DEF BindOk
      <3>4. CASE BindFailed \/ BootSetDone
        BY <3>4 DEF BindFailed, BootSetDone
      <3> QED BY <1>2, <3>1, <3>2, <3>3, <3>4 DEF BootStep
    <2> QED BY <2>1, <2>2
  <1>3. CASE DogStep
    <2>1. applying' = applying
      BY <1>3 DEF DogStep, DogQuiet, DogAlarm, DogProbe, DogFixed, DogFailed, DogYielded
    <2>2. th' = th \/ \E r : th' = [th EXCEPT ![Dog] = r]
      <3>1. CASE DogQuiet \/ DogAlarm \/ DogFixed \/ DogYielded
        BY <3>1 DEF DogQuiet, DogAlarm, DogFixed, DogYielded
      <3>2. CASE DogProbe
        BY <3>2 DEF DogProbe
      <3>3. CASE DogFailed
        BY <3>3 DEF DogFailed
      <3> QED BY <1>3, <3>1, <3>2, <3>3 DEF DogStep
    <2> QED BY <2>1, <2>2
  <1>4. CASE HookFires \/ HookDone
    BY <1>4 DEF HookFires, HookDone
  <1> QED BY <1>1, <1>2, <1>3, <1>4

\* What a thread that enters or leaves the serialised part does to the lock.
LEMMA AppliesMoves ==
  ASSUME TypeOK, ApplyFits, NEW t \in Users,
         \A u \in Threads \ {t} : th'[u] = th[u],
         \/ applying' = applying /\ (Applies(t)' <=> Applies(t))
         \/ applying = Free /\ applying' = t /\ Applies(t)'
         \/ applying = t /\ applying' = Free /\ ~Applies(t)'
  PROVE  ApplyFits'
  <1> SUFFICES ASSUME NEW u \in Users PROVE Applies(u)' <=> applying' = u
    BY DEF ApplyFits
  <1>1. (Applies(u) <=> applying = u) /\ (Applies(t) <=> applying = t)
    BY DEF ApplyFits
  <1>2. u # Free /\ t # Free /\ u \in Threads
    BY DistinctThreads, SpecialThreads
  <1>3. CASE u = t
    BY <1>1, <1>2, <1>3
  <1>4. CASE u # t
    <2>1. Applies(u)' <=> Applies(u)
      BY <1>2, <1>4 DEF Applies, Doing
    <2> QED BY <1>1, <1>2, <1>4, <2>1
  <1> QED BY <1>3, <1>4

LEMMA ApplyUser ==
  ASSUME TypeOK, ApplyFits, NEW t \in Users, UserStep(t)
  PROVE  ApplyFits'
  <1> USE SpecialThreads, DistinctThreads
      DEF TypeOK, ThreadStates, At, Doing, Applies, SetLabels, RestoreLabels, Goto, Begin,
          Finish, Resting, locks
  <1>0. Applies(t) <=> applying = t
    BY DEF ApplyFits
  <1>1. CASE ApplyOn(t)
    <2>1. CASE Finish(t) /\ UNCHANGED applying
      BY <1>1, <2>1, AppliesMoves DEF ApplyOn
    <2>2. CASE Goto(t, "set") /\ applying' = t
      BY <1>1, <2>2, AppliesMoves DEF ApplyOn
    <2> QED BY <1>1, <2>1, <2>2 DEF ApplyOn
  <1>2. CASE ApplyOff(t)
    BY <1>2, AppliesMoves DEF ApplyOff
  <1>3. CASE ApplyDone(t)
    <2>1. Applies(t)
      BY <1>3 DEF ApplyDone
    <2> QED BY <1>0, <1>3, <2>1, AppliesMoves DEF ApplyDone
  <1>4. CASE LockDone(t)
    BY <1>4, AppliesMoves DEF LockDone, LockReturns
  <1>5. CASE EmergencyUnlock(t)
    BY <1>5, AppliesMoves DEF EmergencyUnlock
  <1>6. CASE EmergencyUnlocked(t)
    BY <1>6, AppliesMoves DEF EmergencyUnlocked, LockReturns
  <1>7. CASE EmergencyDone(t)
    BY <1>7, AppliesMoves DEF EmergencyDone
  <1>8. CASE QuitAgain(t)
    <2>1. Applies(t)
      BY <1>8 DEF QuitAgain
    <2> QED BY <1>0, <1>8, <2>1, AppliesMoves DEF QuitAgain
  <1>9. CASE Exit(t)
    BY <1>9 DEF Exit, ProcessEnds, ApplyFits
  <1> QED BY <1>1, <1>2, <1>3, <1>4, <1>5, <1>6, <1>7, <1>8, <1>9 DEF UserStep

LEMMA ApplyRequest ==
  ASSUME TypeOK, ApplyFits, NEW t \in Users, Request(t)
  PROVE  ApplyFits'
  <1>1. /\ applying' = applying /\ At(t, "idle")
        /\ \A u \in Threads \ {t} : th'[u] = th[u]
        /\ \/ th'[t].pc = "apply"
           \/ th'[t].job \in {"lock", "unlock"}
           \/ th'[t].job = "emergency"
    <2> USE SpecialThreads DEF TypeOK, ThreadStates, Idle, Begin, locks
    <2>1. CASE \E on, inverted \in BOOLEAN : RequestProtection(t, on, inverted)
      BY <2>1 DEF RequestProtection
    <2>2. CASE \E on \in BOOLEAN : RequestLock(t, on)
      BY <2>2 DEF RequestLock
    <2>3. CASE RequestEmergency(t)
      BY <2>3 DEF RequestEmergency
    <2>4. CASE RequestQuit(t)
      BY <2>4 DEF RequestQuit
    <2> QED BY <2>1, <2>2, <2>3, <2>4 DEF Request
  <1>2. ~Applies(t) /\ ~Applies(t)'
    BY <1>1 DEF Applies, Doing, At, SetLabels, RestoreLabels
  <1> QED BY <1>1, <1>2, AppliesMoves

LEMMA ApplyStep ==
  ASSUME TypeOK, ApplyFits, [Next]_vars
  PROVE  ApplyFits'
  <1>1. CASE Start \/ BootStep \/ DogStep \/ HookFires \/ HookDone
    BY <1>1, OwnThreadsApart DEF ApplyFits, Applies, Doing
  <1>2. ASSUME NEW t \in Threads, SetStep(t) \/ RestoreStep(t) PROVE ApplyFits'
    BY <1>2, WorkKeepsApplies, SpecialThreads DEF ApplyFits
  <1>3. ASSUME NEW t \in Users, Request(t) \/ UserStep(t) PROVE ApplyFits'
    BY <1>3, ApplyRequest, ApplyUser
  <1>4. CASE Environment
    <2>1. CASE ProcessEnds
      BY <2>1, SpecialThreads, DistinctThreads
      DEF ProcessEnds, ApplyFits, Applies, Doing, Resting
    <2>2. CASE ~ProcessEnds
      BY <1>4, <2>2
      DEF Environment, Crash, Flap, External, ResolverDies, locks, ApplyFits, Applies, Doing
    <2> QED BY <2>1, <2>2
  <1>5. CASE UNCHANGED vars
    BY <1>5 DEF vars, locks, ApplyFits, Applies, Doing
  <1> QED BY <1>1, <1>2, <1>3, <1>4, <1>5 DEF Next

\* Only an operator's thread can own the lock of apply_protection.
LEMMA WaitsEnd ==
  ASSUME TypeOK, CleanupFits, ApplyFits
  PROVE  NoCircularWait
  <1> SUFFICES ASSUME NEW t \in Threads, NEW u \in Threads, NEW v \in Threads,
                      NEW w \in Threads, Waits(t, u), Waits(u, v), Waits(v, w)
               PROVE  FALSE
    BY DEF NoCircularWait
  <1> USE DistinctThreads
  <1>1. ASSUME NEW x \in Threads, cleanup = x, NEW y \in Threads, Waits(x, y) PROVE FALSE
    BY <1>1 DEF CleanupFits, InCritical, Critical, Waits, At
  <1>2. ASSUME NEW x \in Threads, applying = x PROVE ~At(x, "apply")
    <2>1. x \in Users
      BY <1>2 DEF TypeOK
    <2>2. Applies(x)
      BY <1>2, <2>1 DEF ApplyFits
    <2> QED BY <2>2 DEF Applies, SetLabels, RestoreLabels, At
  <1>3. ASSUME NEW x \in Threads, At(x, "backup"), NEW y \in Threads, Waits(x, y) PROVE FALSE
    BY <1>3 DEF Waits, At
  <1>4. applying = u
    BY <1>1, <1>3 DEF Waits
  <1>5. cleanup = v \/ At(v, "backup")
    BY <1>2, <1>4 DEF Waits
  <1> QED BY <1>1, <1>3, <1>5

\* CLEANUP_LOCK and APPLY_PROTECTION_LOCK never outlive the work they protect:
\* on every path through set_system_dns, restore_system_dns and
\* apply_protection, failures and the end of the process included, a lock that
\* is taken is with a thread at work under it, the second lock with the only
\* thread in the serialised part.  No threads ever wait for each other in a
\* circle.
THEOREM LocksAreWorked == Spec => [](CleanupFits /\ ApplyFits /\ NoCircularWait)
  <1>1. Init => CleanupFits /\ ApplyFits
    BY InitLocks
  <1>2. IndInv /\ CleanupFits /\ ApplyFits /\ [Next]_vars => CleanupFits' /\ ApplyFits'
    BY CleanupStep, ApplyStep DEF IndInv
  <1>3. IndInv /\ CleanupFits /\ ApplyFits => NoCircularWait
    BY WaitsEnd DEF IndInv
  <1> QED BY <1>1, <1>2, <1>3, IndInvHolds, PTL DEF Spec

\* Adapters still to be written are counted.
LEMMA TodoCounted ==
  ASSUME TypeOK, NEW t \in Threads
  PROVE  /\ IsFiniteSet(th[t].todo)
         /\ Cardinality(th[t].todo) \in 0 .. Cardinality(Adapters)
         /\ \A a \in th[t].todo : Cardinality(th[t].todo \ {a}) = Cardinality(th[t].todo) - 1
  <1>1. th[t].todo \subseteq Adapters
    BY DEF TypeOK, ThreadStates
  <1>2. IsFiniteSet(th[t].todo) /\ Cardinality(th[t].todo) <= Cardinality(Adapters)
    BY <1>1, AdaptersAssumption, FS_Subset
  <1>3. Cardinality(th[t].todo) \in Nat /\ Cardinality(Adapters) \in Nat
    BY <1>2, AdaptersAssumption, FS_CardinalityType
  <1>4. \A a \in th[t].todo : Cardinality(th[t].todo \ {a}) = Cardinality(th[t].todo) - 1
    BY <1>2, FS_RemoveElement
  <1> QED BY <1>2, <1>3, <1>4

\* Adapters a set has still to list are among those it has still to write.
LEMMA UnlistedCounted ==
  ASSUME TypeOK, NEW t \in Threads
  PROVE  /\ IsFiniteSet(Unlisted(t))
         /\ Cardinality(Unlisted(t)) \in 0 .. Cardinality(Adapters)
         /\ \A a \in Unlisted(t) :
               Cardinality(Unlisted(t) \ {a}) = Cardinality(Unlisted(t)) - 1
  <1>1. Unlisted(t) \subseteq Adapters
    BY DEF Unlisted, TypeOK, ThreadStates
  <1>2. IsFiniteSet(Unlisted(t)) /\ Cardinality(Unlisted(t)) <= Cardinality(Adapters)
    BY <1>1, AdaptersAssumption, FS_Subset
  <1>3. Cardinality(Unlisted(t)) \in Nat /\ Cardinality(Adapters) \in Nat
    BY <1>2, AdaptersAssumption, FS_CardinalityType
  <1>4. \A a \in Unlisted(t) :
           Cardinality(Unlisted(t) \ {a}) = Cardinality(Unlisted(t)) - 1
    BY <1>2, FS_RemoveElement
  <1> QED BY <1>2, <1>3, <1>4

LEMMA HolderStep ==
  ASSUME TypeOK, Shape, CleanupFits, [Next]_vars, NEW t \in Threads
  PROVE  HolderAdvances(t)
  <1> SUFFICES ASSUME cleanup = t
               PROVE  /\ Burden(t) \in 1 .. (2 * Cardinality(Adapters) + 3)
                      /\ \/ cleanup' = Free
                         \/ cleanup' = t /\ th'[t] = th[t] /\ Burden(t)' = Burden(t)
                         \/ cleanup' = t /\ Burden(t)' < Burden(t)
    BY DEF HolderAdvances
  <1> DEFINE left == Cardinality(th[t].todo)
             unlisted == Cardinality(Unlisted(t))
  <1>1. /\ t # Free /\ t # Hook /\ phase = "up"
        /\ th[t].pc \in {"backup", "writing", "persist", "putback"}
    BY DistinctThreads DEF CleanupFits, InCritical, Critical
  <1>2. /\ left \in 0 .. Cardinality(Adapters) /\ Cardinality(Adapters) \in Nat
        /\ \A a \in th[t].todo : Cardinality(th[t].todo \ {a}) = left - 1
    BY TodoCounted, AdaptersAssumption, FS_CardinalityType
  <1>16. /\ unlisted \in 0 .. Cardinality(Adapters)
         /\ \A a \in Unlisted(t) : Cardinality(Unlisted(t) \ {a}) = unlisted - 1
    BY UnlistedCounted
  <1>3. Burden(t) = IF th[t].pc = "backup" THEN unlisted + left + 3
                    ELSE IF th[t].pc = "writing" THEN left + 2
                    ELSE IF th[t].pc = "putback" THEN left + 1 ELSE 1
    BY DEF Burden, At
  <1>4. Burden(t) \in 1 .. (2 * Cardinality(Adapters) + 3)
    <2> HIDE DEF left, unlisted
    <2> QED BY <1>2, <1>3, <1>16
  \* Whoever else is in a set or a restore is the hook, which does not own it.
  <1>5. ASSUME NEW u \in Threads, u # t PROVE u = Hook \/ ~InCritical(u)
    BY <1>1, <1>5 DEF Shape, HoldsCleanup
  \* Its way grows no longer as long as its set keeps the map to itself.
  <1>17. ASSUME th'[t] = th[t], orig' = orig \/ th[t].pc # "backup"
         PROVE  Burden(t)' = Burden(t)
    BY <1>17 DEF Burden, Unlisted, At
  <1> USE DEF At, machine, disk, life, flags, locks
  <1>6. CASE Still
    BY <1>4, <1>6, <1>17 DEF Still
  <1>7. ASSUME NEW u \in Threads, Quiet(u)
        PROVE  cleanup' = t /\ th'[t] = th[t] /\ Burden(t)' = Burden(t)
    <2>1. cleanup' = t /\ th'[t] = th[t] /\ orig' = orig
      BY <1>1, <1>7 DEF Quiet, Critical
    <2> QED BY <2>1, <1>17
  <1>8. ~Start /\ ~RecoverStale /\ ~DetectConflict
    BY <1>1, SpecialThreads
    DEF Start, RecoverStale, DetectConflict, Shape, Schedule, ServerLabels
  <1>9. ASSUME NEW u \in Threads,
               SetBegin(u) \/ BackUpDone(u) \/ SetCommit(u) \/ SetFailed(u) \/ Persist(u)
        PROVE  \/ cleanup' = Free
               \/ cleanup' = t /\ Burden(t)' < Burden(t)
    <2>1. ~SetBegin(u)
      BY <1>1 DEF SetBegin
    <2>2. u # Hook /\ InCritical(u)
      BY <1>9, <2>1
      DEF BackUpDone, SetCommit, SetFailed, Persist, Shape, Schedule, HookLabels,
          InCritical, Critical
    <2>3. u = t
      BY <1>5, <2>2
    <2>4. CASE SetCommit(t)
      <3>1. th[t].pc = "writing" /\ th'[t].pc = "persist" /\ cleanup' = t
        BY <2>4 DEF SetCommit, Goto, TypeOK
      <3>2. Burden(t)' = 1
        BY <3>1 DEF Burden
      <3> QED BY <1>2, <1>3, <3>1, <3>2
    <2>5. CASE SetFailed(t) \/ Persist(t)
      BY <2>5 DEF SetFailed, Persist
    <2>6. CASE BackUpDone(t)
      <3>1. /\ th[t].pc = "backup" /\ th'[t].pc = "writing" /\ cleanup' = t
            /\ th'[t].todo = th[t].todo
        BY <2>6 DEF BackUpDone, Goto, TypeOK, ThreadStates
      <3>2. Burden(t)' = left + 2
        BY <3>1 DEF Burden
      <3> HIDE DEF left, unlisted
      <3> QED BY <1>2, <1>3, <1>16, <3>1, <3>2
    <2> QED BY <1>9, <2>1, <2>3, <2>4, <2>5, <2>6
  <1>18. ASSUME NEW u \in Threads, NEW a \in Adapters, BackUpAdapter(u, a)
         PROVE  cleanup' = t /\ Burden(t)' < Burden(t)
    <2>1. u # Hook /\ InCritical(u)
      BY <1>18 DEF BackUpAdapter, Shape, Schedule, HookLabels, InCritical, Critical
    <2>2. u = t
      BY <1>5, <2>1
    <2>3. /\ th[t].pc = "backup" /\ a \in Unlisted(t) /\ cleanup' = t /\ th' = th
      BY <1>18, <2>2 DEF BackUpAdapter
    <2>4. Unlisted(t)' = Unlisted(t) \ {a}
      <3>1. PICK state \in ReadDns(dns[a]) : orig' = [orig EXCEPT ![a] = state]
        BY <1>18 DEF BackUpAdapter
      <3>2. state # NoEntry
        BY ServersAssumption
        DEF ReadDns, TypeOK, Settings, OwnerSettings, OwnAddresses, Dhcp, Resolver,
            Blackhole, AnyAddr, NoEntry
      <3> QED BY <2>3, <3>1, <3>2 DEF Unlisted, TypeOK, ThreadStates, Maps
    <2>5. Burden(t)' = unlisted - 1 + left + 3
      BY <1>16, <2>3, <2>4 DEF Burden
    <2> HIDE DEF left, unlisted
    <2> QED BY <1>2, <1>3, <1>16, <2>3, <2>5
  <1>10. ASSUME NEW u \in Threads, NEW a \in Adapters, SetAdapter(u, a)
         PROVE  cleanup' = t /\ Burden(t)' < Burden(t)
    <2>1. u # Hook /\ InCritical(u)
      BY <1>10 DEF SetAdapter, Shape, Schedule, HookLabels, InCritical, Critical
    <2>2. u = t
      BY <1>5, <2>1
    <2>3. /\ th[t].pc = "writing" /\ a \in th[t].todo /\ cleanup' = t
          /\ th'[t].pc = "writing" /\ th'[t].todo = th[t].todo \ {a}
      BY <1>10, <2>2 DEF SetAdapter, TypeOK, ThreadStates
    <2>4. Burden(t)' = left - 1 + 2
      BY <1>2, <2>3 DEF Burden
    <2> QED BY <1>2, <1>3, <2>3, <2>4
  <1>11. ASSUME NEW u \in Threads, RestoreBegin(u) \/ RestoreNothing(u)
         PROVE  cleanup' = t /\ th'[t] = th[t] /\ Burden(t)' = Burden(t)
    <2>1. u # t /\ cleanup' = t
      <3>1. th[u].pc = "restore" /\ MayRestore(u)
        BY <1>11 DEF RestoreBegin, RestoreNothing
      <3> QED BY <1>1, <1>11, <3>1 DEF RestoreBegin, RestoreNothing, MayRestore
    <2>2. th'[t] = th[t]
      BY <1>11, <2>1 DEF RestoreBegin, RestoreNothing, Goto, TypeOK
    <2>3. th[t].pc # "backup"
      BY <1>11 DEF RestoreBegin, RestoreNothing, MayRestore, MapFree
    <2> QED BY <2>1, <2>2, <2>3, <1>17
  <1>12. ASSUME NEW u \in Threads, NEW a \in Adapters, RestoreAdapter(u, a)
         PROVE  /\ cleanup' = t
                /\ (th'[t] = th[t] /\ Burden(t)' = Burden(t)) \/ Burden(t)' < Burden(t)
    <2>1. CASE u # t
      <3>1. cleanup' = t /\ th'[t] = th[t] /\ orig' = orig
        BY <1>12, <2>1 DEF RestoreAdapter, TypeOK
      <3> QED BY <3>1, <1>17
    <2>2. CASE u = t
      <3>1. /\ th[t].pc = "putback" /\ a \in th[t].todo /\ cleanup' = t
            /\ th'[t].pc = "putback" /\ th'[t].todo = th[t].todo \ {a}
        BY <1>12, <2>2 DEF RestoreAdapter, TypeOK, ThreadStates
      <3>2. Burden(t)' = left - 1 + 1
        BY <1>2, <3>1 DEF Burden
      <3> QED BY <1>2, <1>3, <3>1, <3>2
    <2> QED BY <2>1, <2>2
  <1>13. ASSUME NEW u \in Threads, RestoreEnd(u)
         PROVE  cleanup' = Free \/ (cleanup' = t /\ th'[t] = th[t] /\ Burden(t)' = Burden(t))
    BY <1>13, <1>17 DEF RestoreEnd, Release, TypeOK
  <1>14. CASE ProcessEnds
    BY <1>4, <1>14 DEF ProcessEnds
  <1>15. ASSUME NEW a \in Adapters, Flap(a) \/ External(a)
         PROVE  cleanup' = t /\ th'[t] = th[t] /\ Burden(t)' = Burden(t)
    BY <1>15, <1>17 DEF Flap, External
  <1> QED
    BY StepKinds, <1>4, <1>6, <1>7, <1>8, <1>9, <1>10, <1>11, <1>12, <1>13, <1>14, <1>15,
       <1>18

\* The safety part of CleanupReleased: the holder of CLEANUP_LOCK is at most
\* twice the number of adapters (listed, then written) and three more steps away
\* from giving it back, and
\* nothing that the other threads, the hooks or the environment do (adapters
\* that connect while it works, commands that fail) makes the way longer.
THEOREM HoldersFinish == Spec => [][\A t \in Threads : HolderAdvances(t)]_vars
  <1>1. TypeOK /\ Shape /\ CleanupFits /\ [Next]_vars
        => [\A t \in Threads : HolderAdvances(t)]_vars
    BY HolderStep
  <1>2. IndInv => TypeOK /\ Shape
    BY DEF IndInv
  <1> QED BY <1>1, <1>2, IndInvHolds, LocksAreWorked, PTL DEF Spec

LEMMA HookStep ==
  ASSUME TypeOK, Shape, [Next]_vars
  PROVE  HookAdvances
  <1> SUFFICES ASSUME ~At(Hook, "idle")
               PROVE  /\ HookLeft \in 1 .. (Cardinality(Adapters) + 3)
                      /\ th'[Hook] = th[Hook] \/ HookLeft' < HookLeft
    BY DEF HookAdvances
  <1> USE SpecialThreads DEF At, machine, disk, life, flags, locks
  <1> DEFINE all  == Cardinality(Adapters)
             left == Cardinality(th[Hook].todo)
  <1>1. th[Hook].pc \in {"restore", "putback", "restored"}
    BY DEF Shape, Schedule, HookLabels
  <1>2. /\ left \in 0 .. all /\ all \in Nat
        /\ \A a \in th[Hook].todo : Cardinality(th[Hook].todo \ {a}) = left - 1
    BY TodoCounted, AdaptersAssumption, FS_CardinalityType
  <1>3. HookLeft = IF th[Hook].pc = "restore" THEN all + 3
                   ELSE IF th[Hook].pc = "putback" THEN left + 2 ELSE 1
    BY <1>1 DEF HookLeft
  <1>4. HookLeft \in 1 .. (all + 3)
    BY <1>2, <1>3
  <1>5. phase # "off" /\ (phase = "boot" => FALSE)
    BY <1>1, DistinctThreads DEF Shape, Schedule
  <1>6. ASSUME NEW u \in Threads \ {Hook}, Quiet(u) PROVE th'[Hook] = th[Hook]
    BY <1>6 DEF Quiet
  <1>7. CASE UNCHANGED vars \/ Environment \/ ProcessEnds
    <2>1. CASE ProcessEnds
      <3>1. HookLeft' = 0
        BY <2>1 DEF ProcessEnds, Resting, HookLeft
      <3> QED BY <1>2, <1>3, <3>1
    <2> QED BY <1>4, <1>7, <2>1 DEF vars, Environment, Crash, Flap, External, ResolverDies
  <1>8. CASE Start \/ BootStep \/ DogStep
    <2>1. ~Start /\ ~RecoverStale
      BY <1>5, DistinctThreads DEF Start, RecoverStale, Shape, Schedule, ServerLabels, TypeOK
    <2>2. ~DetectConflict
      BY <1>5 DEF DetectConflict, Shape, Schedule, ServerLabels, TypeOK
    <2>3. Quiet(Boot) \/ Quiet(Dog) \/ Still
      BY <1>8, <2>1, <2>2, QuietBoot, QuietDog
    <2>4. Boot \in Threads \ {Hook} /\ Dog \in Threads \ {Hook}
      BY DistinctThreads
    <2> QED BY <1>4, <1>6, <2>3, <2>4 DEF Still
  <1>9. CASE \E t \in Users : Request(t) \/ UserStep(t)
    <2>1. PICK t \in Users : Request(t) \/ UserStep(t)
      BY <1>9
    <2>2. t \in Threads \ {Hook} /\ (Quiet(t) \/ ProcessEnds)
      BY <2>1, QuietRequest, QuietUser, DistinctThreads
    <2> QED BY <1>4, <1>6, <1>7, <2>2
  <1>10. CASE HookFires \/ HookDone
    <2>1. HookDone
      BY <1>1, <1>10 DEF HookFires, Idle
    <2>2. HookLeft' = 0 /\ th[Hook].pc = "restored"
      BY <2>1 DEF HookDone, Finish, Resting, HookLeft, TypeOK
    <2> QED BY <1>3, <1>4, <2>2
  <1>11. ASSUME NEW t \in Threads, SetStep(t) PROVE th'[Hook] = th[Hook]
    <2>1. t # Hook
      BY <1>1, <1>11
      DEF SetStep, SetRefused, SetBegin, BackUpAdapter, BackUpDone, SetAdapter, SetCommit,
          SetFailed, Persist
    <2> QED
      BY <1>11, <2>1
      DEF SetStep, SetRefused, SetBegin, BackUpAdapter, BackUpDone, SetAdapter, SetCommit,
          SetFailed, Persist, Goto, TypeOK
  <1>12. ASSUME NEW t \in Threads, RestoreStep(t)
         PROVE  th'[Hook] = th[Hook] \/ HookLeft' < HookLeft
    <2>1. CASE t # Hook
      BY <1>12, <2>1
      DEF RestoreStep, RestoreBegin, RestoreNothing, RestoreAdapter, RestoreEnd, Goto, TypeOK
    <2>2. CASE t = Hook /\ RestoreBegin(Hook)
      <3>1. /\ th[Hook].pc = "restore" /\ th'[Hook].pc = "putback"
            /\ th'[Hook].todo = active \cap Entries(orig)
        BY <2>2 DEF RestoreBegin, TypeOK, ThreadStates
      <3>2. Cardinality(th'[Hook].todo) \in 0 .. all
        <4>1. th'[Hook].todo \subseteq Adapters
          BY <3>1 DEF TypeOK
        <4> QED BY <4>1, <1>2, AdaptersAssumption, FS_Subset, FS_CardinalityType
      <3>3. HookLeft' = Cardinality(th'[Hook].todo) + 2
        BY <3>1 DEF HookLeft
      <3> QED BY <1>2, <1>3, <3>1, <3>2, <3>3
    <2>3. CASE t = Hook /\ (RestoreNothing(Hook) \/ RestoreEnd(Hook))
      <3>1. th[Hook].pc \in {"restore", "putback"} /\ th'[Hook].pc = "restored"
        BY <2>3 DEF RestoreNothing, RestoreEnd, Goto, TypeOK, ThreadStates
      <3>2. HookLeft' = 1
        BY <3>1 DEF HookLeft
      <3> QED BY <1>2, <1>3, <3>1, <3>2
    <2>4. ASSUME t = Hook, NEW a \in Adapters, RestoreAdapter(Hook, a)
          PROVE  HookLeft' < HookLeft
      <3>1. /\ th[Hook].pc = "putback" /\ a \in th[Hook].todo
            /\ th'[Hook].pc = "putback" /\ th'[Hook].todo = th[Hook].todo \ {a}
        BY <2>4 DEF RestoreAdapter, TypeOK, ThreadStates
      <3>2. HookLeft' = left - 1 + 2
        BY <1>2, <3>1 DEF HookLeft
      <3> QED BY <1>2, <1>3, <3>1, <3>2
    <2> QED BY <1>12, <2>1, <2>2, <2>3, <2>4 DEF RestoreStep
  <1> QED BY <1>4, <1>7, <1>8, <1>9, <1>10, <1>11, <1>12 DEF Next

\* HookWaitsForListing without ENABLED: the restore of the panic hook and of the
\* console handler does not stand before CLEANUP_LOCK.  It waits for nothing but
\* a set that lists the adapters, which HoldersFinish shows to be over after
\* boundedly many steps of its own, and it needs at most the number of adapters
\* and three steps itself; no other thread can send it back.
THEOREM HooksGoThrough == Spec => []HookMayGo /\ [][HookAdvances]_vars
  <1>1. IndInv => TypeOK /\ Shape
    BY DEF IndInv
  <1>2. TypeOK /\ Shape => HookMayGo
    <2> SUFFICES ASSUME TypeOK, Shape, At(Hook, "restore"), ~MayRestore(Hook)
                 PROVE  \E t \in Threads \ {Hook} : At(t, "backup") /\ cleanup = t
      BY DEF Shape, Schedule, HookLabels, HookMayGo, At
    <2>1. PICK t \in Threads : At(t, "backup")
      BY DEF MayRestore, MapFree
    <2>2. t # Hook /\ phase = "up"
      BY <2>1, CriticalIsUp DEF At
    <2> QED BY <2>1, <2>2 DEF Shape, HoldsCleanup, InCritical, Critical, At
  <1>3. TypeOK /\ Shape /\ [Next]_vars => [HookAdvances]_vars
    BY HookStep
  <1> QED BY <1>1, <1>2, <1>3, IndInvHolds, PTL DEF Spec

\* The safety part of StaleOverrideRecovered: where the environment loses
\* nothing, start_background_services goes on from the recovery to the DNS
\* server only with every adapter on the owner's setting, however the process
\* before it was killed.
THEOREM StartupGivesBack ==
  Lossless /\ Spec => [][phase = "boot" /\ phase' = "up" => dns' = owner']_vars
  <1>1. Lossless /\ IndInv /\ [Next]_vars
        => [phase = "boot" /\ phase' = "up" => dns' = owner']_vars
    <2> SUFFICES ASSUME Lossless, IndInv, [Next]_vars, phase = "boot", phase' = "up"
                 PROVE  dns' = owner'
      OBVIOUS
    <2> USE DEF machine, disk, life, flags, locks
    <2>1. TypeOK /\ Shape /\ Kept
      BY DEF IndInv
    <2>2. ~Still /\ ~ProcessEnds /\ ~Start /\ ~RecoverStale
      BY DEF Still, ProcessEnds, Start, RecoverStale
    <2>3. ASSUME NEW t \in Threads
          PROVE  /\ ~Quiet(t) /\ ~SetBegin(t) /\ ~BackUpDone(t)
                 /\ ~SetCommit(t) /\ ~SetFailed(t) /\ ~Persist(t)
                 /\ ~RestoreBegin(t) /\ ~RestoreNothing(t) /\ ~RestoreEnd(t)
                 /\ \A a \in Adapters :
                       ~BackUpAdapter(t, a) /\ ~SetAdapter(t, a) /\ ~RestoreAdapter(t, a)
      BY DEF Quiet, SetBegin, BackUpDone, BackUpAdapter, SetCommit, SetFailed, Persist, RestoreBegin, RestoreNothing,
             RestoreEnd, SetAdapter, RestoreAdapter
    <2>4. \A a \in Adapters : ~Flap(a) /\ ~External(a)
      BY DEF Flap, External
    <2>5. DetectConflict
      BY <2>1, <2>2, <2>3, <2>4, StepKinds
    <2>6. dns = owner /\ UNCHANGED <<dns, owner>>
      BY <2>1, <2>5 DEF DetectConflict, Kept, RecoveryRestores, At
    <2> QED BY <2>6
  <1>2. Lossless => Lossless'
    BY DEF Lossless
  <1> QED BY <1>1, <1>2, IndInvHolds, PTL DEF Spec

=============================================================================
