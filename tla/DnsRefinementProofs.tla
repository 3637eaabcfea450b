------------------------- MODULE DnsRefinementProofs -------------------------
(***************************************************************************)
(* DnsOverride implements DnsOwnership, for every value of the constants   *)
(* in which the environment loses nothing.  The argument needs no look at  *)
(* most actions: by the inductive invariant, what is held for an adapter   *)
(* is nothing or the owner's setting, and the latter wherever the adapter  *)
(* has another one; so a step that leaves the adapters alone can only      *)
(* change what is held for adapters that are the owner's.  Only the three  *)
(* steps that write adapters are left.                                     *)
(***************************************************************************)
EXTENDS DnsRefinement, DnsOverrideProofs

Borrowed ==
    /\ owner \in [Adapters -> OwnerSettings]
    /\ Held \in Maps
    /\ \A a \in Adapters :
           /\ Held[a] \in {NoEntry, owner[a]}
           /\ dns[a] # owner[a] => Held[a] = owner[a]

LEMMA HeldType ==
  ASSUME TypeOK
  PROVE  Held \in Maps
  <1>1. CASE phase = "up" /\ Restoring # {}
    <2>1. PICK t \in Threads : t = (CHOOSE u \in Restoring : TRUE)
      BY <1>1 DEF Restoring
    <2> QED BY <1>1, <2>1 DEF Held, TypeOK, ThreadStates
  <1> QED BY <1>1 DEF Held, TypeOK

\* In a process that is up, one thread at most is putting adapters back.
LEMMA OneRestoring ==
  ASSUME IndInv, Lossless, phase = "up", NEW t \in Restoring, NEW u \in Restoring
  PROVE  t = u
  BY LosslessMeans
  DEF IndInv, Shape, Schedule, HoldsCleanup, InCritical, Critical, Restoring, At

LEMMA HeldIsOwners ==
  ASSUME IndInv, Lossless
  PROVE  Borrowed
  <1> SUFFICES ASSUME NEW a \in Adapters
               PROVE  /\ Held[a] \in {NoEntry, owner[a]}
                      /\ dns[a] # owner[a] => Held[a] = owner[a]
    BY HeldType DEF Borrowed, IndInv, TypeOK
  <1> USE DEF IndInv, Kept
  <1>1. CASE phase # "up"
    <2>1. FileCovers
      BY <1>1, NoneDirty
    <2> QED BY <1>1, <2>1 DEF Held, FileCovers, RecordsAreOriginals
  <1>2. CASE phase = "up" /\ Restoring = {}
    <2>1. ~ComingBack(a)
      BY <1>2 DEF ComingBack, Restoring
    <2> QED BY <1>2, <2>1 DEF Held, UnrecordedUntouched, RecordsAreOriginals
  <1>3. CASE phase = "up" /\ Restoring # {}
    <2>1. PICK t \in Restoring : t = (CHOOSE u \in Restoring : TRUE)
      BY <1>3
    <2>2. Held[a] = th[t].took[a]
      BY <1>3, <2>1 DEF Held
    <2>3. t \in Threads /\ At(t, "putback")
      BY DEF Restoring
    <2>4. orig[a] = NoEntry
      BY <1>3, <2>3 DEF PutbackEmptiesMap, Empty
    <2>5. ASSUME dns[a] # owner[a] PROVE th[t].took[a] # NoEntry
      <3>1. PICK u \in Threads : At(u, "putback") /\ a \in th[u].todo
        BY <1>3, <2>4, <2>5 DEF UnrecordedUntouched, ComingBack
      <3>2. u = t
        BY <1>3, <3>1, OneRestoring DEF Restoring
      <3> QED BY <3>1, <3>2 DEF Shape, PutbackKnown
    <2> QED BY <2>2, <2>3, <2>5 DEF RecordsAreOriginals
  <1> QED BY <1>1, <1>2, <1>3

-----------------------------------------------------------------------------
LEMMA SetAdapterBorrows ==
  ASSUME IndInv, Lossless, NEW t \in Threads, NEW a \in Adapters, SetAdapter(t, a)
  PROVE  Ownership!OwnershipNext \/ UNCHANGED <<owner, dns, Held>>
  <1> USE DEF IndInv, Kept, machine, disk, life, flags, locks, At
  <1>1. phase = "up" /\ UNCHANGED <<owner, phase, file, orig>>
    BY CriticalIsUp DEF SetAdapter
  <1>2. orig[a] # NoEntry
    BY DEF SetAdapter, WritesRecorded
  <1>3. Restoring = {}
    BY <1>1, <1>2 DEF Restoring, PutbackEmptiesMap, Empty
  <1>4. \A u \in Threads : th'[u].pc = th[u].pc
    BY DEF SetAdapter, TypeOK, ThreadStates
  <1>5. Restoring' = {}
    BY <1>3, <1>4 DEF Restoring
  <1>6. Held = orig /\ Held' = Held
    BY <1>1, <1>3, <1>5 DEF Held
  <1>7. Target(t) \in OwnAddresses \union {AnyAddr}
    BY ListenAssumption DEF Target, OwnAddresses
  <1>8. dns' = [dns EXCEPT ![a] = Target(t)] \/ dns' = dns
    BY DEF SetAdapter
  <1> QED
    BY <1>1, <1>2, <1>6, <1>7, <1>8
    DEF Ownership!OwnershipNext, Ownership!Write, Ownership!Overwrite

LEMMA RestoreAdapterBorrows ==
  ASSUME IndInv, Lossless, NEW t \in Threads, NEW a \in Adapters, RestoreAdapter(t, a)
  PROVE  Ownership!OwnershipNext
  <1> USE DEF IndInv, Kept, machine, disk, life, flags, locks, At
  <1>1. UNCHANGED <<owner, phase, file, orig>>
    BY DEF RestoreAdapter
  <1>2. \A u \in Threads : th'[u].pc = th[u].pc /\ th'[u].took = th[u].took
    BY DEF RestoreAdapter, TypeOK, ThreadStates
  <1>3. Restoring' = Restoring /\ Restoring \subseteq Threads
    BY <1>2 DEF Restoring
  <1>4. Held' = Held
    <2>1. CASE Restoring = {}
      BY <1>1, <1>3, <2>1 DEF Held
    <2>2. CASE Restoring # {}
      <3>1. PICK u \in Threads : u = (CHOOSE w \in Restoring : TRUE)
        BY <1>3, <2>2
      <3> QED BY <1>1, <1>2, <1>3, <2>2, <3>1 DEF Held
    <2> QED BY <2>1, <2>2
  <1>5. th[t].took[a] = owner[a]
    BY DEF RestoreAdapter, Shape, PutbackKnown, RecordsAreOriginals
  <1>6. dns' = [dns EXCEPT ![a] = owner[a]]
    BY <1>5, LosslessMeans DEF RestoreAdapter
  <1> QED
    BY <1>1, <1>4, <1>6
    DEF Ownership!OwnershipNext, Ownership!Write, Ownership!Revert

LEMMA ExternalBorrows ==
  ASSUME NEW a \in Adapters, External(a)
  PROVE  Ownership!OwnershipNext
  <1>1. UNCHANGED <<owner, phase, file, orig, th>>
    BY DEF External, disk, life
  <1>2. Held' = Held
    BY <1>1 DEF Held, Restoring, At
  <1> QED
    BY <1>1, <1>2
    DEF External, Ownership!OwnershipNext, Ownership!Write, Ownership!Revert

\* Every other step leaves the adapters alone.
LEMMA OthersLeaveAdapters ==
  ASSUME IndInv, Lossless, [Next]_vars,
         \A t \in Threads, a \in Adapters : ~SetAdapter(t, a) /\ ~RestoreAdapter(t, a),
         \A a \in Adapters : ~External(a)
  PROVE  UNCHANGED <<owner, dns>>
  <1> USE DEF IndInv, machine, disk, life, flags, locks
  <1>1. ASSUME NEW a \in Adapters, Flap(a) PROVE FALSE
    BY <1>1, LosslessMeans DEF Flap
  <1> QED
    BY <1>1, StepKinds
    DEF Still, Quiet, Start, RecoverStale, DetectConflict, SetBegin, BackUpAdapter,
        BackUpDone, SetCommit,
        SetFailed, Persist, RestoreBegin, RestoreNothing, RestoreEnd, ProcessEnds

\* A step that leaves the adapters alone changes what is held only where the
\* adapter has the owner's setting.
LEMMA BackupBorrows ==
  ASSUME Borrowed, Borrowed', UNCHANGED <<owner, dns>>
  PROVE  Ownership!OwnershipNext
  <1>1. Held' \in [Adapters -> OwnerSettings \union {NoEntry}]
    BY DEF Borrowed, Maps
  <1>2. \A a \in Adapters : Held'[a] # Held[a] =>
           /\ dns[a] = owner[a]
           /\ Held'[a] = NoEntry \/ (Held[a] = NoEntry /\ Held'[a] = owner[a])
    BY DEF Borrowed
  <1> QED BY <1>1, <1>2 DEF Ownership!OwnershipNext, Ownership!Backup

LEMMA InitBorrows == Init => Ownership!OwnershipInit
  BY DEF Init, Ownership!OwnershipInit, Held, Empty

-----------------------------------------------------------------------------
\* Where the environment loses nothing, the program borrows the adapters'
\* settings: dns_manager.rs with all its callers is an implementation of
\* DnsOwnership.
THEOREM OverrideImplementsOwnership ==
  ASSUME Lossless
  PROVE  Spec => SettingsAreBorrowed
  <1>1. IndInv => Borrowed
    BY HeldIsOwners
  <1>2. IndInv /\ Borrowed /\ Borrowed' /\ [Next]_vars =>
           [Ownership!OwnershipNext]_(Ownership!ownershipVars)
    <2> SUFFICES ASSUME IndInv, Borrowed, Borrowed', [Next]_vars
                 PROVE  Ownership!OwnershipNext \/ UNCHANGED <<owner, dns, Held>>
      BY DEF Ownership!ownershipVars
    <2>1. CASE \E t \in Threads, a \in Adapters : SetAdapter(t, a)
      BY <2>1, SetAdapterBorrows
    <2>2. CASE \E t \in Threads, a \in Adapters : RestoreAdapter(t, a)
      BY <2>2, RestoreAdapterBorrows
    <2>3. CASE \E a \in Adapters : External(a)
      BY <2>3, ExternalBorrows
    <2>4. CASE /\ \A t \in Threads, a \in Adapters : ~SetAdapter(t, a) /\ ~RestoreAdapter(t, a)
               /\ \A a \in Adapters : ~External(a)
      BY <2>4, OthersLeaveAdapters, BackupBorrows
    <2> QED BY <2>1, <2>2, <2>3, <2>4
  <1> QED
    BY <1>1, <1>2, InitBorrows, IndInvHolds, PTL
    DEF Spec, SettingsAreBorrowed, Ownership!OwnershipSpec
=============================================================================
