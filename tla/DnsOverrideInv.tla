--------------------------- MODULE DnsOverrideInv ---------------------------
(***************************************************************************)
(* The inductive invariant behind the safety properties of DnsOverride.    *)
(* None of the properties is preserved by every step on its own: that an   *)
(* adapter's setting is on record depends on who holds CLEANUP_LOCK, on    *)
(* which adapters a set or a restore has still to write, and on whether    *)
(* the backup file has caught up with the adapters.                        *)
(***************************************************************************)
EXTENDS DnsOverride

Critical == {"backup", "writing", "persist", "putback"}
InCritical(t) == th[t].pc \in Critical

BootLabels == {"recover", "putback", "restored", "detect"}
ServerLabels == {"idle", "bind", "set", "backup", "writing", "persist", "setOk", "setErr"}
HookLabels == {"idle", "restore", "putback", "restored"}

-----------------------------------------------------------------------------
(***************************************************************************)
(* Which thread may be where.                                              *)
(***************************************************************************)

\* A restore still has an entry for every adapter it is about to write.
PutbackKnown ==
    \A t \in Threads : At(t, "putback") =>
        \A a \in th[t].todo : th[t].took[a] # NoEntry

\* Only a restore in progress holds a map of its own.
TookOnlyInPutback ==
    \A t \in Threads : ~At(t, "putback") => th[t].took = Empty

\* Nothing runs before the start, and only the starting thread until the
\* recovery is over; that thread never restores afterwards, and the hooks
\* never set.
Schedule ==
    /\ phase = "off" => \A t \in Threads : At(t, "idle")
    /\ phase = "boot" =>
           /\ \A t \in Threads \ {Boot} : At(t, "idle")
           /\ th[Boot].pc \in BootLabels
    /\ phase = "up" => th[Boot].pc \in ServerLabels
    /\ th[Hook].pc \in HookLabels
    /\ "hook" \notin Faults => At(Hook, "idle")

\* Whoever changes adapters holds CLEANUP_LOCK, but for the hooks and for the
\* recovery at startup.
HoldsCleanup ==
    phase # "boot" =>
        \A t \in Threads \ {Hook} : InCritical(t) => cleanup = t

\* A step that neither writes an adapter nor touches a record, a flag or a lock
\* of the set and the restore: it takes one thread from one label outside the
\* critical ones to another.
Quiet(t) ==
    /\ UNCHANGED <<machine, file, phase, orig, overridden, cleanup>>
    /\ phase # "off"
    /\ \A u \in Threads \ {t} : th'[u] = th[u]
    /\ th[t].pc \notin Critical /\ th'[t].pc \notin Critical
    /\ th'[t].took = Empty
    /\ phase = "boot" =>
           t = Boot /\ At(Boot, "restored") /\ th'[Boot].pc = "detect"
    /\ t = Boot /\ phase = "up" => th'[Boot].pc \in ServerLabels
    /\ t = Hook => th'[Hook].pc \in HookLabels /\ "hook" \in Faults

Still == UNCHANGED <<machine, file, phase, orig, overridden, cleanup, th>>

Shape == PutbackKnown /\ TookOnlyInPutback /\ Schedule /\ HoldsCleanup

-----------------------------------------------------------------------------
(***************************************************************************)
(* What an adapter may point at, for BackupIsOwners.                       *)
(***************************************************************************)
OwnOrOriginal ==
    \A a \in Adapters :
        dns[a] \in OwnAddresses \union (Recordable(a) \ {NoEntry})

-----------------------------------------------------------------------------
(***************************************************************************)
(* Where the original settings are, when the environment loses none.       *)
(***************************************************************************)

\* t has changed adapters and not yet written the backup file.
Dirty(t) == At(t, "persist") \/ (At(t, "writing") /\ th[t].good)

SomeDirty == \E t \in Threads : Dirty(t)

\* a is on its way back to the owner's setting.
ComingBack(a) == \E t \in Threads : At(t, "putback") /\ a \in th[t].todo

RecordsAreOriginals ==
    \A a \in Adapters :
        /\ orig[a] \in {NoEntry, owner[a]}
        /\ file[a] \in {NoEntry, owner[a]}
        /\ \A t \in Threads : th[t].took[a] \in {NoEntry, owner[a]}

\* An adapter that no record names and no restore is about to write has not
\* been touched.
UnrecordedUntouched ==
    phase = "up" => \A a \in Adapters :
        orig[a] = NoEntry /\ ~ComingBack(a) => dns[a] = owner[a]

\* A set writes only adapters it has on record.
WritesRecorded ==
    \A t \in Threads : At(t, "writing") =>
        \A a \in th[t].todo : orig[a] # NoEntry

\* A restore has taken the whole map.
PutbackEmptiesMap ==
    phase = "up" /\ (\E t \in Threads : At(t, "putback")) => orig = Empty

\* The recovery at startup: adapters it has passed, or does not name, are the
\* owner's.
RecoveryRestores ==
    phase = "boot" =>
        /\ At(Boot, "putback") =>
               \A a \in Adapters \ th[Boot].todo : dns[a] = owner[a]
        /\ th[Boot].pc \in {"restored", "detect"} => dns = owner

\* The file names every adapter that is not the owner's, unless a set has just
\* overtaken it.
FileCovers == \A a \in Adapters : file[a] = NoEntry => dns[a] = owner[a]

\* DNS_OVERRIDDEN is up while an adapter is not the owner's, unless a set has
\* not raised it yet.
FlagTells ==
    phase = "up" =>
        /\ ~overridden /\ ~SomeDirty => dns = owner
        /\ \A t \in Threads : At(t, "persist") => overridden

Kept ==
    /\ active = Adapters
    /\ RecordsAreOriginals
    /\ UnrecordedUntouched
    /\ WritesRecorded
    /\ PutbackEmptiesMap
    /\ RecoveryRestores
    /\ FileCovers \/ SomeDirty
    /\ FlagTells

IndInv ==
    /\ TypeOK
    /\ Shape
    /\ OwnOrOriginal /\ BackupIsOwners
    /\ Lossless => Kept

-----------------------------------------------------------------------------
(***************************************************************************)
(* The two locks: what lies behind CleanupReleased once the scheduling is  *)
(* left out.                                                               *)
(***************************************************************************)

\* A lock that is taken is taken by a thread at work under it: no path through
\* a set or a restore, a failed one included, leaves CLEANUP_LOCK behind, and
\* the hooks and the startup recovery never own it.
CleanupFits ==
    cleanup # Free =>
        /\ phase = "up"
        /\ cleanup \in Threads \ {Hook}
        /\ InCritical(cleanup)

SetLabels == {"set", "backup", "writing", "persist", "setOk", "setErr"}
RestoreLabels == {"restore", "putback", "restored"}

\* t is in the part of apply_protection that is serialised.
Applies(t) ==
    \/ Doing(t, "protOn") /\ th[t].pc \in SetLabels
    \/ (Doing(t, "protOff") \/ Doing(t, "quit")) /\ th[t].pc \in RestoreLabels

\* APPLY_PROTECTION_LOCK is with the one thread that is in that part.
ApplyFits == \A t \in Users : Applies(t) <=> applying = t

\* t cannot go on before u gives a lock back.
Waits(t, u) ==
    \/ At(t, "apply") /\ applying = u
    \/ t # Hook /\ th[t].pc \in {"set", "restore"} /\ cleanup = u
    \/ At(t, "restore") /\ At(u, "backup")

\* Whoever a waiting thread waits for is at work, or waits for a thread that
\* is: nobody ever waits for themselves, or in a circle.
NoCircularWait ==
    \A t, u, v, w \in Threads : ~(Waits(t, u) /\ Waits(u, v) /\ Waits(v, w))

\* Steps that t has still to make before it gives CLEANUP_LOCK back.
Burden(t) ==
    CASE At(t, "backup")  -> Cardinality(Unlisted(t)) + Cardinality(th[t].todo) + 3
      [] At(t, "writing") -> Cardinality(th[t].todo) + 2
      [] At(t, "putback") -> Cardinality(th[t].todo) + 1
      [] OTHER            -> 1

\* While t holds CLEANUP_LOCK, whatever happens leaves t where it is, brings it
\* nearer to its end, or frees the lock.
HolderAdvances(t) ==
    cleanup = t =>
        /\ Burden(t) \in 1 .. (2 * Cardinality(Adapters) + 3)
        /\ \/ cleanup' = Free
           \/ cleanup' = t /\ th'[t] = th[t] /\ Burden(t)' = Burden(t)
           \/ cleanup' = t /\ Burden(t)' < Burden(t)

\* HookWaitsForListing without ENABLED: a hook that runs stands where no guard
\* asks for anything another thread has, or in front of a set that has
\* CLEANUP_LOCK and lists adapters.
HookMayGo ==
    ~At(Hook, "idle") =>
        \/ At(Hook, "restore") /\ MayRestore(Hook)
        \/ At(Hook, "putback") \/ At(Hook, "restored")
        \/ /\ At(Hook, "restore")
           /\ \E t \in Threads \ {Hook} : At(t, "backup") /\ cleanup = t

\* Steps a hook has still to make.
HookLeft ==
    CASE At(Hook, "restore")  -> Cardinality(Adapters) + 3
      [] At(Hook, "putback")  -> Cardinality(th[Hook].todo) + 2
      [] At(Hook, "restored") -> 1
      [] OTHER                -> 0

\* While a hook runs, whatever happens leaves it where it is or brings it nearer
\* to its end.
HookAdvances ==
    ~At(Hook, "idle") =>
        /\ HookLeft \in 1 .. (Cardinality(Adapters) + 3)
        /\ th'[Hook] = th[Hook] \/ HookLeft' < HookLeft
=============================================================================
