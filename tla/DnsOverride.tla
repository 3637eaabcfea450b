----------------------------- MODULE DnsOverride -----------------------------
(***************************************************************************)
(* The "Master DNS Controller" of Shield Ghita: how the program takes over *)
(* the DNS setting of the machine's network adapters and gives it back     *)
(* (src/modules/system/dns_manager.rs), together with every caller of it:  *)
(* the start of the program (src/app/mod.rs), the protection switch, the   *)
(* master internet lock and the emergency restore of the UI and of the     *)
(* service pipe (src/app/ui_bridge/handlers.rs, poller.rs, hotkey.rs,      *)
(* src/modules/service/pipe.rs), the DNS guard watchdog, the panic and     *)
(* console hooks, and the orderly exit (src/main.rs, worker.rs).           *)
(*                                                                         *)
(* Settings are abstract: an adapter is on DHCP, on a static list of the   *)
(* owner, or on one of the program's own addresses.  Only the IPv4 setting *)
(* is kept; the IPv6 setting, which the code saves, resets and restores    *)
(* beside it, is left out.                                                 *)
(***************************************************************************)
EXTENDS Integers, FiniteSets

CONSTANTS
    Adapters,       \* physical network adapters of the machine
    StaticServers,  \* static DNS settings the owner may have chosen
    Users,          \* threads that carry out operator and service requests
    ListenAddr,     \* address the watchdog was started with
    YieldStreak,    \* failed enforcements after which the watchdog gives up
    Faults          \* what the environment may do in this instance

Dhcp      == "dhcp"
Resolver  == "127.0.0.1"
Blackhole == "127.0.0.2"
AnyAddr   == "0.0.0.0"
NoEntry   == "none"
Free      == "free"

Boot == "boot"
Dog  == "dog"
Hook == "hook"

\* What may go wrong around the program:
\*   crash       the process is killed
\*   stopInSet   the process is killed, or exits, while some thread is between
\*               the first adapter write of a set and the saved backup
\*   flap        an adapter connects or disconnects
\*   external    another program puts an adapter back on its own setting
\*   set         netsh and PowerShell both fail to set an adapter
\*   restore     the commands of a restore fail (their result is ignored)
\*   read        the listing of an adapter is not understood
\*   disk        the backup file cannot be written
\*   bind        port 53 is taken
\*   resolver    the DNS server task dies
\*   probe       the liveness probe times out although the server runs
\*   conflict    another DNS product is detected on an adapter
\*   hook        a panic or a console event runs the emergency restore
FaultKinds == {"crash", "stopInSet", "flap", "external", "set", "restore",
               "read", "disk", "bind", "resolver", "probe", "conflict", "hook"}

OwnAddresses  == {Resolver, Blackhole}
OwnerSettings == StaticServers \union {Dhcp}
Settings      == OwnerSettings \union OwnAddresses \union {AnyAddr}
Threads       == Users \union {Boot, Dog, Hook}
Jobs == {"none", "boot", "protOn", "protOff", "lock", "unlock", "emergency",
         "quit", "quit2", "watch", "hook"}
Labels == {"idle", "recover", "detect", "bind", "apply", "set", "backup", "writing",
           "persist", "setOk", "setErr", "restore", "putback", "restored",
           "finish", "probe"}

ASSUME AdaptersAssumption == Adapters # {} /\ IsFiniteSet(Adapters)
ASSUME ServersAssumption ==
    StaticServers \cap {Dhcp, Resolver, Blackhole, AnyAddr, NoEntry} = {}
ASSUME UsersAssumption == Users \cap {Boot, Dog, Hook, Free} = {}
ASSUME ListenAssumption == ListenAddr \in {Resolver, AnyAddr}
ASSUME YieldAssumption == YieldStreak \in Nat \ {0}
ASSUME FaultsAssumption == Faults \subseteq FaultKinds

VARIABLES
    owner,       \* setting each adapter had before the program touched it
    dns,         \* setting each adapter has now
    active,      \* adapters that are connected
    file,        \* dns_override_backup.json, entry by entry
    savedProt,   \* protection_enabled of config.toml
    phase,       \* "off", "boot" (services not started yet) or "up"
    serving,     \* the DNS server is bound and answers
    dogOn,       \* the watchdog was spawned
    streak,      \* fight_streak of the watchdog
    orig,        \* ORIGINAL_DNS_SETTINGS, entry by entry
    overridden,  \* DNS_OVERRIDDEN
    locked,      \* MASTER_INTERNET_LOCKED
    lanOnly,     \* LAN_ONLY_MODE
    protection,  \* protection_atomic
    cleanup,     \* holder of CLEANUP_LOCK
    applying,    \* holder of APPLY_PROTECTION_LOCK
    th           \* the threads: where they are, in which request, and locals

machine == <<owner, dns, active>>
disk    == <<file, savedProt>>
life    == <<phase, serving, dogOn, streak>>
flags   == <<overridden, locked, lanOnly, protection>>
locks   == <<cleanup, applying>>
vars    == <<machine, disk, life, orig, flags, locks, th>>

Maps == [Adapters -> Settings \union {NoEntry}]
Empty == [a \in Adapters |-> NoEntry]
Entries(map) == {a \in Adapters : map[a] # NoEntry}

\* A thread between two requests.  todo: adapters its loop has still to write;
\* took: the map its restore took out of ORIGINAL_DNS_SETTINGS; good and bad:
\* its set reached, or missed, some adapter; prev: a value it read beforehand.
Resting == [pc |-> "idle", job |-> "none", todo |-> {}, took |-> Empty,
            good |-> FALSE, bad |-> FALSE, prev |-> FALSE]

ThreadStates ==
    [pc : Labels, job : Jobs, todo : SUBSET Adapters, took : Maps,
     good : BOOLEAN, bad : BOOLEAN, prev : BOOLEAN]

\* The memory of a process that has not started, or is gone.
Init ==
    /\ owner \in [Adapters -> OwnerSettings]
    /\ dns = owner
    /\ active = Adapters
    /\ file = Empty
    /\ savedProt \in BOOLEAN
    /\ phase = "off"
    /\ serving = FALSE /\ dogOn = FALSE /\ streak = 0
    /\ orig = Empty
    /\ overridden = FALSE /\ locked = FALSE
    /\ lanOnly = FALSE /\ protection = FALSE
    /\ cleanup = Free /\ applying = Free
    /\ th = [t \in Threads |-> Resting]

Goto(t, label) == th' = [th EXCEPT ![t].pc = label]
Begin(t, j, label) == th' = [th EXCEPT ![t].job = j, ![t].pc = label]
Finish(t) == th' = [th EXCEPT ![t] = Resting]

At(t, label) == th[t].pc = label
Doing(t, j) == th[t].job = j

-----------------------------------------------------------------------------
(***************************************************************************)
(* set_system_dns: back up the adapters missing from the map, write every  *)
(* connected adapter, raise DNS_OVERRIDDEN, save the map.                  *)
(***************************************************************************)

\* (mutant) The program's own addresses are taken for the owner's choice.
ReadDnsUnfiltered(setting) ==
    {setting} \union (IF "read" \in Faults THEN {Dhcp} ELSE {})

\* get_current_adapter_dns: the program's own loopback addresses are skipped,
\* an adapter with no other static server counts as DHCP, and so does one
\* whose listing is not understood.
ReadDns(setting) ==
    {IF setting \in OwnAddresses THEN Dhcp ELSE setting}
        \union (IF "read" \in Faults THEN {Dhcp} ELSE {})

Target(t) ==
    CASE Doing(t, "lock")  -> Blackhole
      [] Doing(t, "watch") -> ListenAddr
      [] OTHER             -> Resolver

\* No connected adapter: the call fails before it changes anything.
SetRefused(t) ==
    /\ At(t, "set")
    /\ cleanup = Free
    /\ active = {}
    /\ Goto(t, "setErr")
    /\ UNCHANGED <<machine, disk, life, orig, flags, locks>>

\* The write lock of ORIGINAL_DNS_SETTINGS is taken with CLEANUP_LOCK held, and
\* kept while the adapters are listed.
SetBegin(t) ==
    /\ At(t, "set")
    /\ cleanup = Free
    /\ active # {}
    /\ cleanup' = t
    /\ th' = [th EXCEPT ![t].pc = "backup", ![t].todo = active,
                        ![t].good = FALSE, ![t].bad = FALSE]
    /\ UNCHANGED <<machine, disk, life, orig, flags, applying>>

\* (mutant) The listing stops at the first adapter it records.
UnlistedFirst(t) == IF Entries(orig) = {} THEN th[t].todo ELSE {}

\* Adapters of the set that are not in the map yet.
Unlisted(t) == {a \in th[t].todo : orig[a] = NoEntry}

\* One adapter is listed, by a command that may take its time, and recorded.
BackUpAdapter(t, a) ==
    /\ At(t, "backup")
    /\ a \in Unlisted(t)
    /\ \E state \in ReadDns(dns[a]) : orig' = [orig EXCEPT ![a] = state]
    /\ UNCHANGED <<machine, disk, life, flags, locks, th>>

BackUpDone(t) ==
    /\ At(t, "backup")
    /\ Unlisted(t) = {}
    /\ Goto(t, "writing")
    /\ UNCHANGED <<machine, disk, life, orig, flags, locks>>

SetAdapter(t, a) ==
    /\ At(t, "writing")
    /\ a \in th[t].todo
    /\ \/ /\ dns' = [dns EXCEPT ![a] = Target(t)]
          /\ th' = [th EXCEPT ![t].todo = @ \ {a}, ![t].good = TRUE]
       \/ /\ "set" \in Faults
          /\ th' = [th EXCEPT ![t].todo = @ \ {a}, ![t].bad = TRUE]
          /\ UNCHANGED dns
    /\ UNCHANGED <<owner, active, disk, life, orig, flags, locks>>

\* At least one adapter took the address: the flag goes up, the file follows.
SetCommit(t) ==
    /\ At(t, "writing")
    /\ th[t].todo = {}
    /\ th[t].good
    /\ overridden' = TRUE
    /\ Goto(t, "persist")
    /\ UNCHANGED <<machine, disk, life, orig, locked, lanOnly, protection, locks>>

SetFailed(t) ==
    /\ At(t, "writing")
    /\ th[t].todo = {}
    /\ ~th[t].good
    /\ cleanup' = Free
    /\ Goto(t, "setErr")
    /\ UNCHANGED <<machine, disk, life, orig, flags, applying>>

\* persist_override_backup writes a temporary file and renames it, so the
\* file changes in one step; an emptied map or a failed write leaves it.
Persist(t) ==
    /\ At(t, "persist")
    /\ \/ file' = IF Entries(orig) = {} THEN file ELSE orig
       \/ "disk" \in Faults /\ UNCHANGED file
    /\ cleanup' = Free
    /\ Goto(t, IF th[t].bad THEN "setErr" ELSE "setOk")
    /\ UNCHANGED <<machine, savedProt, life, orig, flags, applying>>

-----------------------------------------------------------------------------
(***************************************************************************)
(* restore_system_dns_inner: take the map, put back the connected adapters *)
(* that are in it, lower DNS_OVERRIDDEN, remove the file.                  *)
(***************************************************************************)

\* Nobody is listing adapters with ORIGINAL_DNS_SETTINGS locked for writing.
MapFree == \A t \in Threads : ~At(t, "backup")

\* (mutant) Restores do not wait for a set, or for each other.
MayRestoreUnlocked(t) == TRUE

\* (mutant) The hooks wait for CLEANUP_LOCK like everybody else.
MayRestoreLocked(t) == cleanup = Free /\ MapFree

\* The hooks pass take_lock = false; every other caller waits for CLEANUP_LOCK.
\* All of them, the hooks too, need the map, which a set keeps locked while it
\* lists the adapters.
MayRestore(t) == (t = Hook \/ cleanup = Free) /\ MapFree

RestoreBegin(t) ==
    /\ At(t, "restore")
    /\ MayRestore(t)
    /\ Entries(orig) # {}
    /\ cleanup' = IF t = Hook THEN cleanup ELSE t
    /\ th' = [th EXCEPT ![t].pc = "putback", ![t].took = orig,
                        ![t].todo = active \cap Entries(orig)]
    /\ orig' = Empty
    /\ UNCHANGED <<machine, disk, life, flags, applying>>

\* Nothing was backed up: only the flag and the file are cleared.
RestoreNothing(t) ==
    /\ At(t, "restore")
    /\ MayRestore(t)
    /\ Entries(orig) = {}
    /\ overridden' = FALSE
    /\ file' = Empty
    /\ Goto(t, "restored")
    /\ UNCHANGED <<machine, savedProt, life, orig, locked, lanOnly, protection, locks>>

RestoreAdapter(t, a) ==
    /\ At(t, "putback")
    /\ a \in th[t].todo
    /\ th' = [th EXCEPT ![t].todo = @ \ {a}]
    /\ \/ dns' = [dns EXCEPT ![a] = th[t].took[a]]
       \/ "restore" \in Faults /\ UNCHANGED dns
    /\ UNCHANGED <<owner, active, disk, life, orig, flags, locks>>

\* (mutant) The guard of the lock outlives the call.
ReleaseForgotten(t) == cleanup

\* Dropping the guard of CLEANUP_LOCK, by the thread that took it.
Release(t) == IF cleanup = t THEN Free ELSE cleanup

RestoreEnd(t) ==
    /\ At(t, "putback")
    /\ th[t].todo = {}
    /\ th' = [th EXCEPT ![t].pc = "restored", ![t].took = Empty]
    /\ overridden' = FALSE
    /\ file' = Empty
    /\ cleanup' = Release(t)
    /\ UNCHANGED <<machine, savedProt, life, orig, locked, lanOnly, protection, applying>>

-----------------------------------------------------------------------------
(***************************************************************************)
(* Start of the program: AppState::new reads the saved configuration, then *)
(* start_background_services recovers a stale override, looks for another  *)
(* DNS product, spawns the watchdog and binds the server.                  *)
(***************************************************************************)
Start ==
    /\ phase = "off"
    /\ phase' = "boot"
    /\ protection' = savedProt
    /\ Begin(Boot, "boot", "recover")
    /\ UNCHANGED <<machine, disk, serving, dogOn, streak, orig,
                   overridden, locked, lanOnly, locks>>

\* (mutant) Recovery is left to the protection that is about to be applied.
RecoverUnprotected ==
    /\ At(Boot, "recover")
    /\ IF Entries(file) = {} \/ savedProt
       THEN Goto(Boot, "detect")
       ELSE th' = [th EXCEPT ![Boot].pc = "putback", ![Boot].took = file,
                             ![Boot].todo = active \cap Entries(file)]
    /\ UNCHANGED <<machine, disk, life, orig, flags, locks>>

\* recover_stale_override_on_startup: the saved map becomes the in-memory map
\* and is taken at once by a restore without the lock; no other thread of the
\* program runs yet.
RecoverStale ==
    /\ At(Boot, "recover")
    /\ IF Entries(file) = {}
       THEN Goto(Boot, "detect")
       ELSE th' = [th EXCEPT ![Boot].pc = "putback", ![Boot].took = file,
                             ![Boot].todo = active \cap Entries(file)]
    /\ UNCHANGED <<machine, disk, life, orig, flags, locks>>

Recovered ==
    /\ At(Boot, "restored")
    /\ Goto(Boot, "detect")
    /\ UNCHANGED <<machine, disk, life, orig, flags, locks>>

\* detect_dns_controller_conflict, with dns_conflict_mode "auto".
Conflict == IF "conflict" \in Faults THEN BOOLEAN ELSE {FALSE}

\* The server task keeps what it captured here: protection_enabled of the
\* configuration and the verdict on the conflict.
DetectConflict ==
    /\ At(Boot, "detect")
    /\ phase' = "up"
    /\ lanOnly' \in Conflict
    /\ dogOn' = ~lanOnly'
    /\ th' = [th EXCEPT ![Boot].pc = "bind",
                        ![Boot].prev = savedProt /\ ~lanOnly']
    /\ UNCHANGED <<machine, disk, serving, streak, orig, overridden,
                   locked, protection, locks>>

BindOk ==
    /\ At(Boot, "bind")
    /\ serving' = TRUE
    /\ IF th[Boot].prev THEN Goto(Boot, "set") ELSE Finish(Boot)
    /\ UNCHANGED <<machine, disk, phase, dogOn, streak, orig, flags, locks>>

\* Protection disabled to prevent a network blackout.
BindFailed ==
    /\ At(Boot, "bind")
    /\ "bind" \in Faults
    /\ protection' = FALSE
    /\ savedProt' = FALSE
    /\ Finish(Boot)
    /\ UNCHANGED <<machine, file, life, orig, overridden, locked, lanOnly, locks>>

BootSetDone ==
    /\ At(Boot, "setOk") \/ At(Boot, "setErr")
    /\ Finish(Boot)
    /\ UNCHANGED <<machine, disk, life, orig, flags, locks>>

-----------------------------------------------------------------------------
(***************************************************************************)
(* apply_protection, from the UI switch, the tray, the hotkey or the pipe. *)
(***************************************************************************)
Idle(t) == phase = "up" /\ At(t, "idle")

\* The switch of the window and the pipe carry the wanted value; the tray and
\* the hotkey invert the flag before the serialising lock is taken.
RequestProtection(t, on, inverted) ==
    /\ Idle(t)
    /\ inverted => on # protection
    /\ protection' = IF inverted THEN on ELSE protection
    /\ Begin(t, IF on THEN "protOn" ELSE "protOff", "apply")
    /\ UNCHANGED <<machine, disk, life, orig, overridden, locked, lanOnly, locks>>

ApplyOn(t) ==
    /\ At(t, "apply")
    /\ Doing(t, "protOn")
    /\ applying = Free
    /\ protection' = TRUE
    /\ savedProt' = TRUE
    /\ lanOnly' \in Conflict
    /\ IF lanOnly'
       THEN Finish(t) /\ UNCHANGED applying
       ELSE Goto(t, "set") /\ applying' = t
    /\ UNCHANGED <<machine, file, life, orig, overridden, locked, cleanup>>

ApplyOff(t) ==
    /\ At(t, "apply")
    /\ Doing(t, "protOff") \/ Doing(t, "quit")
    /\ applying = Free
    /\ applying' = t
    /\ protection' = FALSE
    /\ savedProt' = FALSE
    /\ Goto(t, "restore")
    /\ UNCHANGED <<machine, file, life, orig, overridden, locked, lanOnly, cleanup>>

ApplyDone(t) ==
    /\ \/ Doing(t, "protOn") /\ (At(t, "setOk") \/ At(t, "setErr"))
       \/ Doing(t, "protOff") /\ At(t, "restored")
    /\ applying' = Free
    /\ Finish(t)
    /\ UNCHANGED <<machine, disk, life, orig, flags, cleanup>>

-----------------------------------------------------------------------------
(***************************************************************************)
(* set_master_internet_lock and the emergency restore of window and tray.  *)
(***************************************************************************)
RequestLock(t, on) ==
    /\ Idle(t)
    /\ th' = [th EXCEPT ![t].job = IF on THEN "lock" ELSE "unlock",
                        ![t].pc = "set", ![t].prev = locked]
    /\ UNCHANGED <<machine, disk, life, orig, flags, locks>>

\* The flag after the call: the wanted value, or the value read before it.
LockReturns(t) ==
    /\ At(t, "setOk") \/ At(t, "setErr")
    /\ locked' = IF At(t, "setOk") THEN Doing(t, "lock") ELSE th[t].prev
    /\ UNCHANGED <<machine, disk, life, orig, overridden, lanOnly, protection, locks>>

LockDone(t) ==
    /\ Doing(t, "lock") \/ Doing(t, "unlock")
    /\ LockReturns(t)
    /\ Finish(t)

RequestEmergency(t) ==
    /\ Idle(t)
    /\ Begin(t, "emergency", "restore")
    /\ UNCHANGED <<machine, disk, life, orig, flags, locks>>

\* ... then set_master_internet_lock(false), whatever the flag says,
EmergencyUnlock(t) ==
    /\ Doing(t, "emergency")
    /\ At(t, "restored")
    /\ th' = [th EXCEPT ![t].pc = "set", ![t].prev = locked]
    /\ UNCHANGED <<machine, disk, life, orig, flags, locks>>

EmergencyUnlocked(t) ==
    /\ Doing(t, "emergency")
    /\ LockReturns(t)
    /\ Goto(t, "finish")

\* ... and protection off, without the serialising lock.
EmergencyDone(t) ==
    /\ At(t, "finish")
    /\ lanOnly' = FALSE
    /\ protection' = FALSE
    /\ savedProt' = FALSE
    /\ Finish(t)
    /\ UNCHANGED <<machine, file, life, orig, overridden, locked, locks>>

-----------------------------------------------------------------------------
(***************************************************************************)
(* start_dns_guard_watchdog.  The pause between rounds is not modelled: a  *)
(* round may begin at any time.  What a round decides, it decides on flags *)
(* it read without a lock.                                                 *)
(***************************************************************************)
Gate == protection /\ ~locked /\ overridden

\* system_dns_matches
Matches == active # {} /\ \A a \in active : dns[a] = ListenAddr

DogQuiet ==
    /\ dogOn /\ Idle(Dog)
    /\ ~Gate \/ Matches
    /\ streak' = 0
    /\ UNCHANGED <<machine, disk, phase, serving, dogOn, orig, flags, locks, th>>

DogAlarm ==
    /\ dogOn /\ Idle(Dog)
    /\ Gate /\ ~Matches
    /\ Begin(Dog, "watch", "probe")
    /\ UNCHANGED <<machine, disk, life, orig, flags, locks>>

\* local_resolver_responsive asks the address the watchdog was given.  The
\* wildcard address is not a destination everywhere: Windows refuses it.
Alive ==
    IF ~serving THEN {FALSE}
    ELSE IF "probe" \in Faults \/ ListenAddr = AnyAddr THEN BOOLEAN ELSE {TRUE}

\* (mutant) A resolver that answers is taken for a setting that is right.
DogProbeOnly ==
    /\ At(Dog, "probe")
    /\ \E alive \in Alive : Goto(Dog, IF alive THEN "setOk" ELSE "restore")
    /\ UNCHANGED <<machine, disk, life, orig, flags, locks>>

DogProbe ==
    /\ At(Dog, "probe")
    /\ \E alive \in Alive : Goto(Dog, IF alive THEN "set" ELSE "restore")
    /\ UNCHANGED <<machine, disk, life, orig, flags, locks>>

DogFixed ==
    /\ At(Dog, "setOk")
    /\ streak' = 0
    /\ Finish(Dog)
    /\ UNCHANGED <<machine, disk, phase, serving, dogOn, orig, flags, locks>>

\* (mutant) One failure too many.
TooManyLate(failures) == failures > YieldStreak

\* should_yield counts failures ...
TooMany(failures) == failures >= YieldStreak

\* ... or lets 120 seconds pass since the first one, which may have gone by at
\* any count.
DogFailed ==
    /\ At(Dog, "setErr")
    /\ \/ /\ ~TooMany(streak + 1)
          /\ streak' = streak + 1
          /\ Finish(Dog)
       \/ /\ Goto(Dog, "restore")
          /\ UNCHANGED streak
    /\ UNCHANGED <<machine, disk, phase, serving, dogOn, orig, flags, locks>>

DogYielded ==
    /\ At(Dog, "restored")
    /\ lanOnly' = TRUE
    /\ streak' = 0
    /\ Finish(Dog)
    /\ UNCHANGED <<machine, disk, phase, serving, dogOn, orig,
                   overridden, locked, protection, locks>>

-----------------------------------------------------------------------------
(***************************************************************************)
(* The panic hook and the console handler of register_safety_cleanup.      *)
(***************************************************************************)
HookFires ==
    /\ "hook" \in Faults
    /\ Idle(Hook)
    /\ overridden
    /\ Begin(Hook, "hook", "restore")
    /\ UNCHANGED <<machine, disk, life, orig, flags, locks>>

HookDone ==
    /\ At(Hook, "restored")
    /\ Finish(Hook)
    /\ UNCHANGED <<machine, disk, life, orig, flags, locks>>

-----------------------------------------------------------------------------
(***************************************************************************)
(* The end of the process.  An orderly exit runs apply_protection(false)   *)
(* and one more restore_system_dns; the other threads keep running until   *)
(* the process is gone.                                                    *)
(***************************************************************************)
RequestQuit(t) ==
    /\ Idle(t)
    /\ \A u \in Threads : ~Doing(u, "quit") /\ ~Doing(u, "quit2")
    /\ Begin(t, "quit", "apply")
    /\ UNCHANGED <<machine, disk, life, orig, flags, locks>>

QuitAgain(t) ==
    /\ Doing(t, "quit")
    /\ At(t, "restored")
    /\ applying' = Free
    /\ Begin(t, "quit2", "restore")
    /\ UNCHANGED <<machine, disk, life, orig, flags, cleanup>>

\* No thread has written an adapter without having saved the backup yet.
NoSetInFlight == \A t \in Threads : ~At(t, "writing") /\ ~At(t, "persist")

\* The process ends: what it kept in memory is gone.
ProcessEnds ==
    /\ NoSetInFlight \/ "stopInSet" \in Faults
    /\ phase' = "off"
    /\ serving' = FALSE /\ dogOn' = FALSE /\ streak' = 0
    /\ orig' = Empty
    /\ overridden' = FALSE /\ locked' = FALSE
    /\ lanOnly' = FALSE /\ protection' = FALSE
    /\ cleanup' = Free /\ applying' = Free
    /\ th' = [t \in Threads |-> Resting]
    /\ UNCHANGED <<machine, disk>>

Exit(t) == Doing(t, "quit2") /\ At(t, "restored") /\ ProcessEnds

\* A hard kill, a crash or a power loss.
Crash == "crash" \in Faults /\ phase # "off" /\ ProcessEnds

-----------------------------------------------------------------------------
(***************************************************************************)
(* The machine around the program.                                         *)
(***************************************************************************)
Flap(a) ==
    /\ "flap" \in Faults
    /\ active' = IF a \in active THEN active \ {a} ELSE active \union {a}
    /\ UNCHANGED <<owner, dns, disk, life, orig, flags, locks, th>>

External(a) ==
    /\ "external" \in Faults
    /\ dns[a] # owner[a]
    /\ dns' = [dns EXCEPT ![a] = owner[a]]
    /\ UNCHANGED <<owner, active, disk, life, orig, flags, locks, th>>

ResolverDies ==
    /\ "resolver" \in Faults
    /\ serving
    /\ serving' = FALSE
    /\ UNCHANGED <<machine, disk, phase, dogOn, streak, orig, flags, locks, th>>

-----------------------------------------------------------------------------
SetStep(t) ==
    \/ SetRefused(t) \/ SetBegin(t)
    \/ \E a \in Adapters : BackUpAdapter(t, a)
    \/ BackUpDone(t)
    \/ \E a \in Adapters : SetAdapter(t, a)
    \/ SetCommit(t) \/ SetFailed(t) \/ Persist(t)

RestoreStep(t) ==
    \/ RestoreBegin(t) \/ RestoreNothing(t)
    \/ \E a \in Adapters : RestoreAdapter(t, a)
    \/ RestoreEnd(t)

BootStep ==
    \/ RecoverStale \/ Recovered \/ DetectConflict
    \/ BindOk \/ BindFailed \/ BootSetDone

DogStep ==
    \/ DogQuiet \/ DogAlarm \/ DogProbe
    \/ DogFixed \/ DogFailed \/ DogYielded

\* What an operator or the service pipe may ask for.
Request(t) ==
    \/ \E on, inverted \in BOOLEAN : RequestProtection(t, on, inverted)
    \/ \E on \in BOOLEAN : RequestLock(t, on)
    \/ RequestEmergency(t)
    \/ RequestQuit(t)

\* What a request that was made goes on to do.
UserStep(t) ==
    \/ ApplyOn(t) \/ ApplyOff(t) \/ ApplyDone(t)
    \/ LockDone(t)
    \/ EmergencyUnlock(t) \/ EmergencyUnlocked(t) \/ EmergencyDone(t)
    \/ QuitAgain(t) \/ Exit(t)

Environment ==
    \/ Crash
    \/ \E a \in Adapters : Flap(a)
    \/ \E a \in Adapters : External(a)
    \/ ResolverDies

Next ==
    \/ Start
    \/ BootStep
    \/ DogStep
    \/ \E t \in Users : Request(t)
    \/ \E t \in Users : UserStep(t)
    \/ \E t \in Threads : SetStep(t)
    \/ \E t \in Threads : RestoreStep(t)
    \/ HookFires
    \/ HookDone
    \/ Environment

Spec == Init /\ [][Next]_vars

ThreadStep(t) ==
    \/ SetStep(t)
    \/ RestoreStep(t)
    \/ t \in Users /\ UserStep(t)
    \/ t = Boot /\ BootStep
    \/ t = Dog /\ DogStep
    \/ t = Hook /\ HookDone

\* Every thread goes on with the call it is in, and the watchdog keeps making
\* rounds.  A thread waiting for a lock gets it eventually: the holders run a
\* bounded loop of commands and the competitors pause between their calls.
\* Nobody has to make a request, and nothing obliges the environment.
Fairness == \A t \in Threads : SF_vars(ThreadStep(t))

FairSpec == Spec /\ Fairness

-----------------------------------------------------------------------------
(***************************************************************************)
(* Properties                                                              *)
(***************************************************************************)

\* Every variable keeps to the values the code can give it.
TypeOK ==
    /\ owner \in [Adapters -> OwnerSettings]
    /\ dns \in [Adapters -> Settings]
    /\ active \in SUBSET Adapters
    /\ file \in Maps
    /\ savedProt \in BOOLEAN
    /\ phase \in {"off", "boot", "up"}
    /\ orig \in Maps
    /\ overridden \in BOOLEAN
    /\ locked \in BOOLEAN
    /\ lanOnly \in BOOLEAN
    /\ protection \in BOOLEAN
    /\ serving \in BOOLEAN
    /\ dogOn \in BOOLEAN
    /\ streak \in 0 .. (YieldStreak - 1)
    /\ cleanup \in Threads \union {Free}
    /\ applying \in Users \union {Free}
    /\ th \in [Threads -> ThreadStates]

\* What a saved map may say of an adapter.
Recordable(a) ==
    {NoEntry, Dhcp, owner[a]}
        \union (IF ListenAddr = AnyAddr THEN {AnyAddr} ELSE {})

\* Whatever goes wrong, a saved setting is the owner's or DHCP, never an
\* address of the program: a backup taken while an adapter already points at
\* the program (after a crash, a lost map, a second override) would make the
\* restore put a dead resolver back for good.  Only a watchdog started with
\* the wildcard address can put that address on record.
BackupIsOwners ==
    \A a \in Adapters :
        /\ orig[a] \in Recordable(a)
        /\ file[a] \in Recordable(a)
        /\ \A t \in Threads : th[t].took[a] \in Recordable(a)

\* The environments in which nothing the owner had set may be lost.
Lossless ==
    Faults \cap {"stopInSet", "flap", "restore", "read", "disk", "hook"} = {}

\* An adapter that does not have the owner's setting any more has it on
\* record: in the map of the running program or in the hands of a restore,
\* and in the file once the process is gone or starts again.  This is what
\* lets set_system_dns, the restore and the recovery at startup undo each
\* other whatever the order of the callers and wherever the process dies.
OriginalsHeld ==
    Lossless => \A a \in Adapters :
        dns[a] # owner[a] =>
            IF phase = "up"
            THEN orig[a] = owner[a] \/ \E t \in Threads : th[t].took[a] = owner[a]
            ELSE file[a] = owner[a]

\* While DNS_OVERRIDDEN is down and no set is under way, no adapter points at
\* the program: the flag is all that the hooks and the watchdog look at to
\* decide whether there is something to give back.
ReleasedIsRestored ==
    Lossless /\ phase = "up" /\ ~overridden /\ NoSetInFlight =>
        dns = owner

\* At most one thread is in the middle of changing adapters, except for the
\* hooks, which do not take the lock.
CleanupExclusive ==
    \A t, u \in Threads \ {Hook} :
        {th[t].pc, th[u].pc} \subseteq {"backup", "writing", "persist", "putback"} => t = u

\* CLEANUP_LOCK is always released.
CleanupReleased == cleanup # Free ~> cleanup = Free

\* The emergency restore of the panic hook and of the console handler does not
\* wait for CLEANUP_LOCK, whose holder may hang in the command that sets or
\* restores an adapter.  It waits for one thing only, a set that is listing
\* adapters with the map locked, and that set can go on.  (This is for a hook
\* that runs beside the set: a panic of the listing thread itself would wait
\* for the lock that thread holds.)
HookWaitsForListing ==
    ~At(Hook, "idle") =>
        \/ ENABLED ThreadStep(Hook)
        \/ \E t \in Threads \ {Hook} :
               At(t, "backup") /\ cleanup = t /\ ENABLED ThreadStep(t)

\* A DNS setting that was changed behind the program's back is enforced again,
\* or given up, for as long as protection is on and nobody locks the network.
RevertedIsReenforced ==
    dogOn /\ Gate /\ ~Matches ~> Matches \/ ~Gate \/ lanOnly

\* A start of the program that finds a stale override gives it back.
StaleOverrideRecovered ==
    phase = "boot" ~> phase = "off" \/ dns = owner

\* With the program running, no override and nothing under way, the adapters
\* have the owner's setting, whatever came before: "100% fail-safe" restore.
NothingLeftBehind ==
    /\ phase = "up"
    /\ ~overridden
    /\ \A t \in Threads : th[t].pc \in {"idle", "bind"}
    => dns = owner

\* Once the emergency restore has finished, the original DNS is back.
EmergencyRestores ==
    [][\A t \in Users : EmergencyDone(t) => dns' = owner']_vars

\* While the master internet lock is on and no call is under way, every
\* connected adapter points at the black hole.
LockBlackholes ==
    /\ phase = "up"
    /\ locked
    /\ \A t \in Threads : At(t, "idle")
    => \A a \in active : dns[a] = Blackhole

\* When the resolver dies, the original DNS is restored.
DeadResolverReleased ==
    phase = "up" /\ Gate /\ ~serving ~> serving \/ ~Gate

=============================================================================
