------------------------------- MODULE Instances -------------------------------
(***************************************************************************)
(* The processes of the program and who protects the machine: the window,  *)
(* started once or several times (src/main.rs, system/single_instance.rs), *)
(* and the Windows service (service/worker.rs, service/install.rs).  Each  *)
(* of them may run the protection stack of app/mod.rs, and they share the  *)
(* DNS port, the system's DNS, the saved backup and config.toml.           *)
(*                                                                         *)
(* What one process does about the system's DNS is in DnsOverride; here it *)
(* is one step to set it and one to restore it.  There is no conflicting   *)
(* DNS product, nobody is killed, and the service is not started again     *)
(* before the process that ran it last is gone.                            *)
(***************************************************************************)
EXTENDS Naturals

CONSTANTS
    Windows,     \* launches of the program with a window
    Service      \* the process of the service

Programs == Windows \union {Service}
Nobody == "nobody"

ASSUME InstancesAssumption ==
    /\ Service \notin Windows
    /\ Nobody \notin Programs

VARIABLES
    scm,        \* the service, as "sc query" shows it
    port,       \* who has bound UDP port 53
    mutex,      \* who holds the single-instance mutex
    systemDns,  \* "owner" or "ours"
    backup,     \* the file of the override exists
    saved,      \* protection_enabled in config.toml
    main,       \* the main thread of each process
    boot,       \* its task that binds the port and overrides the DNS
    on,         \* protection_atomic
    inConfig,   \* protection_enabled in memory
    captured,   \* what it was when the task was spawned
    holds,      \* the process remembers the DNS servers it replaced
    alert,      \* its watchdog has found the override gone, and will see to it
    remote,     \* REMOTE_MODE
    \* For the properties:
    forced,     \* somebody switched protection on where no server was bound
    late        \* the override was set by a process after its last restore

machine == <<scm, port, systemDns, backup, saved>>
switch == <<on, inConfig, captured>>
process == <<main, boot, switch, holds, alert>>
instVars == <<machine, mutex, process, remote, forced, late>>

ScmStates == {"absent", "stopped", "starting", "running", "stopping"}
MainLabels == {"off", "query", "probe", "load", "recover", "acquire", "run", "close", "restore",
               "end"}
BootLabels == {"none", "bind", "apply", "fail", "serving", "failed"}

InstInit ==
    /\ scm \in {"absent", "stopped"}
    /\ port = Nobody /\ mutex = Nobody
    /\ systemDns = "owner" /\ backup = FALSE
    /\ saved \in BOOLEAN
    /\ main = [p \in Programs |-> "off"] /\ boot = [p \in Programs |-> "none"]
    /\ on = [p \in Programs |-> FALSE] /\ inConfig = on /\ captured = on
    /\ holds = on /\ alert = on /\ remote = on
    /\ forced = FALSE /\ late = FALSE

Local(p) == ~remote[p]
MainGoes(p, label) == main' = [main EXCEPT ![p] = label]
BootGoes(p, label) == boot' = [boot EXCEPT ![p] = label]

\* A process that ends gives its port and its mutex back; nothing else.
Exit(p) ==
    /\ MainGoes(p, "off") /\ BootGoes(p, "none")
    /\ port' = IF port = p THEN Nobody ELSE port
    /\ mutex' = IF mutex = p THEN Nobody ELSE mutex
    /\ on' = [on EXCEPT ![p] = FALSE] /\ inConfig' = [inConfig EXCEPT ![p] = FALSE]
    /\ captured' = [captured EXCEPT ![p] = FALSE]
    /\ holds' = [holds EXCEPT ![p] = FALSE] /\ alert' = [alert EXCEPT ![p] = FALSE]

\* set_system_dns and restore_system_dns.  The second does nothing to the DNS
\* in a process that remembers no servers, but removes the file all the same.
Override(p) ==
    /\ systemDns' = "ours" /\ backup' = TRUE
    /\ holds' = [holds EXCEPT ![p] = TRUE]
    /\ late' = (late \/ main[p] = "end")
Restore(p) ==
    /\ systemDns' = IF holds[p] THEN "owner" ELSE systemDns
    /\ backup' = FALSE
    /\ holds' = [holds EXCEPT ![p] = FALSE]
    /\ late' = (late /\ ~holds[p])
\* What looks like an override left behind by a crash is undone.
Recover ==
    /\ systemDns' = IF backup THEN "owner" ELSE systemDns
    /\ backup' = FALSE
    /\ late' = (late /\ ~backup)

-----------------------------------------------------------------------------
(***************************************************************************)
(* Starting: main, and run_as_service                                      *)
(***************************************************************************)
Launch(p) ==
    /\ main[p] = "off" /\ p \in Windows
    /\ MainGoes(p, "query")
    /\ UNCHANGED <<machine, mutex, boot, switch, holds, alert, remote, forced, late>>

AttachOrNot(p) ==
    /\ main[p] = "query"
    /\ remote' = [remote EXCEPT ![p] = scm = "running"]
    /\ MainGoes(p, "load")
    /\ UNCHANGED <<machine, mutex, boot, switch, holds, alert, forced, late>>

\* dns_port_available: the port is bound and released at once.
ProbePort ==
    /\ main[Service] = "probe"
    /\ IF port = Nobody
       THEN MainGoes(Service, "load") /\ UNCHANGED scm
       ELSE MainGoes(Service, "off") /\ scm' = "stopped"
    /\ UNCHANGED <<port, systemDns, backup, saved, mutex, boot, switch, holds, alert, remote, forced,
                   late>>

\* AppState::new
LoadConfig(p) ==
    /\ main[p] = "load"
    /\ on' = [on EXCEPT ![p] = saved] /\ inConfig' = [inConfig EXCEPT ![p] = saved]
    /\ MainGoes(p, IF Local(p) THEN "recover" ELSE "acquire")
    /\ UNCHANGED <<machine, mutex, boot, captured, holds, alert, remote, forced, late>>

SpawnServer(p) ==
    /\ BootGoes(p, "bind")
    /\ captured' = [captured EXCEPT ![p] = inConfig[p]]

\* start_background_services recovers, and spawns the server's task.
RecoverAndSpawn(p) ==
    /\ main[p] = "recover"
    /\ Recover
    /\ SpawnServer(p)
    /\ IF p = Service
       THEN MainGoes(p, "run") /\ scm' = "running"
       ELSE MainGoes(p, "acquire") /\ UNCHANGED scm
    /\ UNCHANGED <<port, saved, mutex, on, inConfig, holds, alert, remote, forced>>

\* run_dns_server, in a task of its own, and what is done with its outcome.
Bind(p) ==
    /\ boot[p] = "bind"
    /\ IF port = Nobody
       THEN port' = p /\ BootGoes(p, "apply")
       ELSE BootGoes(p, "fail") /\ UNCHANGED port
    /\ UNCHANGED <<scm, systemDns, backup, saved, mutex, main, switch, holds, alert, remote, forced,
                   late>>

\* The operator may have switched protection off since the task was spawned.
ApplyAtBoot(p) ==
    /\ boot[p] = "apply"
    /\ BootGoes(p, "serving")
    /\ IF captured[p] THEN Override(p) ELSE UNCHANGED <<systemDns, backup, holds, late>>
    /\ captured' = [captured EXCEPT ![p] = FALSE]
    /\ UNCHANGED <<scm, port, saved, mutex, main, on, inConfig, alert, remote, forced>>

BindFailed(p) ==
    /\ boot[p] = "fail"
    /\ BootGoes(p, "failed")
    /\ on' = [on EXCEPT ![p] = FALSE] /\ inConfig' = [inConfig EXCEPT ![p] = FALSE]
    /\ captured' = [captured EXCEPT ![p] = FALSE]
    /\ saved' = FALSE
    /\ UNCHANGED <<scm, port, systemDns, backup, mutex, main, holds, alert, remote, forced, late>>

\* SingleInstanceGuard::try_acquire comes last.
Acquire(p) ==
    /\ main[p] = "acquire"
    /\ IF mutex = Nobody
       THEN mutex' = p /\ MainGoes(p, "run") /\ UNCHANGED <<port, boot, switch, holds, alert>>
       ELSE Exit(p)
    /\ UNCHANGED <<scm, systemDns, backup, saved, remote, forced, late>>

-----------------------------------------------------------------------------
(***************************************************************************)
(* Running                                                                 *)
(***************************************************************************)
\* The watchdog finds its override gone; when it comes to act on that it does
\* not look at the switch again.
WatchdogLooks(p) ==
    /\ boot[p] # "none" /\ ~alert[p]
    /\ on[p] /\ holds[p] /\ systemDns = "owner"
    /\ alert' = [alert EXCEPT ![p] = TRUE]
    /\ UNCHANGED <<machine, mutex, main, boot, switch, holds, remote, forced, late>>

\* It puts the override back if a server answers the probe, and gives up if not.
WatchdogActs(p) ==
    /\ alert[p]
    /\ alert' = [alert EXCEPT ![p] = FALSE]
    /\ (port # Nobody /\ Override(p)) \/ Restore(p)
    /\ UNCHANGED <<scm, port, saved, mutex, main, boot, switch, remote, forced>>

\* apply_protection of the process that runs the stack.
Protect(p, wanted) ==
    /\ on' = [on EXCEPT ![p] = wanted] /\ inConfig' = [inConfig EXCEPT ![p] = wanted]
    /\ saved' = wanted
    /\ UNCHANGED captured
    /\ IF wanted THEN Override(p) ELSE Restore(p)

\* The operator's switch.  A window attached to the service asks the service,
\* if that still answers.  Nobody looks whether a server was bound.
Switch(p, wanted) ==
    /\ main[p] = "run" /\ p \in Windows
    /\ LET who == IF Local(p) THEN p ELSE Service IN
       /\ main[who] = "run"
       /\ Protect(who, wanted)
       /\ forced' = (forced \/ (wanted /\ boot[who] # "serving"))
    /\ UNCHANGED <<scm, port, mutex, main, boot, alert, remote>>

\* switch_to_local_mode, when the service no longer runs.
SwitchToLocal(p) ==
    /\ main[p] = "run" /\ ~Local(p)
    /\ scm \notin {"running", "starting"}
    /\ remote' = [remote EXCEPT ![p] = FALSE]
    /\ Recover
    /\ SpawnServer(p)
    /\ UNCHANGED <<scm, port, saved, mutex, main, on, inConfig, holds, alert, forced>>

\* (mutant) Quitting leaves the DNS to the next start.
CloseAtOnce(p) ==
    /\ main[p] = "run" /\ p \in Windows
    /\ Exit(p)
    /\ UNCHANGED <<scm, systemDns, backup, saved, remote, forced, late>>

\* Quitting: an attached window leaves the protection to the service.
Close(p) ==
    /\ main[p] = "run" /\ p \in Windows
    /\ IF Local(p)
       THEN MainGoes(p, "close") /\ UNCHANGED <<port, mutex, boot, switch, holds, alert>>
       ELSE Exit(p)
    /\ UNCHANGED <<scm, systemDns, backup, saved, remote, forced, late>>

ProtectionOff(p) ==
    /\ main[p] = "close"
    /\ Protect(p, FALSE)
    /\ MainGoes(p, "restore")
    /\ UNCHANGED <<scm, port, mutex, boot, alert, remote, forced>>

RestoreLast(p) ==
    /\ main[p] = "restore"
    /\ Restore(p)
    /\ MainGoes(p, "end")
    /\ UNCHANGED <<scm, port, saved, mutex, boot, switch, alert, remote, forced>>

\* Task and watchdog run on until the process is gone.
EndProcess(p) ==
    /\ main[p] = "end" /\ (p = Service => scm # "stopping")
    /\ Exit(p)
    /\ UNCHANGED <<scm, systemDns, backup, saved, remote, forced, late>>

ReportStopped ==
    /\ main[Service] = "end" /\ scm = "stopping"
    /\ scm' = "stopped"
    /\ UNCHANGED <<port, systemDns, backup, saved, mutex, process, remote, forced, late>>

-----------------------------------------------------------------------------
(***************************************************************************)
(* install, start, stop and uninstall                                      *)
(***************************************************************************)
InstallService ==
    /\ scm = "absent"
    /\ scm' = "stopped"
    /\ UNCHANGED <<port, systemDns, backup, saved, mutex, process, remote, forced, late>>

StartService ==
    /\ scm = "stopped" /\ main[Service] = "off"
    /\ scm' = "starting"
    /\ MainGoes(Service, "probe")
    /\ UNCHANGED <<port, systemDns, backup, saved, mutex, boot, switch, holds, alert, remote, forced,
                   late>>

StopService ==
    /\ main[Service] = "run"
    /\ scm' = "stopping"
    /\ MainGoes(Service, "close")
    /\ UNCHANGED <<port, systemDns, backup, saved, mutex, boot, switch, holds, alert, remote, forced,
                   late>>

Uninstall ==
    /\ scm = "stopped"
    /\ scm' = "absent"
    /\ UNCHANGED <<port, systemDns, backup, saved, mutex, process, remote, forced, late>>

InstNext ==
    \/ \E p \in Programs :
         \/ Launch(p) \/ AttachOrNot(p) \/ LoadConfig(p) \/ RecoverAndSpawn(p)
         \/ Bind(p) \/ ApplyAtBoot(p) \/ BindFailed(p) \/ Acquire(p)
         \/ WatchdogLooks(p) \/ WatchdogActs(p)
         \/ (\E wanted \in BOOLEAN : Switch(p, wanted)) \/ SwitchToLocal(p)
         \/ Close(p) \/ ProtectionOff(p) \/ RestoreLast(p) \/ EndProcess(p)
    \/ ReportStopped \/ ProbePort \/ InstallService \/ StartService \/ StopService \/ Uninstall

InstSpec == InstInit /\ [][InstNext]_instVars

-----------------------------------------------------------------------------
InstTypeOK ==
    /\ scm \in ScmStates /\ {port, mutex} \subseteq Programs \union {Nobody}
    /\ systemDns \in {"owner", "ours"}
    /\ {backup, saved, forced, late} \subseteq BOOLEAN
    /\ main \in [Programs -> MainLabels] /\ boot \in [Programs -> BootLabels]
    /\ {on, inConfig, captured, holds, alert, remote} \subseteq [Programs -> BOOLEAN]

\* The machine's DNS points at this program only while the program answers on
\* the port: however window and service are started, stopped and attached to
\* each other, and even when quitting races with the task that binds the port or
\* with the watchdog, up to the last restore, the machine is left with its own
\* servers.  What task or watchdog set between the last restore and the end of
\* the process stays, until a start finds the backup.  This is for one window,
\* which a second launch breaks, and for an operator who does not switch
\* protection on in a process that could not bind the port.
ServedOverride == systemDns = "ours" => port # Nobody \/ forced \/ late

\* A launch that finds another window of the program running only signals it:
\* "Another instance of Shield Ghita is already running. Signaled existing
\* instance to show window." (src/main.rs:104).  The system's DNS, the backup
\* and the saved configuration stay what they are.
SecondLaunchOnlySignals ==
    [][\A p \in Windows :
         mutex \notin {Nobody, p} /\ <<main[p], boot[p]>>' # <<main[p], boot[p]>>
            => UNCHANGED <<systemDns, backup, saved>>]_instVars

=============================================================================
