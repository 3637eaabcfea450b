----------------------------- MODULE SettingsStore -----------------------------
(***************************************************************************)
(* The configuration: config.toml, its copy in memory, what the engine and *)
(* the blocker make of it, and the .sgconfig backups                       *)
(* (src/modules/config/mod.rs, src/modules/backup.rs, and the callbacks of *)
(* ui_bridge/handlers.rs and poller.rs that change settings).              *)
(*                                                                         *)
(* Nearly every change is made and saved under the write lock of the       *)
(* configuration.  Two are not saved under it: the window's place, by a    *)
(* thread of its own that has a clone, and a backup that is imported.  All *)
(* saves write to the same config.toml.tmp.                                *)
(***************************************************************************)
EXTENDS Naturals

CONSTANTS
    Rules,         \* names the operator may block
    Places,        \* where the window may be
    Cloners,       \* threads that save a clone of the configuration
    MaxChanges,    \* changes in an instance
    StoreFaults    \* what may go wrong in this instance

\* What may go wrong:
\*   disk     a file cannot be written, or not be renamed
\*   kill     the process is killed, and started again
\*   unread   config.toml cannot be read
StoreFaultKinds == {"disk", "kill", "unread"}

Cut == [cut |-> TRUE]        \* a file whose end is missing
Lacking == [cut |-> FALSE]   \* no file

\* "switch" stands for the settings something else acts on, "guard" for those
\* of them that it is told first; "date" for the settings that other threads
\* than the window's change.
Defaults == [switch |-> FALSE, guard |-> FALSE, rules |-> {},
             place |-> CHOOSE p \in Places : TRUE, date |-> FALSE]

SettingThreads == {"window", "task"} \union Cloners
SaveSteps == {"open", "write", "rename"}

ASSUME StoreAssumption ==
    /\ Places # {} /\ MaxChanges \in Nat
    /\ {"window", "task"} \intersect Cloners = {}
    /\ StoreFaults \subseteq StoreFaultKinds

VARIABLES
    settings,   \* the configuration in memory
    toml, part, \* config.toml and config.toml.tmp
    acting,     \* what the engine and the blocker act on
    bundle,     \* the newest backup: a configuration, and the blocker's rules
    work,       \* the threads: where they are, and locals
    changes,    \* changes so far
    \* For the properties:
    mixed,      \* two saves have overlapped
    adrift,     \* a save failed or was mixed with another, or the file could
                \* not be loaded, and no save under the lock has followed
    imported    \* a backup was imported since the process was started

tomlFiles == <<toml, part>>
storeVars == <<settings, tomlFiles, acting, bundle, work, changes, mixed, adrift, imported>>

\* save: the configuration in hand; locked: the thread has the write lock;
\* alone: nobody else was saving when it began; at: the file its open handle
\* belongs to; next: what it does after the save.
NoWork == [pc |-> "rest", save |-> Defaults, locked |-> FALSE, alone |-> FALSE,
           at |-> "none", next |-> "rest"]

Doing(t, label) == work[t].pc = label
ConfigLocked == \E t \in SettingThreads : work[t].locked
Writing == {t \in SettingThreads : work[t].pc \in SaveSteps}
Enforced(c) == [switch |-> c.switch, guard |-> c.guard, rules |-> c.rules]

StoreInit ==
    /\ settings = Defaults
    /\ toml = Defaults /\ part = Lacking
    /\ acting = Enforced(Defaults)
    /\ bundle = Lacking
    /\ work = [t \in SettingThreads |-> NoWork]
    /\ changes = 0
    /\ mixed = FALSE /\ adrift = FALSE /\ imported = FALSE

-----------------------------------------------------------------------------
(***************************************************************************)
(* Changes                                                                 *)
(***************************************************************************)
Saves(t, c, locked, next) ==
    [NoWork EXCEPT !.pc = "open", !.save = c, !.locked = locked,
                   !.alone = Writing = {}, !.next = next]

OneMore == changes < MaxChanges /\ changes' = changes + 1

\* A thread takes the lock, changes the configuration, and saves it with or
\* without the lock.
Begin(t, c, locked, next) ==
    /\ ~ConfigLocked
    /\ settings' = c
    /\ work' = [work EXCEPT ![t] = Saves(t, c, locked, next)]
    /\ mixed' = (mixed \/ Writing # {}) /\ adrift' = (adrift \/ Writing # {})

\* The switches of the engine are set after the save.
SetSwitch(on) ==
    /\ Doing("window", "rest")
    /\ Begin("window", [settings EXCEPT !.switch = on], TRUE, "enforce") /\ OneMore
    /\ UNCHANGED <<tomlFiles, acting, bundle, imported>>

\* The switches of the real-time guard and of the sinkhole, and the clients'
\* modes, come into force before they are saved.
SetGuard(on) ==
    /\ Doing("window", "rest") /\ OneMore
    /\ acting' = [acting EXCEPT !.guard = on]
    /\ work' = [work EXCEPT !["window"].pc = "note"]
    /\ UNCHANGED <<settings, tomlFiles, bundle, mixed, adrift, imported>>

NoteGuard ==
    /\ Doing("window", "note")
    /\ Begin("window", [settings EXCEPT !.guard = acting.guard], TRUE, "rest")
    /\ UNCHANGED <<tomlFiles, acting, bundle, changes, imported>>

\* A rule reaches the blocker first and the configuration second; one that is
\* there already is not saved again.
ChangeRule(r) ==
    /\ Doing("window", "rest") /\ OneMore
    /\ \/ acting' = [acting EXCEPT !.rules = @ \union {r}]
       \/ acting' = [acting EXCEPT !.rules = @ \ {r}]
    /\ work' = [work EXCEPT !["window"].pc = "edit",
                            !["window"].save = [settings EXCEPT !.rules = {r}]]
    /\ UNCHANGED <<settings, tomlFiles, bundle, mixed, adrift, imported>>

EditRules ==
    /\ Doing("window", "edit")
    /\ LET changed == work["window"].save.rules
           added == changed \subseteq acting.rules
           rules == IF added THEN settings.rules \union changed ELSE settings.rules \ changed IN
       IF added /\ changed \subseteq settings.rules
       THEN /\ ~ConfigLocked
            /\ work' = [work EXCEPT !["window"] = NoWork]
            /\ UNCHANGED <<settings, mixed, adrift>>
       ELSE Begin("window", [settings EXCEPT !.rules = rules], TRUE, "rest")
    /\ UNCHANGED <<tomlFiles, acting, bundle, changes, imported>>

\* load_blocklists is over, in a task of its own.
StampUpdate ==
    /\ Doing("task", "rest")
    /\ Begin("task", [settings EXCEPT !.date = ~@], TRUE, "rest") /\ OneMore
    /\ UNCHANGED <<tomlFiles, acting, bundle, imported>>

\* persist_window_geom, on the window's thread.
PersistPlace(t, p) ==
    /\ Doing("window", "rest") /\ Doing(t, "rest") /\ p # settings.place
    /\ Begin(t, [settings EXCEPT !.place = p], FALSE, "rest") /\ OneMore
    /\ UNCHANGED <<tomlFiles, acting, bundle, imported>>

\* save_window_state_now; the process ends.
Quit(p) ==
    /\ Doing("window", "rest")
    /\ Begin("window", [settings EXCEPT !.place = p], TRUE, "exit") /\ OneMore
    /\ UNCHANGED <<tomlFiles, acting, bundle, imported>>

-----------------------------------------------------------------------------
(***************************************************************************)
(* Backups                                                                 *)
(***************************************************************************)
StartExport ==
    /\ Doing("window", "rest") /\ ~ConfigLocked
    /\ bundle' = Cut
    /\ work' = [work EXCEPT !["window"].pc = "bundle", !["window"].save = settings]
    /\ UNCHANGED <<settings, tomlFiles, acting, changes, mixed, adrift, imported>>

FinishExport ==
    /\ Doing("window", "bundle")
    /\ \/ bundle' = [config |-> work["window"].save, rules |-> acting.rules]
       \/ "disk" \in StoreFaults /\ UNCHANGED bundle
    /\ work' = [work EXCEPT !["window"] = NoWork]
    /\ UNCHANGED <<settings, tomlFiles, acting, changes, mixed, adrift, imported>>

\* load_backup refuses what is cut or was changed.
Import ==
    /\ Doing("window", "rest")
    /\ bundle \notin {Cut, Lacking}
    /\ Begin("window", bundle.config, FALSE, "import") /\ OneMore
    /\ imported' = TRUE
    /\ UNCHANGED <<tomlFiles, acting, bundle>>

EnforceSwitch ==
    /\ Doing("window", "enforce")
    /\ acting' = [acting EXCEPT !.switch = work["window"].save.switch]
    /\ work' = [work EXCEPT !["window"] = NoWork]
    /\ UNCHANGED <<settings, tomlFiles, bundle, changes, mixed, adrift, imported>>

\* (mutant) The rules of a backup reach the configuration only.
ImportConfigOnly ==
    /\ Doing("window", "import")
    /\ work' = [work EXCEPT !["window"] = NoWork]
    /\ UNCHANGED <<settings, tomlFiles, acting, bundle, changes, mixed, adrift, imported>>

\* The rules of a backup are added to the blocker's; its switches reach
\* nobody before the next start.
EnforceImport ==
    /\ Doing("window", "import")
    /\ acting' = [acting EXCEPT !.rules = @ \union bundle.rules]
    /\ work' = [work EXCEPT !["window"] = NoWork]
    /\ UNCHANGED <<settings, tomlFiles, bundle, changes, mixed, adrift, imported>>

-----------------------------------------------------------------------------
(***************************************************************************)
(* save                                                                    *)
(***************************************************************************)
OpenPart(t) ==
    /\ Doing(t, "open")
    /\ part' = Cut
    /\ work' = [work EXCEPT ![t].pc = "write", ![t].at = "part"]
    /\ UNCHANGED <<settings, toml, acting, bundle, changes, mixed, adrift, imported>>

\* The save is over, whatever came of it, and the lock is given up.
EndSaving(t, ok, threads) ==
    /\ work' = [threads EXCEPT ![t] =
         IF threads[t].next = "rest" THEN NoWork
         ELSE [threads[t] EXCEPT !.pc = threads[t].next, !.locked = FALSE, !.at = "none"]]
    /\ adrift' = IF ~ok THEN TRUE ELSE adrift /\ ~(work[t].locked /\ work[t].alone)

\* The bytes go to the file that was opened, wherever it has been moved.
WritePart(t) ==
    /\ Doing(t, "write")
    /\ \/ /\ part' = IF work[t].at = "part" THEN work[t].save ELSE part
          /\ toml' = IF work[t].at = "toml" THEN work[t].save ELSE toml
          /\ work' = [work EXCEPT ![t].pc = "rename", ![t].at = "none"]
          /\ UNCHANGED adrift
       \/ "disk" \in StoreFaults /\ EndSaving(t, FALSE, work) /\ UNCHANGED tomlFiles
    /\ UNCHANGED <<settings, acting, bundle, changes, mixed, imported>>

\* (mutant) The old file is removed first.
RenameOverNothing(t) ==
    /\ Doing(t, "rename")
    /\ IF toml # Lacking
       THEN toml' = Lacking /\ UNCHANGED <<part, work, adrift>>
       ELSE toml' = part /\ part' = Lacking /\ EndSaving(t, part # Lacking, work)
    /\ UNCHANGED <<settings, acting, bundle, changes, mixed, imported>>

\* It fails when another save has moved the file aside, when the file it would
\* replace is open, or when the disk fails.
RenamePart(t) ==
    /\ Doing(t, "rename")
    /\ LET open == {w \in SettingThreads : work[w].at = "toml"}
           moved == [w \in SettingThreads |->
                       [work[w] EXCEPT !.at = CASE @ = "part" -> "toml"
                                                [] @ = "toml" -> "replaced"
                                                [] OTHER -> @]] IN
       \/ /\ part # Lacking
          /\ toml' = part /\ part' = Lacking
          /\ EndSaving(t, TRUE, moved)
       \/ /\ part = Lacking \/ open # {} \/ "disk" \in StoreFaults
          /\ EndSaving(t, FALSE, work)
          /\ UNCHANGED tomlFiles
    /\ UNCHANGED <<settings, acting, bundle, changes, mixed, imported>>

-----------------------------------------------------------------------------
(***************************************************************************)
(* load.  Every field has a default: a file that is cut off at the end of  *)
(* a line is read as if the operator had set nothing more.  (The port of   *)
(* old installations, which is migrated here, is not one of the fields.)   *)
(***************************************************************************)
Start(c) ==
    /\ settings' = c
    /\ acting' = Enforced(c)
    /\ imported' = FALSE
    /\ UNCHANGED <<part, bundle, changes, mixed>>
Idling == work' = [t \in SettingThreads |-> NoWork]

\* Without a file the defaults are saved before anything else is started.
Load ==
    \/ /\ toml = Lacking
       /\ Start(Defaults)
       /\ work' = [t \in SettingThreads |-> IF t = "window"
                     THEN [NoWork EXCEPT !.pc = "open", !.locked = TRUE, !.alone = TRUE]
                     ELSE NoWork]
       /\ UNCHANGED <<toml, adrift>>
    \/ toml \notin {Lacking, Cut} /\ Start(toml) /\ Idling /\ adrift' = FALSE /\ UNCHANGED toml
    \/ toml = Cut /\ Start(Defaults) /\ Idling /\ adrift' = TRUE /\ toml' \in {Cut, Lacking}
    \/ /\ toml # Lacking /\ "unread" \in StoreFaults
       /\ Start(Defaults) /\ Idling /\ adrift' = TRUE /\ UNCHANGED toml

Restart ==
    /\ "kill" \in StoreFaults \/ Doing("window", "exit")
    /\ Load

StoreNext ==
    \/ \E on \in BOOLEAN : SetSwitch(on) \/ SetGuard(on)
    \/ NoteGuard
    \/ \E r \in Rules : ChangeRule(r)
    \/ EditRules \/ StampUpdate
    \/ \E p \in Places : Quit(p) \/ \E t \in Cloners : PersistPlace(t, p)
    \/ StartExport \/ FinishExport \/ Import \/ EnforceSwitch \/ EnforceImport
    \/ \E t \in SettingThreads : OpenPart(t) \/ WritePart(t) \/ RenamePart(t)
    \/ Restart

StoreSpec == StoreInit /\ [][StoreNext]_storeVars

-----------------------------------------------------------------------------
Configs == [switch : BOOLEAN, guard : BOOLEAN, rules : SUBSET Rules,
            place : Places, date : BOOLEAN]
Actings == [switch : BOOLEAN, guard : BOOLEAN, rules : SUBSET Rules]
Bundles == [config : Configs, rules : SUBSET Rules]
AfterSaves == {"rest", "enforce", "exit", "import"}
Elsewhere == AfterSaves \union {"note", "edit", "bundle"}
Works == [pc : SaveSteps \union Elsewhere, save : Configs, locked : BOOLEAN,
          alone : BOOLEAN, at : {"none", "part", "toml", "replaced"}, next : AfterSaves]

StoreTypeOK ==
  /\ settings \in Configs /\ acting \in Actings
  /\ {toml, part} \subseteq Configs \union {Cut, Lacking}
  /\ bundle \in Bundles \union {Cut, Lacking}
  /\ work \in [SettingThreads -> Works]
  /\ changes \in Nat /\ {mixed, adrift, imported} \subseteq BOOLEAN

\* Whenever the program is killed it finds a whole config.toml, and when
\* nothing is being saved the file holds the configuration in memory: nobody's
\* change is undone on disk by another's.  Only a save that failed, or one
\* that overlapped a save made without the lock, breaks this, and the next
\* undisturbed save under the lock mends it.
SettingsAreStored ==
    /\ toml = Cut => mixed
    /\ toml = Lacking => adrift \/ Doing("window", "open")
    /\ ~adrift /\ Writing = {} => toml = settings

\* Between two callbacks the blocker and the engine act on the configuration:
\* every rule in it is in force, even one that came with a backup, and after
\* an import only switches, and rules it does not name, wait for a restart.
SettingsInForce ==
    Doing("window", "rest") =>
        /\ settings.rules \subseteq acting.rules
        /\ acting = Enforced(settings) \/ imported

=============================================================================
