# TLA+ models of Shield Ghita

Shield Ghita is a Windows desktop program (Rust, one process or a window plus a
service) that blocks advertising and hostile domains for the whole machine. It
runs a DNS server on `127.0.0.1`, points the machine's network adapters at it,
answers queries from compiled blocklists, and carries a firewall, a ransomware
guard, a quarantine and a set of monitors beside it.

This directory holds TLA+ specifications of the components in which something
can go wrong between two steps, the TLC configurations that check them on small
instances, and theorems about them that TLAPS proves for every size. Source
paths below are relative to `src/src/` of the repository unless they begin with
`README` or `src/`.

- [1. The system](#1-the-system)
- [2. The modules and the code](#2-the-modules-and-the-code)
- [3. What the runs check](#3-what-the-runs-check)
- [4. What is proved](#4-what-is-proved)
- [5. Disagreements between the code and what it says of itself](#5-disagreements-between-the-code-and-what-it-says-of-itself)
- [6. What is not modelled](#6-what-is-not-modelled)
- [7. Plan](#7-plan)

## 1. The system

### Components

| component | state it keeps | operations | how it meets the others |
|---|---|---|---|
| **Master DNS controller** `modules/system/dns_manager.rs` | `ORIGINAL_DNS_SETTINGS` (setting of each adapter before the override), flags `DNS_OVERRIDDEN`, `MASTER_INTERNET_LOCKED`, `LAN_ONLY_MODE`, lock `CLEANUP_LOCK`, file `dns_override_backup.json`, the adapters themselves | `set_system_dns`, `restore_system_dns` (with and without the lock), `recover_stale_override_on_startup`, `set_master_internet_lock`, `start_dns_guard_watchdog`, hooks of `register_safety_cleanup` | called from the start, the switch, the lock button, the tray, the hotkey, the pipe, the watchdog's own task, the panic hook, the console handler and the exit |
| **Start, exit, switch** `app/mod.rs`, `main.rs`, `app/ui_bridge/handlers.rs`, `poller.rs`, `app/hotkey.rs` | `protection_atomic`, `config.protection_enabled` and its file, `APPLY_PROTECTION_LOCK` | `AppState::new`, `start_background_services`, `apply_protection`, emergency restore, quit | drives every other component |
| **Domain verdict and blocklist** `modules/dns/mod.rs`, `modules/dns/disk_store.rs` | `custom_blocked`, `custom_allowed`, `fast_cache`, `disk_store`, `etag_cache`; files `blocklist.bin`, `blocklist_etags.json` | `load_blocklists`, `load_cache`, `DiskBlocklist::build/open/contains`, `should_block`, the edits of the operator's rules | queried by every DNS query; refreshed by the start, a timer and the operator |
| **DNS query path** `modules/dns/mod.rs` | TTL cache, upstream list, flood counters | `run_dns_server`, `handle_query`, upstream races | verdicts, client policy, security engine, monitor, statistics |
| **Client policy** `modules/dns/client_policy.rs` | pause deadline, rule per client, day and hour counters | `pause_minutes`, `resume`, `set_client_rule`, `record_block`, `snapshot` | asked by the query path, edited by window and pipe |
| **Security engine** `modules/security/mod.rs` | `blocked_ips` with expiry, incidents, ARP table, anomaly counters | `block_ip_temporarily`, `is_ip_temporarily_blocked`, `record_incident`, detectors | fed by the query path and the monitors |
| **Real-time guard** `modules/security/realtime_guard.rs` | snapshot of watched files, canary hashes, `lock_active`, cooldowns | worker loop, canary check, automatic network lock, quarantine | master lock of the DNS controller, quarantine, security engine |
| **File quarantine** `modules/security/file_quarantine.rs` | encrypted vault files, `index.json` | quarantine, restore, delete | guard, analyser, window, pipe |
| **Core service and pipe** `modules/service/*`, `app/control_plane.rs` | token, stop flag, `REMOTE_MODE`, snapshot hash | request and reply over the named pipe, service start and stop | the window in remote mode sends every operation through it |
| **WFP blocker** `modules/blocker/mod.rs` | engine handle, filter ids, block lists, enabled flag | `initialize`, `enable`, `disable`, `shutdown` | start, switch, exit |
| **Configuration** `modules/config/mod.rs` | `AppConfig` and its file | `load`, `save` | read and written by nearly all |
| **Statistics** `modules/stats.rs` | day and week counters and their file | `record_block`, `flush_if_dirty` | query path, window |
| **Life cycle** `modules/system/single_instance.rs`, `self_defense.rs` | named mutex, shutdown flag, process mitigation | `try_acquire`, `enable`, `disable` | start and exit |
| **Query log** `modules/monitor/mod.rs` | list, filtered copy, version; `dns_log.json` | `add_log`, `apply_filter`, `clear`, `save` | fed by the query path, shown in the window |
| **LAN scan** `modules/monitor/lan_scanner.rs` | list of devices, `is_scanning`, `notified_high_risk`, `last_known_gateway` | `scan_network` | tells the quarantine of the security engine who is at which address |
| **Folder scan** `modules/security/location_scan.rs` | stop flag, report | walk, budget, stop, file analysis | started, stopped and shown by the window |
| **Backup of settings** `modules/backup.rs` | `.sgconfig` bundles | export, import | configuration, blocker's rules |
| **Other monitors, window, memory map, logging, languages** | tables read from the operating system, views | refresh | shown in the window |

`PROJECT.json` lists each of them with its status.

### What is hard about it

The program has no central loop. The window's callbacks run on threads of their
own, the pipe's requests and the DNS queries are tasks of an async runtime, the
watchdog and the refreshes are timers, the panic hook runs on whichever thread
panicked and the console handler on a thread of the operating system. They share
global flags and maps behind several small locks. Specifically:

- **The adapters outlive the process.** After a kill the machine still points at
  `127.0.0.1`, where nobody answers. Every order of set, restore, kill and start
  must leave a record from which the owner's setting can be given back.
- **Several callers set and restore at once**, on flags they read before they
  took the lock (watchdog, start-up task, lock request).
- **Half of a multi-adapter change can fail**, and adapters come and go in
  between.
- **The emergency restore must not wait** for the lock its own thread may hold.
- **A refresh of the blocklist** is a conversation with many sources each of
  which may have changed, not changed, or failed; its effects (tags, file,
  header in use, cache) are published one after the other while queries run.
- **The verdict** on a name is put together from four structures, each under its
  own lock, and remembered after the last lock was released.
- **Files are destroyed before they are listed**: the quarantine seals a file,
  shreds the original and only then reads, changes and writes an index that no
  lock protects.
- **A packet passes a dozen structures**, each locked for a moment, while
  operator, inventory and other packets change them.
- **Whoever waits may give up.** A command to the service times out and is
  carried out all the same; snapshots overtake each other.
- **Everything is saved by a temporary file of one name**, from threads that
  do not know of each other.

### Properties that make the parts correct

- DNS: a setting the owner had is on record wherever the program may die; no
  record ever holds the program's own address; the flag tells whether there is
  something to give back; one thread at a time changes adapters; the hooks
  wait for nothing but the listing of adapters; the lock is released; a reverted setting is enforced again or given up; a
  start gives a stale override back.
- Blocklist: the file always stands for one whole round of the sources;
  compaction loses no coverage; the header in use belongs to the file; the
  operator's rules never leak into the cache and exceptions always win.
- Quarantine and guard: a file is overwritten only when the vault has a whole
  copy; the index lists what the vault holds; no change of a file escapes the
  guard; a canary alarm is real and locks the network.
- Query path: what protects the client all the while decides the reply; every
  query is counted once; a permit always comes back; nobody isolates this
  machine or the gateway.
- Processes, pipe, settings: the machine's DNS points at the program only while
  it answers; the last answered command holds, also after a restart; the file
  is the configuration, and the engine acts on it.
- Statistics, log, scans, filters: no count is loaded into the wrong day; what
  was cleared stays away; a report that says "complete" is; a list and the
  quarantine are one picture; filters are all there or none.

The hazards behind these, each at its line, are under `hazards` in
`PROJECT.json`.

## 2. The modules and the code

| module | content |
|---|---|
| `DnsOverride` | DNS controller and all its callers: state, actions, properties |
| `DnsOverrideInv` | the inductive invariant of `DnsOverride`, and what its locks and hooks rest on |
| `DnsOwnership` | abstract specification: adapters' settings are borrowed |
| `DnsRefinement` | the refinement mapping from `DnsOverride` to `DnsOwnership` |
| `Blocklist` | refresh, disk store, verdict cache, lookup, operator's rules |
| `QuarantineVault` | file quarantine: seal, shred, list, restore, delete |
| `RealtimeGuard` | the guard's worker, canaries, drives, lock; extends `QuarantineVault` |
| `DeviceQuarantine` | isolated devices, bound to their MACs |
| `SecurityEngine` | limits, alerts, temporary blocks, probes; extends `DeviceQuarantine` |
| `QueryPath` | a DNS packet from permit to reply; extends `SecurityEngine` |
| `BlockStats` | block counters of day and week, their flush |
| `QueryLog` | the DNS log: list, filtered copy, saves, window |
| `Instances` | windows and service that share port, DNS, backup and switch |
| `ServiceLink` | commands and snapshots over the pipe |
| `SettingsStore` | configuration, its saves, backups, what is in force |
| `LocationScan` | the scan of a folder and its buttons |
| `LanScan` | the scan of the LAN; extends `DeviceQuarantine` |
| `WfpBlocker` | filters in the Windows filtering engine |
| `MCDnsOverride`, `MCBlocklist`, `MCShield` | symmetry, values and instances of the runs |
| `DnsOverrideTypeProofs`, `DnsOverrideProofs`, `DnsRefinementProofs` | proofs about `DnsOverride` and its refinement |
| `BlocklistProofs`, `QueryProofs` | proofs about `Blocklist`; about `QueryPath` with `SecurityEngine`, and that it uses `DeviceQuarantine` as specified, with what `NetworkProofs` proves of that |
| `NetworkProofs`, `LinkProofs` | proofs about `DeviceQuarantine`, `LanScan`, `WfpBlocker`; `ServiceLink`, `Instances`, `LocationScan` |
| `StorageProofs` | proofs about `QuarantineVault`, `BlockStats`, `RealtimeGuard`, `SettingsStore`, `QueryLog` |

Composition: `RealtimeGuard` is one of the callers of `QuarantineVault` and
takes its steps as its own; `QueryPath` calls `SecurityEngine` and
`DeviceQuarantine` step by step, with their locks given up in between; `LanScan`
feeds the inventory of the same `DeviceQuarantine`. `QueryPath` has the reads of
`should_block` in the order of the code, but of what `Blocklist` keeps only which
names are denied, excepted, or remembered with a verdict; `RealtimeGuard` and
`Instances` use of `DnsOverride` only a flag or two steps.

`map` in `PROJECT.json` gives the source lines of every definition.

### DnsOverride

Variables carry the names of the globals where TLA+ allows it: `orig`
(`ORIGINAL_DNS_SETTINGS`), `overridden`, `locked`, `lanOnly`, `protection`
(`protection_atomic`), `cleanup` and `applying` (holders of `CLEANUP_LOCK` and
`APPLY_PROTECTION_LOCK`), `file` (the backup file), `savedProt`
(`protection_enabled` as saved), `streak` (the watchdog's `fight_streak`).
`owner` and `dns` are the setting an adapter had before the program touched it
and has now; `active` the connected adapters; `serving` whether the DNS server
answers; `phase` whether the process runs.

A setting is abstract: DHCP, a static list of the owner (model value), the
resolver `127.0.0.1`, the black hole `127.0.0.2`, or the wildcard address that
a network-wide watchdog is started with.

Threads are `Boot` (start-up and its bind task), `Dog` (watchdog), `Hook` (panic
hook and console handler) and `Users` (any number of threads that carry out
requests of window, tray, hotkey or pipe). `th[t]` holds the label `pc`, the
request `job` and the locals that are used later: the adapters its loop has
still to write, the map a restore took, whether some write succeeded or failed,
and a value read beforehand. `set_system_dns` and the restore are written once,
as steps any thread may be in:

- set: `SetBegin` (`CLEANUP_LOCK`, then the write lock of the map, which is taken
  as long as some thread is at `backup`), `BackUpAdapter` once per adapter that is
  not in the map, `BackUpDone`, `SetAdapter` once per adapter, `SetCommit` (flag up), `Persist` (file, unlock); `SetRefused` and
  `SetFailed` are the early returns;
- restore: `RestoreBegin` (`CLEANUP_LOCK` unless a hook, take the whole map, which
  nobody may hold locked),
  `RestoreAdapter` once per adapter, `RestoreEnd` (flag down, file removed,
  unlock); `RestoreNothing` is the early return on an empty map;
- start: `Start`, `RecoverStale`, `Recovered`, `DetectConflict`, `BindOk`,
  `BindFailed`, `BootSetDone`;
- requests: `RequestProtection` / `ApplyOn` / `ApplyOff` / `ApplyDone`,
  `RequestLock` / `LockDone`, `RequestEmergency` / `EmergencyUnlock` /
  `EmergencyUnlocked` / `EmergencyDone`, `RequestQuit` / `QuitAgain` / `Exit`;
- watchdog rounds: `DogQuiet`, `DogAlarm`, `DogProbe`, `DogFixed`, `DogFailed`,
  `DogYielded`. The pause between rounds is dropped: a round may begin at any
  time. The second way to give up, 120 seconds since the first failure, may
  happen at any count;
- hooks: `HookFires`, `HookDone`;
- environment: `Crash`, `Flap`, `External`, `ResolverDies`.

Critical sections that no other thread can see inside are one step; everything
that another thread, a kill or a failure can come between is a step of its own.
All modules follow this rule.
`Faults` chooses what the environment may do in an instance: kill, kill inside a
set, adapters that come and go, another program that puts the owner's setting
back, commands of a set that fail, commands of a restore that fail, listings
that are not understood, a backup file that cannot be written, a taken port, a
dying resolver, a slow probe, another DNS product, and hooks.

### Blocklist

`published[u]` is the version source `u` serves; its ETag is that number.
`tags`/`tagFile` are `etag_cache` and its file, `file` the domains in
`blocklist.bin` (empty: no file), `store` the domains of the file whose header is
in use, `cache` the verdicts of `fast_cache`, `denied`/`allowed` the operator's
rules, `tmp` the temporary file. A refresh `rf[r]` goes through

`reload → swapIn → forget → ask → fetch → (EndUnchanged | EndPartial | EndComplete)`
`→ create → write → rename → open → swap → clean`

which are `load_cache`, the conditional requests, the three ways a round ends,
`DiskBlocklist::build` and the swap of the store. A lookup `lk[l]` goes through
`allow → deny → cache → self → walk → remember → done`, one label per lock
that `should_block` and `check_disk_hierarchy` take. The lookup holds
`disk_store` for reading from `self` to the end of `walk`, so `UseHeader`, which
writes it, waits for all lookups to be out of there (`NobodyReads`).

Opening the file may fail wherever the code opens it (`ReloadFails`, `OpenFails`,
`Restart`): a refresh then ends as if it had succeeded, with the header and the
cache that were there before, and `unread` records that a file is there whose
header nobody has read. The rename may fail after the live file was removed
(`BuildFails`), which leaves no file.

The search itself is binary search over fixed records with the offsets of the
header in use. When the header belongs to the file that is read, the answer is
exact; when it belongs to another file, `Found` lets a name that is in the file
be missed. `overlap` records that two refreshes have overlapped; `held` in a
lookup the exceptions that were in force ever since the query arrived. Neither
these nor `unread` is in the code, and no step depends on them.

Two refreshes write into a temporary file of the same name
(`disk_store.rs:364`); `strange` is what the other build wrote, and `Rename`
then leaves any subset of both lists.

### QuarantineVault

`place[p]` is the file at a path, `aside[p]` its neighbour `restored_<name>`,
`blob[i]` the vault's file of entry `i`, `index` what `index.json` lists. A caller
`hand[u]` goes through `quarantine_file` as `TakeFile` (read and checks),
`SealBlob`, `ShredOriginal`, `UnlinkOriginal`, `ListEntry` (reads the whole
index), `Truncate` and `SaveIndex` (the write that may stop in between); through
`restore_file` as `RestoreEntry`, `Unseal`, `PutBack`, `Discard`; through
`delete_file` as `DeleteEntry`, `BurnBlob`, `UnlinkBlob`; the last two join the
same update of the index. A content is a model value; overwritten bytes and
half-written files are `Junk`. Nobody is kept from a file that another call is
overwriting: whoever reads it then seals what he found, `Garbled`. `calm` records that no call has failed and no
two had the index in hand at once.

### RealtimeGuard

One tick of the worker is `Wake`, `ScanFolders`, `CheckCanaries`, `CheckDrives`,
`Sift` (flood, canaries, at most `InspectMax` files), per file one of `LeaveFile`
(gone, or longer than 8 MB: `Bulky`), `AnalysisFails` and `InspectFile`, then
`Isolate` / the steps of `QuarantineVault` / `IsolateDone`, `TickDone`. `unseen`
are the files whose stamp is not that of the snapshot; a canary is a version
number and `hash` what is remembered of it: nothing, the hash of a version, or
the raw bytes the planting remembers. `netLock` is `MASTER_INTERNET_LOCKED`;
`set_master_internet_lock` may be refused, and then the flag is what it was
(`LockOutcomes`). `settled` are the files judged as they are, `spared` those the
guard passed over (a flood, the limit of a tick, a failed analysis); `lockFailed`
records that the automatic lock was refused.
`SetEnabled`, `SetOption`, `ForceUnlock` are the operator's switches.

### SecurityEngine, DeviceQuarantine, QueryPath

A handler of a packet is one permit of `run_dns_server`. `call[u]` goes through
the engine's limits (`CountQuery`, `RaiseHardAlert`, `IsolateSource`), the
temporary block (`Screen`, `Expire`), the detectors (`InspectQuery`,
`RaiseFloodAlert`, `Punish`, `RecordIncident`), then `CheckQuarantine` and `Judge`,
the policy (`AskPause`, `AskMode`), `should_block` (`AskAllowed`, `AskRules`,
`AskKnown`, `AskDisk`, `KeepVerdict`, `Decide`), and `AskCache`, `Forward`,
`TakeAnswer`, `Finish`: one step per lock the code takes. `verdicts` is
`fast_cache`: what is remembered of each name, by this query or by one for a name
below it (`LookBelow`), until a change of lists or rules, or another name in its
place, makes it forgotten (`VerdictsForgotten`). Connections probe ports by `Probe`, `RaiseScanAlert`,
`PunishScan`. A history is the sequence of the instants of a source's queries;
one unit of time is a minute, the code's alert cooldown. `held` in a call lists
the facts (source blocked, source isolated, client strict, name ruled out by the
operator, name on the list and not remembered as clear, name kept off private
addresses) that were in force since the packet arrived; no step depends on it.
`DeviceQuarantine` has the three calls that take the inventory's lock:
`UpdateInventory`, `QuarantineIp`, `UnquarantineIp`; an entry that has been
silent is told from one that belongs to another by `age` and `inventory`.

### BlockStats, QueryLog

`BlockStats`: a thread that counts or reads does `StartCount`, `Roll` and
`ResetCount` (key of the period under its lock, count after it), `AddBlock`,
`MarkDirty`; the flush does `StartFlush` (clears `dirty`), `ReadKey`, `ReadCount`
per period, `Store`. `Midnight` moves the calendar. `recorded` counts what was
really blocked when.
`QueryLog`: `PushEntry`, `DropCopy`, `Announce` are `add_log`; `ApplyFilter`,
`SetCopy`, `LiftFilter`, `ClearLogs` the window's; a save is `StartSave` (takes
the list's read lock), `OpenTmp`, `WriteTmp`, `RenameTmp` by the monitor's loop or
by a clear. `readers` are those who hold the read lock.

### Instances, ServiceLink

`Instances`: `main[p]` is the main thread of a window or of the service, `boot[p]`
its task that binds the port; `LoadConfig`, `RecoverAndSpawn`, `Bind`,
`ApplyAtBoot`, `BindFailed`, `Acquire` follow `main.rs`, `AttachOrNot` the choice of
remote mode, `Close`, `ProtectionOff`, `RestoreLast`, `EndProcess` and
`ReportStopped` the exit, between any two of which task and watchdog go on. A round of
the watchdog is `WatchdogLooks`, its reads, and `WatchdogActs`, much later. One step
sets the machine's DNS and one restores it; `DnsOverride` has what is inside them.
`late` records that an override was set after the last restore of its process.
`ServiceLink`: a request is `SendCommand` or `PollTick`, `Connect`,
`DispatchCommand`, `Persist`, `ReplyToCommand`, or `BuildSnapshot` and
`ApplySnapshot`; `CallTimesOut` and `PollTimesOut` end the waiting and not the
request. `known` and `hash` are the hashes of the lists the window sent and the
service answered with. A command may be refused before it changes anything
(`RefuseCommand`). An attached window keeps a configuration of its own, as it was
when it started, and saves all of it (`WindowSaves`: place, autostart, language and
so on) into the same `config.toml`; it has a list of devices of its own too, which
`refresh_ui_state` shows (`RefreshOwn`) without a word to `known_lists_hash`.
`reverted` records that the window's save came after the service's.

### SettingsStore

`settings` is the configuration in memory, `toml` and `part` are `config.toml` and
its temporary file, `acting` what engine and blocker act on. Every save is
`OpenPart`, `WritePart`, `RenamePart`, under the lock (`SetSwitch`, `SetGuard`,
`ChangeRule`, `StampUpdate`, `Quit`) or without it (`PersistPlace`, `Import`).
`StartExport` and `FinishExport` make a backup; `EnforceSwitch` and
`EnforceImport` tell the engine and the blocker. Settings are represented by one
of each kind: acted on at once, acted on first, rules, place of the window, a
date that other threads write.

### LocationScan, LanScan, WfpBlocker

`LocationScan`: `sweep[s]` is a scan with its stack, visited canonical paths and
report: `ChooseFolder`, `StartScan`, `NextFolder`, `NextEntry`, `ScanOneFile`,
`ScanDies`; `StopScan` and `ShowScan` are callbacks of the window, whose event
queue is `toWindow`. The canonical path of a folder enters `visited` before its
name is compared with the names to skip, so a skipped name speaks for every
other name of its folder; `Covers` says what a complete report covers.
`LanScan`: `AskAddress` per address, `ReadTable`, `TellEngine` (the inventory of
the quarantine), `Enrich` per device, `WatchGateway`, `NotifyRisks`, `Publish`,
`EndLanScan`; devices move, the operating system's table learns, the default
gateway changes, and the operator isolates what the table shows.
`WfpBlocker`: `RefreshLists`, `LookEnabled`, `ClearFirst`, `AddFilter`,
`NoteFilter` per filter, `FinishPartly` / `UndoEnable` or `FinishEnable`;
`LookDisabled`, `DropFilters`, `LowerFlag`; `Rescue` is the emergency restore that
does not take the switch's lock, `FlipProtection` tray and hotkey, which invert the
flag before their thread gets the lock, and `BindFails` a start that finds the port
taken: it lowers the flag and leaves the filters. `filterIds` are the filters the
program remembers, `strays` those whose deletion the engine refused: the ids are
forgotten all the same. `deserted` records that the port was not bound and nobody has
switched since.

## 3. What the runs check

| run | instance | properties | shows |
|---|---|---|---|
| `DnsCore` | 2 adapters, one operator thread, a static setting or DHCP; kills, another program, failing sets, dying resolver, taken port | `OriginalsHeld`, `ReleasedIsRestored` | whatever the order of start, watchdog and operator: an adapter without the owner's setting is on record, and with the flag down all are the owner's |
| `DnsFaults` | 1 adapter on DHCP; kills inside sets, flapping, failing restores, listings and file writes, hooks at any moment | `TypeOK`, `BackupIsOwners`, `HookWaitsForListing` | even where settings are lost, no backup names an address of the program, and a hook waits for nothing but a set that lists adapters and can go on |
| `DnsLive` | 1 adapter; kills, another program, another DNS product; fairness | `SettingsAreBorrowed`, `CleanupReleased`, `RevertedIsReenforced`, `StaleOverrideRecovered` | the controller implements `DnsOwnership`; lock released, reverts answered, stale override given back |
| `BlockRefresh` | 4 names in a chain of three and one apart, 2 sources with 2 versions, 2 refreshes, 1 lookup, 1 name with rules; fetches, builds and opens that fail, kills | `TypeOK`, `RulesWhole`, `StoreIsFile`, `CompactionKeepsCoverage`, `CacheFromListsOnly`, `AllowedPasses` | the file is a whole round, its header is in use, compaction is lossless, the operator's rules stay out of the cache and win |
| `Shield` | all other components, in 26 instances (below) | 25 properties (below) | each component keeps its promises in the faults it must meet |
| `DnsFlap`, `DnsEmergency`, `DnsLock`, `DnsDead`, `BlockTags`, `BlockCover`, `SecondLaunch` | see section 5 | one each | the code does otherwise than it says |

### The instances of `Shield`

The components of `MCShield` share no state other than what they extend, so one
run checks them side by side: a behaviour chooses its `subject` at the beginning,
takes the steps of that instance alone, and leaves the others as they began.
`INSTANCE ... WITH` gives an instance its faults and bounds.

| subjects | instance | properties |
|---|---|---|
| `vault` | two callers and one entry for each path, under failing writes, files that cannot be overwritten or removed, kills | `SealedBeforeShred`, `IndexIsVault` |
| `files` | a malicious file and one that is too long for the analysis are saved, quarantined by guard and operator, each with an entry of its own, and restored while ticks run; analyses fail | `NothingSlipsBy`, `SealedBeforeShred`, `IndexIsVault` |
| `canaries`, `drives` | two canaries, tampering, all switches, others that use the lock, locks that are refused; two drives, cooldown, failed spawn | `CanaryAlarmIsReal`, `TamperLocks` (liveness), `NothingSlipsBy` |
| `flood`, `scan` | two handlers, a name of the darknet, which is refused whatever the detectors say; port scans under both switches | `AlertedIsBlocked`, `EachJudgedOnce` |
| `lists`, `policy`, `walls` | the list, the exceptions and what is remembered of a name change under two handlers; rules, exceptions, pause and client modes; local and darknet names, this machine's own queries | `HeldDecides`, `EachJudgedOnce` |
| `devices` | a device is isolated and its address changes hands | `QuarantineSafe`, `ReleasedOnEvidence`, `HeldDecides` |
| `outage` | both permits taken by a trusted client, upstreams out of reach | `PermitReturnsInOutage` (liveness) |
| `stats` | a thread that counts, one that reads and the flush, across a midnight; failing writes, kills | `LoadsNoMore`, `CleanIsStored` |
| `log`, `spool` | a logger, the loop and the window with its filter; kills with two entries, disk failures and kills with one | `LogSurvives`, `WindowFollows` |
| `programs` | a window and the service, installed, started, stopped, removed | `ServedOverride` |
| `commands`, `window`, `views` | two requests at once with timeouts, a pipe that is lost, a disk that is full; refused commands, a window that saves its own configuration, restarts; one snapshot at a time while lists and views change and the window shows its own | `LastWordHolds`, `RulesAreKept`, `KnownIsShown` |
| `settings`, `disk` | window, task and a clone that is saved off the lock, export and import, kills; every fault, and a window that moves | `SettingsAreStored`, `SettingsInForce` |
| `folder`, `clicks` | a folder with a subfolder, a link to it, threats and an empty file, budget 2; two scans of a smaller one | `ReportIsHonest` |
| `asked`, `network` | two scans asked for at once; scans that follow each other, two devices, gateways that change, isolations | `ScansDoNotMix` |
| `filters`, `imports` | a good and a bad target, two threads that switch, flip or rescue, filters and deletions that are refused, a port that is taken; lists that are imported | `AllOrNoFilters` |

`ShieldTypeOK` puts together the type invariants of all these components.

### Bounds

Two adapters are enough to have one written and the other not, one
recorded and the other not. The start-up task, the watchdog and an operator
already meet in pairs and threes on `CLEANUP_LOCK`. Two operator threads, which
are what it takes to contend for `APPLY_PROTECTION_LOCK`, are beyond the runs:
the theorems cover any number of operators and adapters. `YieldStreak` is 1 or 2
instead of 5: the code's counter matters only at its limit and below it.
`DnsFaults` leaves the owner on DHCP, because with unreadable listings DHCP is
what may be recorded anyhow; a static setting that is lost would only add states
that differ in `owner`. Names: a chain of three labels is the shortest in which
a dropped name's own covering name is itself dropped, and in which a lookup
remembers a suffix while a shorter one is blocked. Two versions make "changed"
and "not modified" differ. Two sources make a mixed round possible.

In `Shield`, pairs of actors are enough for every race the hazards name (two
callers of the vault, two handlers, two requests, two saves, two scans, a switch
and a rescue). Limits are reduced to 1 or 2 (histories, blocks, incidents,
quarantine entries, log entries, files inspected or scanned) so that they are
reached and exceeded. The clock runs to 1, a
midnight happens once, the network and the lists of an instance change once:
each property speaks of one change meeting one call. Where a property would need
more to go wrong (three devices, two midnights, three commands), a theorem
covers every number: see section 4. The same holds where a component has two
instances because all its faults and all its bounds at once would be too many
states: two quarantine calls on one path meet no failing write, two scans asked
for at once no moving device, two log entries no failing disk.

`BlockRefresh` uses a state constraint, `Explored`: the second refresh is
followed only while the first one runs, both are followed until they have ended,
and during that time, as after an open that failed, there is no lookup and no rule,
since those do not touch what the refreshes do to file and header. The properties about the file and its
header are stated for refreshes that have not overlapped (with an overlap they
are false, see section 5); the others hold regardless. The theorems need no
constraint.

Several properties of `Shield` are stated up to a condition that the code really
breaks, each recorded by a variable made for it: `unread` (blocklist), `calm`
(vault), `planted` and `lockFailed` (canaries), `spared` (files), `crowded` and
`lifted` (log), `forced` and `late` (programs), `unsure`, `reverted` and `strayed`
(link), `mixed` and `adrift` (settings), `crossed`, `amended`, `deserted` and `strays`
(filters), `lapsed` (LAN scan: a scan was made with the watch off). Section 5
says what happens when the others are met.

Deadlock is checked in the runs of `DnsOverride` and `Blocklist`: some thread can
always go on. `Shield` does without, since an instance ends when its bounded
inputs (queries, entries, changes, clicks) are used up.

### Fairness

`FairSpec` of `DnsOverride` assumes strong fairness of `ThreadStep(t)` for every
thread: the operating system and the async runtime keep scheduling every thread;
the watchdog's task loops for the life of the process; and a thread waiting for
`CLEANUP_LOCK` gets it sooner or later, because each holder runs a bounded loop
of commands with timeouts while the competitors pause between their calls (a
watchdog round every eight seconds or more, an operator). Strong rather than weak
because the lock is free again and again rather than from some time on. Nobody is
obliged to make a request, to start the program, or to cause a fault.
`StaleOverrideRecovered` and the rest are leads-to properties with a kill as
an allowed way out.

`ShieldSpec` assumes weak fairness of the guard's worker in `canaries`, whose
thread loops for the life of the process, and of each handler in `outage`, whose
task the runtime polls: a handler waits for nothing but upstreams, and that
waiting has a timeout, which is the step. Nobody has to save a file, tamper with
a canary, or send a packet. `TamperLocks` is for locks that are not refused for ever:
it says that, again and again, no tampered canary is left with the network open.

## 4. What is proved

All theorems are of the components' specifications without any bound: any finite
non-empty set of adapters, any operator threads, either listen address, any
subset of faults; any domains, sources, bodies, refreshes and lookups; any paths,
entries and callers; any devices, scans, targets, requests, lists, counters and
days. The assumptions are the named `ASSUME`s of the modules: special values
differ from model values, the suffixes of a suffix are the rest of the suffixes,
bodies are lists of domains, limits are naturals, a trim of the engine's
histories drops at least one and no more than it keeps, functions have their
domains. Three theorems state one more: `StartupGivesBack` that the environment
loses nothing (`Lossless`, below), `ScansEnd` that the tree is finite
(`FiniteTree(m)`: finitely many canonical folders, at most `m` entries in each),
`TicksEnd` that the files under guard are.

| module | theorem | states |
|---|---|---|
| `DnsOverrideTypeProofs`, `DnsOverrideProofs` | `TypeCorrect` | `TypeOK` of `DnsOverride` |
| | `BackupsAreOwners` | `BackupIsOwners`, for every set of faults and both listen addresses |
| | `OneCleanup` | `CleanupExclusive`: those who set or restore, hooks aside, take turns |
| | `OriginalsAreHeld`, `ReleasedMeansRestored` | `OriginalsHeld`, `ReleasedIsRestored` |
| | `LocksAreWorked` | `CleanupFits`, `ApplyFits`, `NoCircularWait`: both locks are with a thread at work, and nobody waits in a circle |
| | `HoldersFinish` | the holder of `CLEANUP_LOCK` gets nearer to giving it back, and nothing sets it back |
| | `HooksGoThrough` | hooks do not stand before `CLEANUP_LOCK`, wait for a set that lists adapters at most, and come to their end |
| | `StartupGivesBack` | a start reaches the DNS server with every adapter the owner's |
| `DnsRefinementProofs` | `OverrideImplementsOwnership` | `SettingsAreBorrowed` |
| `BlocklistProofs` | `BlocklistTypeCorrect` | `TypeOK` of `Blocklist` |
| | `RefreshKeepsRules`, `HeaderIsCurrent` | `RulesWhole`, `StoreIsFile` |
| | `CompactionIsLossless` | `CompactionKeepsCoverage` |
| | `CacheHasOnlyLists`, `ExceptionsPass` | `CacheFromListsOnly`, `AllowedPasses` |
| `QueryProofs` | `ProtectionDecides`, `CountsAreEven`, `AlertedStaysBlocked` | `HeldDecides`, `EachJudgedOnce`, `AlertedIsBlocked` |
| | `QueryUsesDevices` | `QuerySpec` implements `DevicesSpec` |
| | `ServerIsolatesSafely`, `ServerReleasesOnEvidence` | `QuarantineSafe`, `ReleasedOnEvidence` of `QuerySpec` |
| | `HandlersFinish` | a handler gets nearer to its end, 21 steps away at most |
| | `QueryTypeCorrect`, `MemoryStaysBounded` | types; at most `MaxTracked + 1` histories, each within its limit or cut to the last `Keep` |
| `NetworkProofs` | `DevicesTypeCorrect`, `IsolationIsSafe`, `ReleaseNeedsEvidence` | types, `QuarantineSafe`, `ReleasedOnEvidence` |
| | `LanTypeCorrect`, `ScansStayApart` | types, `ScansDoNotMix` |
| | `ScansIsolateSafely`, `ScansReleaseOnEvidence` | `QuarantineSafe`, `ReleasedOnEvidence` of `LanSpec` |
| | `LanScansEnd` | `is_scanning` is on just while a scan is on its way, and that scan ends |
| | `WfpTypeCorrect`, `FiltersAreWhole` | types, `AllOrNoFilters` |
| `LinkProofs` | `LinkTypeCorrect`, `LastWordIsKept`, `RulesStayKept`, `KnownStaysShown` | types, `LastWordHolds`, `RulesAreKept`, `KnownIsShown` |
| | `OverrideIsServed` | `ServedOverride`, for one window and the service |
| | `ReportsAreHonest` | `ReportIsHonest` |
| | `ScansEnd` | the scan of a finite tree ends, with cycles and aliases in it |
| `StorageProofs` | `VaultTypeCorrect`, `OriginalsAreSealed`, `IndexListsVault` | types, `SealedBeforeShred`, `IndexIsVault` |
| | `CallsEnd` | a call of the vault ends, in 6 steps at most |
| | `StatsTypeCorrect`, `RestartLoadsNoMore`, `NothingIsForgotten` | types, `LoadsNoMore`, `CleanIsStored` |
| | `GuardTypeCorrect`, `NothingIsMissed`, `AlarmsAreReal` | types, `NothingSlipsBy`, `CanaryAlarmIsReal` |
| | `GuardUsesVault` | `GuardSpec` implements `VaultSpec` |
| | `GuardIsolatesSafely` | `SealedBeforeShred` and `IndexIsVault` of `GuardSpec` |
| | `TicksEnd` | a tick of the guard ends, in 9 steps for each file and 5 more at most |
| | `StoreTypeCorrect`, `ChangesAreStored`, `SettingsAreObeyed` | types, `SettingsAreStored`, `SettingsInForce` |
| | `ClearedStaysAway`, `WindowShowsLog` | `LogSurvives`, `WindowFollows` |

**DnsOverride.** None of the properties is inductive. `IndInv` adds where every
thread may be (`Schedule`), that whoever changes adapters holds the lock except
hooks and the recovery (`HoldsCleanup`), that a restore has an entry for what it
is about to write, and, for environments that lose nothing (`Lossless`: no kill
inside a set, no flapping, no ignored restore failure, no unreadable listing, no
failed file write, no hook), the conjuncts of `Kept`: records hold the owner's
settings; an adapter with no entry that no restore is about to write is
untouched; a restore in progress emptied the map; the recovery restores what it
has passed; the file names every adapter that is not the owner's, unless a set
is between its first write and its save. `Lossless` is stated in the
properties because each of those six faults really loses a setting; section 5
has the first of them.

Most steps touch none of this. `Quiet` says so once, `StepKinds` shows that
every step is a start, a set, a restore, a quiet step, an end of the process or
one of the environment, and each conjunct is then proved once for quiet steps and
once per remaining action.

**The locks.** `DnsOverrideInv` ends with what lies behind `CleanupReleased` once the
scheduling is left out. `CleanupFits` and `ApplyFits` say that a lock that is taken is
taken by a thread that is in the part of the code the lock is for; for
`APPLY_PROTECTION_LOCK` this is an equivalence, so no path out of a switch, a failed
set or an exit leaves it behind. With them nobody `Waits` in a circle: who waits
for a switch may wait for its set, and a set or a restore that has its lock waits for
nobody. `Burden` counts the adapters that the holder of `CLEANUP_LOCK` has still to
list and to write and the steps after them; that it does not grow rests on the map being locked
while adapters are listed, for a hook that took the map away would make the set list them again; `HoldersFinish` shows for every step of every
thread and of the environment that it leaves the holder alone, lowers its burden or
frees the lock. `HookLeft` is the same for hooks, which hold nothing and may have to wait for a listing, whose end is `HoldersFinish`. What remains for
fairness is only that a thread that can go on does.

**Other calls that end.** The scheme is the same elsewhere: a measure that each step
of the call lowers and that no step of anyone else raises. `StepsLeft` gives each
label of a handler the length of the longest way from it to the reply; `CallSteps` does
so for the vault. `TickSteps` adds the files still to be inspected, nine steps for each
with its quarantine call (`CallFitsTick`: the guard is in a call only while it isolates).
`LanEffort` has two sweeps over the addresses; with `FlagIsHeld` the flag that refuses
a second scan is down again at its end. `Effort` of a folder scan is the one that could
fail: it counts canonical folders not yet visited and those that wait on the stack, so
that a link or a cycle, which adds to the stack without being new, would have to be paid
for; the walk tests `visited` first, and pays with what it marks.

**The refinement.** `DnsOwnership` knows adapters, the owner's settings and what
is kept for each: an adapter is overwritten only while its setting is kept, what
is kept is never replaced, and it is dropped only when the adapter has the
owner's setting again. `DnsRefinement` maps "kept" to the map of a
running restore, else to `ORIGINAL_DNS_SETTINGS`, else, while no process runs, to
the backup file. `OverrideImplementsOwnership` proves the simulation: with
`IndInv`, the initial states map to initial states, and every step of every
thread, a kill and a recovery included, to a backup, a write, or a stutter.

**Blocklist.** `IndInv` adds that no refresh has a body that is not published,
that what is built is the compaction of what was fetched, that everything in
file, header, temporary file and positive verdicts is known to a source or built
in, that a lookup past the exceptions is not covered by those that hold, and that
without overlap one refresh at a time has its header and file to itself. A file that
could not be opened keeps the old header in use until a reload, a refresh or a start
reads it: `HeaderIsCurrent` is for all times but those.
`CompactCovers` is the lemma about data: among the rules that cover a name, one
with the fewest suffixes survives compaction, by well-founded minimality on the
number of suffixes.

**QueryPath, SecurityEngine.** `DecideInv` says that a call is a query of a name or
a port scan, each with labels of its own (`QueriesFit`); that what a handler
remembers as held since the query arrived holds now (`HeldNow`), because blocks
only get longer while they are on and changes of lists, policy and quarantine
take back what they end; and how far a query gets under each shield
(`Decided`): a source that is banned past no look at the bans, one that is
isolated past no look at the quarantine, a name that a rule denies past no look at
the rules, a listed one past no look at the list, and so on to the reply. Most steps
of the engine differ only in label and verdict, so one lemma says what a step does
to the call and another what it does to blocks; `HoldingDecides` is for every
change from outside, which can only take facts away, and `KeepDecides` for the one
step of a handler that takes facts from the others: remembering a name as clear. `JudgeInv` adds that the difference
of the counters is the number of handlers between the two counts; each step
moves at most one handler in or out, which is why the handlers have to be finitely
many. `AlertInv` adds that alerts are not of the future, and that a source with
an alert that still silences others has a live block or a handler about to set it.
`QueryInv` gives every variable its type and bounds the histories: `Trimmed` comes
first and leaves at most `MaxTracked` sources, since what it drops is the idle ones
and then `Drop` of the live ones, and `Counted` adds one and cuts what is beyond its
limit.
`QueryUsesDevices` is a step simulation: the packets' look at the quarantine, the
operator and the inventory are steps of `DeviceQuarantine`, everything else leaves
its variables alone, so what is proved of it holds while queries are answered.

**QuarantineVault.** `SealInv` adds to `SealedBeforeShred` that a busy caller has
an entry, that entries in hand or listed have been issued, and that a call that
has not listed its entry has it to itself: so nobody else can unseal or burn the
blob it relies on. `LedgerInv` adds that entries not yet issued have no blob, and
the ledger: while `calm`, at most one thread holds the index, and what
it holds, or else the file, is exactly what the vault owes.

**RealtimeGuard.** `Noticed` says of each file that is there that its stamp is new
to the snapshot, that it has been judged, that it waits to be inspected, or that it
was passed over for one of the named reasons, and
that nothing waits between two ticks; with it `NothingSlipsBy` is inductive over
files that are rewritten, quarantined and restored during a tick. `CanariesFit`
says that what is remembered of a canary that nobody touched or planted is nothing or
its hash. `GuardUsesVault` shows that each step of the guard is one of
`QuarantineVault` or none, for a new caller as for those already there, and so the
two properties of the vault are inherited rather than proved again.

**SettingsStore.** `StoreInv` is the account of one configuration, one temporary
file and two ways to write them: whoever holds the lock saves what is in memory
(`LocksFit`); while nothing is `adrift`, and in any case for a save that began and
goes on alone under the lock, the save is alone, of what is in memory, and moves the
file it opened (`SavesFit`, which is why such a save mends what was adrift); while
nothing is `mixed` no file is torn; and with no save on, `config.toml` is the
configuration unless it is adrift (`TomlFits`). `ForceFits` is for
`SettingsInForce`: it says, per step of a callback of the window, which switch
engine and blocker do not act on yet; the edit of the rules, which tells the
blocker first, needs the rules that were added or taken and those that other
threads did not touch.

**QueryLog.** `LogInv` rests on the read lock: a thread that saves holds it and has
what is listed in hand (`HandsFit`), so a temporary file that is open or being moved is
torn or holds what is listed (`FilesFit`), even when two saves share it; what was
cleared is in neither (`ClearsFit`), and a save that nobody disturbs leaves no torn
file (`AloneFits`). `Follows` adds to `WindowFollows` who still has to announce the
change.

**DeviceQuarantine, LanScan, WfpBlocker.** `QuarantineSafe` is inductive with the
types; the cap needs a cardinality argument. For the scan, `ScansApart` says that
one scan runs, `PictureFit` what list and inventory are at each of its steps,
`MeantFit` that an entry is bound to what the operator saw, `GateFit` how the
gateway on record follows the list, `RiskFit` that what is listed as risky was
notified, and `AlarmFit` is the account of the alarms: the alarms given for an
address, plus the changes along record, found list, table of the operating
system and network that have not been reported, are never more than the changes
of its MAC. For the filters, `CallsFit` says which call is at which step and
that one switch runs at a time, `IdsFit` how the remembered ids lag behind the
engine, `WholeFit` what filters, lists and flag have to do with each other in
the middle of a call, `OffFits` that with the flag down the blocker is off, or about
to be, unless the start was deserted. For the two properties of the quarantine under the scan, every
step of the scan is shown to be one of `DeviceQuarantine` or none
(`LanMovesDevices`): the table it hands over is the one it read, so the inventory of a scan
is one its own specification allows.

**LocationScan.** `LocInv` says of each scan that the threats are those among
the files scanned, within the budget (`Counted`); that of each entry it met it has dealt
with, it has it in hand, or it is still to come, and of each canonical path it
visited a name was read, was skipped, or waits on the stack (`Complete`): when
nothing waits any more, this is what the report claims; and that the engine was told
of what is malicious (`Told`). `StopFits` and `CancelFits` tie the stop flag, which
scans share, to the scan it was meant for.

**ServiceLink, Instances, BlockStats.** `RulesInv`, `WordInv` and `ShownInv` say what the
requests still under way carry, so that overtaken commands keep rules and
configuration together, the last answered command is the one in force when
nothing is unsure, and the hash of a snapshot belongs to the list that is shown,
or lies under the window's own; a save of the window takes nothing from the service
but the file, so each of them speaks of the file only while nothing is `reverted`.
`ServeInv` says that a task for the port belongs to a process that is up and runs
the stack itself, that it has the port once it is past binding (`TasksFit`), that
the mutex belongs to a window past its acquisition (`MutexFits`), and that only a
process that serves remembers the servers it replaced, unless an operator forced
it, or it did so when it had made its last restore (`HoldersServe`). With a second window the theorem is false: its task may
bind the port and set the DNS before it finds the mutex taken and exits, which
is why `OneWindow` is assumed; `SecondLaunch` has the beginning of that.
`StatInv` adds that no key is of the future (`NoFuture`), that counts are of
increments really made in their period (`CountsAreReal`), and that nothing is left
of a flush that is over (`FlushRests`). `NothingForgotten` is for `CleanIsStored`:
while nothing is marked dirty, what the flush has read, or the file when no flush
is on, is what is counted, unless some thread has yet to mark its change.

**Only model-checked.** Liveness under fairness is out of the prover's reach:
`CleanupReleased`, `RevertedIsReenforced`, `StaleOverrideRecovered`, `TamperLocks`
and `PermitReturnsInOutage`. Of four of them the part that needs no fairness is
proved: `HoldersFinish` with `LocksAreWorked`, `StartupGivesBack`, `TicksEnd` and
`HandlersFinish`. `RevertedIsReenforced` has none that a measure could state: the
watchdog may need several rounds, and other threads may undo what a round did. `HookWaitsForListing` is an
`ENABLED` formula; `HooksGoThrough` states what it means for the guards of the hook's
steps, and that they end. `ShieldTypeOK` puts the type invariants of the components of
`Shield` together; most are proved each for its component (`GuardTypeCorrect`,
`QueryTypeCorrect`, `StatsTypeCorrect`, `LinkTypeCorrect`, `StoreTypeCorrect`,
`LanTypeCorrect`, `DevicesTypeCorrect`, `WfpTypeCorrect`), those of `QueryLog`,
`Instances` and `LocationScan` as far as the invariants of these modules need them,
and the conjunction, over instances with values of their own, is TLC's. All other invariants and action properties of the
passing runs are proved. The disagreements of section 5 are counterexamples on small
instances.

## 5. Disagreements between the code and what it says of itself

Each has a run that TLC ends with a counterexample, and an entry under
`findings` with the line of the doc or comment.

- **An adapter that is disconnected during a restore keeps the program's
  address** (`DnsFlap`, `NothingLeftBehind`). The restore takes the whole map,
  puts back the connected adapters and removes the file
  (`dns_manager.rs:643-668`, `797`). README.md:58: "100% Fail-Safe".
- **The emergency restore ends overridden** (`DnsEmergency`,
  `EmergencyRestores`). It restores and then calls
  `set_master_internet_lock(false)`, which sets `127.0.0.1` again
  (`handlers.rs:2707`, `dns_manager.rs:802-805`).
- **Switching protection on undoes the master lock** (`DnsLock`,
  `LockBlackholes`). `apply_protection(true)` does not look at the flag
  (`handlers.rs:145`), and the watchdog stands aside while the flag is up.
- **A dead resolver is not noticed** (`DnsDead`, `DeadResolverReleased`, under
  fairness). The watchdog probes only after the adapters differ
  (`dns_manager.rs:1008-1019`), against the comment at 1020-1022.
- **A source that changed alone is never loaded** (`BlockTags`,
  `TagMeansLoaded`). A mixed round drops the fresh body and keeps its ETag
  (`dns/mod.rs:690-705`).
- **A cached suffix hides a shorter one** (`BlockCover`, `CacheAgrees`).
  Looking `a.b.ads.com` up remembers `b.ads.com` as clear although `ads.com` is
  blocked (`dns/mod.rs:892-893`).
- **A second launch does more than signal** (`SecondLaunch`,
  `SecondLaunchOnlySignals`). `AppState::new` (`main.rs:93`) starts the background
  services before the single-instance check (`main.rs:99-104`): it gives the
  running window's override back (`app/mod.rs:180`), or saves
  `protection_enabled = false` when the port is taken (`app/mod.rs:312-332`).

Met while modelling, with no run of their own:

- DNS: the hooks' restore that "would deadlock" on `CLEANUP_LOCK`
  (`dns_manager.rs:634-635`, `962-963`) and is "lock-free" (`dns_manager.rs:977`) takes the write lock of the map
  (`dns_manager.rs:644`), which a set holds while netsh lists the adapters
  (`dns_manager.rs:410-438`): a hook waits for the listing, and a panic of the
  listing thread itself would wait for ever (what a thread does after a panic of its
  own is not modelled: `Hook` runs beside the others). The watchdog or the start-up task can override between the last restore
  of an orderly exit and the end of the process (`main.rs:146`; `late`). The next start
  recovers it, unless another process makes a restore of its own first: one that
  remembers no servers leaves the adapters and removes the file all the same
  (`dns_manager.rs:797`), and then no start gives this override back; in network-wide mode the watchdog compares the adapters with
  `0.0.0.0` (`app/mod.rs:253`); with port 53 taken protection can be switched on
  again with nothing behind `127.0.0.1` (`app/mod.rs:312`; `forced`).
- Blocklist: overlapping refreshes share the temporary file that a comment calls
  unique (`disk_store.rs:364`) and may swap their headers in the wrong order. A new
  file that cannot be opened is passed over (`dns/mod.rs:720`) while the log and the
  caller are told that its domains are loaded: lookups then search it with the header
  of the old one (`unread`). A rename that fails after the live file was removed
  (`disk_store.rs:475-477`) leaves no list, and the tags saved before answer the next
  refresh with "not modified".
- Verdicts: a name that only a parent on the list denies is resolved when another
  query has remembered it as clear (`BlockCover`); `HeldDecides` promises nothing for
  it.
- Quarantine: a kill between the shred and the index leaves a blob nobody lists
  (`file_quarantine.rs:166-177`); two calls at once can lose an entry; a file
  edited between its reading and its shredding is destroyed unsealed; an older
  `restored_<name>` is overwritten (all: `calm` is false, or not promised).
- Guard: the canary it plants is remembered by its bytes and compared by its
  hash, so it is reported, and with the automatic lock the network closed, on
  every tick (`realtime_guard.rs:196`; `planted`); `lock_active` is never raised;
  of more than 24 changed files, or of a flood, the rest are never inspected
  afterwards, nor is a file over 8 MB (`realtime_guard.rs:351`) or one whose analysis
  failed (`realtime_guard.rs:357`), until it changes again (`spared`); an automatic
  lock that is refused is only logged (`realtime_guard.rs:470`), and tried again while
  the canary differs; the first removable drive is not reported.
- Engine: a block of ten minutes is shortened by a later one of a minute
  (`security/mod.rs:417`).
- Log: an `add_log` that crosses an `apply_filter` leaves a stale filtered copy,
  lifting a filter does not change the version (`lifted`), and overlapping saves
  share one temporary file (`crowded`).
- Pipe: a command that timed out is still carried out (`unsure`); a view that
  shares its tab with another keeps stale lists, since the hash is the tab's
  (`strayed`); two patches at once can leave engine and configuration apart. An
  attached window saves the configuration it started with, with its place or its
  language, over the service's (`poller.rs:42-88`, `handlers.rs:612-718`): the settings
  the service was given since are gone when it starts again (`reverted`). Isolating a
  device shows the window's own list of devices, which nothing fills in remote mode,
  over the service's (`refresh.rs:723`), and as the hash is the same the service does
  not send its list again until it changes.
- Settings: a cut or unreadable `config.toml` loads as defaults, which the next
  save makes permanent; two saves are made off the lock (`mixed`, `adrift`) despite
  the comment "Atomic write"; an import changes the configuration and not the
  engine's switches.
- Folder scan: a second click takes back the stop meant for a running scan;
  folders that cannot be read are not in the report; a folder met under a name that
  is skipped is not read under another name either
  (`security/location_scan.rs:264-265`).
- LAN scan: the gateway is looked at by a scan, and scans are made at the start, by
  "Refresh" and in every hundredth round of the monitor's loop, two and a half minutes
  apart (`monitor/mod.rs:389-395`), although README.md:48
  says "Alerts the moment your gateway's MAC address changes unexpectedly"; a device that is new at an
  address already reported is not; what is isolated while a scan runs may be the
  device that has just taken the address.
- Filters: none is added at a start with protection already on; imported lists
  wait for the next switch (`amended`), against `handlers.rs:117-118`; an
  emergency restore that meets a switch can leave the flag and the filters apart
  (`crossed`); a filter whose deletion is refused goes on blocking its target with its
  id forgotten (`blocker/mod.rs:310`; `strays`); a start that cannot bind the port
  lowers the flag and leaves the filters (`app/mod.rs:314`, `325`; `deserted`); the
  filters outlive a kill until the machine restarts.

## 6. What is not modelled

Of the modelled parts:

- `DnsOverride`: the IPv6 setting that is saved and restored beside the IPv4 one,
  the LAN firewall rule, the choice between netsh and PowerShell (only that both
  failed matters), the modes of `dns_conflict_mode` other than "auto".
- `Blocklist`: the lines of lists and their filtering, the public suffixes no
  list may contain, the resolution of the sources' hosts, the migration of the old
  text cache, the size limits of downloads, and hash collisions of `fast_cache`
  beyond eviction.
- `QueryPath`: sockets, the wire format, the ranking of upstreams, DNS over HTTPS
  itself; the response policy, which nothing but a test sets.
- `SecurityEngine`: the score and the scripts that call the Windows firewall.
- Client policy: the counters of blocks by name and by client.
- `ServiceLink`: how the pipe authenticates its clients.
- `SettingsStore`: the secrets (DPAPI), the registry.
- `RealtimeGuard`: that files of the quarantine are passed over (its folder is not
  among those that are watched).
- `LocationScan`: entries of a folder that cannot be listed, which are passed over
  (`location_scan.rs:249`, `259-262`).
- `LanScan`: discovery of names, vendors and ports; activity counters by address; a
  gateway that cannot be determined (`win32_net.rs:68-134`) and adapters that cannot be
  listed (`lan_scanner.rs:828-830`).
- `Instances`: hot key, tray, autostart, the hardening of the process.

Not at all, with the reason in `PROJECT.json`: sinkhole, file analysis and
signatures, memory map, logging, languages, timing, build and installer. They
parse, lay out or read tables of the operating system and keep no state that a
property is about. The same holds for the connection and diagnostics monitors, the
vulnerability scan and the estimate of a scan's remaining time.

## 7. Plan

Done: `DnsOverride`, `Blocklist`, then `QuarantineVault`, `RealtimeGuard`,
`SecurityEngine` with `DeviceQuarantine`, `QueryPath`, `BlockStats`, `QueryLog`,
`Instances`, `ServiceLink`, `SettingsStore`, `LocationScan`, `LanScan`,
`WfpBlocker`, the abstract `DnsOwnership` with its refinement, and the proofs of
section 4.

Left, in this order:

1. `Blocklist` as the verdict of `QueryPath`: its names with their suffixes and its
   store in place of the set of denied names, as a second refinement.
2. Two operators on one adapter in `DnsOverride`, about the order of concurrent
   switches.
3. The client policy's counters, next to `BlockStats`.
