# A TLA+ model of CC-rDeviceAgent

CC-rDeviceAgent is an agent that runs on a device: it starts and supervises payload
applications, gathers telemetry, takes commands over gRPC and MQTT, serves the applications
over a local IPC platform, and upgrades them. This directory models the parts of it whose
correctness depends on the order of events: tasks that share state, multi-step handlers,
restarts of the agent, failed system calls. Paths are relative to the repository; `app.rs`
means `src/app.rs`.

Every module is translated from the source; what a doc or a test promises appears only as a
property. Four such properties are refuted by the code, see *Findings*.

## 1. Inventory

| Component | State | Operations | Who touches it | What is hard | What makes it correct |
|---|---|---|---|---|---|
| **App lifecycle manager** (`app_lifecycle.rs`) | table of apps in one task; processes of the machine | register, install, start, stop, restart, uninstall, three queries | handlers of `app.rs`, the app platform, the health loop, through a mailbox of 64 | processes exit and are signalled behind its back; partial failures of start and stop; agent restarts | the table and the process table agree: a pid is the app's own, no live process is forgotten silently |
| **Device control** (`app.rs`) | none of its own; several steps per request | StartApp, CloseApp, RestartApp; reboot, telemetry profiles, ExecuteCommand, queries | gRPC clients, concurrently | look-then-act over the process table and the lifecycle task | handlers use the manager legally; every request is answered |
| **File transfer** (`app.rs`) | files under the managed root | upload, download, rename | gRPC clients | concurrent uploads to one path, writes that are only queued, a rename under an open file, a longer file already there | an upload answers for the file its chunks made |
| **Config manager** (`config_manager.rs`) | map and version counter, `config_versions` table, broadcast channel | set, delete, get, snapshot, subscribe | app platform (reads), library callers (writes) | three locks per write, restart, lagging watchers, refused inserts | read-your-writes, announced is durable, watchers converge |
| **Upgrade engine** (`upgrade_engine.rs`) | state, current manifest, `upgrade_state` table, three directories per app | one `run` through 14 states | library callers | crash or I/O error at any step, retries, stale backups | all or nothing; the record never says more than the disk |
| **App platform** (`app_platform.rs`) | sessions, manifests, streams | register, heartbeat, health, publish, watch, subscribe, get config, unregister | payload apps over IPC | sessions that expire or are revoked while streams are open, handlers over store + lifecycle + audit | no effect without a valid session and an audit entry |
| **Health evaluator** (`health_evaluator.rs`) | streak of failures and last restart per app | report, set policy | app platform; a loop in `app.rs` performs the actions | actions are sent after the lock is released and wait in a channel of 64 | restarts are spaced; every action is carried out |
| **Security chain and audit** (`agent-core`) | replay guard, audit sink with a hash chain | authenticate, authorise, check replay, write entry and exit | every northbound request, every IPC request | entries are synchronous, exits are not; ids; a window of time | no handler without an entry; no replay accepted; the chain verifies |
| **Data router** (`data_router.rs`) | subscribers per app, uplink to MQTT | publish, subscribe, deliver | app platform, MQTT | indices kept over an await | a live subscriber is never dropped |
| **Agent state and telemetry** (`state.rs`, `telemetry.rs`) | profiles in file, memory and a watch channel; deadlines | replace profiles, schedule, gather | gRPC, the scheduler | unsynchronised steps; catching up after sleep | file, memory and scheduler converge |
| **MQTT client** (`mqtt.rs`) | worker, request channel, handlers | subscribe, publish, poll | service start-up, telemetry, router | the worker waits for the queue it alone empties; reconnects | commands arrive, no deadlock |
| **Alert engine** (`alert_engine.rs`) | firing state per rule, history of 1000 | evaluate, add, remove, resolve | library callers | cooldown, duration and disabling over sequences | an alert fires once per cooldown, and resolves |
| **Batch, group, tag stores** | SQLite and a cache each | CRUD, assignments, status of a task | library callers | database and cache under separate locks | the cache equals the database |
| **Scripts** | SQLite under one lock; a renderer | CRUD, favourites, import, substitution | library callers | callers write back copies; import in several transactions | acknowledged changes survive; no placeholder is left |
| **Monitors and plugins** (`plugins.rs`, `*_monitor.rs`) | status, configuration, statistics and the last reading, each under its own lock | init, start, stop, collect | library callers | refresh and read under different locks; a lock taken twice | an answer describes one moment of the call |
| **Network sampler** (`state.rs`) | the interfaces as last refreshed | snapshot | gRPC, telemetry | callers share the counters | no byte is counted twice |
| **State store** (`agent-store`) | SQLite, several connections | one method per table | everyone | the hash chain is read and written in two statements | the chain verifies |
| **PAL** (`pal-*`, `platform.rs`), **config file**, **app SDK** | none that others depend on | system calls, parsing | everyone | failures only | - |

The service (`run` in `app.rs`) wires the security chain around the gRPC services, gives the
handlers and the app platform a handle on the one lifecycle task, and spawns the health loop
that turns health actions into lifecycle restarts. Batch, groups, tags, scripts, plugins,
alert engine and upgrade engine are library modules that the service does not wire in yet.

The hazards of each, with their lines, are in `PROJECT.json`.

## 2. What is modelled

| Module | Models | State | Actions |
|---|---|---|---|
| `AppLifecycle` | the lifecycle task, its handles and the processes | `apps` the table, `os` the process table, `mailbox` the mpsc channel, `call` what each handle call is doing | one `Serve...` per command, whose handler `Do...` maps the table and the processes to the set of possible outcomes (the PAL may fail); `Send`, `Return`, `Drop` of a call; `Exit`, `Kill`, `AgentRestart` |
| `AppLifecycleProofs` | - | - | theorems about `AppLifecycle` |
| `DeviceControl` | StartApp, CloseApp, RestartApp (`app.rs:411-491`, `941-1036`); extends `AppLifecycle` | `rpc` where each handler is | one action per step between two awaits: `Scan`, `AskInstall`/`Installed`, `TerminatePid`, ... ; `Disconnect` at any of them |
| `DeviceControlProofs` | - | - | theorems about `DeviceControl`; that it implements `AppLifecycle` |
| `ConfigManager` | `config_manager.rs`, the `config_versions` table and the WatchConfig forwarder | `version`, `memory`, `rows`, `task` (what a writer has left to do), `log` and `watch` (the broadcast channel and its streams) | one action per lock: `Set`/`Remove`, `Persist`, `Publish`; `Delete` with its separate existence check; `Forward`, `Lag`, ...; `Restart` |
| `ConfigManagerProofs` | - | - | theorems about `ConfigManager` |
| `UpgradeEngine` | `upgrade_engine.rs` with the strategy for applications | `state`, `current`, the directories, `records` (the table) | one action per persisted state, per file copied or removed, per rename; `FailStep` for an I/O error, `Crash` |
| `UpgradeEngineProofs` | - | - | theorems about `UpgradeEngine` |
| `AppPlatform` | sessions, registration, heartbeat, health reports and unregistering of `app_platform.rs`, the health evaluator and the health loop of `run`; extends `AppLifecycle` | `session` (the table), `held` (what clients know), `request` where each handler is, `health`, `actions` (the channel), `acting` (the loop), `clock` | one per critical section or await: `Register`, `Admit`, `Touch`, `Revoke`, `Evaluate`, `SendAction`, `TakeAction`, ...; `Disconnect`, `Tick`, `PlatformRestart` |
| `AppPlatformProofs` | - | - | theorems about `AppPlatform`; that it implements `AppLifecycle` |
| `AuditedCall` | what the security chain promises of a call: abstract specification | `phase` of each call, `trail` | `Refuse`, `Begin`, `End`, `RecordLate`, `Crash` |
| `AuditTrail` | the interceptor of `agent-core/src/chain.rs`, `secured_rpc` of `app_platform.rs`, both `AuditWriter`s, `StateStore::append_audit_event` and its table | `req` where each request is, `append` where each append is, `lock` the mutex, `queue` the exit channels, `rows` | one per statement of an append (`Acquire`, `ReadHash`, `ReadNumber`, `Insert` or `Conflict` or `InsertFails`), `Take` of the background task, and the steps of the chain: `Refuse`, `RefuseSession`, `Deny`, `Allow`, `Finish`, `Cancel`; `Restart` |
| `AuditTrailProofs` | - | - | theorems about `AuditTrail`; that it implements `AuditedCall` |
| `TagStore` | `tags_store.rs` over `tags.rs` | the two tables, the tag cache with its statistics, the two assignment lists, what each caller is doing | per statement (`InsertTag`, `DeleteTag`, ...) and per cache lock (`CacheTag`, `PushByDevice`, `CacheByTag`, ...); a statement may fail; `ReopenTagStore` |
| `GroupStore` | `groups_store.rs` over `groups.rs` | table, cache, statistics, callers | the statement, the cache step, the statistics step |
| `BatchStore` | `batch_store.rs` over the task life cycle of `batch.rs` | tasks, items, cache, statistics, what each caller is doing | `CreateTask`, `UpdateTask` with any task as it is handed over, `DeleteTask`; then one per statement, the items of a task one by one, and per cache lock |
| `Stores`, `StoresProofs` | the three stores side by side | theirs | theirs; theorem `CachesAgreeWithTables` |
| `BatchPlan` | `TargetSelector`, `determine_execution_order` of `batch.rs` | one call | the plan for every selector, policy and fleet of the instance |
| `ScriptStore` | `script_store.rs` over `scripts.rs` | two tables, the copies callers hold | one per critical section of the mutex; `toggle_favorite` and `import` have several |
| `ScriptEngine` | `script_engine.rs` | one call of `render_script` | resolve, validate, substitute |
| `AlertEngine` | `alert_engine.rs` | rules, firing state, last alerts, history | evaluate a sample against all rules; add, replace, remove, disable; clock |
| `DataRouter` | the downlink of `data_router.rs` and the forwarders of `subscribe_data` | the list of senders, channels, streams, calls of `deliver` | copy the list, send to one subscriber, remove the closed ones by index; subscribe, forward, disconnect |
| `TelemetryProfiles` | `replace_telemetry_profiles` (`state.rs`), `telemetry.rs`, the publisher of `app.rs` | file, memory, version and watch channel, scheduler, publisher, bundles | one per persisted or published step of a request; one per await of the publisher; restart |
| `MqttClient` | `mqtt.rs`, the command listener and the publishers of `app.rs`, `handle_mqtt_command` | request channel, command channel, worker, listener, broker's side | one per await of each task; loss of the connection |
| `SecurityCenter` | the policy and the `ReplayGuard` of `agent-core/src/security.rs` | remembered nonces, a clock that may be set back | `Deny`, `RefuseReplay`, `Allow` |
| `FileTransfer` | upload and download streams and `rename_file` of `app.rs` | names and the files behind them, with their mode; the streams; writes on their way | receive and queue a chunk, its landing now or after the file was dropped; flush, executable check, mode, hash; read; a stream that breaks; the four steps of a rename |
| `Monitors` | `plugins.rs`, the five monitors, `network_counters.rs`, `NetworkSampler` | the system over time, a monitor's reading and statistics, calls; the lock of the network monitor; the sampler's counters | init, start, stop; refresh, read and record of a collection; snapshot |
| `Selections` | `Iterator::filter`, used by `AlertEngine`, `TelemetryProfiles` and `MqttClient` | - | - |
| `Services` | `Stores`, `ScriptStore` and the modules below it, side by side | theirs and `part` | theirs |
| `ServicesProofs` | - | - | theorems about each module that `Services` composes, and about `Services` |

`MC*.tla` instantiate them. Composition: `DeviceControl` EXTENDS `AppLifecycle` and uses its
actions (`Send`, `Return`, `Task`, ...) as they are, so that "the handlers implement a client of
the manager" is the refinement `ImplementsLifecycle == Spec`. `AppPlatform` EXTENDS it the same way, with the health loop as one more caller. `AppLifecycle` is the abstract
specification of what a client of the manager may see: any command at any time from anyone. `AuditTrail` implements `AuditedCall`
under the mapping `Phases`, `Trail`. The modules from
`TagStore` down share no state with each other or with the rest.
`Stores` puts the three with caches side by side; `Services` adds the others: `part` names the one a behaviour is about while the others stay
as they start, so that the one run of `MCServices` explores the sum of their state spaces, not the product, and its initial states
vary only the part in question. `DataRouter` and `MqttClient` meet
in the source in two plain calls (a command is not downlink data, and the uplink only publishes), which
is why each sees the other as its environment.

Modelling decisions that a reader should know:

- A command of the lifecycle task is one atomic step. The task is the only owner of the table
  and awaits nothing that gives others access to it while it serves a command.
- A child of the agent that exits becomes a zombie for as long as the agent runs: `LinuxAdapter::start`
  drops the `Child` without waiting (`pal-linux/src/lib.rs:67-78`). This is what keeps recorded
  pids from being reused (`RecordedPidIsOwn`, mutant `ExitReaped`).
- `escape` in a process, `unstored`, `before`, `package` and `mishap` are history: they are written
  so that properties can speak about the past, and no guard reads them except for a bound on
  the number of faults.
- `AgentRestart` covers both service managers that kill the control group and those that do not.
- In `ConfigManager` a watching client keeps the newest version of each key; this client is the
  weakest consumer for which WatchConfig can work at all, since events come out of order.
- `UpgradeEngine` takes the content of the staging directory as the caller's: the prototype
  creates the directory but unpacks nothing. The post-check may fail, though the application
  strategy keeps the default that passes, since the engine is generic in its strategy. A run
  whose future is dropped half-way is not modelled (nothing in the source does it).
- In `AuditTrail` a request is its trace id (a fresh UUID). Whether it is allowed is a choice: the
  table of roles and the replay guard decide it in the source, and the guard is always passed a fresh
  nonce and the current time. The interceptor's `Err` of `authorize` is recorded like a denial (`Deny`), that
  of `secured_rpc` is not (`Refuse`). No other connection to the database appends audit events, so the
  mutex of the sink is the only lock around the three statements of an append.
  The events of closed streams (`StreamAuditGuard`) and of health actions go through the same writers
  with ids of their own and are left out.

- In `AppPlatform` the clock of sessions and the clock of the evaluator are one. An app id is a name and a
  time, so two registrations of one name in one tick share it, as they do in the source within a
  millisecond. Every app has the default policy, which restarts: the service never calls `set_policy`.
  Requests that are refused, a session with role readonly among them, change nothing but the audit trail.

- In `TagStore`, `GroupStore` and `BatchStore` every call opens its own connection, so that SQLite serialises single
  statements only; the bundled SQLite enforces foreign keys. In `TagStore` an assignment list holds one entry per
  insert. Two facts the properties step around: `delete_tag` leaves the cached assignments of its tag, and
  assigning twice leaves two entries of which one is removed.
- In `BatchStore` a caller hands over any task: a new one, which has no items and counters of 0 (`batch.rs:252-255`), one of `GivenTasks`, or
  a cached one that it edited (all fields are public), with or without calling `update_status`. The source makes no
  connection between the items of a stored task and its status and counters, and no property claims one: the instance
  stores a completed task with a total of 0, as the test at `batch_store.rs:718-737` does, and by edits cancelled ones with open
  items. `wrote` is history: what the last call that wrote the row of a task was handed.
- In `BatchPlan` a word with a star after a mark (`@w1*`), which the source keeps in the tag, names nothing.
- `DeviceControl` lets `kill` fail on a pid that somebody has (`Refused`), as well as on one that nobody has.
- In `ScriptEngine` text is a sequence of tokens, a pattern the set of values it accepts. In `AlertEngine` a condition is
  the set of metrics it matches, time is counted in half seconds (the engine compares whole ones), and an alert
  that comes due counts what matched before its rule was replaced or disabled, as the source does. The history of fired
  alerts that `AlertsAreDue` reads is kept per rule: alerts of different rules have no order to get wrong.
- Where a property depends on what the source filters or builds element by element, the result is a recursive *function* of the
  elements seen so far (`KeptUpTo`, `Recorded`, a rendered body, the slices of a plan): a proof can follow its steps one by one.
  Sums and the choice of metric points, on which none depends, are left to `FoldLeft`, `FoldSet` and `SelectSeq`.
- In `DataRouter` the positions of closed channels that a call of `deliver` has met are a sequence, in the order it met
  them, and they are removed from the list from the back, one by one (`Removals`).
- `TelemetryProfiles` assumes that the telemetry publisher runs. Without it the watch channel has no receiver and
  `replace_telemetry_profiles` returns an error after it has written the file and the memory.
- `MqttClient`: the client opens clean sessions and subscribes once, at the start, so a subscription is lost with the
  first connection and no command arrives after it. The worker waits for room in the channel that only its own poll
  empties; the states `Stuck` are reachable and are a deadlock of the source.
  What survives a lost connection (the requests in the client's channel do, the subscription does not) is taken from
  the client library, which the repository does not hold.
- In `SecurityCenter` the clock may be set back; then a nonce is accepted twice, and `AllowedOnce` excludes that case. It is a
  claim about the guard as a library: the chain passes a fresh nonce and the current time with every request. Callers read
  the time before they take the guard's lock; the model reads it in the same step, so two callers that enter in
  the other order than they read the time are not in it.
- In `FileTransfer` a chunk is one byte at a position and the hash of a file is its content. Bytes between the end of a
  file and a later position are zeros. An upload over a longer file keeps that file's end. A name is of an inode, and an open
  file stays with its inode; the executable check, the mode and the hash go through the name. `write_all` on a tokio `File` only
  queues the bytes (`queued`): the next operation on that `File` waits for them, but when a stream changes files (`app.rs:828`)
  or fails the `File` is dropped and its write becomes a stray one, which may land any time later or be lost (`strays`).
  A failed executable check counts as "no" (`app.rs:1177`), so a program may be left with the plain mode although the upload succeeds.
  `rename_file` looks for both names, removes and renames, and anything may come between; a file renamed to its own name
  is removed by that. Directories, which it could remove whole, are left out.
- In `Monitors` one state machine stands for the CPU, memory, disk and process monitor, which take the same steps.
  `collect` of the network monitor keeps the guard of a read lock (line 198) until it returns and asks for the write
  lock of the same data at line 298: `ReadPreviousCounters` leads to a state without a next step. The tests that would
  show it are marked `#[ignore]`. What a refresh covers is taken from sysinfo, which the repository does not hold: the model lets a refresh
  replace the whole reading, while the library may keep dead processes in its list.

## 3. Runs

| Run | Question | Instance | States |
|---|---|---|---|
| `lifecycle` | do table and processes stay in step? | 2 apps, 1 caller, 2 pids, mailbox of 1 | 570 thousand |
| `device_control` | do concurrent handlers keep their agreement with the manager? | 2 apps of one name, 2 handlers, 2 pids, mailbox of 1 | 2.7 million |
| `device_control_live` | is every request answered; do the handlers refine `AppLifecycle`; do answers reach their call? | 1 app, 2 handlers, 1 pid, mailbox of 2, no symmetry | 180 thousand |
| `config_store` | what do readers and watchers get while writes interleave, fail, and the agent restarts? | 2 keys (1 watched), 2 values, 2 writers, 1 watcher, 4 versions, buffer and pipe of 1; or 1 key, 3 versions, 1 restart, 1 refused insert (`Scenes`) | 2.1 million |
| `config_restart` (violation) | is a set read back after a restart? | 1 key, 2 versions, 1 restart | |
| `upgrade` | where are the files, and what does the record say, after errors and crashes? | 2 apps, 2 versions, 2 files, 2 upgrades, 1 error, 1 crash | 5 million |
| `audit` | does the trail verify, is it complete for applications, do handlers run only with an entry? | 1 request from the north, 2 from the south, 2 refused inserts, 1 restart | 52 thousand |
| `audit_north` (violation) | does a gRPC call leave an entry and an exit? | 1 request | |
| `platform` | is revocation final, do unregistered apps stay down, are restarts spaced, is every request answered? | 1 name, 2 handlers and the loop, ids of 3 ticks, 1 registration, both channels of 1 | 61 thousand |
| `health_restart` (violation) | can a health restart start its app again? | the same | |
| `services` | do the stores, scripts, plans, alerts, router, profiles, MQTT, replay guard, transfers and monitors keep what they promise, each under its own races, faults and restarts? | per part: 2 callers or streams, 2 objects (1 batch task, 1 rule), 3 calls, 1 fault, 1 restart; 2 uploads, 1 download, 1 rename, 2 files of at most 2 bytes, 3 chunks or other starts (`TransferScenes`) | 1.7 million |
| `upgrade_atomic` (violation) | is a failed upgrade fully rolled back? | 1 app, 1 upgrade, 1 error | |

Why these bounds are enough to see the interesting cases:

- *Lifecycle.* Two apps and two pids are what it takes for an entry to refer to another app's
  process, for one app to have two processes, and for a pid to be given away again. The number
  of pids bounds the processes that are ever alive or zombies at once, not how many starts there
  are: after a restart of the agent they are free again. One caller is enough, since the task
  serves one command at a time and a caller may drop a call and send the next one while the
  dropped one is still in the mailbox. The proofs remove these bounds altogether, here and in the other modules of section 5.
- *Device control.* The races of the handlers are between two of them; the second app of the same
  name makes kill-by-name and the scan hit the wrong process. Two slots in the mailbox (the live
  run) are needed for two commands to wait at the same time, one slot for senders to wait.
- *Config.* Two writers give every order of the three steps of two writes; four versions allow
  a set, a delete and two more writes. The constraint `Scenes` cuts one product out: with a fault or a restart only
  one key is written, three times at most in a run of the agent, and nobody watches. Keys do not meet in the source except
  in the version counter, and a watcher does not outlive the agent. A buffer of one makes
  a watcher lag as soon as it is two events behind (256 in the source).
- *Upgrade.* Two files are needed for a half-done copy or removal, builds that differ in their
  files for a merge to show, two upgrades for stale backups, retries and records of other apps.

- *Audit.* Two requests of one side queue two exits for one background task while the third appends
  through the other writer, so up to four tasks are in line for the mutex. Two refused inserts hit an
  entry and its exit, or two exits in a row. A second request from the north adds nothing but
  permutations: both sides share the sink, not the channel.

- *Platform.* Two handlers are what it takes for a heartbeat or a report to be overtaken by an
  unregister, and for two reports to fire at once; one slot in each channel makes handlers wait for the loop
  and everybody for the manager. Three ticks let a session expire (lifetime 1) and two restarts be
  spaced (interval 2). One registration is enough for a revoked token; that a second one, in the same tick
  or later, cannot bring it back is proved.

- *Services.* Two callers and two objects give every overlap of two calls on the same object, on two objects, and on two
  objects that want one name; three calls let a third one meet what two left behind; one failed
  statement hits each half of a call of two statements. Two deliveries and two subscribers are needed for indices to
  go stale. A request channel of two and a command channel of one let every task of the MQTT client wait for every
  other. Four half seconds are two whole ones, so that a duration or a cooldown of one second can be missed and met. Window 1 in a clock of 3 has
  timestamps older, newer and at both ends. Parts start in one of their initial states when the behaviour is not
  about them.

- *Transfers* (in the same run). One file is there at the start, so that an upload may keep its end, the other is not and has a name
  that decides its mode. Two files let a stream change files and leave a write on its way, and give a rename a name to take. Three starts are what
  it takes for a stream to come back to a file after another one, or for another upload to open the file that a write is still on its way to. The
  constraint `TransferScenes` cuts two products out: the uploads are alike, so a fixed one of them starts first; and what is started third is
  followed up only if it is a chunk and only chunks came before it, so a download and a rename each meet the other or one chunk. `LoneTransfersAreExact` has neither bound.

`MaxTime` and `MaxTokens` bound the clock and the registrations; requests are refused for ever after, so the run
checks for deadlock. `MaxVersion`, `MaxRestarts`, `MaxFaults`, `MaxRuns` and `MaxCrashes` are bounds of the model; runs that
have them turn the deadlock check off, because the model stops when they are used up. The
lifecycle runs have no such bound and check for deadlock.

Properties, beyond the type invariants (`DeviceControl`, `ConfigManager` and `UpgradeEngine` are checked without one):

- `RecordedPidIsOwn`, `PidMatchesState`, `TrackedOrExplained`, `StartNeedsManifest`, `LegalTransitions`: the
  agreement between the table, the processes and the history of an app.
- `CallsMatchMailbox`: no caller waits for an answer that will not come or gets one meant for an
  earlier call it gave up.
- `StartFindsManifest`, `ClosedPidForgotten`: what a handler established before an await still holds
  after it, whatever another handler did in between.
- `EveryRpcCompletes`, `ImplementsLifecycle`: progress of the handlers and refinement.
- `FirstRunReadsLastWrite`, `AnnouncedIsDurable`, `StoredVersionsAreFinal`, `WatcherCatchesUp`: the store,
  the map and the watchers agree in spite of the unlocked steps, as far as they do.
- `PreviousInstallSurvives`, `CommittedIsInstalled`, `RollbackRestores`: no upgrade loses the previous files
  (unless the very copy into the backup fails), a committed record is true, and an error-free
  rollback restores.
- `RevokedStayRevoked`, `UnregisteredStayDown`: what unregister_app has done cannot be undone by a handler that was
  admitted before it, nor by a restart that is still on its way. `ActionsAreSpaced`: restarts in flight respect
  the minimum interval. `EveryRequestCompletes`: the chain of waits handler - channel - loop - mailbox - manager ends.
- `ChainVerifies`, `SouthTrailComplete`, `ExitsAreWritten`, `ImplementsAuditedCall`: the hash chain holds although
  it is read and extended in separate statements; an exit is stored unless the database or a restart
  lost it, and whatever is in a channel gets out; an entry precedes its handler, and no mark is made twice.

- `StoresAgree`: at rest, each store answers from its cache what its tables hold: a tag or group is found if and
  only if it is stored, an assignment from both ends, the statistics count the cache, a batch task is,
  row and items together, what one call was handed. Objects that two calls worked on at once, or a call left half done, are
  excluded by name (`contested`, `torn`, `overlapped`, `damaged`): for these the source gives no such guarantee,
  and the model reaches the states where it fails.
- `ChangesSurvive`: an acknowledged change of a script is undone only by an update with an outdated copy.
- `RenderedIsComplete`, `PlanIsExact`: pure functions against a definition of their result.
- `AlertsAreDue`: duration and cooldown hold over every sequence of samples, rule changes and times.
- `ProfilesTakeEffect`: file, memory, channel and scheduler agree once requests end that did not overlap, and no
  interval of a profile has two bundles.
- `LiveSubscribersStay`: unless two clean-ups overlap, removal by index removes closed subscribers only.
- `CommandsAreHandled`: no command between broker and handler is lost, repeated, reordered or acknowledged early.
- `AllowedOnce`: forgetting nonces by age is sound at both ends of the window.
- `TransfersAreExact`: an upload that met no other upload, no stray write and no rename in its file answers with the hash of
  that file with every chunk in place, and gives it the mode of those bytes, or the plain mode if it could not read them; a download
  that met none of these completes only with all that the file had. The streams that did meet one are in `shared`; for them the source gives no
  such guarantee.
- `SamplesAreExact`: what a collection returns describes the system at one moment of the call; statistics
  count what was returned; a received byte is in the rate of one snapshot, or the counters could not be read.

Each property has a mutant in its module: a plausible bug (marked `Mutant:` in a comment) that
breaks it.

### Fairness

`FairDCSpec`, `FairPlatformSpec` and `FairATSpec` assume some. In `FairDCSpec` the lifecycle task and the steps of a handler are weakly fair: the
tokio runtime polls every task that is ready. `Asking` is strongly fair because a handler that sends
on a full mailbox queues for a permit and tokio's mpsc channel hands out permits in the order of
the requests, so a handler that finds the mailbox free again and again does get in. Clients, process exits,
signals and restarts are not fair: the environment owes nothing.

In `FairATSpec` the steps of an append and of the background tasks are weakly fair: an append holds the
mutex without awaiting anything, and tokio polls tasks that are ready. Weak fairness is enough for the
mutex, which is not queued in the source, because each request appends once in the model; that no task
starves under an endless stream of requests is not claimed. Handlers and clients are not fair.

In `FairPlatformSpec` the manager, the loop and the steps of an admitted handler are weakly fair, and whoever waits
for a slot of either channel is strongly fair, for the same reasons as in `FairDCSpec`. Arrivals, disconnections, the
clock and restarts are not fair.

## 4. Findings

- **A set after a restart is lost** (`config_restart`, `ReadsReturnLastSet`). `ConfigManager::new_with_store`
  counts versions from zero while the store keeps the old ones. The new row collides with an
  old one or sorts below it; `set` only logs the error, announces the value and returns; `get` keeps
  returning the old value. `FirstRunReadsLastWrite` shows that up to the first restart, and with a
  store that accepts every insert, no interleaving of sets and deletes has this effect.
- **No gRPC call has an exit row** (`audit_north`, `NorthTrailComplete`). The design of the chain
  (doc/superpowers/specs/2026-05-26-chain-of-responsibility-middleware-design.md:155) wants an entry and an exit row after
  any call. The interceptor gives both events the trace id as their id (chain.rs:460 and :500), and that is the
  primary key of `audit_events`: the insert of the exit fails in the background task and is only
  logged. `secured_rpc` adds `:entry` and `:exit`; for it `SouthTrailComplete` is proved. The `AuditGuard` of line 77 of
  the same document does not exist either: a request that is cancelled leaves only its entry (`Cancel`).
- **A failed backup destroys the install** (`upgrade_atomic`, `UpgradeIsAtomic`). README.md:260 promises that
  an upgrade fully succeeds or fully rolls back. When the backup fails half-way, the rollback finds
  the incomplete backup, removes the intact install and restores the part. `PreviousInstallSurvives`
  shows that this is the only single point where files are lost: any other error or crash
  leaves every file installed or in a backup.

- **A health restart cannot start its app** (`health_restart`, `HealthRestartsCanRun`).
  doc/action_plan-v2.0-zh.md:651 counts automatic restart as driven by the evaluator's action. A report
  carries the app id of a session, which `register_app` makes up and registers without a manifest; apps that
  the agent installs and starts have ids of another form. The loop's `restart` therefore sets the
  entry to Stopped and fails, which is only logged. That the entry then stays consistent, and
  that the waiting handlers still get their answers, is what the `platform` run shows.

## 5. Proofs

Every theorem holds for all values of the constants that satisfy the assumptions of its module: any number of apps,
callers, keys, files, requests and faults, and any capacities. The assumptions say that sentinels (`NoApp`,
`Null`, `NoOne`, `NoFile`, ...) are not values of what they stand for, that bounds and capacities are natural numbers, that buffers have
a slot, and how sets that the source keeps apart (northbound and southbound requests, handlers and the loop) are
disjoint; that the sets whose members a module counts or numbers (tags, groups, tasks, scripts, rules, collectors, the devices of a
fleet) are finite; and that data from outside has the form the source's types give it (rules, definitions, profiles, readings of the
system; the profiles in the file at the first start are valid). TLC evaluates them on the instances of the runs.

Several proofs are inductions: over the steps of a loop, the length of a sequence, the numbers up to a bound. The
induction theorems of the library take an operator as a parameter, which the installed provers cannot instantiate; but a
*set* of numbers can be named, and a set of natural numbers that is not empty has a least element. `LeastElement`
(from `WellFoundedInduction`) is the only principle used. From it follow `NumberInduction` (a set that has 0 and, with a number, the
next one, has them all) and, for each recursive function the modules define, a lemma that the function exists and takes its steps.

### Lifecycle manager

`AppLifecycleProofs` proves the type invariant, the five state invariants of the lifecycle and its action property.

The invariants are not inductive one by one: that a stop signals the right process needs
`RecordedPidIsOwn`; keeping that when a start reuses a pid needs that a free pid is recorded
nowhere; and that an install leaves no untracked process needs `PidMatchesState`. `Consistent(m)`
is their strengthening: a predicate of a *machine* (a table and the processes), not of a state, so that
one lemma per handler says `Consistent(m)` implies `Consistent` of every outcome. `Restart` is then
the composition of the lemmas of stop and start. `Inv == TypeOK /\ Consistent(Machine)` is inductive;
lemmas `TaskStep`, `ClientStep` and `SystemStep` split the next-state relation the way the module does,
`Invariance` concludes `[]Inv`, and the listed theorems follow from it.

`CallsMatchMailbox` is inductive with `TypeOK` once it is read as three facts about the positions of a caller's
commands in the mailbox (`CallsPaired`: who has one waits, who waits has one, nobody has two). The
lemmas say how positions move when the mailbox loses its head, gains a tail, or has a caller's commands orphaned.

### Device control

`DeviceControlProofs` proves `HandlersImplementLifecycle` (`DCSpec => Spec` of `AppLifecycle`) and the two invariants
of the handlers. The simulation needs that a handler only asks when it has no call, so `Inv` and `CallsPaired`
of the manager carry over to the composition. `HandlersInv` then relates three things: what step a handler is at
and which one command it can have in the mailbox (`StepsAsk`); what it relies on at that step (`Relies`); and what an
answer it has not read yet says (`Learned`). The crucial steps are those of *another* handler: no command the service
sends takes a manifest away (nobody asks for an uninstall), so an app found installed stays installed until the start is
served; and a zombie keeps its pid, so what was forgotten after a stop is not recorded again.

### App platform

`AppPlatformProofs` has four results over one state.

- `RevocationIsFinal`. A revoke marks the token the session has at that moment, which need not be the one that was
  admitted; so the proof needs that a token belongs to one app and is never given out again (`TokensAreFresh`), and that
  whoever holds or uses a credential names an app that has a session (`HoldersHaveSessions`).
- `PlatformImplementsLifecycle`, `PlatformTypeCorrect`: the platform and the loop are clients of the manager, so
  everything proved of `AppLifecycle` holds of the composition.
- `RestartsAreSpaced`. `ActionsAreSpaced` says nothing of the evaluator's memory; `FlightInv` adds that its note of the
  last restart is no older than any restart in flight, and not of the future. `Flies` names the three places an action
  can be (with a handler, in the channel, with the loop), so that moving it from one to the next keeps the set.
- `UnregisteredAppsStayDown`. `DownInv`: an app registered over IPC has no manifest, so the only ways out of Stopped are
  closed; but a restart of the agent empties the table, and a registration would make the app Registered again.
  `LostForGood` says why it cannot: the id of an app the table lost contains a time that has passed. The answer to
  the stop that unregister_app waits for still holds when it is read (`AnswersHold`).

### Configuration

`ConfigManagerProofs` builds three invariants on each other. `StoreInv`: a version of a key is stored once, and
what goes on to the channel is in the store or its insert failed; from it follow `AnnouncementsAreDurable` and, since rows
are only added, `VersionsAreFinal`. `VersionInv` adds that nothing has a version that was not given out, and that in the
first run the map shows the newest among the rows of a key *and the writes that are still to become rows*
(`Coming`): that set does not change when an insert overtakes another one. `WatchersInv` is the same idea for a
stream: among what it holds, its pipe, its part of the channel and the writes still on their way (`Candidates`), the
newest is what the map has. Each action moves candidates between these sets; a stale one that is dropped is never the newest.

### Upgrade engine

`UpgradeEngineProofs`: `UpgradeInv` says what the install directory, the backup and the package are at each state and
phase of the run. Its core is `BackedUpFirst` (the old install is cleared only once all of it is in the backup) and
`CanGoBack` (a rollback finds it there unless the copy itself failed, which is the exception
`PreviousInstallSurvives` makes). Copying and removing file by file are covered by `Copying`, `CopyingBack`: the files not in `left` are
already equal. `RecordsFollow` says that the store has the current state of the run unless it refused it, which
is what `RecordsOfCommitsAreTrue` and the restart need.

### Security chain and audit

`AuditTrailProofs` proves the type invariant, `ChainVerifies` and `SouthTrailComplete`. The type invariant says that the
mutex is held exactly by the task in the sink. `ChainVerifies` needs that what a task has read stays true until it
inserts (`HeldIsCurrent`), which follows from the mutex. `SouthTrailComplete` needs to know where events come from
(`TrailInv`): a request appends only while it waits (`InCall`), the queues and background tasks hold only exits of
requests that ended (`Late`), and the trail only events whose request has got that far (`Past`). Then an exit of an
application can only collide with itself (`ExitIdIsOwn`).

`ChainImplementsAuditedCall` is `ATSpec => Abstract!Spec`. A refusal of a session and a denial are both refusals, so that
no mark is made twice needs that a denied request has no refusal on its way (`OneRefusal`). Each action is
shown to be a step of `AuditedCall` or to change neither phases nor trail.

### Stores

`StoresProofs` proves `CachesAgreeWithTables`: `StoresAgree`, a statement about states at rest, from an invariant per
store about states in the middle of calls.

- `GroupInv`, `TagInv`: a group or tag that is stored and not cached has one call that creates it, and nobody
  else works on it, for it cannot be found yet; one that is cached and not stored has exactly one call between its
  DELETE and the cache. The cached value is the stored one or some call is about to put it there. Two calls on one object
  at once are *recorded* as an overlap (`Overlaps`, `Contests`), so that the claim can be made of all others.
- The assignment lists of a tag: a stored assignment is in both lists or its `assign` has yet to put it there; what an
  `unassign` or `clear` will take off the lists is no longer stored (`ListsFit`).
- `BatchInv`: a task that is not damaged has at most one writer, and `Halfway` says for each of its steps how far row,
  item rows and cache have got: the item rows written so far, followed by those left, are the items of what the call was handed, and at rest the
  row, the item rows and the cache are what the last call that wrote the row was handed (`wrote`), whatever task that was.
- A restart in the middle of a call is a new state at rest: `FilledCachesFit` shows the invariant of caches filled
  from the tables, whatever the tables are.

### Services

`ServicesProofs` has a theorem for each promise of the `services` run, of the module that makes it, and then two of all parts side by side.

- `RequestsAreAllowedOnce`: while the clock was not set back, every allowed request whose timestamp is still inside the
  window is remembered (`Remembered`). Forgetting by age is then sound, at both ends of the window.
- `AcknowledgedChangesSurvive`: `ChangesSurvive` with the types of the copies in callers' hands, and that a copy
  keeps the usage count of the row it was made from.
- `AnswersAreOfTheirMoment`: what a monitor holds is no older than any call that has refreshed it and not read it
  yet (`Fits`); answers returned and being returned are those counted; the bytes the sampler has reported and is about to are
  those it saw.
- `LoneTransfersAreExact`: an upload that is not in `shared` is the only one that writes to its inode, no stray write is for that
  inode, and its name is still of it (`Alone`). Then the inode with the queued write applied is what the upload's chunks make of the file it
  found (`AsWritten`, `Landed`), so that after the flush the check, the mode and the hash, though read through the
  name, are of those bytes. The invariant has to follow inodes (`NamesFit`: no two names are of one, and a new file is
  of a number that none has had) and, for what a rename does between its steps, `RenamesFit`. A download reads
  an inode that nobody writes to (`ReadsAlone`), and has got the bytes from its start on (`DownloadExact`).
- `AlertsAreDueAlways`: `AlertTimes` relates what the engine remembers to what happened. A rule that is firing since a time has
  matched at every evaluation since then or longer, and no alert is younger than the rule's `last_fired_at`. `SecondsApart` is what
  comparing whole seconds gives of times in half seconds.
- `RenderedIsAlwaysComplete`: the loops over definitions, the placeholders and the body are followed step by step; a name that is
  defined twice has the value its last definition gives it (`LastDefinition`).
- `LiveSubscribersAlwaysStay`: a call of `deliver` that is still sending has met only closed channels among those it noted, in
  order; and while nobody shortened the list since it was copied, the list still begins with the copy (`Sending`), so the positions still mean the
  same senders. Removing them from the back moves senders only from behind the position that is removed (`SwapRemoves`). Two
  removals at once are recorded as `raced`, and nothing is claimed after.
- `CommandsAreAlwaysHandled`: every command is in exactly one place. What the broker delivered is what was handled, the
  command channel and the one in the worker's hands, in that order; and what was handled is what the broker and the request channel have as
  acknowledgements, and the one in the listener's hands (`MqttInv`). Filtering commutes with appending, and moving the head of the request channel keeps their concatenation.
- `ProfilesAlwaysTakeEffect`: `RequestsAreSafe` says how far file, memory, version and channel have got at each step of a request that
  runs alone (`Underway`), with nothing claimed of requests that ran beside another (`mixed`). `EntriesFit`: every enabled profile has
  one entry in the scheduler, whose next time is a whole number of intervals after the scheduler was built. `PublisherFits`: what the
  publisher is collecting was due. `BundlesFit`: each bundle came before its entry's next time, so no interval
  of a profile has two. That catching up after a sleep stays on the grid is an induction over the intervals skipped.
- `PlansAreExact`: the slices of a plan, put behind each other, are the list of the devices it selected, which has each
  device once; each slice but the last has the size the policy asks for.

`ServicesAreTyped` is `ServicesTypeOK`: types and limits of all fifteen parts. Those limits are not consequences of the types alone. A
request channel within its capacity, a history within its maximum, files no longer than the limit or than they were found,
nonces no more than requests, executions only of stored scripts (`SecurityTypes`, `ExecutionsFit`, `AlertTypes`, `RouterFits`,
`ClientFits`, `TelemetryFits`, `SizesFit`, `MonitorsFit`, and `StoresAreTyped` of `StoresProofs`) are each inductive only together with
the invariant of its part. `PartsBehave` projects a behaviour of `Services` to one of each part, so
`ServicesKeepTheirPromises` has every promise of the run for the composition too.

### Only model-checked

Every invariant and every safety property of a step that a passing run checks is a theorem. What remains with TLC:

- Liveness (`EveryRpcCompletes`, `EveryRequestCompletes`, `ExitsAreWritten`) rests on fairness and `ENABLED`, which the
  prover does not handle.
- A violation is a trace that TLC finds (the four runs of *Findings*).
- That the system can reach a state: the deadlock of `Stuck` in `MqttClient`, the exceptions the properties name (`raced`, `mixed`,
  `shared`, `contested`, `damaged`, ...). The runs reach them.

## 6. What is left

Of what is modelled, everything that the runs check and the prover can express is proved. Worth adding, the most important first:

1. The default policies of the health evaluator are the only ones modelled; `set_policy` would be an action of `AppPlatform` once
   the service calls it.
2. Audit events of closed streams and of health actions, which go through the writers `AuditTrail` has.

Not modelled:

- *Configuration file and entry point*: parsing, defaults and start-up wiring, without later state.
- *App SDK*: a client of the app platform in another process; the platform is modelled for any client.
- *The other traits of the PAL* (clock, service manager, network): system calls without state.
- *The other tables of the state store* (capability profile, keys, policies, nonces, transfer tasks, health reports): one
  statement per call, with no caller that relates two of them.
- *Actions of an alert* (log, webhook) keep no state; *telemetry set-up, CLI and
  protocol crates* hold no logic.
- *Streams of configuration and data that outlive their session*: the session is checked when a stream is opened, and
  nothing in the source or its documents says that it ends with the session.
- *Resuming an upgrade*: README.md:261 promises to resume from a breakpoint on restart. `Crash` models what the source does
  (the engine starts Idle, the record stays); the promise itself is neither stated nor refuted here.
- *The telemetry sections* (system, hardware, sockets) are reads of the system at the time of a call.
