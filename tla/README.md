# Verification of calf

calf is a Docker Desktop alternative: a Go daemon (`backend/`) that runs a Docker engine, in a
krunkit virtual machine on macOS or on the host on Linux, and a Flutter application (`ui/`) that
supervises the daemon and talks to its HTTP API. This project models the parts of calf in which
goroutines, processes, files and engine commands meet. TLC checks the models on small instances,
and TLAPS proves the main safety properties of thirteen of them for every value of the constants.

Contents: [the system and its modules](#the-system-and-its-modules), [modules](#modules),
[what TLC checks](#what-tlc-checks), [what the code does not do](#what-the-code-does-not-do),
[proofs](#what-tlaps-proves), [limits](#what-the-models-leave-out), [not modelled](#not-modelled).

## The system and its modules

How the parts interact: an HTTP handler, a CLI connection to the public socket, a device login or
the daemon's own launch calls `EnsureRuntimeRunning`, which starts the engine at most once at a
time and polls `Runtime.Status`. `Runtime` is `Krunkit` (macOS guest) or `Native` (Linux host).
Resource Saver stops an idle engine and keeps a snapshot of the resource lists; every wake and
every manual stop clears its flag. All connections to the guest, CLI connections, pings and setup
commands alike, share four vsock slots. The container list is shared by whoever asks for it and
drives the `::1` listeners, the port forwards and the statistics. Logs, scheduled exports, build
records, migrations and the settings have goroutines and files of their own. The desktop app
starts the daemon, restarts it after a crash and stops it; for a while there may be two daemons.

| Part | Source (`src/backend/internal/` unless said otherwise) | Modules | Run |
|---|---|---|---|
| Single-flight engine start | `daemon/runtime_ready.go`, `core.go` | `SingleFlight`, `RuntimeStart` | `starts_and_logins`, `saver` |
| Docker Hub sign-in | `daemon/registry_login.go`, `oauth/dockerhub`, `ui/lib/widgets/app_top_bar.dart` | `RegistryLogin` | `starts_and_logins` |
| Resource Saver | `daemon/resource_saver.go`, `resource_snapshot.go` | `ResourceSaver` | `saver` |
| Guest engine | `runtime/krunkit_darwin.go`, `guest_darwin.go` | `GuestEngine` | `engine` |
| Socket proxy, vsock slots | `daemon/docker_socket_proxy.go`, `runtime/guest_darwin.go` | `SlotPool`, `WakeGate` | `wake_gate` |
| Container logs | `daemon/log_broadcaster.go`, `api/logs.go` | `LogBroadcaster` | `logs` |
| Scheduled volume exports | `daemon/export_scheduler.go`, `volumeexport/` | `ScheduleTiming`, `ExportScheduler` | `exports` |
| Clean disk, clones, exports | `runtime/prune.go`, `volume_detail.go`, `volume_export.go`, `cli_ops.go` | `EngineResources` | `resources` |
| Build records, purge, reset | `daemon/builds.go`, `build_sync.go`, `troubleshoot.go`, `buildstore/` | `BuildRecords` | `builds` |
| Settings, proxy | `config/`, `api/config.go`, `runtime/proxy.go` | `DaemonConfig` | `migration` |
| Docker CLI context, plugins | `dockercli/` | `DockerContext` | `migration` |
| Import from Docker Desktop | `migration/`, `daemon/migrate.go` | `Migration` | `migration` |
| Daemon process, public socket | `src/backend/cmd/calf/`, `daemon/docker_socket_proxy.go` | `Handover` | `handover`, `handover_repair` |
| Desktop supervisor | `src/ui/lib/main.dart` | `Supervisor` | `handover` |
| Container list and its followers | `runtime/guest_darwin.go`, `localhost_proxy.go`, `daemon/stats_*.go` | `ContainerList`, `ContainerViews` | `views` |

`PROJECT.json` lists every part with its sources and its status (`components`), the lines each
definition translates (`map`), and every hazard at its line with the properties that cover it or
the reason why none does (`hazards`). Operators marked "Not in the code" are plausible bugs; each
property of each passing run is violated when one of them takes the place of the operation it
stands before (`mutants`).

## Modules

### SingleFlight and RuntimeStart

`SingleFlight` is what `EnsureRuntimeRunning` promises: callers share one start, are told how the
start they joined ended, and may leave when their context is done. `RuntimeStart` is the code and
implements it.

| Model | Code |
|---|---|
| `inflight`, `born`, `result` | `runtimeStartInflight`; the `runtimeStartResult`s allocated so far; `err` once `done` is closed |
| `caller[c]` | a goroutine in `EnsureRuntimeRunning` or `waitRuntimeStart`, with its context and its answer |
| `fpc[f]`, `ferr[f]` | the start goroutine: first `Status`, `Start`, poll, sleep, clear, publish |
| `engine`, `saver` | what `Status` reports; `resourceSaver.active` and `idleAt` |
| `JoinFlight`, `LaunchFlight` | the two branches under `runtimeStartMu` |
| `WaitRuntimeStart` | the `select` over `done` and `ctx.Done()`; either may win |
| `StartSucceeds`, `StartFails`, `StartRestarts` | `Runtime.Start`, reduced to what it does to `Status` |
| `PollStatus`, `PollAgain`, `PollDeadline` | the polling loop and `startCtx` |
| `Publish` | the critical section that stores `err`, resets the record and closes `done` |
| `HandleRuntimeStop`, `ClearAfterStop` | `POST /v1/runtime/stop` |
| `EngineFault` | the VM dies; the host engine is stopped or started by others (external) |

`Native` selects the runtime: the guest's `Status` never fails, its `Start` boots, its `ForceStop`
kills; the native `Status` fails while the engine is down, `Start` only looks, `ForceStop` does
nothing.

### RegistryLogin

Extends `RuntimeStart`: the goroutine of a login session is one of its callers. `login[s]` is the
session in the map and its goroutine (`WaitForDeviceToken`, `GeneratePAT`, the call of
`EnsureRuntimeRunning`, `DockerLogin`), `dialog[s]` the modal dialog that polls it, `stored` the
credentials docker has written. A cancellation is three steps, as in the code: mark the session,
cancel its context, drop it. Docker Hub and the docker CLI may fail at any call, answers to the
dialog may be lost, and `Shutdown` ends every context.

### ResourceSaver

Extends `RuntimeStart` and adds the worker (`TickBegins` to `TickStop`, one action per call it
makes), the list calls (`ListBegins`, `ListStatus`, `ListLive`, `ListSet`), the containers and the
guest's list cache. One of the four lists stands for all, since the code treats them alike.
`idleAt` is kept as an age in clock units, 0 for the zero time.

### GuestEngine

`Krunkit.Start`, `ForceStop`, `stopKrunkitStack`, `Guest.Status` and the goroutine in `cmd.Wait`,
over processes and files. A VM is a number in order of launch. `cmd`, `pidfile` and `sock` say
which VM `k.cmd`, `krunkit.pid` and the vsock socket file lead to; `pc` and `held` are the local
state of `Start` and of each stop. `stopKrunkitStack` is four steps, because stops run beside a
start and `k.mu` covers only the first of them. VM 1 belongs to an earlier daemon; `Init` chooses
whether it is alive and which files it left.

### SlotPool and WakeGate

`SlotPool` is what a gate with owners promises. `WakeGate` is `dockerSocketProxy.handle` and the
slots of `AcquireEngineConn`, which only counts, together with the start that a connection
triggers, as far as that start needs slots: for the first ping, for the pings of
`waitForDockerAPI` and for setup commands. `conn[c]` is where `handle` is, `flight` where the
start is, `vm` whether the guest is off, booting or up.

### LogBroadcaster

The log streams of one container. `mapped` is the entry of the map, `subs`, `cancel`, `stopping`
and `history` the fields of each stream object, `run[r]` a goroutine in `runStream`, `sub[c]` a
WebSocket handler, with its channel `chan`, the history it has still to replay and what it has
written. Every critical section of `subscribe`, `release` and `cleanupStream` is a step, and what
lies between two of them is open to everybody else; `FanOut` sends a line to one subscriber at a
time. Lines are numbers; `dropped` remembers the ones a full channel turned away.

### ScheduleTiming and ExportScheduler

`ScheduleTiming` is `computeNextRun` and the grace period. `ExportScheduler` has the scheduler
goroutine, the handlers that create, change and delete schedules, and the schedule file of one
volume, which both read, change and write without a lock. `os.WriteFile` is two steps, truncate
and fill; a crash or an error between them leaves a file that does not decode (`Torn`). Reading and
writing may fail at every call: a tick passes over a file it cannot read, a handler answers with an
error, and a failed save of the scheduler (`SaveFails`) leaves the old next run in the file. `faults`
counts such failed saves and the restarts.

### EngineResources

The requests that are sequences of engine commands: the clean-disk preview and its four prunes,
the clone of a volume, and the export of one to a file, an image or a registry, among single
commands of others. Each command is a step and may fail. What docker does with a command is
external; a `run -d` that reports a failure may have made its container or not. `debris`, `orphans`
and `fresh` are history variables: what a failed removal left, the helper containers of a `run -d`
that failed, and what was released, pulled or created since a preview.

### BuildRecords

The list of builds, its sequence number, `builds.json` and the settings file, and all that
changes them: jobs (`NewBuild`, `JobEnds`), the import of the engine's history (`SyncLists`,
`SyncEnriches`, `SyncApplies`), the enrichment for a client, migrated records, purge and factory
reset (files first, memory later), failed writes and restarts. `config.yaml` is written in place, so
a request (`put`) and the reset cut and fill it in two steps; a crash or an error in between leaves
it "torn", from which the next start takes defaults. A zero is used as it is and saved as the default
(`WithDefaults`).

### DaemonConfig, DockerContext and Migration

Each extends the one before, and `Migration` has the joint next-state relation. `DaemonConfig` is the
copy of the settings in memory, the file, the requests of several clients, each of which looks whether
it changes the proxy (`CheckUpdate`) before it changes the settings (`ApplyConfigUpdate`), and the
goroutines that carry a proxy to the engine object and into the guest. `DockerContext` is the manager
that keeps the calf context selected, `Activate`, and the repair of the CLI plugin, against a user who
changes the same files. `Migration` is the goroutine of an import (`mig[n]`), both engines (`source`,
`calf`), the flag and the status: preflight, settings, images, volumes, stopping containers on the
source, compose projects and single containers, restarts of what was stopped, and build records. Any
docker command may fail, and all do once the context is over; a `docker stop` may fail after it took
effect.

### Handover and Supervisor

`Handover` is `run` of `cmd/calf/main.go` for several daemons that share the API port, `calf.pid`
and the public socket path: `ensurePort`, the pid file, signals, the shutdown with its timeout,
and `dockerSocketProxy` with `switchMu` (`op[d]` is what its holder does). A socket file is the
daemon that bound it; closing a listener unlinks the path, whatever is there by then. A `Chmod` that
fails is followed by the close and the removal (`Undo`), each of which takes whatever is there.
`Supervisor` extends it with the app of `main.dart`: `_startDaemon`, the exit handler with its
budget of restarts and its timers, `_restartDaemon`, `_stopDaemon`, the death of the app, and
`watchParent` in the daemons. Dart runs one callback at a time, so the awaits are where steps of
others come in.

### ContainerList and ContainerViews

`ContainerList` is `ListContainers`: a cache of two seconds, one `docker ps` in flight for all
callers, the last list in place of an error, and the operations that drop the cache. A list is the
position in the history `past` of the containers that `docker ps` saw. `ContainerViews` adds what
callers do with their lists: the `::1` listeners and conflicts, the forwards in gvproxy with the
record `forwardedPorts`, and the statistics history, while the engine is stopped and started. Another
program may have a port (`held`): the `::1` listener is then a conflict, and a forward that gvproxy
refuses for it is recorded all the same, which `refused` remembers.

### How they fit together

`RegistryLogin` and `ResourceSaver` are compositions with `RuntimeStart`, and `Supervisor` is one
with `Handover`; each is shown to implement the component it extends or to keep its invariant, so
that the component's theorems hold in the composition. `GuestEngine` and `WakeGate` assume one
start at a time, which `RuntimeStart` proves (`OneStartAtATime`). `RuntimeStart` and
`ResourceSaver` assume that `Status` reports stopped after a forced stop until the next start. The
guest can break this: in `GuestEngine` a `Status` call whose ping was answered, or the last store
of `Start`, may raise the flag after a stop has cleared it. What is shown of the saver's flag
therefore holds relative to that contract. The export that `ExportScheduler` starts is the one of
`EngineResources`; the records that a `Migration` imports go to `BuildRecords`.

## What TLC checks

| Run | Instance | Shows |
|---|---|---|
| `starts_and_logins` | native runtime; 2 callers, 2 sessions, 1 stop handler, 2 flights, 1 fault; five casts in turn | the start machinery implements `SingleFlight`; every call returns; "Signed in" is said only of stored credentials; a session whose context is over before its docker login writes none; the dialog closes |
| `saver` | guest; 1 caller, 1 flight, 1 container, beside a list call, a stop with a crash, or a changed setting | the flag is never left up on a running engine; once the engine is held, list calls leave it and the snapshot alone; an idle engine is stopped |
| `engine` | 2 launches beside an earlier VM, 2 stops, 1 status caller | one VM at a time apart from one about to be killed; every process is within reach of the next stop; a guest that stays up is reported running from some point on |
| `wake_gate` | 3 connections, 2 slots | slots are neither lost nor returned twice; the gate implements `SlotPool`; every call ends |
| `logs` | 2 subscribers, 2 stream objects, 2 goroutines, 3 lines, history and channel of 1 | one goroutine per stream; whoever joined in time is served; joining loses no line but for a full channel, and repeats none |
| `exports` | 2 schedules with slots a minute apart, 1 client, 1 edit, 1 crash or failed save | a slot runs once, but for edits, crashes and failed saves; a deleted schedule comes back only through someone who had read it; an unreadable file is not written over |
| `resources` | 1 container, 3 images, 2 volumes, 1 network, 2 requests, 1 command | a prune takes what its preview showed or what was released since; half a clone, and the helper container whose start succeeded, do not stay |
| `builds` | 2 records kept, 3 builds or rows, 1 row at a time, up to 2 restarts, resets, settings or failed writes | a record gets the outcome of its own job; details found stay; a running record has a job; outside a write or a reset, the files hold what is in memory |
| `migration` | 1 image, 1 volume, a container by itself and a project of two compose files; 2 clients of the settings; seven budgets | a proxy change that meets no other reaches the engine; an import without warnings is complete; only compose projects stay stopped on the source; once the setting is off, only calls that had seen it on select the context |
| `handover` | 2 daemons that share the public socket, or an app that starts 2, with 1 restart | orderly exits leave no file; a stopped proxy stays stopped; a daemon left alone gets its socket back; a crash loop ends; no daemon outlives the app |
| `views` | 1 container, the UI, the sampler, a watcher for each of 2 starts; eight plans | no forward is recorded that was neither made nor refused for a taken port; the list, the listeners and the history come to fit the containers |
| `handover_repair` | 2 daemons | counterexample: the public socket is not repaired, see below |

**Exceptions in the properties.** Where the code knowingly or not gives up a guarantee, the property
says so with a history variable instead of leaving the case out of the model: `history.reissued`
(a purge while a job runs gives an id out again), `history.stale` and `history.crossed` (a write
between the halves of a reset, a write that failed or was cut short), `history.late` (details found
between the copy and the write of the sync), `history.orphans` (records a restart found running),
`disturbed` (two proxy changes under way together, or a failed one), `spoiled` (a stop that failed
after it took effect, a restart that failed, or an import that was cut short), `prune.namesakes`
(other tags of a repository that a container names by `latest` or without a tag), `orphans` (above),
`refused` (a forward of a port that another program has), `sub[c].late` (joined between the stop and
the cleanup), `dropped` (a full channel), and the bound of `OncePerSlot` (an edit, a restart or a
failed save within the grace period runs a slot again). Each of these cases happens in the run; most
of the exceptions are shown to be needed by a statement without them, listed below, that TLC refutes.

**Bounds.** Each constant that is a bound is marked as one where it is declared.

* `MaxFlights` = 2 is the least for which a later start meets the callers and the leftovers of an
  earlier one; two callers are the least that join and launch.
* In `GuestEngine` three VMs are the earlier daemon's and two of this one's, so that a stop may
  hold an old VM while a new one is launched; two stops may overlap each other and the start.
* One container, one list call and `IdleAfter` = 1 suffice in `ResourceSaver` because the code
  compares the lists only with the empty list and the timeout only with the age.
* `WakeGate` has more connections than slots, so that the gate is full with somebody waiting.
* In `LogBroadcaster` one subscriber leaves while another joins, so two stream objects and two
  goroutines can exist; three lines overflow both the history and the channel.
* In `ExportScheduler` a minute is two units, so that the clock moves within a minute and within
  the grace period; two slots are a minute apart, so that one may be due while the other runs.
* `EngineResources` has two tags of one repository, since the code compares images by name, and two
  requests, so that a clone or an export runs beside a prune.
* `BuildRecords` keeps two records and makes three, so that the list overflows. Beside the third there
  is at least one restart, reset, new setting or failed write, beside the second are two (`MaxTotal`); the
  four properties of the run are also proved, without these bounds.
* In `DaemonConfig` two clients are the least whose requests meet between look and change; a third
  request after them shows that the next change settles again.
* In `Migration` the second container of the project comes from its second compose file, which
  the code treats differently; space runs out within `MaxFree`.
* Two daemons are the least that meet; the second is the successor, the rival or the respawn.
* In `ContainerViews` one change after the initial list gives an old and a new list, and two
  watchers are those of a stopped engine and of the next one.

The plans and budgets of `MCRegistryLogin`, `MCResourceSaver`, `MCMigration`, `MCSupervisor` and
`MCContainerViews` divide one large instance into several smaller ones: each names who takes part
and what may happen how often, and the initial state chooses one. What no plan puts together has
not been explored together. Where a property is proved it does not depend on any of these bounds.

**Fairness.** A goroutine that can run does run (weak fairness of the steps of callers, flights,
handlers, workers and daemons): Go's scheduler. The rest is named in the specifications:

* `PollDeadline` and `AwaitDeadline` are strongly fair: both stand for an absolute deadline of a
  context that recurring waits look at. `Runtime.Start` returns, since its waits have deadlines.
* `starts_and_logins`: the dialog's timer polls every two seconds; the wait for a token ends with
  the context, whose deadline passes; cleanup timers fire.
* `saver`: the worker's ticker goes on, time passes, and `docker ps` succeeds again and again;
  without the last the worker never learns that the engine is idle.
* `engine`: `Status` is called again and again, as the daemon's pollers do, and a ping of a ready
  engine that is repeated for ever succeeds at some time.
* `wake_gate`: goroutines blocked on the channel are served in turn, as Go does, and exchanges with
  the engine end; the code does not bound a stream (`logs -f`, `events`), so `EveryCallEnds` says
  nothing about a gate filled by streams for ever.
* `handover`: the watch ticker fires until the lifecycle context is cancelled, `watchParent` goes
  on, and `Stop` gets `switchMu`, which others take and give back (strong fairness; Go's mutex is
  handed over to a waiter that has starved).
* `views`: tickers fire, the cache expires, and a started request goes on.

Everything else, faults, crashes, signals, users and the engine itself, has no fairness. `logs`,
`exports`, `resources`, `builds` and `migration` check safety only.

**Deadlock** is checked in `starts_and_logins`, `saver`, `engine`, `wake_gate` and `views`. In the
other runs the system may really stop, because all daemons, subscribers or requests have ended.

## What the code does not do

**`handover_repair`** is a finding (`findings` in `PROJECT.json` quotes the comment it contradicts).
`Rebind` asks whether the proxy has a listener and whether some socket is at the path, not whether
that socket is its own. `api.New` binds the path before `ensurePort` looks at the port, so a second
daemon that then gives up or crashes leaves its dead socket over the first daemon's, which
`watchPublicPath` never repairs. `SocketComesBack` shows the rest: without such a file in the way,
a daemon that is left alone gets the path back.

The following properties are definitions of the modules that no run lists; TLC refutes each of them
on an instance no larger than that of its module's run. They say what one might expect of the code
and what it does instead.

* `StartsWhenNeeded` (`RuntimeStart`): `startRuntimeUntilRunning` calls `Start` once. After a stop
  it polls a stopped engine until its deadline, and new callers join it.
* `ActiveMeansStopped` with `Native` (`ResourceSaver`): on Linux the flag is raised although
  `ForceStop` does nothing there.
* `StopsNoContainer` (`ResourceSaver`): a container started after the worker listed the containers
  is killed by its stop.
* `SnapshotAlwaysKept` (`ResourceSaver`): a list call that looked at the flag before it was raised
  replaces the snapshot by the answer of an engine that has been stopped since.
* `StartedMeansAlive` (`GuestEngine`): nobody waits for a VM that `Start` attached to, and `Start`
  raises `started` without another look; after its death `Status` goes on to report running.
* `WakeSeesEngine` (`WakeGate`): as many CLI connections as there are slots that find the engine
  down hold all slots while they wait for a start that needs one; it ends with the boot deadline.
* `StartSparesEngine` (`WakeGate`): with all slots in use, a start asked for by an API handler takes
  a running engine for a dead one and kills it.
* `EveryJoinIsServed` (`LogBroadcaster`): a subscriber that joins a stream between its stop and its
  cleanup starts no goroutine, and `cleanupStream` starts none for it.
* `TornDown` (`LogBroadcaster`, under `FairSpec`): a subscriber restarts a stream between the two
  halves of `cleanupStream`; the map forgets the stream, and its goroutine follows the log for ever.
* `SlotNotSkipped` (`ExportScheduler`, under `TimelySpec`): an export that takes longer than the
  grace period of another slot leaves its `NextRunAt` in the past, where it is never due again.
* `DeleteIsFinal` (`ExportScheduler`): `runSchedule` saves the schedule it read before its export, and
  brings back one that was deleted meanwhile.
* `EveryHelperIsRemoved` (`EngineResources`): the removal of the helper container is deferred only once
  `run -d` has succeeded; one that reports a failure and has made the container leaves it.
* `OutcomeAlwaysOwn` (`BuildRecords`): a purge takes `BuildSeq` back while a job runs, and the end of
  the job is written into a later build of the same id.
* `RunningAlwaysHasJob` (`BuildRecords`): nothing corrects the records that a crash left as running.
* `DetailsAlwaysKept` (`BuildRecords`): the sync writes its copy over details found meanwhile.
* `SettingsAreWhole` (`BuildRecords`): a crash or a failed write leaves `config.yaml` torn, and the next
  start takes the defaults for what is missing.
* `KeepsNewest` (`BuildRecords`): history rows and migrated records go to the front whatever their
  age, and the list is cut at its end, so that a row of a build dropped long ago displaces a newer one.
* `ProxyAlwaysSettles` (`DaemonConfig`): the goroutines of two changes finish in either order, and a
  request that found its proxy in use starts none, although another changed it before the update.
* `OffIsAtOnce` (`DockerContext`): a call that had seen the setting on selects the context after the
  user has turned it off.
* `StopsAlwaysMadeUpFor` (`Migration`): nobody makes up for a stop that failed after it took effect, and
  the restarts of an import that was cut short fail with its context.
* `RunStatePreserved` (`Migration`): only the first compose file of a project is brought up; a
  container of another file stays stopped on the source and is missing on calf.
* `RecordedIsForwarded` (`ContainerViews`): a port that gvproxy could not expose because another program
  has it is recorded as forwarded, and is not exposed once it is free.
* `ConflictsSettle`, `StoppedListensNot` (`ContainerViews`): a conflict of a port that is no longer
  published and never had a listener stays reported; a list applied after `stopAll` opens listeners
  of a stopped engine.

Further observations from writing the models, each visible in the actions named:

* `Exit` (`Handover`): the old daemon's `removePidFile` removes the `calf.pid` of the new one, and
  its `rt.Stop` may stop the VM the new one has attached to. `HttpReturns`: a timeout of
  `httpServer.Shutdown` skips `Core.Shutdown`.
* `Scheduled`, `Spawned` (`Supervisor`): a restart timer that is overwritten while pending cannot be
  cancelled, and `_stopDaemon` and `_restartDaemon` see no process while `Process.start` is pending.
  `WatchParent` makes up for it. On Unix that relies on orphans being handed to pid 1 (not so under a
  subreaper), on Windows on being able to open the parent.
* `Poll` (`RegistryLogin`): a lost answer to the dialog's cancel leaves it open until polls fail.
* `Unexpose` (`ContainerViews`): an error forgets the port, and forwards of an earlier daemon that
  nobody wants are never removed. `RetainOnly`: samples of stopped containers are not aged out.
* `RestartOnSource` (`Migration`): restarts on the source use the context of the import, so one that was
  cut short restarts nothing.
* `StartLaunches` (`GuestEngine`): a daemon that dies before krunkit has written its pid file leaves
  a VM that the next daemon cannot find.

## What TLAPS proves

All theorems are safety. They hold for any sets of callers, handlers, sessions, list calls, status
callers, connections, subscribers, daemons, clients, images, volumes and containers, any bounds and
both runtimes, under the named assumptions of the modules: bounds are natural numbers (positive where
zero makes no sense), `Conns` and what an import copies are finite, the starter is not a stopper and
the scheduler not a client, names that must differ do, plans are of their type, a day is a whole
number of minutes, and "no proxy" is one of the proxy settings. Each module below holds the theorems
of one component or of components whose theorems build on each other.

* `RuntimeStartProofs`. `IInv` adds to the types, `OneStartAtATime` and `AnswerOfJoinedFlight` the
  history of the flights (resolved exactly when done, unborn exactly when beyond `born`) and that
  whoever waits has joined a born flight. Without the history, a new flight might be one that was
  resolved already. From it: `SingleStart`, `NoOrphan`, `OwnAnswer`, `ResultsStay`, and
  `Implementation`: every step is a step of `SingleFlight` or leaves its variables alone.
* `RuntimeStartProofs`, for `RegistryLogin`. `LoginIsRuntimeStart`: every step of the composition is
  one of `RuntimeStart` or leaves its variables alone, so that its theorems, `Implementation` among
  them (`LoginImplementation`), hold with sessions among the callers. `LoginInv` adds that a status
  "complete" and a dialog's "Signed in" come with stored credentials (`SignedInAlwaysStored`).
  `CancelAlwaysHonoured` uses that a context which is over stays over, and that `docker login` begins
  only with one that is not.
* `RuntimeStartProofs`, for `ResourceSaver`. `ComposedInvariance` carries `IInv` of `RuntimeStart`
  over: the steps of the saver change only what it does not mention. `FlagMeansStopped` proves
  `ActiveMeansStopped` for the guest: only a flight's `Start` brings the engine up, and the same
  flight is then still before its `ClearAfterStart`. `HeldSnapshotAlways` needs that the flag is down
  while a tick captures (`FlagIsDown`), so that only list calls could replace a held snapshot, and
  those look first.
* `EngineProofs`, for `GuestEngine`. `OneVMAlways` and `NoStrayVMAlways` are proved together, as
  neither is inductive alone: that a launch finds no other VM needs that the stack's kill reached them
  all, which needs that none was out of reach. `IInv` adds that only the starter sets `k.cmd` and it
  is empty while it tears down and launches (`StarterOwnsCmd`), what is left at each point of the
  teardown (`NothingLeft`, `OnlyRecorded`), that the pid file no longer matters once this daemon has
  launched a VM or a stop is about to remove the file (`PidfileSpent`), and that the earlier VM wrote
  its files.
* `EngineProofs`, for `WakeGate`. The invariant is the types and `GateBalanced`. `Balance`, `Bounded` and
  `PoolImplementation` follow; the last needs that a full gate has as many holders as slots, which
  is what the balance says.
* `LogBroadcasterProofs`. `RunInv` ties `stream.cancel` to the goroutine it stops, and says that a
  goroutine nobody is stopping has a subscriber; `SubInv` says that a subscriber who joined in time
  keeps its stream from being stopped, and that a cancel function taken under the lock and called
  after it stops a goroutine whose stream is still being stopped. From these `OneRunAlways` and
  `JoinedAlwaysServed`. `NoLossAlways` has an invariant of its own (`Owed`) over the history, the
  replay, the channel and the line being fanned out, with lemmas on the elements of sequences.
  `NoLineTwiceAlways` has another one, `OnceInv`: goroutines read on in the order of the log
  (`RunOrder`), handlers have only lines of the stream they joined (`Membership`), and while a stream
  had one goroutine nothing of it is twice in its history (`HistoryOnce`) or among the lines a handler
  has seen, has in its channel, has to replay and is being handed (`DeliveredOnce`).
* `HandoverProofs`. `HolderInv` says what each holder of `switchMu` may be doing, `StoppedInv` that
  nobody but `Stop` works on a stopped proxy, hence `StopIsFinalAlways`, although `listen` clears
  the flag. `PathInv` and `PidInv` say that whoever is named by a file has yet to remove it or is
  lost, hence `NothingLeftAlways`.
* `HandoverProofs`, for `Supervisor`. `SupervisedIsHandover`: an app that starts, signals and kills
  daemons does what `Handover` allows, so that both theorems hold under it. `CrashLoopEndsAlways` from
  `chances <= app.attempts`: every way the attempts go back also ends the series. `QuitIsFinalAlways`.

* `BuildRecordsProofs`. `IInv` says of the list in memory and of the file alike that numbers were
  given out at most once, that only records of the engine's history have references and that no job
  writes those (`Memory`, `Disk`), of a job that the record with its number is its own (`JobsOK`),
  of a sync between its listing and its writing that its copies know what the list knows, save what
  came late (`SyncOK`, `CopiesOK`), of a reset what its first half has removed (`ResetOK`), and of a
  request that writes the settings what it has made of the file (`PutOK`). `FilesAreCurrent` is itself
  a conjunct (`FilesAlwaysCurrent`). From the rest: `OutcomeIsOwn`,
  `RunningIsBacked`, and the action property `DetailsAreKept`.
* `MigrationCopyProofs` and `MigrationProofs`, for `Migration` with the `DaemonConfig` and
  `DockerContext` it composes. The first has a lemma per action, the second combines them.
  `ConfigInv`: while the latest change of the proxy met no other and did not fail, the file and all
  goroutines under way have the proxy in use, and the guest has it or such a goroutine is under way
  (`ProxyChangeSettles`). `UserKeepsContext` needs little more than the types: whoever has committed
  itself to select the context did so while the setting was on, and a selection ends its commitment.
  `MigInv`: there is one import at a time and the status is its own; a container that is stopped on
  the source is one the import still answers for, one that compose brought up here, or one the user
  touched (`StopsAreMadeUpFor`); and the counts are those of what the engine has (`CopyOK`), whence
  `NoWarningMeansCopied`: a count that reached its total leaves nothing out. The last argument is
  about cardinalities; the lemmas take the facts they need as a hypothesis, `Counting`, which
  `MigrationProofs` proves from the library's theorems on finite sets.
* `ExportSchedulerProofs`. `ExportSchedulerTypes` includes that next runs fall on the minute, which
  rests on lemmas about `computeNextRun`: a nonempty set of naturals has a least element, and
  multiples of a minute stay multiples. `UnreadableFileStays` and `DeletedStays` follow from what each
  step may hold in its hands. `OncePerSlotAlways` is a ledger (`Paid`): the exports of a slot, the run
  of it that is still armed in the file or in the scheduler, and the requests at work are together at
  most one for the slot itself plus the requests and the faults (restarts, failed saves) so far. It
  needs that what the scheduler took up is due (`DueOK`) and that no slot is exported before its time
  (`Past`).

Type invariants are proved for `RuntimeStart`, `WakeGate` and `Handover` (inside their inductive
invariants), `RegistryLogin` (`LoginTypes`), `ResourceSaver` (`SaverTypesAlways`), `GuestEngine`
(`TypesAlways`), `Supervisor` (`SupervisedTypes`), `BuildRecords` and `Migration` (`TypeCorrect`),
`ExportScheduler` (`ExportSchedulerTypes`), and for `LogBroadcaster` but for its numeric limits;
those, and the type invariants of the other modules, are definitions that TLC confirms on the
instances of the runs.

Only model-checked:

* everything about liveness (`EveryCallReturns`, `DialogCloses`, `IdleEngineStops`,
  `StatusRecovers`, `EveryCallEnds`, `SocketComesBack`, `NoDaemonOutlivesApp`, `ListSettles`,
  `ListenersSettle`, `HistoryForgets`): fairness and ENABLED are out of the prover's reach;
* `LeftoversAreRemoved` and `PruneStaysWithinPreview` of `resources` and `RecordIsReal` of `views`:
  safety properties without a proof so far. Nothing in them is out of the prover's reach; they rest on
  the instances of their runs.

## What the models leave out

* Time: deadlines may pass at any moment at which the code looks at them. Only `ExportScheduler` and
  `ResourceSaver` have a clock, because what they do depends on it.
* `RuntimeStart`: daemon shutdown counts as the end of the contexts; `RegistryLogin` has it as a step.
* `GuestEngine`: a killed process is gone at once (the code's SIGTERM, pause and SIGKILL are one
  step); gvproxy stands or falls with its VM; port forwards, disk download and setup commands are
  a step that may fail; one life of the daemon, so a crash between the launch and the pid file is
  not covered; the number of a dead process is not reused.
* `WakeGate`: a ping that has a slot is answered by a VM that is up; one setup command stands for
  all; shutdown is left out; a hijacked exchange holds its slot as long as it likes.
* `ResourceSaver`: a failing list is possible only where the code can fail; the worker's own end
  is left out.
* `LogBroadcaster`: the delay between retries; one container. `StreamLogs` pipes stdout and stderr with
  two goroutines; the model reads one pipe, so it has one `publish` at a time, and nothing is said about
  the order in which two of them reach a subscriber.
* `ExportScheduler`: one volume, so one file; time zones and changes of the clock.
* `EngineResources`: sizes, the build cache, and the contents of archives beyond which volume state
  they hold; the engine is what its commands are used for.
* `BuildRecords`: what the details of a build are; the parsing of buildx output.
* `DaemonConfig`: three fields stand for all; the syntax of proxy URLs.
* `Migration`: the arguments of `docker create`, the YAML of a compose file beyond images, builds
  and services, and the texts of messages.
* `Handover`: a daemon whose `Shutdown` finds no HTTP server yet may still bind the API port, and hold
  it until it exits; the model has it bind only before the shutdown. The VM (in `GuestEngine`); API
  requests other than those that reclaim the socket.
* `Supervisor`: the window, the tray and their menus beyond what they call; the app is looked at
  where its daemons have no public socket to contend for, and the contention without the app.
* `ContainerViews`: a container publishes one port; values and retention of samples.

## Not modelled

* Guest disk and guest setup: downloads written beside their destination and renamed, and commands
  run in the guest. Sequential; `GuestEngine` has them as one step of `Start` that may fail.
* CLI operations and output parsers: stateless functions from a command's text to values. What the
  commands do is in `EngineResources`; reading text character by character is not a subject for TLC.
* HTTP routing, middleware and helpers: translation. The handlers that change state are actions of
  the modules of what they change.
* Logging: a rotating file under one mutex.
* The mock and unsupported runtimes: test doubles and stubs.
* The views of the user interface: they render what they poll. The dialog of a login and the
  supervisor of the daemon, which have state of their own, are modelled.
