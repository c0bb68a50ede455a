# proxmox-eventbus in TLA+

Specifications of `proxmox-eventbus`, the daemon that runs on every node of a
Proxmox VE (PVE) cluster, watches the node's task list, and publishes what
happens to VMs and containers as CloudEvents over an embedded NATS server.
They are checked with TLC on small instances. The safety properties of all parts - task watcher,
pipeline, snapshots, probes, startup, routes, parsers and subjects - are also proved with TLAPS,
for every instance; what is not proved is named below. Where the code does otherwise than its comments
or docs say, a run shows it, or the property states the exception (see "Disagreements").

## The system

| Part | State it keeps | Operations | Talks to |
|---|---|---|---|
| Task watcher (`internal/tasks/watcher.go`) | map of `upidState` flags (mutex), debounce flag, channel of 256 events, one goroutine per QEMU migration | `Run`, `scan`, `parseAll` (start, outcome, garbage collection), `watchMigrationSynced` | reads PVE's `active` file and task logs, woken by inotify; sends to `runWatcher` |
| UPID and line parser (`upid.go`, `workers.go`) | none | `ParseUPID`, `VMID`, `ParseActiveLine`, `WorkerTypeMap` | called by the watcher |
| Subjects (`internal/events/events.go`) | none | `Subject*`, `safe` | publisher loop, subscriptions |
| State probes (`internal/snapshot/state.go`, `qmp.go`) | none | `QEMUState`, `LXCState`, `queryQMPStatus` | PID files, signals, QMP sockets, cgroups |
| Enricher (`internal/enrich/enrich.go`) | map of migration targets (mutex) | `Lifecycle`, `resolveMigrateTarget` (argv, log, wait up to 2 s) | `/proc`, task logs, pmxcfs |
| Daemon (`cmd/proxmox-eventbus/main.go`) | map of start times, channel of 1024 CloudEvents, context | `runWatcher`, publisher loop, shutdown, identity at startup | everything |
| Snapshot emitter (`internal/snapshot/snapshot.go`) | ticker, snapshot id and count of the batch in progress | `Run`, `EmitOnce` (two request subjects), `emitBatch`, non-blocking `send` | shares the channel of CloudEvents |
| Embedded server (`internal/bus/server.go`) | server, its options, in-process connection | `Start`, `Stop`, `PublishJSON` | nats-server |
| Route manager (`internal/bus/routes.go`) | key of the last reload, options given to the server | `applyRoutes` every 5 s | `pmxcfs.Reader`, nats-server |
| pmxcfs reader (`internal/pmxcfs`) | cached members, time of the load | `Members`, `Peers`, `LocalIP`, `VMList`, `ReadVMConfig` | `/etc/pve` |
| TLS loader (`internal/tlsutil/loader.go`) | current `tls.Config`, current CA pool (two atomics) | `Reload`, `Server`, `Client`, `Cluster` | certificate files |
| Configuration, journal, `tail`, `issue-client-cert`, sd_notify, packaging | none of interest | sequential | |

What is hard about it:

* Concurrency: scans, pollers, the consumer and PVE act on the flags, the file
  and the channel in any order; pollers read, unlock, and write back.
* The environment: PVE changes the file while it is read; PIDs are reused; logs
  come late; inotify coalesces and errs.
* Bounded channels: lifecycle events block, snapshot events are dropped, in one
  and the same channel.
* Restarts: nothing is persisted, and listed tasks are announced again.
* Retries on a stale cache and after failed reloads in the route manager, and of
  the whole start while pmxcfs is not mounted or certificates are renewed.
* A state is put together from several looks at a VM that changes meanwhile.
* Texts of many writers are parsed whole or cut: UPIDs, lines, command lines, logs,
  configs.

What makes each part correct:

* watcher: `started` first; each phase once, and the outcome that the file shows, of every task whose line
  was read whole; no success that is not one, even of a torn line; no
  change of the file without a scan after it, no entry kept for ever;
* pipeline: per task nothing lost, repeated or reordered between the watcher and
  NATS; a duration with every outcome; targets kept exactly as long as needed;
* snapshots: `count` never confirms a batch that is incomplete, the completion is
  last, the loop never blocks, a batch carries no state from before it;
* probes: a state other than running was true at some moment of the probe, and a
  stopped VM passes for running only for a known cause; `stopped` has two exceptions, which the code has
  against its comments;
* startup: whatever fails, some start succeeds, unless the daemon was stopped; the name of the cluster is not
  missed for a failed read, and a certificate is served with its own key;
* routes: a reload is never skipped when needed, and routes converge to the
  members;
* parsers and subjects: what is read is what was meant; what is published can be
  found where the documents say, whatever cluster and node are named.

The hazards behind these properties are listed in `PROJECT.json` at the lines
where they bite.

## Modules

| Module | What it is |
|---|---|
| `ActiveLine` | what a line of the active file says after its UPID, and what `parseStatusTail` makes of it, whole or cut |
| `ActiveFile` | what the active file can say of a task, how that changes (external: PVE), and which phase reports what |
| `TaskLifecycle` | abstract specification: what one life of the daemon announces of a task |
| `TaskWatcher` | the watcher: `Run`, `parseAll`, `watchMigrationSynced`, its channel, under PVE, inotify and restarts |
| `TaskWatcherInv` | the inductive invariant of `TaskWatcher` |
| `TaskWatcherProofs` | the proofs |
| `LifecyclePipeline` | from the watcher's channel to NATS: `runWatcher`, `Enricher`, publisher loop, shutdown; composed with `TaskLifecycle` in the place of the watcher |
| `LifecyclePipelineInv`, `LifecyclePipelineProofs` | its inductive invariant and the proofs |
| `SnapshotEmitter` | the snapshot loop and the request callbacks on the shared channel |
| `SnapshotInv`, `SnapshotProofs` | its inductive invariant and the proofs |
| `SequenceLemmas` | lemmas on sequences: what a send and a receive do to a channel, and what is concatenated and flattened |
| `StateProbe` | one probe of a VM or container, look by look |
| `StateProbeInv`, `StateProbeProofs` | its inductive invariant and the proofs |
| `RouteManager` | `applyRoutes` over the cached members |
| `Startup` | `runDaemon` up to readiness, with the reader of the members and the TLS loader, composed with `RouteManager` |
| `StartupInv`, `StartupProofs` | the inductive invariant of both, and the proofs |
| `Fields` | splitting of texts |
| `Tasks` | `ParseUPID`, `VMID`, `WorkerTypeMap` |
| `MigrateTarget` | `parseMigrateTarget`: the target node of a migration, from the arguments of a process |
| `TaskLog` | `FindLogFile`, `parseMigrateTargetFromLog`: the target, from the task's log |
| `VMConfig` | `ReadVMConfig` |
| `Subjects` | the subjects of `events.go` and `subjectFor`, and how NATS matches them (external) |
| `Parsers` | the inputs of the parsers and of the subjects, and what must be made of them |
| `TextProofs` | proofs about texts that are joined and split: UPIDs, tails of lines, subjects |
| `ParsersProofs` | proofs about command lines, task logs and configs |
| `MC*` | the instances of TLC |

### TaskWatcher and the code

A task is a UPID; a line of the file is one of `future`, `running`, `OK`, `ERR`,
and, when it has left the file, `goneOK`, `goneERR`, or `lost` (it left without
ever showing a result, as when its worker is killed). `known` is a map in the
code; since no entry is stored without a flag and a missing entry reads as three
false flags, the sets `started`, `finished` and `synced` are the map.

* `AddWatches`, `InitialScan`, `HandleNotify`, `FireDebounce` are `Run`.
  inotify queues at least one and at most `Burst` events per change, and the debounce timer
  may expire at any time after it is set.
* `ReadActive` is `scan` up to the read: one step reads the whole file. When
  `InPlace` holds, a read that falls into a rewrite sees any subset of the lines
  and at most one of them cut: `CutLine` is what `parseStatusTail` makes of every cut
  of the tails that PVE writes, and `TornReads` all that can be read of a line.
* `ParseLine` is one iteration of `parseAll` inside the mutex: both flags are
  set before anything is sent. `SendStarted` and `SendTerminal` are its sends,
  in that order; a full channel blocks them. `CollectGarbage` is the deletion at
  the end.
* `PollCheck`, `PollMiss`/`PollFind`, `PollMark`, `PollSend` are the four parts
  of `watchMigrationSynced` between which other goroutines can run.
* `WatcherFails` is any error that ends `Run`, which `runWatcher` only logs; `Restart` is a stop of the daemon
  at any point, and its start.

`trace`, `unread` and `misread` are history: the phases sent since the start, whether
the file has changed since the last read, and the tasks whose line some scan since the start read otherwise than
it was. `delivered` survives restarts.

The comments of the code say that PVE rewrites the file in place (`watcher.go:45`,
`docs/ARCHITECTURE.md:56`); PVE itself writes another file and renames it. The model has
both (`InPlace`). What is true of a task only as long as its own line is read whole is stated so: `OncePerLife` and
`TruthfulOutcome` speak of the tasks in `Faithful`, which are all tasks if the file is replaced, and
`RefinesLifecycle` allows further events, though none before `started`, of a task that was misread. A torn read of one
line takes nothing from what is said of the others.

Left out: lines that `parseAll` skips (`Announced` in `Tasks` says which); a
UPID that is cut in its user field and still parses, as a phantom task (`UPIDsReadBack`
says that no other cut does); an active file that is absent, where a scan ends
without collecting garbage; a file so large that it is read in several system
calls; the content of events other than task and phase.

### LifecyclePipeline and the code

`Receive` is one receive of `runWatcher` up to the first lookup of the target;
`LogFound` and `WaitExpires` are the two ends of the wait of
`resolveMigrateTarget`; `Lifecycle` is what the enricher does to its map of
targets and puts into the CloudEvent; `Forward` is the blocking send with the deletion of
the start time after it; `Publish` is the publisher loop: `published` is what `PublishJSON` was given (a
failure there is only logged, and NATS Core delivers at most once anyway). After a signal `runWatcher` may still
receive (Go's select takes any ready case), until it returns or the process
exits. The target on a command line is `own`, `none`, or, if `PidReuse` holds
and the worker has ended, `other`: that of another migration which has the PID
now. A log that names a target is taken to name the right one.

### SnapshotEmitter and the code

Goroutines (`Loop` and a callback per request subject) run `Begin`, then `Probe` and `SendState`
for each VM, and `SendComplete`. VMs are probed in any order (the code goes
through virtual machines first, then containers). `Probe` takes the state at one instant;
`StateProbe` opens it up. NATS delivers requests of one subscription one
at a time; one waiting request per callback is enough to keep it busy. `received`
is what consumers got: `PublishJSON` may fail. Lifecycle
events only appear as messages that take slots of the channel.
With `snapshot.interval: 0`, `Run` emits one batch: a behaviour in which no further tick comes.

### StateProbe and the code

`Begin` is the turn of a VM in `emitBatch`; `Stat`, `ReadPID`, `Kill` and `QueryQMP` are
the four looks of `QEMUState`, `LXCState` looks at one path after the other, and
`Stamp` is `snapshotEvent` with its `time.Now()`. Between any two of them the VM may do
anything: `Start` (PID file and process appear together, as `state.go:36` says),
`StartFails` (an empty file is left), `StatusChange`, `Ends` (the process is gone, the file
stays), `FileRemoved`, `PidReused`, `CgroupChange`. A PID file names the *start* whose PID it
holds. A container's processes are in the cgroup of one of the `Layouts`; those of the others may be absent or
empty, and come and go. The deployment is fixed at the start: `readable` is the capability to
read files of root, `useQMP` the option `snapshot.use_qmp`.

Each look may fail, and each in the way the code treats it: a failing stat, or read of
`cgroup.procs`, gives `unknown`; a PID file that cannot be opened, with whatever error, is trusted
(`OpenFails`, `state.go:67`); one that is open and cannot be read is taken for
an empty one (`ReadFails`, `state.go:128`); a QMP exchange that fails leaves it at `running`. `seen`, `seenFile`,
`reused`, `shadowed` and `errors` are history: what the VM, its file and its PIDs were since the probe began,
whether an empty cgroup stood before the container's own, and which errors the PID file has met.

### RouteManager and the code

`Read` is `Members` with its cache of 2 s: `fresh` says that it is younger. At
the start the cache may have been filled by the lookup of name and address;
ticks are 5 s apart, so it is expired at every later one. `SameKey`, `Reload`,
`ReloadFails`, `ReadFails` are the four ends of `applyRoutes`. Nodes have
distinct addresses that do not change, and that parse: one that does not is skipped, though it is in the key
(`routes.go:61`).

### Startup and the code

`stage` says how far `runDaemon` has come: `DetectReads`/`DetectFails` is one pass of the loop of
`detectClusterName` (`MaxAttempts` is 20 in the code), `NodeName` and `Address` read the
members as `LocalNodeName` and `resolveAdvertise` do, and go on if they cannot,
`LoadCert` and `LoadKey` are the reads of `tls.LoadX509KeyPair` in their order,
`Serve` is `Server.Start` up to readiness. `LoadFails` is any file of the loader that is missing, cannot be read
or parsed, or does not go with the others, and `ServeFails` any error of the server; each ends the daemon, as
`Exit`, which forgets all that the process knew.

`wanted` is what systemd is to do. A daemon that has failed is started again (`Exec` after an error or after
`Crash`: `Restart=on-failure`, and `WantedBy` if the node went down); one that was stopped is not, be it by an
operator or with `pve-cluster` (`Stop`): a clean stop is no failure, and `PartOf` passes on
stops and restarts of `pve-cluster`, not its start. It runs again only after `Start`, or the next
boot, which may never come. `RestartSec=2s` keeps the restarts below the limit of systemd
(five within ten seconds), so that it does not give up. `Members`
is the reader of `RouteManager`: startup and route manager share its cache, and `RouteTick`
and `RouteUpdate` are the actions of `RouteManager` while the server is up. A certificate is the number of the
renewal that it is from; `RenewKey` and `RenewCert` write the two files one after the
other. Names and addresses from the configuration are not used; `detectClusterName`
is called even if there is one (its result is then dropped, `main.go:81`). The CA's file
stands with the certificate's.

### The parsers and the code

A text is a sequence of pieces: separators, and as much of words as the code tells
apart. Words of one class (decimal, hexadecimal, like a node's name, allowed in a
subject) are the members of a constant. `Parsers` enumerates the inputs, one
initial state each:

* UPIDs of every worker type and of types that are no lifecycle, with and without
  an id; each is also cut at every piece.
* Tails of running, successful and failed tasks, in the forms of the active file and of the index.
* Command lines `[interpreter] qm migrate [options] <vmid> [options] <target> [options]`, with the
  target in its place or as an option, options being flags, pairs, and flags with a value of its own; and others: the HA
  manager, a worker with its title, another command of `qm`, which may have a target of its own (`qm clone`).
  In `MigrateTarget` an argument is a word, or a word behind a key; words are
  programs, numbers, names, flags, the rest; the spellings that the
  code treats alike (`--target`, `--to`, `targetnode=`, upper case) are one, and a
  program stands for its path. `TargetIsParsed` says of all of them what the code gives, in two cases not
  what was meant: see "Disagreements". `enrich.go` asks only for events of migrations, so that it
  meets another command when the PID is another process's by now (`pipeline_pid_reuse`).
* Logs of migrations, any number of lines written, up to four directories down, among
  logs of other tasks. The regular expression of `enrich.go:170` is its three
  alternatives, tried in order at every piece.
* Configs with values of the VM and of a snapshot, comments, tags with any separator. Values
  are trimmed and descriptions unescaped in the code; both are left out.
* Two names of nodes and one of a cluster, of up to `MaxName` pieces, dots and wildcards among them. Different names may
  become one token (`a.b` and `a_b`): `SubjectsRoute` claims distinction only for names that
  PVE accepts.

## Runs

| Run | Question | Result |
|---|---|---|
| `watcher_inplace` | a file rewritten in place, torn reads, errors of inotify, a restart, two pollers: types, order, uniqueness and truth of events, no lost wake-up, no false success, the inductive invariant, refinement of `TaskLifecycle`; `EventuallyEnded`: some outcome is reported, unless an error has ended the watcher | holds |
| `watcher_live` | a file that is replaced, two tasks, a restart: `EventuallyReported`, `EventuallySynced`, `PlainTaskForgotten`, refinement of `TaskLifecycle` | holds |
| `watcher_torn` | is an outcome only sent when the entry shows a result? | violated |
| `watcher_synced_late` | does `synced` always precede the outcome? | violated |
| `watcher_zombie` | are the entries of all ended tasks deleted? | violated |
| `pipeline` | published events are a `TaskLifecycle` and catch up with the watcher (`EventuallyPublished`); `DurationAlways`, `TargetKept`; `NothingKeptAfterEnd` | holds |
| `pipeline_pid_reuse` | is the target that of the task's own process? | violated |
| `snapshot_batches` | `CountConfirms`, `CompleteIsLast`, `NeverBlocked`, `AnswersAreFresh` with overlapping batches, drops and failing publishes | holds |
| `probe` | `AnswerWasTrue`: stopped, paused and suspended were true at some moment of the probe, but for a PID file that could not be read once open, and an empty cgroup before the container's own. `RunningIsExcused`: a VM that was down all along passes for running only with a PID file left over, and then only if the daemon may not read the file, fails to open it, finds it removed, or its PID was reused | holds |
| `startup` | `ComesUp`: some start succeeds, and the daemon stays, unless it was stopped for good. `PairIsOne`: it serves a certificate with its key. `NamedUnlessEarly`: it is standalone only if the name was missing when it began. `KeyDescribesRoutes`, `Converges`: the routes of a daemon that was not stopped | holds |
| `tls_renewal` | is a renewed certificate served without a restart? | violated |
| `parsers` | `UPIDsReadBack`, `LinesReadBack`, `TargetIsParsed`, `LogTargetIsParsed`, `ConfigReadBack`, `SubjectsRoute`: every input is read, or routed, as what was meant, but for the values of options named below | holds |

### Disagreements

The violated properties are what a comment or a doc says and the code does not do:

1. **synced after the outcome** (`watcher.go:262`). The poller checks that the
   task has not ended, then reads the log and sends, while a scan sends the
   outcome. `docs/EVENTS.md:107` promises the order.
2. **Entries that never go away** (`watcher.go:286`). If the scan deletes the
   entry between the poller's check and its second critical section, the poller
   creates it again with `syncedEmitted` alone; nothing deletes it any more.
3. **The target of another migration** (`enrich.go:151`). The command line is
   read by PID alone. After a restart old tasks are announced again, when their
   PIDs may have been reused.
4. **No hot reload** (`loader.go:35`). Nothing calls `Reload` after the start, so a
   renewed certificate waits for the next start of the daemon, against
   `docs/ARCHITECTURE.md:123`, `docs/SECURITY.md:79` and `loader.go:5`.
5. **A result that is not shown** (`watcher.go:159`). If PVE rewrites the file in place, as `watcher.go:45`
   says, a line that is read half written reads as an error, and `failed` is sent of a task that runs
   or is OK; `docs/EVENTS.md:73` says "when the matching entry shows a result". The reverse never happens
   (`SuccessIsTrue`).

Others have no run of their own. A property of a passing run states what the code does instead, so that none of them
is hidden by its passing:

* `OncePerLife` and `RefinesLifecycle` except tasks whose line was misread. A line that one read of a
  half-written file misses is taken for a task that has left the file: if it was finished its entry is deleted, and the next
  scan sends `started` and the outcome again. `docs/EVENTS.md:72` knows of two events per action.
* `TargetIsParsed` gives the values of options. `qm migrate 100 --targetstorage local pve2` reads as
  `local`: `parseTargetAfterMigrate` takes the first word behind the VMID that looks like a node
  (`enrich.go:250`). `qm clone 100 101 --target pve2` reads as `pve2`: options are looked for on any
  command line (`enrich.go:188`), although the comment at `enrich.go:135` says that an unexpected
  one gives nothing.
* `AnswerWasTrue` excepts `"read" \in errors`. `readPID` does not ask `Scan` for its error, so a failing
  read is `errStalePID` (`state.go:128`), which makes a VM that runs stopped; `state.go:33` says that the file is
  then empty or unparseable.
* `AnswerWasTrue` excepts `shadowed`. The first `cgroup.procs` that exists decides, so an empty one makes a container
  stopped whose processes are in a later layout (`state.go:113`); `state.go:96` says that
  both layouts are checked before that.

Stamps of concurrent batches can be in the opposite order of their probes,
so that "the freshest observation wins" (`docs/EVENTS.md:142`) can keep the older of two
states that were true within one batch of each other.

### Bounds

* `watcher_*`: one migration and one other task (or one of them): flags of two
  tasks never interact except through the scan, which has an order, and the
  channel, which has a capacity; two tasks show both (`watcher_live`). `OutCap` of one (two in `watcher_synced_late`) blocks
  senders often. `Burst = 1` (2 in `watcher_synced_late`): the queue of events only matters as
  empty or not. `MaxRestarts = 1` in the two passing runs: a restart forgets everything, a second one starts from a state
  like the first; the violated ones need none. `Faults` holds in `watcher_inplace`. One poller per migration suffices when the file is replaced
  (`PollersAreExclusive`); in `watcher_inplace` missed lines make old pollers
  survive, and there are two. Two tasks in a file that is rewritten in place are 11 million states; `IInv`, `OncePerLife` and
  `TruthfulOutcome` hold there too, but no run repeats that: the theorems cover it.
* `pipeline*`: a migration and another task (or the migration alone), channels of
  one slot (`pipeline_pid_reuse`: two and one) that are full most of the time; what the three phases of a migration
  can do to each other in the enricher's maps needs no more.
* `snapshot_batches`: `MaxBatches = 2` is the least that overlaps; a channel smaller
  than a batch makes drops happen; `MaxChanges` bounds the changes of a state,
  `MaxForeign` the lifecycle events in between. After the last batch has begun, the list of VMs and the triggers stand still (`MoreBatches`): nothing reads them any more. The two VMs are interchangeable
  (symmetry, in a run of invariants only).
* `probe`: `MaxStarts = 2` lets a probe that has read the PID of one start go on in
  the next; a third start would differ from the second in nothing that is read.
  `Layouts = 3` is the code's number; each of the three may be absent, empty or in use.
* `startup`: `MaxAttempts = 3` instead of 20: first, middle and last; more than `MaxFailures`, since a
  daemon whose reads all fail is standalone by design. `MaxRenewals = 1` (a second
  one meets a state like the first), `MaxStops = 1`: one crash or stop, hence one life before the last one, besides
  those that end by an error. `MaxChanges = 3` and `MaxFailures = 2` allow a peer to leave, return
  and leave with failures between; failures of reads, of the loader, of the server and of reloads all count as such,
  but not those that an unmounted pmxcfs or a renewal under way causes. Both must be finite for convergence to be
  claimed at all. `tls_renewal` has the least of everything that shows its question.
* `parsers`: two nodes, one name that is not a node (a storage), one flag, one path,
  one option before the VMID, one, with or without a value, between it and the target (`MaxEarly = 1`),
  `MaxOptions = 2` after it. Each word that is a class of its own in the code has a member; the
  parser keeps no memory but "VMID seen" and "option found", so longer command
  lines repeat what shorter ones show. Users and ids (`Users`, `IDs`) of one and two
  pieces can be cut inside and at their ends. `Values` has no value, words, a value with a
  colon and one that looks like an entry; `MaxName = 2` pieces make a name that is
  empty, plain, a wildcard, or mixed. Logs have up to two lines before the one that
  matters (`MaxLines`) and one after it (`MaxReports`), and are up to one directory too
  deep (`MaxDirs = 4`). Two tags (`MaxTags`) show the separator, and one snapshot
  (`MaxSnapshots`) what comes after the first section. The theorems hold for all bounds.

Deadlock is checked in `startup`, `probe`, `tls_renewal` and `parsers`. Elsewhere the system may really stop: all tasks
are over and all bounds are used up, or the daemon has exited.

### Fairness

Goroutines are scheduled by the Go runtime: weak fairness of `Run`, of every
poller and of the consumer. Events may keep arriving without a pause, but the
timer is not set again while it is pending, so it fires: weak fairness of
`FireDebounce` by itself. `FindLogFile` and `ReadFile` may fail again and again,
but not for ever on a log that is there: strong fairness of `PollFind`. PVE owes nothing but the end
of a rewrite it has begun, and neither a restart nor an error (`WatcherFails`) need ever happen. In the pipeline the deadline of the wait arrives
(weak fairness of `WaitExpires`), the log need not. In `Startup`, systemd starts a daemon that is wanted and the daemon
takes its steps (`RunDaemon`), the ticker fires and the manager runs (`RouteTick`, `RouteUpdate`), pmxcfs
is mounted some time after it was unmounted (`Mount`) and a renewal that has begun is finished
(`RenewCert`): without these two no start could succeed. Nothing obliges anyone to start a daemon that was stopped, so `ComesUp` and
`Converges` claim nothing of one that stays so (`wanted => ...`); nothing obliges the name
of the cluster to appear, a cache to expire, or a failure to happen.

## What is proved

Each proof has an inductive invariant in a module of its own, or at the head of the proofs, that
TLC found to hold on the instance of the component's run before it was proved. A
theorem holds for every value of the constants that satisfies the named assumption of the
module, which asks for no more than that the constants have their types; what one needs beyond
that is said here.

### The task watcher

`TaskWatcherProofs` proves for all tasks, migrations, pollers, capacities, bursts and
numbers of restarts:

* `TypeCorrect`: `Spec => []TypeOK`, the capacity of the channel included.
* `NoWakeupIsLost`: `Spec => []NoLostWakeup`. It needs only type correctness:
  the flag is true from the event to the read, and the watches come before
  the first read. It holds for in-place rewrites too.
* `Inductive`: `Spec => []IInv`, and from it `StartedComesFirst`, `EachPhaseOnce`,
  `OutcomesAreTrue`.
* `Implements`: `Spec => RefinesLifecycle`, and `ImplementsReplaced`: without `InPlace`, `Spec` implements
  the specification of `TaskLifecycle` itself.

None of them assumes anything of `InPlace`. They carry the exceptions of their properties, those tasks whose own line
was read torn, and these are needed: `watcher_torn` shows a false outcome of such a task.

The argument. `StartedFirst` and `OncePerLife` are not inductive: they speak of what
was sent, while the code decides by flags that are set before sending and deleted
by the garbage collection. `IInv` closes the gap, for the tasks in `Faithful`; of the others it only says that what was sent begins with `started`
(`StartedIsTold`). `ReplacedIsWhole` says that they are none if the file is replaced. `FlagsMatchTrace`: a flag that
is set was announced or is about to be (`TodoIsDue`); a flag that is missing
although the task was announced means that its line is gone for good, because
only a finished entry that a scan did not see is deleted and `ViewIsPast` says
that the file only moves on after the scan, so the task never comes back to be
announced again. `FlagsAreTrue`: a finished flag stands for a result that was
seen. `PollersAreExclusive`: a poller runs only for a migration that was announced and not yet synced,
one at a time, which makes `synced` unique even when the entry was deleted and
written back. There is one lemma per action of `Next`; `SendTrace` and
`AppendPhase` say once and for all what a send does to the trace.

The assumptions are `WatcherAssumption` (the constants have their types,
migrations are tasks, `NoTask` is not one).

Its last part proves what remains true of the outcomes of all tasks when the file is rewritten in place:

* `SuccessesAreTrue`: `Spec => []SuccessIsTrue`, whatever `InPlace` is.

`IInv` is of no use here, since it says nothing of tasks whose line was torn. The proof needs no order of
scans and rewrites, because "is OK, or was" never becomes false again: what was read as OK
(`OKIsSeen`), what is due or in the channel (`SuccessOnTheWay`), and what was sent all say so.
What carries it is `CutSuccess`, a lemma on the parser: no cut of a line that PVE writes for a running or
failed task reads as OK. A cut leaves each field as it was or turns one into a word
(`CutFields`), and each form of a line reads its status from one place (`SuccessField`),
where only the line of a success has `OK`. That includes the failed task whose message is
"OK" in the second place: it is read in another form.

### The pipeline

`LifecyclePipelineProofs` proves for all tasks and migrations and all capacities of the two
channels, with PIDs reused or not:

* `PipelineInductive`: `Spec => []PipelineInv`, and from it `PipelineTypes`;
* `NothingIsKept`, `DurationsAreSent`, `TargetsAreSent`: `Spec => []NothingKeptAfterEnd`,
  `Spec => []DurationAlways`, `Spec => []TargetKept`;
* `PipelineImplements`: `Spec => RefinesLifecycle`.

The argument. An event passes through two channels and, between them, the hands of
`runWatcher`. `Queue` sees the three as one: `Receive`, `Forward` and the ends of the wait
move events in it and change nothing of it (`ReceiveKeepsQueue`, `ForwardKeepsQueue`), so that
order and completeness are a matter of `Announce`, which appends to it, and of
`Publish`, which takes its first. `NothingIsLost` says that what was
announced is published or queued, `QueueIsInTurn` that each queued event may be
the next of its task once those before it are published. This makes `Publish` a step of
`TaskLifecycle` on what is published: the first of the queue comes in its turn, and
`QueueIsShown` says that the file shows it still. A signal only stops this; nothing is taken out of
the queue in another order.

The maps of the enricher and of `runWatcher` are tied to the phases received and sent of a
task: `StartsAreKept` is an equivalence (a start time is there from the receive of the start to the
send of the outcome), and `TargetsAreKept` says that a target a consumer was told is
either still kept, while the outcome is to come, or in the outcome itself. Both rest on
`QueueIsInTurn`, which makes started the first event and lets one outcome come, but lets
synced come after it; that is the case in which a target must not be stored again.

### The snapshots

`SnapshotProofs` proves for every finite set of VMs (the code holds them in a slice), any
number of request subjects and batches, and every capacity:

* `SnapshotInductive`: `Spec => []SnapshotInv`, and from it `SnapshotTypes`;
* `AnswersAreNew`, `CompletionsAreLast`, `CountsConfirm`: `Spec => []AnswersAreFresh`,
  `Spec => []CompleteIsLast`, `Spec => []CountConfirms`.

The argument. The three speak of what has arrived; the code decides when it sends.
`BatchGoesOn` says what a batch in progress owes (`Owed`, the VMs left and the one in hand): the
number counted and the number owed add up to the length of its list, no VM owed has been told of yet, and no
completion is out. `count` counts the states given to `send`, dropped or not, so that
`EventsAreTrue` can give a completion the length of the list. `SentInOrder` says of
any two events in the channel or arrived which may come first (`MayPrecede`): of one batch, nothing
follows the completion and no VM is told of twice. Drops and failing publishes remove events and cannot
upset an order, and batches of other goroutines have other ids (`BatchesAreApart`). So the states
that arrived stand for as many VMs of the list, and when they are as many as the list is long, they
are all of it. That last step is the only one that counts, and the reason for the assumption of
finiteness.

### The startup and the routes

`StartupProofs` proves for every cluster, every set of static routes and all bounds:

* `RoutesMatchKey`: `Spec => [](TypeOK /\ KeyDescribesRoutes)` of the route manager alone, and
  `RoutesMatchKeyAcrossStarts`: `StartupSpec => []KeyDescribesRoutes` as a part of the daemon;
* `StartupTypes`: `StartupSpec => [](TypeOK /\ StartupTypeOK)`, and of the routes alone `RouteTypes`;
* `ServedPairIsOne`: `StartupSpec => []PairIsOne`;
* `StandaloneHasItsExcuse`: `StartupSpec => []StandaloneIsExcused`, and, if `MaxFailures < MaxAttempts`,
  `NamedWhenOnTime`: `StartupSpec => []NamedUnlessEarly`.

`KeyDescribesRoutes` is inductive with the types alone: a reload sets key and routes together, and one
that fails sets neither. The others need to know why a start is where it is. `DetectCounts`
says that a daemon that was not early and still asks for its name has missed each attempt so far by
a failed read, so that a daemon which gives up has used `MaxAttempts` failures or was early. The
assumption of `NamedWhenOnTime` excludes the first: with as many failures as attempts the daemon is
standalone by design. `RenewalsAreBounded` and `LoadedWasThere` bound what the loader has read.

### The probes

`StateProbeProofs` proves for any number of starts of the VM and of layouts, with
no assumption but that of the types of the two constants:

* `ProbeTypes`: `Spec => []TypeOK`.
* `AnswersWereTrue`: `Spec => []AnswerWasTrue`.
* `RunningHasItsExcuse`: `Spec => []RunningIsExcused`.

Both carry their exceptions: a PID file that was opened but not read and a shadowed cgroup for `stopped`, a PID file that
the daemon may not or cannot open, finds removed, or whose PID is used again, for `running`.

The two invariants say what the history of a probe must hold once it has answered; a probe
that has not answered yet must know why its way so far entitles it to the
answers still open. `ProbeInv` says so: what was looked at is in the history
(`HistoryIsUpToDate`), a PID that was read is that of the last start unless the VM was down
since (`StepIsJustified`), the process and the file of a VM that is up are those of
its last start (`FileIsOfLastStart`, `ProcessIsOfLastStart`), a container is up while its
cgroup has processes, of which it has one at a time (`ContainerIsItsCgroup`), and a probe of a container either has
seen it down or has passed no layout with processes. `HappensKeeps` shows once for all that what happens to the VM
takes nothing back of that, since the history only grows; `VMKeeps` and `ProbeKeeps` have one
step per action.

### The parsers and the subjects

`TextProofs` and `ParsersProofs` prove `Spec => []P` for each of the six properties of `Parsers`:

* `UPIDsAreReadBack` (`UPIDsReadBack`), `LinesAreReadBack` (`LinesReadBack`),
  `SubjectsDoRoute` (`SubjectsRoute`);
* `TargetsAreParsed` (`TargetIsParsed`), `LogTargetsAreParsed` (`LogTargetIsParsed`),
  `ConfigsAreReadBack` (`ConfigReadBack`).

Since a behaviour treats one input, the invariant is `Inputs`, the inputs of `Init`; the work is in what the
functions make of them. TLC evaluates them on the words of an instance. The theorems hold for all nodes, names, flags,
paths, users, ids and values, for users and values of any length, and for any number of pieces of a
name, options of a command line, lines of a log, directories above it, tags and snapshots: each number has a
constant that bounds it, and no proof uses more of it than that it is one.

Texts. A text is cut and joined by definitions that the library makes with recursion (`FlattenSeq`) and that
`Fields` makes with a choice among positions (`Split`), and no prover unfolds either. `SequenceLemmas`
states induction as a fact about a set of numbers (`NatSetInduction`), which the provers can use, and
shows with it that the function behind `FlattenSeq` exists, is unique, and does what one expects
of one sequence (`FlattenOne`), of one more (`FlattenAppend`) and of single elements (`FlattenSingles`). `TextProofs` then describes a joined text by its
marks, the places of its separators (`Marks`, `MarksFields`): `FieldsOfJoin` says that every text has them,
`SplitAtMarks` that `Split` gives what is between them. Two theorems follow for any number of fields of any length:

* `SplitUndoesJoin`: fields that hold no separator are given back;
* `SplitOfCut`: of a text cut anywhere, the fields up to the cut and what is left of the next.

UPIDs. `SplitOfCut` says what `ParseUPID` sees of a UPID cut in any place (`UPIDCut`, and `PartsOfCut` for the colon
at the end that it takes off), hence which of its checks fails: kind, action and VM are
read from the fields before the user, and only behind the separator that follows the id are there fields enough.
So a cut is skipped or leaves type and id whole (`CutIsReadAs`), though perhaps not the user.

Subjects. `Safe` of any name is a token that is no wildcard and not empty (`SafeIsToken`), so the dots of a subject are those
that `Subject` put there (`TokensOfSubject`, by `SplitUndoesJoin`); the rest compares
tokens in their places.

Command lines. A line has six parts (`SixRead`), of which all but the target hold
arguments that give none (`Silent`): `OthersAreSilent` confines what can give the target to one place. If it is an option,
`OptionIsFound` finds it in the line and in every rest of it; if not, `NameIsFound` shows that the first
name after the VMID is the node, if the options between have no name for a value, and else one of these values. `HeadEnds` says where the
search begins, and `CommandsRead` that other commands give what their options name, if they do.

Task logs. `MatchIs` and `NoMatch` say what the regular expression does at a place, from the pieces at it and after it.
`PreambleRead` holds for whatever follows the line, so that no match begins before
the line that names the target (`PreamblesRead`); `NamingRead` gives the first match in that line in each of its four
wordings, and the leftmost match decides (`ReadsAs`). `FindsOwn` shows that the log of the task is found among others.

Configs. Each line is an entry with a key of its own, whose value begins behind the first
colon, whatever it holds (`EntryRead`); the first part of the file ends at the header of a section (`SectionCut`), that of the first
snapshot however many follow (`SnapshotsAre`), and lines of one key agree (`OneValue`). Words that hold no separator have
the same marks whichever separator is between them, so `SplitTags` gives them back (`WordsRead`).

What is assumed of the constants, and why the code and PVE justify it:

* `SubjectsAssumption`: what `safe` keeps (letters, digits, `-`, `_`) is neither dot nor wildcard.
* `TasksAssumption`: a hexadecimal number holds no colon, and decimal digits are hexadecimal ones.
* `TargetAssumption`: names, flags and paths are told apart from each other, as they are by their
  first characters, and from the words that the code knows.
* `TaskLogAssumption`: white space, quotes and signs are no part of a name, as the expression has it.
* `ParsersAssumption`: ids are decimal or empty and users hold no colon, as `ParseUPID` relies on; a tag
  holds no separator of tags. A node is not named like a number, which `looksLikeNode`
  rejects, nor `node`, which the code does not tell from the word in a line of the log. Nor is it named like a command
  (`qm`, `migrate`, by `TargetAssumption`): that is a limit of the theorems, which say nothing of such a node.

### Only model-checked

* Liveness (`EventuallyReported`, `EventuallySynced`, `PlainTaskForgotten`, `EventuallyEnded`,
  `EventuallyPublished`, `Converges`, `ComesUp`): fairness is out of the prover's reach. So is
  `NeverBlocked`, which is stated with `ENABLED`. All other properties that hold are proved.
* The five violated properties, of course.

## Not modelled

* Configuration: read once, sequentially; no state. Two of its entries, `watch.actions` and
  `nats.discovery.members_file`, are read by nothing.
* Logging (`journal`, `log_adapter`), `tail`, `issue-client-cert`: sequential input
  and output.
* `verifyChain` of the TLS loader: certificates as such; `Client`, `Paths`, `ClusterName` and
  `ReloadMembers`, which have no caller.
* The envelope of an event (types, sources, ids): data of no property.
* The nats-server and its protocol: external, but for the matching of subjects. Real time:
  waits and timers only end.
* An address in `.members` that does not parse (`routes.go:61`): it is in the key but gives no route.
* What consumers do: the reconciliation rules of `docs/EVENTS.md` have no code here.

## Plan

1. (done) `TaskWatcher` with `TaskLifecycle`, its runs and proofs; `LifecyclePipeline`,
   `SnapshotEmitter`, `RouteManager` and the parsers of lines and command lines.
2. (done) `Startup` composed with `RouteManager`, `StateProbe` with its proofs, and the parsers of UPIDs, logs
   and configs with the subjects.
3. (done) Proofs of `RouteManager`, `Startup`, `LifecyclePipeline` and `SnapshotEmitter`, and of
   `SuccessIsTrue` in place.
4. (done) Proofs about texts, and with them of all properties of `Parsers`, for any number of options, lines,
   tags and snapshots; types of the routes.
