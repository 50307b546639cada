# k8s-sidecar-rs: TLA+ specifications and proofs

k8s-sidecar-rs runs beside an application in a Kubernetes pod. It finds the
ConfigMaps and Secrets with a label, writes each of their data keys to a file
on a shared volume, keeps the files in step with the cluster, and runs a script
or sends a request when a file changed. It mirrors the behaviour of a Python
program, quirks included (`src/NOTES.md`).

This directory holds a model of that program, the instances TLC checks, and
theorems TLAPS proves. Paths like `src/src/resources.rs` are those of the
repository as it is laid out beside this directory.

## The system

| component | state | operations | works with |
|---|---|---|---|
| `resources.rs` synchronisation | the maps `version`, `object`, `dest` (process-wide, behind a mutex); local variables of each pass and event | `list_resources`, `watch_resource_iterator`, `watch_task`, `process_resource`, `update_file` | all others |
| `kubeapi.rs` API access | none of its own; a watch connection per watcher | `list_page`, `read_named`, `watch_items`, `with_transport_retry`, `server_version`, `init_client` | the apiserver |
| `files.rs` file store | the volume, which survives the process | `write_data_to_file`, `remove_file`, `unique_filename` | called by `update_file` |
| `main.rs` lifecycle | the configuration, the watchers' handles | initial sync, start of the watchers, monitor loop, exit | all others |
| `script.rs` hook | none | `execute` | called after a pass or an event that changed files |
| `http.rs` requests | configuration read once | `request` (retries, backoff, basic auth), `body_if_ok` | `.url` keys and `REQ_URL` |
| `health.rs` endpoint | `ready`, `last_contact_ms`, the `alive` flags | `mark_ready`, `update_k8s_contact`, `register_watchers`, `status_body` | fed by main and by the watchers |
| `logger.rs` | level, format, the log file | `init`, `emit` (rotation) | called by all |

**How they interact.** `main` runs one list-based pass per (kind, namespace),
one after the other, then spawns one watcher task for each of them. The runtime
is single-threaded (`current_thread`, main.rs:64), so tasks interleave only at
awaits: API calls, URL fetches, hooks, sleeps. They share the three maps.
`METHOD=LIST` stops after the first passes; `METHOD=SLEEP`, or `RESOURCE_NAME`,
makes the watchers poll with list passes instead of watching.

**What is hard.** The maps describe files that are written and removed one by
one, with awaits in between, by several tasks. A watch delivers each change
once, then ends; the next connection delivers the current state again, and says
nothing of what is gone. A pass that fails is started over. A write of equal
contents is suppressed, and that suppression is also what stops the hooks. The
process may end anywhere; the volume stays, the maps do not. `hazards` in
`PROJECT.json` lists the places, each with the properties that watch over it.

**What makes the components correct.**

- *Synchronisation*: a live object is on the volume with its current contents;
  a file that no object accounts for is removed; no task touches what another
  task is responsible for; hooks run after the last change, and not without one.
- *API access*: the objects a task gets are those of its kind, its namespace and
  its selector; a new connection misses no live object.
- *File store*: what is reported as unchanged was already there.
- *Lifecycle*: every watcher's end ends the process, so that it is restarted.
- *Health*: "OK" only after the initial sync and while all watchers run, no
  false alarm. *HTTP*: bounded retries. *Logger*: lines in order, none twice,
  only the oldest given up at a rotation, no more backups than configured.

## Modules

| module | models |
|---|---|
| `KubeApi` | the cluster's objects, what a list page or a read returns, one watch connection per task with its backlog and queue; users who create, change and delete objects; the server that ends a watch |
| `Files` | the outcomes of one write or removal, failures included; paths and unique names |
| `Resources` | `resources.rs` and the steps of `main.rs` that drive it, the hooks, failures, crash and restart. EXTENDS `KubeApi`, INSTANCE of `Files` |
| `SyncProperties` | the type invariant, the safety, action and liveness properties |
| `Mirror` | the abstract specification: what the sidecar promises of each object. `SyncProperties` has the mapping and `ImplementsMirror` |
| `Retry` | the retry loops of `http::request` and `with_transport_retry`: what is tried again, after which delay |
| `Lifecycle` | `main.rs` from start to exit, `health.rs`, SIGTERM, and the watchers as main and the endpoint see them, in time. EXTENDS `Retry` |
| `LifecycleProperties` | what the endpoint, the monitor loop, the retries and the handler promise |
| `LogRotation` | the rotating log file of `logger.rs` with its failures, and what a reader of the files finds |
| `SyncInvariants`, `OrderInvariants`, `CacheInvariants` | the inductive invariants behind the properties of the synchronisation, each module extending the one before: scope, folders, passes, hooks and names; the order of versions; the maps, the files and what is to be done to them. Also the assumptions on a deployment |
| `LifecycleInvariants`, `LogInvariants` | the same for the process in time and for the log |
| `SyncProofs` | lemmas on the operators, type correctness |
| `ScopeProofs` | tasks keep to their kind and namespace; the folder of every removal is known |
| `PassProofs` | what a task holds in a pass; hooks see the last change; only named objects |
| `OrderProofs` | the phases of a task; versions go forward |
| `CacheProofs` | what the maps say is what was stored |
| `DiskProofs` | what the maps say is on the volume; the refinement of `Mirror` |
| `LifecycleProofs`, `LogProofs` | the properties of the process in time and of the log |
| `MCSync` | the values of the constants for TLC |

### State

| variable | in the code |
|---|---|
| `cluster`, `rev` | the apiserver's objects and its last resourceVersion |
| `stream[t]` | the watch connection of task `t`: the synthetic ADDED events still to come (`backlog`), the later events (`queue`), whether the server still adds to it (`live`) |
| `files` | the volume: a slot is a directory and a file name |
| `proc` | main: `boot` is the initial sync (or `METHOD=LIST`), `run` the monitor loop, the rest how the process ended |
| `ignore` | `ignore_already_processed` of the watchers, decided anew at each start |
| `task[t]` | the locals of a pass or an event: where it is (`pc`), what called `process_resource` (`via`), names and pages still to read, items, `exist_keys`, `stale`, the calls of `update_file` still to make (`ops`), `files_changed` |
| `version`, `object`, `dest` | `Maps` |
| `told`, `inherited`, `taken` | auxiliary: the volume when a hook last ran, the files an earlier process left, the version of each object that was last stored (it outlives the process). No action reads them |
| `faults` | how many failures have happened, for the bound |

### Actions

One action is the code between two awaits, or one call of `update_file` (which
is atomic because it does not await, except for a `.url` key).

| actions | code |
|---|---|
| `BeginList`, `ReadNamed`, `ListPage` | list_resources up to the last page (resources.rs:433-471) |
| `ListItem` | one item: version check, `Store` = the map update of process_resource and the calls of update_file it will make (476-510, 267-300) |
| `UpdateFile`, `FetchUrl`, `UpdateFetched`, `FinishItem` | these calls in the order of the code: new text, leftover text, new binary, leftover binary, each in the order of the keys (302-410, 161-242) |
| `BeginStale`, `RemoveStale`, `EndList` | the stale sweep and the end of the pass (512-551) |
| `Connect`, `HandleEvent`, `StreamEnds` | one watch connection (579-655) |
| `RunScript`, `SendRequest` | the hooks (537-550, 640-653) |
| `ScriptFails`, `ApiFails`, `Wake` | the errors of watch_task and main, the throttle and the sleep (685, 702-732; main.rs:258-300) |
| `EndBoot`, `Monitor` | main.rs:304-346 |
| `Apply`, `Delete`, `ServerClose`, `Crash`, `Restart` | the environment |

Data are abstract: values and names are members of small sets, a path is a
sequence of tokens, so that a relative annotation is joined and two spellings of
one folder are equal as directories but not as strings (`Resolve`,
`get_destination_folder`). An absent data section and an empty one are the same.

### Mirror

The volume starts empty, which is right for an object without keys only.
`ImplementsMirror` says of each object: the versions the sidecar takes up never
go back, not even across reconnects and restarts; what it does for one object
spoils no other object's files; and once it has the current version at hand, it
does not spoil a file of that object that is right. In `Mirror` a file becomes
right (`Show`) or wrong (`Spoil`) in one step, and only a user's change of the
same object (`Change`) or work on an older version may make it wrong. The
mapping takes `taken` and `rev` as they are, the wanted version from the
cluster and the configuration, and `shown` from the volume.

### Lifecycle

`Resources` has no clock. `Lifecycle` models the same process in time, and
leaves out what a pass writes. Time is in ticks; each call, delay and sleep has
a timer. There is one thread: a stretch without awaits (`Start`, `Spawn` up to
`register_watchers`, a watcher that writes files) excludes every other task,
and while a watcher writes, time may pass, because file operations block. In
every other state whatever is due happens before time goes on. Calls end in any
way until their timeout, and as transport errors then; scripts take any time.

| variable | in the code |
|---|---|
| `mode` | `METHOD` |
| `main` | where `run()` is, and how long its sleep or call still lasts |
| `handler`, `signal` | the SIGTERM task, and the signal; before the handler is installed it is lost (pid 1) |
| `watcher[p]` | the call of the pair `p`, its attempt, whether it is in the delay before it, the time left, and the further pages and `.url` fetches its pass may make |
| `synced` | the pairs whose initial pass is complete |
| `listening`, `ready`, `registered`, `contact` | the endpoint: bound, `Health.ready`, `Health.watchers` filled, the age of `last_contact_ms` |
| `answer` | the answer to the probe that was just made |
| `silent`, `stalled`, `overdue`, `bootAge` | auxiliary ages, read by properties only |

Actions: `Start`, `AskVersion`, `BeginSync`, `mark_ready`, `Spawn`,
`register_watchers`, `Monitor` are the steps of main.rs:71-346; `Install` and
`Terminate` the SIGTERM task (86-94); `ListPage`, `Connect`, `Event`,
`StreamEnds`, `Work`, `EndScript`, `Request`, `WakeUp` those of a pass or a
watch (resources.rs:413-735, http.rs:145-262, script.rs:28-70); `Probe` is
health.rs:139-166; `Sigterm` and `Tick` the environment.

### LogRotation

`disk[0]` is the log and `disk[i]` its backup `.i`, each a sequence of numbered
lines. `Emit` reads the size and decides on a rotation, `Move` is one
`remove_file` or `rename`, `Open` the reopening, `Write` the write
(logger.rs:222-242); `Restart` is the opening in `init`. Any of these calls may
fail (the code ignores it; a size it cannot read counts as 0), and the process
may end between any two. It also ends by the panic of logger.rs:234, if
`/dev/null` cannot be opened: that is `Crash` before the last `Move`.

## Runs

The synchronisation: all with two objects, two tasks and up to two keys per object, one of which is a
`.url` key; one object can change its folder annotation, change its value (in
place too, except in `heal`) and lose its label. `MaxRev` bounds the changes users make, `MaxFaults` the failures.

| run | question | bounds | distinct states |
|---|---|---|---|
| `watch` | Do the watchers keep apart, catch up, tell the hooks, and implement `Mirror`? | 3 changes, no failure | 945,096 |
| `restart` | The same, and is the cache right, after a failed call or a crash? | 2 changes, 1 failure | 526,000 |
| `heal` | Is every failure repaired, and do the hooks fall silent? | 1 change, 2 failures of any kind | 226,768 |
| `poll` | Does polling end with exactly the wanted files, after a failing page too? | 2 changes, 1 failed call | 305,080 |
| `list` | Does RESOURCE_NAME select, and only it? | 2 changes, no failure | 6,013 |
| `lifecycle` | Does the endpoint tell the truth, and do the ends of a watcher, SIGTERM and the initial sync come in time? | 2 watchers, 2 retries, 1 further page or fetch per pass; threshold 4, monitor period 2, calls, delays and sleeps 1 | 704,680 |
| `rotation` | Which lines does a reader of the log files find? | 7 lines, 0, 1 or 3 backups, 2 failures, 2 ends of the process | 519,953 |

`watch`, `restart`, `poll`, `list`, `lifecycle` and `rotation` also check the
inductive invariants of the proofs (`ScopeInv`, `HookInv`, `OrderInv`,
`FilesInv`, `FolderInv`, `NamedInv`, `LifecycleInv`, `LogInv`): TLC finds out on
an instance whether they hold before they are proved for all. `restart` checks
`VersionsForward` and `FilesInv` across a failed call or a crash; `FilesInv`
implies `CaughtUp`, which `watch` checks by itself.

Three changes are enough for a folder move, a removal of the label and a
re-creation with a `.url` fetch in flight; two failures are enough for a failure
during the repair of another. Two tasks suffice for every interference through
the maps, which are keyed by kind and object. `heal` leaves out
IGNORE_ALREADY_PROCESSED: with it a failed write is not tried again before the
object's next change, as in the program it mirrors. Its shapes are the ones that
trip `process_resource`: `/data` and `/data/`, a key that changes its section, and
`a` replaced by `a.url`; in each of them a file is removed that the next delivery
writes again. In `poll` both objects have a key of one name, which only
UNIQUE_FILENAMES keeps apart. `list` assumes that
something runs the container again (an init container, a job).

In `lifecycle` only the order of the durations matters: the period is shorter
than the threshold, as 5 seconds are than 60, and the threshold leaves room for
calls that hang between two rounds of the monitor loop. Two retries are the
fewest with a delay, and with a factor of one the second delay is the first that
is cut. Ages stop just above the value they are compared with. In `rotation` the
lines fill three backups and the log and drop one; with three backups the order
of the shifts matters.

Five runs end in a counterexample; each is a finding in `PROJECT.json`:

- `moved_key` (`CaughtUp`): a key that moves from `binaryData` to `data` loses its file.
- `missed_delete` (`EventuallyClean`): an object deleted while no watch is open keeps its file.
- `unnamed` (`NamedOnly`): RESOURCE_NAME entries of one kind leave the other kind to the label selector.
- `lost_hook` (`HooksSawLastChange`): a process that ends between a write and its hook never runs the hook.
- `contact` (`LiveMeansAnswered`): the endpoint says OK although no call of any
  watcher has been answered for longer than the threshold.

### Fairness

`FairSpec` assumes that a task which can take a step again and again takes one:
the runtime polls woken tasks in turn and there is one thread, so a task is kept
off the executor only while another runs (strong fairness, because the guard
`ExecutorFree` goes up and down). It includes that API calls, fetches and hooks
return; a script that hangs stops its watcher, and is outside the model. The
server ends every watch (`WATCH_SERVER_TIMEOUT`), the monitor loop looks every
five seconds, and the kubelet restarts the container. Users and failures are not
fair: both may stop at any time, and are bounded.

For `Lifecycle`, `FairSpec` assumes less: a stretch without awaits ends (a file
operation returns), and a task that is woken again and again is polled
(`Terminate`). `SigtermEnds` needs nothing of scripts, of the API, or of time.

## Proofs

Every safety and action property of a passing run is a theorem, and so is the
refinement. Each holds for every value of the constants that satisfies the
ASSUMEs below and the condition in the last column: every set of objects, keys,
watchers, changes and failures.

| theorem | says | where |
|---|---|---|
| `TypeCorrect` | `TypeOK` of the synchronisation | always |
| `ScopeCorrect`, `InScopeCorrect` | no task works on an object outside its kind and namespace | always |
| `OnlyOwnFilesCorrect` | a file changes only by the hand of a task that serves its object | always |
| `FolderCorrect`, `FolderKnownCorrect` | no file operation in the empty folder | always |
| `LocalCorrect`, `PhaseCorrect` | what a task holds belongs to its part of a pass; no stream while it lists, nothing after the end | always |
| `HooksDueCorrect`, `HooksSawLastChangeCorrect` | the hooks have seen the last change when all rest | `HooksKept` |
| `NamesCorrect`, `NamedOnlyCorrect` | nothing but what RESOURCE_NAME names | `AllNamed` |
| `OrderCorrect`, `VersionsForwardCorrect` | no older version is stored after a newer one | always |
| `CacheCorrect` | what the maps say of an object is what was stored of it | always |
| `NoOrphansCorrect` | every file is accounted for | no failing file operation |
| `CacheOnDiskCorrect` | a remembered key has its file | `Tame`, no failing file operation |
| `FilesCorrect`, `SkipIsSafeCorrect`, `CaughtUpCorrect` | the files of the last stored version are right or about to be; what is skipped, and what a watcher has caught up with, is on the volume | `Tame`, `FilesKept` |
| `ImplementsMirrorCorrect` | `Spec => ImplementsMirror`, step by step | `Tame`, `FilesKept` |
| `LifecycleTypes`, `PhasesCorrect`, `OkIsHonestCorrect`, `NoFalseAlarmCorrect`, `MonitorOnTimeCorrect`, `BootOnTimeCorrect`, `LifecycleInvCorrect` | the process in time: every delay, timeout, number of retries, watchers, pages | always |
| `LogTypes`, `InOrderCorrect`, `SuffixKeptCorrect`, `BoundedCorrect`, `BackupsKeptCorrect`, `LogInvCorrect` | the log: every limit, number of backups, failures and ends | always |

### Assumptions

The ASSUMEs of the modules; every run of the module evaluates them:

- `ApiAssumption`, `ConfigAssumption`, `LifecycleAssumption`,
  `RetryAssumption`, `LogAssumption` type the constants. The monitor period is
  no longer than the contact threshold (5 and 60 seconds in the code).
- `WellFormedAssumption`: no two objects of a kind have the same `Item::key` (the
  code concatenates namespace and name), paths are sequences, `FOLDER` is not empty.
- `OneWatcherAssumption`: no object is served by two watchers; the entries of
  NAMESPACE do not overlap.
- `NoneAssumption`: the absent value is no version, section, entry or contents.

The conditions of single theorems. Where one does not hold, the property does
not either, or is not meant to:

- `HooksKept`: nothing but fetches fails, and the initial sync does not skip the
  only hook. A crash between a write and its hook loses the hook (`lost_hook`).
- `AllNamed`: RESOURCE_NAME has an entry for every watcher. Otherwise the others
  fall back to the label (`unnamed`).
- `Tame`: no two keys, objects or folders share a file (`SlotsApart`, over the
  keys an object may have), and no key moves between `data` and `binaryData`
  (`SectionsKept`). It holds in `watch`, `restart`, `poll` and `list`. `moved_key`
  shows what happens without the second part; without the first the last writer
  wins, and a removal of one removes the file of the other.
- `FilesKept`: API calls, scripts and the process may fail at any time, file
  operations and fetches do not. A fetch that fails empties a file that was right.

### The arguments

*Scope and folders.* `InScope` speaks of what a task works on now: items, stale
entries, operations. It is not inductive: items come from pages and from the
stream, operations also from the old owner of a map entry. `ScopeInv` adds that
the cluster's objects stand under their names, that streams and pages are in
scope, and that an entry of `object` is stored under its own key, which is where
the injective key is needed. `FolderKnown` says that `unwrap_or_default` never
yields the empty folder. The stale sweep passes no folder, so a removal needs the
`dest` entry; `FolderInv` says that it outlives the entry of `object`.

*Passes and hooks.* `LocalInv` says which locals a task can have at each pc.
With it, `HookInv` is inductive: as long as a file differs from what the hooks
saw, some task has `changed` set or stands before its hook.

*Versions.* `VersionsForward` needs that every source of an object is newer than
what was stored: a listing, a backlog, each queued event and the cluster
(`OrderInv`). Two tasks on one object would break it, as would a list and a stream
of one task at a time; hence `OneWatcherAssumption` and `PhaseInv`.

*Maps.* `CacheInv` relates what is remembered to what is still to come.
`ContentInv`: two mentions of a version are the same object. `ChainInv`: take the
backlog and the first n events of an open stream, and what the maps would hold
after them; at a DELETED event that is the object it tells of, and at the end of
an open stream it is the current version of every live object. `SweepInv`: what
a listing left out was gone, or has changed since, while the sweep is still to
come. `VersionInv`: a recorded version was stored. `PendingInv`: what is about to
be written is remembered, with its folder.

*Files.* Every step is one of five kinds for the maps and the volume: none
(`Passive`), an object taken up (`Takes`), one dropped (`Drops`), one file
(`Touches`), the end of the process (`Ends`); only a user changes the cluster.
`NoOrphans` is inductive with the earlier invariants, because a file leaves the
account only when a removal of it is put on some task's list. `DiskInv` is
`CacheOnDisk` by key instead of by object: a remembered key has its file or a
pending write, and no pending removal aims at it. `ShownInv` says the same of
contents: once the current version of an object was stored, each of its files is
right or a write of the right contents is pending; no pending operation of an
object whose current version was stored is for another version. `ShapeInv` ties
keys to those an object may have, which is what `SlotsApart` speaks of.

*Refinement.* A user's step is a `Change`, an object taken up a `Take` (by
`OrderInv` in the right direction). A file operation concerns one object only
(`SlotsApart`); when it makes the last file right it is `Show`. When it makes a
right file wrong, the version that was taken up is not the current one, for
otherwise `ShownInv` and `DiskInv` say that the operation writes what is there:
it is `Spoil`. Everything else changes nothing `Mirror` sees.

*Process.* `PhaseInv` says what the endpoint and the watchers may be at in each
phase of main. The three ages are bounded by invariants of the form "age plus
what is left of the sleep is at most ..."; for the initial sync `BootInv` sums
what the call in progress, with all its attempts, and the calls still to come
may take.

*Log.* `OrderInv` there carries the order of lines through the moves of a
rotation, in which one number is missing at a time. `BackupsKept` counts the
missing numbers: each end of the process leaves one at most (`HolesInv`).

*Layout*: lemmas for the operators shared by actions (`Store`, `Forget`,
`Perform`, `Throw`, `Exit`), one lemma per group of actions with one case per
action, `Init` and `Next`, then the theorem. Invariants are stated as operators
over named state (`Right`, `OpRight`, `InHand`, ...) where a lemma speaks of the
state after a step.

### Only model-checked

Liveness: `EventuallyShown`, `EventuallyExact`, `HooksFallSilent`,
`DeadWatcherExits`, `SigtermEnds`. They need fairness and ENABLED, which the
prover does not handle. `heal` checks the first with failing file operations,
keys that move and folders spelled in two ways, where none of the conditional
theorems applies. The five violations are counterexamples of instances.

## Not modelled

- Basic authentication, payloads, TLS, the addresses the endpoint binds, log
  formats and levels, the parsing of flags, environment and `LOG_CONFIG`: they
  keep no state. What they decide is a constant of the model.
- Log configuration that changes between two starts of the container.
- A crash in the middle of one write (the file is truncated): a failed write
  leaves the same file behind, and the restart rewrites it. A log line that is
  written in part.
- Calls whose answer trickles in: `read_timeout` is restarted by each chunk, so
  such a call can outlast `CallTime`. `BootOnTime` does not speak of them.
- RESOURCE_NAME entries that name the same object twice for one task: the code
  reads and processes it once per entry, the model once.
- Two objects that share a file without UNIQUE_FILENAMES, overlapping namespaces,
  and `a` and `a.url` in one object at once: the model has them, no instance does.
- A `.url` value in `binaryData` that is not UTF-8 fails like a file operation.
- Configuration values that make a conversion panic (a negative timeout).
- `src/test`, the Dockerfile and the Makefile.

## Plan

1. *Done*: the synchronisation with its environment, `Mirror`, the lifecycle with
   the endpoint and the retries, the log rotation, the findings; theorems for all
   safety and action properties of the passing runs and for the refinement.
2. *Proofs to come*: weaker conditions for the theorems about files. With failing
   file operations `NoOrphans` holds up to the files whose removal failed, and
   `CacheOnDisk` up to the writes that failed. Without `SectionsKept`, what an
   object whose key moved is left with until its next delivery. The parts of
   liveness that are safety: no dead watcher survives a round of the monitor loop
   in `Resources`, a pass has finitely many steps to go.
