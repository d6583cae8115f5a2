# LMRS in TLA+

LMRS (Local Model Runtime Service) stands in front of one vLLM process on one
GPU. It decides whether a request fits the card, keeps track of which model is
in memory, switches models, manages the models on disk, and is started and
stopped by a small process manager, or by the entrypoint of a container; a
client library drives it and accepts a deployment by a run of live checks.
This directory holds its formal model:
TLA+ modules translated from the code under `src/`, TLC configurations that
check them on small instances, and TLAPS proofs about them for every instance.

    tlc -config Lifecycle.cfg MCModelLifecycle      # a run: <cfg> <module>
    tlapm ModelLifecycleProofs.tla                  # a proof module

`PROJECT.json` ties everything together: components, runs, the source lines
behind each definition (`map`), a plausible bug for each property (`mutants`),
disagreements between code and documentation (`findings`), what is hard to
test in this code (`hazards`) and the proved results (`theorems`).

## 1. The system

### Who runs what

* **The service** is one Python process. Commands that arrive over JSON-RPC
  are either *inline*, and then run synchronously on the event loop, one at a
  time and to completion (`adapter/registration.py:128-135`), or *queued*
  (`local_model_cache_preload`, `local_model_switch`), and then run on worker
  threads of the adapter library's job queue, beside the loop and in the same
  process. The configuration template allows 10 such jobs at once
  (`packaging/config.json.template:69`); the generator's default is one.
* **The runtime** (vLLM) is another process, in the container started together
  with the service and stopped with it, otherwise wherever `VLLM_BASE_URL`
  points. It loads one model and serves it. LMRS only asks it what it lists
  and forwards requests; the help of `reload` speaks of its restart, so the
  modules let it stop and come up alone.
* **Shared state without a lock**: the residency record and the switch markers
  (process memory), the VRAM facts file, the hub cache directory with the LMRS
  state beside it, and the PID file.

### Inventory

| Component (code under `src/lmrs/`) | State | Operations | What is hard | What makes it correct |
|---|---|---|---|---|
| Model lifecycle (`model_lifecycle.py`) | `current_residency`, `_SWITCHES_IN_PROGRESS` | load, unload, reload, switch | read, then a disk scan and an HTTP probe, then a write, on two kinds of threads; failing stages; restarts of either process | nothing is resident that the runtime never listed; a switch is marked exactly while it runs; it ends |
| Admission arithmetic (`admission.py`, `estimation.py`, `vram.py`) | none | token and byte requirement, pools, verdict, GPU fraction | boundaries, rounding | the verdict follows the two pools; the fraction leaves room for everyone |
| Chat, estimate, cancel (`commands.py`, `adapter/registration.py`) | the queue held by `_QueueHolder` | admit, estimate, cancel | capacity measured, then acted on; stored figures standing in for measured ones | each request is answered; what is answered queued is queued |
| Request queue and dispatcher (`queue.py`) | entries of a persistent value | add, cancel, select the largest fit, recheck, launch | capacity moves between selection and launch; expiry | only what fits now is launched |
| VRAM facts (`vram.py`, `adapter/runtime.py`) | the facts file | startup baseline, baseline of a report, record of a load | read-modify-write of a whole file by several threads; a truncating write; crashes | a model-free baseline stays; no static figure without one |
| Disk model cache (`model_cache.py`) | hub directories, readiness marker, metadata | list, preload, delete, metadata, integrity check | a scan is the only truth, beside downloads and deletes by others | complete means complete; no state without a model |
| Server manager (`manager.py`) | the PID file | start, stop, status, restart | no lock, reused process ids, interrupted operators | one server, and the PID file names it |
| Startup and configuration (`adapter/runtime.py`, `configuration.py`, `config/`) | configuration file, facts file | generate, validate, start | startup beside a runtime that is loading | the baseline is of the card without a model |
| Adapter command surface (`adapter/registration.py`, `schemas.py`, `command_docs.py`, `info.py`) | none of its own | parameters in, commands out | - | the commands do what their help says |
| Runtime client (`runtime_client.py`) | none | list models, chat, count tokens, with timeouts | no answer, an answer that is none | no answer is never taken for a served model or a completion |
| LMCache (`lmcache.py`) | the directory LMCache keeps on disk | status, metrics, purge of all, a namespace, a session | the runtime writes and evicts files meanwhile; an artifact that cannot be removed | a purge stays in its scope, and an answer means the scope is gone |
| Calibration, telemetry (`calibration.py`, `telemetry.py`) | none | derive KV bytes per token, records | zero divisors, missing fields | figures agree with the model's architecture |
| Gateway contracts (`gateway.py`, `contracts.py`) | none | validate | - | - |
| Proxy registration (`proxy/`) | registered or not | register, heartbeat, unregister | lost answers | - |
| Operator CLI (`cli/`) | none | one adapter call each | - | exit codes |
| Client and live check (`client/lmrs_client/`) | the run: its check, its call, what has failed | calls, waits for jobs, verdict over a series | failures inside envelopes, lost answers, others' doings | a pass means that every call did what its check asserts |
| Check pipeline (`pipeline/`) | registry | run checks in order | - | - |
| Container (`docker/`, `packaging/`) | two child processes, the container | start both, forward signals, start and stop from the host | either child dies; a signal between any two commands | the two end together, and before the container does |
| Plan tools (`tools/`) | none | check planning documents | - | not part of the service |

### Interactions

    operator --> server manager --> service process
                                      |
      JSON-RPC --> event loop: chat, estimate, cancel, load, unload, reload,
                   |            delete, update_metadata, capacity report
                   |        \
                   |         job workers: preload, switch
                   |            |       |
           request queue   switch markers, residency, facts file, cache dir
                   |            |       |
                   +--> vLLM <--+       +--> hub client (downloads)

A switch is the command that touches most of it: it scans and fills the disk
cache, reads and replaces the residency record, probes vLLM, records VRAM
facts, and holds a marker that makes chats for its model answer
`MODEL_SWITCHING` meanwhile.

    host script --> container engine --> entrypoint --> vLLM, service
    live check  --> client --> (network) --> service --> jobs, purge, vLLM

## 2. Modules

| Module | Models | Its state in the code |
|---|---|---|
| `ModelLifecycle` | load, reload, unload, switch, with chat and delete as far as they meet them | `residency` = `ModelMemoryLifecycle.current_residency`, `switching` = `_SWITCHES_IN_PROGRESS`, `disk` = what a scan finds, `served` = what vLLM lists, `job` = where each thread is in its command |
| `Capacity` | the pure arithmetic of admission and of the GPU fraction | - |
| `ChatAdmission` | the canonical handler: capacity figures in, verdict, queueing, runtime call, reply, cancel | `queue`, `req` (the request being served), `switching` |
| `AdapterAdmission` | `ChatAdmission` as deployed: figures measured from the card or taken from the facts file, pools derived, `_QueueHolder` as owner of the queue | adds `gpu`, `storedFree`, `sized`, `reading`; the history `seen` |
| `QueueDispatch` | `ChatAdmission` with the dispatcher of `queue.py` | adds `usable`, `selected`, `launched`, a clock |
| `VramFacts` | the facts file and its three writers | `file`, `act` = where each writer is, `held`/`served` = vLLM |
| `DiskModelCache` | preload, delete, update_metadata file by file, beside the runtime's downloader | `dir`, `tree`, `marker`, `meta`, `job` |
| `ServerManager` | `lmrsmgr` commands over the PID file | `pidfile`, `proc` = the process table, `op` = where each operator is |
| `RuntimeCalls` | what a call to the runtime can come to | - |
| `Deployment` | abstract: what a container promises of its two processes | `container`, `life` of each process |
| `Supervision` | the entrypoint command by command, with its traps, and the host script | `pc`, `child` = the process table, `pids` = the array of recorded ids, `told`, `term` = a pending signal |
| `LmcachePurge` | one purge, system call by system call, beside the runtime and a system that may refuse any of them | `purge` = the call's parameters, the directory, the listings `rmtree` holds, the count |
| `LiveCheck` | the pipeline of live checks call by call, with the service, others and the network | `at` = check and call, `reply` = what the client has received, `failing`/`failed`/`exit` = the verdicts, `residency`, `runtime`, `disk`, `jobs` = the service |
| `*Proofs` | theorems about the module they extend | - |
| `MC*` | the symmetry sets for TLC | - |

Composition: `Capacity` <- `ChatAdmission` <- `AdapterAdmission` and
`QueueDispatch`. `ChatAdmission` is the handler alone: it accepts any capacity
figures. Both compositions EXTEND it and take its actions as they are,
`AdapterAdmission` with the pools it derives in place of "any figure", so that
nothing is left to show between them. What is shown is where those pools come
from (`AdmittedFits`) and what they rule out (`QueueAlwaysEmpty`).

`RuntimeCalls` is what the callers of `runtime_client.py` share: admission's
completion (`ChatAdmission`), a load's probe (`ModelLifecycle`) and a
baseline's probe (`VramFacts`) are each a use of one of its operators, so the
timeout, the refused connection and the unreadable body are the same there.

`Deployment` is the *abstract specification* of the container, and
`Supervision!Abstract == INSTANCE Deployment WITH life <- ...` the mapping
under which the entrypoint implements it: a zombie and a process that has been
waited for are both dead, one not started is unborn, and each command of the
script that starts or ends no process is a stutter.

`LiveCheck` EXTENDS `LmcachePurge`: the purge is one of the calls of the run,
and goes on step by step whether the client still waits for it or not. What a
switch, a load or a preload comes to is one step there, since `ModelLifecycle`
and `DiskModelCache` are about what happens inside.

### How a step is chosen

A step of a thread is the code between two calls that leave the process: a
disk scan, a download, an HTTP call, `nvidia-smi`, an open or write of a file.
Other threads and processes act in between. Inside a step the code works on
memory of one process without leaving it, which the interpreter lock does not
make atomic in general; the operations in question are single reads,
assignments, `set.add` and `set.discard`, which it does.

| Modelled as | In the code |
|---|---|
| `LoadCheck` ; `CacheGate` ; `Probe` ; `Commit` | `load_model`: residency check, scan of the cache unless preloading is allowed, probe of the runtime, VRAM record and assignment |
| `SwitchCommand` ; `CacheStatus` ; `Preload` ; `ReadResident` ; `SwitchUnload` ; the load's steps ; `Finish` | `switch_model` from the marker to the `finally` clause |
| `Measure` ; `DerivePools` ; the handler's step ; `RuntimeReturns` ; `Deliver` | `capacity_snapshot`, then `CanonicalChatHandler.chat` or `.estimate` |
| `Select` ; `Recheck` | the two readings of `QueueDispatchWorker.dispatch` |
| `Measure` ; `ProbeServed` ; `ReadForBaseline` or `ReadForLoad` ; `Truncate` ; `Fill` | a `VramFactsStore` writer; `Path.write_text` is two steps |
| `PreloadScan` ; `FetchBegin`, `FetchEnd` ... ; `Rescan` ; `WriteMarker` | `preload`; the hub client fetches file by file |
| `RemoveEntry` ... ; `RemoveDirectory` ; `RemoveState` | `delete`: `rmtree`, then the LMRS state |
| `ReadState` ; `Spawn` ; `Settle` ; `TruncateState` ; `FillState` ; health | `start`, likewise stop and restart |
| `SpawnRuntime` ; `RecordRuntime` ; `SpawnService` ; `RecordService` ; `WaitReturns` ; `Exit` ; `ShutdownReturns` | the entrypoint; bash runs a trap between any two of them |
| `PurgeCommand` ; `CountTarget` ; `OpenTarget` ; `EnterDirectory`, `UnlinkEntry`, `RemoveDirectory` ... ; `AnswerPurge`, or at any of them `Refused` | `purge_lmcache`: the targets, the count of files, then `rmtree` |
| `Answered`, or `Enqueued` ; `JobRuns` ; then `Judged` or `Raised` | one call of a live check, inline or queued, and what the check makes of its answer |

What the program does not decide is a free choice: what the runtime lists,
whether a call answers, when a process dies, what the card has free, which
file of a download comes next, which process id the kernel hands out.

Assumptions about code outside the repository:

* the hub client returns normally only when it has every file, keeps two
  downloads off one file with a lock, and leaves `.incomplete` blobs when
  it stops;
* the adapter library runs queued jobs on threads of the service process and
  never two inline commands at once;
* a scan of a cache directory is one step (it is short beside a download);
  where it meets a directory being deleted it may raise;
* an exited child is a zombie while its parent still runs, and then counts as
  alive for `os.kill(pid, 0)`;
* bash runs a trap between two commands, interrupts `wait` for it, and under
  `set -e` ends a script whose `wait -n` was interrupted; what process 1 of a
  container leaves behind is killed;
* `shutil.rmtree` lists a directory before it removes entries, and raises at a
  missing file (before Python 3.13, either way here), a directory that is
  not empty, and whatever listing or removal the system refuses;
* names in a file system are of bounded length, so there are finitely many
  namespaces, sessions and file names (`PurgeAssumption`; a purge counts files);
* a namespace and a session are directories of the layout
  `<root>/<namespace>/<session>/`. A caller may name something else: such a
  purge is `PurgeElsewhere`, of which nothing is known but that it removes files.

### What a module leaves out

* Texts, timestamps of records, logging, the shapes of answers. An outcome is
  kept where the code decides by it, or a property speaks of it.
* Token counting and the reading of a model's KV profile: their results are
  inputs (`TokenCounts`, `sized`). The adjustment of a requirement by a
  confirmed LMCache hit: no caller in the repository confirms one.
* In `DiskModelCache`, revisions and the sharing of blobs between them: a
  model is one snapshot. In `ServerManager`, configuration lookup, log files
  and ports other than the server's.
* In `Supervision`, environment defaults, mounts and the Debian packaging; of
  the configuration, what the script branches on.
* In `LiveCheck`, checks that need no service (they cannot meet anything), and
  what a payload says beyond success flag, status, error code and whether a
  token count is rough. The status and metrics of LMCache only read.
* In `RuntimeCalls`, metrics (they feed a report) and executors a caller
  injects: the deployed service injects none.
* In `ModelLifecycle`, chat's admission (in `AdapterAdmission`) and the file by
  file work on disk (in `DiskModelCache`): one action each, with the outcomes
  those modules show possible.

## 3. Runs

| Run | Question | Instance | Distinct states |
|---|---|---|---|
| `Lifecycle` | Are switch markers exact but for what is left of overlapping switches to one model, does no chat enter any other switch, is what is resident always something the runtime listed, is it replaced only if the runtime changed its model? Does the inductive invariant hold? | 2 models, 2 workers, the runtime may be restarted with either; symmetry | 1.46 million |
| `LifecycleEnds` | Does a started switch end, and its marker go? | 2 models, 1 worker; fairness | 82 thousand |
| `Queue` | Is what is answered queued in the queue, and only what fits now launched? | 2 requests of 2 sizes, 3 capacity figures, queue of 2, clock of 1; symmetry | 894 thousand |
| `Adapter` | Does the deployed path answer everything, does it ever queue, and what admits a chat? | 2 models, 1 request, 3 token counts, 2 readings and no reading, 3 supplied figures; fairness | 211 thousand |
| `Vram` | Is a static figure always backed, when can a model-free baseline be lost, and is it one of a card without weights? | loop and 1 worker, card of 3 units, weights of 2, crashes inside a write | 798 thousand |
| `Cache` | Is a downloaded model whole when it is marked, and does state outlive its model? | 1 model of 4 files, 2 workers, runtime's downloader, symmetry | 566 thousand |
| `Manager` | One server, named by the PID file, none after a stop? | 2 operators, 3 process ids, a PID file that may be torn or unreadable; symmetry | 120 thousand |
| `Supervision` | Do the two processes end together and before their container, is the service ever left alone, does a signal end the wait? Does the script implement `Deployment`? | the script itself, every configuration it branches on, any number of signals and restarts; fairness | 861 |
| `LiveCheck` | Does a passed run mean what it says, does an undisturbed one pass, does a purge stay in its scope and answer truly, are the served weights safe? | all three live checks with their 23 calls, 3 models, 2 namespaces, 2 sessions, 1 file name; symmetry | 4.9 million |
| `LifecycleMarkerLost`, `VramBaselineLost`, `CachePartial` | Counterexamples to what the documentation says, section 6 | as their passing run or smaller | - |

All runs but `LiveCheck` check for deadlock: those components may not stop for
good. An acceptance run does stop, with its verdict.

### Bounds

* *Two models* let a switch find another model resident, and a load or reload
  of either overlap it; *two workers* let switches to the same and to different
  models overlap, and together with the loop give three concurrent threads.
  The configuration template allows ten, and every safety property of
  `Lifecycle` is proved for any number. `LifecycleEnds` has one worker: a
  switch waits for no other, so that a second adds states and no way to stay.
* *Token counts and figures* are chosen to meet every verdict: over the
  window, larger than the pool, larger than the usable part, exactly equal to
  each, and smaller. A request of `t` tokens takes `2t + 2` units in
  `Adapter`: 4, or 6, or it is over the window. The readings 6 and 9 give
  pools of 4 and 7 after margin and reserve, so that the first fits either
  exactly or with room and the second only one; nothing measured and nothing
  stored gives pools of 0.
* `MaxQueue` bounds the queue: the code has no limit. A request arrives in the
  model only while there is room. `MaxTime` bounds the clock of
  `QueueDispatch`, whose only use in the code that is modelled is to order
  entries by their arrival: two instants do.
* *A card of 3 units and weights of 2* distinguish a card without weights,
  with some, and with all of them, which is all the code compares.
* *Two shards, an index and one other file* allow each way a partial
  directory can look: shard without index, index without shard, all but the
  configuration.
* *Two namespaces of two sessions with one file each, and a file at the root*
  distinguish every scope a purge can have from its neighbours. `MaxCompany`
  lets the runtime act twice during a purge: write what was just evicted,
  fill what was just emptied. The purge of a live run finds at most one file
  (`RunTrees`), since its only part in the verdict is whether it answers;
  other clients' purges find every tree, and are let in while no run is on,
  so that the two products do not multiply. For the same reason others'
  loads, deletes and restarts wait for a purge to end: they touch nothing it
  works on.
* *Three process ids* allow a server, a stranger and a second server at once.

### Fairness

`ModelLifecycle!FairSpec` and `AdapterAdmission!FairSpec` assume weak fairness
of a thread that has begun a command, and nothing else: the operating system
schedules threads, and every HTTP call and `nvidia-smi` have a timeout, so a
step either completes or fails. Weak fairness is enough since a started
command's next step stays enabled until it is taken (or the process dies,
which ends the command). A download has no timeout, so `Preload` is under no
fairness: `SwitchStallsOnlyInDownload` says it is the only place where a
switch can stay, and `MarkerIsCleared` assumes `DownloadsEnd` by name. No
fairness of clients, of the runtime or of an operator is assumed.

`Supervision!FairSpec` assumes weak fairness of the script, whose derivation
of the utilization has a timeout and whose commands end, and that a child that
was told to stop does, which both do by their handlers of TERM. It does not
assume that a child ever ends by itself, that a signal ever comes, or that
the engine kills a container that is slow to stop.

## 4. Properties

`ModelLifecycle`
: `MarkerOnlyForSwitch`: a marker is there only while a switch to its model
  runs. `UnmarkedOnlyAfterOverlap`: and it is there whenever one does, except
  for what is left of several switches to one model of which one has ended
  (the history `overlapped`). That the exception is real is
  `LifecycleMarkerLost`. `ChatAvoidsSwitch`: the consequence for a chat whose
  capacity was measured before the switch began, on any number of workers.
  `ResidentWasListed`: no path
  to the residency record avoids the probe. `ResidentModelStays`: as long as
  the runtime has listed one model only, no interleaving replaces or drops the
  record while the service lives.
  `FailedStageWasAnnounced`: a failed switch names the stage it was in.
  `SwitchStallsOnlyInDownload`, `MarkerIsCleared`: liveness.

`AdapterAdmission`
: `QueueAlwaysEmpty`: the deployed service never queues. Both pools derive
  from one free figure and differ by what queued entries reserve, running
  requests reserve nothing, so `CAPACITY_CONSTRAINED` would need an entry in
  the queue first. `AdmittedFits`: a chat is handed to the runtime only if it
  fits, margin and reserve put aside, what the card has shown since the chat
  was taken up, or what the facts file held then, for want of a measurement
  (the history `seen`); no figure of an earlier request gets in, though card
  and file move between reading and verdict. `RequestsAreAnswered`: liveness of
  the loop.

`QueueDispatch`
: `QueuedIsInQueue`: the caller that owns the queue adopts the new value.
  `LaunchesAreQueuedAndFit`: the second reading is what a launch is held to.

`VramFacts`
: `StaticNeedsModelFree`: whatever overlaps. `LostOnlyWhenTorn`: the two
  causes by which a model-free baseline can be lost are the only ones.
  `FreeBaselineIsBare`: a stored model-free baseline is the reading of a card
  without weights, unless one of its two inputs misled the code: weights being
  loaded before anything is listed, or a probe whose answer came from another
  moment than the reading (or not at all).

`DiskModelCache`
: `DownloadedIsWhole`: a preload that has downloaded marks a whole model,
  unless a delete ran beside it. `StateNeedsModel`, `StateGoesLast`: marker
  and metadata follow the directory.

`ServerManager`
: `ServersAreManaged`, `OneServer`, `StopLeavesNone`, `HealthIsOwn`: while
  commands do not overlap, no start is interrupted between its spawn and its
  PID file, and the file can be read and is whole when a command reads it: one
  that is not counts as none, and a start goes on. The module contains what
  happens otherwise; the history variable `disturbed` marks it. A start may
  also give up on a server that is up (another status than 200, a certificate
  it does not accept), and then kills it.

`Supervision`
: `ImplementsDeployment`: refinement; on every way out, early, failed or
  signalled, no process outlives its container. `AloneOnlyAfterEarlyTerm`: the
  service waits without its runtime in one case only, a signal handled during
  startup. `EndsTogether`, `WaitingStops`: liveness.

`LmcachePurge`, `LiveCheck`
: `PurgeStaysInScope`: by bindings that name their directories, only files of
  the scope asked for are removed. A purge by any other binding is in the
  module and excluded by name; the code promises more (section 6).
  `PurgeAnswersTruly`: an answer means that nothing of the scope is left but
  what came later, also where the system refuses a listing or a removal, at
  which the purge ends without an answer. A purge the runtime leaves alone
  finds everything as it has listed it.
  `PassedMeansHeld`: a run passes only if every call did what its
  check asserts, through every envelope, lost answer and interference.
  `UndisturbedRunPasses`: and it does pass when nobody interferes, so the
  order of the calls is right. `ServedWeightsStay`: the run deletes a scratch
  model, never the weights of the model that is served.

History variables (`listed`, `written`, `torn`, `misled`, `disturbed`,
`answered`, `own`, `alone`, `early`, `outcome`, `held`, `overlapped`, `seen`, and in a purge
`removed` and `written`) record what happened. No action of the code depends
on them.

## 5. Proofs

Each proof is of the shape: a strengthened invariant holds initially, is
preserved by every action (one step per action), and implies the property.
They hold for every value of the constants that meets the module's `ASSUME`,
so for any number of models, workers, files, operators and process ids.

| Theorem | Says | Assumes beyond the module's `ASSUME` |
|---|---|---|
| `LifecycleInvariant` | `Spec => []LifecycleInv` | - |
| `NoMarkerLeaks`, `ResidentIsListed` | `MarkerOnlyForSwitch`, `ResidentWasListed` | - |
| `SwitchesAreMarked`, `ChatsAvoidSwitches` | `UnmarkedOnlyAfterOverlap`, `ChatAvoidsSwitch` | - |
| `ResidencyIsWriteOnce`, `FailuresNameTheirStage` | `ResidentModelStays`, `FailedStageWasAnnounced` | - |
| `QueueInvariant`, `QueueNeverFills`, `AdmittedChatsFit` (`AdapterAdmissionProofs`) | `QueueInv`, `QueueAlwaysEmpty`, `AdmittedFits` | - |
| `FactsInvariant`, `StaticIsBacked`, `BaselineLostOnlyWhenTorn`, `FreeBaselinesAreBare` | `FactsInv`, `StaticNeedsModelFree`, `LostOnlyWhenTorn`, `FreeBaselineIsBare` | - |
| `StateInvariant`, `NoOrphans`, `StateIsLast`, `DownloadsAreWhole` | `StateInv`, `StateNeedsModel`, `StateGoesLast`, `DownloadedIsWhole` | - |
| `ManagerInvariant`, `NoServerIsLost`, `ServersDoNotMeet`, `StopStops`, `HealthIsOfOwnServer` | `ManagerInv` and the four properties | - |
| `SupervisionInvariant`, `AloneAfterEarlyTerm`, `EntrypointKeepsPromise` | `SupervisionInv`, `AloneOnlyAfterEarlyTerm`, `ImplementsDeployment` | - |
| `PassedRunsHeld`, `ServedWeightsAreSafe`, `PurgesStayInScope`, `PurgesAnswerTruly`, `UndisturbedRunsPass`, `TypeCorrect` (`LiveCheckProofs`) | `PassedMeansHeld`, `ServedWeightsStay`, `PurgeStaysInScope`, `PurgeAnswersTruly`, `UndisturbedRunPasses`, `TypeOK` | - |
| `QueueInvariant`, `TypeCorrect`, `QueuedIsQueued`, `LaunchesFit` (`QueueDispatchProofs`) | `QueueInv` of the dispatcher, `TypeOK`, `QueuedIsInQueue`, `LaunchesAreQueuedAndFit` | - |
| `CancelFilters`, `LargestFitSelects` | what `RequestQueue.cancel` and `largest_fit_scheduler` yield for a queue of any length | - |
| `QueueingReserves`, `CancelReleases` | what `ReservedBytes` is of a queue of any length: zero when empty, what an entry requires more for every entry queued, and at least what it had reserved less when a request is cancelled | - |
| `RuntimeLeavesRoom`, `RuntimeTakesTheRest`, `MoreUsableNeverHurts` | what `Capacity` promises: the fraction given to the runtime fits and wastes at most one percent of the card; more usable memory never hurts | - |

Why the invariants are what they are:

* `LifecycleInv`. `ResidentWasListed` is not inductive: between a successful
  probe and the commit the runtime may stop. The invariant adds that a commit
  that is due is of a listed model (`listed` only grows), that workers alone
  run switches, and that only a thread that is not idle does. For
  `FailedStageWasAnnounced`, `StageInv` says at each step of a switch which
  stage was announced last, and that no failure is recorded before the
  last. For `UnmarkedOnlyAfterOverlap`, `OverlapsSeen` adds that two switches
  to one model are never under way without being on its account, so that the
  one that ends and drops the marker leaves either nobody or one that is.
* `QueueInv`. An empty queue stays empty only if a chat that is about to be
  decided sees equal pools; that was derived from the queue when it was
  measured, and cancels and arrivals wait for the loop. An estimate with
  supplied figures may see unequal ones: `RawIsEstimate` keeps it apart. For
  `AdmittedFits`, `AdmittedInv` follows the figure from the card to the pool a
  chat is about to be decided by.
* `QueueInv` of the dispatcher. What is queued, selected or launched was
  answered "queued": `queue \in Seq(Answered)` carries it through a cancel,
  which may remove any number of entries, since `CancelFilters` says that what
  is left are entries of the old queue. `Serving` ties a request that was
  answered "queued" to the time between that answer and its delivery, in which
  nobody cancels. That at most one entry is selected is `LargestFitSelects`:
  the entries that fit are ordered, so one of them is largest, and among equal
  ones the first is taken.
* `FactsInv`. Facts about to be written are derived from an earlier reading,
  so the coherence of the file needs that of every pending write. For
  `LostOnlyWhenTorn` the proof adds `WholeWrites`: until something is torn
  there is one writer at a time and the file is what was written last. For
  `FreeBaselineIsBare`, `BareInv` follows a reading on its way to the file:
  until something misleads it, a writer that will store it as model-free
  holds the reading of an empty card.
* `StateInv`. A delete that has removed the directory still has to remove the
  state, and a preload beside it may write a marker after that: the invariant
  ties company and pending markers to `disturbed`. `StateIsLast` adds
  `DirectoryGone`: a delete that has come to the state left no directory, or
  one that company made anew. `DownloadsAreWhole` adds `WholeInv`: a preload
  no delete has run beside is beside none now, and its model is whole from the
  return of the download on, since only a delete makes it less.
* `ManagerInv`. What each command knows at each of its steps: past its look
  at the PID file nothing lives except what it is about to kill, record or ask
  for its health.
* `SupervisionInv`. Where the script is, or returns to from its trap, tells
  which processes it has started; without that a step that spawns could map to
  no step of `Deployment`.
* `HeldInv`. What the check has concluded so far and what happened so far go
  together: a call that did not hold has left a failure in the check under
  way, or in one before it, or the exit. An answer that was received is the
  image of the outcome, so that a check cannot accept any other. `ServedInv`
  adds for the served weights that a check past the first is under way only
  where the scratch model is another one, and that the first deletes nothing.
* `ScopeInv`. Every target, every directory on the stack and every listed
  entry lies below a directory of the scope. It stays so whatever the runtime
  does, since a listing only ever has paths below the listed directory.
* `PurgeInv`. Every file of the scope was written meanwhile or is still due:
  it is below a target that is left or below the one being removed. With every
  entry the directories above it are in the tree, so that a directory without
  children has nothing below it and its removal forgets nothing. `LeftAlone`
  is what holds as long as the runtime has not acted: what rmtree has listed is
  what is there, no target is within another, and the count is the number of
  the files removed and of those still below the target. So nothing it finds
  makes it raise, and at the answer the second number is zero. A purge that was
  refused is over and owes nothing, and it is never one that answers. That rmtree is
  never more than two directories deep is `Stacked`.
* `UndisturbedInv`. Where the run is tells what the service has (`Fit`): it
  loads the served model with call 11 of its last check, preloads the scratch
  model with call 9 and deletes it with call 17, so at each call that asks for
  one of them the answer is the one asserted (`OutcomesAsserted`), and it is
  judged so (`Content`). A job left over from an earlier call would answer, or
  write to the disk, later: `JobsAwaited` says that every job is the one waited
  for. A purge with company may raise, and one that is refused does: `NoCompany`
  says that in an undisturbed run none has company, is refused, or is one by a
  binding of another's making.

`CancelEntry`, `ReservedBytes` and the best entry of a queue are defined over
queues of any length. The proofs do induction over them without the library's
induction theorems, which take an operator: the set of lengths at which a
statement fails has a least element (`Least`, from the well-foundedness of
`<`), so a set that contains zero and with every number the next one is all of
`Nat` (`Inductive`). The deployed queue is always empty (`QueueAlwaysEmpty`);
these are about the queue the library offers.

Model-checked only: liveness (`RequestsAreAnswered`,
`SwitchStallsOnlyInDownload`, `MarkerIsCleared`, `EndsTogether`,
`WaitingStops`), since the provers have no rule for fairness. That an
undisturbed run does come to its end is not stated as a property either:
`UndisturbedRunsPass` says that it never fails.

## 6. Where code and documentation disagree

Three runs exhibit a statement of the repository that its code does not keep;
`findings` in `PROJECT.json` quotes each.

| Run | Statement | What happens |
|---|---|---|
| `LifecycleMarkerLost` | a model is reported as switching until its switch has finished (`model_lifecycle.py:401`) | of two overlapping switches to one model the first to end removes the marker of both |
| `VramBaselineLost` | a served baseline never replaces a model-free one (`vram.py:402-403`) | a report that reads the file while a load has truncated it finds none and stores its own |
| `CachePartial` | a model reported as cached is a model the runtime can load (`model_cache.py:395-396`) | one shard without an index is complete |

Also seen while modelling, without a run of its own:

* "An unmeasurable GPU yields zeroed pools" (`registration.py:368-370`) only
  where nothing is stored: the free figure the last load stored stands in for
  a measurement, however old (`:306-308`). `AdmittedFits` names it.
* Namespace and session of a purge are joined to the root as they are given
  (`lmcache.py:339-345`), and the command's schema asks only that they are not
  empty. "Only the artifacts bound to them are removed" (the docstring of
  `purge_lmcache`) is true of bindings that name a directory of the layout, and
  `PurgeStaysInScope` and its theorem are about those; a binding that leads
  elsewhere, or to a file that lies at the root, removes what is there.
* A purge that meets an artifact it may not remove ends there, with part of
  its scope removed and an error that does not say how much.
* A PID file that cannot be read, or is being written, counts as none
  (`manager.py:88-97`): a start goes on and starts a second server.
* An entry that "expires from the queue" (`queue.py:24`) stays: nothing reads
  `expires_at`. In the deployed service the queue is empty anyway.
* `reload` of the resident model marks it loaded without asking the runtime
  (`model_lifecycle.py:262-294`; `command_docs.py:619-622` says it probes).
* `load` with preloading allowed replaces another resident model
  (`model_lifecycle.py:144`; `command_docs.py:562,578-581`).
* A switch acts on the residency it read once (`model_lifecycle.py:487`), and
  overwrites one that has changed since.
* A failure raised inside a switch is always reported as one of loading
  (`:500-501`), which is why `FailedStageWasAnnounced` excludes it.
* A baseline taken while weights are being loaded, before the runtime lists
  anything, is stored as model-free (`runtime.py:223-233`).
* A delete that fails after `rmtree` leaves a readiness marker that no later
  delete removes, for it finds no record (`model_cache.py:706-707`).
* A download that died leaves the model reported as caching
  (`model_cache.py:250-262`).
* Two `lmrsmgr start` at once both pass the look at the PID file
  (`manager.py:294-359`), and a reused process id makes `start` refuse and
  `stop` signal a stranger.
* A TERM that the entrypoint handles while it is starting its processes is
  swallowed: `shutdown` returns and the script goes on, with the service alone
  if the runtime was already told (`docker-entrypoint.sh:45-53`); one that
  comes before the trap is set is ignored by process 1; one between the start
  of a process and the recording of its id makes `shutdown` wait for a process
  it has not told.
* `lmrs.service` grants 120 seconds to stop, but its `ExecStop` is
  `docker rm -f`, which kills at once.
* A live run does not leave the deployment "exactly as it found it"
  (`live_check.py:150-152`): the residency record is set, and the scratch model
  is deleted even if it was there before.
* "Without early exit" (`pipeline.py:75`) is not kept where a check raises: the
  later checks are not run. The run still fails.
* A `token_count` that passes in `commands-live` may be the rough heuristic of
  a service whose runtime does not answer.
* Any JSON object is taken for an executed chat, even one without choices
  (`runtime_client.py:348-384`); and whether a failed call is reported as
  `VLLM_UNAVAILABLE` is decided by the word "unavailable" in its error text, so
  that the body of an HTTP error can decide it and a read timeout does not.

## 7. Status and plan

Done, in this order: `ModelLifecycle`, `Capacity`, `ChatAdmission`,
`AdapterAdmission`, `QueueDispatch`, `VramFacts`, `DiskModelCache`,
`ServerManager` and their proofs; then `Supervision` with `Deployment`,
`LmcachePurge` with `LiveCheck`, `RuntimeCalls` and theirs.

Every invariant, action property and refinement that a passing run checks is a
theorem; the liveness properties are checked only.

A module worth adding is `Service`: `ModelLifecycle` with the disk of
`DiskModelCache` and the records of `VramFacts`, with `ModelLifecycle` as its
abstract specification. Each of the three already takes the others' steps as
free choices of its environment, so it would show that the choices are no
narrower than the real components, at the price of their product.

### Not modelled

* `calibration.py`, `telemetry.py`: a derivation of KV bytes per token by one
  formula, and records of measurements. No state, no caller in the service; a second
  formula to compare it with would be the same formula. Its result is the
  input `KvBytes` of `Capacity`.
* `gateway.py`, `contracts.py`: validation of single records; no state, and
  nothing in the service imports them.
* `proxy/`: builds a payload and reads a snapshot of the adapter library's
  registration. When to register, repeat or give up is decided in that
  library, which is not in this repository; a model of it would be one of a
  guess. `run_registration_lifecycle` (`lifecycle.py:114-128`) speaks of
  waiting, heartbeats and retries; it computes a record, once, and nothing
  calls it.
* `cli/`: one adapter call per sub-command, and its exit code. The series of
  calls and the verdict over it are in `LiveCheck`.
* `pipeline/`, `tools/`: sequential developer tools over files; not part of the
  service.
* `config/`, `configuration.py`: data transformations, run once before the
  start. What the start does with a configuration is in `VramFacts`,
  `ServerManager` and `Supervision`.
* `schemas.py`, `command_docs.py`, `info.py`: static data; its statements about
  behaviour were compared with the modules (section 6).
