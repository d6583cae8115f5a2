---------------------------- MODULE ModelLifecycle ----------------------------
(***************************************************************************)
(* Which model the service believes is in GPU memory, and the commands     *)
(* that change that belief: lmrs/model_lifecycle.py driven by the commands *)
(* of lmrs/adapter/registration.py.                                        *)
(*                                                                         *)
(* One event-loop thread runs the inline commands to completion one at a   *)
(* time; each job of the job queue (local_model_switch) runs on a worker.  *)
(* All of them share one residency record and one set of switch markers,   *)
(* with no lock.  A step of a thread is the code between two calls that    *)
(* leave the process (a scan of the disk cache, a download, an HTTP probe  *)
(* of the runtime): that is where other threads get in.                    *)
(***************************************************************************)
EXTENDS RuntimeCalls, FiniteSets

CONSTANTS
  Models,           \* model names
  NoModel,          \* no residency record
  Loop,             \* the event-loop thread
  Workers,          \* threads of the job queue
  HasProbe          \* a runtime probe is wired in (it is, when deployed)

ASSUME LifecycleAssumption ==
  /\ NoModel \notin Models
  /\ Loop \notin Workers
  /\ HasProbe \in BOOLEAN

VARIABLES
  residency,  \* ModelMemoryLifecycle.current_residency: its model name
  switching,  \* _SWITCHES_IN_PROGRESS
  disk,       \* what a scan of the model's cache directory finds
  served,     \* the models the runtime lists now
  listed,     \* every model the runtime has listed so far (history)
  job,        \* the command each thread is running
  overlapped  \* models of which two switches have run at once, one of them
              \* still does (history)

serviceVars == <<residency, switching, disk, served, listed, job>>
vars == <<serviceVars, overlapped>>

Threads == Workers \cup {Loop}

Ops    == {"none", "load", "reload", "unload", "chat", "delete", "switch"}
Stages == {"none", "preloading", "unloading", "loading"}
Labels == {"idle", "status", "preload", "resident", "unload", "check", "gate",
           "probe", "commit", "admit", "runtime", "rmtree", "finish"}
Outcomes == {"none", "loaded", "MODEL_ALREADY_LOADED", "MODEL_NOT_CACHED",
             "MODEL_NOT_SERVED_BY_VLLM", "MODEL_NOT_LOADED", "not_loaded",
             "VLLM_DYNAMIC_UNLOAD_UNSUPPORTED", "MODEL_CACHE_PRELOAD_FAILED",
             "FileNotFoundError", "MODEL_SWITCHING", "rejected", "answered",
             "deleted"}

Jobs == [op : Ops, model : Models \cup {NoModel}, pc : Labels, waive : BOOLEAN,
         seen : Models \cup {NoModel}, stage : Stages,
         outcome : Outcomes, failed : Stages]

Resting == [op |-> "none", model |-> NoModel, pc |-> "idle", waive |-> FALSE,
            seen |-> NoModel, stage |-> "none",
            outcome |-> "none", failed |-> "none"]

TypeOK ==
  /\ residency \in Models \cup {NoModel}
  /\ switching \in SUBSET Models
  /\ disk \in [Models -> {"absent", "complete", "deleting"}]
  /\ served \in SUBSET Models
  /\ listed \in SUBSET Models
  /\ job \in [Threads -> Jobs]
  /\ overlapped \in SUBSET Models

\* Worker w is inside switch_model for model m.
SwitchRunning(w, m) ==
  /\ job[w].op = "switch"
  /\ job[w].model = m

-----------------------------------------------------------------------------
(* Steps of a thread.                                                      *)

At(t, label) == job[t].pc = label

Goto(t, label) == job' = [job EXCEPT ![t].pc = label]

\* A command begins on an idle thread.
Begin(t, op, m, waive, label) ==
  /\ At(t, "idle")
  /\ job' = [job EXCEPT ![t] = [Resting EXCEPT !.op = op, !.model = m,
                                               !.waive = waive, !.pc = label]]

\* The command has its result; a switch still has to drop its marker.
Answer(t, outcome, failed) ==
  job' = [job EXCEPT ![t] = [@ EXCEPT !.pc = "finish", !.outcome = outcome,
                               !.failed = IF job[t].op = "switch" THEN failed ELSE "none"]]

\* An inline command that runs without leaving the process.
AnswerAtOnce(op, m, outcome) ==
  /\ At(Loop, "idle")
  /\ job' = [job EXCEPT ![Loop] = [Resting EXCEPT !.op = op, !.model = m,
                                     !.outcome = outcome, !.pc = "finish"]]

-----------------------------------------------------------------------------
(* load_model, on the loop for load and reload, on a worker for switch.    *)

\* Mutant: a load that may preload is committed without the probe.
LoadCheckUnproven(t) ==
  /\ At(t, "check")
  /\ \/ /\ residency = job[t].model
        /\ Answer(t, "loaded", "none")
     \/ /\ residency \notin {NoModel, job[t].model}
        /\ ~job[t].waive
        /\ Answer(t, "MODEL_ALREADY_LOADED", "loading")
     \/ /\ residency # job[t].model
        /\ residency = NoModel \/ job[t].waive
        /\ Goto(t, IF job[t].waive THEN "commit" ELSE "gate")
  /\ UNCHANGED <<residency, switching, disk, served, listed>>

\* An already resident target is a success; another resident model refuses
\* the load, but only a load that may not preload.
LoadCheck(t) ==
  /\ At(t, "check")
  /\ \/ /\ residency = job[t].model
        /\ Answer(t, "loaded", "none")
     \/ /\ residency \notin {NoModel, job[t].model}
        /\ ~job[t].waive
        /\ Answer(t, "MODEL_ALREADY_LOADED", "loading")
     \/ /\ residency # job[t].model
        /\ residency = NoModel \/ job[t].waive
        /\ Goto(t, IF job[t].waive THEN "probe" ELSE "gate")
  /\ UNCHANGED <<residency, switching, disk, served, listed>>

\* The disk-cache gate of a load that may not preload.
CacheGate(t) ==
  /\ At(t, "gate")
  /\ IF disk[job[t].model] = "complete"
       THEN Goto(t, "probe")
       ELSE Answer(t, "MODEL_NOT_CACHED", "loading")
  /\ UNCHANGED <<residency, switching, disk, served, listed>>

\* The runtime is asked whether it serves the model.
Probe(t) ==
  /\ At(t, "probe")
  /\ \E response \in Responses :
       IF HasProbe => IsModelServed(response, served, job[t].model).ok
         THEN Goto(t, "commit")
         ELSE Answer(t, "MODEL_NOT_SERVED_BY_VLLM", "loading")
  /\ UNCHANGED <<residency, switching, disk, served, listed>>

\* The VRAM measurement, then the assignment of the residency record.
Commit(t) ==
  /\ At(t, "commit")
  /\ residency' = job[t].model
  /\ Answer(t, "loaded", "none")
  /\ UNCHANGED <<switching, disk, served, listed>>

-----------------------------------------------------------------------------
(* The inline commands of the loop.                                        *)

LoadCommand(m, allow_preload) ==
  /\ Begin(Loop, "load", m, allow_preload, "check")
  /\ UNCHANGED <<residency, switching, disk, served, listed>>

\* A resident model is marked loaded again; anything else is a load that
\* may preload.
ReloadCommand(m) ==
  /\ IF residency = m
       THEN AnswerAtOnce("reload", m, "loaded")
       ELSE Begin(Loop, "reload", m, TRUE, "check")
  /\ UNCHANGED <<residency, switching, disk, served, listed>>

\* Mutant: the record is dropped though the runtime cannot unload.
UnloadForgets(m) == IF residency # m THEN "MODEL_NOT_LOADED" ELSE "not_loaded"

\* What unload_model(m) does to the record, and what it answers.
UnloadOutcome(m) ==
  IF residency # m THEN "MODEL_NOT_LOADED"
  ELSE IF HasProbe THEN "VLLM_DYNAMIC_UNLOAD_UNSUPPORTED" ELSE "not_loaded"

UnloadEffect(m) ==
  residency' = IF UnloadOutcome(m) = "not_loaded" THEN NoModel ELSE residency

UnloadCommand(m) ==
  /\ AnswerAtOnce("unload", m, UnloadOutcome(m))
  /\ UnloadEffect(m)
  /\ UNCHANGED <<switching, disk, served, listed>>

\* A chat has its capacity snapshot and asks whether its model is being
\* switched; admission itself is AdapterAdmission's subject.
ChatCommand(m) ==
  /\ Begin(Loop, "chat", m, FALSE, "admit")
  /\ UNCHANGED <<residency, switching, disk, served, listed>>

\* Mutant: admission does not ask whether the model is being switched.
ChatAdmitUnasked ==
  /\ At(Loop, "admit")
  /\ Answer(Loop, "rejected", "none") \/ Goto(Loop, "runtime")
  /\ UNCHANGED <<residency, switching, disk, served, listed>>

ChatAdmit ==
  /\ At(Loop, "admit")
  /\ IF job[Loop].model \in switching
       THEN Answer(Loop, "MODEL_SWITCHING", "none")
       ELSE Answer(Loop, "rejected", "none") \/ Goto(Loop, "runtime")
  /\ UNCHANGED <<residency, switching, disk, served, listed>>

\* The runtime call of an admitted chat, answered or failed.
ChatExecute ==
  /\ At(Loop, "runtime")
  /\ Answer(Loop, "answered", "none")
  /\ UNCHANGED <<residency, switching, disk, served, listed>>

\* local_model_cache_delete removes the model's directory file by file.
DeleteCommand(m) ==
  /\ disk[m] = "complete"
  /\ Begin(Loop, "delete", m, FALSE, "rmtree")
  /\ disk' = [disk EXCEPT ![m] = "deleting"]
  /\ UNCHANGED <<residency, switching, served, listed>>

DeleteEnd ==
  /\ At(Loop, "rmtree")
  /\ disk' = [disk EXCEPT ![job[Loop].model] = "absent"]
  /\ Answer(Loop, "deleted", "none")
  /\ UNCHANGED <<residency, switching, served, listed>>

-----------------------------------------------------------------------------
(* switch_model, a job of the queue.                                       *)

\* Mutant: no marker is set.
SwitchUnmarked(w, m) ==
  /\ Begin(w, "switch", m, TRUE, "status")
  /\ UNCHANGED <<residency, switching, disk, served, listed>>

SwitchCommand(w, m) ==
  /\ Begin(w, "switch", m, TRUE, "status")
  /\ switching' = switching \cup {m}
  /\ UNCHANGED <<residency, disk, served, listed>>

\* Mutant: the preload is not announced as a stage.
CacheStatusUnannounced(w) ==
  /\ At(w, "status")
  /\ Goto(w, IF disk[job[w].model] = "complete" THEN "resident" ELSE "preload")
  /\ UNCHANGED <<residency, switching, disk, served, listed>>

\* A target that is not complete on disk is preloaded first.
CacheStatus(w) ==
  /\ At(w, "status")
  /\ IF disk[job[w].model] = "complete"
       THEN Goto(w, "resident")
       ELSE job' = [job EXCEPT ![w] = [@ EXCEPT !.pc = "preload", !.stage = "preloading"]]
  /\ UNCHANGED <<residency, switching, disk, served, listed>>

\* The download ends, with a complete snapshot or without one.
Preload(w) ==
  /\ At(w, "preload")
  /\ \/ /\ disk' = [disk EXCEPT ![job[w].model] = "complete"]
        /\ Goto(w, "resident")
     \/ /\ disk[job[w].model] # "complete"
        /\ Answer(w, "MODEL_CACHE_PRELOAD_FAILED", "preloading")
        /\ UNCHANGED disk
  /\ UNCHANGED <<residency, switching, served, listed>>

\* Mutant: the switch waits until no other model is resident.
ReadResidentWaits(w) ==
  /\ At(w, "resident")
  /\ residency \in {NoModel, job[w].model}
  /\ job' = [job EXCEPT ![w] = [@ EXCEPT !.seen = residency, !.pc = "check",
                                          !.stage = "loading"]]
  /\ UNCHANGED <<residency, switching, disk, served, listed>>

\* The switch reads the residency record once and acts on what it read.
ReadResident(w) ==
  /\ At(w, "resident")
  /\ LET other == residency \notin {NoModel, job[w].model}
     IN job' = [job EXCEPT ![w] =
                  [@ EXCEPT !.seen = residency,
                            !.pc = IF other THEN "unload" ELSE "check",
                            !.stage = IF other THEN "unloading" ELSE "loading"]]
  /\ UNCHANGED <<residency, switching, disk, served, listed>>

SwitchUnload(w) ==
  /\ At(w, "unload")
  /\ UnloadEffect(job[w].seen)
  /\ IF UnloadOutcome(job[w].seen) = "not_loaded"
       THEN job' = [job EXCEPT ![w] = [@ EXCEPT !.pc = "check", !.stage = "loading"]]
       ELSE Answer(w, UnloadOutcome(job[w].seen), "unloading")
  /\ UNCHANGED <<switching, disk, served, listed>>

\* A scan of the cache directory races its removal and raises; whatever the
\* stage, the handler reports the failure as one of loading.
ScanRaises(w) ==
  /\ \/ At(w, "status")
     \/ At(w, "preload")
     \/ At(w, "commit")
  /\ disk[job[w].model] = "deleting"
  /\ Answer(w, "FileNotFoundError", "loading")
  /\ UNCHANGED <<residency, switching, disk, served, listed>>

\* Mutant: only a switch that succeeds discards its marker.
FinishLeaks(t) ==
  /\ At(t, "finish")
  /\ switching' = IF job[t].op = "switch" /\ job[t].outcome = "loaded"
                    THEN switching \ {job[t].model} ELSE switching
  /\ job' = [job EXCEPT ![t] = Resting]
  /\ UNCHANGED <<residency, disk, served, listed>>

\* Mutant: a switch that ends discards the markers of every other too.
FinishClears(t) ==
  /\ At(t, "finish")
  /\ switching' = IF job[t].op = "switch" THEN {} ELSE switching
  /\ job' = [job EXCEPT ![t] = Resting]
  /\ UNCHANGED <<residency, disk, served, listed>>

\* The finally clause discards the marker of a switch; the thread is free.
Finish(t) ==
  /\ At(t, "finish")
  /\ switching' = IF job[t].op = "switch" THEN switching \ {job[t].model} ELSE switching
  /\ job' = [job EXCEPT ![t] = Resting]
  /\ UNCHANGED <<residency, disk, served, listed>>

-----------------------------------------------------------------------------
(* What the process does not decide.                                       *)

\* The runtime comes up serving one model, the same as before or another.
RuntimeServes(m) ==
  /\ served = {}
  /\ served' = {m}
  /\ listed' = listed \cup {m}
  /\ UNCHANGED <<residency, switching, disk, job>>

RuntimeStops ==
  /\ served # {}
  /\ served' = {}
  /\ UNCHANGED <<residency, switching, disk, listed, job>>

\* A preload command or an operator fills the cache directory.
DiskFills(m) ==
  /\ disk[m] = "absent"
  /\ disk' = [disk EXCEPT ![m] = "complete"]
  /\ UNCHANGED <<residency, switching, served, listed, job>>

\* The service process dies and starts again: everything it held in memory
\* is gone; the deployed start does not load a model.
ProcessRestart ==
  /\ residency' = NoModel
  /\ switching' = {}
  /\ job' = [t \in Threads |-> Resting]
  /\ disk' = [m \in Models |-> IF disk[m] = "deleting" THEN "absent" ELSE disk[m]]
  /\ UNCHANGED <<served, listed>>

-----------------------------------------------------------------------------
Init ==
  /\ residency = NoModel
  /\ switching = {}
  /\ disk \in [Models -> {"absent", "complete"}]
  /\ served = {}
  /\ listed = {}
  /\ job = [t \in Threads |-> Resting]
  /\ overlapped = {}

\* The history: a second switch to a model begins while one runs, and what
\* they shared is over when none is left.
Observe ==
  overlapped' =
    {m \in Models : \E v, w \in Workers :
       SwitchRunning(v, m)' /\ SwitchRunning(w, m)' /\ (v # w \/ m \in overlapped)}

\* The steps of a load, on whichever thread runs it.
LoadStep(t) == LoadCheck(t) \/ CacheGate(t) \/ Probe(t) \/ Commit(t) \/ Finish(t)

LoopCommand(m) ==
  \/ \E allow_preload \in BOOLEAN : LoadCommand(m, allow_preload)
  \/ ReloadCommand(m)
  \/ UnloadCommand(m)
  \/ ChatCommand(m)
  \/ DeleteCommand(m)

LoopStep == LoadStep(Loop) \/ ChatAdmit \/ ChatExecute \/ DeleteEnd

\* Every step of a running switch except the end of its download.
SwitchStep(w) ==
  CacheStatus(w) \/ ReadResident(w) \/ SwitchUnload(w) \/ ScanRaises(w) \/ LoadStep(w)

Environment ==
  \/ \E m \in Models : RuntimeServes(m) \/ DiskFills(m)
  \/ RuntimeStops
  \/ ProcessRestart

Next ==
  \/ \E m \in Models : LoopCommand(m) /\ Observe
  \/ LoopStep /\ Observe
  \/ \E w \in Workers : \E m \in Models : SwitchCommand(w, m) /\ Observe
  \/ \E w \in Workers : (SwitchStep(w) \/ Preload(w)) /\ Observe
  \/ Environment /\ Observe

Spec == Init /\ [][Next]_vars

\* Threads are scheduled and every HTTP call has a timeout, so a started
\* command keeps moving.  A download has no timeout: that it ends is an
\* assumption of MarkerIsCleared only.
FairSpec ==
  /\ Spec
  /\ WF_serviceVars(LoopStep)
  /\ \A w \in Workers : WF_serviceVars(SwitchStep(w))

DownloadsEnd == \A w \in Workers : WF_serviceVars(Preload(w))

-----------------------------------------------------------------------------
(* Properties.                                                             *)

\* While switch_model(m) runs, m is marked, so that admission can reject
\* requests for it (model_switch_in_progress).  The marker is a set member,
\* not a count, and switches overlap where the queue has two workers: it is
\* what the code promises and does not keep.
MarkerCoversSwitch ==
  \A w \in Workers, m \in Models : SwitchRunning(w, m) => m \in switching

\* On any number of workers, a running switch is unmarked only while what
\* is left of several switches to one model is running; switches to
\* different models, on whatever path they end, leave each other's alone.
UnmarkedOnlyAfterOverlap ==
  \A w \in Workers, m \in Models :
    SwitchRunning(w, m) => m \in switching \/ m \in overlapped

\* No marker outlives its switch, whatever path the switch took: a leaked
\* one would make every request for the model fail until a restart.
MarkerOnlyForSwitch ==
  \A m \in switching : \E w \in Workers : SwitchRunning(w, m)

\* No chat is handed to the runtime by a step that finds its model
\* mid-switch, unless it is what is left of overlapping switches to it.
ChatAvoidsSwitch ==
  [][At(Loop, "admit") /\ job'[Loop].pc = "runtime"
       => \A w \in Workers :
            SwitchRunning(w, job[Loop].model) => job[Loop].model \in overlapped]_vars

\* With a probe, a model is never recorded as resident unless the runtime
\* listed it: load, reload and switch, preloading allowed or not, on any
\* interleaving.
ResidentWasListed == HasProbe /\ residency # NoModel => residency \in listed

\* The runtime has never listed two models.
OneModelListed == \A m, n \in listed : m = n

\* With a probe the residency record is written once per process: no load,
\* unload, reload or switch, overlapping or not, replaces or drops it, unless
\* the runtime has been restarted with another model.
ResidentModelStays ==
  [][HasProbe /\ OneModelListed /\ residency # NoModel /\ ~ProcessRestart
       => residency' = residency]_vars

\* What these rest on: the runtime has listed the model a commit is about to
\* record; only workers run switches, and only while they are not idle.
LifecycleInv ==
  /\ TypeOK
  /\ MarkerOnlyForSwitch
  /\ ResidentWasListed
  /\ served \subseteq listed
  /\ job[Loop].op # "switch"
  /\ \A t \in Threads :
       /\ At(t, "idle") => job[t].op # "switch"
       /\ At(t, "commit") /\ HasProbe => job[t].model \in listed

\* A switch that reports a failure of its own names the last stage it
\* announced; only a failure raised under it is always called one of loading.
FailedStageWasAnnounced ==
  \A w \in Workers :
    At(w, "finish") /\ job[w].failed # "none" /\ job[w].outcome # "FileNotFoundError"
      => job[w].failed = job[w].stage

\* A started switch ends or is waiting for its download; nothing else can
\* hold it.
SwitchStallsOnlyInDownload ==
  \A w \in Workers : ~At(w, "idle") ~> At(w, "idle") \/ At(w, "preload")

\* If downloads end, a model marked as switching becomes available to
\* requests again.
MarkerIsCleared ==
  DownloadsEnd => \A m \in Models : m \in switching ~> m \notin switching
=============================================================================
