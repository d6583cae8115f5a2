------------------------------ MODULE LiveCheck ------------------------------
(***************************************************************************)
(* The acceptance run of a deployment: the client's pipeline and its live  *)
(* checks (client/lmrs_client/pipeline.py, live_check.py, verdict.py),     *)
(* with the service behind it.                                             *)
(*                                                                         *)
(* Other clients, the operator, the runtime and the network act between    *)
(* any two calls of the run.  One action answers one call, the steps of a  *)
(* switch, a load or a preload being ModelLifecycle's and DiskModelCache's *)
(* subject; the purge is followed step by step.                            *)
(***************************************************************************)
EXTENDS LmcachePurge

CONSTANTS
  Served,        \* LMRS_LIVE_MODEL
  Scratch,       \* the tiny model the cache commands are meant for
  Other,         \* a model of another client
  NoModel,
  RunTrees       \* bound on what the run's own purge finds

ASSUME LiveCheckAssumption ==
  /\ Cardinality({Served, Scratch, Other, NoModel}) = 4
  /\ RunTrees \subseteq Trees

VARIABLES
  residency,  \* the resident model the service has recorded
  runtime,    \* the model vLLM serves, NoModel when it does not answer
  disk,       \* what the disk cache has of a model
  setting,    \* the model the run takes for its scratch model
  jobs,       \* queued commands no worker has run yet
  at,         \* the check the run is at, and the call of that check
  reply,      \* what the client has received for that call
  outcome,    \* what the service did for that call (history)
  failing,    \* the check under way has recorded a failure
  failed,     \* a check has failed
  exit,       \* the run's verdict
  held,       \* every call of the run had the outcome asserted (history)
  disturbed   \* something else than the run has acted on the deployment, or
              \* it was not fit to begin with (history)

server == <<residency, runtime, disk, jobs>>
run    == <<setting, at, failing, failed, exit, held>>
vars   == <<purge, server, run, reply, outcome, disturbed>>

-----------------------------------------------------------------------------
(* The plan of the run.                                                    *)

\* Mutant: the cache status is asked for before the preload.
OrderStatusFirst ==
  <<"healthcheck", "info", "capacity", "queue_status", "local_lmcache_status",
    "token_count", "estimate", "chat", "local_model_cache_status",
    "local_model_cache_preload", "local_model_load", "model_status",
    "local_model_reload", "local_lmcache_purge", "cancel", "local_model_unload",
    "local_model_cache_delete", "local_model_switch">>

Order ==
  <<"healthcheck", "info", "capacity", "queue_status", "local_lmcache_status",
    "token_count", "estimate", "chat", "local_model_cache_preload",
    "local_model_cache_status", "local_model_load", "model_status",
    "local_model_reload", "local_lmcache_purge", "cancel", "local_model_unload",
    "local_model_cache_delete", "local_model_switch">>

\* The live checks of CHECKS in order, each with its calls.
Checks == <<"info-docs-live", "prompt-admission-live", "commands-live">>

Calls(check) ==
  CASE check = "info-docs-live" -> <<"info">>
    [] check = "prompt-admission-live" ->
         <<"token_count", "estimate", "estimate_oversized", "chat_oversized">>
    [] check = "commands-live" -> Order

Check == Checks[at.check]
Call  == Calls(Check)[at.call]

Queued == {"local_model_cache_preload", "local_model_switch"}

\* Commands whose payload has a success flag.
Flagged == {"estimate", "chat", "estimate_oversized", "chat_oversized",
            "local_model_cache_preload", "local_model_cache_status",
            "local_model_cache_delete", "local_model_load", "local_model_reload",
            "local_model_unload", "model_status"}

\* Outcomes a command reports as done.
Done == {"ok", "rough"}

\* What a call has to come to for its check to hold.
Asserted(check, call) ==
  CASE check = "prompt-admission-live" ->
         IF call \in {"estimate_oversized", "chat_oversized"} THEN {"CONTEXT_OVERFLOW"} ELSE {"ok"}
    [] call = "local_model_unload" -> {"VLLM_DYNAMIC_UNLOAD_UNSUPPORTED"}
    [] OTHER -> Done

-----------------------------------------------------------------------------
(* What travels back.  "none" is a key the record does not have.           *)

Result(command, result) ==
  [job |-> FALSE,
   success |-> IF result = "error" THEN "false" ELSE "none",
   flag |-> IF command \notin Flagged THEN "none"
            ELSE IF result \in Done THEN "true" ELSE "false",
   status |-> IF command = "local_model_switch" /\ result \notin Done THEN "failed" ELSE "none",
   code |-> result]

Keyless(code) ==
  [job |-> FALSE, success |-> "none", flag |-> "none", status |-> "none", code |-> code]

NoReply == Keyless("none")
Waiting == Keyless("waiting")
Lost    == Keyless("lost")

\* A queued command's result comes in a job's envelope.
Reply(command, result) ==
  IF command \in Queued
    THEN [job |-> TRUE, success |-> "none", flag |-> "none", status |-> "none",
          code |-> "none", result |-> Result(command, result)]
    ELSE Result(command, result)

\* Mutant: the envelope of a job is judged instead of its result.
UnwrapNothing(response) == response

\* verdict and command_payload: the result within a job's envelope.
Unwrap(response) == IF response.job THEN response.result ELSE response

\* verdict: no error, no success flag that denies, no status that does.
Succeeded(response) ==
  LET result == Unwrap(response)
  IN /\ result.success # "false"
     /\ result.flag # "false"
     /\ result.status # "failed"

\* The check is content with the response to its call.
Accepted(check, call, response) ==
  IF check # "commands-live" THEN Unwrap(response).code \in Asserted(check, call)
  ELSE IF call = "local_model_unload"
    THEN ~Succeeded(response) /\ Unwrap(response).code = "VLLM_DYNAMIC_UNLOAD_UNSUPPORTED"
    ELSE Succeeded(response)

-----------------------------------------------------------------------------
(* The service: what a command comes to.  A call names the served model,   *)
(* or the scratch model if it is about the disk cache.                     *)

\* load_model, which takes no notice of another resident when it may preload.
LoadOutcome(allow_preload) ==
  IF residency = Served THEN "ok"
  ELSE IF residency # NoModel /\ ~allow_preload THEN "MODEL_ALREADY_LOADED"
  ELSE IF disk[Served] # "complete" /\ ~allow_preload THEN "MODEL_NOT_CACHED"
  ELSE IF runtime # Served THEN "MODEL_NOT_SERVED_BY_VLLM" ELSE "ok"

SwitchOutcome ==
  IF residency \notin {NoModel, Served} THEN "VLLM_DYNAMIC_UNLOAD_UNSUPPORTED"
  ELSE LoadOutcome(TRUE)

\* Admission of a request that overflows the context or does not, with the
\* card full of others' work or a switch of the model under way.
Admission(oversized, beside) ==
  IF disk[Served] # "complete" THEN "HARDWARE_CAPACITY_UNKNOWN"
  ELSE IF beside = "switch" THEN "MODEL_SWITCHING"
  ELSE IF oversized THEN "CONTEXT_OVERFLOW"
  ELSE IF beside = "full card" THEN "REQUEST_TOO_LARGE" ELSE "ok"

Cached(m) == IF disk[m] = "complete" THEN "ok" ELSE "MODEL_NOT_CACHED"

InlineOutcome(command, beside) ==
  CASE command = "token_count" -> IF runtime = Served THEN "ok" ELSE "rough"
    [] command = "estimate" -> Admission(FALSE, beside)
    [] command \in {"estimate_oversized", "chat_oversized"} -> Admission(TRUE, beside)
    [] command = "chat" ->
         IF Admission(FALSE, beside) = "ok" /\ runtime # Served
           THEN "RUNTIME_CALL_FAILED" ELSE Admission(FALSE, beside)
    [] command = "local_model_cache_status" -> Cached(setting)
    [] command = "local_model_cache_delete" ->
         IF disk[setting] # "absent" THEN "ok" ELSE "MODEL_NOT_CACHED"
    [] command = "local_model_load" -> LoadOutcome(FALSE)
    [] command = "local_model_reload" -> LoadOutcome(TRUE)
    [] command = "model_status" -> IF residency = Served THEN "ok" ELSE "MODEL_NOT_LOADED"
    [] command = "local_model_unload" ->
         IF residency = Served THEN "VLLM_DYNAMIC_UNLOAD_UNSUPPORTED" ELSE "MODEL_NOT_LOADED"
    [] OTHER -> "ok"

\* What may go on beside a call that it takes notice of.
Company(command) ==
  {"nothing"} \cup
  (CASE command \in {"estimate", "chat"} -> {"full card", "switch"}
     [] command \in {"estimate_oversized", "chat_oversized"} -> {"switch"}
     [] OTHER -> {})

-----------------------------------------------------------------------------
(* The run.                                                                *)

Calling == exit = "none" /\ at.check <= Len(Checks) /\ at.call > 0

\* The pipeline is started on a deployment in whatever state; a fit one
\* serves the model it is checked with, has its weights cached, and has no
\* other model on record.
RunStarts ==
  /\ exit = "idle" /\ purge.pc = "idle"
  /\ residency' \in {NoModel, Served, Other}
  /\ runtime' \in {NoModel, Served, Other}
  /\ disk' \in [{Served, Scratch} -> {"absent", "partial", "complete"}]
  /\ setting' \in {Served, Scratch}
  /\ disturbed' = ~(runtime' = Served /\ disk'[Served] = "complete" /\ residency' # Other)
  /\ exit' = "none"
  /\ UNCHANGED <<purge, jobs, at, reply, outcome, failing, failed, held>>

\* Mutant: the two models are not told apart.
CheckStartsAnyway ==
  /\ exit = "none" /\ at.check <= Len(Checks) /\ at.call = 0
  /\ at' = [at EXCEPT !.call = 1]
  /\ failing' = FALSE
  /\ UNCHANGED <<purge, server, setting, reply, outcome, failed, exit, held, disturbed>>

\* settings and acceptance_models: the checks that use the scratch model
\* fail at once where it is the served one.
CheckStarts ==
  /\ exit = "none" /\ at.check <= Len(Checks) /\ at.call = 0
  /\ failing' = FALSE
  /\ IF Check # "info-docs-live" /\ setting = Served
       THEN failed' = TRUE /\ at' = [at EXCEPT !.check = @ + 1]
       ELSE at' = [at EXCEPT !.call = 1] /\ UNCHANGED failed
  /\ UNCHANGED <<purge, server, setting, reply, outcome, exit, held, disturbed>>

\* An inline command is called and answered.
Answered(beside) ==
  LET result == InlineOutcome(Call, beside)
  IN /\ Calling /\ reply = NoReply /\ Call \notin Queued \cup {"local_lmcache_purge"}
     /\ purge.pc = "idle"
     /\ beside \in Company(Call)
     /\ outcome' = result
     /\ reply' = Reply(Call, result)
     /\ residency' = IF Call \in {"local_model_load", "local_model_reload"} /\ result = "ok"
                       THEN Served ELSE residency
     /\ disk' = IF Call = "local_model_cache_delete"
                  THEN [disk EXCEPT ![setting] = "absent"] ELSE disk
     /\ disturbed' = (disturbed \/ beside # "nothing")
     /\ UNCHANGED <<purge, runtime, jobs, run>>

\* The purge of the run, of everything there is.
PurgeCalled ==
  /\ Calling /\ reply = NoReply /\ Call = "local_lmcache_purge"
  /\ \E tree \in RunTrees : PurgeCommand(NoBinding, NoBinding, tree)
  /\ reply' = Waiting
  /\ UNCHANGED <<server, run, outcome, disturbed>>

\* A purge is answered, the run's or another client's; whether somebody
\* still waits for it or not.
PurgeAnswered ==
  LET result == IF purge.pc = "answered" THEN "ok" ELSE "error"
      awaited == Calling /\ reply = Waiting /\ Call = "local_lmcache_purge"
  IN /\ PurgeReturns
     /\ reply' = IF awaited THEN Reply("local_lmcache_purge", result) ELSE reply
     /\ outcome' = IF awaited THEN result ELSE outcome
     /\ UNCHANGED <<server, run, disturbed>>

\* A queued command is accepted; the client waits for its job.
Enqueued ==
  /\ Calling /\ reply = NoReply /\ Call \in Queued
  /\ jobs' = jobs \cup {Call}
  /\ reply' = Waiting
  /\ UNCHANGED <<purge, residency, runtime, disk, run, outcome, disturbed>>

\* A worker runs a job, with or without success in a download it needs.
JobRuns(command, got) ==
  LET m == IF command = "local_model_switch" THEN Served ELSE setting
      result == IF ~got THEN "MODEL_CACHE_PRELOAD_FAILED"
                ELSE IF command = "local_model_switch" THEN SwitchOutcome ELSE "ok"
      awaited == reply = Waiting /\ Call = command
  IN /\ exit = "none" /\ command \in jobs /\ purge.pc = "idle"
     /\ got \/ disk[m] # "complete"
     /\ jobs' = jobs \ {command}
     /\ disk' = [disk EXCEPT ![m] = IF got THEN "complete" ELSE "partial"]
     /\ residency' = IF command = "local_model_switch" /\ result = "ok"
                       THEN Served ELSE residency
     /\ reply' = IF awaited THEN Reply(command, result) ELSE reply
     /\ outcome' = IF awaited THEN result ELSE outcome
     /\ disturbed' = (disturbed \/ ~got)
     /\ UNCHANGED <<purge, runtime, run>>

\* Mutant: the last call of a check is not taken for the last.
CallDoneLate(content) ==
  IF at.call <= Len(Calls(Check))
    THEN /\ at' = [at EXCEPT !.call = @ + 1]
         /\ failing' = (failing \/ ~content)
         /\ UNCHANGED failed
    ELSE /\ at' = [check |-> at.check + 1, call |-> 0]
         /\ failed' = (failed \/ failing \/ ~content)
         /\ UNCHANGED failing

\* The check is done with the call: the next one, or the next check.
CallDone(content) ==
  IF at.call < Len(Calls(Check))
    THEN /\ at' = [at EXCEPT !.call = @ + 1]
         /\ failing' = (failing \/ ~content)
         /\ UNCHANGED failed
    ELSE /\ at' = [check |-> at.check + 1, call |-> 0]
         /\ failed' = (failed \/ failing \/ ~content)
         /\ UNCHANGED failing

Judged ==
  /\ Calling /\ reply \notin {NoReply, Waiting, Lost}
  /\ CallDone(Accepted(Check, Call, reply))
  /\ held' = (held /\ outcome \in Asserted(Check, Call))
  /\ reply' = NoReply
  /\ UNCHANGED <<purge, server, setting, outcome, exit, disturbed>>

\* A call that raises is a failure of the drive through all commands; it
\* leaves the other checks, and the pipeline with them.
Raised ==
  /\ Calling /\ reply = Lost
  /\ held' = FALSE
  /\ reply' = NoReply
  /\ IF Check = "commands-live"
       THEN CallDone(FALSE) /\ UNCHANGED exit
       ELSE exit' = "failed" /\ UNCHANGED <<at, failing, failed>>
  /\ UNCHANGED <<purge, server, setting, outcome, disturbed>>

RunEnds ==
  /\ exit = "none" /\ at.check > Len(Checks)
  /\ exit' = IF failed THEN "failed" ELSE "passed"
  /\ UNCHANGED <<purge, server, setting, at, reply, outcome, failing, failed, held, disturbed>>

-----------------------------------------------------------------------------
(* What else happens to the deployment and to the calls.  Nothing of it    *)
(* touches what a purge works on but the runtime's files: it is let in     *)
(* before a purge and after it.                                            *)

Disturbance == exit = "none" /\ at.check <= Len(Checks) /\ disturbed' = TRUE

\* Other clients' purges, while no run is on.
OthersPurge ==
  /\ exit = "idle"
  /\ \/ PurgeElsewhere
     \/ \E namespace \in Namespaces \cup {NoBinding}, session \in Sessions \cup {NoBinding},
           tree \in Trees : PurgeCommand(namespace, session, tree)
  /\ UNCHANGED <<server, run, reply, outcome, disturbed>>

\* The runtime writes or evicts a file beside a purge.
RuntimeStores ==
  /\ \E f \in Files : RuntimeWrites(f) \/ RuntimeEvicts(f)
  /\ disturbed' = (disturbed \/ exit # "idle")
  /\ UNCHANGED <<server, run, reply, outcome>>

\* A purge is refused a removal.
StorageRefuses ==
  /\ Refused
  /\ disturbed' = (disturbed \/ exit # "idle")
  /\ UNCHANGED <<server, run, reply, outcome>>

\* The call, its answer or the wait for its job fails on the way.
CallLost ==
  /\ Disturbance
  /\ Calling /\ reply # Lost
  /\ reply' = Lost
  /\ outcome' = "lost"
  /\ UNCHANGED <<purge, server, run>>

\* vLLM is restarted, with whatever model, or stops answering.
RuntimeChanges ==
  /\ Disturbance /\ purge.pc = "idle"
  /\ runtime' \in {NoModel, Served, Other} \ {runtime}
  /\ UNCHANGED <<purge, residency, disk, jobs, run, reply, outcome>>

\* Another client's load, reload or switch.
OthersLoad ==
  /\ Disturbance /\ purge.pc = "idle"
  /\ runtime # NoModel
  /\ residency' = runtime
  /\ UNCHANGED <<purge, runtime, disk, jobs, run, reply, outcome>>

\* Another client's preload or delete.
OthersCache ==
  /\ Disturbance /\ purge.pc = "idle"
  /\ \E m \in {Served, Scratch}, state \in {"absent", "partial", "complete"} :
       disk' = [disk EXCEPT ![m] = state]
  /\ UNCHANGED <<purge, residency, runtime, jobs, run, reply, outcome>>

\* The service is restarted: it has forgotten its jobs and its residency
\* record.
ServiceRestarts ==
  /\ Disturbance /\ purge.pc = "idle"
  /\ residency' = NoModel
  /\ jobs' = {}
  /\ IF reply = Waiting THEN reply' = Lost /\ outcome' = "lost" ELSE UNCHANGED <<reply, outcome>>
  /\ UNCHANGED <<purge, runtime, disk, run>>

-----------------------------------------------------------------------------
Init ==
  /\ PurgeInit
  /\ residency = NoModel /\ runtime = NoModel
  /\ disk = [m \in {Served, Scratch} |-> "absent"]
  /\ setting = Scratch
  /\ jobs = {}
  /\ at = [check |-> 1, call |-> 0]
  /\ reply = NoReply /\ outcome = "none"
  /\ failing = FALSE /\ failed = FALSE /\ exit = "idle"
  /\ held = TRUE /\ disturbed = FALSE

\* The steps of whatever purge is under way.
Purging ==
  /\ PurgeStep
  /\ UNCHANGED <<server, run, reply, outcome, disturbed>>

Run ==
  \/ RunStarts \/ CheckStarts \/ PurgeCalled \/ Enqueued \/ Judged \/ Raised \/ RunEnds
  \/ \E beside \in {"nothing", "full card", "switch"} : Answered(beside)

Workers == \E command \in Queued, got \in BOOLEAN : JobRuns(command, got)

BesideRun ==
  \/ OthersPurge \/ RuntimeStores \/ StorageRefuses
  \/ CallLost \/ RuntimeChanges \/ OthersLoad \/ OthersCache \/ ServiceRestarts

Next == Purging \/ PurgeAnswered \/ Run \/ Workers \/ BesideRun

Spec == Init /\ [][Next]_vars

-----------------------------------------------------------------------------
(* Properties.                                                             *)

Results ==
  {"ok", "rough", "error", "CONTEXT_OVERFLOW", "REQUEST_TOO_LARGE", "MODEL_SWITCHING",
   "HARDWARE_CAPACITY_UNKNOWN", "RUNTIME_CALL_FAILED", "MODEL_NOT_CACHED",
   "MODEL_CACHE_PRELOAD_FAILED", "MODEL_ALREADY_LOADED", "MODEL_NOT_LOADED",
   "MODEL_NOT_SERVED_BY_VLLM", "VLLM_DYNAMIC_UNLOAD_UNSUPPORTED"}

\* The run is at a call of one of its checks, between two checks, or past
\* the last; what it has received is the answer to that call.
TypeOK ==
  /\ PurgeTypeOK
  /\ residency \in {NoModel, Served, Other} /\ runtime \in {NoModel, Served, Other}
  /\ disk \in [{Served, Scratch} -> {"absent", "partial", "complete"}]
  /\ setting \in {Served, Scratch} /\ jobs \subseteq Queued
  /\ at.check \in 1..4 /\ at.call \in 0..18
  /\ at.check = 4 => at.call = 0
  /\ at.check < 4 => at.call <= Len(Calls(Check))
  /\ outcome \in Results \cup {"none", "lost"}
  /\ \/ reply \in {NoReply, Waiting, Lost}
     \/ at.call > 0 /\ outcome \in Results /\ reply = Reply(Call, outcome)
  /\ {failing, failed, held, disturbed} \subseteq BOOLEAN
  /\ exit \in {"idle", "none", "passed", "failed"}

\* A run passes only if every one of its calls had the outcome its check
\* asserts, whatever happened beside it and however its answer came.
PassedMeansHeld == exit = "passed" => held

\* A run nobody has disturbed, on a fit deployment, passes.  It does not
\* leave the deployment as it was: the served model is on record, the
\* scratch model is not on disk any more.
UndisturbedRunPasses ==
  ~disturbed /\ setting = Scratch =>
    /\ exit # "failed"
    /\ exit = "passed" => residency = Served /\ disk[Scratch] = "absent"

\* The run never takes from the disk the weights of the model that is
\* served, not even when it is told to use that model as its scratch model.
ServedWeightsStay ==
  ~disturbed /\ exit # "idle" => disk[Served] = "complete"
=============================================================================
