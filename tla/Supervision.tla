----------------------------- MODULE Supervision -----------------------------
(***************************************************************************)
(* The container's entrypoint (docker/lmrs/docker-entrypoint.sh) and the   *)
(* host script that runs it (packaging/bin/lmrs-container): one bash       *)
(* process starts vLLM and the service, waits for the first of them to     *)
(* end, and takes the other down with it.                                  *)
(*                                                                         *)
(* Bash runs a trap between two commands, or at once where it waits; a     *)
(* signal during a foreground command is handled after it.  When the       *)
(* script ends, as process 1 of the container, so does everything else.    *)
(***************************************************************************)
CONSTANTS Runtime, Service

ASSUME SupervisionAssumption == Runtime # Service

VARIABLES
  container,  \* what the container engine says of it
  config,     \* what the host script passed: a model, a pinned utilization
  pc,         \* the script's next command
  ret,        \* where the shutdown returns to
  child,      \* the script's child processes
  pids,       \* those whose process id it has recorded
  told,       \* those it has sent TERM
  term,       \* a TERM the script has received and not handled
  early       \* a TERM was handled before the script waited (history)

vars == <<container, config, pc, ret, child, pids, told, term, early>>

Children == {Runtime, Service}

\* The points between two commands, once the trap is set.
Interruptible ==
  {"spawnRuntime", "recordRuntime", "spawnService", "recordService", "wait", "exit"}

TypeOK ==
  /\ container \in {"absent", "up", "exited", "killed"}
  /\ config \in [model : BOOLEAN, pinned : BOOLEAN]
  /\ pc \in {"off", "checks", "derive", "reap"} \cup Interruptible
  /\ ret \in Interruptible
  /\ child \in [Children -> {"none", "running", "zombie", "gone"}]
  /\ pids \in SUBSET Children /\ told \in SUBSET Children
  /\ term \in BOOLEAN /\ early \in BOOLEAN

Running(c) == child[c] = "running"

-----------------------------------------------------------------------------
(* The script.                                                             *)

\* A command of the script is next, and no trap is due before it.
Command(name) == pc = name /\ (name \in Interruptible => ~term)

\* The identity and the configuration are in order, and the trap is set.
ChecksPass ==
  /\ Command("checks")
  /\ pc' = IF ~config.model THEN "spawnService"
           ELSE IF config.pinned THEN "spawnRuntime" ELSE "derive"
  /\ UNCHANGED <<container, config, ret, child, pids, told, term, early>>

\* Exit codes 64 and 66: nothing has been started, no trap is set.
ChecksFail ==
  /\ Command("checks")
  /\ container' = "exited" /\ pc' = "off"
  /\ UNCHANGED <<config, ret, child, pids, told, term, early>>

\* The utilization comes from a foreground process; without one the script
\* exits with 69.
Derive ==
  /\ Command("derive")
  /\ pc' \in {"spawnRuntime", "exit"}
  /\ UNCHANGED <<container, config, ret, child, pids, told, term, early>>

Spawn(c, here, then) ==
  /\ Command(here)
  /\ child' = [child EXCEPT ![c] = "running"]
  /\ pc' = then
  /\ UNCHANGED <<container, config, ret, pids, told, term, early>>

Record(c, here, then) ==
  /\ Command(here)
  /\ pids' = pids \cup {c}
  /\ pc' = then
  /\ UNCHANGED <<container, config, ret, child, told, term, early>>

SpawnRuntime == Spawn(Runtime, "spawnRuntime", "recordRuntime")
RecordRuntime == Record(Runtime, "recordRuntime", "spawnService")
SpawnService == Spawn(Service, "spawnService", "recordService")
RecordService == Record(Service, "recordService", "wait")

\* Mutant: the script waits for the service only.
WaitReturnsForService ==
  /\ Command("wait")
  /\ child[Service] = "zombie"
  /\ child' = [child EXCEPT ![Service] = "gone"]
  /\ pc' = "exit"
  /\ UNCHANGED <<container, config, ret, pids, told, term, early>>

\* wait -n: the first recorded child that ends.
WaitReturns ==
  /\ Command("wait")
  /\ \E c \in pids :
       /\ child[c] = "zombie"
       /\ child' = [child EXCEPT ![c] = "gone"]
  /\ pc' = "exit"
  /\ UNCHANGED <<container, config, ret, pids, told, term, early>>

\* It was given an id that has been waited for already: it may say so.
WaitFindsNone ==
  /\ Command("wait")
  /\ \E c \in pids : child[c] = "gone"
  /\ pc' = "exit"
  /\ UNCHANGED <<container, config, ret, child, pids, told, term, early>>

\* Mutant: only the service is told.
TellService == told \cup {c \in pids : c = Service /\ Running(c)}

\* The loop of shutdown(): every recorded child that is alive.
TellChildren == told \cup {c \in pids : Running(c)}

\* The trap of TERM and INT.
HandleTerm ==
  /\ term /\ pc \in Interruptible
  /\ told' = TellChildren
  /\ term' = FALSE
  /\ ret' = pc /\ pc' = "reap"
  /\ early' = (early \/ pc \notin {"wait", "exit"})
  /\ UNCHANGED <<container, config, child, pids>>

\* The trap of EXIT.
Exit ==
  /\ Command("exit")
  /\ told' = TellChildren
  /\ ret' = pc /\ pc' = "reap"
  /\ UNCHANGED <<container, config, child, pids, term, early>>

\* What the kernel does with the children when process 1 ends, and bash when
\* it waits for them all.
AllGone == [c \in Children |-> IF child[c] = "none" THEN "none" ELSE "gone"]

\* Mutant: shutdown does not wait.
ShutdownUnwaited ==
  /\ pc = "reap"
  /\ child' = AllGone
  /\ IF ret \in {"wait", "exit"}
       THEN container' = "exited" /\ pc' = "off"
       ELSE pc' = ret /\ UNCHANGED container
  /\ UNCHANGED <<config, ret, pids, told, term, early>>

\* Mutant: an interrupted wait is resumed.
ShutdownResumes ==
  /\ pc = "reap"
  /\ \A c \in Children : ~Running(c)
  /\ child' = AllGone
  /\ IF ret = "exit"
       THEN container' = "exited" /\ pc' = "off"
       ELSE pc' = ret /\ UNCHANGED container
  /\ UNCHANGED <<config, ret, pids, told, term, early>>

\* The wait of shutdown(), for every child, recorded or not.  An interrupted
\* wait -n has failed and ends the script (set -e), whose EXIT trap then
\* finds nobody; elsewhere the script goes on where it was.
ShutdownReturns ==
  /\ pc = "reap"
  /\ \A c \in Children : ~Running(c)
  /\ child' = AllGone
  /\ IF ret \in {"wait", "exit"}
       THEN container' = "exited" /\ pc' = "off"
       ELSE pc' = ret /\ UNCHANGED container
  /\ UNCHANGED <<config, ret, pids, told, term, early>>

-----------------------------------------------------------------------------
(* The children, the engine and the operator.                              *)

ChildEnds(c) ==
  /\ Running(c)
  /\ child' = [child EXCEPT ![c] = "zombie"]
  /\ UNCHANGED <<container, config, pc, ret, pids, told, term, early>>

\* docker stop, or the host going down.  Process 1 without a trap ignores
\* the signal; within shutdown it repeats what shutdown did.
Terminate ==
  /\ container = "up" /\ pc \notin {"checks", "reap"}
  /\ term' = TRUE
  /\ UNCHANGED <<container, config, pc, ret, child, pids, told, early>>

ScriptStarts ==
  /\ container' = "up"
  /\ pc' = "checks" /\ ret' = "exit"
  /\ child' = [c \in Children |-> "none"]
  /\ pids' = {} /\ told' = {} /\ term' = FALSE /\ early' = FALSE

\* start: a new container, once docker rm -f has removed the old one.
StartContainer ==
  /\ container = "absent"
  /\ config' \in [model : BOOLEAN, pinned : BOOLEAN]
  /\ ScriptStarts

\* The engine runs the container again (--restart unless-stopped).
EngineRestarts ==
  /\ container \in {"exited", "killed"}
  /\ ScriptStarts
  /\ UNCHANGED config

\* docker rm -f, by start or stop; or KILL, when docker stop has waited long
\* enough or memory runs out.
EngineCuts ==
  /\ container # "absent"
  /\ container' \in IF container = "up" THEN {"absent", "killed"} ELSE {"absent"}
  /\ pc' = "off"
  /\ child' = AllGone
  /\ UNCHANGED <<config, ret, pids, told, term, early>>

-----------------------------------------------------------------------------
Init ==
  /\ container = "absent"
  /\ config \in [model : BOOLEAN, pinned : BOOLEAN]
  /\ pc = "off" /\ ret = "exit"
  /\ child = [c \in Children |-> "none"]
  /\ pids = {} /\ told = {} /\ term = FALSE /\ early = FALSE

Script ==
  \/ ChecksPass \/ ChecksFail \/ Derive
  \/ SpawnRuntime \/ RecordRuntime \/ SpawnService \/ RecordService
  \/ WaitReturns \/ HandleTerm \/ Exit \/ ShutdownReturns

Next ==
  \/ Script \/ WaitFindsNone
  \/ \E c \in Children : ChildEnds(c)
  \/ Terminate \/ StartContainer \/ EngineRestarts \/ EngineCuts

Spec == Init /\ [][Next]_vars

\* The script is scheduled, and its derivation has a timeout; a child that is
\* told to stop stops.
ToldEnds(c) == c \in told /\ ChildEnds(c)
FairSpec ==
  /\ Spec
  /\ WF_vars(Script)
  /\ \A c \in Children : WF_vars(ToldEnds(c))

-----------------------------------------------------------------------------
(* Properties.                                                             *)

Life(c) ==
  IF child[c] = "none" THEN "unborn" ELSE IF Running(c) THEN "alive" ELSE "dead"
Abstract == INSTANCE Deployment WITH life <- [c \in Children |-> Life(c)]

\* The script keeps the container's promise: on every way out, early, failed
\* or signalled, both processes have ended before it does.
ImplementsDeployment == Abstract!DeploymentSpec

\* The service is left without its runtime only after a TERM that was handled
\* while the script was still starting them: the shutdown then returns.
AloneOnlyAfterEarlyTerm ==
  pc = "wait" /\ child[Runtime] = "gone" => early

\* Its strengthening, and that of the refinement: where the script is, or
\* returns to, tells what it has started.
Place == IF pc = "reap" THEN ret ELSE pc
SupervisionInv ==
  /\ TypeOK
  /\ container = "up" <=> pc # "off"
  /\ pc = "off" => \A c \in Children : ~Running(c)
  /\ Place \in {"checks", "derive", "spawnRuntime"} => child[Runtime] = "none"
  /\ Place \in {"checks", "derive", "spawnRuntime", "recordRuntime", "spawnService"}
       => child[Service] = "none"
  /\ pc = "reap" /\ ret \notin {"wait", "exit"} => early
  /\ /\ pc \in {"recordRuntime", "spawnService", "recordService", "wait"}
     /\ child[Runtime] = "gone"
     => early

\* Once the script waits, the end of either process takes the container down.
EndsTogether ==
  \A c \in Children : (pc = "wait" /\ child[c] = "zombie") ~> container # "up"

\* A TERM that reaches the waiting script takes the container down.
WaitingStops == (pc = "wait" /\ term) ~> container # "up"
=============================================================================
