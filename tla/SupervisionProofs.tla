-------------------------- MODULE SupervisionProofs --------------------------
(***************************************************************************)
(* The entrypoint implements the container's promise.                      *)
(***************************************************************************)
EXTENDS Supervision, TLAPS

-----------------------------------------------------------------------------
(* The invariant, one step per action.                                     *)

LEMMA InitInv == Init => SupervisionInv
BY DEF Init, SupervisionInv, TypeOK, Place, Children, Running, Interruptible

LEMMA ScriptKeeps == SupervisionInv /\ Script => SupervisionInv'
<1> SUFFICES ASSUME SupervisionInv, Script PROVE SupervisionInv'
  OBVIOUS
<1> USE SupervisionAssumption
        DEF SupervisionInv, TypeOK, Place, Children, Running, Interruptible, Command
<1>1. CASE ChecksPass
  BY <1>1 DEF ChecksPass
<1>2. CASE ChecksFail
  BY <1>2 DEF ChecksFail
<1>3. CASE Derive
  BY <1>3 DEF Derive
<1>4. CASE SpawnRuntime
  BY <1>4 DEF SpawnRuntime, Spawn
<1>5. CASE RecordRuntime
  BY <1>5 DEF RecordRuntime, Record
<1>6. CASE SpawnService
  BY <1>6 DEF SpawnService, Spawn
<1>7. CASE RecordService
  BY <1>7 DEF RecordService, Record
<1>8. CASE WaitReturns
  BY <1>8 DEF WaitReturns
<1>9. CASE HandleTerm
  BY <1>9 DEF HandleTerm, TellChildren
<1>10. CASE Exit
  BY <1>10 DEF Exit, TellChildren
<1>11. CASE ShutdownReturns
  BY <1>11 DEF ShutdownReturns, AllGone
<1>12. QED
  BY <1>1, <1>2, <1>3, <1>4, <1>5, <1>6, <1>7, <1>8, <1>9, <1>10, <1>11 DEF Script

LEMMA OutsideKeeps ==
  ASSUME SupervisionInv,
         \/ WaitFindsNone \/ \E c \in Children : ChildEnds(c)
         \/ Terminate \/ StartContainer \/ EngineRestarts \/ EngineCuts
  PROVE  SupervisionInv'
<1> USE SupervisionAssumption
        DEF SupervisionInv, TypeOK, Place, Children, Running, Interruptible, Command
<1>1. CASE WaitFindsNone
  BY <1>1 DEF WaitFindsNone
<1>2. CASE \E c \in Children : ChildEnds(c)
  BY <1>2 DEF ChildEnds
<1>3. CASE Terminate
  BY <1>3 DEF Terminate
<1>4. CASE StartContainer
  BY <1>4 DEF StartContainer, ScriptStarts
<1>5. CASE EngineRestarts
  BY <1>5 DEF EngineRestarts, ScriptStarts
<1>6. CASE EngineCuts
  BY <1>6 DEF EngineCuts, AllGone
<1>7. QED
  BY <1>1, <1>2, <1>3, <1>4, <1>5, <1>6

\* The invariant holds in every state, whatever signals, deaths and cuts
\* come when.
THEOREM SupervisionInvariant == Spec => []SupervisionInv
<1>1. SupervisionInv /\ [Next]_vars => SupervisionInv'
  <2> SUFFICES ASSUME SupervisionInv, [Next]_vars PROVE SupervisionInv'
    OBVIOUS
  <2>1. CASE UNCHANGED vars
    BY <2>1 DEF vars, SupervisionInv, TypeOK, Place, Running
  <2>2. QED
    BY <2>1, ScriptKeeps, OutsideKeeps DEF Next
<1>2. QED
  BY InitInv, <1>1, PTL DEF Spec

\* The service is left without its runtime only after a TERM that came while
\* the script was still starting them.
THEOREM AloneAfterEarlyTerm == Spec => []AloneOnlyAfterEarlyTerm
<1>1. SupervisionInv => AloneOnlyAfterEarlyTerm
  BY DEF SupervisionInv, AloneOnlyAfterEarlyTerm
<1>2. QED
  BY SupervisionInvariant, <1>1, PTL

-----------------------------------------------------------------------------
(* Each step of the script is a step of the container, or none.            *)

LifeOf == [c \in Children |-> Life(c)]

\* A step after which every process is to the container what it was.
LEMMA SameLife ==
  ASSUME \A c \in Children : Life(c)' = Life(c), UNCHANGED container
  PROVE  UNCHANGED Abstract!deploymentVars
<1>1. LifeOf' = LifeOf
  BY DEF LifeOf
<1>2. QED
  BY <1>1 DEF LifeOf, Abstract!deploymentVars

LEMMA InitRefines == Init => Abstract!DeploymentInit
BY DEF Init, Abstract!DeploymentInit, Abstract!Processes, Life, Children

LEMMA ScriptRefines ==
  ASSUME SupervisionInv, Script
  PROVE  [Abstract!DeploymentNext]_Abstract!deploymentVars
<1> USE SupervisionAssumption DEF SupervisionInv, TypeOK, Children, Command, Interruptible
<1>1. CASE ChecksPass \/ Derive \/ RecordRuntime \/ RecordService \/ HandleTerm \/ Exit
  <2>1. UNCHANGED <<child, container>>
    BY <1>1 DEF ChecksPass, Derive, RecordRuntime, RecordService, Record, HandleTerm, Exit
  <2>2. QED
    BY <2>1, SameLife DEF Life, Running
<1>2. CASE WaitReturns
  <2>1. \A c \in Children : Life(c)' = Life(c)
    BY <1>2 DEF WaitReturns, Life, Running
  <2>2. QED
    BY <1>2, <2>1, SameLife DEF WaitReturns
<1>3. CASE SpawnRuntime
  <2>1. child[Runtime] = "none" /\ child[Service] = "none" /\ container = "up"
    BY <1>3 DEF SpawnRuntime, Spawn, Place
  <2>2. Abstract!Born(Runtime)
    BY <1>3, <2>1 DEF SpawnRuntime, Spawn, Life, Running, Abstract!Born
  <2>3. QED
    BY <2>2 DEF Abstract!DeploymentNext, Abstract!Processes
<1>4. CASE SpawnService
  <2>1. child[Service] = "none" /\ container = "up"
    BY <1>4 DEF SpawnService, Spawn, Place
  <2>2. Abstract!Born(Service)
    BY <1>4, <2>1 DEF SpawnService, Spawn, Life, Running, Abstract!Born
  <2>3. QED
    BY <2>2 DEF Abstract!DeploymentNext, Abstract!Processes
<1>5. CASE ChecksFail
  <2>1. container = "up" /\ \A c \in Children : child[c] = "none"
    BY <1>5 DEF ChecksFail, Place
  <2>2. Abstract!GoesDown
    BY <1>5, <2>1 DEF ChecksFail, Life, Running, Abstract!GoesDown, Abstract!Processes
  <2>3. QED
    BY <2>2 DEF Abstract!DeploymentNext
<1>6. CASE ShutdownReturns
  <2>1. \A c \in Children : Life(c)' = Life(c) /\ Life(c) # "alive"
    BY <1>6 DEF ShutdownReturns, AllGone, Life, Running
  <2>2. container = "up"
    BY <1>6 DEF ShutdownReturns
  <2>3. CASE container' = container
    BY <2>1, <2>3, SameLife
  <2>4. CASE container' = "exited"
    <3>1. LifeOf' = LifeOf
      BY <2>1 DEF LifeOf
    <3>2. Abstract!GoesDown
      BY <2>1, <2>2, <2>4, <3>1 DEF LifeOf, Abstract!GoesDown, Abstract!Processes
    <3>3. QED
      BY <3>2 DEF Abstract!DeploymentNext
  <2>5. QED
    BY <1>6, <2>3, <2>4 DEF ShutdownReturns
<1>7. QED
  BY <1>1, <1>2, <1>3, <1>4, <1>5, <1>6 DEF Script

LEMMA OutsideRefines ==
  ASSUME SupervisionInv,
         \/ WaitFindsNone \/ \E c \in Children : ChildEnds(c)
         \/ Terminate \/ StartContainer \/ EngineRestarts \/ EngineCuts
  PROVE  [Abstract!DeploymentNext]_Abstract!deploymentVars
<1> USE SupervisionAssumption DEF SupervisionInv, TypeOK, Children
<1>1. CASE WaitFindsNone \/ Terminate
  <2>1. UNCHANGED <<child, container>>
    BY <1>1 DEF WaitFindsNone, Terminate
  <2>2. QED
    BY <2>1, SameLife DEF Life, Running
<1>2. CASE \E c \in Children : ChildEnds(c)
  <2>1. PICK c \in Children : ChildEnds(c)
    BY <1>2
  <2>2. container = "up"
    BY <2>1 DEF ChildEnds
  <2>3. Abstract!Dies(c)
    BY <2>1, <2>2 DEF ChildEnds, Life, Running, Abstract!Dies
  <2>4. QED
    BY <2>3 DEF Abstract!DeploymentNext, Abstract!Processes
<1>3. CASE StartContainer \/ EngineRestarts
  <2>1. Abstract!ComesUp
    BY <1>3 DEF StartContainer, EngineRestarts, ScriptStarts, Life, Abstract!ComesUp,
                Abstract!Processes
  <2>2. QED
    BY <2>1 DEF Abstract!DeploymentNext
<1>4. CASE EngineCuts
  <2>1. \A c \in Children : Life(c)' = IF Life(c) = "alive" THEN "dead" ELSE Life(c)
    BY <1>4 DEF EngineCuts, AllGone, Life, Running
  <2>2. LifeOf' = [c \in Children |-> IF LifeOf[c] = "alive" THEN "dead" ELSE LifeOf[c]]
    BY <2>1 DEF LifeOf
  <2>3. container # "absent" /\ container' \in {"absent", "killed"}
    BY <1>4 DEF EngineCuts
  <2>4. Abstract!IsCut
    BY <2>2, <2>3 DEF LifeOf, Abstract!IsCut, Abstract!Processes
  <2>5. QED
    BY <2>4 DEF Abstract!DeploymentNext
<1>5. QED
  BY <1>1, <1>2, <1>3, <1>4

\* Whatever ends the script, both processes end before it, and the runtime
\* is never started after the service.
THEOREM EntrypointKeepsPromise == Spec => ImplementsDeployment
<1>1. SupervisionInv /\ [Next]_vars => [Abstract!DeploymentNext]_Abstract!deploymentVars
  <2> SUFFICES ASSUME SupervisionInv, [Next]_vars
               PROVE  [Abstract!DeploymentNext]_Abstract!deploymentVars
    OBVIOUS
  <2>1. CASE UNCHANGED vars
    BY <2>1, SameLife DEF vars, Life, Running
  <2>2. QED
    BY <2>1, ScriptRefines, OutsideRefines DEF Next
<1>2. QED
  BY InitRefines, SupervisionInvariant, <1>1, PTL
     DEF Spec, ImplementsDeployment, Abstract!DeploymentSpec
=============================================================================
