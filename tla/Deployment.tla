------------------------------ MODULE Deployment ------------------------------
(***************************************************************************)
(* What the container promises of its two processes, whatever script       *)
(* supervises them: the runtime is never started after the service that    *)
(* asks it, each lives once per run of the container, and a container that *)
(* ends by itself leaves neither of them running.                          *)
(***************************************************************************)
CONSTANTS Runtime, Service

VARIABLES
  container,  \* what the container engine says of it
  life        \* of each process in this run of the container

deploymentVars == <<container, life>>

Processes == {Runtime, Service}

DeploymentInit ==
  /\ container = "absent"
  /\ life = [p \in Processes |-> "unborn"]

ComesUp ==
  /\ container # "up"
  /\ container' = "up"
  /\ life' = [p \in Processes |-> "unborn"]

Born(p) ==
  /\ container = "up"
  /\ life[p] = "unborn"
  /\ p = Runtime => life[Service] = "unborn"
  /\ life' = [life EXCEPT ![p] = "alive"]
  /\ UNCHANGED container

Dies(p) ==
  /\ container = "up"
  /\ life[p] = "alive"
  /\ life' = [life EXCEPT ![p] = "dead"]
  /\ UNCHANGED container

\* It ends by itself: nothing is left running.
GoesDown ==
  /\ container = "up"
  /\ \A p \in Processes : life[p] # "alive"
  /\ container' = "exited"
  /\ UNCHANGED life

\* It is killed or removed: what is left running ends with it.
IsCut ==
  /\ container # "absent"
  /\ container' \in {"absent", "killed"}
  /\ life' = [p \in Processes |-> IF life[p] = "alive" THEN "dead" ELSE life[p]]

DeploymentNext ==
  \/ ComesUp \/ GoesDown \/ IsCut
  \/ \E p \in Processes : Born(p) \/ Dies(p)

DeploymentSpec == DeploymentInit /\ [][DeploymentNext]_deploymentVars
=============================================================================
