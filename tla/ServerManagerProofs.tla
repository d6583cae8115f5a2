-------------------------- MODULE ServerManagerProofs --------------------------
(* Proofs about ServerManager, for any number of operators and process ids. *)
EXTENDS ServerManager, TLAPS

USE ManagerAssumption

\* Initially no server runs and no command is under way.
LEMMA InitEstablishes == Init => ManagerInv
<1> SUFFICES ASSUME Init PROVE ManagerInv
    OBVIOUS
<1>1. TypeOK
  BY DEF Init, TypeOK, Resting, Ops, Commands, Steps, Processes
<1>2. \A o \in Operators : op[o] = Resting
  BY DEF Init
<1>3. \A o \in Operators : Orderly(o) /\ ~Unrecorded(o) /\ At(o, "idle")
  <2> SUFFICES ASSUME NEW o \in Operators
               PROVE  Orderly(o) /\ ~Unrecorded(o) /\ At(o, "idle")
      OBVIOUS
  <2>0. op[o] = Resting
    BY <1>2
  <2>1. op[o].pc = "idle" /\ op[o].cmd = "none"
    BY <2>0 DEF Resting
  <2>2. QED
    BY <2>0, <2>1 DEF Orderly, Unrecorded, At
<1>4. \A p \in Pids : ~Live(p)
  BY DEF Init, Live
<1>5. OneCommand /\ Recorded
  BY <1>3, <1>4 DEF OneCommand, Recorded
<1>6. \A o \in Operators : Knows(o)
  BY <1>2, <1>3, <1>4 DEF Knows, NoneAlive, At, Resting
<1>7. QED
  BY <1>1, <1>3, <1>5, <1>6 DEF ManagerInv

\* The fields a step changes in a command.
LEMMA FieldsTyped ==
  ASSUME NEW r \in Ops, NEW pc \in Steps, NEW pid \in Pids \cup {NoPid},
         NEW child \in BOOLEAN, NEW then \in {"spawn", "port", "end"}
  PROVE  /\ [r EXCEPT !.pc = pc] \in Ops
         /\ [r EXCEPT !.pc = pc, !.then = then] \in Ops
         /\ [r EXCEPT !.then = then, !.pid = pid, !.pc = pc] \in Ops
         /\ [r EXCEPT !.pc = pc, !.pid = pid, !.child = child] \in Ops
BY DEF Ops

LEMMA RestingTyped ==
  ASSUME NEW cmd \in Commands, NEW wait \in BOOLEAN
  PROVE  [Resting EXCEPT !.cmd = cmd, !.pc = "read", !.wait = wait] \in Ops /\ Resting \in Ops
BY DEF Ops, Commands, Steps, Resting

\* The types survive every step.
LEMMA TypesStay ==
  ASSUME TypeOK, Next
  PROVE  TypeOK'
<1>1. ASSUME NEW o \in Operators, Step(o) PROVE TypeOK'
  <2>1. op[o] \in Ops /\ DOMAIN op = Operators
    BY DEF TypeOK
  <2>2. \E r \in Ops : op' = [op EXCEPT ![o] = r]
    <3>1. ASSUME NEW cmd \in Commands \ {"none"}, NEW wait \in BOOLEAN, Command(o, cmd, wait)
          PROVE  \E r \in Ops : op' = [op EXCEPT ![o] = r]
      BY <3>1, RestingTyped DEF Command
    <3>2. ASSUME NEW found \in {pidfile, NoPid}, ReadState(o, found)
          PROVE  \E r \in Ops : op' = [op EXCEPT ![o] = r]
      <4>1. Onward(op[o].cmd) \in Steps /\ Onward(op[o].cmd) \in {"spawn", "port", "end"}
        BY DEF Onward, Steps
      <4> DEFINE kills == op[o].cmd \in {"stop", "restart"}
                 pid == IF found # NoPid /\ kills THEN found ELSE NoPid
                 pc == IF found = NoPid THEN Onward(op[o].cmd)
                       ELSE IF ~Alive(found) THEN "clear"
                       ELSE IF kills THEN "kill" ELSE "end"
      <4>2. pid \in Pids \cup {NoPid} /\ pc \in Steps
        BY <4>1 DEF TypeOK, Steps
      <4>3. op' = [op EXCEPT ![o] = [@ EXCEPT !.then = Onward(op[o].cmd), !.pid = pid, !.pc = pc]]
        BY <3>2 DEF ReadState
      <4> HIDE DEF kills, pid, pc
      <4>4. QED
        BY <2>1, <4>1, <4>2, <4>3, FieldsTyped
    <3>3. ASSUME NEW pc \in Steps, Goto(o, pc)
          PROVE  \E r \in Ops : op' = [op EXCEPT ![o] = r]
      <4>1. op' = [op EXCEPT ![o] = [op[o] EXCEPT !.pc = pc]]
        BY <2>1, <3>3 DEF Goto
      <4>2. [op[o] EXCEPT !.pc = pc] \in Ops
        BY <2>1 DEF Ops
      <4>3. QED
        BY <4>1, <4>2
    <3>4. op[o].then \in Steps
      BY <2>1 DEF Ops, Steps
    <3>5. CASE ClearState(o) \/ GraceOver(o) \/ HealthPasses(o)
      BY <3>3, <3>4, <3>5 DEF ClearState, GraceOver, HealthPasses, Steps
    <3>6. CASE HealthTimesOut(o)
      BY <2>1, <3>6, FieldsTyped DEF HealthTimesOut, Steps
    <3>7. CASE Kill(o)
      BY <3>3, <3>7 DEF Kill, Steps
    <3>8. CASE PortWaited(o)
      BY <3>8, RestingTyped DEF PortWaited, Commands
    <3>9. CASE Spawn(o)
      <4>1. PICK p \in Pids : op' = [op EXCEPT ![o] = [@ EXCEPT !.pc = "settle", !.pid = p,
                                                                !.child = TRUE]]
        BY <3>9 DEF Spawn
      <4>2. [op[o] EXCEPT !.pc = "settle", !.pid = p, !.child = TRUE] \in Ops
        BY <2>1, FieldsTyped DEF Steps
      <4>3. QED
        BY <4>1, <4>2
    <3>10. CASE Settle(o) \/ TruncateState(o) \/ FillState(o)
      BY <3>3, <3>10 DEF Settle, TruncateState, FillState, Steps
    <3>11. CASE End(o) \/ Interrupted(o)
      BY <3>11, RestingTyped DEF End, Interrupted, Commands
    <3>12. QED
      BY <1>1, <3>1, <3>2, <3>5, <3>6, <3>7, <3>8, <3>9, <3>10, <3>11 DEF Step
  <2>3. op' \in [Operators -> Ops]
    BY <2>2 DEF TypeOK
  <2>4. pidfile' \in Pids \cup {NoPid}
    BY <1>1, <2>1 DEF Step, Command, ReadState, ClearState, Kill, GraceOver, PortWaited, Spawn,
       Settle, TruncateState, FillState, HealthPasses, HealthTimesOut, End, Interrupted, TypeOK, Ops
  <2>5. proc' \in [Pids -> Processes]
    BY <1>1 DEF Step, Command, ReadState, ClearState, Kill, GraceOver, PortWaited, Spawn,
       Settle, TruncateState, FillState, HealthPasses, HealthTimesOut, End, Interrupted, Adopted,
       Processes, TypeOK
  <2>6. disturbed' \in BOOLEAN
    BY <1>1 DEF Step, Command, ReadState, ClearState, Kill, GraceOver, PortWaited, Spawn,
       Settle, TruncateState, FillState, HealthPasses, HealthTimesOut, End, Interrupted, TypeOK
  <2>7. QED
    BY <2>3, <2>4, <2>5, <2>6 DEF TypeOK
<1>2. ASSUME NEW p \in Pids, Binds(p) \/ Exits(p) \/ PidReused(p) PROVE TypeOK'
  BY <1>2 DEF Binds, Exits, PidReused, Exited, TypeOK, Processes
<1>3. QED
  BY <1>1, <1>2 DEF Next

\* What a command carries with it survives every step.
LEMMA OrderStays ==
  ASSUME ManagerInv, Next
  PROVE  \A u \in Operators : Orderly(u)'
<1> SUFFICES ASSUME NEW u \in Operators PROVE Orderly(u)'
    OBVIOUS
<1> USE DEF Orderly, At
<1>1. TypeOK /\ TypeOK' /\ Orderly(u)
  BY TypesStay DEF ManagerInv
<1>2. ASSUME NEW o \in Operators, Step(o) PROVE Orderly(u)'
  <2>1. CASE u # o
    <3>1. op'[u] = op[u]
      BY <1>2, <2>1, <1>1 DEF Step, Command, ReadState, ClearState, Kill, GraceOver,
         PortWaited, Spawn, Settle, TruncateState, FillState, HealthPasses, HealthTimesOut, End,
         Interrupted, Goto, TypeOK
    <3>2. QED
      BY <1>1, <3>1
  <2>2. CASE u = o
    <3> USE <2>2, <1>1 DEF TypeOK, Ops
    <3>1. ASSUME NEW cmd \in Commands \ {"none"}, NEW wait \in BOOLEAN, Command(o, cmd, wait)
          PROVE  Orderly(u)'
      BY <3>1 DEF Command, Resting
    <3>2. ASSUME NEW found \in {pidfile, NoPid}, ReadState(o, found) PROVE Orderly(u)'
      BY <3>2 DEF ReadState, Onward
    <3>3. CASE ClearState(o)
      BY <3>3 DEF ClearState, Goto
    <3>11. CASE GraceOver(o)
      BY <3>11 DEF GraceOver, Goto
    <3>12. CASE HealthPasses(o)
      BY <3>12 DEF HealthPasses, Goto
    <3>13. CASE HealthTimesOut(o)
      BY <3>13 DEF HealthTimesOut
    <3>4. CASE Kill(o)
      BY <3>4 DEF Kill, Goto
    <3>5. CASE PortWaited(o)
      BY <3>5 DEF PortWaited, Resting
    <3>6. CASE Spawn(o)
      BY <3>6 DEF Spawn
    <3>7. CASE Settle(o)
      BY <3>7 DEF Settle, Goto
    <3>8. CASE TruncateState(o) \/ FillState(o)
      BY <3>8 DEF TruncateState, FillState, Goto
    <3>9. CASE End(o) \/ Interrupted(o)
      BY <3>9 DEF End, Interrupted, Resting
    <3>10. QED
      BY <1>2, <3>1, <3>2, <3>3, <3>4, <3>5, <3>6, <3>7, <3>8, <3>9, <3>11, <3>12, <3>13 DEF Step
  <2>3. QED
    BY <2>1, <2>2
<1>3. ASSUME NEW p \in Pids, Binds(p) \/ Exits(p) \/ PidReused(p) PROVE Orderly(u)'
  BY <1>1, <1>3 DEF Binds, Exits, PidReused
<1>4. QED
  BY <1>2, <1>3 DEF Next

\* A step of a command.
LEMMA CommandKnows ==
  ASSUME ManagerInv, TypeOK', NEW o \in Operators, Step(o), ~disturbed'
  PROVE  (OneCommand /\ Recorded /\ \A u \in Operators : Knows(u))'
<1>1. TypeOK /\ Orderly(o)
  BY DEF ManagerInv
<1>2. ~disturbed /\ \A u \in Operators \ {o} : At(u, "idle")
  <2>1. ASSUME NEW cmd \in Commands, NEW wait \in BOOLEAN, Command(o, cmd, wait)
        PROVE  ~disturbed /\ \A u \in Operators \ {o} : At(u, "idle")
    BY <2>1 DEF Command
  <2>2. CASE ~disturbed /\ ~At(o, "idle")
    BY <2>2 DEF ManagerInv, OneCommand
  <2>7. ASSUME NEW found \in {pidfile, NoPid}, ReadState(o, found)
        PROVE  ~disturbed /\ \A u \in Operators \ {o} : At(u, "idle")
    BY <2>2, <2>7 DEF ReadState, At
  <2>3. CASE ClearState(o) \/ Kill(o) \/ GraceOver(o) \/ PortWaited(o) \/ Spawn(o)
    BY <2>2, <2>3 DEF ClearState, Kill, GraceOver, PortWaited, Spawn, At
  <2>4. CASE Settle(o) \/ TruncateState(o) \/ FillState(o) \/ HealthPasses(o) \/ HealthTimesOut(o)
    BY <2>2, <2>4 DEF Settle, TruncateState, FillState, HealthPasses, HealthTimesOut, At
  <2>5. CASE End(o) \/ Interrupted(o)
    BY <2>2, <2>5 DEF End, Interrupted, At
  <2>6. QED
    BY <2>1, <2>3, <2>4, <2>5, <2>7 DEF Step
<1>3. \A u \in Operators \ {o} : At(u, "idle")'
  <2>1. \A u \in Operators \ {o} : op'[u] = op[u]
    BY <1>1 DEF Step, Command, ReadState, ClearState, Kill, GraceOver,
         PortWaited, Spawn, Settle, TruncateState, FillState, HealthPasses, HealthTimesOut, End,
         Interrupted, Goto, TypeOK
  <2>2. QED
    BY <1>2, <2>1 DEF At
<1>4. Knows(o) /\ (Unrecorded(o) \/ \A p \in Pids : Live(p) => p = pidfile)
  BY <1>2 DEF ManagerInv, Recorded, Unrecorded, At
<1>5. Knows(o)' /\ (Unrecorded(o) \/ \A p \in Pids : Live(p) => p = pidfile)'
  <2> USE <1>1, <1>2, <1>4 DEF Orderly, Knows, NoneAlive, Unrecorded, At, Live, TypeOK, Ops
  <2>1. ASSUME NEW cmd \in Commands \ {"none"}, NEW wait \in BOOLEAN, Command(o, cmd, wait)
        PROVE  Knows(o)' /\ (Unrecorded(o) \/ \A p \in Pids : Live(p) => p = pidfile)'
    BY <2>1 DEF Command, Resting
  <2>2. ASSUME NEW found \in {pidfile, NoPid}, ReadState(o, found)
        PROVE  Knows(o)' /\ (Unrecorded(o) \/ \A p \in Pids : Live(p) => p = pidfile)'
    <3>1. found = pidfile
      BY <2>2 DEF ReadState
    <3>2. ReadState(o, pidfile)
      BY <2>2, <3>1
    <3>3. QED
      BY <3>2 DEF ReadState, Onward, Alive
  <2>3. CASE ClearState(o)
    BY <2>3 DEF ClearState, Goto
  <2>4. CASE Kill(o)
    BY <2>4 DEF Kill, Goto, Alive
  <2>5. CASE GraceOver(o)
    BY <2>5 DEF GraceOver, Goto
  <2>6. CASE PortWaited(o)
    BY <2>6 DEF PortWaited, Resting
  <2>7. CASE Spawn(o)
    BY <2>7 DEF Spawn
  <2>8. CASE Settle(o)
    BY <2>8 DEF Settle, Goto
  <2>9. CASE TruncateState(o)
    BY <2>9 DEF TruncateState, Goto
  <2>14. CASE FillState(o)
    BY <2>14 DEF FillState, Goto
  <2>10. CASE HealthPasses(o)
    BY <2>10 DEF HealthPasses, Goto
  <2>13. CASE HealthTimesOut(o)
    BY <2>13 DEF HealthTimesOut
  <2>11. CASE End(o) \/ Interrupted(o)
    BY <2>11 DEF End, Interrupted, Adopted, Resting
  <2>12. QED
    BY <2>1, <2>2, <2>3, <2>4, <2>5, <2>6, <2>7, <2>8, <2>9, <2>10, <2>11, <2>13, <2>14 DEF Step
<1>6. OneCommand' /\ Recorded'
  BY <1>3, <1>5 DEF OneCommand, Recorded
<1>7. \A u \in Operators \ {o} : Knows(u)'
  BY <1>3 DEF Knows, NoneAlive, Unrecorded, At
<1>8. QED
  BY <1>5, <1>6, <1>7

\* A step of a server or of another process brings no live server about.
LEMMA OthersKnow ==
  ASSUME ManagerInv, ~disturbed', NEW p \in Pids, Binds(p) \/ Exits(p) \/ PidReused(p)
  PROVE  (OneCommand /\ Recorded /\ \A u \in Operators : Knows(u))'
<1>1. pidfile' = pidfile /\ op' = op /\ ~disturbed
  BY DEF Binds, Exits, PidReused
<1>2. \A q \in Pids : Live(q)' => Live(q)
  BY DEF Binds, Exits, Exited, PidReused, Live, ManagerInv, TypeOK
<1>3. OneCommand /\ Recorded /\ \A u \in Operators : Knows(u)
  BY <1>1 DEF ManagerInv
<1>4. OneCommand'
  BY <1>1, <1>3 DEF OneCommand, At
<1>5. Recorded'
  BY <1>1, <1>2, <1>3 DEF Recorded, Unrecorded, At
<1>6. \A u \in Operators : Knows(u)'
  BY <1>1, <1>2, <1>3 DEF Knows, NoneAlive, Unrecorded, At
<1>7. QED
  BY <1>4, <1>5, <1>6

LEMMA StepPreserves == ManagerInv /\ [Next]_vars => ManagerInv'
<1> SUFFICES ASSUME ManagerInv, [Next]_vars PROVE ManagerInv'
    OBVIOUS
<1>1. CASE Next
  <2>1. TypeOK'
    BY <1>1, TypesStay DEF ManagerInv
  <2>2. \A u \in Operators : Orderly(u)'
    BY <1>1, OrderStays
  <2>3. ASSUME ~disturbed'
        PROVE  (OneCommand /\ Recorded /\ \A u \in Operators : Knows(u))'
    BY <1>1, <2>1, <2>3, CommandKnows, OthersKnow DEF Next
  <2>4. QED
    BY <2>1, <2>2, <2>3 DEF ManagerInv
<1>2. CASE UNCHANGED vars
  <2>1. TypeOK' = TypeOK /\ disturbed' = disturbed
    BY <1>2 DEF vars, TypeOK
  <2>2. \A u \in Operators : Orderly(u)' = Orderly(u) /\ Knows(u)' = Knows(u)
    BY <1>2 DEF vars, Orderly, Knows, NoneAlive, Unrecorded, At, Live
  <2>3. OneCommand' = OneCommand /\ Recorded' = Recorded
    BY <1>2 DEF vars, OneCommand, Recorded, Unrecorded, At, Live
  <2>4. QED
    BY <2>1, <2>2, <2>3 DEF ManagerInv
<1>3. QED
  BY <1>1, <1>2

\* The inductive invariant of the manager: what a command knows of the live
\* servers at each of its steps (lmrs/manager.py, start and stop).
THEOREM ManagerInvariant == Spec => []ManagerInv
BY InitEstablishes, StepPreserves, PTL DEF Spec

\* Every live server is the one of the PID file or is about to be.
THEOREM NoServerIsLost == Spec => []ServersAreManaged
<1>1. ManagerInv => ServersAreManaged
  <2> SUFFICES ASSUME ManagerInv, ~disturbed, NEW p \in Pids, Live(p)
               PROVE  \/ pidfile = p
                      \/ \E o \in Parents(p) : Unrecorded(o)
      BY DEF ServersAreManaged
  <2>1. CASE \A o \in Operators : ~Unrecorded(o)
    BY <2>1 DEF ManagerInv, Recorded
  <2>2. ASSUME NEW o \in Operators, Unrecorded(o)
        PROVE  \E u \in Parents(p) : Unrecorded(u)
    <3>1. op[o].child /\ p = op[o].pid
      BY <2>2 DEF ManagerInv, Knows
    <3>2. QED
      BY <2>2, <3>1 DEF Parents, Unrecorded
  <2>3. QED
    BY <2>1, <2>2
<1>2. QED
  BY <1>1, ManagerInvariant, PTL

\* Two servers never live at once.
THEOREM ServersDoNotMeet == Spec => []OneServer
<1>1. ManagerInv => OneServer
  BY DEF ManagerInv, OneServer, Recorded, Knows
<1>2. QED
  BY <1>1, ManagerInvariant, PTL

\* A stop that has ended has stopped whatever server there was.
THEOREM StopStops == Spec => []StopLeavesNone
<1>1. ManagerInv => StopLeavesNone
  BY DEF ManagerInv, StopLeavesNone, Knows, NoneAlive
<1>2. QED
  BY <1>1, ManagerInvariant, PTL

\* A start that waits for health is answered by the server it started.
THEOREM HealthIsOfOwnServer == Spec => HealthIsOwn
<1>1. ManagerInv /\ [Next]_vars
        => [\A o \in Operators : HealthPasses(o) /\ ~disturbed => proc[op[o].pid] = "up"]_vars
  <2> SUFFICES ASSUME ManagerInv, NEW o \in Operators, HealthPasses(o), ~disturbed
               PROVE  proc[op[o].pid] = "up"
      OBVIOUS
  <2>1. PICK p \in Pids : proc[p] = "up"
    BY DEF HealthPasses
  <2>2. \A u \in Operators : ~Unrecorded(u)
    BY DEF HealthPasses, ManagerInv, OneCommand, Unrecorded, At
  <2>3. p = pidfile /\ pidfile = op[o].pid
    BY <2>1, <2>2 DEF ManagerInv, Recorded, Knows, HealthPasses, Live
  <2>4. QED
    BY <2>1, <2>3
<1>2. QED
  BY <1>1, ManagerInvariant, PTL DEF Spec, HealthIsOwn
=============================================================================
