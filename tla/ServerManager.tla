---------------------------- MODULE ServerManager ----------------------------
(***************************************************************************)
(* lmrsmgr (lmrs/manager.py): start, stop, status and restart of the       *)
(* server, tied together by a PID file that no lock protects.  Operators   *)
(* run the commands, possibly at once and possibly interrupted; servers    *)
(* come up, crash and lose the port to one another; the kernel gives a     *)
(* free process id to a process that is no server.                         *)
(***************************************************************************)
CONSTANTS
  Operators,  \* invocations of lmrsmgr that can be running at a time
  Pids,       \* process ids
  NoPid       \* no PID file, or no process

ASSUME ManagerAssumption == NoPid \notin Pids

VARIABLES
  pidfile,    \* the process id the PID file names, none if it is missing or empty
  proc,       \* what runs under each process id
  op,         \* the command each operator is running
  disturbed   \* commands overlapped, a start was interrupted before it had
              \* written the PID file, or the file could not be read (history)

vars == <<pidfile, proc, op, disturbed>>

\* "starting": the server has not bound its port; "stopping": it has been
\* signalled; "zombie": it has exited and its parent has not looked yet.
Processes == {"free", "starting", "up", "stopping", "zombie", "foreign"}

Commands == {"none", "start", "stop", "status", "restart"}
Steps == {"idle", "read", "clear", "spawn", "settle", "write", "fill", "health",
          "kill", "grace", "port", "end"}

\* then: where the command goes once the PID file is cleared.
Ops == [cmd : Commands, pc : Steps, pid : Pids \cup {NoPid}, child : BOOLEAN,
        wait : BOOLEAN, then : {"spawn", "port", "end"}]

Resting == [cmd |-> "none", pc |-> "idle", pid |-> NoPid, child |-> FALSE,
            wait |-> FALSE, then |-> "end"]

TypeOK ==
  /\ pidfile \in Pids \cup {NoPid}
  /\ proc \in [Pids -> Processes]
  /\ op \in [Operators -> Ops]
  /\ disturbed \in BOOLEAN

Live(p) == proc[p] \in {"starting", "up"}

\* _pid_alive: a process of any kind exists, a zombie too.
Alive(p) == proc[p] # "free"

-----------------------------------------------------------------------------
At(o, pc) == op[o].pc = pc

Goto(o, pc) == op' = [op EXCEPT ![o].pc = pc]

\* Where a command goes when there is no process to deal with.
Onward(cmd) ==
  IF cmd = "start" THEN "spawn" ELSE IF cmd = "restart" THEN "port" ELSE "end"

\* Who started p and still runs is its parent.
Parents(p) == {o \in Operators : op[o].child /\ op[o].pid = p}

Exited(p) == IF Parents(p) = {} THEN "free" ELSE "zombie"

\* An operator is done with its child: init adopts it.
Adopted(o) ==
  [p \in Pids |-> IF o \in Parents(p) /\ proc[p] = "zombie" THEN "free" ELSE proc[p]]

-----------------------------------------------------------------------------
Command(o, cmd, wait) ==
  /\ At(o, "idle")
  /\ wait => cmd = "start"
  /\ op' = [op EXCEPT ![o] = [Resting EXCEPT !.cmd = cmd, !.pc = "read", !.wait = wait]]
  /\ disturbed' = (disturbed \/ \E u \in Operators : ~At(u, "idle"))
  /\ UNCHANGED <<pidfile, proc>>

\* Mutant: a start does not look whether the process is alive.
ReadStateUnlooked(o, found) ==
  /\ At(o, "read")
  /\ LET cmd == op[o].cmd
         kills == cmd \in {"stop", "restart"}
     IN op' = [op EXCEPT ![o] =
          [@ EXCEPT !.then = Onward(cmd),
                    !.pid = IF found # NoPid /\ kills THEN found ELSE NoPid,
                    !.pc = IF found = NoPid THEN Onward(cmd)
                           ELSE IF kills THEN "kill" ELSE "clear"]]
  /\ disturbed' = (disturbed \/ found # pidfile)
  /\ UNCHANGED <<pidfile, proc>>

\* The PID file is read and its process looked up.  A start refuses a live
\* one, a stop or restart kills it; a dead one is cleaned up.  A file that
\* cannot be read is taken for none.
ReadState(o, found) ==
  /\ At(o, "read")
  /\ LET cmd == op[o].cmd
         kills == cmd \in {"stop", "restart"}
     IN op' = [op EXCEPT ![o] =
          [@ EXCEPT !.then = Onward(cmd),
                    !.pid = IF found # NoPid /\ kills THEN found ELSE NoPid,
                    !.pc = IF found = NoPid THEN Onward(cmd)
                           ELSE IF ~Alive(found) THEN "clear"
                           ELSE IF kills THEN "kill" ELSE "end"]]
  /\ disturbed' = (disturbed \/ found # pidfile)
  /\ UNCHANGED <<pidfile, proc>>

ClearState(o) ==
  /\ At(o, "clear")
  /\ pidfile' = NoPid
  /\ Goto(o, op[o].then)
  /\ UNCHANGED <<proc, disturbed>>

\* Mutant: the process is waited for but was never signalled.
KillUnsignalled(o) ==
  /\ At(o, "kill")
  /\ Goto(o, IF Alive(op[o].pid) THEN "grace" ELSE "clear")
  /\ UNCHANGED <<pidfile, proc, disturbed>>

\* SIGTERM to whatever process has the id now.
Kill(o) ==
  /\ At(o, "kill")
  /\ IF Alive(op[o].pid)
       THEN /\ proc' = [proc EXCEPT ![op[o].pid] = IF @ = "zombie" THEN @ ELSE "stopping"]
            /\ Goto(o, "grace")
       ELSE Goto(o, "clear") /\ UNCHANGED proc
  /\ UNCHANGED <<pidfile, disturbed>>

\* It exits within the grace period, or it is sent SIGKILL and not awaited.
GraceOver(o) ==
  /\ At(o, "grace")
  /\ Goto(o, "clear")
  /\ UNCHANGED <<pidfile, proc, disturbed>>

\* A restart waits for the port, not beyond a timeout, and starts.
PortWaited(o) ==
  /\ At(o, "port")
  /\ op' = [op EXCEPT ![o] = [Resting EXCEPT !.cmd = "start", !.pc = "read", !.wait = TRUE]]
  /\ UNCHANGED <<pidfile, proc, disturbed>>

Spawn(o) ==
  /\ At(o, "spawn")
  /\ \E p \in Pids :
       /\ proc[p] = "free"
       /\ proc' = [proc EXCEPT ![p] = "starting"]
       /\ op' = [op EXCEPT ![o] = [@ EXCEPT !.pc = "settle", !.pid = p, !.child = TRUE]]
  /\ UNCHANGED <<pidfile, disturbed>>

\* After a short sleep the child is polled once.
Settle(o) ==
  /\ At(o, "settle")
  /\ Goto(o, IF proc[op[o].pid] = "zombie" THEN "end" ELSE "write")
  /\ UNCHANGED <<pidfile, proc, disturbed>>

\* _write_state: the file is truncated,
TruncateState(o) ==
  /\ At(o, "write")
  /\ pidfile' = NoPid
  /\ Goto(o, "fill")
  /\ UNCHANGED <<proc, disturbed>>

\* Mutant: a start that waits for health leaves the PID file for later.
FillStateLate(o) ==
  /\ At(o, "fill")
  /\ pidfile' = IF op[o].wait THEN pidfile ELSE op[o].pid
  /\ Goto(o, IF op[o].wait THEN "health" ELSE "end")
  /\ UNCHANGED <<proc, disturbed>>

\* and filled.
FillState(o) ==
  /\ At(o, "fill")
  /\ pidfile' = op[o].pid
  /\ Goto(o, IF op[o].wait THEN "health" ELSE "end")
  /\ UNCHANGED <<proc, disturbed>>

\* Whichever server has the port answers.
HealthPasses(o) ==
  /\ At(o, "health")
  /\ \E p \in Pids : proc[p] = "up"
  /\ Goto(o, "end")
  /\ UNCHANGED <<pidfile, proc, disturbed>>

\* Mutant: an unhealthy server is forgotten, not killed.
HealthTimesOutForgets(o) ==
  /\ At(o, "health")
  /\ op' = [op EXCEPT ![o] = [@ EXCEPT !.pc = "clear", !.then = "end"]]
  /\ UNCHANGED <<pidfile, proc, disturbed>>

\* No server answers, or one does and not as it should: another status, a
\* certificate that is not accepted.
HealthTimesOut(o) ==
  /\ At(o, "health")
  /\ op' = [op EXCEPT ![o] = [@ EXCEPT !.pc = "kill", !.then = "end"]]
  /\ UNCHANGED <<pidfile, proc, disturbed>>

End(o) ==
  /\ At(o, "end")
  /\ op' = [op EXCEPT ![o] = Resting]
  /\ proc' = Adopted(o)
  /\ UNCHANGED <<pidfile, disturbed>>

\* A start that has a server and has not written the PID file.
Unrecorded(o) == At(o, "settle") \/ At(o, "write") \/ At(o, "fill")

\* The operator interrupts the command, or it ends with an error of its own,
\* as where the PID file cannot be written; the server is in a session of
\* its own.
Interrupted(o) ==
  /\ ~At(o, "idle")
  /\ op' = [op EXCEPT ![o] = Resting]
  /\ proc' = Adopted(o)
  /\ disturbed' = (disturbed \/ Unrecorded(o))
  /\ UNCHANGED pidfile

-----------------------------------------------------------------------------
(* Servers and other processes.                                            *)

Binds(p) ==
  /\ proc[p] = "starting"
  /\ \A q \in Pids : proc[q] # "up"
  /\ proc' = [proc EXCEPT ![p] = "up"]
  /\ UNCHANGED <<pidfile, op, disturbed>>

\* It cannot bind, crashes, ends, or has been killed.
Exits(p) ==
  /\ proc[p] \in {"starting", "up", "stopping", "foreign"}
  /\ proc' = [proc EXCEPT ![p] = Exited(p)]
  /\ UNCHANGED <<pidfile, op, disturbed>>

PidReused(p) ==
  /\ proc[p] = "free"
  /\ proc' = [proc EXCEPT ![p] = "foreign"]
  /\ UNCHANGED <<pidfile, op, disturbed>>

-----------------------------------------------------------------------------
Init ==
  /\ pidfile = NoPid
  /\ proc = [p \in Pids |-> "free"]
  /\ op = [o \in Operators |-> Resting]
  /\ disturbed = FALSE

Step(o) ==
  \/ \E cmd \in Commands \ {"none"}, wait \in BOOLEAN : Command(o, cmd, wait)
  \/ \E found \in {pidfile, NoPid} : ReadState(o, found)
  \/ ClearState(o) \/ Kill(o) \/ GraceOver(o) \/ PortWaited(o)
  \/ Spawn(o) \/ Settle(o) \/ TruncateState(o) \/ FillState(o)
  \/ HealthPasses(o) \/ HealthTimesOut(o)
  \/ End(o) \/ Interrupted(o)

Next ==
  \/ \E o \in Operators : Step(o)
  \/ \E p \in Pids : Binds(p) \/ Exits(p) \/ PidReused(p)

Spec == Init /\ [][Next]_vars

-----------------------------------------------------------------------------
(* Properties, as long as commands do not overlap, no start is interrupted *)
(* before it has written its PID file, and the file can be read.           *)

\* Every live server is the one of the PID file, or the child of a start
\* that has not written it yet.
ServersAreManaged ==
  ~disturbed => \A p \in Pids : Live(p) =>
    pidfile = p \/ \E o \in Parents(p) : Unrecorded(o)

\* A second server is not started while one lives.
OneServer == ~disturbed => \A p, q \in Pids : Live(p) /\ Live(q) => p = q

\* A stop that has ended leaves no live server, whatever the PID file named:
\* a crashed server, a process that was given its id, or nothing.
StopLeavesNone ==
  ~disturbed => \A o \in Operators : At(o, "end") /\ op[o].cmd = "stop"
    => \A p \in Pids : ~Live(p)

\* What these rest on, while commands do not overlap: a command past the
\* look at the PID file knows that no server is alive, except the one it is
\* about to kill, to record or to ask for its health.
NoneAlive(o) ==
  \/ op[o].pc \in {"clear", "spawn", "grace", "port"}
  \/ At(o, "end") /\ op[o].cmd = "stop"
Orderly(o) ==
  /\ At(o, "idle") => op[o] = Resting
  /\ op[o].pc \in {"kill", "grace", "settle", "write", "fill", "health"} => op[o].pid # NoPid
  /\ op[o].cmd = "stop" =>
       op[o].then = "end" /\ op[o].pc \in {"read", "clear", "kill", "grace", "end"}
OneCommand == \A o, u \in Operators : ~At(o, "idle") /\ ~At(u, "idle") => o = u
Knows(o) ==
  /\ NoneAlive(o) => \A p \in Pids : ~Live(p)
  /\ Unrecorded(o) => op[o].child /\ \A p \in Pids : Live(p) => p = op[o].pid
  /\ At(o, "kill") \/ At(o, "health") => pidfile = op[o].pid
Recorded ==
  (\A o \in Operators : ~Unrecorded(o)) => \A p \in Pids : Live(p) => p = pidfile
ManagerInv ==
  /\ TypeOK
  /\ \A o \in Operators : Orderly(o)
  /\ ~disturbed => OneCommand /\ Recorded /\ \A o \in Operators : Knows(o)

\* A start that waits for health ends well on the health of its own server,
\* never on that of another.
HealthIsOwn ==
  [][\A o \in Operators : HealthPasses(o) /\ ~disturbed => proc[op[o].pid] = "up"]_vars
=============================================================================
