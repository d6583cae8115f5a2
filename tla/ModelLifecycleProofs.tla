------------------------ MODULE ModelLifecycleProofs ------------------------
(***************************************************************************)
(* What holds of ModelLifecycle for every set of models and of workers,    *)
(* with and without a probe.                                               *)
(***************************************************************************)
EXTENDS ModelLifecycle, TLAPS

-----------------------------------------------------------------------------
(* How a step moves the command of one thread.                             *)

\* The commands of the threads other than t are untouched.
OthersKept(t) == \A u \in Threads \ {t} : job'[u] = job[u]

\* Thread t goes on with the command it is running.
GoesOn(t) ==
  /\ job' \in [Threads -> Jobs]
  /\ OthersKept(t)
  /\ job'[t].op = job[t].op
  /\ job'[t].model = job[t].model

\* A command moves to its next label.
LEMMA GotoGoesOn ==
  ASSUME TypeOK, NEW t \in Threads, NEW label \in Labels, Goto(t, label)
  PROVE  GoesOn(t) /\ job'[t].pc = label
BY DEF TypeOK, Goto, GoesOn, OthersKept, Jobs

\* The same when the command announces its stage.
LEMMA StageGoesOn ==
  ASSUME TypeOK, NEW t \in Threads, NEW label \in Labels, NEW stage \in Stages,
         job' = [job EXCEPT ![t] = [@ EXCEPT !.pc = label, !.stage = stage]]
  PROVE  GoesOn(t) /\ job'[t].pc = label
BY DEF TypeOK, GoesOn, OthersKept, Jobs

\* A command that has its result still runs until it finishes.
LEMMA AnswerGoesOn ==
  ASSUME TypeOK, NEW t \in Threads, NEW outcome \in Outcomes, NEW failed \in Stages,
         Answer(t, outcome, failed)
  PROVE  GoesOn(t) /\ job'[t].pc = "finish"
<1>1. (IF job[t].op = "switch" THEN failed ELSE "none") \in Stages
  BY DEF Stages
<1>2. "finish" \in Labels
  BY DEF Labels
<1> DEFINE r == [job[t] EXCEPT !.pc = "finish", !.outcome = outcome,
                   !.failed = IF job[t].op = "switch" THEN failed ELSE "none"]
<1>3. job \in [Threads -> Jobs]
  BY DEF TypeOK
<1>4. r \in Jobs /\ r.pc = "finish" /\ r.op = job[t].op /\ r.model = job[t].model
  BY <1>1, <1>2, <1>3 DEF Jobs
<1>5. job' = [job EXCEPT ![t] = r]
  BY <1>3 DEF Answer
<1> HIDE DEF r
<1>6. QED
  BY <1>3, <1>4, <1>5 DEF GoesOn, OthersKept

\* A command begins where nothing was running.
LEMMA BeginStarts ==
  ASSUME TypeOK, NEW t \in Threads, NEW op \in Ops, NEW m \in Models,
         NEW waive \in BOOLEAN, NEW label \in Labels, Begin(t, op, m, waive, label)
  PROVE  /\ job' \in [Threads -> Jobs] /\ OthersKept(t)
         /\ job[t].pc = "idle"
         /\ job'[t].op = op /\ job'[t].model = m /\ job'[t].pc = label
<1>1. Resting \in Jobs
  BY DEF Resting, Jobs, Ops, Labels, Stages, Outcomes
<1>2. [Resting EXCEPT !.op = op, !.model = m, !.waive = waive, !.pc = label] \in Jobs
  BY <1>1 DEF Jobs
<1>3. QED
  BY <1>1, <1>2 DEF TypeOK, Begin, At, OthersKept, Jobs

\* An inline command that answers at once begins and finishes in one step.
LEMMA AtOnceStarts ==
  ASSUME TypeOK, NEW op \in Ops, NEW m \in Models, NEW outcome \in Outcomes,
         AnswerAtOnce(op, m, outcome)
  PROVE  /\ job' \in [Threads -> Jobs] /\ OthersKept(Loop)
         /\ job[Loop].pc = "idle"
         /\ job'[Loop].op = op /\ job'[Loop].pc = "finish"
<1>1. Resting \in Jobs /\ "finish" \in Labels /\ Loop \in Threads
  BY DEF Resting, Jobs, Ops, Labels, Stages, Outcomes, Threads
<1>2. [Resting EXCEPT !.op = op, !.model = m, !.outcome = outcome, !.pc = "finish"] \in Jobs
  BY <1>1 DEF Jobs
<1>3. QED
  BY <1>1, <1>2 DEF TypeOK, AnswerAtOnce, At, OthersKept, Jobs

-----------------------------------------------------------------------------
(* Every step begins a command, carries one on, finishes one, or is not    *)
(* the process's.                                                          *)

Disks == [Models -> {"absent", "complete", "deleting"}]

\* Thread t is in the middle of a command: only a commit writes a record,
\* only a listed model gets that far, and no marker moves.
Works(t) ==
  /\ GoesOn(t)
  /\ job[t].pc # "idle" /\ job'[t].pc # "idle"
  /\ switching' = switching /\ served' = served /\ listed' = listed
  /\ disk' \in Disks
  /\ HasProbe /\ job'[t].pc = "commit" => job[t].model \in served
  /\ \/ residency' = residency
     \/ job[t].pc = "commit" /\ residency' = job[t].model
     \/ ~HasProbe /\ residency' = NoModel

\* Thread t begins a command: a worker marks the model of its switch.
Starts(t) ==
  /\ job' \in [Threads -> Jobs]
  /\ OthersKept(t)
  /\ job[t].pc = "idle" /\ job'[t].pc \notin {"idle", "commit"}
  /\ served' = served /\ listed' = listed
  /\ disk' \in Disks
  /\ residency' = residency \/ (~HasProbe /\ residency' = NoModel)
  /\ \/ t = Loop /\ job'[t].op # "switch" /\ switching' = switching
     \/ /\ t # Loop /\ job'[t].op = "switch" /\ job'[t].model \in Models
        /\ switching' = switching \cup {job'[t].model}

\* The steps of a load, on whichever thread runs it.
LEMMA LoadSteps ==
  ASSUME TypeOK, NEW t \in Threads, LoadStep(t), ~Finish(t)
  PROVE  Works(t)
<1> USE DEF At, Works, Disks
<1>1. CASE LoadCheck(t)
  <2>1. GoesOn(t) /\ job'[t].pc \notin {"idle", "commit"}
    BY <1>1, AnswerGoesOn, GotoGoesOn DEF LoadCheck, Outcomes, Stages, Labels
  <2>2. QED
    BY <1>1, <2>1 DEF LoadCheck, TypeOK
<1>2. CASE CacheGate(t)
  <2>1. GoesOn(t) /\ job'[t].pc \notin {"idle", "commit"}
    BY <1>2, AnswerGoesOn, GotoGoesOn DEF CacheGate, Outcomes, Stages, Labels
  <2>2. QED
    BY <1>2, <2>1 DEF CacheGate, TypeOK
<1>3. CASE Probe(t)
  <2>1. CASE Answer(t, "MODEL_NOT_SERVED_BY_VLLM", "loading")
    <3>1. GoesOn(t) /\ job'[t].pc = "finish"
      BY <2>1, AnswerGoesOn DEF Outcomes, Stages
    <3>2. QED
      BY <1>3, <3>1 DEF Probe, TypeOK
  <2>2. CASE /\ HasProbe => job[t].model \in served
             /\ Goto(t, "commit")
    <3>1. GoesOn(t) /\ job'[t].pc = "commit"
      BY <2>2, GotoGoesOn DEF Labels
    <3>2. QED
      BY <1>3, <2>2, <3>1 DEF Probe, TypeOK
  <2>3. ASSUME NEW response \in Responses,
               IsModelServed(response, served, job[t].model).ok
        PROVE  job[t].model \in served
    BY <2>3 DEF IsModelServed, ListModels
  <2>4. QED
    BY <1>3, <2>1, <2>2, <2>3 DEF Probe
<1>4. CASE Commit(t)
  <2>1. GoesOn(t) /\ job'[t].pc = "finish"
    BY <1>4, AnswerGoesOn DEF Commit, Outcomes, Stages
  <2>2. QED
    BY <1>4, <2>1 DEF Commit, TypeOK
<1>5. QED
  BY <1>1, <1>2, <1>3, <1>4 DEF LoadStep

\* The other steps of the loop's commands.
LEMMA LoopSteps ==
  ASSUME TypeOK, LoopStep, ~Finish(Loop)
  PROVE  Works(Loop)
<1> USE DEF At, Works, Disks
<1>0. Loop \in Threads
  BY DEF Threads
<1>1. CASE LoadStep(Loop)
  BY <1>0, <1>1, LoadSteps
<1>2. CASE ChatAdmit
  <2>1. GoesOn(Loop) /\ job'[Loop].pc \notin {"idle", "commit"}
    BY <1>0, <1>2, AnswerGoesOn, GotoGoesOn DEF ChatAdmit, Outcomes, Stages, Labels
  <2>2. QED
    BY <1>2, <2>1 DEF ChatAdmit, TypeOK
<1>3. CASE ChatExecute
  <2>1. GoesOn(Loop) /\ job'[Loop].pc = "finish"
    BY <1>0, <1>3, AnswerGoesOn DEF ChatExecute, Outcomes, Stages
  <2>2. QED
    BY <1>3, <2>1 DEF ChatExecute, TypeOK
<1>4. CASE DeleteEnd
  <2>1. GoesOn(Loop) /\ job'[Loop].pc = "finish"
    BY <1>0, <1>4, AnswerGoesOn DEF DeleteEnd, Outcomes, Stages
  <2>2. QED
    BY <1>4, <2>1 DEF DeleteEnd, TypeOK
<1>5. QED
  BY <1>1, <1>2, <1>3, <1>4 DEF LoopStep

\* Every step of a switch before it finishes.
LEMMA SwitchSteps ==
  ASSUME TypeOK, NEW w \in Workers, SwitchStep(w) \/ Preload(w), ~Finish(w)
  PROVE  Works(w)
<1> USE DEF At, Works, Disks
<1>0. w \in Threads
  BY DEF Threads
<1>1. CASE CacheStatus(w)
  <2>1. GoesOn(w) /\ job'[w].pc \in {"resident", "preload"}
    <3>1. CASE Goto(w, "resident")
      BY <1>0, <3>1, GotoGoesOn DEF Labels
    <3>2. CASE job' = [job EXCEPT ![w] = [@ EXCEPT !.pc = "preload", !.stage = "preloading"]]
      <4>1. "preload" \in Labels /\ "preloading" \in Stages
        BY DEF Labels, Stages
      <4>2. QED
        BY <1>0, <3>2, <4>1, StageGoesOn
    <3>3. QED
      BY <1>1, <3>1, <3>2 DEF CacheStatus
  <2>2. QED
    BY <1>1, <2>1 DEF CacheStatus, TypeOK
<1>2. CASE Preload(w)
  <2>1. GoesOn(w) /\ job'[w].pc \in {"resident", "finish"}
    BY <1>0, <1>2, AnswerGoesOn, GotoGoesOn DEF Preload, Outcomes, Stages, Labels
  <2>2. QED
    BY <1>2, <2>1 DEF Preload, TypeOK
<1>3. CASE ReadResident(w)
  <2> DEFINE other == residency \notin {NoModel, job[w].model}
             label == IF other THEN "unload" ELSE "check"
             announced == IF other THEN "unloading" ELSE "loading"
  <2>1. job' = [job EXCEPT ![w] = [@ EXCEPT !.seen = residency, !.pc = label,
                                            !.stage = announced]]
    BY <1>3 DEF ReadResident
  <2>2. label \in {"unload", "check"} /\ label \in Labels /\ announced \in Stages
    BY DEF Labels, Stages
  <2> HIDE DEF label, announced
  <2>3. GoesOn(w) /\ job'[w].pc = label
    BY <1>0, <2>1, <2>2 DEF TypeOK, GoesOn, OthersKept, Jobs
  <2>4. QED
    BY <1>3, <2>2, <2>3 DEF ReadResident, TypeOK
<1>4. CASE SwitchUnload(w)
  <2>1. UnloadOutcome(job[w].seen) \in Outcomes
    BY DEF UnloadOutcome, Outcomes
  <2>2. GoesOn(w) /\ job'[w].pc \in {"check", "finish"}
    <3>1. CASE job' = [job EXCEPT ![w] = [@ EXCEPT !.pc = "check", !.stage = "loading"]]
      <4>1. "check" \in Labels /\ "loading" \in Stages
        BY DEF Labels, Stages
      <4>2. QED
        BY <1>0, <3>1, <4>1, StageGoesOn
    <3>2. CASE Answer(w, UnloadOutcome(job[w].seen), "unloading")
      BY <1>0, <2>1, <3>2, AnswerGoesOn DEF Stages
    <3>3. QED
      BY <1>4, <3>1, <3>2 DEF SwitchUnload
  <2>3. residency' = residency \/ (~HasProbe /\ residency' = NoModel)
    BY <1>4 DEF SwitchUnload, UnloadEffect, UnloadOutcome
  <2>4. QED
    BY <1>4, <2>2, <2>3 DEF SwitchUnload, TypeOK
<1>5. CASE ScanRaises(w)
  <2>1. GoesOn(w) /\ job'[w].pc = "finish"
    BY <1>0, <1>5, AnswerGoesOn DEF ScanRaises, Outcomes, Stages
  <2>2. QED
    BY <1>5, <2>1 DEF ScanRaises, TypeOK
<1>6. CASE LoadStep(w)
  BY <1>0, <1>6, LoadSteps
<1>7. QED
  BY <1>1, <1>2, <1>3, <1>4, <1>5, <1>6 DEF SwitchStep

\* Every command the loop can begin.
LEMMA LoopCommands ==
  ASSUME TypeOK, NEW m \in Models, LoopCommand(m)
  PROVE  Starts(Loop)
<1>0. Loop \in Threads
  BY DEF Threads
<1>1. ASSUME NEW allow_preload \in BOOLEAN, LoadCommand(m, allow_preload)
      PROVE  Starts(Loop)
  <2>1. "load" \in Ops /\ "check" \in Labels
    BY DEF Ops, Labels
  <2>2. Begin(Loop, "load", m, allow_preload, "check")
    BY <1>1 DEF LoadCommand
  <2>3. /\ job' \in [Threads -> Jobs] /\ OthersKept(Loop) /\ job[Loop].pc = "idle"
        /\ job'[Loop].op = "load" /\ job'[Loop].pc = "check"
    BY <1>0, <2>1, <2>2, BeginStarts
  <2>4. QED
    BY <1>1, <2>3 DEF LoadCommand, Starts, Disks, TypeOK
<1>2. CASE ReloadCommand(m)
  <2>1. CASE AnswerAtOnce("reload", m, "loaded")
    <3>1. "reload" \in Ops /\ "loaded" \in Outcomes
      BY DEF Ops, Outcomes
    <3>2. /\ job' \in [Threads -> Jobs] /\ OthersKept(Loop) /\ job[Loop].pc = "idle"
          /\ job'[Loop].op = "reload" /\ job'[Loop].pc = "finish"
      BY <2>1, <3>1, AtOnceStarts
    <3>3. QED
      BY <1>2, <3>2 DEF ReloadCommand, Starts, Disks, TypeOK
  <2>2. CASE Begin(Loop, "reload", m, TRUE, "check")
    <3>1. "reload" \in Ops /\ "check" \in Labels /\ TRUE \in BOOLEAN
      BY DEF Ops, Labels
    <3>2. /\ job' \in [Threads -> Jobs] /\ OthersKept(Loop) /\ job[Loop].pc = "idle"
          /\ job'[Loop].op = "reload" /\ job'[Loop].pc = "check"
      BY <1>0, <2>2, <3>1, BeginStarts
    <3>3. QED
      BY <1>2, <3>2 DEF ReloadCommand, Starts, Disks, TypeOK
  <2>3. QED
    BY <1>2, <2>1, <2>2 DEF ReloadCommand
<1>3. CASE UnloadCommand(m)
  <2>1. UnloadOutcome(m) \in Outcomes /\ "unload" \in Ops
    BY DEF UnloadOutcome, Outcomes, Ops
  <2>2. residency' = residency \/ (~HasProbe /\ residency' = NoModel)
    BY <1>3 DEF UnloadCommand, UnloadEffect, UnloadOutcome
  <2>3. /\ job' \in [Threads -> Jobs] /\ OthersKept(Loop) /\ job[Loop].pc = "idle"
        /\ job'[Loop].op = "unload" /\ job'[Loop].pc = "finish"
    BY <1>3, <2>1, AtOnceStarts DEF UnloadCommand
  <2>4. QED
    BY <1>3, <2>2, <2>3 DEF UnloadCommand, Starts, Disks, TypeOK
<1>4. CASE ChatCommand(m)
  <2>1. "chat" \in Ops /\ "admit" \in Labels /\ FALSE \in BOOLEAN
    BY DEF Ops, Labels
  <2>2. /\ job' \in [Threads -> Jobs] /\ OthersKept(Loop) /\ job[Loop].pc = "idle"
        /\ job'[Loop].op = "chat" /\ job'[Loop].pc = "admit"
    BY <1>0, <1>4, <2>1, BeginStarts DEF ChatCommand
  <2>3. QED
    BY <1>4, <2>2 DEF ChatCommand, Starts, Disks, TypeOK
<1>5. CASE DeleteCommand(m)
  <2>1. "delete" \in Ops /\ "rmtree" \in Labels /\ FALSE \in BOOLEAN
    BY DEF Ops, Labels
  <2>2. /\ job' \in [Threads -> Jobs] /\ OthersKept(Loop) /\ job[Loop].pc = "idle"
        /\ job'[Loop].op = "delete" /\ job'[Loop].pc = "rmtree"
    BY <1>0, <1>5, <2>1, BeginStarts DEF DeleteCommand
  <2>3. QED
    BY <1>5, <2>2 DEF DeleteCommand, Starts, Disks, TypeOK
<1>6. QED
  BY <1>1, <1>2, <1>3, <1>4, <1>5 DEF LoopCommand

\* A worker takes up a switch.
LEMMA SwitchCommands ==
  ASSUME TypeOK, NEW w \in Workers, NEW m \in Models, SwitchCommand(w, m)
  PROVE  Starts(w)
<1>1. w \in Threads /\ w # Loop
  BY LifecycleAssumption DEF Threads
<1>2. "switch" \in Ops /\ "status" \in Labels /\ TRUE \in BOOLEAN
  BY DEF Ops, Labels
<1>3. /\ job' \in [Threads -> Jobs] /\ OthersKept(w) /\ job[w].pc = "idle"
      /\ job'[w].op = "switch" /\ job'[w].model = m /\ job'[w].pc = "status"
  BY <1>1, <1>2, BeginStarts DEF SwitchCommand
<1>4. QED
  BY <1>1, <1>3 DEF SwitchCommand, Starts, Disks, TypeOK

-----------------------------------------------------------------------------
(* The inductive invariant, one lemma per kind of step.                    *)

LEMMA InitLifecycleInv == Init => LifecycleInv
<1> SUFFICES ASSUME Init PROVE LifecycleInv
  OBVIOUS
<1>1. Resting \in Jobs /\ Resting.op = "none" /\ Resting.pc = "idle"
  BY DEF Resting, Jobs, Ops, Labels, Stages, Outcomes
<1>2. \A t \in Threads : job[t] = Resting
  BY DEF Init
<1>3. Loop \in Threads
  BY DEF Threads
<1>4. TypeOK
  BY <1>1 DEF Init, TypeOK
<1>5. QED
  BY <1>1, <1>2, <1>3, <1>4
  DEF Init, LifecycleInv, MarkerOnlyForSwitch, ResidentWasListed, At

LEMMA WorksKeeps ==
  ASSUME LifecycleInv, NEW t \in Threads, Works(t), overlapped' \in SUBSET Models
  PROVE  LifecycleInv'
<1> USE DEF LifecycleInv
<1>0. Workers \subseteq Threads /\ Loop \in Threads
  BY DEF Threads
<1>1. \A u \in Threads : job'[u].op = job[u].op /\ job'[u].model = job[u].model
  BY DEF Works, GoesOn, OthersKept
<1>2. residency' \in Models \cup {NoModel}
  BY DEF TypeOK, Works, Jobs
<1>3. TypeOK'
  BY <1>2 DEF TypeOK, Works, GoesOn, Disks
<1>4. MarkerOnlyForSwitch'
  BY <1>0, <1>1 DEF MarkerOnlyForSwitch, SwitchRunning, Works
<1>5. ResidentWasListed'
  BY DEF ResidentWasListed, Works, At
<1>6. ASSUME NEW u \in Threads
      PROVE  /\ At(u, "idle")' => job'[u].op # "switch"
             /\ At(u, "commit")' /\ HasProbe => job'[u].model \in listed'
  <2>1. CASE u = t
    BY <1>1, <2>1 DEF At, Works
  <2>2. CASE u # t
    <3>1. job'[u] = job[u] /\ listed' = listed
      BY <2>2 DEF Works, GoesOn, OthersKept
    <3>2. QED
      BY <3>1 DEF At
  <2>3. QED
    BY <2>1, <2>2
<1>7. served' \subseteq listed'
  BY DEF Works
<1>8. QED
  BY <1>0, <1>1, <1>3, <1>4, <1>5, <1>6, <1>7

LEMMA StartsKeeps ==
  ASSUME LifecycleInv, NEW t \in Threads, Starts(t), overlapped' \in SUBSET Models
  PROVE  LifecycleInv'
<1> USE DEF LifecycleInv
<1>0. Workers \subseteq Threads /\ Loop \in Threads
  BY DEF Threads
<1>1. TypeOK'
  BY DEF TypeOK, Starts, Disks
<1>2. job[t].op # "switch"
  BY DEF At, Starts
<1>3. MarkerOnlyForSwitch'
  <2> SUFFICES ASSUME NEW m \in switching'
               PROVE  \E w \in Workers : job'[w].op = "switch" /\ job'[w].model = m
    BY DEF MarkerOnlyForSwitch, SwitchRunning
  <2>1. CASE m \in switching
    <3>1. PICK w \in Workers : job[w].op = "switch" /\ job[w].model = m
      BY <2>1 DEF MarkerOnlyForSwitch, SwitchRunning
    <3>2. w # t /\ job'[w] = job[w]
      BY <1>0, <1>2, <3>1 DEF Starts, OthersKept
    <3>3. QED
      BY <3>1, <3>2
  <2>2. CASE m \notin switching
    <3>1. t # Loop /\ job'[t].op = "switch" /\ job'[t].model = m
      BY <2>2 DEF Starts
    <3>2. t \in Workers
      BY <3>1 DEF Threads
    <3>3. QED
      BY <3>1, <3>2
  <2>3. QED
    BY <2>1, <2>2
<1>4. ResidentWasListed'
  BY DEF ResidentWasListed, Starts
<1>5. ASSUME NEW u \in Threads
      PROVE  /\ At(u, "idle")' => job'[u].op # "switch"
             /\ At(u, "commit")' /\ HasProbe => job'[u].model \in listed'
  <2>1. CASE u = t
    BY <2>1 DEF At, Starts
  <2>2. CASE u # t
    <3>1. job'[u] = job[u] /\ listed' = listed
      BY <2>2 DEF Starts, OthersKept
    <3>2. QED
      BY <3>1 DEF At
  <2>3. QED
    BY <2>1, <2>2
<1>6. job'[Loop].op # "switch"
  BY <1>0 DEF Starts, OthersKept
<1>7. served' \subseteq listed'
  BY DEF Starts
<1>8. QED
  BY <1>1, <1>3, <1>4, <1>5, <1>6, <1>7

LEMMA FinishKeeps ==
  ASSUME LifecycleInv, NEW t \in Threads, Finish(t), overlapped' \in SUBSET Models
  PROVE  LifecycleInv'
<1> USE DEF LifecycleInv
<1>0. Workers \subseteq Threads /\ Loop \in Threads
  BY DEF Threads
<1>1. Resting \in Jobs /\ Resting.op = "none" /\ Resting.pc = "idle"
  BY DEF Resting, Jobs, Ops, Labels, Stages, Outcomes
<1>2. job'[t] = Resting /\ (\A u \in Threads \ {t} : job'[u] = job[u])
  BY DEF Finish, TypeOK
<1>3. TypeOK'
  BY <1>1 DEF Finish, TypeOK
<1>4. MarkerOnlyForSwitch'
  <2> SUFFICES ASSUME NEW m \in switching'
               PROVE  \E w \in Workers : job'[w].op = "switch" /\ job'[w].model = m
    BY DEF MarkerOnlyForSwitch, SwitchRunning
  <2>1. m \in switching /\ (job[t].op = "switch" => m # job[t].model)
    BY DEF Finish
  <2>2. PICK w \in Workers : job[w].op = "switch" /\ job[w].model = m
    BY <2>1 DEF MarkerOnlyForSwitch, SwitchRunning
  <2>3. w # t /\ job'[w] = job[w]
    BY <1>0, <1>2, <2>1, <2>2
  <2>4. QED
    BY <2>2, <2>3
<1>5. ResidentWasListed'
  BY DEF ResidentWasListed, Finish
<1>6. ASSUME NEW u \in Threads
      PROVE  /\ At(u, "idle")' => job'[u].op # "switch"
             /\ At(u, "commit")' /\ HasProbe => job'[u].model \in listed'
  <2>1. CASE u = t
    BY <1>1, <1>2, <2>1 DEF At
  <2>2. CASE u # t
    <3>1. job'[u] = job[u] /\ listed' = listed
      BY <1>2, <2>2 DEF Finish
    <3>2. QED
      BY <3>1 DEF At
  <2>3. QED
    BY <2>1, <2>2
<1>7. job'[Loop].op # "switch"
  BY <1>0, <1>1, <1>2
<1>8. served' \subseteq listed'
  BY DEF Finish
<1>9. QED
  BY <1>3, <1>4, <1>5, <1>6, <1>7, <1>8

LEMMA EnvironmentKeeps ==
  ASSUME LifecycleInv, Environment, overlapped' \in SUBSET Models
  PROVE  LifecycleInv'
<1> USE DEF LifecycleInv
<1>1. ASSUME NEW m \in Models, RuntimeServes(m)
      PROVE  LifecycleInv'
  <2>1. TypeOK'
    BY <1>1 DEF RuntimeServes, TypeOK
  <2>2. MarkerOnlyForSwitch'
    BY <1>1 DEF RuntimeServes, MarkerOnlyForSwitch, SwitchRunning
  <2>3. QED
    BY <1>1, <2>1, <2>2 DEF RuntimeServes, ResidentWasListed, At
<1>2. ASSUME NEW m \in Models, DiskFills(m)
      PROVE  LifecycleInv'
  <2>1. TypeOK'
    BY <1>2 DEF DiskFills, TypeOK
  <2>2. QED
    BY <1>2, <2>1 DEF DiskFills, MarkerOnlyForSwitch, SwitchRunning, ResidentWasListed, At
<1>3. CASE RuntimeStops
  <2>1. TypeOK'
    BY <1>3 DEF RuntimeStops, TypeOK
  <2>2. QED
    BY <1>3, <2>1 DEF RuntimeStops, MarkerOnlyForSwitch, SwitchRunning, ResidentWasListed, At
<1>4. CASE ProcessRestart
  <2>1. Resting \in Jobs /\ Resting.op = "none" /\ Resting.pc = "idle"
    BY DEF Resting, Jobs, Ops, Labels, Stages, Outcomes
  <2>2. \A u \in Threads : job'[u] = Resting
    BY <1>4 DEF ProcessRestart
  <2>3. Loop \in Threads
    BY DEF Threads
  <2>4. TypeOK'
    BY <1>4, <2>1 DEF ProcessRestart, TypeOK
  <2>5. QED
    BY <1>4, <2>1, <2>2, <2>3, <2>4
    DEF ProcessRestart, MarkerOnlyForSwitch, ResidentWasListed, At
<1>5. QED
  BY <1>1, <1>2, <1>3, <1>4 DEF Environment

\* Every step of the specification is one of the four kinds.
LEMMA StepKinds ==
  ASSUME TypeOK, Next
  PROVE  \/ \E t \in Threads : Works(t) \/ Starts(t) \/ Finish(t)
         \/ Environment
<1>0. Workers \subseteq Threads /\ Loop \in Threads
  BY DEF Threads
<1>1. CASE \E m \in Models : LoopCommand(m)
  BY <1>0, <1>1, LoopCommands
<1>2. CASE LoopStep
  BY <1>0, <1>2, LoopSteps
<1>3. CASE \E w \in Workers : \E m \in Models : SwitchCommand(w, m)
  BY <1>0, <1>3, SwitchCommands
<1>4. CASE \E w \in Workers : SwitchStep(w) \/ Preload(w)
  BY <1>0, <1>4, SwitchSteps
<1>5. QED
  BY <1>1, <1>2, <1>3, <1>4 DEF Next

LEMMA NextKeeps ==
  ASSUME LifecycleInv, [Next]_vars
  PROVE  LifecycleInv'
<1>1. CASE Next
  <2>1. TypeOK /\ overlapped' \in SUBSET Models
    BY <1>1 DEF LifecycleInv, Next, Observe
  <2>2. QED
    BY <1>1, <2>1, StepKinds, WorksKeeps, StartsKeeps, FinishKeeps, EnvironmentKeeps
<1>2. CASE UNCHANGED vars
  BY <1>2 DEF vars, serviceVars, LifecycleInv, TypeOK, MarkerOnlyForSwitch, SwitchRunning,
              ResidentWasListed, At
<1>3. QED
  BY <1>1, <1>2

-----------------------------------------------------------------------------
(* The theorems.                                                           *)

\* The invariant holds in every state, whatever the models, the number of
\* workers, the probe and the runtime.
THEOREM LifecycleInvariant == Spec => []LifecycleInv
<1>1. LifecycleInv /\ [Next]_vars => LifecycleInv'
  BY NextKeeps
<1>2. QED
  BY InitLifecycleInv, <1>1, PTL DEF Spec

\* No switch leaks its marker (the finally clause of switch_model), however
\* many switches of however many models overlap.
THEOREM NoMarkerLeaks == Spec => []MarkerOnlyForSwitch
<1>1. LifecycleInv => MarkerOnlyForSwitch
  BY DEF LifecycleInv
<1>2. QED
  BY LifecycleInvariant, <1>1, PTL

\* With a probe, only a model the runtime has listed is ever resident.
THEOREM ResidentIsListed == Spec => []ResidentWasListed
<1>1. LifecycleInv => ResidentWasListed
  BY DEF LifecycleInv
<1>2. QED
  BY LifecycleInvariant, <1>1, PTL

\* With a probe, a resident model stays until the process restarts or the
\* runtime comes up with another one.
THEOREM ResidencyIsWriteOnce == Spec => ResidentModelStays
<1>1. LifecycleInv /\ [Next]_vars
        => [HasProbe /\ OneModelListed /\ residency # NoModel /\ ~ProcessRestart
              => residency' = residency]_vars
  <2> SUFFICES ASSUME LifecycleInv, [Next]_vars, HasProbe, OneModelListed,
                      residency # NoModel, ~ProcessRestart
               PROVE  residency' = residency
    OBVIOUS
  <2>1. CASE UNCHANGED vars
    BY <2>1 DEF vars, serviceVars
  <2>2. ASSUME NEW t \in Threads, Works(t)
        PROVE  residency' = residency
    <3>1. CASE job[t].pc = "commit" /\ residency' = job[t].model
      <4>1. job[t].model \in listed /\ residency \in listed
        BY <3>1 DEF LifecycleInv, ResidentWasListed, At
      <4>2. job[t].model = residency
        BY <4>1 DEF OneModelListed
      <4>3. QED
        BY <3>1, <4>2
    <3>2. QED
      BY <2>2, <3>1 DEF Works
  <2>3. ASSUME NEW t \in Threads, Starts(t)
        PROVE  residency' = residency
    BY <2>3 DEF Starts
  <2>4. ASSUME NEW t \in Threads, Finish(t)
        PROVE  residency' = residency
    BY <2>4 DEF Finish
  <2>5. CASE Environment
    BY <2>5 DEF Environment, RuntimeServes, DiskFills, RuntimeStops
  <2>6. TypeOK
    BY DEF LifecycleInv
  <2>7. QED
    BY <2>1, <2>2, <2>3, <2>4, <2>5, <2>6, StepKinds
<1>2. QED
  BY LifecycleInvariant, <1>1, PTL DEF Spec, ResidentModelStays

\* Two switches to one model that run at once are on record as such.
OverlapsSeen ==
  \A v, w \in Workers, m \in Models :
    v # w /\ SwitchRunning(v, m) /\ SwitchRunning(w, m) => m \in overlapped

\* A model stays on record while one of its switches does.
LEMMA OverlapStays ==
  ASSUME Observe, NEW w \in Workers, NEW m \in Models, m \in overlapped,
         SwitchRunning(w, m)'
  PROVE  m \in overlapped'
BY DEF Observe

\* On any number of workers a running switch is marked, so that admission
\* sees it, unless switches to its model have overlapped.
THEOREM SwitchesAreMarked == Spec => []UnmarkedOnlyAfterOverlap
<1>1. Init => UnmarkedOnlyAfterOverlap /\ OverlapsSeen
  BY DEF Init, UnmarkedOnlyAfterOverlap, OverlapsSeen, SwitchRunning, Resting, Threads
<1>2. OverlapsSeen /\ [Next]_vars => OverlapsSeen'
  <2>1. CASE Next
    BY <2>1 DEF Next, Observe, OverlapsSeen
  <2>2. CASE UNCHANGED vars
    BY <2>2 DEF vars, serviceVars, OverlapsSeen, SwitchRunning
  <2>3. QED
    BY <2>1, <2>2
<1>3. LifecycleInv /\ OverlapsSeen /\ UnmarkedOnlyAfterOverlap /\ [Next]_vars
        => UnmarkedOnlyAfterOverlap'
  <2> SUFFICES ASSUME LifecycleInv, OverlapsSeen, UnmarkedOnlyAfterOverlap, [Next]_vars,
                      NEW w \in Workers, NEW m \in Models,
                      job'[w].op = "switch", job'[w].model = m
               PROVE  m \in switching' \/ m \in overlapped'
    BY DEF UnmarkedOnlyAfterOverlap, SwitchRunning
  <2>0. w \in Threads /\ w # Loop /\ TypeOK
    BY LifecycleAssumption DEF Threads, LifecycleInv
  <2>1. CASE UNCHANGED vars
    BY <2>1 DEF vars, serviceVars, UnmarkedOnlyAfterOverlap, SwitchRunning
  <2>2. CASE Next /\ m \in overlapped
    <3>1. Observe
      BY <2>2 DEF Next
    <3>2. QED
      BY <2>2, <3>1, OverlapStays DEF SwitchRunning
  <2>3. ASSUME m \notin overlapped, NEW t \in Threads, Works(t)
        PROVE  m \in switching'
    BY <2>0, <2>3 DEF Works, GoesOn, OthersKept, UnmarkedOnlyAfterOverlap, SwitchRunning
  <2>4. ASSUME m \notin overlapped, NEW t \in Threads, Starts(t)
        PROVE  m \in switching'
    BY <2>0, <2>4 DEF Starts, OthersKept, UnmarkedOnlyAfterOverlap, SwitchRunning
  <2>5. ASSUME m \notin overlapped, NEW t \in Threads, Finish(t)
        PROVE  m \in switching'
    <3>1. job[w] = job'[w] /\ t # w
      BY <2>0, <2>5 DEF Finish, Resting, TypeOK
    <3>2. m \in switching
      BY <2>5, <3>1 DEF UnmarkedOnlyAfterOverlap, SwitchRunning
    <3>3. ~(job[t].op = "switch" /\ job[t].model = m)
      <4>1. CASE t = Loop
        BY <4>1 DEF LifecycleInv
      <4>2. CASE t \in Workers
        BY <2>5, <3>1, <4>2 DEF OverlapsSeen, SwitchRunning
      <4>3. QED
        BY <4>1, <4>2 DEF Threads
    <3>4. QED
      BY <2>5, <3>2, <3>3 DEF Finish
  <2>6. CASE m \notin overlapped /\ Environment
    BY <2>0, <2>6 DEF Environment, RuntimeServes, DiskFills, RuntimeStops,
                      ProcessRestart, Resting, UnmarkedOnlyAfterOverlap, SwitchRunning
  <2>7. QED
    BY <2>0, <2>1, <2>2, <2>3, <2>4, <2>5, <2>6, StepKinds
<1>4. QED
  BY LifecycleInvariant, <1>1, <1>2, <1>3, PTL DEF Spec

\* Admission is the only step by which a chat comes to its runtime call.
LEMMA OnlyAdmissionRuns ==
  ASSUME TypeOK, Next, At(Loop, "admit"), job'[Loop].pc = "runtime"
  PROVE  ChatAdmit
<1> USE DEF At
<1>0. Loop \in Threads /\ Loop \notin Workers /\ Workers \subseteq Threads
  BY LifecycleAssumption DEF Threads
<1>1. ASSUME NEW m \in Models, LoopCommand(m)
      PROVE  FALSE
  BY <1>1, LoopCommands DEF Starts
<1>2. ASSUME NEW w \in Workers, NEW m \in Models, SwitchCommand(w, m)
      PROVE  FALSE
  BY <1>0, <1>2, SwitchCommands DEF Starts, OthersKept
<1>3. ASSUME NEW w \in Workers, SwitchStep(w) \/ Preload(w)
      PROVE  FALSE
  <2>1. CASE Finish(w)
    BY <1>0, <2>1 DEF Finish, TypeOK
  <2>2. CASE ~Finish(w)
    BY <1>0, <1>3, <2>2, SwitchSteps DEF Works, GoesOn, OthersKept
  <2>3. QED
    BY <2>1, <2>2
<1>4. CASE LoopStep
  BY <1>4 DEF LoopStep, LoadStep, LoadCheck, CacheGate, Probe, Commit, Finish,
              ChatExecute, DeleteEnd
<1>5. CASE Environment
  BY <1>0, <1>5 DEF Environment, RuntimeServes, DiskFills, RuntimeStops, ProcessRestart, Resting
<1>6. QED
  BY <1>1, <1>2, <1>3, <1>4, <1>5 DEF Next

\* A switch is always of a model.
SwitchHasModel == \A w \in Workers : job[w].op = "switch" => job[w].model \in Models

LEMMA SwitchHasModelKept ==
  ASSUME LifecycleInv, SwitchHasModel, [Next]_vars
  PROVE  SwitchHasModel'
<1> SUFFICES ASSUME NEW w \in Workers, job'[w].op = "switch"
             PROVE  job'[w].model \in Models
  BY DEF SwitchHasModel
<1>0. w \in Threads /\ w # Loop /\ TypeOK
  BY LifecycleAssumption DEF Threads, LifecycleInv
<1>1. CASE \E t \in Threads : Works(t) \/ Starts(t)
  BY <1>0, <1>1 DEF Works, Starts, GoesOn, OthersKept, SwitchHasModel
<1>2. CASE \E t \in Threads : Finish(t)
  BY <1>0, <1>2 DEF Finish, Resting, TypeOK, SwitchHasModel
<1>3. CASE Environment
  BY <1>0, <1>3 DEF Environment, RuntimeServes, DiskFills, RuntimeStops, ProcessRestart,
                    Resting, SwitchHasModel
<1>4. CASE UNCHANGED vars
  BY <1>4 DEF vars, serviceVars, SwitchHasModel
<1>5. QED
  BY <1>0, <1>1, <1>2, <1>3, <1>4, StepKinds

\* On any number of workers no chat is handed to the runtime while a switch
\* to its model runs, though its capacity was measured before it was asked
\* for; unless switches to its model have overlapped.
THEOREM ChatsAvoidSwitches == Spec => ChatAvoidsSwitch
<1>1. Init => SwitchHasModel
  BY DEF Init, SwitchHasModel, Resting, Threads
<1>2. LifecycleInv /\ UnmarkedOnlyAfterOverlap /\ SwitchHasModel /\ [Next]_vars
        => [At(Loop, "admit") /\ job'[Loop].pc = "runtime"
              => \A w \in Workers :
                   SwitchRunning(w, job[Loop].model) => job[Loop].model \in overlapped]_vars
  <2> SUFFICES ASSUME LifecycleInv, UnmarkedOnlyAfterOverlap, SwitchHasModel, Next,
                      At(Loop, "admit"), job'[Loop].pc = "runtime",
                      NEW w \in Workers, SwitchRunning(w, job[Loop].model),
                      job[Loop].model \notin overlapped
               PROVE  FALSE
    OBVIOUS
  <2>1. TypeOK /\ ChatAdmit /\ Loop \in Threads
    BY OnlyAdmissionRuns DEF LifecycleInv, Threads
  <2>2. job[Loop].model \in Models
    BY DEF SwitchRunning, SwitchHasModel
  <2>3. job[Loop].model \in switching
    BY <2>2 DEF UnmarkedOnlyAfterOverlap
  <2>4. Answer(Loop, "MODEL_SWITCHING", "none")
    BY <2>1, <2>3 DEF ChatAdmit
  <2>5. job'[Loop].pc = "finish"
    BY <2>1, <2>4, AnswerGoesOn DEF Outcomes, Stages
  <2>6. QED
    BY <2>5
<1>3. QED
  BY LifecycleInvariant, SwitchesAreMarked, SwitchHasModelKept, <1>1, <1>2, PTL
  DEF Spec, ChatAvoidsSwitch

-----------------------------------------------------------------------------
(* The stage a failure names.                                              *)

\* Where a command is says which stage it has announced last, and a failure
\* of its own names that one.
Announced(j) ==
  /\ j.pc = "preload" => j.stage = "preloading"
  /\ j.pc = "unload" => j.stage = "unloading"
  /\ j.pc \in {"check", "gate", "probe", "commit"} => j.stage = "loading"
  /\ j.pc = "finish" /\ j.failed # "none" /\ j.outcome # "FileNotFoundError"
       => j.failed = j.stage

StageInv == \A w \in Workers : Announced(job[w])

LEMMA AnswerAnnounced ==
  ASSUME TypeOK, NEW t \in Threads, NEW outcome, NEW failed, Answer(t, outcome, failed),
         failed = "none" \/ failed = job[t].stage \/ outcome = "FileNotFoundError"
  PROVE  Announced(job'[t]) /\ OthersKept(t)
BY DEF TypeOK, Answer, Announced, OthersKept, Jobs

LEMMA GotoAnnounced ==
  ASSUME TypeOK, NEW t \in Threads, NEW label, Goto(t, label),
         \/ label = "resident"
         \/ job[t].stage = "loading" /\ label \in {"check", "gate", "probe", "commit"}
  PROVE  Announced(job'[t]) /\ OthersKept(t)
BY DEF TypeOK, Goto, Announced, OthersKept, Jobs

LEMMA RestIsAnnounced == Announced(Resting)
BY DEF Announced, Resting

LEMMA LoadAnnounced ==
  ASSUME TypeOK, NEW w \in Threads, Announced(job[w]), LoadStep(w)
  PROVE  Announced(job'[w]) /\ OthersKept(w)
<1> USE DEF At
<1>1. CASE LoadCheck(w)
  <2>1. job[w].stage = "loading"
    BY <1>1 DEF LoadCheck, Announced
  <2>2. QED
    BY <1>1, <2>1, AnswerAnnounced, GotoAnnounced DEF LoadCheck
<1>2. CASE CacheGate(w)
  <2>1. job[w].stage = "loading"
    BY <1>2 DEF CacheGate, Announced
  <2>2. QED
    BY <1>2, <2>1, AnswerAnnounced, GotoAnnounced DEF CacheGate
<1>3. CASE Probe(w)
  <2>1. job[w].stage = "loading"
    BY <1>3 DEF Probe, Announced
  <2>2. Goto(w, "commit") \/ Answer(w, "MODEL_NOT_SERVED_BY_VLLM", "loading")
    BY <1>3 DEF Probe
  <2>3. QED
    BY <2>1, <2>2, AnswerAnnounced, GotoAnnounced
<1>4. CASE Commit(w)
  BY <1>4, AnswerAnnounced DEF Commit
<1>5. CASE Finish(w)
  BY <1>5, RestIsAnnounced DEF Finish, TypeOK, OthersKept
<1>6. QED
  BY <1>1, <1>2, <1>3, <1>4, <1>5 DEF LoadStep

LEMMA SwitchAnnounced ==
  ASSUME TypeOK, NEW w \in Workers, Announced(job[w]), SwitchStep(w) \/ Preload(w)
  PROVE  Announced(job'[w]) /\ OthersKept(w)
<1> USE DEF At
<1>0. w \in Threads
  BY DEF Threads
<1>1. CASE CacheStatus(w)
  <2>1. CASE job' = [job EXCEPT ![w] = [@ EXCEPT !.pc = "preload", !.stage = "preloading"]]
    BY <1>0, <2>1 DEF TypeOK, Announced, OthersKept, Jobs
  <2>2. QED
    BY <1>0, <1>1, <2>1, GotoAnnounced DEF CacheStatus
<1>2. CASE Preload(w)
  BY <1>0, <1>2, AnswerAnnounced, GotoAnnounced DEF Preload, Announced
<1>3. CASE ReadResident(w)
  BY <1>0, <1>3 DEF ReadResident, TypeOK, Announced, OthersKept, Jobs
<1>4. CASE SwitchUnload(w)
  <2>1. CASE job' = [job EXCEPT ![w] = [@ EXCEPT !.pc = "check", !.stage = "loading"]]
    BY <1>0, <2>1 DEF TypeOK, Announced, OthersKept, Jobs
  <2>2. CASE Answer(w, UnloadOutcome(job[w].seen), "unloading")
    BY <1>0, <1>4, <2>2, AnswerAnnounced DEF SwitchUnload, Announced
  <2>3. QED
    BY <1>4, <2>1, <2>2 DEF SwitchUnload
<1>5. CASE ScanRaises(w)
  BY <1>0, <1>5, AnswerAnnounced DEF ScanRaises
<1>6. CASE LoadStep(w)
  BY <1>0, <1>6, LoadAnnounced
<1>7. QED
  BY <1>1, <1>2, <1>3, <1>4, <1>5, <1>6 DEF SwitchStep

\* A switch that reports a failure of its own names the last stage it
\* announced, whatever other commands do to the record it works on.
THEOREM FailuresNameTheirStage == Spec => []FailedStageWasAnnounced
<1>1. Init => StageInv
  BY RestIsAnnounced DEF Init, StageInv, Threads
<1>2. LifecycleInv /\ StageInv /\ [Next]_vars => StageInv'
  <2> SUFFICES ASSUME LifecycleInv, StageInv, [Next]_vars, NEW w \in Workers
               PROVE  Announced(job'[w])
    BY DEF StageInv
  <2>0. /\ w \in Threads /\ w # Loop /\ Loop \in Threads /\ TypeOK
        /\ Announced(job[w])
    BY LifecycleAssumption DEF Threads, LifecycleInv, StageInv
  <2>1. ASSUME NEW t \in Threads, t # w, OthersKept(t) PROVE Announced(job'[w])
    BY <2>0, <2>1 DEF OthersKept
  <2>2. CASE UNCHANGED job
    BY <2>0, <2>2
  <2>3. CASE \E m \in Models : LoopCommand(m)
    BY <2>0, <2>1, <2>3, LoopCommands DEF Starts
  <2>4. CASE LoopStep
    <3>1. CASE Finish(Loop)
      BY <2>0, <3>1 DEF Finish, TypeOK
    <3>2. CASE ~Finish(Loop)
      BY <2>0, <2>1, <2>4, <3>2, LoopSteps DEF Works, GoesOn
    <3>3. QED
      BY <3>1, <3>2
  <2>5. ASSUME NEW v \in Workers, NEW m \in Models, SwitchCommand(v, m)
        PROVE  Announced(job'[w])
    <3>1. CASE v = w
      BY <2>0, <2>5, <3>1 DEF SwitchCommand, Begin, Resting, Announced, TypeOK
    <3>2. CASE v # w
      BY <2>0, <2>1, <2>5, <3>2, SwitchCommands DEF Starts, Threads
    <3>3. QED
      BY <3>1, <3>2
  <2>6. ASSUME NEW v \in Workers, SwitchStep(v) \/ Preload(v)
        PROVE  Announced(job'[w])
    BY <2>0, <2>1, <2>6, SwitchAnnounced DEF Threads, StageInv
  <2>7. CASE Environment
    BY <2>0, <2>7, RestIsAnnounced
    DEF Environment, RuntimeServes, DiskFills, RuntimeStops, ProcessRestart
  <2>8. QED
    BY <2>2, <2>3, <2>4, <2>5, <2>6, <2>7 DEF Next, vars, serviceVars
<1>3. StageInv => FailedStageWasAnnounced
  BY DEF StageInv, Announced, FailedStageWasAnnounced, At
<1>4. QED
  BY LifecycleInvariant, <1>1, <1>2, <1>3, PTL DEF Spec
=============================================================================
