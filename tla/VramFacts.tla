------------------------------ MODULE VramFacts ------------------------------
(***************************************************************************)
(* The VRAM facts file (VramFactsStore of lmrs/vram.py) and its writers:   *)
(* the startup baseline (lmrs/adapter/runtime.py), the capacity report and *)
(* the record of a load (lmrs/adapter/registration.py), on the event loop  *)
(* and on job workers, beside a vLLM process that loads, serves and stops  *)
(* on its own.                                                             *)
(*                                                                         *)
(* Every writer reads the whole file, changes its part and writes the      *)
(* whole file back: first it is truncated, then filled.  A truncated file  *)
(* reads as one without facts.                                             *)
(***************************************************************************)
EXTENDS RuntimeCalls, Integers, FiniteSets

CONSTANTS
  Loop, Workers,  \* the event-loop thread and the threads of the job queue
  Total,          \* VRAM of the card
  Weights,        \* VRAM the weights take once loaded
  CrashMidWrite,  \* the process may die between truncating and filling
  None            \* a fact the file does not state

ASSUME FactsAssumption ==
  /\ Loop \notin Workers
  /\ Total \in Nat /\ Weights \in Nat /\ Weights <= Total
  /\ CrashMidWrite \in BOOLEAN
  /\ None \notin Int

VARIABLES
  file,      \* the facts in the file
  held,      \* VRAM vLLM holds now
  served,    \* vLLM lists the model
  resident,  \* a residency record exists
  act,       \* what each thread is doing
  written,   \* the facts last written to the end (history)
  torn,      \* two writers overlapped, or one stopped half-way (history)
  misled     \* a baseline was taken of weights nobody admitted to (history)

vars == <<file, held, served, resident, act, written, torn, misled>>

Threads == Workers \cup {Loop}

\* flag is baseline_model_served: "free" for false, "served" for true.
Facts == [baseline : Nat \cup {None}, flag : {"none", "free", "served"},
          loaded : Nat \cup {None}, static : Nat \cup {None}]

NoFacts == [baseline |-> None, flag |-> "none", loaded |-> None, static |-> None]

Act == [op : {"none", "startup", "capacity", "load"},
        pc : {"idle", "measure", "stored", "probe", "read", "truncate", "fill"},
        free : Nat \cup {None}, served : BOOLEAN, facts : Facts]

Doing(op, pc) == [op |-> op, pc |-> pc, free |-> None, served |-> FALSE, facts |-> NoFacts]
Idle == Doing("none", "idle")

TypeOK ==
  /\ file \in Facts /\ written \in Facts
  /\ held \in 0..Weights
  /\ served \in BOOLEAN /\ resident \in BOOLEAN
  /\ act \in [Threads -> Act]
  /\ torn \in BOOLEAN /\ misled \in BOOLEAN

-----------------------------------------------------------------------------
(* What a writer makes of the facts it read.                               *)

\* Mutant: the test is the wrong way round.
BaselineYieldsSwapped(facts, model_served) == model_served /\ facts.flag = "served"

\* record_service_baseline: a reading taken while a model is served gives
\* way to one that was not.
BaselineYields(facts, model_served) == model_served /\ facts.flag = "free"

\* Mutant: the baseline is stored without its flag.
WithBaselineUnflagged(facts, free, model_served) == [facts EXCEPT !.baseline = free]

WithBaseline(facts, free, model_served) ==
  [facts EXCEPT !.baseline = free, !.flag = IF model_served THEN "served" ELSE "free"]

\* Mutant: any baseline backs a static figure.
HasStaticUnflagged(facts, free) == facts.baseline # None /\ facts.baseline >= free

\* record_model_loaded: a static figure needs a model-free baseline that is
\* not below the reading.
HasStatic(facts, free) ==
  facts.flag # "served" /\ facts.baseline # None /\ facts.baseline >= free

WithLoaded(facts, free) ==
  [facts EXCEPT !.loaded = free,
                !.static = IF HasStatic(facts, free) THEN facts.baseline - free ELSE None]

-----------------------------------------------------------------------------
(* Steps of a thread.                                                      *)

At(t, pc) == act[t].pc = pc

\* The server takes commands once its startup is over.
Ready(t) == At(t, "idle") /\ act[Loop].op # "startup"

CapacityCommand ==
  /\ Ready(Loop)
  /\ act' = [act EXCEPT ![Loop] = Doing("capacity", "measure")]
  /\ UNCHANGED <<file, held, served, resident, written, torn, misled>>

\* A load or switch whose probe has just found the model served.
LoadProven(t) ==
  /\ Ready(t)
  /\ served
  /\ act' = [act EXCEPT ![t] = Doing("load", "measure")]
  /\ UNCHANGED <<file, held, served, resident, written, torn, misled>>

\* Mutant: the startup does not ask the runtime.
AfterMeasureUnasked(op) == IF op = "capacity" THEN "stored" ELSE "read"

\* Where a reading leads: only the capacity report looks at the file first.
AfterMeasure(op) ==
  IF op = "startup" THEN "probe" ELSE IF op = "capacity" THEN "stored" ELSE "read"

\* A startup or a capacity report may make a baseline of what it reads.
Baselines(t) == act[t].op \in {"startup", "capacity"}

Measure(t) ==
  /\ At(t, "measure")
  /\ act' = [act EXCEPT ![t] = [@ EXCEPT !.pc = AfterMeasure(act[t].op),
                                         !.free = Total - held]]
  /\ misled' = (misled \/ (Baselines(t) /\ held > 0 /\ ~served))
  /\ UNCHANGED <<file, held, served, resident, written, torn>>

\* The driver does not answer: nothing is recorded, but a load commits.
CannotMeasure(t) ==
  /\ At(t, "measure")
  /\ act' = [act EXCEPT ![t] = Idle]
  /\ resident' = (resident \/ act[t].op = "load")
  /\ UNCHANGED <<file, held, served, written, torn, misled>>

\* The capacity report takes a baseline only where the file has none and no
\* model is resident.
ReadStored ==
  /\ At(Loop, "stored")
  /\ act' = [act EXCEPT ![Loop] =
               IF file.baseline = None /\ ~resident THEN [@ EXCEPT !.pc = "probe"] ELSE Idle]
  /\ UNCHANGED <<file, held, served, resident, written, torn, misled>>

\* model_served: a runtime that does not answer counts as one that serves
\* nothing.
ModelServed(response) ==
  LET probe == ListModels(response, {m \in {"the model"} : served})
  IN probe.ok /\ probe.served # {}

ProbeServed ==
  /\ At(Loop, "probe")
  /\ \E response \in Responses :
       LET answer == ModelServed(response)
       IN /\ act' = [act EXCEPT ![Loop] = [@ EXCEPT !.pc = "read", !.served = answer]]
          /\ misled' = (misled \/ answer # served)
  /\ UNCHANGED <<file, held, served, resident, written, torn>>

\* A writer has read the file and not yet written it back.
Writing(t) == At(t, "truncate") \/ At(t, "fill")
Alone(t) == \A u \in Threads \ {t} : ~Writing(u)

ReadForBaseline ==
  /\ At(Loop, "read") /\ act[Loop].op # "load"
  /\ act' = [act EXCEPT ![Loop] =
               IF BaselineYields(file, @.served) THEN Idle
               ELSE [@ EXCEPT !.pc = "truncate",
                              !.facts = WithBaseline(file, act[Loop].free, act[Loop].served)]]
  /\ torn' = (torn \/ ~Alone(Loop))
  /\ UNCHANGED <<file, held, served, resident, written, misled>>

ReadForLoad(t) ==
  /\ At(t, "read") /\ act[t].op = "load"
  /\ act' = [act EXCEPT ![t] = [@ EXCEPT !.pc = "truncate",
                                         !.facts = WithLoaded(file, act[t].free)]]
  /\ torn' = (torn \/ ~Alone(t))
  /\ UNCHANGED <<file, held, served, resident, written, misled>>

\* Path.write_text opens the file for writing, then writes it.
Truncate(t) ==
  /\ At(t, "truncate")
  /\ file' = NoFacts
  /\ act' = [act EXCEPT ![t] = [@ EXCEPT !.pc = "fill"]]
  /\ UNCHANGED <<held, served, resident, written, torn, misled>>

\* What is in the file after t wrote over it: where another writer filled it
\* since t truncated it, a longer tail may be left, which is no JSON.
Contents(t) ==
  {act[t].facts} \cup (IF file = NoFacts THEN {} ELSE {NoFacts})

\* After its record a load becomes the residency.
Fill(t) ==
  /\ At(t, "fill")
  /\ file' \in Contents(t)
  /\ written' = file'
  /\ resident' = (resident \/ act[t].op = "load")
  /\ act' = [act EXCEPT ![t] = Idle]
  /\ UNCHANGED <<held, served, torn, misled>>

\* The file cannot be opened, or its contents do not reach the disk: the
\* caller goes on without it, and a truncated file stays behind.
WriteFails(t) ==
  /\ Writing(t)
  /\ file' \in IF At(t, "fill") THEN {file, NoFacts} ELSE {file}
  /\ torn' = (torn \/ At(t, "fill"))
  /\ resident' = (resident \/ act[t].op = "load")
  /\ act' = [act EXCEPT ![t] = Idle]
  /\ UNCHANGED <<held, served, written, misled>>

-----------------------------------------------------------------------------
(* The runtime and the process.                                            *)

\* vLLM takes VRAM for its weights before it serves them.
WeightsGrow ==
  /\ ~served
  /\ held' \in (held + 1)..Weights
  /\ UNCHANGED <<file, served, resident, act, written, torn, misled>>

RuntimeServes ==
  /\ held = Weights /\ ~served
  /\ served' = TRUE
  /\ UNCHANGED <<file, held, resident, act, written, torn, misled>>

RuntimeStops ==
  /\ held' = 0
  /\ served' = FALSE
  /\ misled' = (misled \/ (served /\ (At(Loop, "stored") \/ At(Loop, "probe"))))
  /\ UNCHANGED <<file, resident, act, written, torn>>

Booting == [t \in Threads |-> IF t = Loop THEN Doing("startup", "measure") ELSE Idle]

ProcessRestart ==
  /\ CrashMidWrite \/ \A t \in Threads : ~At(t, "fill")
  /\ act' = Booting
  /\ resident' = FALSE
  /\ torn' = (torn \/ \E t \in Threads : At(t, "fill"))
  /\ UNCHANGED <<file, held, served, written, misled>>

-----------------------------------------------------------------------------
Init ==
  /\ file = NoFacts /\ written = NoFacts
  /\ held = 0
  /\ served = FALSE
  /\ resident = FALSE
  /\ act = Booting
  /\ torn = FALSE /\ misled = FALSE

Step(t) ==
  \/ LoadProven(t) \/ Measure(t) \/ CannotMeasure(t) \/ ReadForLoad(t)
  \/ Truncate(t) \/ Fill(t) \/ WriteFails(t)

Next ==
  \/ \E t \in Threads : Step(t)
  \/ CapacityCommand \/ ReadStored \/ ProbeServed \/ ReadForBaseline
  \/ WeightsGrow \/ RuntimeServes \/ RuntimeStops
  \/ ProcessRestart

Spec == Init /\ [][Next]_vars

-----------------------------------------------------------------------------
(* Properties.                                                             *)

\* A static figure is never stored beside a baseline that was taken with a
\* model served, or beside none: whatever writers overlap, each writes facts
\* it derived from one reading of the file.
StaticNeedsModelFree == file.static # None => file.flag = "free" /\ file.baseline # None

\* Its inductive strengthening: the same of the facts about to be
\* written, which hold the reading they were derived from.
Coherent(facts) ==
  /\ facts.static # None => facts.flag = "free"
  /\ facts.baseline = None <=> facts.flag = "none"
HasReading(record) == record.pc \in {"stored", "probe", "read"} => record.free # None
FactsInv ==
  /\ TypeOK
  /\ Coherent(file)
  /\ \A t \in Threads : Coherent(act[t].facts) /\ HasReading(act[t])

\* Until a write is torn the file holds what was last written, except while
\* one writer fills it, and no writer is about to lose a model-free baseline.
WholeWrites ==
  ~torn =>
    /\ \A t, u \in Threads : Writing(t) /\ Writing(u) => t = u
    /\ (\A t \in Threads : ~At(t, "fill")) => file = written
    /\ \A t \in Threads :
         /\ At(t, "fill") => file = NoFacts
         /\ Writing(t) /\ written.flag = "free" => act[t].facts.flag = "free"

\* A baseline stored as model-free is the bare card's, unless one was taken
\* while weights were loading, while a serving runtime did not answer the
\* probe, or stopped between the reading and the probe: a restart beside a
\* serving runtime, a torn write and overlapping writers never make one.
FreeBaselineIsBare == ~misled /\ file.flag = "free" => file.baseline = Total

\* Its strengthening: a thread on its way to a baseline has read the bare
\* card, or the runtime serves its weights and the probe says so.
Bare(facts) == facts.flag = "free" => facts.baseline = Total
BareInv ==
  ~misled =>
    /\ Bare(file)
    /\ \A t \in Threads : Bare(act[t].facts)
    /\ ~At(Loop, "idle") => act[Loop].op # "none"
    /\ (At(Loop, "stored") \/ At(Loop, "probe")) /\ act[Loop].free # Total => served
    /\ At(Loop, "read") /\ Baselines(Loop) /\ act[Loop].free # Total => act[Loop].served

\* A baseline taken while a model is served never replaces one that was
\* not, and no other writer loses it (record_service_baseline).
ModelFreeBaselineStays == [][written.flag = "free" => written'.flag = "free"]_vars

\* That fails only by writers that overlap, or by one that stops half-way:
\* as long as neither has happened the baseline stays, over any number of
\* restarts, loads and reports.
LostOnlyWhenTorn == [][~torn' /\ written.flag = "free" => written'.flag = "free"]_vars
=============================================================================
