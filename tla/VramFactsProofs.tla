--------------------------- MODULE VramFactsProofs ---------------------------
(***************************************************************************)
(* What holds of the VRAM facts file for every card, every number of       *)
(* writers and every crash.                                                *)
(***************************************************************************)
EXTENDS VramFacts, TLAPS

-----------------------------------------------------------------------------
(* What a writer makes of coherent facts is coherent.                      *)

LEMMA BaselineCoherent ==
  ASSUME NEW facts \in Facts, NEW free \in Nat, NEW model_served \in BOOLEAN,
         Coherent(facts), ~BaselineYields(facts, model_served)
  PROVE  /\ WithBaseline(facts, free, model_served) \in Facts
         /\ Coherent(WithBaseline(facts, free, model_served))
<1>1. free # None
  BY FactsAssumption
<1>2. CASE model_served
  BY <1>1, <1>2 DEF WithBaseline, BaselineYields, Coherent, Facts
<1>3. CASE ~model_served
  BY <1>1, <1>3 DEF WithBaseline, BaselineYields, Coherent, Facts
<1>4. QED
  BY <1>2, <1>3

LEMMA LoadedCoherent ==
  ASSUME NEW facts \in Facts, NEW free \in Nat, Coherent(facts)
  PROVE  /\ WithLoaded(facts, free) \in Facts
         /\ Coherent(WithLoaded(facts, free))
<1>1. CASE HasStatic(facts, free)
  <2>1. facts.baseline \in Nat /\ facts.baseline >= free /\ facts.flag # "served"
    BY <1>1 DEF HasStatic, Facts
  <2>2. facts.baseline - free \in Nat
    BY <2>1
  <2>3. WithLoaded(facts, free)
          = [facts EXCEPT !.loaded = free, !.static = facts.baseline - free]
    BY <1>1 DEF WithLoaded
  <2>4. facts.flag = "free" /\ facts.baseline # None
    BY <2>1, FactsAssumption DEF Coherent, Facts
  <2>5. WithLoaded(facts, free).flag = "free" /\ WithLoaded(facts, free).baseline # None
    BY <2>3, <2>4 DEF Facts
  <2>6. QED
    BY <2>2, <2>3, <2>5 DEF Coherent, Facts
<1>2. CASE ~HasStatic(facts, free)
  <2>1. WithLoaded(facts, free) = [facts EXCEPT !.loaded = free, !.static = None]
    BY <1>2 DEF WithLoaded
  <2>2. QED
    BY <2>1 DEF Coherent, Facts
<1>3. QED
  BY <1>1, <1>2

-----------------------------------------------------------------------------
(* The inductive invariant, one step per action.                           *)

LEMMA NoFactsCoherent == NoFacts \in Facts /\ Coherent(NoFacts)
BY DEF NoFacts, Facts, Coherent

\* A thread at rest or at the start of a command holds no facts.
LEMMA DoingCoherent ==
  ASSUME NEW op \in {"none", "startup", "capacity", "load"}, NEW pc \in {"idle", "measure"}
  PROVE  /\ Doing(op, pc) \in Act
         /\ HasReading(Doing(op, pc))
         /\ Coherent(Doing(op, pc).facts)
BY NoFactsCoherent DEF Doing, Act, HasReading

\* What has to be shown of the thread a step moves.
LEMMA OneThread ==
  ASSUME FactsInv, NEW t \in Threads, NEW now \in Act,
         act' = [act EXCEPT ![t] = now],
         Coherent(now.facts), HasReading(now)
  PROVE  /\ act' \in [Threads -> Act]
         /\ \A u \in Threads : Coherent(act'[u].facts) /\ HasReading(act'[u])
BY DEF FactsInv, TypeOK, HasReading, At

LEMMA InitFactsInv == Init => FactsInv
<1> SUFFICES ASSUME Init PROVE FactsInv
  OBVIOUS
<1>1. \A t \in Threads : \E op \in {"none", "startup"}, pc \in {"idle", "measure"} :
        act[t] = Doing(op, pc)
  BY DEF Init, Booting, Idle
<1>2. \A t \in Threads : act[t] \in Act /\ HasReading(act[t]) /\ Coherent(act[t].facts)
  BY <1>1, DoingCoherent
<1>3. act \in [Threads -> Act]
  BY <1>2 DEF Init, Booting
<1>4. TypeOK
  <2>1. 0 \in 0..Weights
    BY FactsAssumption
  <2>2. QED
    BY <1>3, <2>1, NoFactsCoherent DEF Init, TypeOK
<1>5. QED
  BY <1>2, <1>4, NoFactsCoherent DEF Init, FactsInv, HasReading, At

LEMMA StepKeeps ==
  ASSUME FactsInv, NEW t \in Threads, Step(t)
  PROVE  FactsInv'
<1> USE DEF At
<1>0. TypeOK /\ act \in [Threads -> Act] /\ act[t] \in Act /\ Coherent(act[t].facts)
      /\ file \in Facts /\ Coherent(file)
  BY DEF FactsInv, TypeOK
<1>1. ASSUME NEW op \in {"none", "load"}, NEW pc \in {"idle", "measure"},
             act' = [act EXCEPT ![t] = Doing(op, pc)],
             UNCHANGED <<held, served>>,
             resident' \in BOOLEAN, torn' \in BOOLEAN, misled' \in BOOLEAN,
             file' \in Facts, Coherent(file'), written' \in Facts
      PROVE  FactsInv'
  <2>1. Doing(op, pc) \in Act /\ Coherent(Doing(op, pc).facts) /\ HasReading(Doing(op, pc))
    BY DoingCoherent
  <2>2. /\ act' \in [Threads -> Act]
        /\ \A u \in Threads : Coherent(act'[u].facts) /\ HasReading(act'[u])
    BY <1>1, <2>1, OneThread
  <2>3. QED
    BY <1>0, <1>1, <2>2 DEF FactsInv, TypeOK, Coherent
<1>2. CASE LoadProven(t)
  BY <1>0, <1>1, <1>2 DEF LoadProven, TypeOK
<1>3. CASE Measure(t)
  <2> DEFINE now == [act[t] EXCEPT !.pc = AfterMeasure(act[t].op), !.free = Total - held]
  <2>1. Total - held \in Nat /\ Total - held # None
    BY <1>0, FactsAssumption DEF TypeOK
  <2>2. AfterMeasure(act[t].op) \in {"probe", "stored", "read"}
    BY DEF AfterMeasure
  <2>3. now \in Act /\ now.facts = act[t].facts /\ HasReading(now)
    BY <1>0, <2>1, <2>2 DEF Act, HasReading
  <2>4. act' = [act EXCEPT ![t] = now]
    BY <1>3 DEF Measure
  <2> HIDE DEF now
  <2>5. /\ act' \in [Threads -> Act]
        /\ \A u \in Threads : Coherent(act'[u].facts) /\ HasReading(act'[u])
    BY <1>0, <2>3, <2>4, OneThread
  <2>6. QED
    BY <1>0, <1>3, <2>5 DEF Measure, FactsInv, TypeOK, Coherent
<1>4. CASE CannotMeasure(t)
  BY <1>0, <1>1, <1>4 DEF CannotMeasure, Idle, TypeOK
<1>5. CASE ReadForLoad(t)
  <2> DEFINE facts == WithLoaded(file, act[t].free)
             now == [act[t] EXCEPT !.pc = "truncate", !.facts = facts]
  <2>1. act[t].free \in Nat
    BY <1>0, <1>5 DEF ReadForLoad, FactsInv, Act, HasReading
  <2>2. facts \in Facts /\ Coherent(facts)
    BY <1>0, <2>1, LoadedCoherent
  <2>3. act' = [act EXCEPT ![t] = now]
    BY <1>5 DEF ReadForLoad
  <2> HIDE DEF facts
  <2>4. now \in Act /\ now.facts = facts /\ HasReading(now)
    BY <1>0, <2>2 DEF Act, HasReading
  <2> HIDE DEF now
  <2>5. /\ act' \in [Threads -> Act]
        /\ \A u \in Threads : Coherent(act'[u].facts) /\ HasReading(act'[u])
    BY <2>2, <2>3, <2>4, OneThread
  <2>6. QED
    BY <1>0, <1>5, <2>5 DEF ReadForLoad, FactsInv, TypeOK, Coherent
<1>6. CASE Truncate(t)
  <2> DEFINE now == [act[t] EXCEPT !.pc = "fill"]
  <2>1. act' = [act EXCEPT ![t] = now]
    BY <1>6 DEF Truncate
  <2>2. now \in Act /\ now.facts = act[t].facts /\ HasReading(now)
    BY <1>0 DEF Act, HasReading
  <2> HIDE DEF now
  <2>3. /\ act' \in [Threads -> Act]
        /\ \A u \in Threads : Coherent(act'[u].facts) /\ HasReading(act'[u])
    BY <1>0, <2>1, <2>2, OneThread
  <2>4. QED
    BY <1>0, <1>6, <2>3, NoFactsCoherent DEF Truncate, FactsInv, TypeOK, Coherent
<1>7. CASE Fill(t)
  <2>1. act[t].facts \in Facts
    BY <1>0 DEF Act
  <2>2. file' \in Facts /\ Coherent(file') /\ written' = file'
    BY <1>0, <1>7, <2>1, NoFactsCoherent DEF Fill, Contents, Coherent
  <2>3. QED
    BY <1>0, <1>1, <1>7, <2>2 DEF Fill, Idle, TypeOK
<1>8. CASE WriteFails(t)
  BY <1>0, <1>1, <1>8, NoFactsCoherent DEF WriteFails, Idle, TypeOK
<1>9. QED
  BY <1>2, <1>3, <1>4, <1>5, <1>6, <1>7, <1>8 DEF Step

LEMMA ProbeAnswers ==
  ASSUME TypeOK, NEW response PROVE ModelServed(response) \in {served, FALSE}
BY DEF TypeOK, ModelServed, ListModels

LEMMA BaselineKeeps ==
  ASSUME FactsInv, CapacityCommand \/ ReadStored \/ ProbeServed \/ ReadForBaseline
  PROVE  FactsInv'
<1> USE DEF At
<1>0. /\ TypeOK /\ Loop \in Threads /\ act[Loop] \in Act /\ Coherent(act[Loop].facts)
      /\ file \in Facts /\ Coherent(file)
      /\ HasReading(act[Loop])
  BY DEF FactsInv, TypeOK, Threads
<1>1. ASSUME NEW now \in Act, act' = [act EXCEPT ![Loop] = now],
             Coherent(now.facts), HasReading(now),
             UNCHANGED <<file, held, served, resident, written>>,
             torn' \in BOOLEAN, misled' \in BOOLEAN
      PROVE  FactsInv'
  <2>1. /\ act' \in [Threads -> Act]
        /\ \A u \in Threads : Coherent(act'[u].facts) /\ HasReading(act'[u])
    BY <1>0, <1>1, OneThread
  <2>2. QED
    BY <1>0, <1>1, <2>1 DEF FactsInv, TypeOK, Coherent
<1>2. CASE CapacityCommand
  BY <1>0, <1>1, <1>2, DoingCoherent DEF CapacityCommand, TypeOK
<1>3. Idle \in Act /\ Coherent(Idle.facts) /\ HasReading(Idle)
  BY DoingCoherent DEF Idle
<1>4. CASE ReadStored
  <2> DEFINE now == [act[Loop] EXCEPT !.pc = "probe"]
  <2>1. now \in Act /\ now.facts = act[Loop].facts /\ HasReading(now)
    BY <1>0, <1>4 DEF ReadStored, Act, HasReading
  <2>2. act' = [act EXCEPT ![Loop] = now] \/ act' = [act EXCEPT ![Loop] = Idle]
    BY <1>4 DEF ReadStored
  <2> HIDE DEF now
  <2>3. QED
    BY <1>0, <1>1, <1>3, <1>4, <2>1, <2>2 DEF ReadStored, TypeOK
<1>5. CASE ProbeServed
  <2>1. PICK answer \in BOOLEAN :
          act' = [act EXCEPT ![Loop] = [@ EXCEPT !.pc = "read", !.served = answer]]
    BY <1>0, <1>5, ProbeAnswers DEF ProbeServed, TypeOK
  <2> DEFINE now == [act[Loop] EXCEPT !.pc = "read", !.served = answer]
  <2>2. act[Loop].free # None
    BY <1>0, <1>5 DEF ProbeServed, HasReading
  <2>3. now \in Act /\ now.facts = act[Loop].facts /\ HasReading(now)
    BY <1>0, <2>2 DEF Act, HasReading
  <2>4. act' = [act EXCEPT ![Loop] = now]
    BY <2>1
  <2> HIDE DEF now
  <2>5. QED
    BY <1>0, <1>1, <1>5, <2>2, <2>3, <2>4, ProbeAnswers DEF ProbeServed, TypeOK
<1>6. CASE ReadForBaseline
  <2> DEFINE facts == WithBaseline(file, act[Loop].free, act[Loop].served)
  <2>1. act[Loop].free \in Nat /\ act[Loop].served \in BOOLEAN
    BY <1>0, <1>6 DEF ReadForBaseline, Act, HasReading
  <2>2. CASE BaselineYields(file, act[Loop].served)
    BY <1>0, <1>1, <1>3, <1>6, <2>2 DEF ReadForBaseline, TypeOK
  <2>3. CASE ~BaselineYields(file, act[Loop].served)
    <3>1. facts \in Facts /\ Coherent(facts)
      BY <1>0, <2>1, <2>3, BaselineCoherent
    <3>2. act' = [act EXCEPT ![Loop] = [@ EXCEPT !.pc = "truncate", !.facts = facts]]
      BY <1>6, <2>3 DEF ReadForBaseline
    <3> DEFINE now == [act[Loop] EXCEPT !.pc = "truncate", !.facts = facts]
    <3> HIDE DEF facts
    <3>3. now \in Act /\ now.facts = facts /\ HasReading(now)
      BY <1>0, <3>1 DEF Act, HasReading
    <3>4. act' = [act EXCEPT ![Loop] = now]
      BY <3>2
    <3> HIDE DEF now
    <3>5. QED
      BY <1>0, <1>1, <1>6, <3>1, <3>3, <3>4 DEF ReadForBaseline, TypeOK
  <2>4. QED
    BY <2>2, <2>3
<1>7. QED
  BY <1>2, <1>4, <1>5, <1>6

LEMMA OutsideKeeps ==
  ASSUME FactsInv, WeightsGrow \/ RuntimeServes \/ RuntimeStops \/ ProcessRestart
  PROVE  FactsInv'
<1>1. CASE WeightsGrow
  <2>1. held' \in 0..Weights
    BY <1>1, FactsAssumption DEF WeightsGrow, FactsInv, TypeOK
  <2>2. QED
    BY <1>1, <2>1 DEF WeightsGrow, FactsInv, TypeOK, Coherent, HasReading, At
<1>2. CASE RuntimeServes
  BY <1>2 DEF RuntimeServes, FactsInv, TypeOK, Coherent, HasReading, At
<1>3. CASE RuntimeStops
  <2>1. held' \in 0..Weights
    BY <1>3, FactsAssumption DEF RuntimeStops
  <2>2. QED
    BY <1>3, <2>1 DEF RuntimeStops, FactsInv, TypeOK, Coherent, HasReading, At
<1>4. CASE ProcessRestart
  <2>1. \A t \in Threads : \E op \in {"none", "startup"}, pc \in {"idle", "measure"} :
          act'[t] = Doing(op, pc)
    BY <1>4 DEF ProcessRestart, Booting, Idle
  <2>2. \A t \in Threads : act'[t] \in Act /\ HasReading(act'[t]) /\ Coherent(act'[t].facts)
    BY <2>1, DoingCoherent
  <2>3. act' \in [Threads -> Act]
    BY <1>4, <2>2 DEF ProcessRestart, Booting
  <2>4. QED
    BY <1>4, <2>2, <2>3 DEF ProcessRestart, FactsInv, TypeOK, Coherent, HasReading, At
<1>5. QED
  BY <1>1, <1>2, <1>3, <1>4

-----------------------------------------------------------------------------
(* The theorems.                                                           *)

\* The invariant holds in every state.
THEOREM FactsInvariant == Spec => []FactsInv
<1>1. FactsInv /\ [Next]_vars => FactsInv'
  <2> SUFFICES ASSUME FactsInv, [Next]_vars PROVE FactsInv'
    OBVIOUS
  <2>1. CASE \E t \in Threads : Step(t)
    BY <2>1, StepKeeps
  <2>2. CASE CapacityCommand \/ ReadStored \/ ProbeServed \/ ReadForBaseline
    BY <2>2, BaselineKeeps
  <2>3. CASE WeightsGrow \/ RuntimeServes \/ RuntimeStops \/ ProcessRestart
    BY <2>3, OutsideKeeps
  <2>4. CASE UNCHANGED vars
    BY <2>4 DEF vars, FactsInv, TypeOK, Coherent, HasReading, At
  <2>5. QED
    BY <2>1, <2>2, <2>3, <2>4 DEF Next
<1>2. QED
  BY InitFactsInv, <1>1, PTL DEF Spec

\* No interleaving of writers and no crash stores a static figure beside a
\* baseline that was taken with a model served.
THEOREM StaticIsBacked == Spec => []StaticNeedsModelFree
<1>1. FactsInv => StaticNeedsModelFree
  BY DEF FactsInv, Coherent, StaticNeedsModelFree
<1>2. QED
  BY FactsInvariant, <1>1, PTL

-----------------------------------------------------------------------------
(* A model-free baseline is lost only to a torn write.                     *)

LEMMA TornStays == Next /\ torn => torn'
BY DEF Next, Step, LoadProven, Measure, CannotMeasure, ReadForLoad, Truncate, Fill, WriteFails,
       CapacityCommand, ReadStored, ProbeServed, ReadForBaseline, WeightsGrow,
       RuntimeServes, RuntimeStops, ProcessRestart

\* A step of a thread that leaves the file alone and does not write next.
LEMMA QuietStep ==
  ASSUME TypeOK, WholeWrites, NEW t \in Threads, NEW now,
         act' = [act EXCEPT ![t] = now], now.pc \notin {"truncate", "fill"}, ~At(t, "fill"),
         ~torn, UNCHANGED <<file, written>>
  PROVE  WholeWrites'
BY DEF TypeOK, WholeWrites, Writing, At

\* A writer reads the file while no other is between its reading and its
\* writing, and keeps a model-free baseline in what it means to write.
LEMMA ReadStep ==
  ASSUME TypeOK, WholeWrites, NEW t \in Threads, NEW now,
         act' = [act EXCEPT ![t] = now], now.pc = "truncate",
         file.flag = "free" => now.facts.flag = "free",
         At(t, "read"), Alone(t), ~torn, UNCHANGED <<file, written>>
  PROVE  WholeWrites'
<1> USE DEF At, Writing
<1>1. \A u \in Threads : act[u].pc \notin {"truncate", "fill"}
  BY DEF Alone
<1>2. file = written
  BY <1>1 DEF WholeWrites
<1>3. \A u \in Threads : act'[u] = IF u = t THEN now ELSE act[u]
  BY DEF TypeOK
<1>4. QED
  BY <1>1, <1>2, <1>3 DEF WholeWrites

LEMMA TruncateStep ==
  ASSUME TypeOK, WholeWrites, NEW t \in Threads, Truncate(t), ~torn
  PROVE  WholeWrites'
<1> USE DEF At, Writing
<1> DEFINE now == [act[t] EXCEPT !.pc = "fill"]
<1>1. act' = [act EXCEPT ![t] = now]
  BY DEF Truncate
<1>2. now.pc = "fill" /\ now.facts = act[t].facts
  BY DEF TypeOK, Act
<1> HIDE DEF now
<1>3. \A u \in Threads : act'[u] = IF u = t THEN now ELSE act[u]
  BY <1>1 DEF TypeOK
<1>4. \A u \in Threads : act[u].pc \in {"truncate", "fill"} => u = t
  BY DEF Truncate, WholeWrites
<1>5. written.flag = "free" => act[t].facts.flag = "free"
  BY DEF Truncate, WholeWrites
<1>6. file' = NoFacts /\ written' = written
  BY DEF Truncate
<1>7. QED
  BY <1>2, <1>3, <1>4, <1>5, <1>6 DEF WholeWrites

\* The writer is alone and the file still empty: what it fills in is what
\* it derived, and it does not lose a model-free baseline.
LEMMA FillStep ==
  ASSUME TypeOK, WholeWrites, NEW t \in Threads, Fill(t), ~torn
  PROVE  WholeWrites' /\ (written.flag = "free" => written'.flag = "free")
<1> USE DEF At, Writing
<1>1. file = NoFacts /\ (written.flag = "free" => act[t].facts.flag = "free")
  BY DEF Fill, WholeWrites
<1>2. file' = act[t].facts /\ written' = file'
  BY <1>1 DEF Fill, Contents
<1>3. \A u \in Threads : act[u].pc \in {"truncate", "fill"} => u = t
  BY DEF Fill, WholeWrites
<1>4. Idle.pc = "idle"
  BY DEF Idle, Doing
<1>5. \A u \in Threads : act'[u].pc \notin {"truncate", "fill"}
  BY <1>3, <1>4 DEF Fill, TypeOK
<1>6. QED
  BY <1>1, <1>2, <1>5 DEF WholeWrites

LEMMA StepWritesWhole ==
  ASSUME FactsInv, WholeWrites, NEW t \in Threads, Step(t), ~torn, ~torn'
  PROVE  WholeWrites' /\ (written.flag = "free" => written'.flag = "free")
<1>0. TypeOK /\ act[t] \in Act
  BY DEF FactsInv, TypeOK
<1>1. CASE LoadProven(t)
  <2>1. Doing("load", "measure").pc = "measure" /\ ~At(t, "fill")
    BY <1>1 DEF Doing, LoadProven, Ready, At
  <2>2. QED
    BY <1>0, <1>1, <2>1, QuietStep DEF LoadProven
<1>2. CASE Measure(t)
  <2> DEFINE now == [act[t] EXCEPT !.pc = AfterMeasure(act[t].op), !.free = Total - held]
  <2>1. act' = [act EXCEPT ![t] = now] /\ ~At(t, "fill")
    BY <1>2 DEF Measure, At
  <2>2. AfterMeasure(act[t].op) \in {"probe", "stored", "read"}
    BY DEF AfterMeasure
  <2>3. now.pc \notin {"truncate", "fill"}
    BY <1>0, <2>2 DEF Act
  <2> HIDE DEF now
  <2>4. QED
    BY <1>0, <1>2, <2>1, <2>3, QuietStep DEF Measure
<1>3. Idle.pc = "idle"
  BY DEF Idle, Doing
<1>4. CASE CannotMeasure(t)
  BY <1>0, <1>3, <1>4, QuietStep DEF CannotMeasure, At
<1>5. CASE ReadForLoad(t)
  <2> DEFINE now == [act[t] EXCEPT !.pc = "truncate", !.facts = WithLoaded(file, act[t].free)]
  <2>1. act' = [act EXCEPT ![t] = now] /\ Alone(t)
    BY <1>5 DEF ReadForLoad
  <2>2. WithLoaded(file, act[t].free).flag = file.flag
    BY <1>0 DEF WithLoaded, TypeOK, Facts
  <2>3. now.pc = "truncate" /\ now.facts.flag = file.flag
    BY <1>0, <2>2 DEF Act
  <2> HIDE DEF now
  <2>4. QED
    BY <1>0, <1>5, <2>1, <2>3, ReadStep DEF ReadForLoad
<1>6. CASE Truncate(t)
  BY <1>0, <1>6, TruncateStep DEF Truncate
<1>7. CASE Fill(t)
  BY <1>0, <1>7, FillStep
<1>8. CASE WriteFails(t)
  <2>1. ~At(t, "fill") /\ file' = file
    BY <1>8 DEF WriteFails
  <2>2. QED
    BY <1>0, <1>3, <1>8, <2>1, QuietStep DEF WriteFails
<1>9. QED
  BY <1>1, <1>2, <1>4, <1>5, <1>6, <1>7, <1>8 DEF Step

LEMMA BaselineWritesWhole ==
  ASSUME FactsInv, WholeWrites, ~torn, ~torn',
         CapacityCommand \/ ReadStored \/ ProbeServed \/ ReadForBaseline
  PROVE  WholeWrites' /\ written' = written
<1>0. TypeOK /\ Loop \in Threads /\ act[Loop] \in Act
  BY DEF FactsInv, TypeOK, Threads
<1>1. Idle.pc = "idle" /\ Doing("capacity", "measure").pc = "measure"
  BY DEF Idle, Doing
<1>2. CASE CapacityCommand
  BY <1>0, <1>1, <1>2, QuietStep DEF CapacityCommand, Ready, At
<1>3. CASE ReadStored
  <2> DEFINE now == [act[Loop] EXCEPT !.pc = "probe"]
  <2>1. act' = [act EXCEPT ![Loop] = now] \/ act' = [act EXCEPT ![Loop] = Idle]
    BY <1>3 DEF ReadStored
  <2>2. now.pc = "probe"
    BY <1>0 DEF Act
  <2> HIDE DEF now
  <2>3. QED
    BY <1>0, <1>1, <1>3, <2>1, <2>2, QuietStep DEF ReadStored, At
<1>4. CASE ProbeServed
  <2>1. PICK answer : act' = [act EXCEPT ![Loop] = [@ EXCEPT !.pc = "read", !.served = answer]]
    BY <1>4 DEF ProbeServed
  <2> DEFINE now == [act[Loop] EXCEPT !.pc = "read", !.served = answer]
  <2>2. act' = [act EXCEPT ![Loop] = now]
    BY <2>1
  <2>3. now.pc = "read"
    BY <1>0 DEF Act
  <2> HIDE DEF now
  <2>4. QED
    BY <1>0, <1>4, <2>2, <2>3, QuietStep DEF ProbeServed, At
<1>5. CASE ReadForBaseline
  <2>1. CASE BaselineYields(file, act[Loop].served)
    BY <1>0, <1>1, <1>5, <2>1, QuietStep DEF ReadForBaseline, At
  <2>2. CASE ~BaselineYields(file, act[Loop].served)
    <3> DEFINE facts == WithBaseline(file, act[Loop].free, act[Loop].served)
               now == [act[Loop] EXCEPT !.pc = "truncate", !.facts = facts]
    <3>1. act' = [act EXCEPT ![Loop] = now] /\ Alone(Loop)
      BY <1>5, <2>2 DEF ReadForBaseline
    <3>2. file.flag = "free" => facts.flag = "free"
      BY <1>0, <2>2 DEF BaselineYields, WithBaseline, TypeOK, Facts
    <3> HIDE DEF facts
    <3>3. now.pc = "truncate" /\ now.facts = facts
      BY <1>0 DEF Act
    <3> HIDE DEF now
    <3>4. QED
      BY <1>0, <1>5, <3>1, <3>2, <3>3, ReadStep DEF ReadForBaseline
  <2>3. QED
    BY <2>1, <2>2
<1>6. QED
  BY <1>2, <1>3, <1>4, <1>5

LEMMA OutsideWritesWhole ==
  ASSUME FactsInv, WholeWrites, ~torn, ~torn',
         WeightsGrow \/ RuntimeServes \/ RuntimeStops \/ ProcessRestart
  PROVE  WholeWrites' /\ written' = written
<1>1. CASE WeightsGrow \/ RuntimeServes \/ RuntimeStops
  BY <1>1 DEF WeightsGrow, RuntimeServes, RuntimeStops, WholeWrites, Writing, At
<1>2. CASE ProcessRestart
  <2>1. \A t \in Threads : ~At(t, "fill")
    BY <1>2 DEF ProcessRestart
  <2>2. file = written
    BY <2>1 DEF WholeWrites
  <2>3. \A t \in Threads : act'[t].pc \in {"measure", "idle"}
    BY <1>2 DEF ProcessRestart, Booting, Idle, Doing
  <2>4. QED
    BY <1>2, <2>2, <2>3 DEF ProcessRestart, WholeWrites, Writing, At
<1>3. QED
  BY <1>1, <1>2

LEMMA NextWritesWhole ==
  ASSUME FactsInv, WholeWrites, [Next]_vars
  PROVE  /\ WholeWrites'
         /\ ~torn' /\ written.flag = "free" => written'.flag = "free"
<1>1. CASE UNCHANGED vars
  BY <1>1 DEF vars, WholeWrites, Writing, At
<1>2. CASE Next /\ torn'
  BY <1>2 DEF WholeWrites
<1>3. CASE Next /\ ~torn'
  <2>1. ~torn
    BY <1>3, TornStays
  <2>2. QED
    BY <1>3, <2>1, StepWritesWhole, BaselineWritesWhole, OutsideWritesWhole DEF Next
<1>4. QED
  BY <1>1, <1>2, <1>3

\* For any number of writers and restarts, a model-free baseline is lost
\* only once writers have overlapped or one has stopped half-way.
THEOREM BaselineLostOnlyWhenTorn == Spec => LostOnlyWhenTorn
<1>1. Init => WholeWrites
  <2>1. Init => \A t \in Threads : act[t].pc \in {"measure", "idle"}
    BY DEF Init, Booting, Idle, Doing
  <2>2. QED
    BY <2>1 DEF Init, WholeWrites, Writing, At
<1>2. FactsInv /\ WholeWrites /\ [Next]_vars => WholeWrites'
  BY NextWritesWhole
<1>3. FactsInv /\ WholeWrites /\ [Next]_vars
        => [~torn' /\ written.flag = "free" => written'.flag = "free"]_vars
  BY NextWritesWhole
<1>4. QED
  BY FactsInvariant, <1>1, <1>2, <1>3, PTL DEF Spec, LostOnlyWhenTorn

-----------------------------------------------------------------------------
(* Where a model-free baseline comes from.                                 *)

LEMMA MisledStays == [Next]_vars /\ misled => misled'
BY DEF vars, Next, Step, LoadProven, Measure, CannotMeasure, ReadForLoad, Truncate, Fill,
       WriteFails, CapacityCommand, ReadStored, ProbeServed, ReadForBaseline, WeightsGrow,
       RuntimeServes, RuntimeStops, ProcessRestart

\* A step of a thread keeps BareInv if what the thread now holds does.
LEMMA BareThread ==
  ASSUME TypeOK, BareInv, ~misled, NEW t \in Threads, NEW now,
         act' = [act EXCEPT ![t] = now], Bare(now.facts), Bare(file'), served' = served,
         t = Loop =>
           /\ now.pc # "idle" => now.op # "none"
           /\ now.pc \in {"stored", "probe"} /\ now.free # Total => served
           /\ now.pc = "read" /\ now.op \in {"startup", "capacity"} /\ now.free # Total
                => now.served
  PROVE  BareInv'
<1>1. Loop \in Threads /\ \A u \in Threads : act'[u] = IF u = t THEN now ELSE act[u]
  BY DEF TypeOK, Threads
<1>2. CASE t = Loop
  BY <1>1, <1>2 DEF BareInv, Bare, At, Baselines
<1>3. CASE t # Loop
  BY <1>1, <1>3 DEF BareInv, Bare, At, Baselines
<1>4. QED
  BY <1>2, <1>3

LEMMA StepBare ==
  ASSUME FactsInv, BareInv, ~misled, ~misled', NEW t \in Threads, Step(t)
  PROVE  BareInv'
<1>0. /\ TypeOK /\ act[t] \in Act /\ file \in Facts
      /\ Bare(file) /\ Bare(act[t].facts) /\ Bare(NoFacts)
  BY DEF FactsInv, TypeOK, BareInv, Bare, NoFacts
<1>op. t = Loop /\ act[t].pc # "idle" => act[t].op # "none"
  BY DEF BareInv, At
<1>1. ASSUME NEW op, NEW pc \in {"idle", "measure"}, pc # "idle" => op # "none",
             act' = [act EXCEPT ![t] = Doing(op, pc)], Bare(file'), served' = served
      PROVE  BareInv'
  <2>1. /\ Bare(Doing(op, pc).facts)
        /\ Doing(op, pc).pc \notin {"stored", "probe", "read"}
        /\ Doing(op, pc).pc # "idle" => Doing(op, pc).op # "none"
    BY <1>0, <1>1 DEF Doing
  <2>2. QED
    BY <1>0, <1>1, <2>1, BareThread
<1>2. CASE LoadProven(t)
  BY <1>0, <1>1, <1>2 DEF LoadProven
<1>3. CASE Measure(t)
  <2> DEFINE now == [act[t] EXCEPT !.pc = AfterMeasure(act[t].op), !.free = Total - held]
  <2>1. act' = [act EXCEPT ![t] = now]
    BY <1>3 DEF Measure
  <2>2. Baselines(t) /\ ~served => now.free = Total
    <3>1. ~(Baselines(t) /\ held > 0 /\ ~served)
      BY <1>3 DEF Measure
    <3>2. held \in Nat /\ Total \in Nat /\ now.free = Total - held
      BY <1>0, FactsAssumption DEF TypeOK, Act
    <3>3. QED
      BY <3>1, <3>2
  <2>3. /\ now.facts = act[t].facts /\ now.pc = AfterMeasure(act[t].op)
        /\ now.op = act[t].op
    BY <1>0 DEF Act
  <2>4. /\ now.pc \in {"stored", "probe"} => Baselines(t)
        /\ now.pc = "read" => ~Baselines(t)
    BY <1>0, <2>3 DEF AfterMeasure, Baselines, Act, Measure, At
  <2> HIDE DEF now
  <2>5. QED
    BY <1>0, <1>op, <1>3, <2>1, <2>2, <2>3, <2>4, BareThread DEF Measure, Baselines, At
<1>4. CASE CannotMeasure(t)
  BY <1>0, <1>1, <1>4 DEF CannotMeasure, Idle
<1>5. CASE ReadForLoad(t)
  <2> DEFINE now == [act[t] EXCEPT !.pc = "truncate", !.facts = WithLoaded(file, act[t].free)]
  <2>1. act' = [act EXCEPT ![t] = now]
    BY <1>5 DEF ReadForLoad
  <2>2. Bare(WithLoaded(file, act[t].free))
    BY <1>0 DEF WithLoaded, Bare, Facts
  <2>3. now.pc = "truncate" /\ Bare(now.facts) /\ now.op = "load"
    BY <1>0, <1>5, <2>2 DEF Act, ReadForLoad
  <2> HIDE DEF now
  <2>4. QED
    BY <1>0, <1>5, <2>1, <2>3, BareThread DEF ReadForLoad
<1>6. CASE Truncate(t)
  <2> DEFINE now == [act[t] EXCEPT !.pc = "fill"]
  <2>1. /\ act' = [act EXCEPT ![t] = now] /\ now.pc = "fill" /\ now.facts = act[t].facts
        /\ t = Loop => now.op # "none"
    BY <1>0, <1>op, <1>6 DEF Truncate, Act, At
  <2> HIDE DEF now
  <2>2. QED
    BY <1>0, <1>6, <2>1, BareThread DEF Truncate
<1>7. CASE Fill(t)
  <2>1. Bare(file')
    BY <1>0, <1>7 DEF Fill, Contents
  <2>2. QED
    BY <1>0, <1>1, <1>7, <2>1 DEF Fill, Idle
<1>8. CASE WriteFails(t)
  <2>1. Bare(file')
    BY <1>0, <1>8 DEF WriteFails
  <2>2. QED
    BY <1>0, <1>1, <1>8, <2>1 DEF WriteFails, Idle
<1>9. QED
  BY <1>2, <1>3, <1>4, <1>5, <1>6, <1>7, <1>8 DEF Step

LEMMA BaselineBare ==
  ASSUME FactsInv, BareInv, ~misled, ~misled',
         CapacityCommand \/ ReadStored \/ ProbeServed \/ ReadForBaseline
  PROVE  BareInv'
<1>0. /\ TypeOK /\ Loop \in Threads /\ act[Loop] \in Act /\ file \in Facts
      /\ Bare(file) /\ Bare(act[Loop].facts) /\ Bare(NoFacts)
  BY DEF FactsInv, TypeOK, BareInv, Bare, NoFacts, Threads
<1>op. act[Loop].pc # "idle" => act[Loop].op # "none"
  BY DEF BareInv, At
<1>1. /\ Idle.pc = "idle" /\ Bare(Idle.facts)
      /\ Doing("capacity", "measure").pc = "measure"
      /\ Doing("capacity", "measure").op = "capacity"
      /\ Bare(Doing("capacity", "measure").facts)
  BY <1>0 DEF Idle, Doing
<1>2. CASE CapacityCommand
  BY <1>0, <1>1, <1>2, BareThread DEF CapacityCommand
<1>3. CASE ReadStored
  <2> DEFINE now == [act[Loop] EXCEPT !.pc = "probe"]
  <2>1. act' = [act EXCEPT ![Loop] = now] \/ act' = [act EXCEPT ![Loop] = Idle]
    BY <1>3 DEF ReadStored
  <2>2. /\ now.pc = "probe" /\ now.facts = act[Loop].facts /\ now.free = act[Loop].free
        /\ now.op # "none"
    BY <1>0, <1>op, <1>3 DEF Act, ReadStored, At
  <2> HIDE DEF now
  <2>3. now.free # Total => served
    BY <1>3, <2>2 DEF ReadStored, BareInv
  <2>4. QED
    BY <1>0, <1>1, <1>3, <2>1, <2>2, <2>3, BareThread DEF ReadStored
<1>4. CASE ProbeServed
  <2> DEFINE now == [act[Loop] EXCEPT !.pc = "read", !.served = served]
  <2>1. act' = [act EXCEPT ![Loop] = now]
    BY <1>0, <1>4, ProbeAnswers DEF ProbeServed, TypeOK
  <2>2. /\ now.pc = "read" /\ now.served = served
        /\ now.facts = act[Loop].facts /\ now.free = act[Loop].free
        /\ now.op # "none"
    BY <1>0, <1>op, <1>4 DEF Act, TypeOK, ProbeServed, At
  <2> HIDE DEF now
  <2>3. now.free # Total => now.served
    BY <1>4, <2>2 DEF ProbeServed, BareInv
  <2>4. QED
    BY <1>0, <1>4, <2>1, <2>2, <2>3, BareThread DEF ProbeServed
<1>5. CASE ReadForBaseline
  <2> DEFINE facts == WithBaseline(file, act[Loop].free, act[Loop].served)
             now == [act[Loop] EXCEPT !.pc = "truncate", !.facts = facts]
  <2>1. act' = [act EXCEPT ![Loop] = now] \/ act' = [act EXCEPT ![Loop] = Idle]
    BY <1>5 DEF ReadForBaseline
  <2>2. act[Loop].free # Total => act[Loop].served
    <3>1. At(Loop, "read") /\ Baselines(Loop)
      BY <1>0, <1>5 DEF ReadForBaseline, Baselines, Act, BareInv, At
    <3>2. QED
      BY <3>1 DEF BareInv
  <2>3. Bare(facts)
    BY <1>0, <2>2 DEF WithBaseline, Bare, Facts
  <2> HIDE DEF facts
  <2>4. now.pc = "truncate" /\ now.facts = facts /\ now.op # "none"
    BY <1>0, <1>op, <1>5 DEF Act, ReadForBaseline, At
  <2> HIDE DEF now
  <2>5. QED
    BY <1>0, <1>1, <1>5, <2>1, <2>3, <2>4, BareThread DEF ReadForBaseline
<1>6. QED
  BY <1>2, <1>3, <1>4, <1>5

LEMMA OutsideBare ==
  ASSUME FactsInv, BareInv, ~misled, ~misled',
         WeightsGrow \/ RuntimeServes \/ RuntimeStops \/ ProcessRestart
  PROVE  BareInv'
<1>1. CASE WeightsGrow \/ RuntimeServes \/ RuntimeStops
  BY <1>1 DEF WeightsGrow, RuntimeServes, RuntimeStops, BareInv, Bare, At, Baselines
<1>2. CASE ProcessRestart
  <2>1. \A t \in Threads : /\ act'[t].pc \in {"measure", "idle"} /\ Bare(act'[t].facts)
                           /\ t = Loop => act'[t].op = "startup"
    BY <1>2 DEF ProcessRestart, Booting, Idle, Doing, Bare, NoFacts
  <2>2. Loop \in Threads
    BY DEF Threads
  <2>3. act'[Loop].pc \in {"measure", "idle"} /\ act'[Loop].op # "none"
    BY <2>1, <2>2
  <2>4. Bare(file')
    BY <1>2 DEF ProcessRestart, BareInv
  <2>5. QED
    BY <2>1, <2>3, <2>4 DEF BareInv, At, Bare
<1>3. QED
  BY <1>1, <1>2

\* For any number of writers, restarts and torn writes, a baseline stored as
\* model-free is the bare card's unless a reading was misled in one of the
\* three ways the model names.
THEOREM FreeBaselinesAreBare == Spec => []FreeBaselineIsBare
<1>1. Init => BareInv
  <2>1. Init => \A t \in Threads : /\ act[t].pc \in {"measure", "idle"} /\ Bare(act[t].facts)
                                   /\ t = Loop => act[t].op = "startup"
    BY DEF Init, Booting, Idle, Doing, Bare, NoFacts
  <2>2. Init => act[Loop].pc \in {"measure", "idle"} /\ act[Loop].op # "none"
    BY <2>1 DEF Threads
  <2>3. Init => Bare(file)
    BY DEF Init, Bare, NoFacts
  <2>4. QED
    BY <2>1, <2>2, <2>3 DEF BareInv, At
<1>2. FactsInv /\ BareInv /\ [Next]_vars => BareInv'
  <2> SUFFICES ASSUME FactsInv, BareInv, [Next]_vars PROVE BareInv'
    OBVIOUS
  <2>1. CASE misled'
    BY <2>1 DEF BareInv
  <2>2. CASE ~misled' /\ UNCHANGED vars
    BY <2>2 DEF vars, BareInv, Bare, At, Baselines
  <2>3. CASE ~misled' /\ Next
    <3>1. ~misled
      BY <2>3, MisledStays
    <3>2. QED
      BY <2>3, <3>1, StepBare, BaselineBare, OutsideBare DEF Next
  <2>4. QED
    BY <2>1, <2>2, <2>3
<1>3. BareInv => FreeBaselineIsBare
  BY DEF BareInv, Bare, FreeBaselineIsBare
<1>4. QED
  BY FactsInvariant, <1>1, <1>2, <1>3, PTL DEF Spec
=============================================================================
