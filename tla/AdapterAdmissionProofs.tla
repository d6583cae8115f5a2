----------------------- MODULE AdapterAdmissionProofs -----------------------
(***************************************************************************)
(* What holds of AdapterAdmission for every card, every reserve, every     *)
(* request and every interleaving with the job workers.                    *)
(***************************************************************************)
EXTENDS AdapterAdmission, TLAPS

-----------------------------------------------------------------------------
(* The arithmetic.                                                         *)

\* A clamped difference is a natural number.
LEMMA ClampType ==
  ASSUME NEW x \in Int
  PROVE  Clamp(x) \in Nat
BY DEF Clamp

\* The pool of a card is a natural number, measured or not.
LEMMA PoolType ==
  ASSUME NEW free \in Readings
  PROVE  Pool(free) \in Nat
<1>1. CASE free = Unmeasured
  BY <1>1 DEF Pool
<1>2. CASE free # Unmeasured
  <2>1. free \in Nat
    BY <1>2, AdapterAssumption DEF Readings
  <2>2. free - SafetyMargin - RuntimeReserve \in Int
    BY <2>1, AdapterAssumption
  <2>3. QED
    BY <1>2, <2>2, ClampType DEF Pool, MaxDynamicPool
<1>3. QED
  BY <1>1, <1>2

\* An empty queue reserves nothing.
LEMMA EmptyReservesNothing == ReservedBytes(<< >>) = 0
<1> DEFINE S == 0..Len(<< >>)
           Value(sum) == [i \in S |-> IF i = 0 THEN 0
                                      ELSE sum[i - 1] + << >>[i].required]
           zero == [i \in S |-> 0]
           fixed == CHOOSE sum : sum = Value(sum)
<1>1. S = {0} /\ Len(<< >>) = 0
  OBVIOUS
<1>2. zero = Value(zero)
  BY <1>1
<1>3. fixed = Value(fixed)
  BY <1>2
<1>4. fixed[0] = 0
  BY <1>1, <1>3
<1>5. QED
  BY <1>1, <1>4 DEF ReservedBytes

\* Cancelling in an empty queue leaves it empty.
LEMMA CancelNothing ==
  ASSUME NEW id
  PROVE  CancelEntry(<< >>, id) = << >>
<1> DEFINE S == 0..Len(<< >>)
           Value(kept) == [i \in S |-> IF i = 0 THEN << >>
                                       ELSE IF << >>[i].id = id THEN kept[i - 1]
                                       ELSE Append(kept[i - 1], << >>[i])]
           none == [i \in S |-> << >>]
           fixed == CHOOSE kept : kept = Value(kept)
<1>1. S = {0} /\ Len(<< >>) = 0
  OBVIOUS
<1>2. none = Value(none)
  BY <1>1
<1>3. fixed = Value(fixed)
  BY <1>2
<1>4. fixed[0] = << >>
  BY <1>1, <1>3
<1>5. QED
  BY <1>1, <1>4 DEF CancelEntry

\* With nothing reserved the usable VRAM is the whole pool.
LEMMA EmptyQueueFreesThePool ==
  ASSUME NEW free \in Readings
  PROVE  Usable(free, << >>) = Pool(free)
BY PoolType, EmptyReservesNothing DEF Usable, UsableDynamicVram, Clamp

\* Where both pools agree the verdict is never to queue.
LEMMA EqualPoolsNeverQueue ==
  ASSUME NEW tokens, NEW required, NEW pool
  PROVE  Decision(Decide(tokens, Window, required, pool, pool)) # "queue"
BY DEF Decision, Decide

-----------------------------------------------------------------------------
(* The inductive invariant, one lemma per kind of step.                    *)

LEMMA InitQueueInv == Init => QueueInv
<1> SUFFICES ASSUME Init PROVE QueueInv
  OBVIOUS
<1>1. ChatTypeOK
  BY AdmissionAssumption DEF Init, ChatInit, ChatTypeOK, NoneServed, Request, Outcomes
<1>2. TypeOK
  BY <1>1 DEF Init, TypeOK, NotRead, Reading, Readings, Seen, NothingSeen
<1>3. PoolsAgree /\ RawIsEstimate
  BY DEF Init, ChatInit, PoolsAgree, RawIsEstimate, Deciding, NoneServed, NotRead
<1>4. QED
  BY <1>2, <1>3 DEF QueueInv, QueueAlwaysEmpty, Init, ChatInit

\* Steps of the handler other than queueing keep the queue, the types and,
\* past the decision, the agreement of the pools.
LEMMA HandleKeeps ==
  ASSUME NEW at \in Times, QueueInv, Handle(at), seen' \in Seen
  PROVE  QueueInv'
<1> USE DEF QueueInv, TypeOK, ChatTypeOK, QueueAlwaysEmpty, PoolsAgree, RawIsEstimate, Deciding, adapterVars
<1>1. req \in Request /\ queue = << >> /\ queue \in Seq(Entry)
  OBVIOUS
<1>2. gpu' = gpu /\ storedFree' = storedFree /\ sized' = sized /\ reading' = reading
  BY DEF Handle
<1>3. CASE Estimate
  BY <1>1, <1>2, <1>3 DEF Estimate, Reply, Request, Outcomes
<1>4. CASE ChatReject
  BY <1>1, <1>2, <1>4 DEF ChatReject, Reply, Request, Outcomes
<1>5. CASE ChatExecute
  BY <1>1, <1>2, <1>5 DEF ChatExecute, Request, Outcomes
<1>6. CASE RuntimeReturns
  BY <1>1, <1>2, <1>6 DEF RuntimeReturns, Execute, Reply, Request, Outcomes
<1>7. CASE Deliver
  <2>1. NoneServed \in Request /\ NoneServed.pc = "idle"
    BY DEF NoneServed, Request, Outcomes
  <2>2. QED
    BY <1>1, <1>2, <1>7, <2>1 DEF Deliver
<1>8. CASE \E priority \in Priorities : ChatQueue(at, priority)
  <2>1. req.usable = req.pool /\ Verdict = "queue"
    BY <1>8 DEF ChatQueue, Deciding
  <2>2. FALSE
    BY <2>1, EqualPoolsNeverQueue DEF Verdict
  <2>3. QED
    BY <2>2
<1>9. QED
  BY <1>3, <1>4, <1>5, <1>6, <1>7, <1>8 DEF Handle, HandlerStep

\* Taking up a request, or answering that its model cannot be sized.
LEMMA CommandKeeps ==
  ASSUME QueueInv, Command, seen' \in Seen
  PROVE  QueueInv'
<1> USE DEF QueueInv, TypeOK, ChatTypeOK, QueueAlwaysEmpty, PoolsAgree, RawIsEstimate, Deciding, adapterVars
<1>1. PICK id \in Requests :
        \/ CancelCommand(id)
        \/ \E op \in {"chat", "estimate"}, m \in Models :
             \/ RefuseUnsized(op, id, m)
             \/ \E tokens \in TokenCounts : Accept(op, id, m, tokens)
        \/ \E m \in Models, tokens \in TokenCounts : RawEstimate(id, m, tokens)
  BY DEF Command
<1>2. CASE CancelCommand(id)
  BY <1>2, CancelNothing DEF CancelCommand, Cancel
<1>3. ASSUME NEW op \in {"chat", "estimate"}, NEW m \in Models, RefuseUnsized(op, id, m)
      PROVE  QueueInv'
  <2>1. req' \in Request /\ req'.pc = "reply"
    BY <1>3 DEF RefuseUnsized, Refuse, NoneServed, Request, Outcomes
  <2>2. QED
    BY <1>3, <2>1 DEF RefuseUnsized, Refuse
<1>4. ASSUME NEW op \in {"chat", "estimate"}, NEW m \in Models,
             NEW tokens \in TokenCounts, Accept(op, id, m, tokens)
      PROVE  QueueInv'
  <2>1. req' \in Request /\ req'.pc = "capacity"
    BY <1>4, AdmissionAssumption
    DEF Accept, Arrive, NoneServed, Request, Outcomes
  <2>2. QED
    BY <1>4, <2>1 DEF Accept, Arrive
<1>5. ASSUME NEW m \in Models, NEW tokens \in TokenCounts, RawEstimate(id, m, tokens)
      PROVE  QueueInv'
  <2>1. req' \in Request /\ req'.pc = "capacity" /\ req'.op = "estimate"
    BY <1>5, AdmissionAssumption
    DEF RawEstimate, Arrive, NoneServed, Request, Outcomes
  <2>2. reading' \in Reading
    BY <1>5 DEF RawEstimate, NotRead, Reading, Readings
  <2>3. QED
    BY <1>5, <2>1, <2>2 DEF RawEstimate, Arrive
<1>6. QED
  BY <1>1, <1>2, <1>3, <1>4, <1>5

\* The capacity snapshot derives both pools from one free figure.
LEMMA DerivePoolsKeeps ==
  ASSUME QueueInv, DerivePools, seen' \in Seen
  PROVE  QueueInv'
<1> USE DEF QueueInv, TypeOK, ChatTypeOK, QueueAlwaysEmpty, PoolsAgree, RawIsEstimate, Deciding
<1> DEFINE free == FreeFigure(reading.free, storedFree)
<1>1. free \in Readings
  BY DEF FreeFigure, Reading
<1>2. Pool(free) \in Nat /\ Usable(free, queue) = Pool(free)
  BY <1>1, PoolType, EmptyQueueFreesThePool
<1>3. TakeCapacity(Pool(free), Usable(free, queue))
  BY DEF DerivePools
<1>4. req' = [req EXCEPT !.pc = "decide", !.pool = Pool(free), !.usable = Usable(free, queue)]
  BY <1>3 DEF TakeCapacity
<1> HIDE DEF free
<1>5. req' \in Request /\ req'.usable = req'.pool
  BY <1>2, <1>4 DEF Request
<1>6. reading' \in Reading /\ ~reading'.raw
  BY DEF DerivePools, NotRead, Reading, Readings
<1>7. QED
  BY <1>3, <1>5, <1>6 DEF DerivePools, TakeCapacity

\* An estimate takes the figures its caller supplied.
LEMMA SuppliedKeeps ==
  ASSUME QueueInv, NEW pool \in Figures, NEW usable \in Figures,
         TakeSupplied(pool, usable), seen' \in Seen
  PROVE  QueueInv'
<1> USE DEF QueueInv, TypeOK, ChatTypeOK, QueueAlwaysEmpty, PoolsAgree, RawIsEstimate, Deciding
<1>1. req' = [req EXCEPT !.pc = "decide", !.pool = pool, !.usable = usable]
  BY DEF TakeSupplied, TakeCapacity
<1>2. req' \in Request /\ req'.op = "estimate"
  BY <1>1, AdmissionAssumption DEF TakeSupplied, Request
<1>3. reading' \in Reading /\ ~reading'.raw
  BY DEF TakeSupplied, NotRead, Reading, Readings
<1>4. QED
  BY <1>2, <1>3 DEF TakeSupplied, TakeCapacity

\* Readings of the card, records of a load, changes of the disk cache and
\* switches move nothing that the verdict was computed from.
LEMMA BesideKeeps ==
  ASSUME QueueInv, Beside \/ Measure, seen' \in Seen
  PROVE  QueueInv'
<1> USE DEF QueueInv, TypeOK, ChatTypeOK, QueueAlwaysEmpty, PoolsAgree, RawIsEstimate, Deciding, chatVars
<1>1. CASE Measure
  BY <1>1 DEF Measure, Reading
<1>2. CASE GpuChanges
  BY <1>2 DEF GpuChanges
<1>3. CASE LoadRecorded
  BY <1>3 DEF LoadRecorded, Readings
<1>4. CASE CacheChanges
  BY <1>4 DEF CacheChanges
<1>5. ASSUME NEW m \in Models, SwitchBeside(m)
      PROVE  QueueInv'
  <2>1. switching' \in SUBSET Models
    BY <1>5 DEF SwitchBeside, SwitchMoves
  <2>2. QED
    BY <1>5, <2>1 DEF SwitchBeside, SwitchMoves, adapterVars
<1>6. QED
  BY <1>1, <1>2, <1>3, <1>4, <1>5 DEF Beside

\* A step that changes nothing.
LEMMA StutterKeeps ==
  ASSUME QueueInv, UNCHANGED vars
  PROVE  QueueInv'
BY DEF QueueInv, TypeOK, ChatTypeOK, QueueAlwaysEmpty, PoolsAgree, RawIsEstimate, Deciding,
       vars, chatVars, adapterVars

\* The history only ever has readings in it, and all that a pending request
\* has met.
LEMMA HistoryGrows ==
  ASSUME TypeOK, Next
  PROVE  /\ seen' \in Seen
         /\ Pending' => /\ seen.gpu \cup {gpu'} \subseteq seen'.gpu
                        /\ seen.stored \cup {storedFree'} \subseteq seen'.stored
<1>1. gpu' \in Readings /\ storedFree' \in Readings
  <2> USE DEF TypeOK, adapterVars
  <2>1. CASE Command
    BY <2>1 DEF Command, CancelCommand, RawEstimate, RefuseUnsized, Accept
  <2>2. CASE Serve
    BY <2>2 DEF Serve, Measure, DerivePools, TakeSupplied, Handle
  <2>3. CASE Beside
    BY <2>3 DEF Beside, GpuChanges, LoadRecorded, CacheChanges, SwitchBeside, Readings
  <2>4. QED
    BY <2>1, <2>2, <2>3 DEF Next
<1>2. seen.gpu \subseteq Readings /\ seen.stored \subseteq Readings
  BY DEF TypeOK, Seen
<1>3. Observe
  BY DEF Next
<1>4. CASE Pending'
  BY <1>1, <1>2, <1>3, <1>4 DEF Observe, Seen
<1>5. CASE ~Pending'
  BY <1>3, <1>5 DEF Observe, Seen, NothingSeen
<1>6. QED
  BY <1>4, <1>5

-----------------------------------------------------------------------------
(* What a chat is admitted by.                                             *)

\* The figure a chat is admitted by, from the card and the file to the
\* verdict.
AdmittedInv ==
  /\ Pending => gpu \in seen.gpu /\ storedFree \in seen.stored
  /\ reading.done => req.pc = "capacity" /\ reading.free \in seen.gpu
  /\ Deciding("chat") =>
       \E free \in seen.gpu, stored \in seen.stored :
         req.pool = Pool(FreeFigure(free, stored))
  /\ AdmittedFits

\* What fits a pool fits the figure the pool derives from.
LEMMA FittingThePool ==
  ASSUME NEW figure \in Readings, NEW required \in Nat, required > 0,
         required <= Pool(figure)
  PROVE  figure # Unmeasured /\ required + SafetyMargin + RuntimeReserve <= figure
<1>1. figure # Unmeasured
  BY DEF Pool
<1>2. figure \in Nat
  BY <1>1, AdapterAssumption DEF Readings
<1>3. QED
  BY <1>1, <1>2, AdapterAssumption DEF Pool, MaxDynamicPool, Clamp

\* What is executed fits the pool.
LEMMA ExecutedFits ==
  ASSUME NEW tokens, NEW required \in Nat, NEW pool \in Nat, NEW usable \in Nat,
         Decision(Decide(tokens, Window, required, pool, usable)) = "execute"
  PROVE  required <= pool
BY DEF Decision, Decide

LEMMA BytesType ==
  ASSUME NEW tokens \in Nat
  PROVE  Bytes(tokens) \in Nat
<1>1. tokens * KvBytes \in Nat
  BY AdmissionAssumption
<1>2. QED
  BY <1>1, AdmissionAssumption DEF Bytes, DynamicVramRequirement

\* Taking a request up, or refusing it.
LEMMA CommandAdmits ==
  ASSUME QueueInv, AdmittedInv, Command, Next
  PROVE  AdmittedInv'
<1>1. req.pc = "idle" /\ req'.pc \in {"idle", "reply", "capacity"}
  BY DEF Command, CancelCommand, Cancel, RawEstimate, RefuseUnsized, Refuse, Accept,
         Arrive, NoneServed
<1>2. ~reading'.done
  <2>1. ~reading.done
    BY <1>1 DEF AdmittedInv
  <2>2. QED
    BY <2>1 DEF Command, CancelCommand, RawEstimate, RefuseUnsized, Accept, adapterVars, NotRead
<1>3. Pending' => gpu' \in seen'.gpu /\ storedFree' \in seen'.stored
  BY HistoryGrows DEF QueueInv
<1>4. QED
  BY <1>1, <1>2, <1>3 DEF AdmittedInv, AdmittedFits, Deciding

\* The handler: only an execution matters.
LEMMA HandleAdmits ==
  ASSUME NEW at \in Times, QueueInv, AdmittedInv, Handle(at), Next
  PROVE  AdmittedInv'
<1>1. reading' = reading /\ ~reading'.done
  BY DEF Handle, HandlerStep, adapterVars, AdmittedInv, Estimate, ChatReject, ChatExecute,
         RuntimeReturns, Deliver, ChatQueue, Deciding
<1>2. Pending' => gpu' \in seen'.gpu /\ storedFree' \in seen'.stored
  BY HistoryGrows DEF QueueInv
<1>3. req \in Request
  BY DEF QueueInv, TypeOK, ChatTypeOK
<1>4. CASE ChatExecute
  <2>1. /\ Deciding("chat") /\ Verdict = "execute"
        /\ req'.pc = "runtime" /\ req'.tokens = req.tokens
    BY <1>3, <1>4 DEF ChatExecute, Request
  <2>2. PICK free \in seen.gpu, stored \in seen.stored :
          req.pool = Pool(FreeFigure(free, stored))
    BY <2>1 DEF AdmittedInv
  <2>3. Bytes(req.tokens) \in Nat /\ Bytes(req.tokens) <= req.pool
    BY <1>3, <2>1, BytesType, ExecutedFits DEF Verdict, Request
  <2>4. FreeFigure(free, stored) \in Readings
    BY DEF FreeFigure, QueueInv, TypeOK, Seen
  <2>5. Bytes(req.tokens) > 0 =>
          /\ FreeFigure(free, stored) # Unmeasured
          /\ Bytes(req.tokens) + SafetyMargin + RuntimeReserve <= FreeFigure(free, stored)
    BY <2>2, <2>3, <2>4, FittingThePool
  <2>6. free \in seen'.gpu /\ stored \in seen'.stored
    BY <2>1, HistoryGrows DEF QueueInv, Pending
  <2>7. AdmittedFits'
    BY <2>1, <2>5, <2>6 DEF AdmittedFits, Bytes
  <2>8. QED
    BY <1>1, <1>2, <2>1, <2>7 DEF AdmittedInv, Deciding
<1>5. CASE ~ChatExecute
  <2>0. ASSUME NEW outcome, Reply(outcome)
        PROVE  req'.pc = "reply"
    BY <1>3, <2>0 DEF Reply, Request
  <2>1. req'.pc \in {"reply", "idle"}
    <3>1. CASE \/ Estimate \/ ChatReject \/ RuntimeReturns
               \/ \E priority \in Priorities : ChatQueue(at, priority)
      BY <2>0, <3>1 DEF Estimate, ChatReject, RuntimeReturns, ChatQueue
    <3>2. CASE Deliver
      BY <3>2 DEF Deliver, NoneServed
    <3>3. QED
      BY <1>5, <3>1, <3>2 DEF Handle, HandlerStep
  <2>2. QED
    BY <1>1, <1>2, <2>1 DEF AdmittedInv, AdmittedFits, Deciding
<1>6. QED
  BY <1>4, <1>5

\* Measuring, deriving the pools, taking the figures of an estimate.
LEMMA FiguresAdmit ==
  ASSUME QueueInv, AdmittedInv, Next,
         Measure \/ DerivePools \/ \E pool, usable \in Figures : TakeSupplied(pool, usable)
  PROVE  AdmittedInv'
<1>1. req \in Request /\ reading \in Reading
  BY DEF QueueInv, TypeOK, ChatTypeOK
<1>2. Pending' => /\ gpu' \in seen'.gpu /\ storedFree' \in seen'.stored
                  /\ seen.gpu \subseteq seen'.gpu /\ seen.stored \subseteq seen'.stored
  BY HistoryGrows DEF QueueInv
<1>3. req.pc = "capacity"
  BY DEF AdmittedInv, Measure, DerivePools, TakeSupplied, TakeCapacity
<1>4. gpu \in seen.gpu /\ storedFree \in seen.stored
  BY <1>3 DEF AdmittedInv, Pending
<1>5. CASE Measure
  <2>1. req' = req /\ reading'.free = gpu
    BY <1>5 DEF Measure, chatVars
  <2>2. Pending'
    BY <1>3, <2>1 DEF Pending
  <2>3. QED
    BY <1>2, <1>3, <1>4, <2>1, <2>2 DEF AdmittedInv, AdmittedFits, Deciding
<1>6. CASE DerivePools
  <2> DEFINE figure == FreeFigure(reading.free, storedFree)
  <2>1. req' = [req EXCEPT !.pc = "decide", !.pool = Pool(figure), !.usable = Usable(figure, queue)]
    BY <1>6 DEF DerivePools, TakeCapacity
  <2>2. req'.pc = "decide" /\ req'.pool = Pool(figure)
    <3> HIDE DEF figure
    <3> QED
      BY <1>1, <2>1 DEF Request
  <2>3. reading.free \in seen.gpu /\ ~reading'.done
    BY <1>6 DEF DerivePools, AdmittedInv, NotRead
  <2>4. Pending'
    BY <2>2 DEF Pending
  <2>5. reading.free \in seen'.gpu /\ storedFree \in seen'.stored
    BY <1>2, <1>4, <2>3, <2>4
  <2>6. QED
    BY <1>2, <2>2, <2>3, <2>5 DEF AdmittedInv, AdmittedFits, Deciding, Pool
<1>7. ASSUME NEW pool \in Figures, NEW usable \in Figures, TakeSupplied(pool, usable)
      PROVE  AdmittedInv'
  <2>1. req' = [req EXCEPT !.pc = "decide", !.pool = pool, !.usable = usable]
    BY <1>7 DEF TakeSupplied, TakeCapacity
  <2>2. req.op = "estimate" /\ ~reading'.done
    BY <1>7 DEF TakeSupplied, QueueInv, RawIsEstimate, NotRead
  <2>3. req'.pc = "decide" /\ req'.op = "estimate"
    BY <1>1, <2>1, <2>2 DEF Request
  <2>4. QED
    BY <1>2, <2>2, <2>3 DEF AdmittedInv, AdmittedFits, Deciding
<1>8. QED
  BY <1>5, <1>6, <1>7

\* What happens beside the loop only adds to the history.
LEMMA BesideAdmits ==
  ASSUME QueueInv, AdmittedInv, Beside, Next
  PROVE  AdmittedInv'
<1>1. req' = req /\ reading' = reading
  BY DEF Beside, GpuChanges, LoadRecorded, CacheChanges, SwitchBeside, SwitchMoves,
         chatVars, adapterVars
<1>2. Pending' = Pending
  BY <1>1 DEF Pending
<1>3. Pending => /\ gpu' \in seen'.gpu /\ storedFree' \in seen'.stored
                 /\ seen.gpu \subseteq seen'.gpu /\ seen.stored \subseteq seen'.stored
  BY <1>2, HistoryGrows DEF QueueInv
<1>4. reading.done \/ Deciding("chat") \/ req.pc = "runtime" => Pending
  BY DEF AdmittedInv, Pending, Deciding
<1>5. AdmittedFits'
  BY <1>1, <1>3, <1>4 DEF AdmittedInv, AdmittedFits, Bytes
<1>6. QED
  BY <1>1, <1>2, <1>3, <1>4, <1>5 DEF AdmittedInv, Deciding, Pool

-----------------------------------------------------------------------------
(* The theorems.                                                           *)

\* The types and the agreement of the two pools hold in every state.
THEOREM QueueInvariant == Spec => []QueueInv
<1>1. QueueInv /\ [Next]_vars => QueueInv'
  <2> SUFFICES ASSUME QueueInv, [Next]_vars PROVE QueueInv'
    OBVIOUS
  <2>0. Next => seen' \in Seen
    BY HistoryGrows DEF QueueInv
  <2>1. CASE Next /\ Command
    BY <2>0, <2>1, CommandKeeps
  <2>2. CASE Next /\ Serve
    BY <2>0, <2>2, HandleKeeps, DerivePoolsKeeps, SuppliedKeeps, BesideKeeps DEF Serve
  <2>3. CASE Next /\ Beside
    BY <2>0, <2>3, BesideKeeps
  <2>4. CASE UNCHANGED vars
    BY <2>4, StutterKeeps
  <2>5. QED
    BY <2>1, <2>2, <2>3, <2>4 DEF Next
<1>2. QED
  BY InitQueueInv, <1>1, PTL DEF Spec

\* The deployed service never queues a request: the branch of
\* CanonicalChatHandler.chat that does cannot be reached with the capacity
\* figures registration.py derives.
THEOREM QueueNeverFills == Spec => []QueueAlwaysEmpty
<1>1. QueueInv => QueueAlwaysEmpty
  BY DEF QueueInv
<1>2. QED
  BY QueueInvariant, <1>1, PTL

\* Type correctness.
THEOREM TypeCorrect == Spec => []TypeOK
<1>1. QueueInv => TypeOK
  BY DEF QueueInv
<1>2. QED
  BY QueueInvariant, <1>1, PTL

\* A chat is handed to the runtime only if it fitted a figure that the card,
\* or for a card that cannot be measured the facts file, has shown since the
\* chat was taken up: whatever the loads, the switches and the other users
\* of the card do between the measurement, the verdict and the call.
THEOREM AdmittedChatsFit == Spec => []AdmittedFits
<1>1. Init => AdmittedInv
  BY DEF Init, ChatInit, AdmittedInv, AdmittedFits, Pending, Deciding, NoneServed, NotRead
<1>2. QueueInv /\ AdmittedInv /\ [Next]_vars => AdmittedInv'
  <2> SUFFICES ASSUME QueueInv, AdmittedInv, [Next]_vars PROVE AdmittedInv'
    OBVIOUS
  <2>1. CASE Next /\ Command
    BY <2>1, CommandAdmits
  <2>2. CASE Next /\ Serve
    BY <2>2, HandleAdmits, FiguresAdmit DEF Serve
  <2>3. CASE Next /\ Beside
    BY <2>3, BesideAdmits
  <2>4. CASE UNCHANGED vars
    BY <2>4 DEF vars, chatVars, adapterVars, AdmittedInv, AdmittedFits, Pending, Deciding,
                Bytes, Pool
  <2>5. QED
    BY <2>1, <2>2, <2>3, <2>4 DEF Next
<1>3. AdmittedInv => AdmittedFits
  BY DEF AdmittedInv
<1>4. QED
  BY QueueInvariant, <1>1, <1>2, <1>3, PTL DEF Spec
=============================================================================
