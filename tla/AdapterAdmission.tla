-------------------------- MODULE AdapterAdmission --------------------------
(***************************************************************************)
(* How the deployed service admits a request: the canonical handler        *)
(* (ChatAdmission) fed by the capacity snapshot of                         *)
(* lmrs/adapter/registration.py and holding its queue in _QueueHolder.     *)
(*                                                                         *)
(* The commands run inline on the event loop, one at a time.  Between      *)
(* their calls out of the process (nvidia-smi, the VRAM facts file, the    *)
(* runtime) the card, the facts, the disk cache and the switch markers may *)
(* change: job workers and other processes own those.  No dispatcher of    *)
(* queued requests is wired in.                                            *)
(***************************************************************************)
EXTENDS ChatAdmission

CONSTANTS
  SafetyMargin, RuntimeReserve, \* LMRS_SAFETY_MARGIN_BYTES, LMRS_RUNTIME_RESERVE_BYTES
  FreeReadings,                 \* values nvidia-smi can report for free VRAM
  Unmeasured,                   \* no such reading
  Times                         \* clock readings

ASSUME AdapterAssumption ==
  /\ SafetyMargin \in Nat /\ RuntimeReserve \in Nat
  /\ FreeReadings \subseteq Nat /\ Times \subseteq Nat
  /\ Unmeasured \notin Nat

VARIABLES
  gpu,        \* free VRAM the driver would report now, or Unmeasured
  storedFree, \* model_loaded_free_vram_bytes of the facts file
  sized,      \* models whose KV profile can be read from the disk cache
  reading,    \* what the driver answered the request being served
  seen        \* what card and file have shown since it was taken up (history)

adapterVars == <<gpu, storedFree, sized, reading>>
vars == <<chatVars, adapterVars, seen>>

Readings == FreeReadings \cup {Unmeasured}

\* raw: the caller has supplied the capacity figures itself.
Reading == [done : BOOLEAN, raw : BOOLEAN, free : Readings]
NotRead == [done |-> FALSE, raw |-> FALSE, free |-> Unmeasured]

Seen == [gpu : SUBSET Readings, stored : SUBSET Readings]
NothingSeen == [gpu |-> {}, stored |-> {}]

TypeOK ==
  /\ ChatTypeOK
  /\ gpu \in Readings
  /\ storedFree \in Readings
  /\ sized \in SUBSET Models
  /\ reading \in Reading
  /\ seen \in Seen

\* The free figure both pools derive from: the reading, else the stored one.
FreeFigure(free, stored) == IF free # Unmeasured THEN free ELSE stored

Pool(free) ==
  IF free = Unmeasured THEN 0 ELSE MaxDynamicPool(free, SafetyMargin, RuntimeReserve)

\* Mutant: the margin is put aside twice.
UsableBelowMargin(free, entries) ==
  UsableDynamicVram(Pool(free), ReservedBytes(entries) + SafetyMargin)

Usable(free, entries) == UsableDynamicVram(Pool(free), ReservedBytes(entries))

-----------------------------------------------------------------------------
\* A request for a model whose KV profile is known is served.
Accept(op, id, m, tokens) ==
  /\ m \in sized
  /\ Arrive(op, id, m, tokens)
  /\ UNCHANGED adapterVars

RefuseUnsized(op, id, m) ==
  /\ m \notin sized
  /\ Refuse(op, id, m)
  /\ UNCHANGED adapterVars

\* An estimate whose caller states every input, the capacity included: no
\* model has to be cached for it and nothing is measured.
RawEstimate(id, m, tokens) ==
  /\ Arrive("estimate", id, m, tokens)
  /\ reading' = [NotRead EXCEPT !.raw = TRUE]
  /\ UNCHANGED <<gpu, storedFree, sized>>

TakeSupplied(pool, usable) ==
  /\ reading.raw
  /\ TakeCapacity(pool, usable)
  /\ reading' = NotRead
  /\ UNCHANGED <<gpu, storedFree, sized>>

\* Mutant: a driver that does not answer is waited for.
MeasureUnbounded ==
  /\ req.pc = "capacity" /\ ~reading.done /\ ~reading.raw
  /\ gpu # Unmeasured
  /\ reading' = [done |-> TRUE, raw |-> FALSE, free |-> gpu]
  /\ UNCHANGED <<chatVars, gpu, storedFree, sized>>

\* measure_gpu_memory.
Measure ==
  /\ req.pc = "capacity" /\ ~reading.done /\ ~reading.raw
  /\ reading' = [done |-> TRUE, raw |-> FALSE, free |-> gpu]
  /\ UNCHANGED <<chatVars, gpu, storedFree, sized>>

\* Mutant: the usable figure is derived from the stored reading alone.
DerivePoolsApart ==
  /\ reading.done
  /\ LET free == FreeFigure(reading.free, storedFree)
     IN TakeCapacity(Pool(free), Usable(FreeFigure(storedFree, free), queue))
  /\ reading' = NotRead
  /\ UNCHANGED <<gpu, storedFree, sized>>

\* Mutant: the reading is kept for the next request.
DerivePoolsCached ==
  /\ reading.done
  /\ LET free == FreeFigure(reading.free, storedFree)
     IN TakeCapacity(Pool(free), Usable(free, queue))
  /\ UNCHANGED <<gpu, storedFree, sized, reading>>

\* The facts file is read and both pools are derived from one free figure.
\* The probe of the runtime that follows does not enter the verdict.
DerivePools ==
  /\ reading.done
  /\ LET free == FreeFigure(reading.free, storedFree)
     IN TakeCapacity(Pool(free), Usable(free, queue))
  /\ reading' = NotRead
  /\ UNCHANGED <<gpu, storedFree, sized>>

Handle(at) == HandlerStep(at) /\ UNCHANGED adapterVars

CancelCommand(id) == Cancel(id) /\ UNCHANGED adapterVars

-----------------------------------------------------------------------------
(* What happens beside the loop.                                           *)

GpuChanges ==
  /\ gpu' \in Readings
  /\ UNCHANGED <<chatVars, storedFree, sized, reading>>

\* A load on a job worker records the reading it took (record_model_loaded).
LoadRecorded ==
  /\ storedFree' \in FreeReadings
  /\ UNCHANGED <<chatVars, gpu, sized, reading>>

CacheChanges ==
  /\ sized' \in SUBSET Models
  /\ UNCHANGED <<chatVars, gpu, storedFree, reading>>

SwitchBeside(m) == SwitchMoves(m) /\ UNCHANGED adapterVars

-----------------------------------------------------------------------------
\* A request on its way to its verdict or to the runtime.
Pending == req.pc \in {"capacity", "decide", "runtime"}

\* The history: what has been there to read since the pending request was
\* taken up.
Observe ==
  seen' = IF ~Pending' THEN NothingSeen
          ELSE [gpu |-> seen.gpu \cup {gpu'}, stored |-> seen.stored \cup {storedFree'}]

Init ==
  /\ ChatInit
  /\ gpu \in Readings
  /\ storedFree \in Readings
  /\ sized \in SUBSET Models
  /\ reading = NotRead
  /\ seen = NothingSeen

Command ==
  \E id \in Requests :
    \/ CancelCommand(id)
    \/ \E m \in Models, tokens \in TokenCounts : RawEstimate(id, m, tokens)
    \/ \E op \in {"chat", "estimate"}, m \in Models :
         \/ RefuseUnsized(op, id, m)
         \/ \E tokens \in TokenCounts : Accept(op, id, m, tokens)

\* The loop carries the request it serves to its reply.
Serve ==
  \/ Measure \/ DerivePools
  \/ \E pool, usable \in Figures : TakeSupplied(pool, usable)
  \/ \E at \in Times : Handle(at)

Beside ==
  \/ GpuChanges \/ LoadRecorded \/ CacheChanges
  \/ \E m \in Models : SwitchBeside(m)

Next ==
  \/ Command /\ Observe
  \/ Serve /\ Observe
  \/ Beside /\ Observe

Spec == Init /\ [][Next]_vars

\* The loop keeps running the command it is on; nvidia-smi and the HTTP
\* calls are bounded by timeouts.
FairSpec == Spec /\ WF_vars(Serve /\ Observe)

-----------------------------------------------------------------------------
(* Properties.                                                             *)

\* No request is ever queued by the deployed service.  The two pools derive
\* from one figure and differ only by what queued requests reserve; running
\* requests reserve nothing, so CAPACITY_CONSTRAINED needs a queue that is
\* not empty to begin with.
QueueAlwaysEmpty == queue = << >>

\* Its inductive strengthening: a chat about to be decided was measured
\* against an empty queue; only an estimate can bring figures of its own.
PoolsAgree == Deciding("chat") => req.usable = req.pool
RawIsEstimate == reading.raw => req.pc = "capacity" /\ req.op = "estimate"
QueueInv == TypeOK /\ QueueAlwaysEmpty /\ PoolsAgree /\ RawIsEstimate

\* Every request the loop takes up is answered.
RequestsAreAnswered == req.pc # "idle" ~> req.pc = "idle"

\* A chat is handed to the runtime only if it fitted, margin and reserve put
\* aside, what the card had free at some time since the chat was taken up;
\* or what the facts file held then, if the card could not be measured.  No
\* figure of an earlier request and none of another origin admits one.
AdmittedFits ==
  req.pc = "runtime" /\ Bytes(req.tokens) > 0 =>
    \E free \in seen.gpu, stored \in seen.stored :
      LET figure == FreeFigure(free, stored)
      IN /\ figure # Unmeasured
         /\ Bytes(req.tokens) + SafetyMargin + RuntimeReserve <= figure
=============================================================================
