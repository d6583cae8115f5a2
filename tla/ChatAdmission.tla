---------------------------- MODULE ChatAdmission ----------------------------
(***************************************************************************)
(* The canonical handler of chat and estimate (lmrs/commands.py) over the  *)
(* verdict of lmrs/admission.py and the request queue of lmrs/queue.py.    *)
(*                                                                         *)
(* The handler takes the capacity figures its caller measured, then asks   *)
(* whether the model is being switched, and decides.  It serves one        *)
(* request at a time; the switch markers belong to another component and   *)
(* move at any time.                                                       *)
(***************************************************************************)
EXTENDS Capacity, RuntimeCalls, Sequences

CONSTANTS
  Models,         \* model names
  Requests,       \* request identifiers; callers may reuse them
  TokenCounts,    \* token totals a request can come to
  Window,         \* declared context window
  KvBytes,        \* KV-cache bytes per token
  RequestOverhead, BatchOverhead,  \* LMRS_*_OVERHEAD_BYTES
  Figures,        \* capacity figures a caller can supply
  Priorities,     \* priorities a caller can give a queued request
  QueueTtl,       \* LMRS_QUEUE_TTL_SECONDS
  MaxQueue,       \* bound on the queue's length
  NoRequest

ASSUME AdmissionAssumption ==
  /\ TokenCounts \subseteq Nat /\ Figures \subseteq Nat /\ Priorities \subseteq Nat
  /\ Window \in Nat /\ KvBytes \in Nat
  /\ RequestOverhead \in Nat /\ BatchOverhead \in Nat
  /\ QueueTtl \in Nat /\ MaxQueue \in Nat \ {0}
  /\ NoRequest \notin Requests \cup Models

VARIABLES
  switching,  \* _SWITCHES_IN_PROGRESS
  queue,      \* the entries of the current RequestQueue value
  req         \* the request being served

chatVars == <<switching, queue, req>>

Bytes(tokens) == DynamicVramRequirement(tokens, KvBytes, RequestOverhead, BatchOverhead)

Entry == [id : Requests, required : Nat, priority : Nat, admitted : Nat, expires : Nat]

Outcomes == {"none", "executed", "queued", "rejected", "would_execute",
             "would_queue", "would_reject", "failed"}

Request == [pc : {"idle", "capacity", "decide", "runtime", "reply"},
            op : {"none", "chat", "estimate"},
            id : Requests \cup {NoRequest},
            model : Models \cup {NoRequest},
            tokens : Nat,
            pool : Nat,    \* max_dynamic_pool_bytes
            usable : Nat,  \* usable_dynamic_vram_bytes
            outcome : Outcomes]

NoneServed == [pc |-> "idle", op |-> "none", id |-> NoRequest, model |-> NoRequest,
               tokens |-> 0, pool |-> 0, usable |-> 0, outcome |-> "none"]

ChatTypeOK ==
  /\ switching \in SUBSET Models
  /\ queue \in Seq(Entry)
  /\ req \in Request

\* Mutant: the new queue value is not adopted by its owner.
AddEntryUnadopted(entries, e) == entries

\* RequestQueue.add and RequestQueue.cancel.
AddEntry(entries, e) == Append(entries, e)
CancelEntry(entries, id) ==
  LET kept[i \in 0..Len(entries)] ==
        IF i = 0 THEN << >>
        ELSE IF entries[i].id = id THEN kept[i - 1]
        ELSE Append(kept[i - 1], entries[i])
  IN kept[Len(entries)]

\* _QueueHolder.reserved_bytes: what the queued entries hold.
ReservedBytes(entries) ==
  LET sum[i \in 0..Len(entries)] ==
        IF i = 0 THEN 0 ELSE sum[i - 1] + entries[i].required
  IN sum[Len(entries)]

-----------------------------------------------------------------------------
Reply(outcome) == req' = [req EXCEPT !.pc = "reply", !.outcome = outcome]

\* A request whose prompt has been counted.
Arrive(op, id, m, tokens) ==
  /\ req.pc = "idle"
  /\ Len(queue) < MaxQueue
  /\ req' = [NoneServed EXCEPT !.pc = "capacity", !.op = op, !.id = id,
                               !.model = m, !.tokens = tokens]
  /\ UNCHANGED <<switching, queue>>

\* A request for a model that cannot be sized: HARDWARE_CAPACITY_UNKNOWN.
Refuse(op, id, m) ==
  /\ req.pc = "idle"
  /\ req' = [NoneServed EXCEPT !.pc = "reply", !.op = op, !.id = id,
                               !.model = m, !.outcome = "failed"]
  /\ UNCHANGED <<switching, queue>>

\* The capacity snapshot the caller supplies.
TakeCapacity(pool, usable) ==
  /\ req.pc = "capacity"
  /\ req' = [req EXCEPT !.pc = "decide", !.pool = pool, !.usable = usable]
  /\ UNCHANGED <<switching, queue>>

\* The verdict on the request being served.
Verdict ==
  Decision(Decide(req.tokens, Window, Bytes(req.tokens), req.pool, req.usable))

MidSwitch == req.model \in switching

Deciding(op) == req.pc = "decide" /\ req.op = op

Estimate ==
  /\ Deciding("estimate")
  /\ Reply(IF MidSwitch \/ Verdict = "reject" THEN "would_reject"
           ELSE IF Verdict = "queue" THEN "would_queue" ELSE "would_execute")
  /\ UNCHANGED <<switching, queue>>

ChatReject ==
  /\ Deciding("chat")
  /\ MidSwitch \/ Verdict = "reject"
  /\ Reply("rejected")
  /\ UNCHANGED <<switching, queue>>

\* The new queue value is handed to the owner of the queue (queue_sink).
ChatQueue(at, priority) ==
  /\ Deciding("chat")
  /\ ~MidSwitch /\ Verdict = "queue"
  /\ queue' = AddEntry(queue, [id |-> req.id, required |-> Bytes(req.tokens),
                               priority |-> priority, admitted |-> at,
                               expires |-> at + QueueTtl])
  /\ Reply("queued")
  /\ UNCHANGED switching

ChatExecute ==
  /\ Deciding("chat")
  /\ ~MidSwitch /\ Verdict = "execute"
  /\ req' = [req EXCEPT !.pc = "runtime"]
  /\ UNCHANGED <<switching, queue>>

\* The call of the runtime comes to whatever it comes to.
RuntimeReturns ==
  /\ req.pc = "runtime"
  /\ \E response \in Responses : Reply(Execute(response))
  /\ UNCHANGED <<switching, queue>>

Deliver ==
  /\ req.pc = "reply"
  /\ req' = NoneServed
  /\ UNCHANGED <<switching, queue>>

Cancel(id) ==
  /\ req.pc = "idle"
  /\ queue' = CancelEntry(queue, id)
  /\ UNCHANGED <<switching, req>>

\* A switch to m starts or ends beside the handler.
SwitchMoves(m) ==
  /\ switching' \in {switching \cup {m}, switching \ {m}}
  /\ UNCHANGED <<queue, req>>

-----------------------------------------------------------------------------
ChatInit ==
  /\ switching = {}
  /\ queue = << >>
  /\ req = NoneServed

\* The steps of a request once its capacity is known.
HandlerStep(at) ==
  \/ Estimate \/ ChatReject \/ ChatExecute \/ RuntimeReturns \/ Deliver
  \/ \E priority \in Priorities : ChatQueue(at, priority)

\* A step of the handler at time at, with capacity figures of the caller.
ChatNext(Times) ==
  \/ \E op \in {"chat", "estimate"}, id \in Requests, m \in Models :
       \/ Refuse(op, id, m)
       \/ \E tokens \in TokenCounts : Arrive(op, id, m, tokens)
  \/ \E pool, usable \in Figures : TakeCapacity(pool, usable)
  \/ \E at \in Times : HandlerStep(at)
  \/ \E id \in Requests : Cancel(id)
  \/ \E m \in Models : SwitchMoves(m)
=============================================================================
