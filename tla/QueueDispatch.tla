---------------------------- MODULE QueueDispatch ----------------------------
(***************************************************************************)
(* The request queue with its dispatcher (lmrs/queue.py): a worker takes   *)
(* the queue value of the moment, selects the largest entry that fits one  *)
(* reading of the usable VRAM, reads it again and hands the entry to the   *)
(* executor if it still fits.  Beside it the canonical handler queues and  *)
(* cancels.  The deployed adapter starts no such worker; this is the       *)
(* composition the library offers, with readings its host supplies.        *)
(***************************************************************************)
EXTENDS ChatAdmission, FiniteSets

CONSTANT MaxTime  \* bound on the clock

ASSUME DispatchAssumption == MaxTime \in Nat

VARIABLES
  now,       \* the clock
  usable,    \* what the host's capacity provider would report now
  selected,  \* the entry between selection and launch: a set of at most one
  answered,  \* identifiers answered "queued" so far (history)
  launched   \* the last entry handed to the executor: a set of at most one

dispatchVars == <<now, usable, selected, answered, launched>>
vars == <<chatVars, dispatchVars>>

Launch == [entry : Entry, usable : Figures]

TypeOK ==
  /\ ChatTypeOK
  /\ now \in 0..MaxTime
  /\ usable \in Figures
  /\ selected \in SUBSET Entry /\ Cardinality(selected) <= 1
  /\ answered \in SUBSET Requests
  /\ launched \in SUBSET Launch /\ Cardinality(launched) <= 1

\* The order of candidates: bytes, then priority, then admission time.
Smaller(e, f) ==
  \/ e.required < f.required
  \/ e.required = f.required /\ e.priority < f.priority
  \/ e.required = f.required /\ e.priority = f.priority /\ e.admitted < f.admitted

Fits(e, bytes) == e.required <= bytes

\* Mutant: every fitting entry is selected.
AllFit(entries, bytes) ==
  {entries[i] : i \in {j \in DOMAIN entries : Fits(entries[j], bytes)}}

\* largest_fit_scheduler: the largest fitting entry, none when none fits.
\* Of equals it takes the first, and equal entries are one value here.
\* Its filter for the status "queued" drops nothing: no other is ever stored.
LargestFit(entries, bytes) ==
  LET candidates == {entries[i] : i \in {j \in DOMAIN entries : Fits(entries[j], bytes)}}
      best == {e \in candidates : \A f \in candidates : ~Smaller(e, f)}
      First(i) == entries[i] \in best /\ \A j \in 1..(i - 1) : entries[j] \notin best
  IN {entries[i] : i \in {j \in DOMAIN entries : First(j)}}

-----------------------------------------------------------------------------
\* A trigger: the first reading selects.
Select ==
  /\ selected = {}
  /\ selected' = LargestFit(queue, usable)
  /\ UNCHANGED <<chatVars, now, usable, answered, launched>>

\* Mutant: the selection is launched on the first reading.
LaunchUnchecked ==
  \E e \in selected :
    /\ launched' = {[entry |-> e, usable |-> usable]}
    /\ selected' = {}
    /\ UNCHANGED <<chatVars, now, usable, answered>>

\* The second reading decides whether the selection is launched.
Recheck ==
  \E e \in selected :
    /\ launched' = IF Fits(e, usable)
                     THEN {[entry |-> e, usable |-> usable]}
                     ELSE launched
    /\ selected' = {}
    /\ UNCHANGED <<chatVars, now, usable, answered>>

CapacityMoves ==
  /\ usable' \in Figures
  /\ UNCHANGED <<chatVars, now, selected, answered, launched>>

Tick ==
  /\ now < MaxTime
  /\ now' = now + 1
  /\ UNCHANGED <<chatVars, usable, selected, answered, launched>>

\* A step of the handler, with the history of what it answered.
Handler ==
  /\ ChatNext({now})
  /\ answered' = IF req'.outcome = "queued" THEN answered \cup {req'.id} ELSE answered
  /\ UNCHANGED <<now, usable, selected, launched>>

-----------------------------------------------------------------------------
Init ==
  /\ ChatInit
  /\ now = 0
  /\ usable \in Figures
  /\ selected = {}
  /\ answered = {}
  /\ launched = {}

Next == Handler \/ Select \/ Recheck \/ CapacityMoves \/ Tick

Spec == Init /\ [][Next]_vars

-----------------------------------------------------------------------------
(* Properties.                                                             *)

\* A request answered "queued" is in the queue when it is answered: the
\* owner of the queue has adopted the value the admission produced.
QueuedIsInQueue ==
  req.outcome = "queued" => \E i \in DOMAIN queue : queue[i].id = req.id

\* Only requests answered "queued" are launched, and only against a reading
\* taken at the launch that they fit, whatever the capacity did since they
\* were selected.
LaunchesAreQueuedAndFit ==
  \A l \in launched : l.entry.id \in answered /\ Fits(l.entry, l.usable)
=============================================================================
