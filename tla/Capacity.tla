------------------------------- MODULE Capacity -------------------------------
(***************************************************************************)
(* The arithmetic of admission: what a request needs                       *)
(* (lmrs/estimation.py), what the card has left (lmrs/vram.py) and the     *)
(* verdict between the two (lmrs/admission.py).  All quantities are bytes  *)
(* or tokens, Python integers: natural numbers that never wrap.            *)
(***************************************************************************)
EXTENDS Integers

\* The larger of x and zero.
Clamp(x) == IF x > 0 THEN x ELSE 0

\* Bytes of KV cache the tokens take, plus the fixed overheads.  A confirmed
\* LMCache hit could lower it; no caller of the repository confirms one.
DynamicVramRequirement(tokens, kv_bytes, request_overhead, batch_overhead) ==
  tokens * kv_bytes + request_overhead + batch_overhead

\* What is left for requests once the margin and the reserve are put aside.
MaxDynamicPool(free, margin, reserve) == Clamp(free - margin - reserve)

\* The pool minus what is reserved by requests already counted against it.
UsableDynamicVram(pool, reserved) == Clamp(pool - reserved)

\* The verdict on a request, tested in this order.
Decide(tokens, window, required, pool, usable) ==
  IF tokens > window   THEN "CONTEXT_OVERFLOW"
  ELSE IF required > pool   THEN "REQUEST_TOO_LARGE"
  ELSE IF required > usable THEN "CAPACITY_CONSTRAINED"
  ELSE "CAPACITY_AVAILABLE"

\* The decision each reason stands for.
Decision(reason) ==
  IF reason = "CAPACITY_AVAILABLE" THEN "execute"
  ELSE IF reason = "CAPACITY_CONSTRAINED" THEN "queue" ELSE "reject"

\* How much the co-resident services may still grow from what they use now.
ResidentGrowth(free, total, peak) == Clamp(peak - (total - free))

\* --gpu-memory-utilization in whole percent, truncated.  The quotient is a
\* float: where it comes out even it may be truncated one percent lower.
Utilizations(free, total, reserve, peak) ==
  LET allocatable == free - reserve - ResidentGrowth(free, total, peak)
      percent == (allocatable * 100) \div total
  IN {percent} \cup (IF percent * total = allocatable * 100 THEN {percent - 1} ELSE {})

\* A fraction of nothing is refused and the runtime is not started.
Granted(free, total, reserve, peak) ==
  {u \in Utilizations(free, total, reserve, peak) : u > 0}
=============================================================================
