------------------------ MODULE QueueDispatchProofs ------------------------
(***************************************************************************)
(* What admission and the request queue promise for every capacity, every  *)
(* queue and every interleaving of the handler with the dispatcher: the    *)
(* arithmetic of the verdict, what cancelling and selecting do to a queue  *)
(* of any length and what it reserves, and the invariants of QueueDispatch.*)
(*                                                                         *)
(* CancelEntry and ReservedBytes are recursive functions and the best      *)
(* entry is a property of the whole queue.  What they yield is shown by    *)
(* induction on the length, with the set of the lengths it holds for       *)
(* (Inductive below).                                                      *)
(***************************************************************************)
EXTENDS QueueDispatch, WellFoundedInduction, FiniteSetTheorems, TLAPS

-----------------------------------------------------------------------------
(* The arithmetic of admission (Capacity).                                 *)

\* The fraction handed to the runtime (derive_gpu_memory_utilization) never
\* claims memory that the headroom reserve or the co-resident services need:
\* whatever these use later, up to their declared peak or what they hold now,
\* claim, reserve and services fit the card together.
THEOREM RuntimeLeavesRoom ==
  ASSUME NEW total \in Nat \ {0}, NEW free \in 0..total, NEW reserve \in Nat, NEW peak \in Nat,
         NEW u \in Granted(free, total, reserve, peak),
         NEW resident \in Nat, resident <= peak \/ resident <= total - free
  PROVE  u * total <= 100 * (total - reserve - resident)
<1> DEFINE allocatable == free - reserve - ResidentGrowth(free, total, peak)
           percent == (allocatable * 100) \div total
<1>1. allocatable \in Int
  BY DEF ResidentGrowth, Clamp
<1>2. percent \in Int /\ percent * total <= allocatable * 100
  BY <1>1
<1>3. u \in {percent, percent - 1}
  BY DEF Granted, Utilizations
<1>4. allocatable <= total - reserve - resident
  BY DEF ResidentGrowth, Clamp
<1> HIDE DEF allocatable, percent
<1>5. (percent - 1) * total = percent * total - total
  BY <1>2
<1>6. u * total <= allocatable * 100
  BY <1>1, <1>2, <1>3, <1>5
<1>7. QED
  BY <1>1, <1>2, <1>3, <1>4, <1>6

\* The fraction handed to the runtime leaves at most one percent of the card
\* unclaimed beyond what reserve and services may use: the truncation of the
\* float costs the runtime no more, even where the quotient comes out even.
THEOREM RuntimeTakesTheRest ==
  ASSUME NEW total \in Nat \ {0}, NEW free \in 0..total, NEW reserve \in Nat, NEW peak \in Nat,
         NEW u \in Utilizations(free, total, reserve, peak)
  PROVE  (u + 1) * total >= 100 * (free - reserve - ResidentGrowth(free, total, peak))
<1> DEFINE allocatable == free - reserve - ResidentGrowth(free, total, peak)
           percent == (allocatable * 100) \div total
<1>1. allocatable \in Int
  BY DEF ResidentGrowth, Clamp
<1>2. percent \in Int /\ allocatable * 100 < percent * total + total
  BY <1>1
<1>3. u = percent \/ (u = percent - 1 /\ percent * total = allocatable * 100)
  BY DEF Utilizations
<1> HIDE DEF allocatable, percent
<1>4. (percent + 1) * total = percent * total + total
  BY <1>2
<1>5. (u + 1) * total >= 100 * allocatable
  BY <1>1, <1>2, <1>3, <1>4
<1>6. QED
  BY <1>5 DEF allocatable

\* A request is queued only if it could run on the empty pool, and executed
\* only if it fits what is usable now: with less usable than the pool, more
\* usable never turns an execution into anything else.
THEOREM MoreUsableNeverHurts ==
  ASSUME NEW tokens \in Nat, NEW window \in Nat, NEW required \in Nat, NEW pool \in Nat,
         NEW less \in Nat, NEW more \in Nat, less <= more
  PROVE  /\ Decision(Decide(tokens, window, required, pool, less)) = "execute"
              => Decision(Decide(tokens, window, required, pool, more)) = "execute"
         /\ Decision(Decide(tokens, window, required, pool, less)) = "reject"
              <=> Decision(Decide(tokens, window, required, pool, more)) = "reject"
BY DEF Decide, Decision

-----------------------------------------------------------------------------
(* Induction, over a set of numbers.                                       *)

\* A set of natural numbers that is not empty has a least element.
LEMMA Least ==
  ASSUME NEW T \in SUBSET Nat, T # {}
  PROVE  \E n \in T : \A k \in T : n <= k
<1>1. \E n \in T : \A k \in T : ~(<<k, n>> \in OpToRel(<, Nat))
  BY NatLessThanWellFounded, WFMin
<1>2. PICK n \in T : \A k \in T : ~(<<k, n>> \in OpToRel(<, Nat))
  BY <1>1
<1>3. \A k \in T : ~(k < n)
  BY <1>2 DEF OpToRel
<1>4. QED
  BY <1>3

\* A set that holds zero and with every number the next holds all of them.
LEMMA Inductive ==
  ASSUME NEW D \in SUBSET Nat, 0 \in D, \A n \in D : n + 1 \in D
  PROVE  D = Nat
<1>1. SUFFICES ASSUME Nat \ D # {} PROVE FALSE
  OBVIOUS
<1>2. PICK n \in Nat \ D : \A k \in Nat \ D : n <= k
  BY <1>1, Least
<1>3. n # 0 /\ n - 1 \in Nat
  BY <1>2
<1>4. n - 1 \in D
  BY <1>2, <1>3
<1>5. QED
  BY <1>2, <1>3, <1>4

-----------------------------------------------------------------------------
(* Cancelling (RequestQueue.cancel).                                       *)

\* One step of the scan: what is kept of the first i entries.
Keeps(entries, id, kept, i) ==
  IF i = 0 THEN << >>
  ELSE IF entries[i].id = id THEN kept[i - 1]
  ELSE Append(kept[i - 1], entries[i])

\* The scan of the first n entries.
Scan(entries, id, kept, n) == kept = [i \in 0..n |-> Keeps(entries, id, kept, i)]

\* Every queue can be scanned to its end.
LEMMA ScanExists ==
  ASSUME NEW entries, NEW id
  PROVE  \A n \in Nat : \E kept : Scan(entries, id, kept, n)
<1> DEFINE D == {n \in Nat : \E kept : Scan(entries, id, kept, n)}
<1>1. 0 \in D
  <2>1. Scan(entries, id, [i \in 0..0 |-> << >>], 0)
    BY DEF Scan, Keeps
  <2>2. QED
    BY <2>1
<1>2. ASSUME NEW n \in D PROVE n + 1 \in D
  <2>1. PICK kept : Scan(entries, id, kept, n)
    OBVIOUS
  <2> DEFINE more == [i \in 0..(n + 1) |-> IF i = n + 1 THEN Keeps(entries, id, kept, i) ELSE kept[i]]
  <2>2. \A i \in 0..n : more[i] = kept[i]
    OBVIOUS
  <2>3. \A i \in 0..(n + 1) : Keeps(entries, id, more, i) = Keeps(entries, id, kept, i)
    BY <2>2 DEF Keeps
  <2>4. \A i \in 0..n : kept[i] = Keeps(entries, id, kept, i)
    BY <2>1 DEF Scan
  <2>5. \A i \in 0..(n + 1) : more[i] = Keeps(entries, id, more, i)
    BY <2>3, <2>4
  <2>6. more = [i \in 0..(n + 1) |-> more[i]]
    OBVIOUS
  <2> HIDE DEF more
  <2>7. Scan(entries, id, more, n + 1)
    BY <2>5, <2>6 DEF Scan
  <2>8. QED
    BY <2>7
<1>3. D = Nat
  <2> HIDE DEF D
  <2>1. D \subseteq Nat
    BY DEF D
  <2>2. QED
    BY <1>1, <1>2, <2>1, Inductive
<1>4. QED
  BY <1>3

\* CancelEntry is the end of the scan.
LEMMA CancelIsScan ==
  ASSUME NEW S, NEW entries \in Seq(S), NEW id
  PROVE  \E kept : /\ \A i \in 0..Len(entries) : kept[i] = Keeps(entries, id, kept, i)
                   /\ CancelEntry(entries, id) = kept[Len(entries)]
<1> DEFINE fixed == CHOOSE kept : kept = [i \in 0..Len(entries) |->
                                            IF i = 0 THEN << >>
                                            ELSE IF entries[i].id = id THEN kept[i - 1]
                                            ELSE Append(kept[i - 1], entries[i])]
<1>1. CancelEntry(entries, id) = fixed[Len(entries)]
  BY DEF CancelEntry
<1>2. \E kept : Scan(entries, id, kept, Len(entries))
  <2>1. Len(entries) \in Nat
    OBVIOUS
  <2>2. QED
    BY <2>1, ScanExists
<1>3. Scan(entries, id, fixed, Len(entries))
  BY <1>2 DEF Scan, Keeps
<1> HIDE DEF fixed
<1>4. \A i \in 0..Len(entries) : fixed[i] = Keeps(entries, id, fixed, i)
  BY <1>3 DEF Scan
<1>5. QED
  BY <1>1, <1>4

\* What is kept of the first n entries, with the places it is kept from.
Filtered(entries, id, rest, n, place) ==
  /\ place \in [1..Len(rest) -> 1..n]
  /\ \A j \in 1..Len(rest) : rest[j] = entries[place[j]]
  /\ \A j, k \in 1..Len(rest) : j < k => place[j] < place[k]
  /\ \A i \in 1..n : entries[i].id # id <=> \E j \in 1..Len(rest) : place[j] = i

\* The scan goes over an entry of the identifier.
LEMMA FilterSkips ==
  ASSUME NEW S, NEW entries \in Seq(S), NEW id, NEW rest \in Seq(S), NEW place,
         NEW n \in Nat, n + 1 <= Len(entries),
         Filtered(entries, id, rest, n, place), entries[n + 1].id = id
  PROVE  Filtered(entries, id, rest, n + 1, place)
<1>1. Len(rest) \in Nat
  OBVIOUS
<1>2. place \in [1..Len(rest) -> 1..(n + 1)]
  BY DEF Filtered
<1>3. ASSUME NEW i \in 1..(n + 1)
      PROVE  entries[i].id # id <=> \E j \in 1..Len(rest) : place[j] = i
  <2>1. CASE i = n + 1
    <3>1. \A j \in 1..Len(rest) : place[j] \in 1..n
      BY DEF Filtered
    <3>2. \A j \in 1..Len(rest) : place[j] # i
      BY <2>1, <3>1
    <3>3. QED
      BY <2>1, <3>2
  <2>2. CASE i # n + 1
    <3>1. i \in 1..n
      BY <2>2
    <3>2. QED
      BY <3>1 DEF Filtered
  <2>3. QED
    BY <2>1, <2>2
<1>4. QED
  BY <1>2, <1>3 DEF Filtered

\* The scan keeps an entry of another identifier.
LEMMA FilterKeeps ==
  ASSUME NEW S, NEW entries \in Seq(S), NEW id, NEW rest \in Seq(S), NEW place,
         NEW n \in Nat, n + 1 <= Len(entries),
         Filtered(entries, id, rest, n, place), entries[n + 1].id # id
  PROVE  \E more : Filtered(entries, id, Append(rest, entries[n + 1]), n + 1, more)
<1> DEFINE longer == Append(rest, entries[n + 1])
           more == [j \in 1..(Len(rest) + 1) |-> IF j = Len(rest) + 1 THEN n + 1 ELSE place[j]]
<1>1. Len(rest) \in Nat /\ entries[n + 1] \in S
  OBVIOUS
<1>2. /\ Len(longer) = Len(rest) + 1
      /\ longer[Len(rest) + 1] = entries[n + 1]
      /\ \A j \in 1..Len(rest) : longer[j] = rest[j]
  BY <1>1
<1>3. /\ more \in [1..(Len(rest) + 1) -> 1..(n + 1)]
      /\ more[Len(rest) + 1] = n + 1
      /\ \A j \in 1..Len(rest) : more[j] = place[j] /\ place[j] \in 1..n
  BY <1>1 DEF Filtered
<1>4. \A j \in 1..Len(longer) : j \in 1..Len(rest) \/ j = Len(rest) + 1
  BY <1>1, <1>2
<1>5. 1..Len(rest) \subseteq 1..Len(longer) /\ Len(rest) + 1 \in 1..Len(longer)
  BY <1>1, <1>2
<1> HIDE DEF longer, more
<1>6. \A j \in 1..Len(longer) : longer[j] = entries[more[j]]
  <2>1. \A j \in 1..Len(rest) : rest[j] = entries[place[j]]
    BY DEF Filtered
  <2>2. QED
    BY <1>2, <1>3, <1>4, <2>1
<1>7. ASSUME NEW j \in 1..Len(longer), NEW k \in 1..Len(longer), j < k
      PROVE  more[j] < more[k]
  <2>1. j \in 1..Len(rest)
    BY <1>1, <1>2, <1>7
  <2>2. CASE k \in 1..Len(rest)
    <3>1. place[j] < place[k]
      BY <1>7, <2>1, <2>2 DEF Filtered
    <3>2. QED
      BY <1>3, <2>1, <2>2, <3>1
  <2>3. CASE k = Len(rest) + 1
    <3>1. more[k] = n + 1 /\ more[j] \in 1..n
      BY <1>3, <2>1, <2>3
    <3>2. QED
      BY <3>1
  <2>4. QED
    BY <1>4, <2>2, <2>3
<1>8. ASSUME NEW i \in 1..(n + 1)
      PROVE  entries[i].id # id <=> \E j \in 1..Len(longer) : more[j] = i
  <2>1. CASE i = n + 1
    BY <1>3, <1>5, <2>1
  <2>2. CASE i # n + 1
    <3>1. i \in 1..n
      BY <2>2
    <3>2. entries[i].id # id <=> \E j \in 1..Len(rest) : place[j] = i
      BY <3>1 DEF Filtered
    <3>3. \A j \in 1..Len(longer) : more[j] = i => j \in 1..Len(rest) /\ place[j] = i
      BY <1>3, <1>4, <2>2
    <3>4. \A j \in 1..Len(rest) : place[j] = i => j \in 1..Len(longer) /\ more[j] = i
      BY <1>3, <1>5
    <3>5. QED
      BY <3>2, <3>3, <3>4
  <2>3. QED
    BY <2>1, <2>2
<1>9. more \in [1..Len(longer) -> 1..(n + 1)]
  BY <1>2, <1>3
<1>10. Filtered(entries, id, longer, n + 1, more)
  BY <1>6, <1>7, <1>8, <1>9 DEF Filtered
<1>11. QED
  BY <1>10 DEF longer

\* RequestQueue.cancel removes the entries of the identifier, all of them and
\* no other, and leaves the rest in the order they were queued in.
THEOREM CancelFilters ==
  ASSUME NEW S, NEW entries \in Seq(S), NEW id
  PROVE  /\ CancelEntry(entries, id) \in Seq(S)
         /\ \E place : Filtered(entries, id, CancelEntry(entries, id), Len(entries), place)
<1>1. PICK kept : /\ \A i \in 0..Len(entries) : kept[i] = Keeps(entries, id, kept, i)
                  /\ CancelEntry(entries, id) = kept[Len(entries)]
  BY CancelIsScan
<1> DEFINE Good(n) == kept[n] \in Seq(S) /\ \E place : Filtered(entries, id, kept[n], n, place)
           D == {n \in Nat : n <= Len(entries) => Good(n)}
<1>2. Len(entries) \in Nat
  OBVIOUS
<1>3. Good(0)
  <2>1. kept[0] = << >>
    BY <1>1, <1>2 DEF Keeps
  <2>2. Filtered(entries, id, << >>, 0, [j \in {} |-> 0])
    BY DEF Filtered
  <2>3. QED
    BY <2>1, <2>2
<1>4. ASSUME NEW n \in Nat, n + 1 <= Len(entries), Good(n) PROVE Good(n + 1)
  <2>1. PICK place : Filtered(entries, id, kept[n], n, place)
    BY <1>4
  <2>2. n + 1 \in 0..Len(entries) /\ n + 1 # 0 /\ (n + 1) - 1 = n
    BY <1>2, <1>4
  <2>3. kept[n + 1] = Keeps(entries, id, kept, n + 1)
    BY <1>1, <2>2
  <2>4. /\ entries[n + 1].id = id => kept[n + 1] = kept[n]
        /\ entries[n + 1].id # id => kept[n + 1] = Append(kept[n], entries[n + 1])
    BY <2>2, <2>3 DEF Keeps
  <2>5. entries[n + 1] \in S
    BY <1>2, <1>4
  <2>6. kept[n + 1] \in Seq(S)
    <3>1. kept[n] \in Seq(S)
      BY <1>4
    <3>2. Append(kept[n], entries[n + 1]) \in Seq(S)
      BY <2>5, <3>1
    <3>3. QED
      BY <2>4, <3>1, <3>2
  <2>7. CASE entries[n + 1].id = id
    <3>1. Filtered(entries, id, kept[n], n + 1, place)
      BY <1>4, <2>1, <2>7, FilterSkips
    <3>2. QED
      BY <2>4, <2>6, <2>7, <3>1
  <2>8. CASE entries[n + 1].id # id
    <3>1. \E more : Filtered(entries, id, Append(kept[n], entries[n + 1]), n + 1, more)
      BY <1>4, <2>1, <2>8, FilterKeeps
    <3>2. QED
      BY <2>4, <2>6, <2>8, <3>1
  <2>9. QED
    BY <2>7, <2>8
<1> HIDE DEF Good
<1>5. D = Nat
  <2>1. 0 \in D
    BY <1>3
  <2>2. \A n \in D : n + 1 \in D
    BY <1>2, <1>4
  <2>3. D \subseteq Nat
    OBVIOUS
  <2> HIDE DEF D
  <2>4. QED
    BY <2>1, <2>2, <2>3, Inductive
<1>6. Good(Len(entries))
  BY <1>2, <1>5
<1>7. QED
  BY <1>1, <1>6 DEF Good

-----------------------------------------------------------------------------
(* Selecting (largest_fit_scheduler).                                      *)

\* The fields two entries are compared by are numbers.
LEMMA EntryFields ==
  ASSUME NEW e \in Entry
  PROVE  e.required \in Nat /\ e.priority \in Nat /\ e.admitted \in Nat
BY DEF Entry

\* Smaller is a strict order: what is below one entry is below or beside it
\* and every other.
LEMMA SmallerOrders ==
  ASSUME NEW e \in Entry, NEW f \in Entry, NEW g \in Entry
  PROVE  /\ ~Smaller(e, e)
         /\ Smaller(e, f) => ~Smaller(f, e)
         /\ Smaller(e, g) => Smaller(e, f) \/ Smaller(f, g)
BY EntryFields DEF Smaller

\* Place i of the queue holds a fitting entry that no fitting entry of the
\* first n places exceeds.
Leads(entries, bytes, n, i) ==
  /\ i \in 1..n /\ Fits(entries[i], bytes)
  /\ \A j \in 1..n : Fits(entries[j], bytes) => ~Smaller(entries[i], entries[j])

\* Where some entry fits one of them leads.
LEMMA SomeLeads ==
  ASSUME NEW entries \in Seq(Entry), NEW bytes \in Nat,
         NEW i \in DOMAIN entries, Fits(entries[i], bytes)
  PROVE  \E k : Leads(entries, bytes, Len(entries), k)
<1> DEFINE Good(n) == (\E j \in 1..n : Fits(entries[j], bytes))
                         => \E k : Leads(entries, bytes, n, k)
           D == {n \in Nat : n <= Len(entries) => Good(n)}
<1>1. Len(entries) \in Nat /\ \A j \in 1..Len(entries) : entries[j] \in Entry
  OBVIOUS
<1>2. Good(0)
  OBVIOUS
<1>3. ASSUME NEW n \in Nat, n + 1 <= Len(entries), Good(n) PROVE Good(n + 1)
  <2>1. \A j \in 1..(n + 1) : entries[j] \in Entry /\ (j \in 1..n \/ j = n + 1)
    BY <1>1, <1>3
  <2>2. n + 1 \in 1..(n + 1) /\ 1..n \subseteq 1..(n + 1)
    OBVIOUS
  <2>3. CASE ~Fits(entries[n + 1], bytes)
    <3>1. SUFFICES ASSUME \E j \in 1..(n + 1) : Fits(entries[j], bytes)
                   PROVE  \E k : Leads(entries, bytes, n + 1, k)
      OBVIOUS
    <3>2. PICK k : Leads(entries, bytes, n, k)
      BY <1>3, <2>1, <2>3, <3>1
    <3>3. Leads(entries, bytes, n + 1, k)
      BY <2>1, <2>2, <2>3, <3>2 DEF Leads
    <3>4. QED
      BY <3>3
  <2>4. CASE Fits(entries[n + 1], bytes) /\ ~\E j \in 1..n : Fits(entries[j], bytes)
    <3>1. \A j \in 1..(n + 1) : Fits(entries[j], bytes) => j = n + 1
      BY <2>1, <2>4
    <3>2. ~Smaller(entries[n + 1], entries[n + 1])
      BY <2>1, <2>2, SmallerOrders
    <3>3. Leads(entries, bytes, n + 1, n + 1)
      BY <2>2, <2>4, <3>1, <3>2 DEF Leads
    <3>4. QED
      BY <3>3
  <2>5. CASE Fits(entries[n + 1], bytes) /\ \E j \in 1..n : Fits(entries[j], bytes)
    <3>1. PICK k : Leads(entries, bytes, n, k)
      BY <1>3, <2>5
    <3>2. k \in 1..n /\ Fits(entries[k], bytes)
          /\ \A j \in 1..n : Fits(entries[j], bytes) => ~Smaller(entries[k], entries[j])
      BY <3>1 DEF Leads
    <3>3. CASE Smaller(entries[k], entries[n + 1])
      <4>1. ASSUME NEW j \in 1..(n + 1), Fits(entries[j], bytes)
            PROVE  ~Smaller(entries[n + 1], entries[j])
        <5>1. j = n + 1 => ~Smaller(entries[n + 1], entries[j])
          BY <2>1, <2>2, SmallerOrders
        <5>2. ASSUME j \in 1..n PROVE ~Smaller(entries[n + 1], entries[j])
          <6>1. ~Smaller(entries[k], entries[j])
            BY <3>2, <4>1, <5>2
          <6>2. /\ entries[k] \in Entry /\ entries[j] \in Entry /\ entries[n + 1] \in Entry
            BY <2>1, <2>2, <3>2
          <6>3. Smaller(entries[k], entries[n + 1])
                  => Smaller(entries[k], entries[j]) \/ Smaller(entries[j], entries[n + 1])
            BY <6>2, SmallerOrders
          <6>4. Smaller(entries[j], entries[n + 1]) => ~Smaller(entries[n + 1], entries[j])
            BY <6>2, SmallerOrders
          <6>5. QED
            BY <3>3, <6>1, <6>3, <6>4
        <5>3. QED
          BY <2>1, <5>1, <5>2
      <4>2. Leads(entries, bytes, n + 1, n + 1)
        BY <2>2, <2>5, <4>1 DEF Leads
      <4>3. QED
        BY <4>2
    <3>4. CASE ~Smaller(entries[k], entries[n + 1])
      <4>1. Leads(entries, bytes, n + 1, k)
        BY <2>1, <2>2, <3>2, <3>4 DEF Leads
      <4>2. QED
        BY <4>1
    <3>5. QED
      BY <3>3, <3>4
  <2>6. QED
    BY <2>3, <2>4, <2>5
<1>4. D = Nat
  <2> HIDE DEF Good
  <2>1. 0 \in D
    BY <1>2
  <2>2. \A n \in D : n + 1 \in D
    BY <1>1, <1>3
  <2>3. D \subseteq Nat
    OBVIOUS
  <2> HIDE DEF D
  <2>4. QED
    BY <2>1, <2>2, <2>3, Inductive
<1>5. Good(Len(entries))
  <2> HIDE DEF Good
  <2>1. QED
    BY <1>1, <1>4
<1>6. i \in 1..Len(entries)
  OBVIOUS
<1>7. QED
  BY <1>5, <1>6

\* Place i of the queue holds the entry to select: it leads, and whatever
\* fits and was queued before it is smaller.
Selectable(entries, bytes, i) ==
  /\ Leads(entries, bytes, Len(entries), i)
  /\ \A j \in 1..(i - 1) : Fits(entries[j], bytes) => Smaller(entries[j], entries[i])

\* The leading places are those whose entries are the best.
Best(entries, bytes) ==
  LET candidates == {entries[i] : i \in {j \in DOMAIN entries : Fits(entries[j], bytes)}}
  IN {e \in candidates : \A f \in candidates : ~Smaller(e, f)}

LEMMA LeadingIsBest ==
  ASSUME NEW entries \in Seq(Entry), NEW bytes \in Nat, NEW i \in 1..Len(entries)
  PROVE  entries[i] \in Best(entries, bytes) <=> Leads(entries, bytes, Len(entries), i)
<1>1. DOMAIN entries = 1..Len(entries)
  OBVIOUS
<1> DEFINE candidates == {entries[k] : k \in {j \in DOMAIN entries : Fits(entries[j], bytes)}}
<1>2. \A e : e \in candidates <=> \E j \in 1..Len(entries) : Fits(entries[j], bytes) /\ e = entries[j]
  BY <1>1
<1>3. Best(entries, bytes) = {e \in candidates : \A f \in candidates : ~Smaller(e, f)}
  BY DEF Best
<1> HIDE DEF candidates
<1>4. entries[i] \in candidates <=> Fits(entries[i], bytes)
  BY <1>2 DEF Fits
<1>5. (\A f \in candidates : ~Smaller(entries[i], f))
        <=> \A j \in 1..Len(entries) : Fits(entries[j], bytes) => ~Smaller(entries[i], entries[j])
  BY <1>2
<1>6. QED
  BY <1>3, <1>4, <1>5 DEF Leads

\* The first leading place is the one to select.
LEMMA FirstIsSelectable ==
  ASSUME NEW entries \in Seq(Entry), NEW bytes \in Nat, NEW i \in 1..Len(entries),
         entries[i] \in Best(entries, bytes),
         \A j \in 1..(i - 1) : entries[j] \notin Best(entries, bytes)
  PROVE  Selectable(entries, bytes, i)
<1>1. Leads(entries, bytes, Len(entries), i)
  BY LeadingIsBest
<1>2. ASSUME NEW j \in 1..(i - 1), Fits(entries[j], bytes)
      PROVE  Smaller(entries[j], entries[i])
  <2>1. j \in 1..Len(entries) /\ \A k \in 1..Len(entries) : entries[k] \in Entry
    OBVIOUS
  <2>2. ~Leads(entries, bytes, Len(entries), j)
    BY <2>1, LeadingIsBest
  <2>3. PICK k \in 1..Len(entries) : Fits(entries[k], bytes) /\ Smaller(entries[j], entries[k])
    BY <1>2, <2>1, <2>2 DEF Leads
  <2>4. ~Smaller(entries[i], entries[k])
    BY <1>1, <2>3 DEF Leads
  <2>5. Smaller(entries[j], entries[k])
          => Smaller(entries[j], entries[i]) \/ Smaller(entries[i], entries[k])
    BY <2>1, SmallerOrders
  <2>6. QED
    BY <2>3, <2>4, <2>5
<1>3. QED
  BY <1>1, <1>2 DEF Selectable

\* largest_fit_scheduler selects nothing where nothing fits.  Where some
\* entry fits it selects exactly one: no fitting entry is larger, by bytes,
\* then priority, then admission time, and of equals it is the first queued.
THEOREM LargestFitSelects ==
  ASSUME NEW entries \in Seq(Entry), NEW bytes \in Nat
  PROVE  /\ (\A i \in DOMAIN entries : ~Fits(entries[i], bytes)) => LargestFit(entries, bytes) = {}
         /\ \A i \in DOMAIN entries : Fits(entries[i], bytes)
              => \E k \in DOMAIN entries : /\ LargestFit(entries, bytes) = {entries[k]}
                                           /\ Selectable(entries, bytes, k)
<1> DEFINE B == Best(entries, bytes)
           First(i) == entries[i] \in B /\ \A j \in 1..(i - 1) : entries[j] \notin B
<1>1. LargestFit(entries, bytes) = {entries[i] : i \in {j \in DOMAIN entries : First(j)}}
  BY DEF LargestFit, Best
<1>2. DOMAIN entries = 1..Len(entries) /\ Len(entries) \in Nat
  OBVIOUS
<1>3. \A i \in 1..Len(entries) : entries[i] \in B => Fits(entries[i], bytes)
  BY LeadingIsBest DEF Leads
<1>4. ASSUME NEW i \in 1..Len(entries), Fits(entries[i], bytes)
      PROVE  \E k \in 1..Len(entries) : First(k)
  <2> DEFINE T == {k \in 1..Len(entries) : entries[k] \in B}
  <2>1. PICK k : Leads(entries, bytes, Len(entries), k)
    BY <1>2, <1>4, SomeLeads
  <2>2. k \in T
    BY <2>1, LeadingIsBest DEF Leads
  <2>3. T \in SUBSET Nat /\ T # {}
    BY <2>2
  <2> HIDE DEF T, B
  <2>4. PICK l \in T : \A j \in T : l <= j
    BY <2>3, Least
  <2>5. l \in 1..Len(entries) /\ entries[l] \in B
    BY DEF T
  <2>6. ASSUME NEW j \in 1..(l - 1) PROVE entries[j] \notin B
    <3>1. j \in 1..Len(entries) /\ ~(l <= j)
      BY <1>2, <2>5
    <3>2. j \notin T
      BY <2>4, <3>1
    <3>3. QED
      BY <3>1, <3>2 DEF T
  <2>7. QED
    BY <2>5, <2>6
<1>5. ASSUME NEW i \in 1..Len(entries), NEW j \in 1..Len(entries), First(i), First(j)
      PROVE  i = j
  <2> HIDE DEF B
  <2>1. ~(i < j) /\ ~(j < i)
    BY <1>5
  <2>2. QED
    BY <2>1
<1>6. \A i \in 1..Len(entries) : First(i) => Selectable(entries, bytes, i)
  BY FirstIsSelectable
<1> HIDE DEF First
<1>7. ASSUME \A i \in DOMAIN entries : ~Fits(entries[i], bytes)
      PROVE  LargestFit(entries, bytes) = {}
  BY <1>1, <1>2, <1>3, <1>7 DEF First
<1>8. ASSUME NEW i \in 1..Len(entries), Fits(entries[i], bytes)
      PROVE  \E k \in 1..Len(entries) : /\ LargestFit(entries, bytes) = {entries[k]}
                                        /\ Selectable(entries, bytes, k)
  <2>1. PICK k \in 1..Len(entries) : First(k)
    BY <1>4, <1>8
  <2>2. {j \in DOMAIN entries : First(j)} = {k}
    BY <1>2, <1>5, <2>1
  <2>3. LargestFit(entries, bytes) = {entries[k]}
    BY <1>1, <2>2
  <2>4. QED
    BY <1>6, <2>1, <2>3
<1>9. QED
  BY <1>2, <1>7, <1>8

-----------------------------------------------------------------------------
(* What the queue reserves (_QueueHolder.reserved_bytes).                  *)

\* One step of the sum: what the first i entries require together.
Sums(entries, sum, i) == IF i = 0 THEN 0 ELSE sum[i - 1] + entries[i].required

\* The sums over the first n entries.
Summed(entries, sum, n) == sum = [i \in 0..n |-> Sums(entries, sum, i)]

\* Every queue can be summed to its end.
LEMMA SumExists ==
  ASSUME NEW entries
  PROVE  \A n \in Nat : \E sum : Summed(entries, sum, n)
<1> DEFINE D == {n \in Nat : \E sum : Summed(entries, sum, n)}
<1>1. 0 \in D
  <2>1. Summed(entries, [i \in 0..0 |-> 0], 0)
    BY DEF Summed, Sums
  <2>2. QED
    BY <2>1
<1>2. ASSUME NEW n \in D PROVE n + 1 \in D
  <2>1. PICK sum : Summed(entries, sum, n)
    OBVIOUS
  <2> DEFINE more == [i \in 0..(n + 1) |-> IF i = n + 1 THEN Sums(entries, sum, i) ELSE sum[i]]
  <2>2. \A i \in 0..n : more[i] = sum[i]
    OBVIOUS
  <2>3. \A i \in 0..(n + 1) : Sums(entries, more, i) = Sums(entries, sum, i)
    BY <2>2 DEF Sums
  <2>4. \A i \in 0..n : sum[i] = Sums(entries, sum, i)
    BY <2>1 DEF Summed
  <2>5. \A i \in 0..(n + 1) : more[i] = Sums(entries, more, i)
    BY <2>3, <2>4
  <2>6. more = [i \in 0..(n + 1) |-> more[i]]
    OBVIOUS
  <2> HIDE DEF more
  <2>7. Summed(entries, more, n + 1)
    BY <2>5, <2>6 DEF Summed
  <2>8. QED
    BY <2>7
<1>3. D = Nat
  <2> HIDE DEF D
  <2>1. D \subseteq Nat
    BY DEF D
  <2>2. QED
    BY <1>1, <1>2, <2>1, Inductive
<1>4. QED
  BY <1>3

\* ReservedBytes is the last of the sums.
LEMMA ReservedIsSum ==
  ASSUME NEW S, NEW entries \in Seq(S)
  PROVE  \E sum : /\ \A i \in 0..Len(entries) : sum[i] = Sums(entries, sum, i)
                  /\ ReservedBytes(entries) = sum[Len(entries)]
<1> DEFINE fixed == CHOOSE sum : sum = [i \in 0..Len(entries) |->
                                          IF i = 0 THEN 0 ELSE sum[i - 1] + entries[i].required]
<1>1. ReservedBytes(entries) = fixed[Len(entries)]
  BY DEF ReservedBytes
<1>2. \E sum : Summed(entries, sum, Len(entries))
  <2>1. Len(entries) \in Nat
    OBVIOUS
  <2>2. QED
    BY <2>1, SumExists
<1>3. Summed(entries, fixed, Len(entries))
  BY <1>2 DEF Summed, Sums
<1> HIDE DEF fixed
<1>4. \A i \in 0..Len(entries) : fixed[i] = Sums(entries, fixed, i)
  BY <1>3 DEF Summed
<1>5. QED
  BY <1>1, <1>4

\* Two sums over queues with the same beginning agree on it.
LEMMA SumsAgree ==
  ASSUME NEW s, NEW t, NEW a, NEW b, NEW last \in Nat,
         \A i \in 0..last : a[i] = Sums(s, a, i),
         \A i \in 0..last : b[i] = Sums(t, b, i),
         \A i \in 1..last : s[i].required \in Nat /\ t[i].required = s[i].required
  PROVE  a[last] = b[last] /\ a[last] \in Nat
<1> DEFINE D == {n \in Nat : n <= last => a[n] = b[n] /\ a[n] \in Nat}
<1>1. 0 \in D
  BY DEF Sums
<1>2. ASSUME NEW n \in D PROVE n + 1 \in D
  <2>1. SUFFICES ASSUME n + 1 <= last PROVE a[n + 1] = b[n + 1] /\ a[n + 1] \in Nat
    OBVIOUS
  <2>2. a[n] = b[n] /\ a[n] \in Nat
    BY <2>1
  <2>3. a[n + 1] = a[n] + s[n + 1].required /\ b[n + 1] = b[n] + t[n + 1].required
    <3>1. n + 1 \in 0..last /\ n + 1 # 0 /\ (n + 1) - 1 = n
      BY <2>1
    <3>2. QED
      BY <3>1 DEF Sums
  <2>4. s[n + 1].required \in Nat /\ t[n + 1].required = s[n + 1].required
    BY <2>1
  <2>5. QED
    BY <2>2, <2>3, <2>4
<1>3. D = Nat
  <2> HIDE DEF D
  <2>1. D \subseteq Nat
    BY DEF D
  <2>2. QED
    BY <1>1, <1>2, <2>1, Inductive
<1>4. QED
  BY <1>3

\* Queueing a request (RequestQueue.add) reserves what it requires, on top of
\* what was reserved; an empty queue reserves nothing.
THEOREM QueueingReserves ==
  /\ ReservedBytes(<< >>) = 0
  /\ \A entries \in Seq(Entry), e \in Entry :
       /\ ReservedBytes(entries) \in Nat
       /\ ReservedBytes(AddEntry(entries, e)) = ReservedBytes(entries) + e.required
<1>1. ReservedBytes(<< >>) = 0
  <2>1. PICK sum : /\ \A i \in 0..Len(<< >>) : sum[i] = Sums(<< >>, sum, i)
                   /\ ReservedBytes(<< >>) = sum[Len(<< >>)]
    <3>1. << >> \in Seq(Entry)
      OBVIOUS
    <3>2. QED
      BY <3>1, ReservedIsSum
  <2>2. Len(<< >>) = 0
    OBVIOUS
  <2>3. QED
    BY <2>1, <2>2 DEF Sums
<1>2. ASSUME NEW entries \in Seq(Entry), NEW e \in Entry
      PROVE  /\ ReservedBytes(entries) \in Nat
             /\ ReservedBytes(AddEntry(entries, e)) = ReservedBytes(entries) + e.required
  <2>1. PICK n \in Nat : n = Len(entries)
    OBVIOUS
  <2>2. PICK longer \in Seq(Entry) :
          /\ longer = Append(entries, e) /\ Len(longer) = n + 1 /\ longer[n + 1] = e
          /\ \A i \in 1..n : longer[i] = entries[i] /\ entries[i].required \in Nat
    <3>1. ASSUME NEW i \in 1..n PROVE entries[i].required \in Nat
      <4>1. entries[i] \in Entry
        BY <2>1
      <4>2. QED
        BY <4>1, EntryFields
    <3>2. /\ Append(entries, e) \in Seq(Entry) /\ Len(Append(entries, e)) = n + 1
          /\ Append(entries, e)[n + 1] = e
          /\ \A i \in 1..n : Append(entries, e)[i] = entries[i]
      BY <2>1
    <3>3. QED
      BY <3>1, <3>2
  <2>3. PICK a : /\ \A i \in 0..n : a[i] = Sums(entries, a, i)
                 /\ ReservedBytes(entries) = a[n]
    BY <2>1, ReservedIsSum
  <2>4. PICK b : /\ \A i \in 0..(n + 1) : b[i] = Sums(longer, b, i)
                 /\ ReservedBytes(longer) = b[n + 1]
    BY <2>2, ReservedIsSum
  <2>5. a[n] = b[n] /\ a[n] \in Nat
    <3>1. \A i \in 0..n : a[i] = Sums(entries, a, i)
      BY <2>3
    <3>2. \A i \in 0..n : b[i] = Sums(longer, b, i)
      <4>1. \A i \in 0..n : i \in 0..(n + 1)
        OBVIOUS
      <4>2. QED
        BY <2>4, <4>1
    <3>3. \A i \in 1..n : entries[i].required \in Nat /\ longer[i].required = entries[i].required
      BY <2>2
    <3>4. QED
      BY <3>1, <3>2, <3>3, SumsAgree
  <2>6. b[n + 1] = b[n] + longer[n + 1].required
    <3>1. n + 1 \in 0..(n + 1) /\ n + 1 # 0 /\ (n + 1) - 1 = n
      OBVIOUS
    <3>2. QED
      BY <2>4, <3>1 DEF Sums
  <2>7. QED
    BY <2>2, <2>3, <2>4, <2>5, <2>6 DEF AddEntry
<1>3. QED
  BY <1>1, <1>2

\* Cancelling a request (RequestQueue.cancel) releases at least what an entry
\* of it had reserved, and whoever is cancelled no more is reserved than was.
THEOREM CancelReleases ==
  ASSUME NEW entries \in Seq(Entry), NEW id
  PROVE  /\ ReservedBytes(CancelEntry(entries, id)) <= ReservedBytes(entries)
         /\ \A i \in DOMAIN entries : entries[i].id = id =>
              ReservedBytes(CancelEntry(entries, id)) + entries[i].required <= ReservedBytes(entries)
<1>1. PICK kept : /\ \A n \in 0..Len(entries) : kept[n] = Keeps(entries, id, kept, n)
                  /\ CancelEntry(entries, id) = kept[Len(entries)]
  BY CancelIsScan
<1>2. PICK sum : /\ \A n \in 0..Len(entries) : sum[n] = Sums(entries, sum, n)
                 /\ ReservedBytes(entries) = sum[Len(entries)]
  BY ReservedIsSum
<1>3. PICK last \in Nat : last = Len(entries)
  OBVIOUS
<1>4. \A n \in 1..last : entries[n] \in Entry /\ entries[n].required \in Nat
  <2>1. \A n \in 1..last : entries[n] \in Entry
    BY <1>3
  <2>2. QED
    BY <2>1, EntryFields
<1>5. ASSUME NEW i \in Nat, i = 0 \/ (i \in 1..last /\ entries[i].id = id)
      PROVE  \A n \in 0..last :
               /\ kept[n] \in Seq(Entry)
               /\ sum[n] \in Nat
               /\ ReservedBytes(kept[n]) <= sum[n]
               /\ 0 < i /\ i <= n => ReservedBytes(kept[n]) + entries[i].required <= sum[n]
  <2> DEFINE Good(n) == /\ kept[n] \in Seq(Entry)
                        /\ sum[n] \in Nat
                        /\ ReservedBytes(kept[n]) <= sum[n]
                        /\ 0 < i /\ i <= n => ReservedBytes(kept[n]) + entries[i].required <= sum[n]
             D == {n \in Nat : n <= last => Good(n)}
  <2>1. 0 \in D
    <3>1. kept[0] = << >> /\ sum[0] = 0
      BY <1>1, <1>2, <1>3 DEF Keeps, Sums
    <3>2. << >> \in Seq(Entry) /\ ReservedBytes(<< >>) = 0
      BY QueueingReserves
    <3>3. Good(0)
      BY <3>1, <3>2
    <3>4. QED
      BY <3>3
  <2>2. ASSUME NEW n \in D PROVE n + 1 \in D
    <3>1. SUFFICES ASSUME n + 1 <= last PROVE Good(n + 1)
      OBVIOUS
    <3>2. n \in 0..last /\ n + 1 \in 1..last /\ n + 1 \in 0..last /\ n + 1 # 0 /\ (n + 1) - 1 = n
      BY <3>1
    <3>3. Good(n)
      BY <3>2
    <3>4. sum[n + 1] = sum[n] + entries[n + 1].required
      BY <1>2, <1>3, <3>2 DEF Sums
    <3>5. kept[n + 1] = IF entries[n + 1].id = id THEN kept[n] ELSE Append(kept[n], entries[n + 1])
      BY <1>1, <1>3, <3>2 DEF Keeps
    <3>6. entries[n + 1] \in Entry /\ entries[n + 1].required \in Nat
      BY <1>4, <3>2
    <3>7. ReservedBytes(kept[n]) \in Nat
      BY <3>3, <3>6, QueueingReserves
    <3>8. CASE entries[n + 1].id = id
      <4>1. kept[n + 1] = kept[n]
        BY <3>5, <3>8
      <4>2. kept[n + 1] \in Seq(Entry) /\ sum[n + 1] \in Nat
            /\ ReservedBytes(kept[n + 1]) <= sum[n + 1]
        BY <3>3, <3>4, <3>6, <3>7, <4>1
      <4>3. CASE i = n + 1
        BY <3>3, <3>4, <3>6, <3>7, <4>1, <4>2, <4>3
      <4>4. CASE 0 < i /\ i <= n
        <5>1. entries[i].required \in Nat
          BY <1>4, <1>5, <4>4
        <5>2. ReservedBytes(kept[n]) + entries[i].required <= sum[n]
          BY <3>3, <4>4
        <5>3. QED
          BY <3>3, <3>4, <3>6, <3>7, <4>1, <4>2, <5>1, <5>2
      <4>5. QED
        BY <3>2, <4>2, <4>3, <4>4
    <3>9. CASE entries[n + 1].id # id
      <4>1. kept[n + 1] = Append(kept[n], entries[n + 1]) /\ kept[n + 1] \in Seq(Entry)
        BY <3>3, <3>5, <3>6, <3>9
      <4>2. ReservedBytes(kept[n + 1]) = ReservedBytes(kept[n]) + entries[n + 1].required
        BY <3>3, <3>6, <4>1, QueueingReserves DEF AddEntry
      <4>3. i # n + 1
        BY <1>5, <3>9
      <4>4. 0 < i => entries[i].required \in Nat
        BY <1>4, <1>5
      <4>5. QED
        BY <3>2, <3>3, <3>4, <3>6, <3>7, <4>1, <4>2, <4>3, <4>4
    <3>10. QED
      BY <3>8, <3>9
  <2>3. D = Nat
    <3> HIDE DEF D
    <3>1. D \subseteq Nat
      BY DEF D
    <3>2. QED
      BY <2>1, <2>2, <3>1, Inductive
  <2>4. QED
    BY <2>3
<1>6. ReservedBytes(CancelEntry(entries, id)) <= ReservedBytes(entries)
  <2>1. last \in 0..last
    OBVIOUS
  <2>2. ReservedBytes(kept[last]) <= sum[last]
    BY <1>5, <2>1
  <2>3. QED
    BY <1>1, <1>2, <1>3, <2>2
<1>7. ASSUME NEW i \in DOMAIN entries, entries[i].id = id
      PROVE  ReservedBytes(CancelEntry(entries, id)) + entries[i].required <= ReservedBytes(entries)
  <2>1. i \in Nat /\ i \in 1..last /\ last \in 0..last /\ 0 < i /\ i <= last
    BY <1>3
  <2>2. ReservedBytes(kept[last]) + entries[i].required <= sum[last]
    BY <1>5, <1>7, <2>1
  <2>3. QED
    BY <1>1, <1>2, <1>3, <2>2
<1>8. QED
  BY <1>6, <1>7

-----------------------------------------------------------------------------
(* The inductive invariant.                                                *)

\* Entries whose requests have been answered "queued".
Answered == {e \in Entry : e.id \in answered}

\* A request that is answered waits for its delivery, and no other carries
\* an outcome; one that is being served has an identifier.
Serving ==
  /\ req.outcome # "none" => req.pc = "reply"
  /\ req.pc # "idle" => req.id \in Requests

\* What is queued or selected was answered "queued".
QueueInv ==
  /\ TypeOK /\ Serving
  /\ queue \in Seq(Answered) /\ selected \subseteq Answered
  /\ QueuedIsInQueue /\ LaunchesAreQueuedAndFit

\* A sequence over a set is one over every larger set.
LEMMA SeqGrows ==
  ASSUME NEW S, NEW T, S \subseteq T, NEW s \in Seq(S)
  PROVE  s \in Seq(T)
OBVIOUS

\* At most one entry is selected, and it is one of the queue.
LEMMA SelectionType ==
  ASSUME NEW S, S \subseteq Entry, NEW entries \in Seq(S), NEW bytes \in Nat
  PROVE  LargestFit(entries, bytes) \subseteq S /\ Cardinality(LargestFit(entries, bytes)) <= 1
<1>1. entries \in Seq(Entry) /\ \A i \in DOMAIN entries : entries[i] \in S
  BY SeqGrows
<1>2. \/ LargestFit(entries, bytes) = {}
      \/ \E k \in DOMAIN entries : LargestFit(entries, bytes) = {entries[k]}
  BY <1>1, LargestFitSelects
<1>3. CASE LargestFit(entries, bytes) = {}
  BY <1>3, FS_EmptySet
<1>4. CASE \E k \in DOMAIN entries : LargestFit(entries, bytes) = {entries[k]}
  <2>1. PICK k \in DOMAIN entries : LargestFit(entries, bytes) = {entries[k]}
    BY <1>4
  <2>2. Cardinality({entries[k]}) = 1
    BY FS_Singleton
  <2>3. QED
    BY <1>1, <2>1, <2>2
<1>5. QED
  BY <1>2, <1>3, <1>4

\* Nothing is queued to begin with.
LEMMA InitQueueInv == Init => QueueInv
<1> SUFFICES ASSUME Init PROVE QueueInv
  OBVIOUS
<1> USE DEF Init, ChatInit
<1>1. req \in Request /\ req.pc = "idle" /\ req.outcome = "none"
  BY DEF NoneServed, Request, Outcomes
<1>2. now \in 0..MaxTime
  BY DispatchAssumption
<1>3. Cardinality(selected) <= 1 /\ Cardinality(launched) <= 1
  BY FS_EmptySet
<1>4. TypeOK
  BY <1>1, <1>2, <1>3 DEF TypeOK, ChatTypeOK
<1>5. QED
  BY <1>1, <1>4 DEF QueueInv, Serving, QueuedIsInQueue, LaunchesAreQueuedAndFit

\* What a step of the handler leaves to be shown: the types of what it
\* writes, and that a request answered "queued" is in the queue.
LEMMA HandlerSuffices ==
  ASSUME QueueInv, UNCHANGED <<now, usable, selected, launched>>,
         answered' = IF req'.outcome = "queued" THEN answered \cup {req'.id} ELSE answered,
         switching' \in SUBSET Models, req' \in Request, Serving',
         queue' \in Seq(Answered'), QueuedIsInQueue'
  PROVE  QueueInv'
<1>1. answered \subseteq answered' /\ answered' \in SUBSET Requests
  BY DEF QueueInv, TypeOK, Serving
<1>2. Answered \subseteq Answered' /\ Answered' \subseteq Entry
  BY <1>1 DEF Answered
<1>3. queue' \in Seq(Entry)
  BY <1>2, SeqGrows
<1>4. TypeOK'
  BY <1>1, <1>3 DEF QueueInv, TypeOK, ChatTypeOK
<1>5. selected' \subseteq Answered'
  BY <1>2 DEF QueueInv
<1>6. LaunchesAreQueuedAndFit'
  BY <1>1 DEF QueueInv, LaunchesAreQueuedAndFit
<1>7. QED
  BY <1>4, <1>5, <1>6 DEF QueueInv

\* A step that leaves the queue alone and answers no request "queued" that
\* was not, or leaves the request alone as well.
LEMMA QueueAlone ==
  ASSUME QueueInv, UNCHANGED <<now, usable, selected, launched>>,
         answered' = IF req'.outcome = "queued" THEN answered \cup {req'.id} ELSE answered,
         switching' \in SUBSET Models, req' \in Request, Serving', queue' = queue,
         req'.outcome # "queued" \/ req' = req
  PROVE  QueueInv'
<1>1. answered \subseteq answered'
  OBVIOUS
<1>2. Answered \subseteq Answered'
  BY <1>1 DEF Answered
<1>3. queue' \in Seq(Answered')
  BY <1>2, SeqGrows DEF QueueInv
<1>4. QueuedIsInQueue'
  BY DEF QueueInv, QueuedIsInQueue
<1>5. QED
  BY <1>3, <1>4, HandlerSuffices

\* Queueing: the entry made of the request is the last of the queue.
LEMMA ChatQueueKeeps ==
  ASSUME QueueInv, NEW priority \in Priorities, ChatQueue(now, priority),
         UNCHANGED <<now, usable, selected, launched>>,
         answered' = IF req'.outcome = "queued" THEN answered \cup {req'.id} ELSE answered
  PROVE  QueueInv'
<1> DEFINE e == [id |-> req.id, required |-> Bytes(req.tokens), priority |-> priority,
                 admitted |-> now, expires |-> now + QueueTtl]
<1>1. req \in Request /\ req.pc = "decide" /\ req.id \in Requests /\ now \in Nat
  BY DEF QueueInv, TypeOK, ChatTypeOK, Serving, ChatQueue, Deciding
<1>2. req' = [req EXCEPT !.pc = "reply", !.outcome = "queued"] /\ queue' = Append(queue, e)
      /\ switching' = switching
  BY DEF ChatQueue, Reply, AddEntry
<1>3. req.tokens \in Nat
  BY <1>1 DEF Request
<1>4. Bytes(req.tokens) \in Nat
  BY <1>3, AdmissionAssumption DEF Bytes, DynamicVramRequirement
<1>5. priority \in Nat /\ now + QueueTtl \in Nat
  BY <1>1, AdmissionAssumption
<1>6. e \in Entry /\ e.id = req.id
  BY <1>1, <1>4, <1>5 DEF Entry
<1> HIDE DEF e
<1>7. req' \in Request /\ req'.outcome = "queued" /\ req'.pc = "reply" /\ req'.id = req.id
  BY <1>1, <1>2 DEF Request, Outcomes
<1>8. answered' = answered \cup {req.id}
  BY <1>7
<1>9. e \in Answered' /\ Answered \subseteq Answered'
  BY <1>6, <1>8 DEF Answered
<1>10. queue \in Seq(Answered')
  BY <1>9, SeqGrows DEF QueueInv
<1>11. queue' \in Seq(Answered') /\ Len(queue) + 1 \in DOMAIN queue' /\ queue'[Len(queue) + 1] = e
  BY <1>2, <1>9, <1>10
<1>12. QueuedIsInQueue'
  BY <1>6, <1>7, <1>11 DEF QueuedIsInQueue
<1>13. Serving'
  BY <1>1, <1>7 DEF Serving
<1>14. switching' \in SUBSET Models
  BY <1>2 DEF QueueInv, TypeOK, ChatTypeOK
<1>15. QED
  BY <1>7, <1>11, <1>12, <1>13, <1>14, HandlerSuffices

\* Cancelling, between two requests.
LEMMA CancelKeeps ==
  ASSUME QueueInv, NEW id \in Requests, Cancel(id),
         UNCHANGED <<now, usable, selected, launched>>,
         answered' = IF req'.outcome = "queued" THEN answered \cup {req'.id} ELSE answered
  PROVE  QueueInv'
<1>1. req' = req /\ switching' = switching /\ req.pc = "idle" /\ queue' = CancelEntry(queue, id)
  BY DEF Cancel
<1>2. req.outcome = "none" /\ req \in Request /\ switching \in SUBSET Models
  BY <1>1 DEF QueueInv, Serving, TypeOK, ChatTypeOK
<1>3. answered' = answered
  BY <1>1, <1>2
<1>4. queue' \in Seq(Answered)
  BY <1>1, CancelFilters DEF QueueInv
<1>5. queue' \in Seq(Answered')
  BY <1>3, <1>4 DEF Answered
<1>6. Serving' /\ QueuedIsInQueue'
  BY <1>1, <1>2 DEF QueueInv, Serving, QueuedIsInQueue
<1>7. QED
  BY <1>1, <1>2, <1>5, <1>6, HandlerSuffices

\* A request is taken up, or refused because its model cannot be sized.
LEMMA ArrivalKeeps ==
  ASSUME QueueInv, NEW op \in {"chat", "estimate"}, NEW id \in Requests, NEW m \in Models,
         Refuse(op, id, m) \/ \E tokens \in TokenCounts : Arrive(op, id, m, tokens),
         UNCHANGED <<now, usable, selected, launched>>,
         answered' = IF req'.outcome = "queued" THEN answered \cup {req'.id} ELSE answered
  PROVE  QueueInv'
<1>1. NoneServed \in Request
  BY DEF NoneServed, Request, Outcomes
<1>2. CASE Refuse(op, id, m)
  <2>1. req' \in Request /\ req'.id = id /\ req'.outcome = "failed" /\ req'.pc = "reply"
    BY <1>1, <1>2 DEF Refuse, NoneServed, Request, Outcomes
  <2>2. queue' = queue /\ switching' = switching
    BY <1>2 DEF Refuse
  <2>3. Serving' /\ switching' \in SUBSET Models
    BY <2>1, <2>2 DEF Serving, QueueInv, TypeOK, ChatTypeOK
  <2>4. QED
    BY <2>1, <2>2, <2>3, QueueAlone
<1>3. CASE \E tokens \in TokenCounts : Arrive(op, id, m, tokens)
  <2>1. PICK tokens \in TokenCounts : Arrive(op, id, m, tokens)
    BY <1>3
  <2>2. req' \in Request /\ req'.id = id /\ req'.outcome = "none" /\ req'.pc = "capacity"
    BY <1>1, <2>1, AdmissionAssumption DEF Arrive, NoneServed, Request, Outcomes
  <2>3. queue' = queue /\ switching' = switching
    BY <2>1 DEF Arrive
  <2>4. Serving' /\ switching' \in SUBSET Models
    BY <2>2, <2>3 DEF Serving, QueueInv, TypeOK, ChatTypeOK
  <2>5. QED
    BY <2>2, <2>3, <2>4, QueueAlone
<1>4. QED
  BY <1>2, <1>3

\* The request being served goes on: its capacity is taken, it is decided,
\* executed or delivered.
LEMMA ServedKeeps ==
  ASSUME QueueInv,
         \/ \E pool, free \in Figures : TakeCapacity(pool, free)
         \/ Estimate \/ ChatReject \/ ChatExecute \/ RuntimeReturns \/ Deliver,
         UNCHANGED <<now, usable, selected, launched>>,
         answered' = IF req'.outcome = "queued" THEN answered \cup {req'.id} ELSE answered
  PROVE  QueueInv'
<1>1. req \in Request /\ switching \in SUBSET Models /\ Serving
  BY DEF QueueInv, TypeOK, ChatTypeOK
<1>2. /\ queue' = queue /\ switching' = switching
      /\ req' \in Request /\ Serving' /\ req'.outcome # "queued"
  <2>1. CASE \E pool, free \in Figures : TakeCapacity(pool, free)
    <3>1. PICK pool \in Figures, free \in Figures : TakeCapacity(pool, free)
      BY <2>1
    <3>2. pool \in Nat /\ free \in Nat
      BY AdmissionAssumption
    <3>3. QED
      BY <1>1, <3>1, <3>2 DEF TakeCapacity, Request, Serving
  <2>2. CASE Estimate
    BY <1>1, <2>2 DEF Estimate, Deciding, Reply, Request, Outcomes, Serving
  <2>3. CASE ChatReject
    BY <1>1, <2>3 DEF ChatReject, Deciding, Reply, Request, Outcomes, Serving
  <2>4. CASE ChatExecute
    BY <1>1, <2>4 DEF ChatExecute, Deciding, Request, Serving
  <2>5. CASE RuntimeReturns
    BY <1>1, <2>5 DEF RuntimeReturns, Execute, Reply, Request, Outcomes, Serving
  <2>6. CASE Deliver
    BY <1>1, <2>6 DEF Deliver, NoneServed, Request, Outcomes, Serving
  <2>7. QED
    BY <2>1, <2>2, <2>3, <2>4, <2>5, <2>6
<1>3. QED
  BY <1>1, <1>2, QueueAlone

\* Every step of the handler.
LEMMA HandlerKeeps ==
  ASSUME QueueInv, Handler
  PROVE  QueueInv'
<1>1. /\ ChatNext({now})
      /\ answered' = IF req'.outcome = "queued" THEN answered \cup {req'.id} ELSE answered
      /\ UNCHANGED <<now, usable, selected, launched>>
  BY DEF Handler
<1>2. CASE \E op \in {"chat", "estimate"}, id \in Requests, m \in Models :
             Refuse(op, id, m) \/ \E tokens \in TokenCounts : Arrive(op, id, m, tokens)
  BY <1>1, <1>2, ArrivalKeeps
<1>3. CASE \/ \E pool, free \in Figures : TakeCapacity(pool, free)
           \/ Estimate \/ ChatReject \/ ChatExecute \/ RuntimeReturns \/ Deliver
  BY <1>1, <1>3, ServedKeeps
<1>4. CASE \E priority \in Priorities : ChatQueue(now, priority)
  BY <1>1, <1>4, ChatQueueKeeps
<1>5. CASE \E id \in Requests : Cancel(id)
  BY <1>1, <1>5, CancelKeeps
<1>6. CASE \E m \in Models : SwitchMoves(m)
  <2>1. PICK m \in Models : SwitchMoves(m)
    BY <1>6
  <2>2. queue' = queue /\ req' = req /\ switching' \in SUBSET Models
    BY <2>1 DEF SwitchMoves, QueueInv, TypeOK, ChatTypeOK
  <2>3. req' \in Request /\ Serving'
    BY <2>2 DEF QueueInv, TypeOK, ChatTypeOK, Serving
  <2>4. QED
    BY <1>1, <2>2, <2>3, QueueAlone
<1>7. QED
  BY <1>1, <1>2, <1>3, <1>4, <1>5, <1>6 DEF ChatNext, HandlerStep

\* The dispatcher selects.
LEMMA SelectKeeps ==
  ASSUME QueueInv, Select
  PROVE  QueueInv'
<1>1. queue \in Seq(Answered) /\ Answered \subseteq Entry /\ usable \in Nat
  BY AdmissionAssumption DEF QueueInv, Answered, TypeOK
<1>2. selected' \subseteq Answered /\ Cardinality(selected') <= 1
  BY <1>1, SelectionType DEF Select
<1>3. Answered' = Answered
  BY DEF Select, Answered
<1>4. TypeOK'
  BY <1>1, <1>2 DEF Select, QueueInv, TypeOK, ChatTypeOK, chatVars
<1>5. QED
  BY <1>2, <1>3, <1>4
     DEF Select, QueueInv, Serving, QueuedIsInQueue, LaunchesAreQueuedAndFit, chatVars

\* The dispatcher reads again and launches or lets go.
LEMMA RecheckKeeps ==
  ASSUME QueueInv, Recheck
  PROVE  QueueInv'
<1>1. PICK e \in selected : launched' = IF Fits(e, usable)
                                          THEN {[entry |-> e, usable |-> usable]}
                                          ELSE launched
  BY DEF Recheck
<1>2. /\ selected' = {} /\ now' = now /\ usable' = usable /\ answered' = answered
      /\ switching' = switching /\ queue' = queue /\ req' = req
  BY DEF Recheck, chatVars
<1>3. e \in Entry /\ e.id \in answered /\ usable \in Figures
  BY DEF QueueInv, Answered, TypeOK
<1>4. launched' \subseteq Launch /\ Cardinality(launched') <= 1
  <2>1. CASE Fits(e, usable)
    <3>1. Cardinality(launched') = 1
      BY <1>1, <2>1, FS_Singleton
    <3>2. QED
      BY <1>1, <1>3, <2>1, <3>1 DEF Launch
  <2>2. CASE ~Fits(e, usable)
    BY <1>1, <2>2 DEF QueueInv, TypeOK
  <2>3. QED
    BY <2>1, <2>2
<1>5. TypeOK'
  BY <1>2, <1>4, FS_EmptySet DEF QueueInv, TypeOK, ChatTypeOK
<1>6. LaunchesAreQueuedAndFit'
  BY <1>1, <1>2, <1>3 DEF QueueInv, LaunchesAreQueuedAndFit, Fits
<1>7. QED
  BY <1>2, <1>5, <1>6 DEF QueueInv, Serving, QueuedIsInQueue, Answered

\* The capacity and the clock move, or nothing does.
LEMMA BesideKeeps ==
  ASSUME QueueInv, CapacityMoves \/ Tick \/ UNCHANGED vars
  PROVE  QueueInv'
<1>1. UNCHANGED <<switching, queue, req, selected, answered, launched>>
  BY DEF CapacityMoves, Tick, vars, chatVars, dispatchVars
<1>2. usable' \in Figures /\ now' \in 0..MaxTime
  BY DispatchAssumption DEF CapacityMoves, Tick, vars, dispatchVars, QueueInv, TypeOK
<1>3. TypeOK'
  BY <1>1, <1>2 DEF QueueInv, TypeOK, ChatTypeOK
<1>4. QED
  BY <1>1, <1>3 DEF QueueInv, Serving, QueuedIsInQueue, LaunchesAreQueuedAndFit, Answered

-----------------------------------------------------------------------------
(* The theorems.                                                           *)

\* Requests, queue and dispatcher stay in their types and in step with what
\* has been answered.
THEOREM QueueInvariant == Spec => []QueueInv
<1>1. QueueInv /\ [Next]_vars => QueueInv'
  BY HandlerKeeps, SelectKeeps, RecheckKeeps, BesideKeeps DEF Next
<1>2. QED
  BY InitQueueInv, <1>1, PTL DEF Spec

\* Type correctness; in particular the dispatcher never holds two entries
\* between its two readings.
THEOREM TypeCorrect == Spec => []TypeOK
<1>1. QueueInv => TypeOK
  BY DEF QueueInv
<1>2. QED
  BY QueueInvariant, <1>1, PTL

\* A request answered "queued" is in the queue when it is answered, whatever
\* the dispatcher has selected and whoever cancels.
THEOREM QueuedIsQueued == Spec => []QueuedIsInQueue
<1>1. QueueInv => QueuedIsInQueue
  BY DEF QueueInv
<1>2. QED
  BY QueueInvariant, <1>1, PTL

\* Only requests answered "queued" are launched, and only against a reading
\* they fit, taken after the one that selected them.
THEOREM LaunchesFit == Spec => []LaunchesAreQueuedAndFit
<1>1. QueueInv => LaunchesAreQueuedAndFit
  BY DEF QueueInv
<1>2. QED
  BY QueueInvariant, <1>1, PTL
=============================================================================
