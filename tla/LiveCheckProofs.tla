--------------------------- MODULE LiveCheckProofs ---------------------------
(***************************************************************************)
(* A run that passes had every outcome its checks assert, a run nobody     *)
(* disturbs does not fail and leaves the served weights alone, and a purge *)
(* stays in its scope and answers truly, for every set of namespaces,      *)
(* sessions and files.                                                     *)
(***************************************************************************)
EXTENDS LiveCheck, SequenceTheorems, FiniteSetTheorems, TLAPS

-----------------------------------------------------------------------------
(* The verdict on one call.                                                *)

\* Outcomes that the encoding of a command's result can tell from success.
Telling(command, result) ==
  \/ command \in Flagged \cup {"local_model_switch"}
  \/ result \in Done
  \/ result = "error"

LEMMA VerdictIsHonest ==
  ASSUME NEW check, NEW command, NEW result, Telling(command, result),
         Accepted(check, command, Reply(command, result))
  PROVE  result \in Asserted(check, command)
<1>1. Unwrap(Reply(command, result)) = Result(command, result)
  BY DEF Unwrap, Reply, Result
<1>2. CASE check # "commands-live"
  BY <1>1, <1>2 DEF Accepted, Result
<1>3. CASE check = "commands-live" /\ command = "local_model_unload"
  BY <1>1, <1>3 DEF Accepted, Result, Asserted
<1>4. CASE check = "commands-live" /\ command # "local_model_unload"
  <2>1. Succeeded(Reply(command, result))
    BY <1>4 DEF Accepted
  <2>2. result \in Done
    BY <1>1, <2>1 DEF Succeeded, Result, Telling, Done
  <2>3. QED
    BY <1>4, <2>2 DEF Asserted
<1>5. QED
  BY <1>2, <1>3, <1>4

LEMMA InlineTells ==
  ASSUME NEW command, NEW beside, command \notin Flagged
  PROVE  InlineOutcome(command, beside) \in Done
BY DEF InlineOutcome, Flagged, Done

-----------------------------------------------------------------------------
(* The run.                                                                *)

Settled == {NoReply, Waiting, Lost}

AnswersAreHonest ==
  reply \in Settled
  \/ (Accepted(Check, Call, reply) => outcome \in Asserted(Check, Call))

FailureIsKept ==
  held \/ failed \/ exit = "failed" \/ (failing /\ at.call # 0)

NothingBetween == at.call = 0 => reply = NoReply

HeldInv ==
  /\ at \in [check : Nat, call : Nat]
  /\ held \in BOOLEAN /\ failing \in BOOLEAN /\ failed \in BOOLEAN
  /\ at.check > Len(Checks) => at.call = 0
  /\ NothingBetween
  /\ AnswersAreHonest
  /\ FailureIsKept
  /\ PassedMeansHeld

LEMMA ThreeChecks == Len(Checks) = 3
BY DEF Checks

LEMMA InitHeld == Init => HeldInv
<1> SUFFICES ASSUME Init PROVE HeldInv
  OBVIOUS
<1> USE DEF Init
<1>1. at \in [check : Nat, call : Nat] /\ at.call = 0
  OBVIOUS
<1>2. AnswersAreHonest
  BY DEF AnswersAreHonest, Settled
<1>3. NothingBetween /\ FailureIsKept /\ PassedMeansHeld
  BY DEF NothingBetween, FailureIsKept, PassedMeansHeld
<1>4. QED
  BY <1>1, <1>2, <1>3 DEF HeldInv

\* Nothing of the run moves but its reply.
LEMMA ReplyKeeps ==
  ASSUME HeldInv, UNCHANGED <<at, failing, failed, exit, held>>, AnswersAreHonest',
         at.call # 0 \/ UNCHANGED reply
  PROVE  HeldInv'
BY DEF HeldInv, NothingBetween, FailureIsKept, PassedMeansHeld

LEMMA SameReply ==
  ASSUME HeldInv, UNCHANGED <<at, reply, outcome>>
  PROVE  AnswersAreHonest'
BY DEF HeldInv, AnswersAreHonest, Check, Call

LEMMA NewReply ==
  ASSUME NEW result, reply' = Reply(Call, result), outcome' = result,
         Telling(Call, result), UNCHANGED at
  PROVE  AnswersAreHonest'
<1>1. Check' = Check /\ Call' = Call
  BY DEF Check, Call
<1>2. QED
  BY <1>1, VerdictIsHonest DEF AnswersAreHonest

LEMMA CallDoneKeeps ==
  ASSUME HeldInv, Calling, NEW content, CallDone(content),
         held' \in BOOLEAN, content /\ held => held',
         reply' = NoReply, UNCHANGED exit
  PROVE  HeldInv'
<1> USE DEF HeldInv, Calling
<1>1. AnswersAreHonest' /\ NothingBetween'
  BY DEF AnswersAreHonest, NothingBetween, Settled
<1>2. at' \in [check : Nat, call : Nat] /\ failing' \in BOOLEAN /\ failed' \in BOOLEAN
  <2>1. at' \in [check : Nat, call : Nat]
    BY DEF CallDone
  <2>2. failing' \in BOOLEAN /\ failed' \in BOOLEAN
    BY Zenon DEF CallDone
  <2>3. QED
    BY <2>1, <2>2
<1>3. at'.check > Len(Checks) => at'.call = 0
  BY ThreeChecks DEF CallDone
<1>4. FailureIsKept'
  BY DEF FailureIsKept, CallDone
<1>5. QED
  BY <1>1, <1>2, <1>3, <1>4 DEF PassedMeansHeld

LEMMA RunKeepsHeld ==
  ASSUME HeldInv, Run
  PROVE  HeldInv'
<1>1. CASE RunStarts
  BY <1>1 DEF RunStarts, HeldInv, NothingBetween, AnswersAreHonest, Check, Call,
              FailureIsKept, PassedMeansHeld
<1>2. CASE CheckStarts
  <2> USE <1>2 DEF CheckStarts, HeldInv
  <2>1. AnswersAreHonest' /\ NothingBetween'
    BY DEF AnswersAreHonest, NothingBetween, Settled
  <2>2. at' \in [check : Nat, call : Nat] /\ failed' \in BOOLEAN
    <3>1. CASE Check # "info-docs-live" /\ setting = Served
      BY <3>1
    <3>2. CASE ~(Check # "info-docs-live" /\ setting = Served)
      BY <3>2
    <3>3. QED
      BY <3>1, <3>2
  <2>3. at'.check > Len(Checks) => at'.call = 0
    BY ThreeChecks
  <2>4. FailureIsKept'
    BY DEF FailureIsKept
  <2>5. QED
    BY <2>1, <2>2, <2>3, <2>4 DEF PassedMeansHeld
<1>3. CASE PurgeCalled
  BY <1>3, ReplyKeeps DEF PurgeCalled, Calling, HeldInv, run, AnswersAreHonest, Settled
<1>4. CASE Enqueued
  BY <1>4, ReplyKeeps DEF Enqueued, Calling, HeldInv, run, AnswersAreHonest, Settled
<1>5. CASE Judged
  <2>1. Accepted(Check, Call, reply) /\ held => held'
    BY <1>5 DEF Judged, HeldInv, AnswersAreHonest, Settled
  <2>2. QED
    BY <1>5, <2>1, CallDoneKeeps DEF Judged, HeldInv
<1>6. CASE Raised
  <2>1. CASE Check = "commands-live"
    BY <1>6, <2>1, CallDoneKeeps DEF Raised
  <2>2. CASE Check # "commands-live"
    BY <1>6, <2>2 DEF Raised, HeldInv, NothingBetween, AnswersAreHonest, Settled,
                      FailureIsKept, PassedMeansHeld
  <2>3. QED
    BY <2>1, <2>2
<1>7. CASE RunEnds
  BY <1>7 DEF RunEnds, HeldInv, NothingBetween, AnswersAreHonest, Check, Call,
              FailureIsKept, PassedMeansHeld
<1>8. CASE \E beside \in {"nothing", "full card", "switch"} : Answered(beside)
  <2> PICK beside : Answered(beside)
    BY <1>8
  <2>1. Telling(Call, InlineOutcome(Call, beside))
    BY InlineTells DEF Telling
  <2>2. AnswersAreHonest'
    BY <2>1, NewReply DEF Answered, run
  <2>3. QED
    BY <2>2, ReplyKeeps DEF Answered, Calling, HeldInv, run
<1>9. QED
  BY <1>1, <1>2, <1>3, <1>4, <1>5, <1>6, <1>7, <1>8 DEF Run

LEMMA OthersKeepHeld ==
  ASSUME HeldInv, Purging \/ PurgeAnswered \/ Workers \/ BesideRun
  PROVE  HeldInv'
<1>1. CASE Purging
  BY <1>1, SameReply, ReplyKeeps DEF Purging, run
<1>2. CASE PurgeAnswered
  <2>1. UNCHANGED <<at, failing, failed, exit, held>>
    BY <1>2 DEF PurgeAnswered, run
  <2>2. CASE Calling /\ reply = Waiting /\ Call = "local_lmcache_purge"
    <3> DEFINE result == IF purge.pc = "answered" THEN "ok" ELSE "error"
    <3>1. reply' = Reply(Call, result) /\ outcome' = result
      BY <1>2, <2>2 DEF PurgeAnswered
    <3>2. Telling(Call, result)
      BY DEF Telling, Done
    <3>3. QED
      BY <2>1, <2>2, <3>1, <3>2, NewReply, ReplyKeeps DEF HeldInv, NothingBetween, NoReply, Waiting, Keyless
  <2>3. CASE ~(Calling /\ reply = Waiting /\ Call = "local_lmcache_purge")
    BY <1>2, <2>1, <2>3, SameReply, ReplyKeeps DEF PurgeAnswered
  <2>4. QED
    BY <2>2, <2>3
<1>3. CASE Workers
  <2> PICK command \in Queued, got \in BOOLEAN : JobRuns(command, got)
    BY <1>3 DEF Workers
  <2>1. UNCHANGED <<at, failing, failed, exit, held>>
    BY DEF JobRuns, run
  <2>2. CASE reply = Waiting /\ Call = command
    <3> DEFINE result == IF ~got THEN "MODEL_CACHE_PRELOAD_FAILED"
                         ELSE IF command = "local_model_switch" THEN SwitchOutcome ELSE "ok"
    <3>1. reply' = Reply(Call, result) /\ outcome' = result
      BY <2>2 DEF JobRuns
    <3>2. Telling(Call, result)
      BY <2>2 DEF Telling, Queued, Flagged
    <3>3. QED
      BY <2>1, <2>2, <3>1, <3>2, NewReply, ReplyKeeps DEF HeldInv, NothingBetween, NoReply, Waiting, Keyless
  <2>3. CASE ~(reply = Waiting /\ Call = command)
    BY <2>1, <2>3, SameReply, ReplyKeeps DEF JobRuns
  <2>4. QED
    BY <2>2, <2>3
<1>4. CASE BesideRun
  <2>1. UNCHANGED <<at, failing, failed, exit, held>>
    BY <1>4 DEF BesideRun, OthersPurge, RuntimeStores, StorageRefuses, CallLost,
       RuntimeChanges, OthersLoad,
                OthersCache, ServiceRestarts, run
  <2>2. UNCHANGED <<reply, outcome>> \/ reply' \in Settled
    BY <1>4 DEF BesideRun, OthersPurge, RuntimeStores, StorageRefuses, CallLost,
       RuntimeChanges, OthersLoad,
                OthersCache, ServiceRestarts, Settled
  <2>3. AnswersAreHonest'
    BY <2>1, <2>2, SameReply DEF AnswersAreHonest
  <2>4. at.call # 0 \/ UNCHANGED reply
    BY <1>4 DEF BesideRun, OthersPurge, RuntimeStores, StorageRefuses, CallLost,
       RuntimeChanges, OthersLoad,
                OthersCache, ServiceRestarts, Calling, HeldInv, NothingBetween, NoReply,
                Waiting, Keyless
  <2>5. QED
    BY <2>1, <2>3, <2>4, ReplyKeeps
<1>5. QED
  BY <1>1, <1>2, <1>3, <1>4

LEMMA HeldKept ==
  ASSUME HeldInv, [Next]_vars
  PROVE  HeldInv'
<1>1. CASE UNCHANGED vars
  BY <1>1, SameReply, ReplyKeeps DEF vars, run
<1>2. QED
  BY <1>1, RunKeepsHeld, OthersKeepHeld DEF Next

\* Whoever else uses the deployment and whatever is lost on the way, the
\* acceptance run passes only if each of its calls had the outcome asserted.
THEOREM PassedRunsHeld == Spec => []PassedMeansHeld
<1>1. HeldInv => PassedMeansHeld
  BY DEF HeldInv
<1>2. QED
  BY <1>1, HeldKept, InitHeld, PTL DEF Spec

-----------------------------------------------------------------------------
(* The purge.                                                              *)

LEMMA PathLengths ==
  /\ \A d \in Dirs : Len(d) \in 1..2
  /\ \A f \in Files : Len(f) \in {1, 3}
  /\ Dirs \cap Files = {}
BY PurgeAssumption DEF Dirs, Files

LEMMA WithinIsTransitive ==
  ASSUME NEW p \in Paths, NEW q \in Paths, NEW r \in Paths, Within(p, q), Within(q, r)
  PROVE  Within(p, r)
<1>1. Len(p) \in Nat /\ Len(q) \in Nat /\ Len(r) \in Nat
  BY PathLengths DEF Paths
<1>2. QED
  BY <1>1 DEF Within

\* Every file that is p or below p is in the scope of the purge.
Belongs(p) == \A f \in Files : f = p \/ Within(f, p) => InScope(f)

ScopeFrames == {frame \in Frames : \A e \in frame.left : Belongs(e)}

Shape ==
  purge = [pc |-> purge.pc, namespace |-> purge.namespace, session |-> purge.session,
           tree |-> purge.tree, targets |-> purge.targets, target |-> purge.target,
           stack |-> purge.stack, count |-> purge.count, removed |-> purge.removed,
           written |-> purge.written, company |-> purge.company]

ScopeInv ==
  /\ Shape
  /\ purge.tree \subseteq Paths /\ purge.targets \subseteq Paths
  /\ purge.stack \in Seq(ScopeFrames)
  /\ purge.pc = "delete" => purge.stack # << >>
  /\ \A t \in purge.targets : Belongs(t)
  /\ purge.pc = "open" => purge.target \in Dirs /\ Belongs(purge.target)
  /\ PurgeStaysInScope

LEMMA BelowNamespace ==
  ASSUME NEW f \in Files, NEW n, Within(f, <<n>>)
  PROVE  Len(f) = 3 /\ f[1] = n
<1>1. Len(<<n>>) = 1 /\ <<n>>[1] = n /\ 1 \in 1..1
  OBVIOUS
<1>2. Len(f) > 1
  BY <1>1 DEF Within
<1>3. Len(f) = 1 \/ Len(f) = 3
  BY PathLengths
<1>4. ASSUME Len(f) = 1 PROVE FALSE
  BY <1>2, <1>4
<1>5. f[1] = n
  BY <1>1 DEF Within
<1>6. QED
  BY <1>3, <1>4, <1>5

LEMMA TargetsBelong ==
  ASSUME NEW namespace \in Namespaces \cup {NoBinding}, NEW session \in Sessions \cup {NoBinding},
         NEW tree, tree \subseteq Paths,
         purge'.namespace = namespace, purge'.session = session,
         NEW t \in PurgeTargets(tree, namespace, session)
  PROVE  t \in Paths /\ Belongs(t)'
<1>1. t \in Paths
  BY DEF PurgeTargets, Children
<1>2. CASE namespace = NoBinding /\ session = NoBinding
  BY <1>1, <1>2 DEF Belongs, InScope
<1>3. CASE session = NoBinding /\ namespace # NoBinding
  <2>1. t = <<namespace>> /\ t \in Dirs
    BY <1>3 DEF PurgeTargets, Dirs
  <2>2. ASSUME NEW f \in Files, f = t \/ Within(f, t) PROVE InScope(f)'
    <3>1. Within(f, t)
      BY <2>1, <2>2, PathLengths
    <3>2. Len(f) = 3 /\ f[1] = namespace
      BY <2>1, <3>1, BelowNamespace
    <3>3. QED
      BY <1>3, <3>2 DEF InScope
  <2>3. QED
    BY <1>1, <2>2 DEF Belongs
<1>4. CASE session # NoBinding
  <2>1. t \in Dirs /\ Len(t) = 2 /\ t[2] = session /\ namespace \in {NoBinding, t[1]}
    BY <1>4 DEF PurgeTargets
  <2>2. ASSUME NEW f \in Files, f = t \/ Within(f, t) PROVE InScope(f)'
    <3>1. Within(f, t)
      BY <2>1, <2>2, PathLengths
    <3>2. Len(f) = 3 /\ f[1] = t[1] /\ f[2] = t[2]
      BY <2>1, <3>1, PathLengths DEF Within
    <3>3. QED
      BY <1>4, <2>1, <3>2 DEF InScope
  <2>3. QED
    BY <1>1, <2>2 DEF Belongs
<1>5. QED
  BY <1>2, <1>3, <1>4

LEMMA ListingBelongs ==
  ASSUME purge.tree \subseteq Paths, NEW dir \in Dirs, Belongs(dir)
  PROVE  Listing(dir) \in ScopeFrames
<1>1. Children(purge.tree, dir) \subseteq Paths
  BY DEF Children
<1>2. ASSUME NEW e \in Children(purge.tree, dir) PROVE Belongs(e)
  <2>1. ASSUME NEW f \in Files, f = e \/ Within(f, e) PROVE Within(f, dir)
    BY <1>1, <2>1, WithinIsTransitive DEF Children, Paths
  <2>2. QED
    BY <2>1 DEF Belongs
<1>3. QED
  BY <1>1, <1>2 DEF Listing, ScopeFrames, Frames

LEMMA NotEmpty == ASSUME NEW s, Len(s) > 0 PROVE s # << >>
OBVIOUS

\* A frame put back with fewer entries, another one before it or not.
LEMMA StackKept ==
  ASSUME NEW stack \in Seq(ScopeFrames), stack # << >>, NEW e
  PROVE  LET rest == [Head(stack) EXCEPT !.left = @ \ {e}]
         IN /\ Head(stack) \in ScopeFrames
            /\ <<rest>> \o Tail(stack) \in Seq(ScopeFrames)
            /\ <<rest>> \o Tail(stack) # << >>
            /\ Tail(stack) \in Seq(ScopeFrames)
            /\ \A frame \in ScopeFrames :
                 /\ <<frame, rest>> \o Tail(stack) \in Seq(ScopeFrames)
                 /\ <<frame, rest>> \o Tail(stack) # << >>
<1> DEFINE rest == [Head(stack) EXCEPT !.left = @ \ {e}]
<1>1. Head(stack) \in ScopeFrames /\ Tail(stack) \in Seq(ScopeFrames)
  BY HeadTailProperties
<1>2. rest \in ScopeFrames
  BY <1>1 DEF ScopeFrames, Frames
<1>3. ASSUME NEW front \in Seq(ScopeFrames), Len(front) > 0
      PROVE  front \o Tail(stack) \in Seq(ScopeFrames) /\ front \o Tail(stack) # << >>
  <2>1. Len(front \o Tail(stack)) > 0 /\ front \o Tail(stack) \in Seq(ScopeFrames)
    BY <1>1, <1>3, ConcatProperties
  <2>2. QED
    BY <2>1, NotEmpty
<1>4. <<rest>> \in Seq(ScopeFrames) /\ Len(<<rest>>) > 0
  BY <1>2
<1>5. ASSUME NEW frame \in ScopeFrames
      PROVE  <<frame, rest>> \in Seq(ScopeFrames) /\ Len(<<frame, rest>>) > 0
  BY <1>2
<1>6. QED
  BY <1>1, <1>3, <1>4, <1>5

LEMMA Prefixes ==
  ASSUME NEW a, NEW b, NEW c
  PROVE  SubSeq(<<a, b, c>>, 1, 1) = <<a>> /\ SubSeq(<<a, b, c>>, 1, 2) = <<a, b>>
<1> DEFINE abc == <<a, b, c>>
           S == {a, b, c}
<1>1. \A i \in 1..3 : abc[i] \in S
  OBVIOUS
<1>2. ASSUME NEW n \in 1..2
      PROVE  /\ SubSeq(abc, 1, n) \in Seq(S) /\ Len(SubSeq(abc, 1, n)) = n
             /\ \A i \in 1..n : SubSeq(abc, 1, n)[i] = abc[i]
  <2> HIDE DEF abc, S
  <2>0. n \in Int /\ 1 \in Int /\ \A i \in 1..n : abc[i] \in S
    BY <1>1
  <2>1. /\ SubSeq(abc, 1, n) \in Seq(S)
        /\ Len(SubSeq(abc, 1, n)) = IF 1 <= n THEN n - 1 + 1 ELSE 0
        /\ \A i \in 1..(n - 1 + 1) : SubSeq(abc, 1, n)[i] = abc[1 + i - 1]
    BY <2>0, SubSeqProperties
  <2>2. QED
    BY <2>1
<1>3. /\ <<a>> \in Seq(S) /\ Len(<<a>>) = 1 /\ <<a>>[1] = abc[1]
      /\ <<a, b>> \in Seq(S) /\ Len(<<a, b>>) = 2
      /\ <<a, b>>[1] = abc[1] /\ <<a, b>>[2] = abc[2]
  OBVIOUS
<1> HIDE DEF abc, S
<1>4. SubSeq(abc, 1, 1) = <<a>>
  <2>1. /\ SubSeq(abc, 1, 1) \in Seq(S) /\ Len(SubSeq(abc, 1, 1)) = Len(<<a>>)
        /\ \A i \in 1..Len(SubSeq(abc, 1, 1)) : SubSeq(abc, 1, 1)[i] = <<a>>[i]
    BY <1>2, <1>3
  <2>2. QED
    BY <1>3, <2>1, SeqEqual
<1>5. SubSeq(abc, 1, 2) = <<a, b>>
  <2>1. \A i \in 1..2 : i = 1 \/ i = 2
    OBVIOUS
  <2>2. /\ SubSeq(abc, 1, 2) \in Seq(S) /\ Len(SubSeq(abc, 1, 2)) = Len(<<a, b>>)
        /\ \A i \in 1..Len(SubSeq(abc, 1, 2)) : SubSeq(abc, 1, 2)[i] = <<a, b>>[i]
    BY <1>2, <1>3, <2>1
  <2>3. QED
    BY <1>3, <2>2, SeqEqual
<1>6. QED
  BY <1>4, <1>5 DEF abc

LEMMA TreesArePaths ==
  ASSUME NEW files, files \subseteq Files
  PROVE  WithParents(files) \subseteq Paths
<1>1. ASSUME NEW p \in Files, NEW q \in Parents(p) PROVE q \in Paths
  <2>1. PICK i \in 1..(Len(p) - 1) : q = SubSeq(p, 1, i)
    BY <1>1 DEF Parents
  <2>2. PICK n \in Namespaces, s \in Sessions, f \in Names : p = <<n, s, f>>
    BY <2>1 DEF Files
  <2>3. i = 1 \/ i = 2
    BY <2>1, <2>2
  <2>4. SubSeq(<<n, s, f>>, 1, 1) = <<n>> /\ SubSeq(<<n, s, f>>, 1, 2) = <<n, s>>
    BY Prefixes
  <2>5. QED
    BY <2>1, <2>2, <2>3, <2>4 DEF Paths, Dirs
<1>2. QED
  BY <1>1 DEF WithParents, Paths

LEMMA ScopeKept ==
  ASSUME purge'.namespace = purge.namespace, purge'.session = purge.session
  PROVE  /\ \A p : InScope(p)' <=> InScope(p)
         /\ \A p : Belongs(p)' <=> Belongs(p)
         /\ ScopeFrames' = ScopeFrames
<1>1. \A p : InScope(p)' <=> InScope(p)
  BY DEF InScope
<1>2. \A p : Belongs(p)' <=> Belongs(p)
  BY <1>1 DEF Belongs
<1>3. QED
  BY <1>1, <1>2 DEF ScopeFrames

LEMMA RemoveFileInScope == ASSUME ScopeInv, RemoveFile PROVE ScopeInv'
<1>1. PICK t \in purge.targets \ Dirs :
        \/ purge' = [purge EXCEPT !.tree = @ \ {t}, !.targets = @ \ {t},
                                  !.removed = @ \cup {t}, !.count = @ + 1]
        \/ Raise
  BY DEF RemoveFile
<1>2. purge.pc = "target" /\ t \in Files /\ InScope(t)
  BY DEF RemoveFile, ScopeInv, Belongs, Paths
<1>3. purge'.namespace = purge.namespace /\ purge'.session = purge.session
  BY <1>1 DEF ScopeInv, Shape, Raise
<1>4. /\ Shape' /\ purge'.tree \subseteq purge.tree /\ purge'.targets \subseteq purge.targets
      /\ purge'.stack = purge.stack /\ purge'.pc \in {"target", "raised"}
      /\ purge'.removed \subseteq purge.removed \cup {t}
  BY <1>1, <1>2 DEF ScopeInv, Shape, Raise
<1>5. QED
  BY <1>2, <1>3, <1>4, ScopeKept DEF ScopeInv, PurgeStaysInScope

LEMMA CountTargetInScope == ASSUME ScopeInv, CountTarget PROVE ScopeInv'
<1>1. PICK t \in purge.targets \cap Dirs :
        purge' = [purge EXCEPT !.pc = "open", !.targets = @ \ {t}, !.target = t,
                    !.count = @ + Cardinality(FilesBelow(purge.tree, t))]
  BY DEF CountTarget
<1>2. purge'.namespace = purge.namespace /\ purge'.session = purge.session
  BY <1>1 DEF ScopeInv, Shape
<1>3. /\ Shape' /\ purge'.tree = purge.tree /\ purge'.targets \subseteq purge.targets
      /\ purge'.stack = purge.stack /\ purge'.pc = "open" /\ purge'.target = t
      /\ purge'.removed = purge.removed
  BY <1>1 DEF ScopeInv, Shape
<1>4. Belongs(t) /\ purge.pc = "target"
  BY DEF ScopeInv, CountTarget
<1>5. QED
  BY <1>2, <1>3, <1>4, ScopeKept DEF ScopeInv, PurgeStaysInScope

LEMMA OpenTargetInScope == ASSUME ScopeInv, OpenTarget PROVE ScopeInv'
<1>1. /\ purge' = [purge EXCEPT !.pc = "delete", !.stack = <<Listing(purge.target)>>]
      /\ Listing(purge.target) \in ScopeFrames
  BY ListingBelongs DEF OpenTarget, ScopeInv
<1>2. purge'.namespace = purge.namespace /\ purge'.session = purge.session
  BY <1>1 DEF ScopeInv, Shape
<1>3. /\ Shape' /\ purge'.tree = purge.tree /\ purge'.targets = purge.targets
      /\ purge'.stack = <<Listing(purge.target)>> /\ purge'.pc = "delete"
      /\ purge'.removed = purge.removed
  BY <1>1 DEF ScopeInv, Shape
<1>4. <<Listing(purge.target)>> \in Seq(ScopeFrames) /\ <<Listing(purge.target)>> # << >>
  BY <1>1
<1>6. purge.pc = "open"
  BY DEF OpenTarget
<1>5. QED
  BY <1>2, <1>3, <1>4, <1>6, ScopeKept DEF ScopeInv, PurgeStaysInScope

LEMMA EnterDirectoryInScope == ASSUME ScopeInv, EnterDirectory PROVE ScopeInv'
<1>1. PICK e \in Emptying.left \cap Dirs :
        purge' = [purge EXCEPT !.stack =
                    <<Listing(e), [Emptying EXCEPT !.left = @ \ {e}]>> \o Tail(@)]
  BY DEF EnterDirectory
<1>2. purge.pc = "delete" /\ purge.stack \in Seq(ScopeFrames) /\ purge.stack # << >>
  BY DEF EnterDirectory, ScopeInv
<1>3. Emptying \in ScopeFrames
  BY <1>2, StackKept DEF Emptying
<1>4. Listing(e) \in ScopeFrames
  BY <1>3, ListingBelongs DEF ScopeInv, ScopeFrames
<1>5. purge'.namespace = purge.namespace /\ purge'.session = purge.session
  BY <1>1 DEF ScopeInv, Shape
<1>6. /\ Shape' /\ purge'.tree = purge.tree /\ purge'.targets = purge.targets
      /\ purge'.stack = <<Listing(e), [Emptying EXCEPT !.left = @ \ {e}]>> \o Tail(purge.stack)
      /\ purge'.pc = purge.pc /\ purge'.removed = purge.removed
  BY <1>1 DEF ScopeInv, Shape
<1>7. purge'.stack \in Seq(ScopeFrames) /\ purge'.stack # << >>
  BY <1>2, <1>4, <1>6, StackKept DEF Emptying
<1>8. QED
  BY <1>2, <1>5, <1>6, <1>7, ScopeKept DEF ScopeInv, PurgeStaysInScope

LEMMA UnlinkEntryInScope == ASSUME ScopeInv, UnlinkEntry PROVE ScopeInv'
<1>1. PICK e \in Emptying.left \ Dirs :
        \/ purge' = [purge EXCEPT !.tree = @ \ {e},
                       !.removed = @ \cup (purge.tree \cap {e}),
                       !.stack = <<[Emptying EXCEPT !.left = @ \ {e}]>> \o Tail(@)]
        \/ Raise
  BY DEF UnlinkEntry
<1>2. purge.pc = "delete" /\ purge.stack \in Seq(ScopeFrames) /\ purge.stack # << >>
  BY DEF UnlinkEntry, ScopeInv
<1>3. Emptying \in ScopeFrames
  BY <1>2, StackKept DEF Emptying
<1>4. InScope(e)
  BY <1>3 DEF ScopeFrames, Frames, Paths, Belongs
<1>5. purge'.namespace = purge.namespace /\ purge'.session = purge.session
  BY <1>1 DEF ScopeInv, Shape, Raise
<1>6. /\ Shape' /\ purge'.tree \subseteq purge.tree /\ purge'.targets = purge.targets
      /\ \/ purge'.stack = purge.stack
         \/ purge'.stack = <<[Emptying EXCEPT !.left = @ \ {e}]>> \o Tail(purge.stack)
      /\ purge'.pc \in {"delete", "raised"} /\ purge'.removed \subseteq purge.removed \cup {e}
  BY <1>1, <1>2 DEF ScopeInv, Shape, Raise
<1>7. purge'.stack \in Seq(ScopeFrames) /\ purge'.stack # << >>
  BY <1>2, <1>6, StackKept DEF Emptying
<1>8. PurgeStaysInScope'
  BY <1>2, <1>4, <1>5, <1>6, ScopeKept DEF ScopeInv, PurgeStaysInScope
<1>9. QED
  BY <1>5, <1>6, <1>7, <1>8, ScopeKept DEF ScopeInv

LEMMA RemoveDirectoryInScope == ASSUME ScopeInv, RemoveDirectory PROVE ScopeInv'
<1>1. purge.pc = "delete" /\ purge.stack \in Seq(ScopeFrames) /\ purge.stack # << >>
  BY DEF RemoveDirectory, ScopeInv
<1>2. \/ purge' = [purge EXCEPT !.tree = @ \ {Emptying.dir}, !.stack = Tail(@),
                     !.pc = IF Len(purge.stack) = 1 THEN "target" ELSE "delete"]
      \/ Raise
  BY DEF RemoveDirectory
<1>3. purge'.namespace = purge.namespace /\ purge'.session = purge.session
  BY <1>2 DEF ScopeInv, Shape, Raise
<1>4. /\ Shape' /\ purge'.tree \subseteq purge.tree /\ purge'.targets = purge.targets
      /\ purge'.removed = purge.removed
      /\ \/ purge'.stack = purge.stack /\ purge'.pc = "raised"
         \/ /\ purge'.stack = Tail(purge.stack)
            /\ purge'.pc = IF Len(purge.stack) = 1 THEN "target" ELSE "delete"
  BY <1>2 DEF ScopeInv, Shape, Raise
<1>5. Tail(purge.stack) \in Seq(ScopeFrames) /\ Len(Tail(purge.stack)) = Len(purge.stack) - 1
  BY <1>1, HeadTailProperties
<1>6. ASSUME Len(purge.stack) # 1 PROVE Tail(purge.stack) # << >>
  <2> DEFINE height == Len(purge.stack)
             below  == Len(Tail(purge.stack))
  <2>1. height \in Nat \ {0} /\ height # 1 /\ below = height - 1
    BY <1>1, <1>5, <1>6, EmptySeq
  <2> HIDE DEF height, below
  <2>2. below > 0
    BY <2>1
  <2>3. QED
    BY <2>2, NotEmpty DEF below
<1>7. QED
  BY <1>1, <1>3, <1>4, <1>5, <1>6, ScopeKept DEF ScopeInv, PurgeStaysInScope

LEMMA StepInScope == ASSUME ScopeInv, PurgeStep PROVE ScopeInv'
<1>1. CASE AnswerPurge
  <2>1. purge.pc = "target" /\ purge' = [purge EXCEPT !.pc = "answered"]
    BY <1>1 DEF AnswerPurge
  <2>2. purge'.namespace = purge.namespace /\ purge'.session = purge.session
    BY <2>1 DEF ScopeInv, Shape
  <2>3. /\ Shape' /\ purge'.tree = purge.tree /\ purge'.targets = purge.targets
        /\ purge'.stack = purge.stack /\ purge'.pc = "answered" /\ purge'.removed = purge.removed
    BY <2>1 DEF ScopeInv, Shape
  <2>4. QED
    BY <2>1, <2>2, <2>3, ScopeKept DEF ScopeInv, PurgeStaysInScope
<1>2. QED
  BY <1>1, RemoveFileInScope, CountTargetInScope, OpenTargetInScope, EnterDirectoryInScope,
     UnlinkEntryInScope, RemoveDirectoryInScope DEF PurgeStep

\* A refusal leaves everything where it is.
LEMMA RefusedInScope == ASSUME ScopeInv, Refused PROVE ScopeInv'
<1>1. /\ purge.pc \in {"target", "open", "delete"}
      /\ purge' = [purge EXCEPT !.pc = "refused"]
  BY DEF Refused
<1>2. purge'.namespace = purge.namespace /\ purge'.session = purge.session
  BY <1>1 DEF ScopeInv, Shape
<1>3. /\ Shape' /\ purge'.tree = purge.tree /\ purge'.targets = purge.targets
      /\ purge'.stack = purge.stack /\ purge'.pc = "refused" /\ purge'.removed = purge.removed
  BY <1>1 DEF ScopeInv, Shape
<1>4. QED
  BY <1>1, <1>2, <1>3, ScopeKept DEF ScopeInv, PurgeStaysInScope

LEMMA ElsewhereInScope == ASSUME PurgeElsewhere PROVE ScopeInv'
<1>1. /\ purge'.pc = "elsewhere" /\ purge'.tree = {} /\ purge'.targets = {}
      /\ purge'.stack = << >> /\ Shape'
  BY DEF PurgeElsewhere, NoPurge, Shape
<1>2. << >> \in Seq(ScopeFrames)'
  OBVIOUS
<1>3. QED
  BY <1>1, <1>2 DEF ScopeInv, PurgeStaysInScope

LEMMA NoPurgeInScope ==
  /\ purge = NoPurge => ScopeInv
  /\ purge' = NoPurge => ScopeInv'
<1>1. << >> \in Seq(ScopeFrames) /\ << >> \in Seq(ScopeFrames)'
  OBVIOUS
<1>2. ASSUME purge = NoPurge PROVE ScopeInv
  <2>1. /\ purge.pc = "idle" /\ purge.tree = {} /\ purge.targets = {} /\ purge.removed = {}
        /\ purge.stack = << >> /\ Shape
    BY <1>2 DEF NoPurge, Shape
  <2>2. QED
    BY <1>1, <2>1 DEF ScopeInv, PurgeStaysInScope
<1>3. ASSUME purge' = NoPurge PROVE ScopeInv'
  <2>1. /\ purge'.pc = "idle" /\ purge'.tree = {} /\ purge'.targets = {} /\ purge'.removed = {}
        /\ purge'.stack = << >> /\ Shape'
    BY <1>3 DEF NoPurge, Shape
  <2>2. QED
    BY <1>1, <2>1 DEF ScopeInv, PurgeStaysInScope
<1>4. QED
  BY <1>2, <1>3

LEMMA CommandInScope ==
  ASSUME NEW namespace \in Namespaces \cup {NoBinding}, NEW session \in Sessions \cup {NoBinding},
         NEW tree \in Trees, PurgeCommand(namespace, session, tree)
  PROVE  ScopeInv'
<1>1. tree \subseteq Paths
  BY TreesArePaths DEF Trees, Paths
<1>2. /\ purge'.pc = "target" /\ purge'.tree = tree
      /\ purge'.targets = PurgeTargets(tree, namespace, session)
      /\ purge'.removed = {} /\ purge'.stack = << >> /\ Shape'
      /\ purge'.namespace = namespace /\ purge'.session = session
  BY DEF PurgeCommand, NoPurge, Shape
<1>3. \A t \in PurgeTargets(tree, namespace, session) : t \in Paths /\ Belongs(t)'
  BY <1>1, <1>2, TargetsBelong
<1>4. << >> \in Seq(ScopeFrames)'
  OBVIOUS
<1>5. QED
  BY <1>1, <1>2, <1>3, <1>4 DEF ScopeInv, PurgeStaysInScope

LEMMA RuntimeInScope ==
  ASSUME ScopeInv, NEW f \in Files, RuntimeWrites(f) \/ RuntimeEvicts(f)
  PROVE  ScopeInv'
<1>1. WithParents({f}) \subseteq Paths
  BY TreesArePaths
<1>2. purge'.namespace = purge.namespace /\ purge'.session = purge.session
  BY DEF RuntimeWrites, RuntimeEvicts, ScopeInv, Shape
<1>3. /\ Shape' /\ purge'.tree \subseteq Paths /\ purge'.targets = purge.targets
      /\ purge'.stack = purge.stack /\ purge'.pc = purge.pc /\ purge'.target = purge.target
      /\ purge'.removed = purge.removed
  BY <1>1 DEF RuntimeWrites, RuntimeEvicts, ScopeInv, Shape
<1>4. QED
  BY <1>2, <1>3, ScopeKept DEF ScopeInv, PurgeStaysInScope

\* What a step of the system may do with the purge.
LEMMA PurgeMoves ==
  ASSUME [Next]_vars
  PROVE  \/ UNCHANGED purge
         \/ PurgeStep
         \/ purge' = NoPurge
         \/ \E namespace \in Namespaces \cup {NoBinding}, session \in Sessions \cup {NoBinding},
               tree \in Trees : PurgeCommand(namespace, session, tree)
         \/ PurgeElsewhere /\ exit = "idle" /\ UNCHANGED exit
         \/ RuntimeStores /\ \E f \in Files : RuntimeWrites(f) \/ RuntimeEvicts(f)
         \/ StorageRefuses /\ Refused
<1>1. CASE Purging
  BY <1>1 DEF Purging
<1>2. CASE PurgeAnswered
  BY <1>2 DEF PurgeAnswered, PurgeReturns
<1>3. CASE PurgeCalled
  BY <1>3, LiveCheckAssumption DEF PurgeCalled
<1>4. CASE OthersPurge
  BY <1>4 DEF OthersPurge, run
<1>5. CASE RuntimeStores
  BY <1>5 DEF RuntimeStores
<1>7. CASE StorageRefuses
  BY <1>7 DEF StorageRefuses
<1>6. QED
  BY <1>1, <1>2, <1>3, <1>4, <1>5, <1>7 DEF Next, Run, Workers, BesideRun, RunStarts,
     CheckStarts, Answered, Enqueued, Judged, Raised, RunEnds, JobRuns, CallLost,
     RuntimeChanges, OthersLoad, OthersCache, ServiceRestarts, vars

LEMMA ScopeInvKept == ASSUME ScopeInv, [Next]_vars PROVE ScopeInv'
<1>1. CASE UNCHANGED purge
  <2>1. purge'.namespace = purge.namespace /\ purge'.session = purge.session
    BY <1>1
  <2>2. Shape'
    BY <1>1 DEF ScopeInv, Shape
  <2>3. QED
    BY <1>1, <2>1, <2>2, ScopeKept DEF ScopeInv, PurgeStaysInScope
<1>2. QED
  BY <1>1, PurgeMoves, StepInScope, NoPurgeInScope, CommandInScope, RuntimeInScope,
     RefusedInScope, ElsewhereInScope

\* A purge by bindings that name their directories in the layout removes no
\* file of another namespace or session, whatever the runtime writes and
\* evicts below the directories it is emptying and whatever the system refuses.
THEOREM PurgesStayInScope == Spec => []PurgeStaysInScope
<1>1. Init => ScopeInv
  BY NoPurgeInScope DEF Init, PurgeInit
<1>2. ScopeInv => PurgeStaysInScope
  BY DEF ScopeInv
<1>3. QED
  BY <1>1, <1>2, ScopeInvKept, PTL DEF Spec

-----------------------------------------------------------------------------
(* The weights that are served.                                            *)

\* A check that names its scratch model to the service has told it apart from
\* the served one; the only call of the first check names none.
ServedInv ==
  /\ disk \in [{Served, Scratch} -> {"absent", "partial", "complete"}]
  /\ setting \in {Served, Scratch}
  /\ at.check # 0
  /\ exit = "idle" => at.call = 0
  /\ at.check = 1 => at.call \in {0, 1}
  /\ at.check # 1 /\ at.call # 0 => setting = Scratch
  /\ ServedWeightsStay

LEMMA TwoModels == Served # Scratch
<1>1. SUFFICES ASSUME Served = Scratch PROVE FALSE
  OBVIOUS
<1>2. {Served, Scratch, Other, NoModel} = {Scratch, Other, NoModel}
  BY <1>1
<1>3. /\ IsFiniteSet({Other, NoModel})
      /\ Cardinality({Other, NoModel}) <= 2
  <2>1. IsFiniteSet({NoModel}) /\ Cardinality({NoModel}) = 1
    BY FS_Singleton
  <2>2. {Other, NoModel} = {NoModel} \cup {Other}
    OBVIOUS
  <2>3. /\ IsFiniteSet({NoModel} \cup {Other})
        /\ Cardinality({NoModel} \cup {Other})
             = IF Other \in {NoModel} THEN Cardinality({NoModel}) ELSE Cardinality({NoModel}) + 1
    BY <2>1, FS_AddElement
  <2>4. QED
    BY <2>1, <2>2, <2>3
<1>4. Cardinality({Scratch, Other, NoModel}) # 4
  <2>1. {Scratch, Other, NoModel} = {Other, NoModel} \cup {Scratch}
    OBVIOUS
  <2>2. Cardinality({Other, NoModel} \cup {Scratch})
          = IF Scratch \in {Other, NoModel} THEN Cardinality({Other, NoModel})
            ELSE Cardinality({Other, NoModel}) + 1
    BY <1>3, FS_AddElement
  <2>3. Cardinality({Other, NoModel}) \in Nat
    BY <1>3, FS_CardinalityType
  <2> DEFINE c == Cardinality({Other, NoModel})
  <2>4. Cardinality({Scratch, Other, NoModel}) \in {c, c + 1}
    BY <2>1, <2>2
  <2>5. c \in Nat /\ c <= 2
    BY <1>3, <2>3
  <2> HIDE DEF c
  <2>6. QED
    BY <2>4, <2>5
<1>5. QED
  BY <1>2, <1>4, LiveCheckAssumption

LEMMA AtCall ==
  ASSUME HeldInv, Calling
  PROVE  at.call # 0
BY DEF HeldInv, Calling

LEMMA FirstCall ==
  ASSUME at.check = 1, at.call \in {0, 1}, at.call # 0
  PROVE  Call = "info"
<1>1. Check = "info-docs-live"
  BY DEF Check, Checks
<1>2. Calls("info-docs-live") = <<"info">>
  BY DEF Calls
<1>3. QED
  BY <1>1, <1>2 DEF Call

\* The run's place moves only along the plan.
LEMMA PlaceMoves ==
  ASSUME HeldInv, ServedInv, Calling, NEW content, CallDone(content)
  PROVE  /\ at'.check # 0
         /\ at'.check = 1 => at'.call \in {0, 1}
         /\ at'.check # 1 /\ at'.call # 0 => setting = Scratch
<1>1. at \in [check : Nat, call : Nat] /\ at.call # 0 /\ at.check # 0
  BY DEF HeldInv, Calling, ServedInv
<1>2. CASE at.check = 1
  <2>1. Len(Calls(Check)) = 1 /\ at.call = 1
    BY <1>1, <1>2 DEF Check, Checks, Calls, ServedInv
  <2>2. at'.call = 0 /\ at'.check = 2
    BY <1>1, <1>2, <2>1 DEF CallDone
  <2>3. QED
    BY <2>2
<1>3. CASE at.check # 1
  BY <1>1, <1>3 DEF CallDone, ServedInv
<1>4. QED
  BY <1>2, <1>3

LEMMA ServedKept ==
  ASSUME HeldInv, ServedInv, [Next]_vars
  PROVE  ServedInv'
<1> USE DEF ServedInv, ServedWeightsStay
<1>0. at \in [check : Nat, call : Nat]
  BY DEF HeldInv
<1>1. CASE RunStarts
  BY <1>1 DEF RunStarts
<1>2. CASE CheckStarts
  <2>1. CASE Check # "info-docs-live" /\ setting = Served
    <3>1. at' = [at EXCEPT !.check = @ + 1] /\ at.call = 0
      BY <1>2, <2>1 DEF CheckStarts
    <3>2. at'.check = at.check + 1 /\ at'.call = 0
      BY <1>0, <3>1
    <3>3. QED
      BY <1>0, <1>2, <3>2 DEF CheckStarts, server
  <2>2. CASE ~(Check # "info-docs-live" /\ setting = Served)
    <3>1. at'.check = at.check /\ at'.call = 1 /\ at.check \in 1..3
      BY <1>0, <1>2, <2>2, ThreeChecks DEF CheckStarts
    <3>2. Check = "info-docs-live" => at.check = 1
      BY <3>1 DEF Check, Checks
    <3>3. QED
      BY <1>2, <2>2, <3>1, <3>2 DEF CheckStarts, server
  <2>3. QED
    BY <2>1, <2>2
<1>3. CASE \E beside \in {"nothing", "full card", "switch"} : Answered(beside)
  <2> PICK beside \in {"nothing", "full card", "switch"} : Answered(beside)
    BY <1>3
  <2>1. UNCHANGED <<setting, at, exit>> /\ exit = "none" /\ (disturbed => disturbed')
    BY DEF Answered, Calling, run
  <2>2. CASE Call # "local_model_cache_delete"
    BY <2>1, <2>2 DEF Answered
  <2>3. CASE Call = "local_model_cache_delete"
    <3>1. at.call # 0
      <4>1. Calling
        BY Zenon DEF Answered
      <4>2. QED
        BY <4>1, AtCall
    <3>2. at.check # 1
      BY <2>3, <3>1, FirstCall
    <3>3. setting = Scratch
      BY <3>1, <3>2
    <3>4. disk' = [disk EXCEPT ![Scratch] = "absent"]
      BY <2>3, <3>3 DEF Answered
    <3>5. QED
      BY <2>1, <3>3, <3>4, TwoModels
  <2>4. QED
    BY <2>2, <2>3
<1>4. CASE Judged
  BY <1>4, PlaceMoves DEF Judged, Calling, server
<1>5. CASE Raised
  <2>1. CASE Check = "commands-live"
    BY <1>5, <2>1, PlaceMoves DEF Raised, Calling, server
  <2>2. CASE Check # "commands-live"
    BY <1>5, <2>2 DEF Raised, Calling, server
  <2>3. QED
    BY <2>1, <2>2
<1>6. CASE PurgeCalled \/ Enqueued \/ RunEnds \/ Purging \/ PurgeAnswered
  BY <1>6 DEF PurgeCalled, Enqueued, RunEnds, Purging, PurgeAnswered, Calling, server, run
<1>7. CASE Workers
  <2> PICK command \in Queued, got \in BOOLEAN : JobRuns(command, got)
    BY <1>7 DEF Workers
  <2> DEFINE m == IF command = "local_model_switch" THEN Served ELSE setting
  <2>1. UNCHANGED <<setting, at, exit>> /\ m \in {Served, Scratch}
    BY DEF JobRuns, run
  <2>2. CASE got
    <3>1. disk' = [disk EXCEPT ![m] = "complete"] /\ (disturbed => disturbed') /\ exit = "none"
      BY <2>2 DEF JobRuns
    <3>2. QED
      BY <2>1, <3>1
  <2>3. CASE ~got
    <3>1. disk' = [disk EXCEPT ![m] = "partial"] /\ disturbed'
      BY <2>3 DEF JobRuns
    <3>2. QED
      BY <2>1, <3>1
  <2>4. QED
    BY <2>2, <2>3
<1>8. CASE BesideRun
  <2>1. CASE OthersPurge \/ RuntimeStores \/ StorageRefuses
    BY <2>1 DEF OthersPurge, RuntimeStores, StorageRefuses, server, run
  <2>2. CASE CallLost \/ RuntimeChanges \/ OthersLoad \/ ServiceRestarts
    BY <2>2 DEF CallLost, RuntimeChanges, OthersLoad, ServiceRestarts, Disturbance, server, run
  <2>3. CASE OthersCache
    BY <2>3 DEF OthersCache, Disturbance, run
  <2>4. QED
    BY <1>8, <2>1, <2>2, <2>3 DEF BesideRun
<1>9. CASE UNCHANGED vars
  BY <1>9 DEF vars, server, run
<1>10. QED
  BY <1>1, <1>2, <1>3, <1>4, <1>5, <1>6, <1>7, <1>8, <1>9 DEF Next, Run

\* A run nobody disturbs never takes the served weights from the disk, not
\* even when it is told to use the served model as its scratch model.
THEOREM ServedWeightsAreSafe == Spec => []ServedWeightsStay
<1>1. Init => ServedInv
  BY DEF Init, ServedInv, ServedWeightsStay
<1>2. HeldInv /\ [Next]_vars => HeldInv'
  BY HeldKept
<1>3. ServedInv => ServedWeightsStay
  BY DEF ServedInv
<1>4. QED
  BY <1>1, <1>2, <1>3, InitHeld, ServedKept, PTL DEF Spec

-----------------------------------------------------------------------------
(* The tree a purge works on.                                              *)

Below(p, dir) == p = dir \/ Within(p, dir)

\* With an entry every directory above it is in the tree.
Closed(tree) == \A p \in tree : Parents(p) \subseteq tree

Entries(dir) == {p \in Paths : Within(p, dir) /\ Len(p) = Len(dir) + 1}

LEMMA ParentsOf ==
  ASSUME NEW a, NEW b, NEW c
  PROVE  /\ Parents(<<a>>) = {}
         /\ Parents(<<a, b>>) = {<<a>>}
         /\ Parents(<<a, b, c>>) = {<<a>>, <<a, b>>}
<1>1. Len(<<a>>) - 1 = 0 /\ Len(<<a, b>>) - 1 = 1 /\ Len(<<a, b, c>>) - 1 = 2
  OBVIOUS
<1>2. 1..0 = {} /\ 1..1 = {1} /\ 1..2 = {1, 2}
  OBVIOUS
<1>3. SubSeq(<<a, b>>, 1, 1) = <<a>>
  <2> DEFINE ab == <<a, b>>
             S == {a, b}
  <2>1. ab \in Seq(S) /\ Len(ab) = 2 /\ ab[1] = a /\ <<a>> \in Seq(S) /\ Len(<<a>>) = 1 /\ <<a>>[1] = a
    OBVIOUS
  <2>2. 1 \in Int /\ \A i \in 1..1 : ab[i] \in S
    OBVIOUS
  <2> HIDE DEF ab, S
  <2>3. /\ SubSeq(ab, 1, 1) \in Seq(S)
        /\ Len(SubSeq(ab, 1, 1)) = IF 1 <= 1 THEN 1 - 1 + 1 ELSE 0
        /\ \A i \in 1..(1 - 1 + 1) : SubSeq(ab, 1, 1)[i] = ab[1 + i - 1]
    BY <2>2, SubSeqProperties
  <2>4. /\ Len(SubSeq(ab, 1, 1)) = Len(<<a>>)
        /\ \A i \in 1..Len(SubSeq(ab, 1, 1)) : SubSeq(ab, 1, 1)[i] = <<a>>[i]
    BY <2>1, <2>3
  <2>5. SubSeq(ab, 1, 1) = <<a>>
    BY <2>1, <2>3, <2>4, SeqEqual
  <2>6. QED
    BY <2>5 DEF ab
<1>4. SubSeq(<<a, b, c>>, 1, 1) = <<a>> /\ SubSeq(<<a, b, c>>, 1, 2) = <<a, b>>
  BY Prefixes
<1>5. Parents(<<a>>) = {SubSeq(<<a>>, 1, i) : i \in {}}
  BY <1>1, <1>2 DEF Parents
<1>6. Parents(<<a, b>>) = {SubSeq(<<a, b>>, 1, i) : i \in {1}}
  BY <1>1, <1>2 DEF Parents
<1>7. Parents(<<a, b, c>>) = {SubSeq(<<a, b, c>>, 1, i) : i \in {1, 2}}
  BY <1>1, <1>2 DEF Parents
<1>8. QED
  BY <1>3, <1>4, <1>5, <1>6, <1>7

\* The forms of a path.
LEMMA PathForms ==
  ASSUME NEW p \in Paths
  PROVE  \/ \E f \in Names : p = <<f>> /\ p \in Files
         \/ \E n \in Namespaces : p = <<n>> /\ p \in Dirs
         \/ \E n \in Namespaces, s \in Sessions : p = <<n, s>> /\ p \in Dirs
         \/ \E n \in Namespaces, s \in Sessions, f \in Names : p = <<n, s, f>> /\ p \in Files
BY DEF Paths, Dirs, Files

LEMMA LongPath ==
  ASSUME NEW p \in Paths
  PROVE  /\ Len(p) \in 1..3
         /\ Len(p) > 2 =>
              \E n \in Namespaces, s \in Sessions, f \in Names : p = <<n, s, f>> /\ p \in Files
<1>1. CASE \E f : p = <<f>>
  BY <1>1
<1>2. CASE \E n, s : p = <<n, s>>
  BY <1>2
<1>3. CASE \E n \in Namespaces, s \in Sessions, f \in Names : p = <<n, s, f>> /\ p \in Files
  <2>1. Len(p) = 3
    BY <1>3
  <2>2. QED
    BY ONLY <1>3, <2>1
<1>4. QED
  BY <1>1, <1>2, <1>3, PathForms

\* What is within a directory, for only directories have anything within.
LEMMA WithinForms ==
  ASSUME NEW p \in Paths, NEW q \in Paths, Within(p, q)
  PROVE  /\ q \in Dirs
         /\ \E n \in Namespaces, s \in Sessions :
              \/ q = <<n>> /\ p = <<n, s>> /\ p \in Dirs
              \/ \E f \in Names : q \in {<<n>>, <<n, s>>} /\ p = <<n, s, f>> /\ p \in Files
<1> USE DEF Within
<1>1. CASE \E f \in Names : q = <<f>>
  <2>1. PICK f \in Names : q = <<f>>
    BY <1>1
  <2>2. Len(p) > 1 /\ p[1] = f
    <3>1. Len(q) = 1 /\ q[1] = f /\ 1 \in 1..1
      BY <2>1
    <3>2. QED
      BY <3>1
  <2>3. \/ \E n \in Namespaces, s \in Sessions : p = <<n, s>>
        \/ \E n \in Namespaces, s \in Sessions, g \in Names : p = <<n, s, g>>
    BY <2>2, PathForms
  <2>4. p[1] \in Namespaces
    BY <2>3
  <2>5. QED
    BY <2>2, <2>4, PurgeAssumption
<1>2. CASE \E n \in Namespaces : q = <<n>> /\ q \in Dirs
  <2>1. PICK n \in Namespaces : q = <<n>> /\ q \in Dirs
    BY <1>2
  <2>2. Len(p) > 1 /\ p[1] = n
    <3>1. Len(q) = 1 /\ q[1] = n /\ 1 \in 1..1
      BY <2>1
    <3>2. QED
      BY <3>1
  <2>3. CASE \E a \in Namespaces, s \in Sessions : p = <<a, s>> /\ p \in Dirs
    <3>1. PICK a \in Namespaces, s \in Sessions : p = <<a, s>> /\ p \in Dirs
      BY <2>3
    <3>2. a = n
      BY <2>2, <3>1
    <3>3. QED
      BY ONLY <2>1, <3>1, <3>2
  <2>4. CASE \E a \in Namespaces, s \in Sessions, g \in Names : p = <<a, s, g>> /\ p \in Files
    <3>1. PICK a \in Namespaces, s \in Sessions, g \in Names : p = <<a, s, g>> /\ p \in Files
      BY <2>4
    <3>2. a = n
      BY <2>2, <3>1
    <3>3. QED
      BY ONLY <2>1, <3>1, <3>2
  <2>5. QED
    BY <2>2, <2>3, <2>4, PathForms
<1>3. CASE \E n \in Namespaces, s \in Sessions : q = <<n, s>> /\ q \in Dirs
  <2>1. PICK n \in Namespaces, s \in Sessions : q = <<n, s>> /\ q \in Dirs
    BY <1>3
  <2>2. Len(q) = 2 /\ q[1] = n /\ q[2] = s
    BY <2>1
  <2>3. Len(p) > 2 /\ p[1] = n /\ p[2] = s
    <3>1. 1 \in 1..2 /\ 2 \in 1..2
      OBVIOUS
    <3>2. QED
      BY <2>2, <3>1
  <2>4. PICK a \in Namespaces, b \in Sessions, g \in Names : p = <<a, b, g>> /\ p \in Files
    BY <2>3, LongPath
  <2>5. a = n /\ b = s
    BY <2>3, <2>4
  <2>6. QED
    BY ONLY <2>1, <2>4, <2>5
<1>4. CASE \E n \in Namespaces, s \in Sessions, f \in Names : q = <<n, s, f>>
  <2>1. Len(q) = 3
    BY <1>4
  <2>2. Len(p) > 3
    BY <2>1
  <2> DEFINE k == Len(p)
  <2>3. k > 3 /\ k \in 1..3
    BY <2>2, LongPath
  <2> HIDE DEF k
  <2>4. QED
    BY <2>3
<1>5. QED
  BY <1>1, <1>2, <1>3, <1>4, PathForms

LEMMA TuplesWithin ==
  ASSUME NEW a, NEW b, NEW c
  PROVE  Within(<<a, b>>, <<a>>) /\ Within(<<a, b, c>>, <<a>>) /\ Within(<<a, b, c>>, <<a, b>>)
<1>1. /\ Len(<<a>>) = 1 /\ Len(<<a, b>>) = 2 /\ Len(<<a, b, c>>) = 3
      /\ <<a>>[1] = a /\ <<a, b>>[1] = a /\ <<a, b, c>>[1] = a
      /\ <<a, b>>[2] = b /\ <<a, b, c>>[2] = b
  OBVIOUS
<1>2. 1..1 = {1} /\ 1..2 = {1, 2} /\ 2 > 1 /\ 3 > 1 /\ 3 > 2
  OBVIOUS
<1>3. QED
  BY <1>1, <1>2 DEF Within

\* Only directories are above an entry, and it is within them.
LEMMA ParentsAbove ==
  ASSUME NEW p \in Paths, NEW q \in Parents(p)
  PROVE  q \in Dirs /\ Within(p, q) /\ Parents(q) \subseteq Parents(p)
<1>1. CASE \E f : p = <<f>>
  <2>1. PICK f : p = <<f>>
    BY <1>1
  <2>2. QED
    BY <2>1, ParentsOf
<1>2. CASE \E n \in Namespaces : \E s : p = <<n, s>>
  <2>0. PICK n \in Namespaces : \E s : p = <<n, s>>
    BY <1>2
  <2>1. PICK s : p = <<n, s>>
    BY <2>0
  <2>2. Parents(p) = {<<n>>}
    BY <2>1, ParentsOf
  <2>3. q = <<n>>
    BY <2>2
  <2>4. q \in Dirs
    BY <2>3 DEF Dirs
  <2>5. Parents(q) = {}
    BY <2>3, ParentsOf
  <2>6. Within(p, q)
    BY <2>1, <2>3, TuplesWithin
  <2>7. QED
    BY <2>4, <2>5, <2>6
<1>3. CASE \E n \in Namespaces, s \in Sessions : \E f : p = <<n, s, f>>
  <2>0. PICK n \in Namespaces, s \in Sessions : \E f : p = <<n, s, f>>
    BY <1>3
  <2>1. PICK f : p = <<n, s, f>>
    BY <2>0
  <2>2. Parents(p) = {<<n>>, <<n, s>>}
    BY <2>1, ParentsOf
  <2>3. CASE q = <<n>>
    <3>1. q \in Dirs
      BY <2>3 DEF Dirs
    <3>2. Parents(q) = {}
      BY <2>3, ParentsOf
    <3>3. Within(p, q)
      BY <2>1, <2>3, TuplesWithin
    <3>4. QED
      BY <3>1, <3>2, <3>3
  <2>4. CASE q = <<n, s>>
    <3>1. q \in Dirs
      BY <2>4 DEF Dirs
    <3>2. Parents(q) = {<<n>>}
      BY <2>4, ParentsOf
    <3>3. Within(p, q)
      BY <2>1, <2>4, TuplesWithin
    <3>4. QED
      BY <2>2, <3>1, <3>2, <3>3
  <2>5. QED
    BY <2>2, <2>3, <2>4
<1>4. QED
  BY <1>1, <1>2, <1>3, PathForms

\* What the runtime leaves is closed, and stays so when a file comes or goes.
LEMMA ClosedGrows ==
  ASSUME NEW files, files \subseteq Files
  PROVE  Closed(WithParents(files))
<1>1. ASSUME NEW p \in WithParents(files) PROVE Parents(p) \subseteq WithParents(files)
  <2>1. CASE p \in files
    BY <2>1 DEF WithParents
  <2>2. CASE \E f \in files : p \in Parents(f)
    <3>1. PICK f \in files : p \in Parents(f)
      BY <2>2
    <3>2. Parents(p) \subseteq Parents(f)
      BY <3>1, ParentsAbove DEF Paths
    <3>3. QED
      BY <3>1, <3>2 DEF WithParents
  <2>3. QED
    BY <2>1, <2>2 DEF WithParents
<1>2. QED
  BY <1>1 DEF Closed

LEMMA TreesClosed ==
  ASSUME NEW tree \in Trees
  PROVE  Closed(tree) /\ tree \subseteq Paths
<1>1. PICK files \in SUBSET Files, emptied \in {{}, Dirs} : tree = WithParents(files) \cup emptied
  BY DEF Trees
<1>2. Closed(WithParents(files)) /\ WithParents(files) \subseteq Paths
  BY ClosedGrows, TreesArePaths
<1>3. Closed(Dirs)
  <2>1. ASSUME NEW d \in Dirs PROVE Parents(d) \subseteq Dirs
    BY ParentsAbove DEF Paths
  <2>2. QED
    BY <2>1 DEF Closed
<1>4. QED
  BY <1>1, <1>2, <1>3 DEF Closed, Paths

LEMMA ClosedUnion ==
  ASSUME NEW t, NEW u, Closed(t), Closed(u)
  PROVE  Closed(t \cup u)
BY DEF Closed

LEMMA ClosedShrinks ==
  ASSUME NEW tree, tree \subseteq Paths, Closed(tree), NEW e, \A p \in tree : ~Within(p, e)
  PROVE  Closed(tree \ {e})
<1>1. ASSUME NEW p \in tree \ {e}, NEW q \in Parents(p) PROVE q \in tree \ {e}
  <2>1. q \in tree
    BY DEF Closed
  <2>2. Within(p, q)
    BY ParentsAbove
  <2>3. QED
    BY <2>1, <2>2
<1>2. QED
  BY <1>1 DEF Closed

LEMMA NothingWithinFiles ==
  ASSUME NEW f \in Files, NEW p \in Paths
  PROVE  ~Within(p, f)
<1>1. f \in Paths /\ f \notin Dirs
  BY PathLengths DEF Paths
<1>2. QED
  BY <1>1, WithinForms

\* Below a directory without children there is nothing.
LEMMA EmptyIsBare ==
  ASSUME NEW tree, tree \subseteq Paths, Closed(tree), NEW d \in Dirs, Children(tree, d) = {}
  PROVE  \A p \in tree : ~Within(p, d)
<1> SUFFICES ASSUME NEW p \in tree, Within(p, d) PROVE FALSE
  OBVIOUS
<1>0. p \in Paths /\ d \in Paths
  BY DEF Paths
<1>1. PICK n \in Namespaces, s \in Sessions :
        \/ d = <<n>> /\ p = <<n, s>>
        \/ \E f \in Names : d \in {<<n>>, <<n, s>>} /\ p = <<n, s, f>>
  BY <1>0, WithinForms
<1>2. CASE d = <<n>> /\ p = <<n, s>>
  <2>1. Len(p) = Len(d) + 1
    BY <1>2
  <2>2. QED
    BY <2>1 DEF Children
<1>3. CASE \E f \in Names : d = <<n, s>> /\ p = <<n, s, f>>
  <2>1. Len(p) = Len(d) + 1
    BY <1>3
  <2>2. QED
    BY <2>1 DEF Children
<1>4. CASE \E f \in Names : d = <<n>> /\ p = <<n, s, f>>
  <2> DEFINE c == <<n, s>>
  <2>1. c \in Parents(p)
    BY <1>4, ParentsOf
  <2>2. c \in tree
    BY <2>1 DEF Closed
  <2>3. d \in Parents(c)
    BY <1>4, ParentsOf
  <2>4. Len(c) = Len(d) + 1
    BY <1>4
  <2>5. Within(c, d)
    BY <2>2, <2>3, ParentsAbove
  <2> HIDE DEF c
  <2>6. c \in Children(tree, d)
    BY <2>2, <2>4, <2>5 DEF Children
  <2>7. QED
    BY <2>6
<1>5. QED
  BY <1>1, <1>2, <1>3, <1>4

\* There are finitely many files.
LEMMA FilesFinite == IsFiniteSet(Files)
<1> DEFINE Leaf == (Namespaces \X Sessions) \X Names
           Top == {<<f>> : f \in Names}
           Low == {<<n, s, f>> : n \in Namespaces, s \in Sessions, f \in Names}
           top == [f \in Names |-> <<f>>]
           low == [x \in Leaf |-> <<x[1][1], x[1][2], x[2]>>]
<1>1. IsFiniteSet(Leaf)
  <2>1. IsFiniteSet(Namespaces \X Sessions)
    BY PurgeAssumption, FS_Product
  <2>2. QED
    BY <2>1, PurgeAssumption, FS_Product
<1>2. IsFiniteSet(Top)
  <2>1. top \in Surjection(Names, Top)
    BY DEF Surjection
  <2>2. QED
    BY <2>1, PurgeAssumption, FS_Surjection
<1>3. IsFiniteSet(Low)
  <2>1. ASSUME NEW x \in Leaf PROVE low[x] \in Low
    <3>1. x[1][1] \in Namespaces /\ x[1][2] \in Sessions /\ x[2] \in Names
      OBVIOUS
    <3>2. QED
      BY <3>1
  <2>2. ASSUME NEW y \in Low PROVE \E x \in Leaf : low[x] = y
    <3>1. PICK n \in Namespaces, s \in Sessions, f \in Names : y = <<n, s, f>>
      OBVIOUS
    <3> DEFINE x == <<<<n, s>>, f>>
    <3>2. x \in Leaf /\ x[1][1] = n /\ x[1][2] = s /\ x[2] = f
      OBVIOUS
    <3>3. QED
      BY <3>1, <3>2
  <2>3. low \in [Leaf -> Low]
    BY <2>1
  <2> HIDE DEF low, Leaf, Low
  <2>4. low \in Surjection(Leaf, Low)
    BY <2>2, <2>3 DEF Surjection
  <2>5. QED
    BY <1>1, <2>4, FS_Surjection
<1>4. Files = Top \cup Low
  BY DEF Files
<1> HIDE DEF Top, Low
<1>5. QED
  BY <1>2, <1>3, <1>4, FS_Union

\* The stack of rmtree with one directory on it, and with two.
LEMMA OneOnStack ==
  ASSUME NEW F, NEW L, NEW R
  PROVE  /\ Head(<<F>>) = F /\ Len(<<F>>) = 1 /\ Tail(<<F>>) = << >>
         /\ <<R>> \o Tail(<<F>>) = <<R>>
         /\ <<L, R>> \o Tail(<<F>>) = <<L, R>>
<1>1. Head(<<F>>) = F /\ Len(<<F>>) = 1 /\ Tail(<<F>>) = << >>
  OBVIOUS
<1>2. <<R>> \o << >> = <<R>> 
  OBVIOUS
<1>3. <<L, R>> \o << >> = <<L, R>>
  OBVIOUS
<1>4. QED
  BY <1>1, <1>2, <1>3

LEMMA TwoOnStack ==
  ASSUME NEW F, NEW G, NEW R
  PROVE  /\ Head(<<F, G>>) = F /\ Len(<<F, G>>) = 2 /\ Tail(<<F, G>>) = <<G>>
         /\ <<R>> \o Tail(<<F, G>>) = <<R, G>>
<1> DEFINE S == {F, G, R}
           both == <<F, G>>
           last == <<G>>
           first == <<R>>
           new == <<R, G>>
<1>1. Head(<<F, G>>) = F /\ Len(<<F, G>>) = 2
  OBVIOUS
<1>2. /\ both \in Seq(S) /\ both # << >> /\ Len(both) = 2 /\ both[2] = G
      /\ last \in Seq(S) /\ Len(last) = 1 /\ last[1] = G
      /\ first \in Seq(S) /\ Len(first) = 1 /\ first[1] = R
      /\ new \in Seq(S) /\ Len(new) = 2 /\ new[1] = R /\ new[2] = G
  OBVIOUS
<1> HIDE DEF S, both, last, first, new
<1>3. Tail(both) = last
  <2>1. Tail(both) \in Seq(S) /\ Len(Tail(both)) = Len(both) - 1
    BY <1>2, HeadTailProperties
  <2>2. Len(Tail(both)) = 1
    BY <1>2, <2>1
  <2>3. \A i \in 1..Len(Tail(both)) : Tail(both)[i] = both[i + 1]
    BY <1>2, HeadTailProperties
  <2>4. 1 \in 1..Len(Tail(both)) /\ 1 + 1 = 2
    BY <2>2
  <2>5. Tail(both)[1] = G
    BY <1>2, <2>3, <2>4
  <2>6. ASSUME NEW i \in 1..Len(Tail(both)) PROVE Tail(both)[i] = last[i]
    <3> DEFINE k == Len(Tail(both))
    <3>1. k = 1 /\ i \in 1..k
      BY <2>2, <2>6
    <3> HIDE DEF k
    <3>2. i = 1
      BY <3>1
    <3>3. QED
      BY <1>2, <2>5, <3>2
  <2>7. QED
    BY <1>2, <2>1, <2>2, <2>6, SeqEqual
<1>4. first \o last = new
  <2>1. /\ first \o last \in Seq(S) /\ Len(first \o last) = Len(first) + Len(last)
        /\ \A i \in 1..(Len(first) + Len(last)) : (first \o last)[i] =
             IF i <= Len(first) THEN first[i] ELSE last[i - Len(first)]
    BY <1>2, ConcatProperties
  <2> DEFINE cat == first \o last
  <2> HIDE DEF cat
  <2>2. Len(first) + Len(last) = 2
    BY <1>2
  <2>3. cat \in Seq(S) /\ Len(cat) = 2
    BY <2>1, <2>2 DEF cat
  <2>4. cat[1] = R
    <3>1. 1 \in 1..(Len(first) + Len(last)) /\ 1 <= Len(first)
      BY <1>2, <2>2
    <3>2. cat[1] = first[1]
      BY <2>1, <3>1 DEF cat
    <3>3. QED
      BY <1>2, <3>2
  <2>5. cat[2] = G
    <3>1. 2 \in 1..(Len(first) + Len(last)) /\ ~(2 <= Len(first)) /\ 2 - Len(first) = 1
      BY <1>2, <2>2
    <3>2. cat[2] = last[1]
      BY <2>1, <3>1 DEF cat
    <3>3. QED
      BY <1>2, <3>2
  <2>6. \A i \in 1..Len(cat) : cat[i] = new[i]
    BY <1>2, <2>3, <2>4, <2>5
  <2>7. cat = new
    BY <1>2, <2>3, <2>6, SeqEqual
  <2>8. QED
    BY <2>7 DEF cat
<1>5. QED
  BY <1>1, <1>3, <1>4 DEF both, last, first, new

-----------------------------------------------------------------------------
(* What a purge has still to come to, and what it has counted.             *)

Busy == purge.pc \in {"open", "delete"}

\* rmtree is in the target, or in a directory of the target.
OneFrame(F) ==
  /\ purge.stack = <<F>> /\ F.dir = purge.target
  /\ F.left \subseteq Entries(F.dir)

TwoFrames(F, G) ==
  /\ purge.stack = <<F, G>> /\ G.dir = purge.target
  /\ F.dir \in Entries(G.dir)
  /\ F.left \subseteq Entries(F.dir) /\ G.left \subseteq Entries(G.dir)

Stacked ==
  /\ Busy => purge.target \in Dirs
  /\ purge.pc = "answered" => purge.targets = {}
  /\ purge.pc = "delete" => \E F, G \in Frames : OneFrame(F) \/ TwoFrames(F, G)

Due(p) == (\E t \in purge.targets : Below(p, t)) \/ (Busy /\ Below(p, purge.target))

\* A file of the scope is still due, or it was written meanwhile.
NothingForgotten ==
  \A f \in purge.tree \cap Files : InScope(f) => f \in purge.written \/ Due(f)

\* What is listed is there, and what is there is listed.
Listed ==
  \A F, G \in Frames :
    /\ OneFrame(F) => F.left = Children(purge.tree, F.dir)
    /\ TwoFrames(F, G) =>
         /\ F.left = Children(purge.tree, F.dir)
         /\ F.dir \notin G.left
         /\ G.left \cup {F.dir} = Children(purge.tree, G.dir)

\* The files below the target are counted before they are removed.
Remaining == IF Busy THEN FilesBelow(purge.tree, purge.target) ELSE {}

Counted == purge.count = Cardinality(purge.removed) + Cardinality(Remaining)

\* While the runtime leaves it alone a purge finds what it has listed.
LeftAlone ==
  /\ purge.targets \subseteq purge.tree
  /\ purge.removed \subseteq Files /\ purge.removed \cap purge.tree = {}
  /\ \A t, u \in purge.targets : ~Within(t, u)
  /\ Busy => purge.target \notin purge.targets /\ \A t \in purge.targets : ~Within(t, purge.target)
  /\ Counted
  /\ purge.pc = "delete" => Listed

PurgeInv ==
  IF purge.pc \in {"raised", "refused"} THEN purge.pc = "raised" => purge.company # 0
  ELSE /\ Closed(purge.tree) /\ Stacked /\ NothingForgotten
       /\ purge.company = 0 => LeftAlone

LEMMA NoPurgeInv ==
  /\ purge = NoPurge => PurgeInv
  /\ purge' = NoPurge => PurgeInv'
<1>1. Cardinality({}) = 0 /\ Closed({})
  BY FS_EmptySet DEF Closed
<1>2. ASSUME purge = NoPurge PROVE PurgeInv
  <2>1. /\ purge.pc = "idle" /\ purge.tree = {} /\ purge.targets = {} /\ purge.removed = {}
        /\ purge.count = 0
    BY <1>2 DEF NoPurge
  <2>2. QED
    BY <1>1, <2>1 DEF PurgeInv, Stacked, Busy, NothingForgotten, LeftAlone, Counted, Remaining
<1>3. ASSUME purge' = NoPurge PROVE PurgeInv'
  <2>1. /\ purge'.pc = "idle" /\ purge'.tree = {} /\ purge'.targets = {} /\ purge'.removed = {}
        /\ purge'.count = 0
    BY <1>3 DEF NoPurge
  <2>2. QED
    BY <1>1, <2>1 DEF PurgeInv, Stacked, Busy, NothingForgotten, LeftAlone, Counted, Remaining
<1>4. QED
  BY <1>2, <1>3

\* The targets are there, none is within another, and every file of the scope
\* is one of them or below one.
LEMMA TargetsCover ==
  ASSUME NEW namespace \in Namespaces \cup {NoBinding}, NEW session \in Sessions \cup {NoBinding},
         NEW tree, tree \subseteq Paths, Closed(tree),
         purge'.namespace = namespace, purge'.session = session
  PROVE  LET targets == PurgeTargets(tree, namespace, session)
         IN /\ targets \subseteq tree
            /\ \A t, u \in targets : ~Within(t, u)
            /\ \A f \in tree \cap Files : InScope(f)' => \E t \in targets : Below(f, t)
<1> DEFINE targets == PurgeTargets(tree, namespace, session)
<1>1. targets \subseteq tree
  BY DEF PurgeTargets, Children
<1>2. \A t, u \in targets : ~Within(t, u)
  <2>1. CASE session = NoBinding /\ namespace = NoBinding
    <3>1. \A t \in targets : Len(t) = Len(<< >>) + 1
      BY <2>1 DEF PurgeTargets, Children
    <3>2. Len(<< >>) + 1 = 1
      OBVIOUS
    <3>3. \A t \in targets : Len(t) = 1
      BY <3>1, <3>2
    <3> HIDE DEF targets
    <3>4. QED
      BY <3>3 DEF Within
  <2>2. CASE session = NoBinding /\ namespace # NoBinding
    <3>1. \A t \in targets : t = <<namespace>>
      BY <2>2 DEF PurgeTargets
    <3>2. \A t, u \in targets : t = u
      BY <3>1
    <3>3. \A t \in targets : Len(t) \in Nat
      BY <3>1
    <3> HIDE DEF targets
    <3>4. QED
      BY <3>2, <3>3 DEF Within
  <2>3. CASE session # NoBinding
    <3>1. \A t \in targets : Len(t) = 2
      BY <2>3 DEF PurgeTargets
    <3> HIDE DEF targets
    <3>2. QED
      BY <3>1 DEF Within
  <2>4. QED
    BY <2>1, <2>2, <2>3
<1>3. ASSUME NEW f \in tree \cap Files, InScope(f)' PROVE \E t \in targets : Below(f, t)
  <2>0. /\ \/ namespace = NoBinding /\ session = NoBinding
           \/ /\ Len(f) = 3
              /\ namespace \in {NoBinding, f[1]} /\ session \in {NoBinding, f[2]}
        /\ f \in Paths
    BY <1>3 DEF InScope, Paths
  <2>1. CASE Len(f) = 1
    <3>1. session = NoBinding /\ namespace = NoBinding
      BY <2>0, <2>1
    <3>2. Within(f, << >>) /\ Len(f) = Len(<< >>) + 1
      <4>1. Len(<< >>) = 0
        OBVIOUS
      <4>2. QED
        BY <2>1, <4>1 DEF Within
    <3>3. f \in targets
      BY <3>1, <3>2 DEF PurgeTargets, Children
    <3>4. QED
      BY <3>3 DEF Below
  <2>2. CASE Len(f) = 3
    <3>1. PICK n \in Namespaces, s \in Sessions, g \in Names : f = <<n, s, g>>
      BY <2>0, <2>2, LongPath
    <3>2. f[1] = n /\ f[2] = s
      BY <3>1
    <3>3. <<n>> \in tree /\ <<n, s>> \in tree
      BY <3>1, ParentsOf DEF Closed
    <3>4. Within(f, <<n>>) /\ Within(f, <<n, s>>)
      BY <3>1, TuplesWithin
    <3>5. CASE session = NoBinding
      <4>1. <<n>> \in targets
        <5>1. CASE namespace = NoBinding
          <6>1. Len(<<n>>) = 1 /\ Len(<< >>) = 0
            OBVIOUS
          <6>2. Within(<<n>>, << >>) /\ Len(<<n>>) = Len(<< >>) + 1
            BY <6>1 DEF Within
          <6>3. QED
            BY <3>3, <3>5, <5>1, <6>2 DEF PurgeTargets, Children
        <5>2. CASE namespace # NoBinding
          <6>1. namespace = n
            BY <2>0, <3>2, <5>2
          <6>2. QED
            BY <3>3, <3>5, <5>2, <6>1 DEF PurgeTargets
        <5>3. QED
          BY <5>1, <5>2
      <4>2. QED
        BY <3>4, <4>1 DEF Below
    <3>6. CASE session # NoBinding
      <4>1. session = s /\ namespace \in {NoBinding, n}
        BY <2>0, <3>2, <3>6
      <4> DEFINE q == <<n, s>>
      <4>2. q \in Dirs /\ Len(q) = 2 /\ q[1] = n /\ q[2] = s
        BY DEF Dirs
      <4>3. q \in tree /\ Within(f, q)
        BY <3>3, <3>4
      <4> HIDE DEF q
      <4>4. q \in targets
        BY <3>6, <4>1, <4>2, <4>3 DEF PurgeTargets
      <4>5. QED
        BY <4>3, <4>4 DEF Below
    <3>7. QED
      BY <3>5, <3>6
  <2>3. QED
    BY <2>1, <2>2, PathLengths
<1>4. QED
  BY <1>1, <1>2, <1>3

LEMMA CommandInv ==
  ASSUME NEW namespace \in Namespaces \cup {NoBinding}, NEW session \in Sessions \cup {NoBinding},
         NEW tree \in Trees, PurgeCommand(namespace, session, tree)
  PROVE  PurgeInv'
<1>1. Closed(tree) /\ tree \subseteq Paths
  BY TreesClosed
<1>2. /\ purge'.pc = "target" /\ purge'.tree = tree
      /\ purge'.targets = PurgeTargets(tree, namespace, session)
      /\ purge'.removed = {} /\ purge'.count = 0
      /\ purge'.namespace = namespace /\ purge'.session = session
  BY DEF PurgeCommand, NoPurge
<1> DEFINE targets == PurgeTargets(tree, namespace, session)
<1>3. /\ targets \subseteq tree
      /\ \A t, u \in targets : ~Within(t, u)
      /\ \A f \in tree \cap Files : InScope(f)' => \E t \in targets : Below(f, t)
  BY <1>1, <1>2, TargetsCover
<1> HIDE DEF targets
<1>4. ~Busy' /\ Stacked' /\ Remaining' = {}
  BY <1>2 DEF Busy, Stacked, Remaining
<1>5. Counted'
  BY <1>2, <1>4, FS_EmptySet DEF Counted
<1>6. NothingForgotten'
  BY <1>2, <1>3 DEF NothingForgotten, Due, targets
<1>7. LeftAlone'
  BY <1>2, <1>3, <1>4, <1>5 DEF LeftAlone, targets
<1>8. QED
  BY <1>1, <1>2, <1>4, <1>6, <1>7 DEF PurgeInv

\* The purge keeps its scope; a file that was accounted for still is if what
\* was due and is not any more is off the disk.
LEMMA StillAccounted ==
  ASSUME ScopeInv, PurgeInv, purge.pc \notin {"raised", "refused"},
         purge'.namespace = purge.namespace, purge'.session = purge.session,
         purge'.written = purge.written, purge'.tree \subseteq purge.tree,
         \A f \in purge'.tree \cap Files : Due(f) => Due(f)'
  PROVE  NothingForgotten'
<1>1. NothingForgotten
  BY DEF PurgeInv
<1>2. \A p : InScope(p)' <=> InScope(p)
  BY ScopeKept
<1>3. QED
  BY <1>1, <1>2 DEF NothingForgotten

LEMMA RaiseInv ==
  ASSUME ScopeInv, Raise, purge.company # 0
  PROVE  PurgeInv'
<1>1. purge'.pc = "raised" /\ purge'.company = purge.company
  BY DEF Raise, ScopeInv, Shape
<1>2. QED
  BY <1>1 DEF PurgeInv

LEMMA RefusedInv == ASSUME ScopeInv, Refused PROVE PurgeInv'
<1>1. purge'.pc = "refused"
  BY DEF Refused, ScopeInv, Shape
<1>2. QED
  BY <1>1 DEF PurgeInv

LEMMA ElsewhereInv == ASSUME PurgeElsewhere PROVE PurgeInv'
<1>1. PICK removed \in SUBSET Files :
        purge' = [NoPurge EXCEPT !.pc = "elsewhere", !.removed = removed,
                                 !.count = Cardinality(removed)]
  BY DEF PurgeElsewhere
<1>2. /\ purge'.pc = "elsewhere" /\ purge'.tree = {} /\ purge'.targets = {}
      /\ purge'.removed = removed /\ purge'.count = Cardinality(removed)
  BY <1>1 DEF NoPurge
<1>3. Cardinality({}) = 0 /\ Cardinality(removed) \in Nat
  BY FilesFinite, FS_Subset, FS_EmptySet, FS_CardinalityType
<1>4. Counted'
  BY <1>2, <1>3 DEF Counted, Remaining, Busy
<1>5. LeftAlone' /\ Stacked' /\ NothingForgotten' /\ Closed(purge'.tree)
  BY <1>2, <1>4 DEF LeftAlone, Stacked, Busy, NothingForgotten, Closed
<1>6. QED
  BY <1>2, <1>5 DEF PurgeInv

\* Files that are counted once more, and removed once more.
LEMMA OneMore ==
  ASSUME NEW removed, removed \subseteq Files, NEW e, e \notin removed
  PROVE  Cardinality(removed \cup {e}) = Cardinality(removed) + 1 /\ Cardinality(removed) \in Nat
<1>1. IsFiniteSet(removed)
  BY FilesFinite, FS_Subset
<1>2. QED
  BY <1>1, FS_AddElement, FS_CardinalityType

LEMMA RemoveFileInv == ASSUME ScopeInv, PurgeInv, RemoveFile PROVE PurgeInv'
<1>1. PICK t \in purge.targets \ Dirs :
        IF t \in purge.tree
          THEN purge' = [purge EXCEPT !.tree = @ \ {t}, !.targets = @ \ {t},
                                      !.removed = @ \cup {t}, !.count = @ + 1]
          ELSE Raise
  BY DEF RemoveFile
<1>2. purge.pc = "target" /\ t \in Files /\ t \in Paths /\ purge.tree \subseteq Paths
  BY DEF RemoveFile, ScopeInv, Paths
<1>3. /\ Closed(purge.tree) /\ Stacked /\ NothingForgotten
      /\ purge.company = 0 => LeftAlone
  BY <1>2 DEF PurgeInv
<1>4. CASE t \notin purge.tree
  <2>1. purge.company # 0
    BY <1>3, <1>4 DEF LeftAlone
  <2>2. QED
    BY <1>1, <1>4, <2>1, RaiseInv
<1>5. CASE t \in purge.tree
  <2>1. /\ purge'.pc = "target" /\ purge'.tree = purge.tree \ {t}
        /\ purge'.targets = purge.targets \ {t} /\ purge'.removed = purge.removed \cup {t}
        /\ purge'.count = purge.count + 1 /\ purge'.company = purge.company
        /\ purge'.written = purge.written
        /\ purge'.namespace = purge.namespace /\ purge'.session = purge.session
    BY <1>1, <1>2, <1>5 DEF ScopeInv, Shape
  <2>2. \A p \in purge.tree : ~Within(p, t)
    BY <1>2, NothingWithinFiles
  <2>3. Closed(purge'.tree)
    BY <1>2, <1>3, <2>1, <2>2, ClosedShrinks
  <2>4. ~Busy /\ ~Busy' /\ Stacked' /\ Remaining = {} /\ Remaining' = {}
    BY <1>2, <2>1 DEF Busy, Stacked, Remaining
  <2>5. NothingForgotten'
    <3>1. ASSUME NEW f \in purge'.tree \cap Files, Due(f) PROVE Due(f)'
      <4>1. PICK u \in purge.targets : Below(f, u)
        BY <2>4, <3>1 DEF Due
      <4>2. u # t
        BY <2>1, <2>2, <3>1, <4>1 DEF Below
      <4>3. u \in purge'.targets
        BY <2>1, <4>2
      <4>4. QED
        BY <4>1, <4>3 DEF Due
    <3>2. QED
      BY <1>2, <2>1, <3>1, StillAccounted
  <2>6. ASSUME purge.company = 0 PROVE LeftAlone'
    <3>1. LeftAlone
      BY <1>3, <2>6
    <3>2. t \notin purge.removed /\ purge.removed \subseteq Files
      BY <1>5, <3>1 DEF LeftAlone
    <3>3. Cardinality(purge'.removed) = Cardinality(purge.removed) + 1 /\ Cardinality(purge.removed) \in Nat
      BY <2>1, <3>2, OneMore
    <3>4. purge.count = Cardinality(purge.removed) + 0
      BY <2>4, <3>1, FS_EmptySet DEF LeftAlone, Counted
    <3>5. Counted'
      BY <2>1, <2>4, <3>3, <3>4, FS_EmptySet DEF Counted
    <3>6. QED
      BY <1>2, <2>1, <2>4, <3>1, <3>5 DEF LeftAlone
  <2>7. QED
    BY <2>1, <2>3, <2>4, <2>5, <2>6 DEF PurgeInv
<1>6. QED
  BY <1>4, <1>5

LEMMA CountTargetInv == ASSUME ScopeInv, PurgeInv, CountTarget PROVE PurgeInv'
<1>1. PICK t \in purge.targets \cap Dirs :
        purge' = [purge EXCEPT !.pc = "open", !.targets = @ \ {t}, !.target = t,
                    !.count = @ + Cardinality(FilesBelow(purge.tree, t))]
  BY DEF CountTarget
<1>2. /\ purge.pc = "target" /\ purge.tree \subseteq Paths
  BY DEF CountTarget, ScopeInv
<1>3. /\ Closed(purge.tree) /\ Stacked /\ NothingForgotten
      /\ purge.company = 0 => LeftAlone
  BY <1>2 DEF PurgeInv
<1>4. /\ purge'.pc = "open" /\ purge'.tree = purge.tree /\ purge'.target = t
      /\ purge'.targets = purge.targets \ {t} /\ purge'.removed = purge.removed
      /\ purge'.count = purge.count + Cardinality(FilesBelow(purge.tree, t))
      /\ purge'.company = purge.company /\ purge'.written = purge.written
      /\ purge'.namespace = purge.namespace /\ purge'.session = purge.session
  BY <1>1 DEF ScopeInv, Shape
<1>5. ~Busy /\ Busy' /\ Stacked' /\ Remaining = {} /\ Remaining' = FilesBelow(purge.tree, t)
  BY <1>2, <1>4 DEF Busy, Stacked, Remaining
<1>6. NothingForgotten'
  <2>1. ASSUME NEW f \in purge'.tree \cap Files, Due(f) PROVE Due(f)'
    <3>1. PICK u \in purge.targets : Below(f, u)
      BY <1>5, <2>1 DEF Due
    <3>2. u = t \/ u \in purge'.targets
      BY <1>4
    <3>3. QED
      BY <1>4, <1>5, <3>1, <3>2 DEF Due
  <2>2. QED
    BY <1>2, <1>4, <2>1, StillAccounted
<1>7. ASSUME purge.company = 0 PROVE LeftAlone'
  <2>1. LeftAlone
    BY <1>3, <1>7
  <2>2. IsFiniteSet(FilesBelow(purge.tree, t)) /\ IsFiniteSet(purge.removed)
    <3>1. FilesBelow(purge.tree, t) \subseteq Files /\ purge.removed \subseteq Files
      BY <2>1 DEF FilesBelow, LeftAlone
    <3>2. QED
      BY <3>1, FilesFinite, FS_Subset
  <2>3. Cardinality(FilesBelow(purge.tree, t)) \in Nat /\ Cardinality(purge.removed) \in Nat
    BY <2>2, FS_CardinalityType
  <2>4. purge.count = Cardinality(purge.removed) + 0
    BY <1>5, <2>1, FS_EmptySet DEF LeftAlone, Counted
  <2>5. Counted'
    BY <1>4, <1>5, <2>3, <2>4 DEF Counted
  <2>6. QED
    BY <1>4, <1>5, <2>1, <2>5 DEF LeftAlone
<1>8. QED
  BY <1>3, <1>4, <1>5, <1>6, <1>7 DEF PurgeInv

LEMMA AnswerPurgeInv == ASSUME ScopeInv, PurgeInv, AnswerPurge PROVE PurgeInv'
<1>1. purge.pc = "target" /\ purge.targets = {}
  BY DEF AnswerPurge
<1>2. /\ Closed(purge.tree) /\ Stacked /\ NothingForgotten
      /\ purge.company = 0 => LeftAlone
  BY <1>1 DEF PurgeInv
<1>3. /\ purge'.pc = "answered" /\ purge'.tree = purge.tree
      /\ purge'.targets = purge.targets /\ purge'.removed = purge.removed
      /\ purge'.count = purge.count
      /\ purge'.company = purge.company /\ purge'.written = purge.written
      /\ purge'.namespace = purge.namespace /\ purge'.session = purge.session
  BY DEF AnswerPurge, ScopeInv, Shape
<1>4. ~Busy /\ ~Busy' /\ Stacked' /\ Remaining = {} /\ Remaining' = {}
  BY <1>1, <1>3 DEF Busy, Stacked, Remaining
<1>5. NothingForgotten'
  <2>1. \A f : Due(f) => Due(f)'
    BY <1>3, <1>4 DEF Due
  <2>2. QED
    BY <1>1, <1>3, <2>1, StillAccounted
<1>6. LeftAlone => LeftAlone'
  BY <1>3, <1>4 DEF LeftAlone, Counted
<1>7. QED
  BY <1>2, <1>3, <1>4, <1>5, <1>6 DEF PurgeInv

LEMMA ListingIsFrame ==
  ASSUME purge.tree \subseteq Paths, NEW dir \in Dirs
  PROVE  /\ Listing(dir) \in Frames /\ Listing(dir).dir = dir
         /\ Listing(dir).left = Children(purge.tree, dir)
         /\ Listing(dir).left \subseteq Entries(dir)
BY DEF Listing, Frames, Children, Entries

\* A step after which rmtree is in one directory, or in two.
LEMMA InOneFrame ==
  ASSUME NEW F \in Frames, purge'.pc = "delete", purge'.stack = <<F>>,
         F.dir = purge'.target, F.left \subseteq Entries(F.dir)
  PROVE  /\ Stacked'
         /\ F.left = Children(purge'.tree, F.dir) => Listed'
<1>1. Busy' /\ purge'.target \in Dirs
  BY DEF Busy, Frames
<1>2. OneFrame(F)'
  BY DEF OneFrame
<1>3. Stacked'
  BY <1>1, <1>2 DEF Stacked
<1>4. ASSUME NEW A \in Frames PROVE OneFrame(A)' => A = F
  <2>1. OneFrame(A)' => <<A>> = <<F>>
    BY DEF OneFrame
  <2>2. QED
    BY <2>1
<1>5. ASSUME NEW A \in Frames, NEW B \in Frames PROVE ~TwoFrames(A, B)'
  <2>1. TwoFrames(A, B)' => <<A, B>> = <<F>>
    BY DEF TwoFrames
  <2>2. Len(<<A, B>>) = 2 /\ Len(<<F>>) = 1
    OBVIOUS
  <2>3. QED
    BY <2>1, <2>2
<1>6. QED
  BY <1>3, <1>4, <1>5 DEF Listed

LEMMA InTwoFrames ==
  ASSUME NEW F \in Frames, NEW G \in Frames, purge'.pc = "delete", purge'.stack = <<F, G>>,
         G.dir = purge'.target, F.dir \in Entries(G.dir),
         F.left \subseteq Entries(F.dir), G.left \subseteq Entries(G.dir)
  PROVE  /\ Stacked'
         /\ /\ F.left = Children(purge'.tree, F.dir)
            /\ F.dir \notin G.left
            /\ G.left \cup {F.dir} = Children(purge'.tree, G.dir)
            => Listed'
<1>1. Busy' /\ purge'.target \in Dirs
  BY DEF Busy, Frames
<1>2. TwoFrames(F, G)'
  BY DEF TwoFrames
<1>3. Stacked'
  BY <1>1, <1>2 DEF Stacked
<1>4. ASSUME NEW A \in Frames PROVE ~OneFrame(A)'
  <2>1. OneFrame(A)' => <<A>> = <<F, G>>
    BY DEF OneFrame
  <2>2. Len(<<F, G>>) = 2 /\ Len(<<A>>) = 1
    OBVIOUS
  <2>3. QED
    BY <2>1, <2>2
<1>5. ASSUME NEW A \in Frames, NEW B \in Frames PROVE TwoFrames(A, B)' => A = F /\ B = G
  <2>1. TwoFrames(A, B)' => <<A, B>> = <<F, G>>
    BY DEF TwoFrames
  <2>2. QED
    BY <2>1
<1>6. QED
  BY <1>3, <1>4, <1>5 DEF Listed

LEMMA OpenTargetInv == ASSUME ScopeInv, PurgeInv, OpenTarget PROVE PurgeInv'
<1>1. /\ purge' = [purge EXCEPT !.pc = "delete", !.stack = <<Listing(purge.target)>>]
      /\ purge.pc = "open" /\ purge.tree \subseteq Paths
  BY DEF OpenTarget, ScopeInv
<1>2. /\ Closed(purge.tree) /\ Stacked /\ NothingForgotten
      /\ purge.company = 0 => LeftAlone
  BY <1>1 DEF PurgeInv
<1>3. /\ purge'.pc = "delete" /\ purge'.tree = purge.tree /\ purge'.target = purge.target
      /\ purge'.targets = purge.targets /\ purge'.removed = purge.removed
      /\ purge'.count = purge.count /\ purge'.stack = <<Listing(purge.target)>>
      /\ purge'.company = purge.company /\ purge'.written = purge.written
      /\ purge'.namespace = purge.namespace /\ purge'.session = purge.session
  BY <1>1 DEF ScopeInv, Shape
<1>4. Busy /\ Busy' /\ Remaining' = Remaining /\ purge.target \in Dirs
  BY <1>1, <1>2, <1>3 DEF Busy, Stacked, Remaining
<1>5. PICK F \in Frames :
        /\ F = Listing(purge.target) /\ F.dir = purge.target
        /\ F.left = Children(purge.tree, F.dir) /\ F.left \subseteq Entries(F.dir)
  BY <1>1, <1>4, ListingIsFrame
<1>6. Stacked' /\ Listed'
  BY <1>3, <1>5, InOneFrame
<1>7. NothingForgotten'
  <2>1. \A f : Due(f) => Due(f)'
    BY <1>3, <1>4 DEF Due
  <2>2. QED
    BY <1>1, <1>3, <2>1, StillAccounted
<1>8. LeftAlone => LeftAlone'
  BY <1>3, <1>4, <1>6 DEF LeftAlone, Counted
<1>9. QED
  BY <1>2, <1>3, <1>6, <1>7, <1>8 DEF PurgeInv

\* rmtree's record of a directory, with one entry less.
LEMMA FrameShrinks ==
  ASSUME NEW F \in Frames, NEW e
  PROVE  /\ [F EXCEPT !.left = @ \ {e}] \in Frames
         /\ [F EXCEPT !.left = @ \ {e}].dir = F.dir
         /\ [F EXCEPT !.left = @ \ {e}].left = F.left \ {e}
BY DEF Frames

\* The directories of rmtree's listing are listed below a namespace.
LEMMA NoDeeper ==
  ASSUME NEW d \in Dirs, NEW e \in Dirs, e \in Entries(d)
  PROVE  Len(d) = 1 /\ Len(e) = 2
<1>1. d \in Paths /\ e \in Paths /\ Within(e, d) /\ e \notin Files
  BY PathLengths DEF Entries, Paths
<1>2. PICK n \in Namespaces, s \in Sessions : d = <<n>> /\ e = <<n, s>>
  BY <1>1, WithinForms
<1>3. QED
  BY <1>2

LEMMA EnterDirectoryInv == ASSUME ScopeInv, PurgeInv, EnterDirectory PROVE PurgeInv'
<1>1. purge.pc = "delete" /\ purge.tree \subseteq Paths
  BY DEF EnterDirectory, ScopeInv
<1>2. /\ Closed(purge.tree) /\ Stacked /\ NothingForgotten
      /\ purge.company = 0 => LeftAlone
  BY <1>1 DEF PurgeInv
<1>3. PICK e \in Emptying.left \cap Dirs :
        purge' = [purge EXCEPT !.stack =
                    <<Listing(e), [Emptying EXCEPT !.left = @ \ {e}]>> \o Tail(@)]
  BY DEF EnterDirectory
<1>4. PICK A \in Frames, B \in Frames : OneFrame(A) \/ TwoFrames(A, B)
  BY <1>1, <1>2 DEF Stacked
<1>5. OneFrame(A) /\ Emptying = A
  <2>1. CASE TwoFrames(A, B)
    <3>1. Emptying = A /\ A.dir \in Entries(B.dir) /\ A.left \subseteq Entries(A.dir)
      BY <2>1, TwoOnStack DEF Emptying, TwoFrames
    <3>2. A.dir \in Dirs /\ B.dir \in Dirs
      BY DEF Frames
    <3>3. Len(A.dir) = 2
      BY <3>1, <3>2, NoDeeper
    <3>4. Len(A.dir) = 1
      BY <1>3, <3>1, <3>2, NoDeeper
    <3>5. QED
      BY <3>3, <3>4
  <2>2. CASE OneFrame(A)
    BY <2>2, OneOnStack DEF Emptying, OneFrame
  <2>3. QED
    BY <1>4, <2>1, <2>2
<1>6. PICK F \in Frames : /\ F = Listing(e) /\ F.dir = e
                          /\ F.left = Children(purge.tree, e) /\ F.left \subseteq Entries(e)
  BY <1>1, <1>3, ListingIsFrame
<1>7. PICK G \in Frames : G = [A EXCEPT !.left = @ \ {e}] /\ G.dir = A.dir /\ G.left = A.left \ {e}
  BY FrameShrinks
<1>8. /\ purge'.pc = "delete" /\ purge'.tree = purge.tree /\ purge'.target = purge.target
      /\ purge'.targets = purge.targets /\ purge'.removed = purge.removed
      /\ purge'.count = purge.count
      /\ purge'.stack = <<Listing(e), [Emptying EXCEPT !.left = @ \ {e}]>> \o Tail(purge.stack)
      /\ purge'.company = purge.company /\ purge'.written = purge.written
      /\ purge'.namespace = purge.namespace /\ purge'.session = purge.session
  BY <1>1, <1>3 DEF ScopeInv, Shape
<1>9. purge'.stack = <<F, G>>
  <2>1. purge.stack = <<A>>
    BY <1>5 DEF OneFrame
  <2>2. purge'.stack = <<F, G>> \o Tail(<<A>>)
    BY <1>5, <1>6, <1>7, <1>8, <2>1
  <2>3. QED
    BY <2>2, OneOnStack
<1>10. Busy /\ Busy' /\ Remaining' = Remaining
  BY <1>1, <1>8 DEF Busy, Remaining
<1>11. A.dir = purge.target /\ A.left \subseteq Entries(A.dir) /\ e \in A.left
  BY <1>3, <1>5 DEF OneFrame
<1>12. Stacked'
  BY <1>6, <1>7, <1>8, <1>9, <1>11, InTwoFrames
<1>13. NothingForgotten'
  <2>1. \A f : Due(f) => Due(f)'
    BY <1>8, <1>10 DEF Due
  <2>2. QED
    BY <1>1, <1>8, <2>1, StillAccounted
<1>14. ASSUME LeftAlone PROVE LeftAlone'
  <2>1. A.left = Children(purge.tree, A.dir)
    BY <1>1, <1>5, <1>14 DEF LeftAlone, Listed
  <2>2. F.dir \notin G.left /\ G.left \cup {F.dir} = Children(purge.tree, G.dir)
    BY <1>6, <1>7, <1>11, <2>1
  <2>3. Listed'
    BY <1>6, <1>7, <1>8, <1>9, <1>11, <2>2, InTwoFrames
  <2>4. QED
    BY <1>8, <1>10, <1>14, <2>3 DEF LeftAlone, Counted
<1>15. QED
  BY <1>2, <1>8, <1>12, <1>13, <1>14 DEF PurgeInv

LEMMA OffTheTree ==
  ASSUME NEW tree, NEW e, NEW d
  PROVE  /\ Children(tree \ {e}, d) = Children(tree, d) \ {e}
         /\ FilesBelow(tree \ {e}, d) = FilesBelow(tree, d) \ {e}
BY DEF Children, FilesBelow

\* A file counted before is now among the removed.
LEMMA OneFewer ==
  ASSUME NEW removed, removed \subseteq Files, NEW rest, rest \subseteq Files,
         NEW e, e \notin removed, e \in rest
  PROVE  Cardinality(removed \cup {e}) + Cardinality(rest \ {e})
           = Cardinality(removed) + Cardinality(rest)
<1>1. IsFiniteSet(rest)
  BY FilesFinite, FS_Subset
<1>2. Cardinality(rest \ {e}) = Cardinality(rest) - 1 /\ Cardinality(rest) \in Nat
  BY <1>1, FS_RemoveElement, FS_CardinalityType
<1>3. Cardinality(removed \cup {e}) = Cardinality(removed) + 1 /\ Cardinality(removed) \in Nat
  BY OneMore
<1>4. QED
  BY <1>2, <1>3

\* What rmtree has listed is below the target, and a file it has listed in
\* one directory is not listed in another.
LEMMA ListedBelow ==
  ASSUME NEW A \in Frames, NEW B \in Frames, OneFrame(A) \/ TwoFrames(A, B),
         NEW e \in A.left
  PROVE  /\ Emptying = A /\ e \in Paths /\ Within(e, purge.target) /\ e \in Entries(A.dir)
         /\ TwoFrames(A, B) => e \notin Entries(B.dir)
<1>1. A.dir \in Dirs /\ B.dir \in Dirs
  BY DEF Frames
<1>2. CASE OneFrame(A)
  <2>1. Emptying = A /\ e \in Entries(A.dir) /\ A.dir = purge.target
    BY <1>2, OneOnStack DEF OneFrame, Emptying
  <2>2. ~TwoFrames(A, B)
    <3>1. TwoFrames(A, B) => <<A>> = <<A, B>>
      BY <1>2 DEF OneFrame, TwoFrames
    <3>2. Len(<<A>>) = 1 /\ Len(<<A, B>>) = 2
      OBVIOUS
    <3>3. QED
      BY <3>1, <3>2
  <2>3. QED
    BY <2>1, <2>2 DEF Entries
<1>3. CASE TwoFrames(A, B)
  <2>1. /\ Emptying = A /\ e \in Entries(A.dir) /\ A.dir \in Entries(B.dir)
        /\ B.dir = purge.target
    BY <1>3, TwoOnStack DEF TwoFrames, Emptying
  <2>2. Len(A.dir) = 2 /\ Len(B.dir) = 1
    BY <1>1, <2>1, NoDeeper
  <2>3. e \in Paths /\ Within(e, A.dir) /\ Len(e) = 3
    BY <2>1, <2>2 DEF Entries
  <2>4. A.dir \in Paths /\ B.dir \in Paths /\ Within(A.dir, B.dir)
    BY <1>1, <2>1 DEF Entries, Paths
  <2>5. Within(e, purge.target)
    BY <2>1, <2>3, <2>4, WithinIsTransitive
  <2>6. e \notin Entries(B.dir)
    BY <2>2, <2>3 DEF Entries
  <2>7. QED
    BY <2>1, <2>3, <2>5, <2>6
<1>4. QED
  BY <1>2, <1>3

\* rmtree is done with an entry e of the directory A it is in: A's record
\* loses it.
LEMMA EntryDone ==
  ASSUME NEW A \in Frames, NEW B \in Frames, OneFrame(A) \/ TwoFrames(A, B),
         NEW e \in A.left, purge'.pc = "delete", purge'.target = purge.target,
         purge'.stack = <<[A EXCEPT !.left = @ \ {e}]>> \o Tail(purge.stack)
  PROVE  /\ Stacked'
         /\ Listed /\ e \notin Dirs /\ purge'.tree = purge.tree \ {e} => Listed'
<1>1. PICK G \in Frames : G = [A EXCEPT !.left = @ \ {e}] /\ G.dir = A.dir /\ G.left = A.left \ {e}
  BY FrameShrinks
<1>2. CASE OneFrame(A)
  <2>1. /\ purge.stack = <<A>> /\ A.dir = purge.target /\ A.left \subseteq Entries(A.dir)
    BY <1>2 DEF OneFrame
  <2>2. purge'.stack = <<G>>
    BY <1>1, <2>1, OneOnStack
  <2>3. Stacked'
    BY <1>1, <2>1, <2>2, InOneFrame
  <2>4. ASSUME Listed, purge'.tree = purge.tree \ {e} PROVE Listed'
    <3>1. A.left = Children(purge.tree, A.dir)
      BY <1>2, <2>4 DEF Listed
    <3>2. G.left = Children(purge'.tree, G.dir)
      <4>1. Children(purge.tree \ {e}, A.dir) = Children(purge.tree, A.dir) \ {e}
        BY DEF Children
      <4>2. QED
        BY <1>1, <2>4, <3>1, <4>1
    <3>3. QED
      BY <1>1, <2>1, <2>2, <3>2, InOneFrame
  <2>5. QED
    BY <2>3, <2>4
<1>3. CASE TwoFrames(A, B)
  <2>1. /\ purge.stack = <<A, B>> /\ B.dir = purge.target /\ A.dir \in Entries(B.dir)
        /\ A.left \subseteq Entries(A.dir) /\ B.left \subseteq Entries(B.dir)
    BY <1>3 DEF TwoFrames
  <2>2. purge'.stack = <<G, B>>
    BY <1>1, <2>1, TwoOnStack
  <2>3. Stacked'
    BY <1>1, <2>1, <2>2, InTwoFrames
  <2>4. ASSUME Listed, purge'.tree = purge.tree \ {e}, e \notin Dirs PROVE Listed'
    <3>1. /\ A.left = Children(purge.tree, A.dir) /\ A.dir \notin B.left
          /\ B.left \cup {A.dir} = Children(purge.tree, B.dir)
      BY <1>3, <2>4 DEF Listed
    <3>2. G.left = Children(purge'.tree, G.dir)
      <4>1. Children(purge.tree \ {e}, A.dir) = Children(purge.tree, A.dir) \ {e}
        BY DEF Children
      <4>2. QED
        BY <1>1, <2>4, <3>1, <4>1
    <3>3. e \notin Entries(B.dir) /\ A.dir \in Dirs
      BY <1>3, <2>4, ListedBelow DEF Frames
    <3>4. e \notin B.left \cup {A.dir}
      BY <2>1, <2>4, <3>3
    <3>5. B.left \cup {A.dir} = Children(purge'.tree, B.dir)
      <4>1. Children(purge.tree \ {e}, B.dir) = Children(purge.tree, B.dir) \ {e}
        BY DEF Children
      <4>2. Children(purge.tree, B.dir) \ {e} = Children(purge.tree, B.dir)
        BY <3>1, <3>4
      <4>3. QED
        BY <2>4, <3>1, <4>1, <4>2
    <3>6. QED
      BY <1>1, <2>1, <2>2, <3>1, <3>2, <3>5, InTwoFrames
  <2>5. QED
    BY <2>3, <2>4
<1>4. QED
  BY <1>2, <1>3

LEMMA UnlinkEntryInv == ASSUME ScopeInv, PurgeInv, UnlinkEntry PROVE PurgeInv'
<1>1. purge.pc = "delete" /\ purge.tree \subseteq Paths
  BY DEF UnlinkEntry, ScopeInv
<1>2. /\ Closed(purge.tree) /\ Stacked /\ NothingForgotten
      /\ purge.company = 0 => LeftAlone
  BY <1>1 DEF PurgeInv
<1>3. PICK e \in Emptying.left \ Dirs :
        \/ purge' = [purge EXCEPT !.tree = @ \ {e},
                       !.removed = @ \cup (purge.tree \cap {e}),
                       !.stack = <<[Emptying EXCEPT !.left = @ \ {e}]>> \o Tail(@)]
        \/ e \notin purge.tree /\ Raise
  BY DEF UnlinkEntry
<1>4. PICK A \in Frames, B \in Frames : OneFrame(A) \/ TwoFrames(A, B)
  BY <1>1, <1>2 DEF Stacked
<1>5. Emptying = A
  BY <1>4, OneOnStack, TwoOnStack DEF Emptying, OneFrame, TwoFrames
<1>6. /\ e \in A.left /\ e \notin Dirs /\ e \in Paths /\ e \in Files
      /\ Within(e, purge.target) /\ e \in Entries(A.dir)
  BY <1>3, <1>4, <1>5, ListedBelow DEF Paths
<1>7. Busy
  BY <1>1 DEF Busy
<1>8. LeftAlone => e \in purge.tree
  <2>1. LeftAlone => A.left = Children(purge.tree, A.dir)
    BY <1>1, <1>4 DEF LeftAlone, Listed
  <2>2. QED
    BY <1>6, <2>1 DEF Children
<1>9. CASE e \notin purge.tree /\ Raise
  <2>1. purge.company # 0
    BY <1>2, <1>8, <1>9
  <2>2. QED
    BY <1>9, <2>1, RaiseInv
<1>10. CASE purge' = [purge EXCEPT !.tree = @ \ {e},
                        !.removed = @ \cup (purge.tree \cap {e}),
                        !.stack = <<[Emptying EXCEPT !.left = @ \ {e}]>> \o Tail(@)]
  <2>1. /\ purge'.pc = "delete" /\ purge'.tree = purge.tree \ {e}
        /\ purge'.target = purge.target /\ purge'.targets = purge.targets
        /\ purge'.removed = purge.removed \cup (purge.tree \cap {e})
        /\ purge'.count = purge.count
        /\ purge'.stack = <<[A EXCEPT !.left = @ \ {e}]>> \o Tail(purge.stack)
        /\ purge'.company = purge.company /\ purge'.written = purge.written
        /\ purge'.namespace = purge.namespace /\ purge'.session = purge.session
    BY <1>1, <1>5, <1>10 DEF ScopeInv, Shape
  <2>2. Closed(purge'.tree)
    <3>1. \A p \in purge.tree : ~Within(p, e)
      BY <1>1, <1>6, NothingWithinFiles
    <3>2. QED
      <4>1. Closed(purge.tree \ {e})
        BY <1>1, <1>2, <3>1, ClosedShrinks, Zenon
      <4>2. QED
        BY <2>1, <4>1
  <2>3. Busy'
    BY <2>1 DEF Busy
  <2>4. Stacked'
    BY <1>4, <1>6, <2>1, EntryDone
  <2>5. NothingForgotten'
    <3>1. \A f : Due(f) => Due(f)'
      BY <2>1, <2>3 DEF Due
    <3>2. purge.pc \notin {"raised", "refused"} /\ purge'.tree \subseteq purge.tree
      BY <1>1, <2>1
    <3>3. QED
      BY <2>1, <3>1, <3>2, StillAccounted
  <2>6. ASSUME LeftAlone PROVE LeftAlone'
    <3>1. e \in purge.tree
      BY <1>8, <2>6
    <3>2. purge'.removed = purge.removed \cup {e}
      BY <2>1, <3>1
    <3>3. /\ purge.removed \subseteq Files /\ purge.removed \cap purge.tree = {}
          /\ Counted /\ Listed
          /\ \A t \in purge.targets : ~Within(t, purge.target)
      BY <1>1, <1>7, <2>6 DEF LeftAlone
    <3>4. e \notin purge.targets
      BY <1>6, <2>6, <1>7 DEF LeftAlone
    <3>5. Listed'
      BY <1>4, <1>6, <2>1, <3>3, EntryDone
    <3>6. Counted'
      <4>1. Remaining = FilesBelow(purge.tree, purge.target)
        BY <1>7 DEF Remaining
      <4>2. Remaining' = Remaining \ {e}
        <5>1. FilesBelow(purge.tree \ {e}, purge.target) = FilesBelow(purge.tree, purge.target) \ {e}
          BY OffTheTree, Zenon
        <5>2. QED
          BY <2>1, <2>3, <4>1, <5>1 DEF Remaining
      <4>3. e \in Remaining /\ Remaining \subseteq Files
        BY <1>6, <3>1, <4>1 DEF FilesBelow
      <4>4. e \notin purge.removed
        BY <3>1, <3>3
      <4>5. Cardinality(purge'.removed) + Cardinality(Remaining')
              = Cardinality(purge.removed) + Cardinality(Remaining)
        BY <3>2, <3>3, <4>2, <4>3, <4>4, OneFewer
      <4>6. QED
        BY <2>1, <3>3, <4>5 DEF Counted
    <3>7. /\ purge'.targets \subseteq purge'.tree
          /\ purge'.removed \subseteq Files /\ purge'.removed \cap purge'.tree = {}
      BY <1>6, <2>1, <2>6, <3>2, <3>3, <3>4 DEF LeftAlone
    <3>8. QED
      BY <1>7, <2>1, <2>6, <3>5, <3>6, <3>7 DEF LeftAlone
  <2>7. QED
    BY <1>2, <2>1, <2>2, <2>4, <2>5, <2>6 DEF PurgeInv
<1>11. QED
  BY <1>3, <1>9, <1>10

LEMMA RemoveDirectoryInv == ASSUME ScopeInv, PurgeInv, RemoveDirectory PROVE PurgeInv'
<1>1. purge.pc = "delete" /\ purge.tree \subseteq Paths /\ Emptying.left = {}
  BY DEF RemoveDirectory, ScopeInv
<1>2. /\ Closed(purge.tree) /\ Stacked /\ NothingForgotten
      /\ purge.company = 0 => LeftAlone
  BY <1>1 DEF PurgeInv
<1>3. PICK A \in Frames, B \in Frames : OneFrame(A) \/ TwoFrames(A, B)
  BY <1>1, <1>2 DEF Stacked
<1>4. Emptying = A /\ A.left = {}
  <2>1. Emptying = A
    BY <1>3, OneOnStack, TwoOnStack DEF Emptying, OneFrame, TwoFrames
  <2>2. QED
    BY <1>1, <2>1
<1>5. Busy /\ A.dir \in Dirs /\ A.dir \notin Files
  <2>1. Busy /\ A.dir \in Dirs
    BY <1>1 DEF Busy, Frames
  <2>2. QED
    BY <2>1, PathLengths
<1>6. LeftAlone => Children(purge.tree, A.dir) = {}
  BY <1>1, <1>3, <1>4 DEF LeftAlone, Listed
<1>7. CASE Children(purge.tree, A.dir) # {}
  <2>1. Raise
    BY <1>4, <1>7 DEF RemoveDirectory
  <2>2. purge.company # 0
    BY <1>2, <1>6, <1>7
  <2>3. QED
    BY <2>1, <2>2, RaiseInv
<1>8. CASE Children(purge.tree, A.dir) = {}
  <2>1. purge' = [purge EXCEPT !.tree = @ \ {A.dir}, !.stack = Tail(@),
                    !.pc = IF Len(purge.stack) = 1 THEN "target" ELSE "delete"]
    BY <1>4, <1>8 DEF RemoveDirectory
  <2>2. /\ purge'.pc = IF Len(purge.stack) = 1 THEN "target" ELSE "delete"
        /\ purge'.tree = purge.tree \ {A.dir} /\ purge'.stack = Tail(purge.stack)
        /\ purge'.target = purge.target /\ purge'.targets = purge.targets
        /\ purge'.removed = purge.removed /\ purge'.count = purge.count
        /\ purge'.company = purge.company /\ purge'.written = purge.written
        /\ purge'.namespace = purge.namespace /\ purge'.session = purge.session
    BY <2>1 DEF ScopeInv, Shape
  <2>3. \A p \in purge.tree : ~Within(p, A.dir)
    BY <1>1, <1>2, <1>5, <1>8, EmptyIsBare
  <2>4. Closed(purge'.tree)
    <3>1. Closed(purge.tree \ {A.dir})
      BY <1>1, <1>2, <2>3, ClosedShrinks, Zenon
    <3>2. QED
      BY <2>2, <3>1
  <2>5. purge'.tree \subseteq purge.tree /\ purge.pc \notin {"raised", "refused"}
    BY <1>1, <2>2
  <2>6. CASE OneFrame(A)
    <3>1. purge.stack = <<A>> /\ A.dir = purge.target
      BY <2>6 DEF OneFrame
    <3>2. purge'.pc = "target"
      BY <2>2, <3>1, OneOnStack
    <3>3. ~Busy' /\ Stacked' /\ Remaining' = {}
      BY <3>2 DEF Busy, Stacked, Remaining
    <3>4. NothingForgotten'
      <4>1. ASSUME NEW f \in purge'.tree \cap Files, Due(f) PROVE Due(f)'
        <5>1. ~Below(f, purge.target)
          BY <1>5, <2>3, <2>5, <3>1, <4>1 DEF Below
        <5>2. QED
          BY <2>2, <4>1, <5>1 DEF Due
      <4>2. QED
        BY <2>2, <2>5, <4>1, StillAccounted
    <3>5. ASSUME LeftAlone PROVE LeftAlone'
      <4>1. Remaining = {}
        BY <2>3, <3>1 DEF Remaining, FilesBelow
      <4>2. Counted'
        BY <2>2, <3>3, <3>5, <4>1 DEF Counted, LeftAlone
      <4>3. /\ purge'.targets \subseteq purge'.tree
            /\ purge'.removed \subseteq Files /\ purge'.removed \cap purge'.tree = {}
        BY <1>5, <2>2, <3>1, <3>5 DEF LeftAlone
      <4>4. QED
        BY <2>2, <3>2, <3>3, <3>5, <4>2, <4>3 DEF LeftAlone
    <3>6. QED
      BY <1>2, <2>2, <2>4, <3>2, <3>3, <3>4, <3>5 DEF PurgeInv
  <2>7. CASE TwoFrames(A, B)
    <3>1. /\ purge.stack = <<A, B>> /\ B.dir = purge.target /\ A.dir \in Entries(B.dir)
          /\ B.left \subseteq Entries(B.dir)
      BY <2>7 DEF TwoFrames
    <3>2. purge'.pc = "delete" /\ purge'.stack = <<B>>
      BY <2>2, <3>1, TwoOnStack
    <3>3. Busy'
      BY <3>2 DEF Busy
    <3>4. Stacked'
      BY <2>2, <3>1, <3>2, InOneFrame
    <3>5. NothingForgotten'
      <4>1. \A f : Due(f) => Due(f)'
        BY <2>2, <3>3 DEF Due
      <4>2. QED
        BY <2>2, <2>5, <4>1, StillAccounted
    <3>6. ASSUME LeftAlone PROVE LeftAlone'
      <4>1. Remaining' = Remaining
        <5>1. A.dir \notin FilesBelow(purge.tree, purge.target)
          BY <1>5 DEF FilesBelow
        <5>2. FilesBelow(purge.tree \ {A.dir}, purge.target) = FilesBelow(purge.tree, purge.target)
          BY <1>5 DEF FilesBelow
        <5>3. QED
          BY <1>5, <2>2, <3>3, <5>2 DEF Remaining
      <4>2. Counted'
        BY <2>2, <3>6, <4>1 DEF Counted, LeftAlone
      <4>3. Listed'
        <5>1. A.dir \notin B.left /\ B.left \cup {A.dir} = Children(purge.tree, B.dir)
          BY <1>1, <2>7, <3>6 DEF LeftAlone, Listed
        <5>2. Children(purge.tree \ {A.dir}, B.dir) = Children(purge.tree, B.dir) \ {A.dir}
          BY DEF Children
        <5>3. B.left = Children(purge'.tree, B.dir)
          BY <2>2, <5>1, <5>2
        <5>4. QED
          BY <2>2, <3>1, <3>2, <5>3, InOneFrame
      <4>4. A.dir \notin purge.targets
        <5>1. Within(A.dir, purge.target)
          BY <3>1 DEF Entries
        <5>2. QED
          BY <1>5, <3>6, <5>1 DEF LeftAlone
      <4>5. /\ purge'.targets \subseteq purge'.tree
            /\ purge'.removed \subseteq Files /\ purge'.removed \cap purge'.tree = {}
        BY <2>2, <3>6, <4>4 DEF LeftAlone
      <4>6. QED
        BY <1>5, <2>2, <3>2, <3>6, <4>2, <4>3, <4>5 DEF LeftAlone
    <3>7. QED
      BY <1>2, <2>2, <2>4, <3>2, <3>4, <3>5, <3>6 DEF PurgeInv
  <2>8. QED
    BY <1>3, <2>6, <2>7
<1>9. QED
  BY <1>7, <1>8

\* The runtime works beside the purge: its record of what is listed and of
\* what is due stays.
LEMMA StackedKept ==
  ASSUME Stacked, purge'.pc = purge.pc, purge'.target = purge.target,
         purge'.targets = purge.targets, purge'.stack = purge.stack
  PROVE  Stacked'
BY DEF Stacked, Busy, OneFrame, TwoFrames

LEMMA RuntimeWritesInv ==
  ASSUME ScopeInv, PurgeInv, NEW f \in Files, RuntimeWrites(f), purge.company \in Nat
  PROVE  PurgeInv'
<1>1. /\ purge.pc \notin {"raised", "refused"}
      /\ purge' = [purge EXCEPT !.tree = @ \cup WithParents({f}), !.written = @ \cup {f},
                                !.company = @ + 1]
  BY DEF RuntimeWrites, Beside
<1>2. Closed(purge.tree) /\ Stacked /\ NothingForgotten
  BY <1>1 DEF PurgeInv
<1>3. /\ purge'.pc = purge.pc /\ purge'.tree = purge.tree \cup WithParents({f})
      /\ purge'.target = purge.target /\ purge'.targets = purge.targets
      /\ purge'.stack = purge.stack /\ purge'.company = purge.company + 1
      /\ purge'.written = purge.written \cup {f}
      /\ purge'.namespace = purge.namespace /\ purge'.session = purge.session
  BY <1>1 DEF ScopeInv, Shape
<1>4. Closed(purge'.tree)
  <2>1. Closed(WithParents({f}))
    BY ClosedGrows
  <2>2. Closed(purge.tree \cup WithParents({f}))
    BY <1>2, <2>1, ClosedUnion, Zenon
  <2>3. QED
    BY <1>3, <2>2
<1>5. Stacked' /\ \A p : Due(p) => Due(p)'
  <2>1. Stacked'
    BY <1>2, <1>3, StackedKept
  <2>2. \A p : Due(p) => Due(p)'
    BY <1>3 DEF Due, Busy
  <2>3. QED
    BY <2>1, <2>2
<1>6. NothingForgotten'
  <2>1. \A p : InScope(p)' <=> InScope(p)
    BY <1>3, ScopeKept
  <2>2. ASSUME NEW g \in purge'.tree \cap Files PROVE g = f \/ g \in purge.tree
    <3>1. \A p \in Parents(f) : p \notin Files
      BY ParentsAbove, PathLengths DEF Paths
    <3>2. QED
      BY <1>3, <2>2, <3>1 DEF WithParents
  <2>3. QED
    BY <1>2, <1>3, <1>5, <2>1, <2>2 DEF NothingForgotten
<1>7. purge'.company # 0
  BY <1>3
<1>8. QED
  BY <1>4, <1>5, <1>6, <1>7 DEF PurgeInv

LEMMA RuntimeEvictsInv ==
  ASSUME ScopeInv, PurgeInv, NEW f \in Files, RuntimeEvicts(f), purge.company \in Nat
  PROVE  PurgeInv'
<1>1. /\ purge.pc \notin {"raised", "refused"}
      /\ purge' = [purge EXCEPT !.tree = @ \ {f}, !.company = @ + 1]
  BY DEF RuntimeEvicts, Beside
<1>2. Closed(purge.tree) /\ Stacked /\ NothingForgotten
  BY <1>1 DEF PurgeInv
<1>3. /\ purge'.pc = purge.pc /\ purge'.tree = purge.tree \ {f}
      /\ purge'.target = purge.target /\ purge'.targets = purge.targets
      /\ purge'.stack = purge.stack /\ purge'.company = purge.company + 1
      /\ purge'.written = purge.written
      /\ purge'.namespace = purge.namespace /\ purge'.session = purge.session
  BY <1>1 DEF ScopeInv, Shape
<1>4. Closed(purge'.tree)
  <2>0. purge.tree \subseteq Paths
    BY DEF ScopeInv
  <2>1. \A p \in purge.tree : ~Within(p, f)
    BY <2>0, NothingWithinFiles
  <2>2. Closed(purge.tree \ {f})
    BY <1>2, <2>0, <2>1, ClosedShrinks, Zenon
  <2>3. QED
    BY <1>3, <2>2
<1>5. Stacked' /\ \A p : Due(p) => Due(p)'
  <2>1. Stacked'
    BY <1>2, <1>3, StackedKept
  <2>2. \A p : Due(p) => Due(p)'
    BY <1>3 DEF Due, Busy
  <2>3. QED
    BY <2>1, <2>2
<1>6. NothingForgotten'
  <2>1. purge'.tree \subseteq purge.tree
    BY <1>3
  <2>2. QED
    BY <1>1, <1>3, <1>5, <2>1, StillAccounted
<1>7. purge'.company # 0
  BY <1>3
<1>8. QED
  BY <1>4, <1>5, <1>6, <1>7 DEF PurgeInv

-----------------------------------------------------------------------------
(* The purge keeps its type.                                               *)

PurgeSteps ==
  {"idle", "target", "open", "delete", "answered", "raised", "refused", "elsewhere"}

LEMMA FieldsOfType ==
  ASSUME PurgeTypeOK
  PROVE  /\ purge.pc \in PurgeSteps
         /\ purge.namespace \in Namespaces \cup {NoBinding}
         /\ purge.session \in Sessions \cup {NoBinding}
         /\ purge.target \in Paths \cup {<< >>}
         /\ purge.count \in Nat /\ purge.company \in Nat
         /\ purge.removed \subseteq Files /\ purge.written \subseteq Files
BY DEF PurgeTypeOK, Purge, PurgeSteps

LEMMA KeepsType ==
  ASSUME PurgeTypeOK, ScopeInv',
         purge'.pc \in PurgeSteps,
         purge'.namespace = purge.namespace, purge'.session = purge.session,
         purge'.target \in Paths \cup {<< >>},
         purge'.count \in Nat, purge'.company \in Nat,
         purge'.removed \subseteq Files, purge'.written \subseteq Files
  PROVE  PurgeTypeOK'
<1>1. /\ Shape' /\ purge'.tree \subseteq Paths /\ purge'.targets \subseteq Paths
      /\ purge'.stack \in Seq(ScopeFrames)'
  BY DEF ScopeInv
<1>2. purge'.stack \in Seq(Frames)
  <2>1. ScopeFrames' \subseteq Frames
    BY DEF ScopeFrames
  <2> DEFINE S == ScopeFrames'
  <2>2. S \subseteq Frames /\ purge'.stack \in Seq(S)
    BY <1>1, <2>1
  <2> HIDE DEF S
  <2>3. QED
    BY <2>2
<1>3. /\ purge'.namespace \in Namespaces \cup {NoBinding}
      /\ purge'.session \in Sessions \cup {NoBinding}
  BY FieldsOfType
<1>4. QED
  BY <1>1, <1>2, <1>3 DEF Shape, PurgeTypeOK, Purge, PurgeSteps

LEMMA StepTyped == ASSUME PurgeTypeOK, ScopeInv, ScopeInv', PurgeStep PROVE PurgeTypeOK'
<1> USE DEF PurgeSteps
<1>0. /\ purge.pc \in PurgeSteps
      /\ purge.target \in Paths \cup {<< >>}
      /\ purge.count \in Nat /\ purge.company \in Nat
      /\ purge.removed \subseteq Files /\ purge.written \subseteq Files
      /\ Shape /\ purge.tree \subseteq Paths /\ purge.targets \subseteq Paths
  BY FieldsOfType DEF ScopeInv
<1>1. ASSUME Raise PROVE PurgeTypeOK'
  <2>1. /\ purge'.pc = "raised" /\ purge'.target = purge.target
        /\ purge'.count = purge.count /\ purge'.company = purge.company
        /\ purge'.removed = purge.removed /\ purge'.written = purge.written
        /\ purge'.namespace = purge.namespace /\ purge'.session = purge.session
    BY <1>0, <1>1 DEF Raise, Shape
  <2>2. QED
    BY <1>0, <2>1, KeepsType
<1>2. CASE RemoveFile
  <2>1. PICK t \in purge.targets \ Dirs :
          IF t \in purge.tree
            THEN purge' = [purge EXCEPT !.tree = @ \ {t}, !.targets = @ \ {t},
                                        !.removed = @ \cup {t}, !.count = @ + 1]
            ELSE Raise
    BY <1>2 DEF RemoveFile
  <2>2. CASE t \in purge.tree
    <3>1. /\ purge'.pc = purge.pc /\ purge'.target = purge.target
          /\ purge'.count = purge.count + 1 /\ purge'.company = purge.company
          /\ purge'.removed = purge.removed \cup {t} /\ purge'.written = purge.written
          /\ purge'.namespace = purge.namespace /\ purge'.session = purge.session
      BY <1>0, <2>1, <2>2 DEF Shape
    <3>2. t \in Files
      BY <1>0 DEF Paths
    <3>3. purge'.removed \subseteq Files /\ purge'.count \in Nat
      BY <1>0, <3>1, <3>2
    <3>4. QED
      BY <1>0, <3>1, <3>3, KeepsType
  <2>3. QED
    BY <1>1, <2>1, <2>2
<1>3. CASE CountTarget
  <2>1. PICK t \in purge.targets \cap Dirs :
          purge' = [purge EXCEPT !.pc = "open", !.targets = @ \ {t}, !.target = t,
                      !.count = @ + Cardinality(FilesBelow(purge.tree, t))]
    BY <1>3 DEF CountTarget
  <2>2. /\ purge'.pc = "open" /\ purge'.target = t
        /\ purge'.count = purge.count + Cardinality(FilesBelow(purge.tree, t))
        /\ purge'.company = purge.company
        /\ purge'.removed = purge.removed /\ purge'.written = purge.written
        /\ purge'.namespace = purge.namespace /\ purge'.session = purge.session
    BY <1>0, <2>1 DEF Shape
  <2>3. Cardinality(FilesBelow(purge.tree, t)) \in Nat
    <3>1. FilesBelow(purge.tree, t) \subseteq Files
      BY DEF FilesBelow
    <3>2. QED
      BY <3>1, FilesFinite, FS_Subset, FS_CardinalityType
  <2>4. t \in Paths /\ purge'.count \in Nat
    BY <1>0, <2>2, <2>3
  <2>5. QED
    BY <1>0, <2>2, <2>4, KeepsType
<1>4. CASE OpenTarget \/ EnterDirectory \/ AnswerPurge
  <2>1. /\ purge'.pc \in {"delete", "answered"} /\ purge'.target = purge.target
        /\ purge'.count = purge.count /\ purge'.company = purge.company
        /\ purge'.removed = purge.removed /\ purge'.written = purge.written
        /\ purge'.namespace = purge.namespace /\ purge'.session = purge.session
    <3>1. CASE OpenTarget
      BY <1>0, <3>1 DEF OpenTarget, Shape
    <3>2. CASE EnterDirectory
      BY <1>0, <3>2 DEF EnterDirectory, Shape
    <3>3. CASE AnswerPurge
      BY <1>0, <3>3 DEF AnswerPurge, Shape
    <3>4. QED
      BY <1>4, <3>1, <3>2, <3>3
  <2>2. QED
    BY <1>0, <2>1, KeepsType
<1>5. CASE UnlinkEntry
  <2>1. PICK e \in Emptying.left \ Dirs :
          \/ purge' = [purge EXCEPT !.tree = @ \ {e},
                         !.removed = @ \cup (purge.tree \cap {e}),
                         !.stack = <<[Emptying EXCEPT !.left = @ \ {e}]>> \o Tail(@)]
          \/ e \notin purge.tree /\ Raise
    BY <1>5 DEF UnlinkEntry
  <2>2. CASE purge' = [purge EXCEPT !.tree = @ \ {e},
                         !.removed = @ \cup (purge.tree \cap {e}),
                         !.stack = <<[Emptying EXCEPT !.left = @ \ {e}]>> \o Tail(@)]
    <3>1. /\ purge'.pc = purge.pc /\ purge'.target = purge.target
          /\ purge'.count = purge.count /\ purge'.company = purge.company
          /\ purge'.removed = purge.removed \cup (purge.tree \cap {e})
          /\ purge'.written = purge.written
          /\ purge'.namespace = purge.namespace /\ purge'.session = purge.session
      BY <1>0, <2>2 DEF Shape
    <3>2. purge.tree \cap {e} \subseteq Files
      BY <1>0 DEF Paths
    <3>3. purge'.removed \subseteq Files
      BY <1>0, <3>1, <3>2
    <3>4. QED
      BY <1>0, <3>1, <3>3, KeepsType
  <2>3. QED
    BY <1>1, <2>1, <2>2
<1>6. CASE RemoveDirectory
  <2>1. CASE Children(purge.tree, Emptying.dir) = {}
    <3>1. purge' = [purge EXCEPT !.tree = @ \ {Emptying.dir}, !.stack = Tail(@),
                      !.pc = IF Len(purge.stack) = 1 THEN "target" ELSE "delete"]
      BY <1>6, <2>1 DEF RemoveDirectory
    <3>2. /\ purge'.pc = IF Len(purge.stack) = 1 THEN "target" ELSE "delete"
          /\ purge'.target = purge.target
          /\ purge'.count = purge.count /\ purge'.company = purge.company
          /\ purge'.removed = purge.removed /\ purge'.written = purge.written
          /\ purge'.namespace = purge.namespace /\ purge'.session = purge.session
      BY <1>0, <3>1 DEF Shape
    <3>3. QED
      BY <1>0, <3>2, KeepsType
  <2>2. QED
    BY <1>1, <1>6, <2>1 DEF RemoveDirectory
<1>7. QED
  BY <1>2, <1>3, <1>4, <1>5, <1>6 DEF PurgeStep

LEMMA NoPurgeTyped ==
  /\ purge = NoPurge => PurgeTypeOK
  /\ purge' = NoPurge => PurgeTypeOK'
<1>1. << >> \in Seq(Frames)
  OBVIOUS
<1>2. NoPurge \in Purge
  BY <1>1 DEF NoPurge, Purge
<1>3. QED
  BY <1>2 DEF PurgeTypeOK

LEMMA RefusedTyped == ASSUME PurgeTypeOK, ScopeInv, ScopeInv', Refused PROVE PurgeTypeOK'
<1>1. /\ purge'.pc = "refused" /\ purge'.target = purge.target
      /\ purge'.count = purge.count /\ purge'.company = purge.company
      /\ purge'.removed = purge.removed /\ purge'.written = purge.written
      /\ purge'.namespace = purge.namespace /\ purge'.session = purge.session
  BY DEF Refused, ScopeInv, Shape
<1>2. QED
  BY <1>1, FieldsOfType, KeepsType DEF PurgeSteps

LEMMA ElsewhereTyped == ASSUME PurgeElsewhere PROVE PurgeTypeOK'
<1>1. PICK removed \in SUBSET Files :
        purge' = [NoPurge EXCEPT !.pc = "elsewhere", !.removed = removed,
                                 !.count = Cardinality(removed)]
  BY DEF PurgeElsewhere
<1>2. Cardinality(removed) \in Nat
  BY FilesFinite, FS_Subset, FS_CardinalityType
<1>3. << >> \in Seq(Frames)
  OBVIOUS
<1>4. QED
  BY <1>1, <1>2, <1>3 DEF NoPurge, PurgeTypeOK, Purge

LEMMA CommandTyped ==
  ASSUME NEW namespace \in Namespaces \cup {NoBinding}, NEW session \in Sessions \cup {NoBinding},
         NEW tree \in Trees, PurgeCommand(namespace, session, tree)
  PROVE  PurgeTypeOK'
<1>1. tree \subseteq Paths /\ PurgeTargets(tree, namespace, session) \subseteq Paths
  <2>1. tree \subseteq Paths
    BY TreesClosed
  <2>2. PurgeTargets(tree, namespace, session) \subseteq tree
    BY DEF PurgeTargets, Children
  <2>3. QED
    BY <2>1, <2>2
<1>2. << >> \in Seq(Frames)
  OBVIOUS
<1>3. QED
  BY <1>1, <1>2 DEF PurgeCommand, NoPurge, PurgeTypeOK, Purge

LEMMA RuntimeTyped ==
  ASSUME PurgeTypeOK, ScopeInv, ScopeInv', NEW f \in Files, RuntimeWrites(f) \/ RuntimeEvicts(f)
  PROVE  PurgeTypeOK'
<1>1. /\ purge.pc \in PurgeSteps
      /\ purge.target \in Paths \cup {<< >>}
      /\ purge.count \in Nat /\ purge.company \in Nat
      /\ purge.removed \subseteq Files /\ purge.written \subseteq Files /\ Shape
  BY FieldsOfType DEF ScopeInv
<1>2. /\ purge'.pc = purge.pc /\ purge'.target = purge.target
      /\ purge'.count = purge.count /\ purge'.company = purge.company + 1
      /\ purge'.removed = purge.removed /\ purge'.written \subseteq purge.written \cup {f}
      /\ purge'.namespace = purge.namespace /\ purge'.session = purge.session
  BY <1>1 DEF RuntimeWrites, RuntimeEvicts, Shape
<1>3. purge'.company \in Nat /\ purge'.written \subseteq Files
  BY <1>1, <1>2
<1>4. QED
  BY <1>1, <1>2, <1>3, KeepsType

-----------------------------------------------------------------------------
(* What a purge answers.                                                   *)

LEMMA TypedKept == ASSUME PurgeTypeOK, ScopeInv, [Next]_vars PROVE PurgeTypeOK'
<1>1. ScopeInv'
  BY ScopeInvKept
<1>2. CASE UNCHANGED purge
  BY <1>2 DEF PurgeTypeOK
<1>3. QED
  BY <1>1, <1>2, PurgeMoves, StepTyped, NoPurgeTyped, CommandTyped, RuntimeTyped,
     RefusedTyped, ElsewhereTyped

LEMMA SamePurgeInv == ASSUME PurgeInv, UNCHANGED purge PROVE PurgeInv'
BY DEF PurgeInv, Stacked, NothingForgotten, LeftAlone, Busy, Due, InScope, OneFrame, TwoFrames,
       Counted, Remaining, Listed

LEMMA PurgeKept ==
  ASSUME PurgeTypeOK, ScopeInv, PurgeInv, [Next]_vars
  PROVE  PurgeInv'
<1>1. CASE PurgeStep
  BY <1>1, RemoveFileInv, CountTargetInv, OpenTargetInv, EnterDirectoryInv, UnlinkEntryInv,
     RemoveDirectoryInv, AnswerPurgeInv DEF PurgeStep
<1>2. CASE \E f \in Files : RuntimeWrites(f) \/ RuntimeEvicts(f)
  <2>1. purge.company \in Nat
    BY FieldsOfType
  <2>2. QED
    BY <1>2, <2>1, RuntimeWritesInv, RuntimeEvictsInv
<1>3. QED
  BY <1>1, <1>2, PurgeMoves, SamePurgeInv, NoPurgeInv, CommandInv, RefusedInv, ElsewhereInv

\* A purge that answers leaves nothing of its scope but what was written after
\* it began, whatever the system refuses meanwhile.  One that the runtime
\* leaves alone finds everything as it has listed it, and if it answers, it is
\* with the number of the files it has removed.
THEOREM PurgesAnswerTruly == Spec => []PurgeAnswersTruly
<1>1. Init => PurgeTypeOK /\ ScopeInv /\ PurgeInv
  BY NoPurgeTyped, NoPurgeInScope, NoPurgeInv DEF Init, PurgeInit
<1>2. PurgeTypeOK /\ ScopeInv /\ PurgeInv => PurgeAnswersTruly
  <2> SUFFICES ASSUME PurgeTypeOK, PurgeInv PROVE PurgeAnswersTruly
    OBVIOUS
  <2>1. ASSUME purge.pc = "answered"
        PROVE  /\ {p \in purge.tree \cap Files : InScope(p)} \subseteq purge.written
               /\ purge.company = 0 => purge.count = Cardinality(purge.removed)
    <3>1. /\ Stacked /\ NothingForgotten
          /\ purge.company = 0 => LeftAlone
      BY <2>1 DEF PurgeInv
    <3>2. purge.targets = {} /\ ~Busy
      BY <2>1, <3>1 DEF Stacked, Busy
    <3>3. \A p : ~Due(p)
      BY <3>2 DEF Due
    <3>4. {p \in purge.tree \cap Files : InScope(p)} \subseteq purge.written
      BY <3>1, <3>3 DEF NothingForgotten
    <3>5. ASSUME LeftAlone PROVE purge.count = Cardinality(purge.removed)
      <4>1. purge.count = Cardinality(purge.removed) + Cardinality({})
        BY <3>2, <3>5 DEF LeftAlone, Counted, Remaining
      <4>2. Cardinality({}) = 0 /\ Cardinality(purge.removed) \in Nat
        <5>1. purge.removed \subseteq Files
          BY FieldsOfType
        <5>2. QED
          BY <5>1, FilesFinite, FS_Subset, FS_EmptySet, FS_CardinalityType
      <4>3. QED
        BY <4>1, <4>2
    <3>6. QED
      BY <3>1, <3>4, <3>5
  <2>2. purge.pc = "raised" => purge.company # 0
    BY DEF PurgeInv
  <2>3. QED
    BY <2>1, <2>2 DEF PurgeAnswersTruly
<1>3. PurgeTypeOK /\ ScopeInv /\ PurgeInv /\ [Next]_vars => (PurgeTypeOK /\ ScopeInv /\ PurgeInv)'
  BY TypedKept, ScopeInvKept, PurgeKept
<1>4. QED
  BY <1>1, <1>2, <1>3, PTL DEF Spec

-----------------------------------------------------------------------------
(* The run keeps its type.                                                 *)

PlaceOK ==
  /\ at.check \in 1..4 /\ at.call \in 0..18
  /\ at.check = 4 => at.call = 0
  /\ at.check < 4 => at.call <= Len(Calls(Check))

ServerOK ==
  /\ residency \in {NoModel, Served, Other} /\ runtime \in {NoModel, Served, Other}
  /\ disk \in [{Served, Scratch} -> {"absent", "partial", "complete"}]
  /\ setting \in {Served, Scratch} /\ jobs \subseteq Queued

AnswerOK ==
  /\ outcome \in Results \cup {"none", "lost"}
  /\ reply \in Settled \/ (at.call > 0 /\ outcome \in Results /\ reply = Reply(Call, outcome))

FlagsOK ==
  /\ {failing, failed, held, disturbed} \subseteq BOOLEAN
  /\ exit \in {"idle", "none", "passed", "failed"}

LEMMA Plan ==
  /\ Checks[1] = "info-docs-live" /\ Len(Calls("info-docs-live")) = 1
  /\ Checks[2] = "prompt-admission-live" /\ Len(Calls("prompt-admission-live")) = 4
  /\ Checks[3] = "commands-live" /\ Calls("commands-live") = Order /\ Len(Order) = 18
<1>1. Checks[1] = "info-docs-live" /\ Checks[2] = "prompt-admission-live" /\ Checks[3] = "commands-live"
  BY DEF Checks
<1>2. /\ Calls("info-docs-live") = <<"info">>
      /\ Calls("prompt-admission-live") =
           <<"token_count", "estimate", "estimate_oversized", "chat_oversized">>
      /\ Calls("commands-live") = Order
  BY DEF Calls
<1>3. Len(Order) = 18
  BY DEF Order
<1>4. QED
  BY <1>1, <1>2, <1>3

\* How many calls the check of a place has.
LEMMA PlanAt ==
  ASSUME at.check \in 1..3
  PROVE  Len(Calls(Check)) = IF at.check = 1 THEN 1 ELSE IF at.check = 2 THEN 4 ELSE 18
<1>1. CASE at.check = 1
  BY <1>1, Plan DEF Check
<1>2. CASE at.check = 2
  BY <1>2, Plan DEF Check
<1>3. CASE at.check = 3
  BY <1>3, Plan DEF Check
<1>4. QED
  BY <1>1, <1>2, <1>3

LEMMA PlanNext ==
  ASSUME at'.check \in 1..3
  PROVE  Len(Calls(Check))' = IF at'.check = 1 THEN 1 ELSE IF at'.check = 2 THEN 4 ELSE 18
<1>1. CASE at'.check = 1
  BY <1>1, Plan DEF Check
<1>2. CASE at'.check = 2
  BY <1>2, Plan DEF Check
<1>3. CASE at'.check = 3
  BY <1>3, Plan DEF Check
<1>4. QED
  BY <1>1, <1>2, <1>3

LEMMA SamePlace == ASSUME PlaceOK, UNCHANGED at PROVE PlaceOK'
BY DEF PlaceOK, Check

\* The run goes to the next call of the check, or to the next check.
LEMMA CallDoneMoves ==
  ASSUME HeldInv, PlaceOK, Calling, NEW content, CallDone(content)
  PROVE  /\ PlaceOK'
         /\ at.check \in 1..3 /\ at.call \in 1..18
         /\ \/ at'.check = at.check /\ at'.call = at.call + 1
            \/ at'.check = at.check + 1 /\ at'.call = 0 /\ at.call = Len(Calls(Check))
<1>1. at \in [check : Nat, call : Nat] /\ at.call # 0 /\ at.check \in 1..3
  BY ThreeChecks, AtCall DEF HeldInv, PlaceOK, Calling
<1> DEFINE k == Len(Calls(Check))
<1>2. k = (IF at.check = 1 THEN 1 ELSE IF at.check = 2 THEN 4 ELSE 18) /\ at.call <= k
  BY <1>1, PlanAt DEF PlaceOK
<1> HIDE DEF k
<1>3. CASE at.call < k
  <2>1. at'.check = at.check /\ at'.call = at.call + 1
    BY <1>1, <1>3 DEF CallDone, k
  <2>2. Check' = Check
    BY <2>1 DEF Check
  <2>3. PlaceOK'
    <3>1. Len(Calls(Check')) = k
      BY <2>2 DEF k
    <3>2. at'.check \in 1..4 /\ at'.call \in 0..18 /\ at'.check # 4 /\ at'.call <= k
      BY <1>1, <1>2, <1>3, <2>1
    <3>3. QED
      BY <3>1, <3>2 DEF PlaceOK
  <2>4. QED
    BY <1>1, <1>2, <2>1, <2>3
<1>4. CASE ~(at.call < k)
  <2>1. at'.check = at.check + 1 /\ at'.call = 0
    BY <1>1, <1>4 DEF CallDone, k
  <2>2. at.call = k
    BY <1>1, <1>2, <1>4
  <2>3. PlaceOK'
    <3>1. at'.check \in 1..4 /\ at'.call \in 0..18
      BY <1>1, <2>1
    <3>2. at'.check < 4 => at'.call <= Len(Calls(Check))'
      <4>1. SUFFICES ASSUME at'.check < 4 PROVE 0 <= Len(Calls(Check'))
        BY <2>1
      <4>2. at'.check \in 1..3
        BY <3>1, <4>1
      <4>3. QED
        BY <4>2, PlanNext
    <3>3. QED
      BY <2>1, <3>1, <3>2 DEF PlaceOK
  <2>4. QED
    BY <1>1, <1>2, <2>1, <2>2, <2>3 DEF k
<1>5. QED
  BY <1>3, <1>4

LEMMA PlaceKept == ASSUME HeldInv, PlaceOK, [Next]_vars PROVE PlaceOK'
<1>1. CASE CheckStarts
  <2>1. at \in [check : Nat, call : Nat] /\ at.call = 0 /\ at.check \in 1..3
    BY <1>1, ThreeChecks DEF HeldInv, PlaceOK, CheckStarts
  <2>2. \/ at'.check = at.check + 1 /\ at'.call = 0
        \/ at'.check = at.check /\ at'.call = 1
    BY <1>1, <2>1 DEF CheckStarts
  <2>3. at'.check \in 1..4 /\ at'.call \in 0..1 /\ (at'.check = 4 => at'.call = 0)
    BY <2>1, <2>2
  <2>4. at'.check < 4 => at'.call <= Len(Calls(Check))'
    <3>1. SUFFICES ASSUME at'.check < 4 PROVE at'.call <= Len(Calls(Check'))
      OBVIOUS
    <3>2. at'.check \in 1..3
      BY <2>3, <3>1
    <3>3. Len(Calls(Check'))
            = IF at'.check = 1 THEN 1 ELSE IF at'.check = 2 THEN 4 ELSE 18
      BY <3>2, PlanNext
    <3> DEFINE k == Len(Calls(Check'))
    <3>4. k \in {1, 4, 18}
      BY <3>3
    <3> HIDE DEF k
    <3>5. at'.call <= k
      BY <2>3, <3>4
    <3>6. QED
      BY <3>5 DEF k
  <2>5. QED
    BY <2>3, <2>4 DEF PlaceOK
<1>2. CASE Judged
  BY <1>2, CallDoneMoves DEF Judged
<1>3. CASE Raised
  <2>1. CASE Check = "commands-live"
    BY <1>3, <2>1, CallDoneMoves DEF Raised
  <2>2. CASE Check # "commands-live"
    BY <1>3, <2>2, SamePlace DEF Raised
  <2>3. QED
    BY <2>1, <2>2
<1>4. CASE ~(CheckStarts \/ Judged \/ Raised)
  <2>1. UNCHANGED at
    BY <1>4 DEF Next, Run, Workers, BesideRun, RunStarts, PurgeCalled, Purging, PurgeAnswered,
     Answered, Enqueued, RunEnds, JobRuns, CallLost, OthersPurge, RuntimeStores, StorageRefuses,
     RuntimeChanges, OthersLoad, OthersCache, ServiceRestarts, vars, run
  <2>2. QED
    BY <2>1, SamePlace
<1>5. QED
  BY <1>1, <1>2, <1>3, <1>4

LEMMA InlineResults ==
  ASSUME NEW command, NEW beside
  PROVE  InlineOutcome(command, beside) \in Results
<1>1. Admission(FALSE, beside) \in Results /\ Admission(TRUE, beside) \in Results
  BY DEF Admission, Results
<1>2. LoadOutcome(FALSE) \in Results /\ LoadOutcome(TRUE) \in Results
  BY DEF LoadOutcome, Results
<1>3. Cached(setting) \in Results
  BY DEF Cached, Results
<1>4. /\ "ok" \in Results /\ "rough" \in Results /\ "RUNTIME_CALL_FAILED" \in Results
      /\ "MODEL_NOT_CACHED" \in Results /\ "MODEL_NOT_LOADED" \in Results
      /\ "VLLM_DYNAMIC_UNLOAD_UNSUPPORTED" \in Results
  BY DEF Results
<1>5. QED
  BY <1>1, <1>2, <1>3, <1>4 DEF InlineOutcome

LEMMA SwitchResults == SwitchOutcome \in Results
BY DEF SwitchOutcome, LoadOutcome, Results

\* What the client has received is the answer to its call.
LEMMA SameAnswer == ASSUME AnswerOK, UNCHANGED <<at, reply, outcome>> PROVE AnswerOK'
BY DEF AnswerOK, Check, Call

LEMMA AnswerSettled ==
  ASSUME reply' \in Settled, outcome' \in Results \cup {"none", "lost"}
  PROVE  AnswerOK'
BY DEF AnswerOK

LEMMA AnswerComes ==
  ASSUME UNCHANGED at, at.call > 0, NEW result \in Results, outcome' = result,
         reply' = Reply(Call, result)
  PROVE  AnswerOK'
<1>1. Call' = Call
  BY DEF Check, Call
<1>2. QED
  BY <1>1 DEF AnswerOK

LEMMA AnswerKept == ASSUME HeldInv, AnswerOK, [Next]_vars PROVE AnswerOK'
<1>0. /\ outcome \in Results \cup {"none", "lost"}
      /\ NoReply \in Settled /\ Waiting \in Settled /\ Lost \in Settled
      /\ Calling => at.call > 0
  BY DEF AnswerOK, Settled, Calling
<1>1. CASE \E beside \in {"nothing", "full card", "switch"} : Answered(beside)
  <2> PICK beside : Answered(beside)
    BY <1>1
  <2>1. UNCHANGED at /\ Calling /\ outcome' = InlineOutcome(Call, beside)
        /\ reply' = Reply(Call, InlineOutcome(Call, beside))
    BY Zenon DEF Answered, run
  <2>2. QED
    BY <1>0, <2>1, InlineResults, AnswerComes
<1>2. CASE PurgeAnswered
  <2> DEFINE result == IF purge.pc = "answered" THEN "ok" ELSE "error"
             awaited == Calling /\ reply = Waiting /\ Call = "local_lmcache_purge"
  <2>1. UNCHANGED at
    BY <1>2 DEF PurgeAnswered, run
  <2>2. CASE awaited
    <3>1. reply' = Reply(Call, result) /\ outcome' = result
      BY <1>2, <2>2 DEF PurgeAnswered
    <3>2. result \in Results
      BY DEF Results
    <3>3. QED
      BY <1>0, <2>1, <2>2, <3>1, <3>2, AnswerComes
  <2>3. CASE ~awaited
    BY <1>2, <2>1, <2>3, SameAnswer DEF PurgeAnswered
  <2>4. QED
    BY <2>2, <2>3
<1>3. CASE Workers
  <2> PICK command \in Queued, got \in BOOLEAN : JobRuns(command, got)
    BY <1>3 DEF Workers
  <2> DEFINE result == IF ~got THEN "MODEL_CACHE_PRELOAD_FAILED"
                       ELSE IF command = "local_model_switch" THEN SwitchOutcome ELSE "ok"
  <2>1. UNCHANGED at
    BY DEF JobRuns, run
  <2>2. CASE reply = Waiting /\ Call = command
    <3>1. reply' = Reply(Call, result) /\ outcome' = result
      BY <2>2 DEF JobRuns
    <3>2. result \in Results
      BY SwitchResults DEF Results
    <3>3. at.call > 0
      BY <2>2 DEF HeldInv, NothingBetween, NoReply, Waiting, Keyless
    <3>4. QED
      BY <2>1, <3>1, <3>2, <3>3, AnswerComes
  <2>3. CASE ~(reply = Waiting /\ Call = command)
    BY <2>1, <2>3, SameAnswer DEF JobRuns
  <2>4. QED
    BY <2>2, <2>3
<1>4. CASE PurgeCalled \/ Enqueued \/ Judged \/ Raised \/ CallLost
  <2>1. reply' \in Settled /\ outcome' \in {outcome, "lost"}
    BY <1>0, <1>4 DEF PurgeCalled, Enqueued, Judged, Raised, CallLost
  <2>2. QED
    BY <1>0, <2>1, AnswerSettled
<1>5. CASE CheckStarts
  <2>1. at.call = 0 /\ UNCHANGED <<reply, outcome>>
    BY <1>5 DEF CheckStarts
  <2>2. reply' \in Settled
    BY <1>0, <2>1 DEF HeldInv, NothingBetween
  <2>3. QED
    BY <1>0, <2>1, <2>2, AnswerSettled
<1>6. CASE ServiceRestarts
  <2>1. UNCHANGED at
    BY <1>6 DEF ServiceRestarts, run
  <2>2. CASE reply = Waiting
    <3>1. reply' \in Settled /\ outcome' = "lost"
      BY <1>0, <1>6, <2>2 DEF ServiceRestarts
    <3>2. QED
      BY <3>1, AnswerSettled
  <2>3. CASE reply # Waiting
    BY <1>6, <2>1, <2>3, SameAnswer DEF ServiceRestarts
  <2>4. QED
    BY <2>2, <2>3
<1>7. CASE RunStarts \/ RunEnds \/ Purging \/ OthersPurge \/ RuntimeStores
           \/ StorageRefuses \/ RuntimeChanges
           \/ OthersLoad \/ OthersCache \/ UNCHANGED vars
  <2>1. UNCHANGED <<at, reply, outcome>>
    BY <1>7 DEF RunStarts, RunEnds, Purging, OthersPurge, RuntimeStores, StorageRefuses,
       RuntimeChanges,
                OthersLoad, OthersCache, vars, run
  <2>2. QED
    BY <2>1, SameAnswer
<1>8. QED
  BY <1>1, <1>2, <1>3, <1>4, <1>5, <1>6, <1>7 DEF Next, Run, BesideRun

LEMMA ServerKept == ASSUME ServerOK, [Next]_vars PROVE ServerOK'
<1> USE DEF ServerOK
<1>1. CASE RunStarts
  BY <1>1 DEF RunStarts
<1>2. CASE \E beside \in {"nothing", "full card", "switch"} : Answered(beside)
  <2> PICK beside : Answered(beside)
    BY <1>2
  <2>1. residency' \in {residency, Served} /\ UNCHANGED <<runtime, jobs, setting>>
    BY Zenon DEF Answered, run
  <2>2. disk' \in {disk, [disk EXCEPT ![setting] = "absent"]}
    BY Zenon DEF Answered
  <2>3. QED
    BY <2>1, <2>2
<1>3. CASE Enqueued
  BY <1>3 DEF Enqueued, run
<1>4. CASE Workers
  <2> PICK command \in Queued, got \in BOOLEAN : JobRuns(command, got)
    BY <1>4 DEF Workers
  <2> DEFINE m == IF command = "local_model_switch" THEN Served ELSE setting
             result == IF ~got THEN "MODEL_CACHE_PRELOAD_FAILED"
                       ELSE IF command = "local_model_switch" THEN SwitchOutcome ELSE "ok"
  <2>1. UNCHANGED <<setting, runtime>> /\ jobs' = jobs \ {command} /\ m \in {Served, Scratch}
    BY DEF JobRuns, run
  <2>2. residency' \in {residency, Served}
    BY DEF JobRuns
  <2>3. disk' = [disk EXCEPT ![m] = IF got THEN "complete" ELSE "partial"]
    BY DEF JobRuns
  <2>4. QED
    BY <2>1, <2>2, <2>3
<1>5. CASE RuntimeChanges \/ OthersLoad \/ ServiceRestarts
  BY <1>5 DEF RuntimeChanges, OthersLoad, ServiceRestarts, run
<1>6. CASE OthersCache
  BY <1>6 DEF OthersCache, run
<1>7. CASE CheckStarts \/ PurgeCalled \/ Judged \/ Raised \/ RunEnds \/ Purging \/ PurgeAnswered
           \/ OthersPurge \/ RuntimeStores \/ StorageRefuses \/ CallLost \/ UNCHANGED vars
  <2>1. UNCHANGED <<server, setting>>
    BY <1>7 DEF CheckStarts, PurgeCalled, Judged, Raised, RunEnds, Purging, PurgeAnswered,
                OthersPurge, RuntimeStores, StorageRefuses, CallLost, vars, run
  <2>2. QED
    BY <2>1 DEF server
<1>8. QED
  BY <1>1, <1>2, <1>3, <1>4, <1>5, <1>6, <1>7 DEF Next, Run, BesideRun

LEMMA FlagsKept == ASSUME HeldInv', FlagsOK, [Next]_vars PROVE FlagsOK'
<1>0. failing' \in BOOLEAN /\ failed' \in BOOLEAN /\ held' \in BOOLEAN
  BY DEF HeldInv
<1>1. exit' \in {"idle", "none", "passed", "failed"}
  <2>1. exit' \in {exit, "none", "passed", "failed"}
    BY DEF Next, Run, Workers, BesideRun, RunStarts, PurgeCalled, Purging, PurgeAnswered,
     CheckStarts, Judged, Raised, Answered, Enqueued, RunEnds, JobRuns, CallLost, OthersPurge,
     RuntimeStores, StorageRefuses, RuntimeChanges, OthersLoad, OthersCache,
     ServiceRestarts, vars, run
  <2>2. QED
    BY <2>1 DEF FlagsOK
<1>2. disturbed' \in BOOLEAN
  <2>1. CASE UNCHANGED disturbed
    BY <2>1 DEF FlagsOK
  <2>2. CASE ~UNCHANGED disturbed
    <3>1. RunStarts \/ RuntimeStores \/ StorageRefuses \/ Workers \/ Disturbance
          \/ \E beside \in {"nothing", "full card", "switch"} : Answered(beside)
      BY <2>2 DEF Next, Run, BesideRun, PurgeCalled, Purging, PurgeAnswered,
         CheckStarts, Judged, Raised, Enqueued, RunEnds, CallLost, OthersPurge,
         RuntimeChanges, OthersLoad, OthersCache, ServiceRestarts, vars
    <3>2. \/ disturbed' \in BOOLEAN
          \/ disturbed' = (disturbed \/ exit # "idle")
          \/ \E got \in BOOLEAN : disturbed' = (disturbed \/ ~got)
          \/ \E beside : disturbed' = (disturbed \/ beside # "nothing")
      BY Zenon, <3>1 DEF RunStarts, RuntimeStores, StorageRefuses, Workers, JobRuns,
         Disturbance, Answered
    <3>3. QED
      BY <3>2
  <2>3. QED
    BY <2>1, <2>2
<1>3. QED
  BY <1>0, <1>1, <1>2 DEF FlagsOK

\* The run is at a call of one of its checks, between two checks, or past the
\* last; what it has received is the answer to that call.
THEOREM TypeCorrect == Spec => []TypeOK
<1> DEFINE Inv == HeldInv /\ ScopeInv /\ PurgeTypeOK /\ PlaceOK /\ ServerOK /\ AnswerOK /\ FlagsOK
<1>1. Init => Inv
  <2> SUFFICES ASSUME Init PROVE Inv
    OBVIOUS
  <2>1. HeldInv /\ ScopeInv /\ PurgeTypeOK
    BY InitHeld, NoPurgeTyped, NoPurgeInScope DEF Init, PurgeInit
  <2>2. PlaceOK
    <3>1. at.check = 1 /\ at.call = 0
      BY DEF Init
    <3>2. Len(Calls(Check)) = 1
      BY <3>1, PlanAt
    <3>3. QED
      BY <3>1, <3>2 DEF PlaceOK
  <2>3. ServerOK
    BY DEF Init, ServerOK
  <2>4. AnswerOK /\ FlagsOK
    BY DEF Init, AnswerOK, FlagsOK, Settled
  <2>5. QED
    BY <2>1, <2>2, <2>3, <2>4
<1>2. Inv /\ [Next]_vars => Inv'
  BY HeldKept, ScopeInvKept, TypedKept, PlaceKept, ServerKept, AnswerKept, FlagsKept
<1>3. Inv => TypeOK
  BY Zenon DEF TypeOK, PlaceOK, ServerOK, AnswerOK, FlagsOK, Settled
<1>4. QED
  BY <1>1, <1>2, <1>3, PTL DEF Spec

-----------------------------------------------------------------------------
(* A run that nobody disturbs.                                             *)

\* The run is past call k of its last check, or has the answer to it.
Past(k) == at.check = 4 \/ (at.check = 3 /\ (at.call > k \/ (at.call = k /\ reply \notin Settled)))

\* What the service has, from where the run is: it loads the served model with
\* call 11, preloads the scratch model with call 9 and deletes it with call 17.
Fit ==
  /\ runtime = Served /\ disk[Served] = "complete"
  /\ residency \in {NoModel, Served}
  /\ Past(11) => residency = Served
  /\ Past(9) => disk[Scratch] = IF Past(17) THEN "absent" ELSE "complete"

Content ==
  /\ ~failing /\ ~failed /\ exit # "failed" /\ reply # Lost
  /\ reply \in Settled \/ Accepted(Check, Call, reply)

\* No job is left behind by a client that has stopped waiting for it.
JobsAwaited == \A command \in jobs : at.call # 0 /\ reply = Waiting /\ Call = command

\* The run's purge is a plain one that nothing gets in the way of.
NoCompany ==
  /\ purge.pc = "idle" => purge.company = 0
  /\ exit # "idle" /\ ~disturbed =>
       purge.company = 0 /\ purge.pc \notin {"refused", "elsewhere"}

NotStarted ==
  /\ exit = "idle" => /\ at.check = 1 /\ at.call = 0 /\ reply = NoReply
                      /\ ~failing /\ ~failed /\ jobs = {}
  /\ exit = "passed" => at.check = 4

Quiet == exit # "idle" /\ ~disturbed /\ setting = Scratch

UndisturbedInv == NoCompany /\ NotStarted /\ (Quiet => Fit /\ Content /\ JobsAwaited)

LEMMA AssertedIsAccepted ==
  ASSUME NEW check, NEW command, NEW result \in Asserted(check, command)
  PROVE  Accepted(check, command, Reply(command, result)) /\ Reply(command, result) \notin Settled
<1>1. Unwrap(Reply(command, result)) = Result(command, result)
  BY DEF Unwrap, Reply, Result
<1>2. result \in Done \cup {"CONTEXT_OVERFLOW", "VLLM_DYNAMIC_UNLOAD_UNSUPPORTED"}
  BY DEF Asserted, Done
<1>3. Reply(command, result) \notin Settled
  <2>1. CASE command \in Queued
    BY <2>1 DEF Reply, Settled, NoReply, Waiting, Lost, Keyless
  <2>2. CASE command \notin Queued
    <3>1. Reply(command, result).code = result
      BY <2>2 DEF Reply, Result
    <3>2. \A r \in Settled : r.code \in {"none", "waiting", "lost"}
      BY DEF Settled, NoReply, Waiting, Lost, Keyless
    <3>3. result \notin {"none", "waiting", "lost"}
      BY <1>2 DEF Done
    <3>4. QED
      BY <3>1, <3>2, <3>3
  <2>3. QED
    BY <2>1, <2>2
<1>4. Result(command, result).code = result
  BY DEF Result
<1>5. CASE check # "commands-live"
  BY <1>1, <1>3, <1>4, <1>5 DEF Accepted
<1>6. CASE check = "commands-live" /\ command = "local_model_unload"
  <2>1. result = "VLLM_DYNAMIC_UNLOAD_UNSUPPORTED"
    BY <1>6 DEF Asserted
  <2>2. Result(command, result).flag = "false"
    BY <1>6, <2>1 DEF Result, Flagged, Done
  <2>3. QED
    BY <1>1, <1>3, <1>4, <1>6, <2>1, <2>2 DEF Accepted, Succeeded
<1>7. CASE check = "commands-live" /\ command # "local_model_unload"
  <2>1. result \in Done
    BY <1>7 DEF Asserted
  <2>2. /\ Result(command, result).flag # "false" /\ Result(command, result).success = "none"
        /\ Result(command, result).status = "none"
    BY <2>1 DEF Result, Done
  <2>3. QED
    BY <1>1, <1>3, <1>7, <2>2 DEF Accepted, Succeeded
<1>8. QED
  BY <1>5, <1>6, <1>7

LEMMA OrderTable ==
  /\ Order[1] = "healthcheck" /\ Order[2] = "info" /\ Order[3] = "capacity"
  /\ Order[4] = "queue_status" /\ Order[5] = "local_lmcache_status"
  /\ Order[6] = "token_count" /\ Order[7] = "estimate" /\ Order[8] = "chat"
  /\ Order[9] = "local_model_cache_preload" /\ Order[10] = "local_model_cache_status"
  /\ Order[11] = "local_model_load" /\ Order[12] = "model_status"
  /\ Order[13] = "local_model_reload" /\ Order[14] = "local_lmcache_purge"
  /\ Order[15] = "cancel" /\ Order[16] = "local_model_unload"
  /\ Order[17] = "local_model_cache_delete" /\ Order[18] = "local_model_switch"
BY DEF Order

\* Where the run is, it makes the call of its plan.
LEMMA Places ==
  ASSUME PlaceOK, at.call > 0
  PROVE  \/ at.check = 1 /\ at.call = 1 /\ Check = "info-docs-live" /\ Call = "info"
         \/ /\ at.check = 2 /\ Check = "prompt-admission-live"
            /\ Call \in {"token_count", "estimate", "estimate_oversized", "chat_oversized"}
         \/ /\ at.check = 3 /\ Check = "commands-live" /\ at.call \in 1..18
            /\ Call = Order[at.call]
<1>1. at.check \in 1..3 /\ at.call \in 1..18 /\ at.call <= Len(Calls(Check))
  BY DEF PlaceOK
<1>2. CASE at.check = 1
  <2>1. Check = "info-docs-live" /\ Calls(Check) = <<"info">>
    BY <1>2, Plan DEF Check, Calls
  <2>2. at.call = 1
    <3>1. Len(Calls(Check)) = 1
      BY <2>1
    <3>2. QED
      BY <1>1, <3>1
  <2>3. QED
    BY <1>2, <2>1, <2>2 DEF Call
<1>3. CASE at.check = 2
  <2>1. /\ Check = "prompt-admission-live"
        /\ Calls(Check) = <<"token_count", "estimate", "estimate_oversized", "chat_oversized">>
    BY <1>3, Plan DEF Check, Calls
  <2>2. at.call \in 1..4
    <3>1. Len(Calls(Check)) = 4
      BY <2>1
    <3>2. QED
      BY <1>1, <3>1
  <2>3. QED
    BY <1>3, <2>1, <2>2 DEF Call
<1>4. CASE at.check = 3
  BY <1>1, <1>4, Plan DEF Check, Call
<1>5. QED
  BY <1>1, <1>2, <1>3, <1>4

\* The commands whose outcome depends on the run so far are called once.
LEMMA OncePlaces ==
  ASSUME PlaceOK, at.call > 0
  PROVE  /\ Call = "local_model_cache_preload" <=> (at.check = 3 /\ at.call = 9)
         /\ Call = "local_model_load" <=> (at.check = 3 /\ at.call = 11)
         /\ Call = "local_model_cache_delete" <=> (at.check = 3 /\ at.call = 17)
         /\ Call = "local_model_switch" => at.check = 3 /\ at.call = 18
         /\ Call = "local_lmcache_purge" => at.check = 3 /\ at.call = 14
         /\ Call = "local_model_cache_status" => at.check = 3 /\ at.call = 10
         /\ Call = "model_status" => at.check = 3 /\ at.call = 12
         /\ Call = "local_model_reload" => at.check = 3 /\ at.call = 13
         /\ Call = "local_model_unload" => at.check = 3 /\ at.call = 16
         /\ Call \in {"estimate_oversized", "chat_oversized"} => Check = "prompt-admission-live"
         /\ Check = "prompt-admission-live" =>
              Call \in {"token_count", "estimate", "estimate_oversized", "chat_oversized"}
<1>1. CASE at.check # 3
  <2>1. Call \in {"info", "token_count", "estimate", "estimate_oversized", "chat_oversized"}
    BY <1>1, Places
  <2>2. QED
    BY <1>1, <2>1, Places
<1>2. CASE at.check = 3
  <2>1. Check = "commands-live" /\ at.call \in 1..18 /\ Call = Order[at.call]
    BY <1>2, Places
  <2> DEFINE k == at.call
             c == Call
  <2>2. k \in 1..18 /\ c = Order[k]
    BY <2>1
  <2> HIDE DEF k, c
  <2>3. /\ c = "local_model_cache_preload" <=> k = 9
        /\ c = "local_model_load" <=> k = 11
        /\ c = "local_model_cache_delete" <=> k = 17
        /\ c = "local_model_switch" => k = 18
        /\ c = "local_lmcache_purge" => k = 14
        /\ c = "local_model_cache_status" => k = 10
        /\ c = "model_status" => k = 12
        /\ c = "local_model_reload" => k = 13
        /\ c = "local_model_unload" => k = 16
        /\ c \notin {"estimate_oversized", "chat_oversized"}
    <3>1. \/ k = 1 \/ k = 2 \/ k = 3 \/ k = 4 \/ k = 5 \/ k = 6 \/ k = 7 \/ k = 8 \/ k = 9
          \/ k = 10 \/ k = 11 \/ k = 12 \/ k = 13 \/ k = 14 \/ k = 15 \/ k = 16 \/ k = 17 \/ k = 18
      BY <2>2
    <3>2. QED
      BY <2>2, <3>1, OrderTable
  <2>4. QED
    BY <1>2, <2>1, <2>3 DEF k, c
<1>3. QED
  BY <1>1, <1>2

\* Once the run has begun nothing makes it undisturbed again.
LEMMA Begun ==
  ASSUME FlagsOK, [Next]_vars
  PROVE  /\ exit # "idle" => exit' # "idle" /\ UNCHANGED setting
         /\ exit # "idle" /\ disturbed => disturbed'
         /\ exit = "idle" /\ exit' # "idle" => RunStarts
<1>1. CASE RunStarts
  BY <1>1 DEF RunStarts
<1>2. CASE ~RunStarts
  <2>1. UNCHANGED setting
    BY <1>2 DEF Next, Run, Workers, BesideRun, PurgeCalled, Purging, PurgeAnswered,
     CheckStarts, Judged, Raised, Answered, Enqueued, RunEnds, JobRuns, CallLost, OthersPurge,
     RuntimeStores, StorageRefuses, RuntimeChanges, OthersLoad, OthersCache,
     ServiceRestarts, vars, run
  <2>2. exit' = exit \/ (exit = "none" /\ exit' \in {"passed", "failed"})
    BY <1>2 DEF Next, Run, Workers, BesideRun, PurgeCalled, Purging, PurgeAnswered,
     CheckStarts, Judged, Raised, Answered, Enqueued, RunEnds, JobRuns, CallLost, OthersPurge,
     RuntimeStores, StorageRefuses, RuntimeChanges, OthersLoad, OthersCache,
     ServiceRestarts, vars, run, Calling
  <2>3. disturbed => disturbed'
    BY <1>2, Zenon DEF Next, Run, Workers, BesideRun, PurgeCalled, Purging, PurgeAnswered,
     CheckStarts, Judged, Raised, Answered, Enqueued, RunEnds, JobRuns, CallLost, OthersPurge,
     RuntimeStores, StorageRefuses, RuntimeChanges, OthersLoad, OthersCache,
     ServiceRestarts, vars, Disturbance
  <2>4. QED
    BY <2>1, <2>2, <2>3
<1>3. QED
  BY <1>1, <1>2

LEMMA StepAlone ==
  ASSUME Shape, PurgeStep
  PROVE  purge'.company = purge.company /\ purge'.pc \notin {"idle", "refused", "elsewhere"}
<1> USE DEF Shape
<1>1. CASE RemoveFile
  BY <1>1 DEF RemoveFile, Raise
<1>2. CASE CountTarget
  BY <1>2 DEF CountTarget
<1>3. CASE OpenTarget \/ EnterDirectory \/ AnswerPurge
  BY <1>3 DEF OpenTarget, EnterDirectory, AnswerPurge
<1>4. CASE UnlinkEntry
  BY <1>4 DEF UnlinkEntry, Raise
<1>5. CASE RemoveDirectory
  BY <1>5 DEF RemoveDirectory, Raise
<1>6. QED
  BY <1>1, <1>2, <1>3, <1>4, <1>5 DEF PurgeStep

LEMMA NoCompanyKept ==
  ASSUME ScopeInv, FlagsOK, NoCompany, [Next]_vars
  PROVE  NoCompany'
<1> DEFINE alone == purge.company = 0 /\ purge.pc \notin {"refused", "elsewhere"}
<1>1. CASE UNCHANGED purge
  <2>1. purge'.pc = "idle" => purge'.company = 0
    BY <1>1 DEF NoCompany
  <2>2. ASSUME exit' # "idle", ~disturbed' PROVE alone'
    <3>1. CASE exit # "idle"
      BY <1>1, <2>2, <3>1, Begun DEF NoCompany
    <3>2. CASE exit = "idle"
      <4>1. purge.pc = "idle"
        BY <2>2, <3>2, Begun DEF RunStarts
      <4>2. QED
        BY <1>1, <4>1 DEF NoCompany
    <3>3. QED
      BY <3>1, <3>2
  <2>3. QED
    BY <2>1, <2>2 DEF NoCompany
<1>2. CASE alone'
  BY <1>2 DEF NoCompany
<1>3. CASE PurgeStep
  <2>1. purge'.company = purge.company /\ purge'.pc \notin {"idle", "refused", "elsewhere"}
    BY <1>3, StepAlone DEF ScopeInv
  <2>2. ASSUME exit' # "idle", ~disturbed' PROVE alone'
    <3>1. exit # "idle"
      <4>1. ~RunStarts
        BY <1>3 DEF RunStarts, PurgeStep, RemoveFile, CountTarget, OpenTarget, EnterDirectory,
                    UnlinkEntry, RemoveDirectory, AnswerPurge
      <4>2. QED
        BY <2>2, <4>1, Begun
    <3>2. QED
      BY <2>1, <2>2, <3>1, Begun DEF NoCompany
  <2>3. QED
    BY <2>1, <2>2 DEF NoCompany
<1>4. CASE RuntimeStores /\ \E f \in Files : RuntimeWrites(f) \/ RuntimeEvicts(f)
  <2>1. purge'.pc # "idle"
    BY <1>4 DEF RuntimeWrites, RuntimeEvicts, Beside, ScopeInv, Shape
  <2>2. exit' = exit /\ (exit' = "idle" \/ disturbed')
    BY <1>4, Zenon DEF RuntimeStores, run
  <2>3. QED
    BY <2>1, <2>2 DEF NoCompany
<1>8. CASE StorageRefuses /\ Refused
  <2>1. purge'.pc # "idle"
    BY <1>8 DEF Refused, ScopeInv, Shape
  <2>2. exit' = exit /\ (exit' = "idle" \/ disturbed')
    BY <1>8, Zenon DEF StorageRefuses, run
  <2>3. QED
    BY <2>1, <2>2 DEF NoCompany
<1>9. CASE PurgeElsewhere /\ exit = "idle" /\ UNCHANGED exit
  <2>1. purge'.pc = "elsewhere"
    BY <1>9 DEF PurgeElsewhere, NoPurge
  <2>2. QED
    BY <1>9, <2>1 DEF NoCompany
<1>5. CASE \E namespace \in Namespaces \cup {NoBinding}, session \in Sessions \cup {NoBinding},
              tree \in Trees : PurgeCommand(namespace, session, tree)
  <2>1. alone'
    BY <1>5 DEF PurgeCommand, NoPurge
  <2>2. QED
    BY <1>2, <2>1
<1>6. CASE purge' = NoPurge
  <2>1. alone'
    BY <1>6 DEF NoPurge
  <2>2. QED
    BY <1>2, <2>1
<1>7. QED
  BY <1>1, <1>3, <1>4, <1>5, <1>6, <1>8, <1>9, PurgeMoves

LEMMA NotStartedKept ==
  ASSUME HeldInv, PlaceOK, NotStarted, [Next]_vars
  PROVE  NotStarted'
<1>1. ASSUME exit' = "idle"
      PROVE  at'.check = 1 /\ at'.call = 0 /\ reply' = NoReply /\ ~failing' /\ ~failed' /\ jobs' = {}
  <2>1. CASE Purging \/ OthersPurge \/ RuntimeStores \/ StorageRefuses \/ UNCHANGED vars
    <3>1. UNCHANGED <<exit, at, reply, failing, failed, jobs>>
      BY <2>1 DEF Purging, OthersPurge, RuntimeStores, StorageRefuses, vars, run, server
    <3>2. QED
      BY <1>1, <3>1 DEF NotStarted
  <2>2. CASE PurgeAnswered
    <3>1. UNCHANGED <<exit, at, failing, failed, jobs>>
      BY <2>2 DEF PurgeAnswered, run, server
    <3>2. ~Calling
      BY <1>1, <3>1 DEF Calling
    <3>3. UNCHANGED reply
      BY <2>2, <3>2 DEF PurgeAnswered
    <3>4. QED
      BY <1>1, <3>1, <3>3 DEF NotStarted
  <2>3. CASE Run \/ Workers \/ CallLost \/ RuntimeChanges \/ OthersLoad \/ OthersCache \/ ServiceRestarts
    <3>1. exit' # "idle"
      BY <2>3 DEF Run, Workers, RunStarts, PurgeCalled, CheckStarts, Judged, Raised, Answered,
         Enqueued, RunEnds, JobRuns, CallLost, RuntimeChanges, OthersLoad, OthersCache,
         ServiceRestarts, Disturbance, Calling, run
    <3>2. QED
      BY <1>1, <3>1
  <2>4. QED
    BY <2>1, <2>2, <2>3 DEF Next, BesideRun
<1>2. ASSUME exit' = "passed" PROVE at'.check = 4
  <2>1. CASE RunEnds
    BY <2>1, ThreeChecks DEF RunEnds, PlaceOK
  <2>2. CASE ~RunEnds
    <3>1. exit = "passed" /\ UNCHANGED at
      BY <1>2, <2>2 DEF Next, Run, Workers, BesideRun, RunStarts, PurgeCalled, Purging,
         PurgeAnswered, CheckStarts, Judged, Raised, Answered, Enqueued, JobRuns, CallLost,
         OthersPurge, RuntimeStores, StorageRefuses, RuntimeChanges, OthersLoad, OthersCache,
         ServiceRestarts,
         vars, run, Calling, Disturbance
    <3>2. QED
      BY <3>1 DEF NotStarted
  <2>3. QED
    BY <2>1, <2>2
<1>3. QED
  BY <1>1, <1>2 DEF NotStarted

LEMMA NoJobs == ASSUME JobsAwaited, reply # Waiting \/ Call \notin jobs PROVE jobs = {}
BY DEF JobsAwaited

\* Neither the place of the run nor what it has received changes.
LEMMA SameFit ==
  ASSUME UNCHANGED at, Fit, UNCHANGED server, reply \in Settled <=> reply' \in Settled
  PROVE  Fit'
<1>1. \A k : Past(k)' <=> Past(k)
  BY DEF Past
<1>2. QED
  BY <1>1 DEF Fit, server

LEMMA SameContent ==
  ASSUME UNCHANGED <<at, failing, failed, exit>>, Content, UNCHANGED reply \/ reply' \in {NoReply, Waiting}
  PROVE  Content'
<1>1. NoReply # Lost /\ Waiting # Lost
  BY DEF NoReply, Waiting, Lost, Keyless
<1>2. Check' = Check /\ Call' = Call
  BY DEF Check, Call
<1>3. QED
  BY <1>1, <1>2 DEF Content, Settled

LEMMA SameJobs == ASSUME UNCHANGED <<at, reply, jobs>>, JobsAwaited PROVE JobsAwaited'
BY DEF JobsAwaited, Check, Call

\* The answer to a call arrives, and it is the one asserted.
LEMMA AnswerAccepted ==
  ASSUME UNCHANGED <<at, failing, failed, exit>>, Content,
         NEW result \in Asserted(Check, Call), reply' = Reply(Call, result)
  PROVE  Content' /\ reply' \notin Settled
<1>1. Check' = Check /\ Call' = Call
  BY DEF Check, Call
<1>2. Accepted(Check, Call, reply') /\ reply' \notin Settled
  BY AssertedIsAccepted
<1>3. QED
  BY <1>1, <1>2 DEF Content, Settled

LEMMA Arrived ==
  ASSUME UNCHANGED at, reply \in Settled, reply' \notin Settled, NEW k \in Nat,
         at \in [check : Nat, call : Nat]
  PROVE  Past(k)' <=> (Past(k) \/ (at.check = 3 /\ at.call = k))
BY DEF Past

LEMMA StartsFit ==
  ASSUME NotStarted, RunStarts, Quiet', PlaceOK
  PROVE  Fit' /\ Content' /\ JobsAwaited'
<1>1. /\ exit = "idle" /\ exit' = "none" /\ UNCHANGED <<at, reply, failing, failed, jobs>>
      /\ runtime' = Served /\ disk'[Served] = "complete" /\ residency' # Other
      /\ residency' \in {NoModel, Served, Other}
  BY DEF RunStarts, Quiet
<1>2. at.check = 1 /\ at.call = 0 /\ reply = NoReply /\ ~failing /\ ~failed /\ jobs = {}
  BY <1>1 DEF NotStarted
<1>3. \A k : ~Past(k)'
  BY <1>1, <1>2 DEF Past
<1>4. NoReply \in Settled /\ NoReply # Lost
  BY DEF Settled, NoReply, Lost, Keyless
<1>5. QED
  BY <1>1, <1>2, <1>3, <1>4 DEF Fit, Content, JobsAwaited

LEMMA CheckStartsFit ==
  ASSUME HeldInv, PlaceOK, Quiet, Fit, Content, JobsAwaited, CheckStarts
  PROVE  Fit' /\ Content' /\ JobsAwaited'
<1>1. at.call = 0 /\ at.check \in 1..3 /\ setting # Served /\ at \in [check : Nat, call : Nat]
  BY ThreeChecks, TwoModels DEF CheckStarts, PlaceOK, Quiet, HeldInv
<1>2. /\ at' = [at EXCEPT !.call = 1] /\ failing' = FALSE
      /\ UNCHANGED <<server, reply, failed, exit>>
  BY <1>1 DEF CheckStarts
<1>3. at'.check = at.check /\ at'.call = 1
  BY <1>1, <1>2
<1>4. ~Past(9)' /\ ~Past(11)'
  BY <1>1, <1>3 DEF Past
<1>5. Fit'
  BY <1>2, <1>4 DEF Fit, server
<1>6. reply = NoReply /\ NoReply \in Settled /\ jobs = {}
  BY <1>1 DEF HeldInv, NothingBetween, JobsAwaited, Settled
<1>7. Content'
  BY <1>2, <1>6 DEF Content
<1>8. QED
  BY <1>2, <1>5, <1>6, <1>7 DEF JobsAwaited, server

LEMMA CalledFit ==
  ASSUME Fit, Content, JobsAwaited, PurgeCalled \/ Enqueued
  PROVE  Fit' /\ Content' /\ JobsAwaited'
<1>1. /\ reply = NoReply /\ reply' = Waiting /\ at.call > 0
      /\ UNCHANGED <<at, failing, failed, exit, residency, runtime, disk>>
      /\ jobs' \subseteq jobs \cup {Call}
  BY DEF PurgeCalled, Enqueued, Calling, run, server
<1>2. NoReply \in Settled /\ Waiting \in Settled /\ NoReply # Waiting
  BY DEF Settled, NoReply, Waiting, Keyless
<1>3. jobs = {}
  BY <1>1, <1>2, NoJobs
<1>4. \A k : Past(k)' <=> Past(k)
  BY <1>1, <1>2 DEF Past
<1>5. Fit'
  BY <1>1, <1>4 DEF Fit
<1>6. Content'
  BY <1>1, SameContent
<1>7. Call' = Call
  BY <1>1 DEF Check, Call
<1>8. JobsAwaited'
  BY <1>1, <1>3, <1>7 DEF JobsAwaited
<1>9. QED
  BY <1>5, <1>6, <1>8

LEMMA PurgeAnsweredFit ==
  ASSUME HeldInv, PlaceOK, ServerOK, PurgeInv, NoCompany, Quiet, Fit, Content, JobsAwaited,
         PurgeAnswered
  PROVE  Fit' /\ Content' /\ JobsAwaited'
<1> DEFINE awaited == Calling /\ reply = Waiting /\ Call = "local_lmcache_purge"
<1>1. UNCHANGED <<server, at, failing, failed, exit>>
  BY DEF PurgeAnswered, run
<1>2. CASE ~awaited
  <2>1. UNCHANGED reply
    BY <1>2 DEF PurgeAnswered
  <2>2. QED
    BY <1>1, <2>1, SameFit, SameContent, SameJobs DEF server
<1>3. CASE awaited
  <2>1. purge.pc = "answered"
    <3>1. purge.company = 0 /\ purge.pc \notin {"refused", "elsewhere"}
      BY DEF Quiet, NoCompany
    <3>2. purge.pc \notin {"raised", "refused", "elsewhere"}
      BY <3>1 DEF PurgeInv
    <3>3. QED
      BY <3>2 DEF PurgeAnswered, PurgeReturns
  <2>2. reply' = Reply(Call, "ok") /\ reply = Waiting /\ Call = "local_lmcache_purge" /\ at.call > 0
    BY <1>3, <2>1 DEF PurgeAnswered, Calling
  <2>3. at.check = 3 /\ at.call = 14 /\ Check = "commands-live"
    BY <2>2, OncePlaces, Places
  <2>4. "ok" \in Asserted(Check, Call)
    BY <2>2, <2>3 DEF Asserted, Done
  <2>5. Content' /\ reply' \notin Settled
    BY <1>1, <2>2, <2>4, AnswerAccepted
  <2>6. at \in [check : Nat, call : Nat] /\ reply \in Settled
    BY <2>2 DEF HeldInv, Settled
  <2>7. (Past(9)' <=> Past(9)) /\ (Past(11)' <=> Past(11)) /\ (Past(17)' <=> Past(17))
    BY <1>1, <2>3, <2>5, <2>6, Arrived
  <2>8. Fit'
    BY <1>1, <2>7 DEF Fit, server
  <2>9. jobs = {}
    <3>1. Call \notin jobs
      BY <2>2 DEF ServerOK, Queued
    <3>2. QED
      BY <3>1, NoJobs
  <2>10. JobsAwaited'
    BY <1>1, <2>9 DEF JobsAwaited, server
  <2>11. QED
    BY <2>5, <2>8, <2>10
<1>4. QED
  BY <1>2, <1>3

LEMMA JudgedFit ==
  ASSUME HeldInv, PlaceOK, FlagsOK, Fit, Content, JobsAwaited, Judged
  PROVE  Fit' /\ Content' /\ JobsAwaited'
<1>1. /\ Calling /\ reply \notin Settled /\ CallDone(Accepted(Check, Call, reply))
      /\ reply' = NoReply /\ UNCHANGED <<server, exit>>
  BY DEF Judged, Settled
<1>2. Accepted(Check, Call, reply) /\ ~failing /\ ~failed /\ exit # "failed"
  BY <1>1 DEF Content
<1>3. ~failing' /\ ~failed'
  BY <1>1, <1>2 DEF CallDone
<1>4. NoReply \in Settled /\ NoReply # Lost /\ reply # Waiting
  BY <1>1 DEF Settled, NoReply, Lost, Keyless
<1>5. jobs = {}
  BY <1>4, NoJobs
<1>6. /\ at.check \in 1..3 /\ at.call \in 1..18
      /\ \/ at'.check = at.check /\ at'.call = at.call + 1
         \/ at'.check = at.check + 1 /\ at'.call = 0 /\ at.call = Len(Calls(Check))
  BY <1>1, CallDoneMoves
<1>7. ASSUME NEW k \in 1..18 PROVE Past(k)' <=> Past(k)
  <2>1. CASE at'.check = at.check /\ at'.call = at.call + 1
    BY <1>1, <1>4, <1>6, <2>1 DEF Past
  <2>2. CASE at'.check = at.check + 1 /\ at'.call = 0 /\ at.call = Len(Calls(Check)) /\ at.check = 3
    <3>1. at.call = 18
      BY <2>2, PlanAt
    <3>2. QED
      BY <1>1, <2>2, <3>1 DEF Past
  <2>3. CASE at'.check = at.check + 1 /\ at'.call = 0 /\ at.check # 3
    BY <1>1, <1>4, <1>6, <2>3 DEF Past
  <2>4. QED
    BY <1>6, <2>1, <2>2, <2>3
<1>8. Fit'
  <2>1. (Past(9)' <=> Past(9)) /\ (Past(11)' <=> Past(11)) /\ (Past(17)' <=> Past(17))
    BY <1>7
  <2>2. QED
    BY <1>1, <2>1 DEF Fit, server
<1>9. Content'
  BY <1>1, <1>2, <1>3, <1>4 DEF Content
<1>10. QED
  BY <1>1, <1>5, <1>8, <1>9 DEF JobsAwaited, server

\* With nothing going on beside it a call comes to what its check asserts.
LEMMA OutcomesAsserted ==
  ASSUME PlaceOK, at \in [check : Nat, call : Nat], at.call > 0, Quiet, Fit, reply \in Settled,
         Call \notin Queued \cup {"local_lmcache_purge"}
  PROVE  InlineOutcome(Call, "nothing") \in Asserted(Check, Call)
<1>0. /\ runtime = Served /\ disk[Served] = "complete" /\ residency \in {NoModel, Served}
      /\ setting = Scratch
  BY DEF Fit, Quiet
<1>1. Admission(FALSE, "nothing") = "ok" /\ Admission(TRUE, "nothing") = "CONTEXT_OVERFLOW"
  BY <1>0 DEF Admission
<1>2. LoadOutcome(FALSE) = "ok" /\ LoadOutcome(TRUE) = "ok"
  BY <1>0 DEF LoadOutcome
<1>3. \A k \in Nat : at.check = 3 /\ at.call > k => Past(k)
  BY DEF Past
<1>4. at.check = 3 /\ at.call <= 17 => ~Past(17)
  BY DEF Past
<1>5. CASE Check = "prompt-admission-live"
  <2>1. Call \in {"token_count", "estimate", "estimate_oversized", "chat_oversized"}
    BY <1>5, OncePlaces
  <2>2. InlineOutcome(Call, "nothing")
          = IF Call \in {"estimate_oversized", "chat_oversized"} THEN "CONTEXT_OVERFLOW" ELSE "ok"
    <3>1. CASE Call = "token_count"
      BY <1>0, <3>1 DEF InlineOutcome
    <3>2. CASE Call = "estimate"
      BY <1>1, <3>2 DEF InlineOutcome
    <3>3. CASE Call \in {"estimate_oversized", "chat_oversized"}
      BY <1>1, <3>3 DEF InlineOutcome
    <3>4. QED
      BY <2>1, <3>1, <3>2, <3>3
  <2>3. Asserted(Check, Call)
          = IF Call \in {"estimate_oversized", "chat_oversized"} THEN {"CONTEXT_OVERFLOW"} ELSE {"ok"}
    BY <1>5, <2>1 DEF Asserted
  <2>4. CASE Call \in {"estimate_oversized", "chat_oversized"}
    BY <2>2, <2>3, <2>4, Zenon
  <2>5. CASE Call \notin {"estimate_oversized", "chat_oversized"}
    BY <2>2, <2>3, <2>5, Zenon
  <2>6. QED
    BY <2>4, <2>5
<1>6. CASE Check # "prompt-admission-live" /\ Call = "local_model_unload"
  <2>1. at.check = 3 /\ at.call = 16
    BY <1>6, OncePlaces
  <2>2. residency = Served
    BY <1>3, <2>1 DEF Fit
  <2>3. InlineOutcome(Call, "nothing") = "VLLM_DYNAMIC_UNLOAD_UNSUPPORTED"
    BY <1>6, <2>2 DEF InlineOutcome
  <2>4. QED
    BY <1>6, <2>3 DEF Asserted
<1>7. CASE Check # "prompt-admission-live" /\ Call # "local_model_unload"
  <2>1. Asserted(Check, Call) = Done /\ "ok" \in Done
    BY <1>7 DEF Asserted, Done
  <2>2. CASE Call = "local_model_cache_status"
    <3>1. at.check = 3 /\ at.call = 10
      BY <2>2, OncePlaces
    <3>2. disk[Scratch] = "complete"
      BY <1>3, <1>4, <3>1 DEF Fit
    <3>3. InlineOutcome(Call, "nothing") = "ok"
      BY <1>0, <2>2, <3>2 DEF InlineOutcome, Cached
    <3>4. QED
      BY <2>1, <3>3
  <2>3. CASE Call = "local_model_cache_delete"
    <3>1. at.check = 3 /\ at.call = 17
      BY <2>3, OncePlaces
    <3>2. disk[Scratch] = "complete"
      <4>1. Past(9) /\ ~Past(17)
        BY <3>1 DEF Past
      <4>2. QED
        BY <4>1 DEF Fit
    <3>3. InlineOutcome(Call, "nothing") = "ok"
      BY <1>0, <2>3, <3>2 DEF InlineOutcome
    <3>4. QED
      BY <2>1, <3>3
  <2>4. CASE Call = "model_status"
    <3>1. at.check = 3 /\ at.call = 12
      BY <2>4, OncePlaces
    <3>2. residency = Served
      BY <1>3, <3>1 DEF Fit
    <3>3. InlineOutcome(Call, "nothing") = "ok"
      BY <2>4, <3>2 DEF InlineOutcome
    <3>4. QED
      BY <2>1, <3>3
  <2>5. CASE Call \in {"token_count", "estimate", "chat"}
    <3>1. InlineOutcome(Call, "nothing") = "ok"
      BY <1>0, <1>1, <2>5 DEF InlineOutcome
    <3>2. QED
      BY <2>1, <3>1
  <2>6. CASE Call \in {"local_model_load", "local_model_reload"}
    <3>1. InlineOutcome(Call, "nothing") = "ok"
      BY <1>2, <2>6 DEF InlineOutcome
    <3>2. QED
      BY <2>1, <3>1
  <2>7. CASE Call \notin {"local_model_cache_status", "local_model_cache_delete", "model_status",
                          "token_count", "estimate", "chat", "local_model_load",
                          "local_model_reload"}
    <3>1. Call \notin {"estimate_oversized", "chat_oversized"}
      BY <1>7, OncePlaces
    <3>2. InlineOutcome(Call, "nothing") = "ok"
      BY <1>7, <2>7, <3>1 DEF InlineOutcome
    <3>3. QED
      BY <2>1, <3>2
  <2>8. QED
    BY <2>2, <2>3, <2>4, <2>5, <2>6, <2>7
<1>8. QED
  BY <1>5, <1>6, <1>7

LEMMA AnsweredFit ==
  ASSUME HeldInv, PlaceOK, ServerOK, Quiet, Fit, Content, JobsAwaited,
         NEW beside, Answered(beside), ~disturbed'
  PROVE  Fit' /\ Content' /\ JobsAwaited'
<1> DEFINE result == InlineOutcome(Call, "nothing")
<1>1. Calling /\ reply = NoReply /\ Call \notin Queued \cup {"local_lmcache_purge"}
  BY Zenon DEF Answered
<1>2. disturbed' = (disturbed \/ beside # "nothing")
  BY Zenon DEF Answered
<1>3. beside = "nothing"
  BY <1>2
<1>4. /\ reply' = Reply(Call, result)
      /\ UNCHANGED <<at, runtime, jobs, failing, failed, exit>>
      /\ residency' = IF Call \in {"local_model_load", "local_model_reload"} /\ result = "ok"
                        THEN Served ELSE residency
      /\ disk' = IF Call = "local_model_cache_delete"
                   THEN [disk EXCEPT ![setting] = "absent"] ELSE disk
  BY <1>3, Zenon DEF Answered, run
<1>5. at \in [check : Nat, call : Nat] /\ at.call > 0 /\ reply \in Settled
  BY <1>1 DEF HeldInv, Calling, Settled
<1>6. result \in Asserted(Check, Call)
  BY <1>1, <1>5, OutcomesAsserted
<1>7. Content' /\ reply' \notin Settled
  BY <1>4, <1>6, AnswerAccepted
<1> HIDE DEF result
<1>8. jobs' = {}
  <2>1. reply # Waiting
    BY <1>1 DEF NoReply, Waiting, Keyless
  <2>2. QED
    BY <1>4, <2>1, NoJobs
<1>9. \A k \in Nat : Past(k)' <=> (Past(k) \/ (at.check = 3 /\ at.call = k))
  BY <1>4, <1>5, <1>7, Arrived
<1>10. Past(9)' => Past(9)
  <2>1. ~(at.check = 3 /\ at.call = 9)
    BY <1>1, <1>5, OncePlaces DEF Queued
  <2>2. QED
    BY <1>9, <2>1
<1>11. Past(11)' => residency' = Served
  <2>1. CASE Past(11)
    BY <1>4, <2>1 DEF Fit
  <2>2. CASE at.check = 3 /\ at.call = 11
    <3>1. Call = "local_model_load" /\ Check = "commands-live"
      BY <1>5, <2>2, OncePlaces, Places
    <3>2. result = "ok"
      <4>1. LoadOutcome(FALSE) = "ok"
        BY DEF LoadOutcome, Fit
      <4>2. QED
        BY <3>1, <4>1 DEF result, InlineOutcome
    <3>3. QED
      BY <1>4, <3>1, <3>2
  <2>3. QED
    BY <1>9, <2>1, <2>2
<1>12. setting = Scratch /\ disk \in [{Served, Scratch} -> {"absent", "partial", "complete"}]
  BY DEF Quiet, ServerOK
<1>13. disk'[Served] = "complete"
  BY <1>4, <1>12, TwoModels DEF Fit
<1>14. Past(9)' => disk'[Scratch] = IF Past(17)' THEN "absent" ELSE "complete"
  <2>1. CASE Call = "local_model_cache_delete"
    <3>1. at.check = 3 /\ at.call = 17
      BY <1>5, <2>1, OncePlaces
    <3>2. Past(17)'
      BY <1>9, <3>1
    <3>3. disk'[Scratch] = "absent"
      BY <1>4, <1>12, <2>1
    <3>4. QED
      BY <3>2, <3>3
  <2>2. CASE Call # "local_model_cache_delete"
    <3>1. ~(at.check = 3 /\ at.call = 17)
      BY <1>5, <2>2, OncePlaces
    <3>2. Past(17)' <=> Past(17)
      BY <1>9, <3>1
    <3>3. disk' = disk
      BY <1>4, <2>2
    <3>4. QED
      BY <1>10, <3>2, <3>3 DEF Fit
  <2>3. QED
    BY <2>1, <2>2
<1>15. Fit'
  <2>1. runtime' = Served /\ residency' \in {NoModel, Served}
    BY <1>4 DEF Fit
  <2>2. QED
    BY <1>11, <1>13, <1>14, <2>1 DEF Fit
<1>16. QED
  BY <1>7, <1>8, <1>15 DEF JobsAwaited

LEMMA JobRunsFit ==
  ASSUME HeldInv, PlaceOK, ServerOK, Quiet, Fit, Content, JobsAwaited,
         NEW command \in Queued, NEW got \in BOOLEAN, JobRuns(command, got), ~disturbed'
  PROVE  Fit' /\ Content' /\ JobsAwaited'
<1> DEFINE m == IF command = "local_model_switch" THEN Served ELSE setting
           result == IF command = "local_model_switch" THEN SwitchOutcome ELSE "ok"
<1>1. got
  <2>1. disturbed' = (disturbed \/ ~got)
    BY DEF JobRuns
  <2>2. QED
    BY <2>1
<1>2. command \in jobs /\ at.call # 0 /\ reply = Waiting /\ Call = command
  BY DEF JobRuns, JobsAwaited
<1>3. at \in [check : Nat, call : Nat] /\ at.call > 0 /\ reply \in Settled
  BY <1>2 DEF HeldInv, Settled
<1>4. /\ jobs' = jobs \ {command} /\ disk' = [disk EXCEPT ![m] = "complete"]
      /\ residency' = IF command = "local_model_switch" /\ result = "ok" THEN Served ELSE residency
      /\ reply' = Reply(Call, result)
      /\ UNCHANGED <<at, runtime, failing, failed, exit>>
  BY <1>1, <1>2 DEF JobRuns, run
<1>5. result = "ok"
  <2>1. SwitchOutcome = "ok"
    BY DEF SwitchOutcome, LoadOutcome, Fit
  <2>2. QED
    BY <2>1
<1>6. /\ setting = Scratch /\ disk \in [{Served, Scratch} -> {"absent", "partial", "complete"}]
      /\ disk[Served] = "complete" /\ runtime = Served /\ residency \in {NoModel, Served}
  BY DEF Quiet, ServerOK, Fit
<1>7. jobs' = {}
  <2>1. \A c \in jobs : c = command
    BY <1>2 DEF JobsAwaited
  <2>2. QED
    BY <1>4, <2>1
<1>8. \/ command = "local_model_cache_preload" /\ at.check = 3 /\ at.call = 9
      \/ command = "local_model_switch" /\ at.check = 3 /\ at.call = 18
  BY <1>2, <1>3, OncePlaces DEF Queued
<1>9. Content' /\ reply' \notin Settled
  <2>1. "ok" \in Asserted(Check, Call)
    <3>1. Check = "commands-live"
      BY <1>3, <1>8, Places
    <3>2. QED
      BY <1>2, <1>8, <3>1 DEF Asserted, Done
  <2>2. reply' = Reply(Call, "ok")
    BY <1>4, <1>5
  <2>3. QED
    BY <1>4, <2>1, <2>2, AnswerAccepted
<1>10. \A k \in Nat : Past(k)' <=> (Past(k) \/ (at.check = 3 /\ at.call = k))
  BY <1>3, <1>4, <1>9, Arrived
<1>11. disk'[Served] = "complete" /\ residency' \in {NoModel, Served} /\ runtime' = Served
  BY <1>4, <1>6
<1>12. CASE command = "local_model_cache_preload" /\ at.check = 3 /\ at.call = 9
  <2>1. disk'[Scratch] = "complete"
    BY <1>4, <1>6, <1>12
  <2>2. ~Past(11)' /\ ~Past(17)'
    BY <1>4, <1>12 DEF Past
  <2>3. Fit'
    BY <1>11, <2>1, <2>2 DEF Fit
  <2>4. QED
    BY <1>7, <1>9, <2>3 DEF JobsAwaited
<1>13. CASE command = "local_model_switch" /\ at.check = 3 /\ at.call = 18
  <2>1. disk'[Scratch] = disk[Scratch] /\ residency' = Served
    BY <1>4, <1>5, <1>6, <1>13, TwoModels
  <2>2. (Past(9)' <=> Past(9)) /\ (Past(17)' <=> Past(17))
    BY <1>10, <1>13
  <2>3. Fit'
    BY <1>11, <2>1, <2>2 DEF Fit
  <2>4. QED
    BY <1>7, <1>9, <2>3 DEF JobsAwaited
<1>14. QED
  BY <1>8, <1>12, <1>13

\* The end of the run takes nothing away: all checks were content.
LEMMA EndsFit ==
  ASSUME HeldInv, Fit, Content, JobsAwaited, RunEnds
  PROVE  Fit' /\ Content' /\ JobsAwaited'
<1>1. UNCHANGED <<server, at, reply, failing, failed>> /\ exit' # "failed"
  BY DEF RunEnds, Content
<1>2. Fit' /\ JobsAwaited'
  BY <1>1, SameFit, SameJobs DEF server
<1>3. Check' = Check /\ Call' = Call
  BY <1>1 DEF Check, Call
<1>4. Content'
  BY <1>1, <1>3 DEF Content
<1>5. QED
  BY <1>2, <1>4

LEMMA QuietKept ==
  ASSUME HeldInv, ScopeInv, PurgeInv, PlaceOK, ServerOK, FlagsOK, UndisturbedInv, [Next]_vars,
         Quiet'
  PROVE  Fit' /\ Content' /\ JobsAwaited'
<1>1. CASE exit = "idle"
  <2>1. RunStarts
    BY <1>1, Begun DEF Quiet
  <2>2. QED
    BY <2>1, StartsFit DEF UndisturbedInv
<1>2. CASE exit # "idle"
  <2>1. Quiet /\ ~disturbed'
    <3>1. setting' = setting /\ (disturbed => disturbed') /\ ~disturbed' /\ setting' = Scratch
      BY <1>2, Begun DEF Quiet
    <3>2. QED
      BY <1>2, <3>1 DEF Quiet
  <2>2. Fit /\ Content /\ JobsAwaited /\ NoCompany
    BY <2>1 DEF UndisturbedInv
  <2>3. CASE Purging \/ UNCHANGED vars
    <3>1. UNCHANGED <<server, at, reply, failing, failed, exit>>
      BY <2>3 DEF Purging, vars, run
    <3>2. QED
      BY <2>2, <3>1, SameFit, SameContent, SameJobs DEF server
  <2>4. CASE PurgeAnswered
    BY <2>1, <2>2, <2>4, PurgeAnsweredFit
  <2>5. CASE CheckStarts
    BY <2>1, <2>2, <2>5, CheckStartsFit
  <2>6. CASE PurgeCalled \/ Enqueued
    BY <2>2, <2>6, CalledFit
  <2>7. CASE Judged
    BY <2>2, <2>7, JudgedFit
  <2>8. CASE RunEnds
    BY <2>2, <2>8, EndsFit
  <2>9. CASE \E beside \in {"nothing", "full card", "switch"} : Answered(beside)
    <3> PICK beside : Answered(beside)
      BY <2>9
    <3>1. QED
      BY <2>1, <2>2, AnsweredFit
  <2>10. CASE Workers
    <3> PICK command \in Queued, got \in BOOLEAN : JobRuns(command, got)
      BY <2>10 DEF Workers
    <3>1. QED
      BY <2>1, <2>2, JobRunsFit
  <2>11. ~RunStarts /\ ~OthersPurge
    BY <1>2 DEF RunStarts, OthersPurge
  <2>12. ~Raised
    BY <2>2 DEF Raised, Content
  <2>13. ~RuntimeStores /\ ~StorageRefuses
    BY <1>2, <2>1 DEF RuntimeStores, StorageRefuses
  <2>14. ~(CallLost \/ RuntimeChanges \/ OthersLoad \/ OthersCache \/ ServiceRestarts)
    BY <2>1 DEF CallLost, RuntimeChanges, OthersLoad, OthersCache, ServiceRestarts, Disturbance
  <2>15. QED
    BY <2>3, <2>4, <2>5, <2>6, <2>7, <2>8, <2>9, <2>10, <2>11, <2>12, <2>13, <2>14
    DEF Next, Run, BesideRun
<1>3. QED
  BY <1>1, <1>2

\* A run of run_info_docs_live, run_prompt_admission_live and _drive that
\* nobody has disturbed, on a fit deployment, never fails, and when it has
\* passed the served model is on record and the scratch model off the disk.
THEOREM UndisturbedRunsPass == Spec => []UndisturbedRunPasses
<1> DEFINE Inv == /\ HeldInv /\ ScopeInv /\ PurgeTypeOK /\ PurgeInv /\ PlaceOK /\ ServerOK
                  /\ FlagsOK /\ UndisturbedInv
<1>1. Init => Inv
  <2> SUFFICES ASSUME Init PROVE Inv
    OBVIOUS
  <2>1. HeldInv /\ ScopeInv /\ PurgeTypeOK /\ PurgeInv
    BY InitHeld, NoPurgeTyped, NoPurgeInScope, NoPurgeInv DEF Init, PurgeInit
  <2>2. PlaceOK
    <3>1. at.check = 1 /\ at.call = 0
      BY DEF Init
    <3>2. Len(Calls(Check)) = 1
      BY <3>1, PlanAt
    <3>3. QED
      BY <3>1, <3>2 DEF PlaceOK
  <2>3. ServerOK /\ FlagsOK
    BY DEF Init, ServerOK, FlagsOK
  <2>4. UndisturbedInv
    <3>1. purge.company = 0 /\ purge.pc = "idle"
      BY DEF Init, PurgeInit, NoPurge
    <3>2. QED
      BY <3>1 DEF Init, UndisturbedInv, NoCompany, NotStarted, Quiet
  <2>5. QED
    BY <2>1, <2>2, <2>3, <2>4
<1>2. Inv /\ [Next]_vars => Inv'
  <2> SUFFICES ASSUME Inv, [Next]_vars PROVE Inv'
    OBVIOUS
  <2>1. HeldInv' /\ ScopeInv' /\ PurgeTypeOK' /\ PurgeInv' /\ PlaceOK' /\ ServerOK'
    BY HeldKept, ScopeInvKept, TypedKept, PurgeKept, PlaceKept, ServerKept
  <2>2. FlagsOK'
    BY <2>1, FlagsKept
  <2>3. UndisturbedInv'
    <3>1. NoCompany' /\ NotStarted'
      BY NoCompanyKept, NotStartedKept DEF UndisturbedInv
    <3>2. Quiet' => Fit' /\ Content' /\ JobsAwaited'
      BY QuietKept
    <3>3. QED
      BY <3>1, <3>2 DEF UndisturbedInv
  <2>4. QED
    BY <2>1, <2>2, <2>3
<1>3. Inv => UndisturbedRunPasses
  <2> SUFFICES ASSUME Inv, ~disturbed, setting = Scratch
               PROVE  /\ exit # "failed"
                      /\ exit = "passed" => residency = Served /\ disk[Scratch] = "absent"
    BY DEF UndisturbedRunPasses
  <2>1. CASE exit = "idle"
    BY <2>1
  <2>2. CASE exit # "idle"
    <3>1. Fit /\ Content
      BY <2>2 DEF Quiet, UndisturbedInv
    <3>2. exit = "passed" => Past(9) /\ Past(11) /\ Past(17)
      BY DEF UndisturbedInv, NotStarted, Past
    <3>3. QED
      BY <3>1, <3>2 DEF Fit, Content
  <2>3. QED
    BY <2>1, <2>2
<1>4. QED
  BY <1>1, <1>2, <1>3, PTL DEF Spec
=============================================================================
