---------------------------- MODULE LmcachePurge ----------------------------
(***************************************************************************)
(* local_lmcache_purge (lmrs/lmcache.py): removing what LMCache has on     *)
(* disk, all of it or what is bound to a namespace, a session or both.     *)
(*                                                                         *)
(* The command runs on the event loop, so no other purge is under way; the *)
(* runtime, a process of its own, writes and evicts files of the same      *)
(* directory between any two system calls of it, and the system may refuse *)
(* any of them.  A path is the sequence of its names below the root; no    *)
(* root at all is a tree without paths.                                    *)
(*                                                                         *)
(* A binding is joined to the root as it is given.  Namespaces and         *)
(* Sessions are the bindings that name a directory of theirs in the layout *)
(* <root>/<namespace>/<session>/; a purge by any other is only known to    *)
(* remove files (PurgeElsewhere).                                          *)
(***************************************************************************)
EXTENDS Naturals, FiniteSets, Sequences

CONSTANTS
  Namespaces, Sessions,  \* names of directories below the root, below those
  Names,                 \* file names
  NoBinding,             \* the parameter is not given
  MaxCompany             \* bound on what the runtime does during one purge

ASSUME PurgeAssumption ==
  /\ IsFiniteSet(Namespaces) /\ IsFiniteSet(Sessions) /\ IsFiniteSet(Names)
  /\ Namespaces \cap Names = {}
  /\ NoBinding \notin Namespaces \cup Sessions
  /\ MaxCompany \in Nat

VARIABLE purge  \* the purge under way and the directory it works on

Dirs  == {<<n>> : n \in Namespaces} \cup {<<n, s>> : n \in Namespaces, s \in Sessions}
Files == {<<f>> : f \in Names}
           \cup {<<n, s, f>> : n \in Namespaces, s \in Sessions, f \in Names}
Paths == Dirs \cup Files

\* A directory that is being emptied, and the entries its listing gave.
Frames == [dir : Dirs, left : SUBSET Paths]

Purge == [pc : {"idle", "target", "open", "delete",
                "answered", "raised", "refused", "elsewhere"},
          namespace : Namespaces \cup {NoBinding},
          session : Sessions \cup {NoBinding},
          tree : SUBSET Paths,     \* what is on disk
          targets : SUBSET Paths,  \* the targets not yet taken
          target : Paths \cup {<< >>},
          stack : Seq(Frames),
          count : Nat,
          removed : SUBSET Files,  \* what the purge has removed (history)
          written : SUBSET Files,  \* what the runtime has written meanwhile (history)
          company : Nat]           \* how often the runtime has acted meanwhile

NoPurge == [pc |-> "idle", namespace |-> NoBinding, session |-> NoBinding,
            tree |-> {}, targets |-> {}, target |-> << >>, stack |-> << >>,
            count |-> 0, removed |-> {}, written |-> {}, company |-> 0]

PurgeTypeOK == purge \in Purge

-----------------------------------------------------------------------------
Within(p, dir) == Len(p) > Len(dir) /\ \A i \in 1..Len(dir) : p[i] = dir[i]

Children(tree, dir) == {p \in tree : Within(p, dir) /\ Len(p) = Len(dir) + 1}

FilesBelow(tree, dir) == {p \in tree \cap Files : Within(p, dir)}

Parents(p) == {SubSeq(p, 1, i) : i \in 1..(Len(p) - 1)}

WithParents(paths) == paths \cup UNION {Parents(p) : p \in paths}

\* Mutant: a session is looked up, its namespace is removed.
TargetsTooHigh(tree, namespace, session) ==
  IF session = NoBinding
    THEN IF namespace = NoBinding THEN Children(tree, << >>) ELSE {<<namespace>>} \cap tree
    ELSE {SubSeq(p, 1, 1) : p \in {q \in tree \cap Dirs :
            Len(q) = 2 /\ q[2] = session /\ namespace \in {NoBinding, q[1]}}}

\* _purge_targets.
PurgeTargets(tree, namespace, session) ==
  IF session = NoBinding
    THEN IF namespace = NoBinding THEN Children(tree, << >>) ELSE {<<namespace>>} \cap tree
    ELSE {q \in tree \cap Dirs : Len(q) = 2 /\ q[2] = session /\ namespace \in {NoBinding, q[1]}}

-----------------------------------------------------------------------------
(* Steps of the command: each is the code between two system calls.        *)

\* What the runtime can have left: some files, and directories it has
\* emptied, none or all.
Trees == {WithParents(files) \cup emptied : files \in SUBSET Files, emptied \in {{}, Dirs}}

PurgeCommand(namespace, session, tree) ==
  /\ purge.pc = "idle"
  /\ purge' = [NoPurge EXCEPT !.pc = "target", !.tree = tree,
                 !.namespace = namespace, !.session = session,
                 !.targets = PurgeTargets(tree, namespace, session)]

\* A purge by a binding that names no directory of the layout: it may lead
\* to a file at the root, to other namespaces, to the root, or out of it.
PurgeElsewhere ==
  /\ purge.pc = "idle"
  /\ \E removed \in SUBSET Files :
       purge' = [NoPurge EXCEPT !.pc = "elsewhere", !.removed = removed,
                                !.count = Cardinality(removed)]

\* Mutant: an error of the system is passed over.
RefusedAnswers ==
  /\ purge.pc \in {"target", "open", "delete"}
  /\ purge.pc = "target" => purge.targets # {}
  /\ purge' = [purge EXCEPT !.pc = "answered"]

\* The system refuses a listing or a removal (no permission, a busy file, an
\* I/O error), at whichever artifact, directory or file the purge is.
Refused ==
  /\ purge.pc \in {"target", "open", "delete"}
  /\ purge.pc = "target" => purge.targets # {}
  /\ purge' = [purge EXCEPT !.pc = "refused"]

\* What the purge has listed is not as it was.
Raise == purge' = [purge EXCEPT !.pc = "raised"]

\* _remove_artifact of a file, which the runtime may have evicted.
RemoveFile ==
  /\ purge.pc = "target"
  /\ \E t \in purge.targets \ Dirs :
       IF t \in purge.tree
         THEN purge' = [purge EXCEPT !.tree = @ \ {t}, !.targets = @ \ {t},
                                     !.removed = @ \cup {t}, !.count = @ + 1]
         ELSE Raise

\* _remove_artifact of a directory: its files are counted before anything
\* is removed.
CountTarget ==
  /\ purge.pc = "target"
  /\ \E t \in purge.targets \cap Dirs :
       purge' = [purge EXCEPT !.pc = "open", !.targets = @ \ {t}, !.target = t,
                   !.count = @ + Cardinality(FilesBelow(purge.tree, t))]

Listing(dir) == [dir |-> dir, left |-> Children(purge.tree, dir)]

\* rmtree lists the directory,
OpenTarget ==
  /\ purge.pc = "open"
  /\ purge' = [purge EXCEPT !.pc = "delete", !.stack = <<Listing(purge.target)>>]

Emptying == Head(purge.stack)

\* goes into the directories it has listed,
EnterDirectory ==
  /\ purge.pc = "delete"
  /\ \E e \in Emptying.left \cap Dirs :
       purge' = [purge EXCEPT !.stack =
                   <<Listing(e), [Emptying EXCEPT !.left = @ \ {e}]>> \o Tail(@)]

\* unlinks the files, of which an evicted one stops it before Python 3.13,
UnlinkEntry ==
  /\ purge.pc = "delete"
  /\ \E e \in Emptying.left \ Dirs :
       \/ purge' = [purge EXCEPT !.tree = @ \ {e},
                      !.removed = @ \cup (purge.tree \cap {e}),
                      !.stack = <<[Emptying EXCEPT !.left = @ \ {e}]>> \o Tail(@)]
       \/ e \notin purge.tree /\ Raise

\* and removes the directory, which has to be empty.
RemoveDirectory ==
  /\ purge.pc = "delete"
  /\ Emptying.left = {}
  /\ IF Children(purge.tree, Emptying.dir) = {}
       THEN purge' = [purge EXCEPT !.tree = @ \ {Emptying.dir}, !.stack = Tail(@),
                        !.pc = IF Len(purge.stack) = 1 THEN "target" ELSE "delete"]
       ELSE Raise

AnswerPurge ==
  /\ purge.pc = "target"
  /\ purge.targets = {}
  /\ purge' = [purge EXCEPT !.pc = "answered"]

\* The answer, a count or an error, is on its way.
PurgeReturns ==
  /\ purge.pc \in {"answered", "raised", "refused", "elsewhere"}
  /\ purge' = NoPurge

-----------------------------------------------------------------------------
(* The runtime.                                                            *)

Beside ==
  /\ purge.pc \in {"target", "open", "delete"}
  /\ purge.company < MaxCompany

RuntimeWrites(f) ==
  /\ Beside
  /\ f \notin purge.tree
  /\ purge' = [purge EXCEPT !.tree = @ \cup WithParents({f}), !.written = @ \cup {f},
                            !.company = @ + 1]

RuntimeEvicts(f) ==
  /\ Beside
  /\ f \in purge.tree
  /\ purge' = [purge EXCEPT !.tree = @ \ {f}, !.company = @ + 1]

-----------------------------------------------------------------------------
PurgeInit == purge = NoPurge

\* The command, from its targets to its answer.
PurgeStep ==
  \/ RemoveFile \/ CountTarget \/ OpenTarget
  \/ EnterDirectory \/ UnlinkEntry \/ RemoveDirectory
  \/ AnswerPurge

-----------------------------------------------------------------------------
(* Properties.                                                             *)

\* A path is what a purge of this namespace and session is about.
InScope(p) ==
  \/ purge.namespace = NoBinding /\ purge.session = NoBinding
  \/ /\ Len(p) = 3
     /\ purge.namespace \in {NoBinding, p[1]}
     /\ purge.session \in {NoBinding, p[2]}

\* A purge by a binding that names its directory removes no file of another
\* namespace or session, whatever the runtime writes and evicts below the
\* directories it is emptying.
PurgeStaysInScope ==
  purge.pc # "elsewhere" => \A p \in purge.removed : InScope(p)

\* A purge that answers leaves nothing of its scope but what was written
\* after it began, also where the system refuses a removal.  One the runtime
\* has left alone finds what it has listed, and the count it answers with is
\* the number of files it has removed.
PurgeAnswersTruly ==
  /\ purge.pc = "answered" =>
       /\ {p \in purge.tree \cap Files : InScope(p)} \subseteq purge.written
       /\ purge.company = 0 => purge.count = Cardinality(purge.removed)
  /\ purge.pc = "raised" => purge.company # 0
=============================================================================
