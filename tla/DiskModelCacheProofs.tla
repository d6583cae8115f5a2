------------------------- MODULE DiskModelCacheProofs -------------------------
(***************************************************************************)
(* What holds of markers and metadata on disk for any number of models,    *)
(* files and workers, any crash and any partial delete.                    *)
(***************************************************************************)
EXTENDS DiskModelCache, TLAPS

-----------------------------------------------------------------------------
(* Steps that change one thread's record.                                  *)

LEMMA RestingIsJob ==
  /\ Resting \in Jobs
  /\ Resting.pc = "idle" /\ Resting.model = NoModel
BY DEF Resting, Jobs

LEMMA OneJob ==
  ASSUME TypeOK, NEW t \in Threads, NEW r \in Jobs, job' = [job EXCEPT ![t] = r]
  PROVE  /\ job' \in [Threads -> Jobs]
         /\ \A u \in Threads : job'[u] = IF u = t THEN r ELSE job[u]
BY DEF TypeOK

LEMMA LoopIsThread == Loop \in Threads /\ Runtime \in Threads /\ Workers \subseteq Threads
BY DEF Threads

LEMMA FileIsNoModel == NoModel \notin Models
BY CacheAssumption

\* A thread other than the loop goes on with the model it is at work on, and
\* the state directories stay as they are.
LEMMA GoesOn ==
  ASSUME StateInv, NEW t \in Threads \ {Loop}, NEW r \in Jobs, job' = [job EXCEPT ![t] = r],
         r.model = job[t].model, r.pc \notin {"idle", "rmtree", "rmstate"}, ~At(t, "idle"),
         r.pc = "mark" => r.model \in dir \cup disturbed,
         dir \subseteq dir', dir' \in SUBSET Models, tree' \in [Models -> [Files -> Entries]],
         UNCHANGED <<marker, meta, disturbed>>
  PROVE  StateInv'
<1> USE DEF At, On, Deleting, Company
<1>1. /\ job' \in [Threads -> Jobs]
      /\ \A u \in Threads : job'[u] = IF u = t THEN r ELSE job[u]
  BY OneJob DEF StateInv
<1>2. TypeOK'
  BY <1>1 DEF StateInv, TypeOK
<1>3. job'[Loop] = job[Loop] /\ \A u \in Threads : job'[u].model = job[u].model
  BY <1>1, LoopIsThread
<1>4. StateNeedsModel'
  BY <1>3 DEF StateInv, StateNeedsModel
<1>5. \A m \in Models : (Deleting(m) /\ Company(m) => m \in disturbed)'
  BY <1>3 DEF StateInv
<1>6. \A u \in Threads :
        (/\ At(u, "idle") <=> On(u, NoModel)
         /\ At(u, "rmtree") \/ At(u, "rmstate") => u = Loop
         /\ At(u, "mark") => u # Loop /\ job[u].model \in dir \cup disturbed)'
  BY <1>1 DEF StateInv
<1>7. QED
  BY <1>2, <1>4, <1>5, <1>6 DEF StateInv

\* A thread other than the loop comes to rest; only the marker may change.
LEMMA ComesToRest ==
  ASSUME StateInv, NEW t \in Threads \ {Loop}, Ends(t),
         marker' \in {marker, marker \cup {job[t].model}},
         marker' # marker => At(t, "mark"),
         UNCHANGED <<dir, tree, meta, disturbed>>
  PROVE  StateInv'
<1> USE DEF At, On, Deleting, Company
<1>1. /\ job' \in [Threads -> Jobs]
      /\ \A u \in Threads : job'[u] = IF u = t THEN Resting ELSE job[u]
  BY OneJob, RestingIsJob DEF StateInv, Ends
<1>2. marker' # marker => job[t].model \in dir \cup disturbed
  BY DEF StateInv
<1>3. TypeOK'
  BY <1>1, <1>2 DEF StateInv, TypeOK
<1>4. job'[Loop] = job[Loop]
      /\ \A u \in Threads : job'[u].model \in {job[u].model, NoModel}
  BY <1>1, LoopIsThread, RestingIsJob
<1>5. StateNeedsModel'
  BY <1>2, <1>4 DEF StateInv, StateNeedsModel
<1>6. \A m \in Models : (Deleting(m) /\ Company(m) => m \in disturbed)'
  BY <1>4, FileIsNoModel DEF StateInv
<1>7. \A u \in Threads :
        (/\ At(u, "idle") <=> On(u, NoModel)
         /\ At(u, "rmtree") \/ At(u, "rmstate") => u = Loop
         /\ At(u, "mark") => u # Loop /\ job[u].model \in dir \cup disturbed)'
  BY <1>1, RestingIsJob DEF StateInv
<1>8. QED
  BY <1>3, <1>5, <1>6, <1>7 DEF StateInv

\* A thread other than the loop takes up a model.
LEMMA Begins ==
  ASSUME StateInv, NEW t \in Threads \ {Loop}, NEW op \in {"preload", "serve"}, NEW m \in Models,
         NEW pc \in {"scan", "fetch"}, Begin(t, op, m, pc), UNCHANGED <<dir, tree, marker, meta>>
  PROVE  StateInv'
<1> USE DEF At, On, Deleting, Company
<1> DEFINE r == [Resting EXCEPT !.op = op, !.model = m, !.pc = pc, !.alone = ~Deleting(m)]
<1>1. r \in Jobs /\ r.pc = pc /\ r.model = m
  BY DEF Resting, Jobs
<1>2. job' = [job EXCEPT ![t] = r]
  BY DEF Begin
<1> HIDE DEF r
<1>3. /\ job' \in [Threads -> Jobs]
      /\ \A u \in Threads : job'[u] = IF u = t THEN r ELSE job[u]
  BY <1>1, <1>2, OneJob DEF StateInv
<1>4. disturbed \subseteq disturbed' /\ disturbed' \subseteq disturbed \cup {m}
      /\ (Deleting(m) => m \in disturbed')
  BY DEF Begin
<1>5. TypeOK'
  BY <1>3, <1>4 DEF StateInv, TypeOK
<1>6. job'[Loop] = job[Loop]
  BY <1>3, LoopIsThread
<1>7. StateNeedsModel'
  BY <1>4, <1>6 DEF StateInv, StateNeedsModel
<1>8. \A n \in Models : (Deleting(n) /\ Company(n) => n \in disturbed)'
  BY <1>1, <1>3, <1>4, <1>6 DEF StateInv
<1>9. \A u \in Threads :
        (/\ At(u, "idle") <=> On(u, NoModel)
         /\ At(u, "rmtree") \/ At(u, "rmstate") => u = Loop
         /\ At(u, "mark") => u # Loop /\ job[u].model \in dir \cup disturbed)'
  BY <1>1, <1>3, <1>4, FileIsNoModel DEF StateInv
<1>10. QED
  BY <1>5, <1>7, <1>8, <1>9 DEF StateInv

-----------------------------------------------------------------------------
(* Downloads and preloads.                                                 *)

LEMMA DownloadKeeps ==
  ASSUME StateInv, NEW t \in Threads \ {Loop}, Download(t)
  PROVE  StateInv'
<1> USE DEF At
<1> DEFINE m == job[t].model
<1>0. TypeOK /\ job[t] \in Jobs
  BY DEF StateInv, TypeOK
<1>1. At(t, "fetch") => m \in Models
  BY <1>0 DEF StateInv, On, Jobs
<1>2. ASSUME NEW f \in Files, FetchBegin(t, f)
      PROVE  StateInv'
  <2> DEFINE r == [job[t] EXCEPT !.fetching = @ \cup {f}]
  <2>1. r \in Jobs /\ r.model = m /\ r.pc = "fetch"
    BY <1>0, <1>2 DEF FetchBegin, Jobs
  <2>2. job' = [job EXCEPT ![t] = r]
    BY <1>0, <1>2 DEF FetchBegin, TypeOK
  <2>3. tree' \in [Models -> [Files -> Entries]]
    BY <1>0, <1>2 DEF FetchBegin, TypeOK, Entries
  <2>4. dir \subseteq dir' /\ dir' \in SUBSET Models
    BY <1>0, <1>1, <1>2 DEF FetchBegin, TypeOK
  <2> HIDE DEF r
  <2>5. QED
    BY <1>2, <2>1, <2>2, <2>3, <2>4, GoesOn DEF FetchBegin
<1>3. ASSUME NEW f \in Files, FetchEnd(t, f)
      PROVE  StateInv'
  <2> DEFINE r == [job[t] EXCEPT !.fetching = @ \ {f}]
  <2>1. r \in Jobs /\ r.model = m /\ r.pc = "fetch"
    BY <1>0, <1>3 DEF FetchEnd, Jobs
  <2>2. job' = [job EXCEPT ![t] = r]
    BY <1>0, <1>3 DEF FetchEnd, TypeOK
  <2>3. tree' \in [Models -> [Files -> Entries]]
    BY <1>0, <1>3 DEF FetchEnd, TypeOK, Entries
  <2>4. dir' = dir /\ dir' \in SUBSET Models
    BY <1>0, <1>3 DEF FetchEnd, TypeOK
  <2> HIDE DEF r
  <2>5. QED
    BY <1>3, <2>1, <2>2, <2>3, <2>4, GoesOn DEF FetchEnd
<1>4. CASE DownloadFails(t)
  BY <1>4, ComesToRest DEF DownloadFails
<1>5. CASE DownloadReturns(t)
  <2>1. CASE job[t].op = "preload"
    <3> DEFINE r == [job[t] EXCEPT !.pc = "rescan"]
    <3>1. r \in Jobs /\ r.model = m /\ r.pc = "rescan"
      BY <1>0 DEF Jobs
    <3>2. job' = [job EXCEPT ![t] = r]
      BY <1>5, <2>1 DEF DownloadReturns, Goto
    <3> HIDE DEF r
    <3>3. QED
      BY <1>0, <1>5, <3>1, <3>2, GoesOn DEF DownloadReturns, TypeOK
  <2>2. CASE job[t].op # "preload"
    BY <1>5, <2>2, ComesToRest DEF DownloadReturns
  <2>3. QED
    BY <2>1, <2>2
<1>6. QED
  BY <1>2, <1>3, <1>4, <1>5 DEF Download

LEMMA PreloadKeeps ==
  ASSUME StateInv, NEW w \in Workers, PreloadStep(w)
  PROVE  StateInv'
<1> USE DEF At
<1>0. TypeOK /\ w \in Threads \ {Loop} /\ job[w] \in Jobs
  BY CacheAssumption, LoopIsThread DEF StateInv, TypeOK
<1>1. CASE PreloadScan(w)
  <2> DEFINE pc == IF CacheStatus(job[w].model) = "cached_on_disk" THEN "mark" ELSE "fetch"
             r == [job[w] EXCEPT !.pc = pc]
  <2>1. pc \in {"mark", "fetch"} /\ (pc = "mark" => job[w].model \in dir)
    BY DEF CacheStatus
  <2>2. job' = [job EXCEPT ![w] = r]
    BY <1>1 DEF PreloadScan, Goto
  <2> HIDE DEF pc
  <2>3. r \in Jobs /\ r.model = job[w].model /\ r.pc = pc
    BY <1>0, <2>1 DEF Jobs
  <2> HIDE DEF r
  <2>4. QED
    BY <1>0, <1>1, <2>1, <2>2, <2>3, GoesOn DEF PreloadScan, TypeOK
<1>2. CASE Download(w)
  BY <1>0, <1>2, DownloadKeeps
<1>3. CASE Rescan(w)
  <2>1. CASE CacheStatus(job[w].model) = "cached_on_disk"
    <3> DEFINE r == [job[w] EXCEPT !.pc = "mark", !.own = TRUE]
    <3>1. r \in Jobs /\ r.model = job[w].model /\ r.pc = "mark"
      BY <1>0 DEF Jobs
    <3>2. job' = [job EXCEPT ![w] = r]
      BY <1>3, <2>1 DEF Rescan
    <3>3. job[w].model \in dir
      BY <2>1 DEF CacheStatus
    <3> HIDE DEF r
    <3>4. QED
      BY <1>0, <1>3, <3>1, <3>2, <3>3, GoesOn DEF Rescan, TypeOK
  <2>2. CASE CacheStatus(job[w].model) # "cached_on_disk"
    BY <1>0, <1>3, <2>2, ComesToRest DEF Rescan
  <2>3. QED
    BY <2>1, <2>2
<1>4. CASE WriteMarker(w)
  BY <1>0, <1>4, ComesToRest DEF WriteMarker
<1>5. QED
  BY <1>1, <1>2, <1>3, <1>4 DEF PreloadStep

-----------------------------------------------------------------------------
(* Deletes.                                                                *)

LEMMA DeleteCommandKeeps ==
  ASSUME StateInv, NEW m \in Models, DeleteCommand(m)
  PROVE  StateInv'
<1> USE DEF At, On, Deleting, Company
<1>0. TypeOK
  BY DEF StateInv
<1> DEFINE begun == [Resting EXCEPT !.op = "delete", !.model = m, !.pc = "rmtree"]
<1>1. begun \in Jobs /\ begun.pc = "rmtree" /\ begun.model = m
  BY DEF Resting, Jobs
<1> DEFINE beside(u) == IF On(u, m) THEN [job[u] EXCEPT !.alone = FALSE] ELSE job[u]
<1>a. job' = [u \in Threads |-> IF u = Loop THEN begun ELSE beside(u)]
  BY DEF DeleteCommand
<1>b. \A u \in Threads :
        beside(u) \in Jobs /\ beside(u).pc = job[u].pc /\ beside(u).model = job[u].model
  BY <1>0 DEF TypeOK, Jobs
<1> HIDE DEF begun, beside
<1>2. job'[Loop] = begun
  BY <1>a, LoopIsThread
<1>3. \A u \in Threads \ {Loop} :
        job'[u] \in Jobs /\ job'[u].pc = job[u].pc /\ job'[u].model = job[u].model
  BY <1>a, <1>b
<1>4. job' \in [Threads -> Jobs]
  BY <1>1, <1>a, <1>b
<1>5. disturbed \subseteq disturbed' /\ disturbed' \subseteq disturbed \cup {m}
      /\ (Company(m) => m \in disturbed')
  BY DEF DeleteCommand
<1>6. TypeOK'
  BY <1>0, <1>4, <1>5 DEF DeleteCommand, TypeOK
<1>7. StateNeedsModel'
  BY <1>5 DEF DeleteCommand, StateInv, StateNeedsModel
<1>8. \A n \in Models : (Deleting(n) /\ Company(n) => n \in disturbed)'
  BY <1>1, <1>2, <1>3, <1>5 DEF StateInv
<1>9. \A u \in Threads :
        (/\ At(u, "idle") <=> On(u, NoModel)
         /\ At(u, "rmtree") \/ At(u, "rmstate") => u = Loop
         /\ At(u, "mark") => u # Loop /\ job[u].model \in dir \cup disturbed)'
  BY <1>1, <1>2, <1>3, <1>5, FileIsNoModel DEF StateInv, DeleteCommand
<1>10. QED
  BY <1>6, <1>7, <1>8, <1>9 DEF StateInv

LEMMA DeleteKeeps ==
  ASSUME StateInv, DeleteStep
  PROVE  StateInv'
<1> USE DEF At, On, Deleting, Company
<1> DEFINE m == job[Loop].model
<1>0. TypeOK /\ Loop \in Threads /\ job[Loop] \in Jobs
  BY LoopIsThread DEF StateInv, TypeOK
<1>1. m \in Models
  BY <1>0 DEF DeleteStep, RemoveEntry, RemoveDirectory, RemoveState, DeleteFails, StateInv, Jobs
<1>2. ASSUME NEW f \in Files, RemoveEntry(f)
      PROVE  StateInv'
  <2>1. PICK e \in {"absent", "broken"} : tree' = [tree EXCEPT ![m] = [@ EXCEPT ![f] = e]]
    BY <1>2 DEF RemoveEntry
  <2>2. tree' \in [Models -> [Files -> Entries]]
    BY <1>0, <2>1 DEF TypeOK, Entries
  <2>3. QED
    BY <1>2, <2>2 DEF RemoveEntry, StateInv, TypeOK, StateNeedsModel
<1>3. CASE RemoveDirectory
  <2> DEFINE r == [job[Loop] EXCEPT !.pc = "rmstate"]
  <2>1. r \in Jobs /\ r.model = m /\ r.pc = "rmstate"
    BY <1>0 DEF Jobs
  <2>2. job' = [job EXCEPT ![Loop] = r]
    BY <1>3 DEF RemoveDirectory, Goto
  <2> HIDE DEF r
  <2>3. /\ job' \in [Threads -> Jobs]
        /\ \A u \in Threads : job'[u] = IF u = Loop THEN r ELSE job[u]
    BY <1>0, <2>1, <2>2, OneJob
  <2>4. TypeOK'
    BY <1>0, <1>3, <2>3 DEF RemoveDirectory, TypeOK
  <2>5. StateNeedsModel'
    BY <1>0, <1>3, <2>1, <2>3 DEF RemoveDirectory, StateInv, StateNeedsModel
  <2>6. \A n \in Models : (Deleting(n) /\ Company(n) => n \in disturbed)'
    <3>1. \A u \in Threads : job'[u].model = job[u].model
      BY <2>1, <2>3
    <3>2. disturbed' = disturbed
      BY <1>3 DEF RemoveDirectory
    <3>3. QED
      BY <1>0, <3>1, <3>2 DEF StateInv
  <2>7. \A u \in Threads : job[u].pc = "mark" => job[u].model \in dir' \cup disturbed
    BY <1>0, <1>1, <1>3 DEF RemoveDirectory, StateInv
  <2>8. \A u \in Threads :
          (/\ At(u, "idle") <=> On(u, NoModel)
           /\ At(u, "rmtree") \/ At(u, "rmstate") => u = Loop
           /\ At(u, "mark") => u # Loop /\ job[u].model \in dir \cup disturbed)'
    BY <1>1, <1>3, <2>1, <2>3, <2>7, FileIsNoModel DEF RemoveDirectory, StateInv
  <2>9. QED
    BY <2>4, <2>5, <2>6, <2>8 DEF StateInv
<1>4. ASSUME Ends(Loop)
      PROVE  /\ job' \in [Threads -> Jobs]
             /\ \A u \in Threads : job'[u] = IF u = Loop THEN Resting ELSE job[u]
             /\ \A n \in Models : ~Deleting(n)'
  BY <1>0, <1>4, OneJob, RestingIsJob, FileIsNoModel DEF Ends
<1>5. CASE RemoveState
  <2>1. Company(m) => m \in disturbed
    BY <1>1 DEF StateInv
  <2>2. disturbed' \in {disturbed, disturbed \ {m}} /\ (Company(m) => disturbed' = disturbed)
    BY <1>5 DEF RemoveState
  <2>3. TypeOK'
    BY <1>0, <1>4, <1>5, <2>2 DEF RemoveState, TypeOK
  <2>4. StateNeedsModel'
    BY <1>0, <1>5, <2>1, <2>2 DEF RemoveState, StateInv, StateNeedsModel
  <2>5. \A u \in Threads : job[u].pc = "mark" => job[u].model \in dir \cup disturbed'
    BY <1>5, <2>2 DEF StateInv
  <2>6. \A u \in Threads :
          (/\ At(u, "idle") <=> On(u, NoModel)
           /\ At(u, "rmtree") \/ At(u, "rmstate") => u = Loop
           /\ At(u, "mark") => u # Loop /\ job[u].model \in dir \cup disturbed)'
    BY <1>4, <1>5, <2>5, RestingIsJob DEF RemoveState, StateInv
  <2>7. QED
    BY <1>4, <1>5, <2>3, <2>4, <2>6 DEF RemoveState, StateInv
<1>6. CASE DeleteFails
  <2>1. TypeOK'
    BY <1>0, <1>1, <1>4, <1>6 DEF DeleteFails, TypeOK
  <2>2. StateNeedsModel'
    BY <1>6 DEF DeleteFails, StateInv, StateNeedsModel
  <2>3. \A u \in Threads :
          (/\ At(u, "idle") <=> On(u, NoModel)
           /\ At(u, "rmtree") \/ At(u, "rmstate") => u = Loop
           /\ At(u, "mark") => u # Loop /\ job[u].model \in dir \cup disturbed)'
    BY <1>4, <1>6, RestingIsJob DEF DeleteFails, StateInv
  <2>4. QED
    BY <1>4, <1>6, <2>1, <2>2, <2>3 DEF DeleteFails, StateInv
<1>7. QED
  BY <1>2, <1>3, <1>5, <1>6 DEF DeleteStep

LEMMA RestartKeeps ==
  ASSUME StateInv, ProcessRestart
  PROVE  StateInv'
<1> USE DEF At, On, Deleting, Company
<1>0. TypeOK /\ Loop # Runtime
  BY CacheAssumption DEF StateInv
<1>1. \A u \in Threads : job'[u] = IF u = Runtime THEN job[u] ELSE Resting
  BY DEF ProcessRestart
<1>2. job' \in [Threads -> Jobs]
  BY <1>0, RestingIsJob DEF ProcessRestart, TypeOK
<1>3. disturbed \subseteq disturbed' /\ disturbed' \subseteq Models
      /\ \A m \in Models : Deleting(m) => m \in disturbed'
  BY <1>0 DEF ProcessRestart, TypeOK
<1>4. TypeOK'
  BY <1>0, <1>2, <1>3 DEF ProcessRestart, TypeOK
<1>5. StateNeedsModel'
  BY <1>0, <1>3 DEF ProcessRestart, StateInv, StateNeedsModel, TypeOK
<1>6. \A m \in Models : ~Deleting(m)'
  BY <1>0, <1>1, LoopIsThread, RestingIsJob, FileIsNoModel
<1>7. \A u \in Threads :
        (/\ At(u, "idle") <=> On(u, NoModel)
         /\ At(u, "rmtree") \/ At(u, "rmstate") => u = Loop
         /\ At(u, "mark") => u # Loop /\ job[u].model \in dir \cup disturbed)'
  BY <1>1, <1>3, RestingIsJob DEF ProcessRestart, StateInv
<1>8. QED
  BY <1>4, <1>5, <1>6, <1>7 DEF StateInv

-----------------------------------------------------------------------------
(* The theorems.                                                           *)

LEMMA InitStateInv == Init => StateInv
BY RestingIsJob, FileIsNoModel
   DEF Init, StateInv, TypeOK, StateNeedsModel, At, On, Deleting, Company, Entries

LEMMA NextKeeps ==
  ASSUME StateInv, [Next]_vars
  PROVE  StateInv'
<1>1. CASE \E w \in Workers : PreloadStep(w)
  BY <1>1, PreloadKeeps
<1>2. CASE \E w \in Workers, m \in Models : PreloadCommand(w, m)
  BY <1>2, Begins, LoopIsThread, CacheAssumption DEF PreloadCommand
<1>3. CASE \E m \in Models : ServeModel(m)
  BY <1>3, Begins, LoopIsThread, CacheAssumption DEF ServeModel
<1>4. CASE \E m \in Models : DeleteCommand(m)
  BY <1>4, DeleteCommandKeeps
<1>5. CASE \E m \in Models : UpdateMetadata(m)
  BY <1>5 DEF UpdateMetadata, StateInv, TypeOK, StateNeedsModel, At, On, Deleting, Company
<1>6. CASE Download(Runtime)
  BY <1>6, DownloadKeeps, LoopIsThread, CacheAssumption
<1>7. CASE DeleteStep
  BY <1>7, DeleteKeeps
<1>8. CASE ProcessRestart
  BY <1>8, RestartKeeps
<1>9. CASE UNCHANGED vars
  BY <1>9 DEF vars, StateInv, TypeOK, StateNeedsModel, At, On, Deleting, Company
<1>10. QED
  BY <1>1, <1>2, <1>3, <1>4, <1>5, <1>6, <1>7, <1>8, <1>9 DEF Next

\* The invariant holds in every state.
THEOREM StateInvariant == Spec => []StateInv
BY InitStateInv, NextKeeps, PTL DEF Spec

\* Whatever overlaps and wherever a delete is cut, no marker or metadata of a
\* model without a directory is left by an undisturbed delete.
THEOREM NoOrphans == Spec => []StateNeedsModel
<1>1. StateInv => StateNeedsModel
  BY DEF StateInv
<1>2. QED
  BY StateInvariant, <1>1, PTL

-----------------------------------------------------------------------------
(* The order of a delete.                                                  *)

\* A delete that has come to the state has removed the directory; it is there
\* again only if another thread made it beside the delete.
DirectoryGone == At(Loop, "rmstate") => job[Loop].model \notin dir \ disturbed

\* What a step of another thread leaves to the delete: its record, the state
\* of the models, and no new directory but of a model at work on.
BesideDelete ==
  /\ job'[Loop] = job[Loop]
  /\ disturbed \subseteq disturbed'
  /\ marker \subseteq marker' /\ meta \subseteq meta'
  /\ \A m \in dir' \ dir : Company(m)

LEMMA DownloadIsBeside ==
  ASSUME TypeOK, NEW t \in Threads \ {Loop}, Download(t)
  PROVE  BesideDelete
BY LoopIsThread
   DEF Download, FetchBegin, FetchEnd, DownloadFails, DownloadReturns, Goto, Ends,
       BesideDelete, Company, On, TypeOK

LEMMA PreloadIsBeside ==
  ASSUME TypeOK, NEW w \in Workers, PreloadStep(w)
  PROVE  BesideDelete
<1>1. w \in Threads \ {Loop} /\ Loop \in Threads
  BY LoopIsThread, CacheAssumption
<1>2. CASE Download(w)
  BY <1>1, <1>2, DownloadIsBeside
<1>3. CASE PreloadScan(w) \/ Rescan(w) \/ WriteMarker(w)
  BY <1>1, <1>3 DEF PreloadScan, Rescan, WriteMarker, Goto, Ends, BesideDelete, TypeOK
<1>4. QED
  BY <1>2, <1>3 DEF PreloadStep

LEMMA BeginIsBeside ==
  ASSUME TypeOK, NEW m \in Models,
         (\E w \in Workers : PreloadCommand(w, m)) \/ ServeModel(m)
  PROVE  BesideDelete
BY LoopIsThread, CacheAssumption DEF PreloadCommand, ServeModel, Begin, BesideDelete, TypeOK

\* Every step is one of another thread, of the delete, or of neither.
LEMMA StepKinds ==
  ASSUME TypeOK, Next
  PROVE  \/ BesideDelete
         \/ \E m \in Models : DeleteCommand(m) \/ UpdateMetadata(m)
         \/ DeleteStep
         \/ ProcessRestart
<1>1. CASE \E w \in Workers : PreloadStep(w)
  BY <1>1, PreloadIsBeside
<1>2. CASE \E m \in Models : (\E w \in Workers : PreloadCommand(w, m)) \/ ServeModel(m)
  BY <1>2, BeginIsBeside
<1>3. CASE Download(Runtime)
  BY <1>3, DownloadIsBeside, LoopIsThread, CacheAssumption
<1>4. QED
  BY <1>1, <1>2, <1>3 DEF Next

LEMMA DirectoryGoneKept ==
  ASSUME StateInv, DirectoryGone, [Next]_vars
  PROVE  DirectoryGone'
<1> USE DEF At, DirectoryGone
<1>0. TypeOK
  BY DEF StateInv
<1>1. CASE BesideDelete
  <2> SUFFICES ASSUME job[Loop].pc = "rmstate", job[Loop].model \in dir' \ dir
               PROVE  job[Loop].model \in disturbed
    BY <1>1 DEF BesideDelete
  <2>1. Company(job[Loop].model) /\ Deleting(job[Loop].model)
    BY <1>1 DEF BesideDelete, Deleting, On
  <2>2. job[Loop] \in Jobs /\ job[Loop].model # NoModel
    BY <1>0, LoopIsThread DEF TypeOK, StateInv, On
  <2>3. QED
    BY <2>1, <2>2 DEF StateInv, Jobs
<1>2. CASE \E m \in Models : DeleteCommand(m) \/ UpdateMetadata(m)
  BY <1>2, LoopIsThread DEF DeleteCommand, UpdateMetadata, Resting
<1>3. CASE DeleteStep
  <2>1. CASE \E f \in Files : RemoveEntry(f)
    BY <2>1 DEF RemoveEntry
  <2>2. CASE RemoveDirectory
    <3>1. job'[Loop].model = job[Loop].model
      BY <1>0, <2>2, LoopIsThread DEF RemoveDirectory, Goto, TypeOK, Jobs
    <3>2. QED
      BY <2>2, <3>1 DEF RemoveDirectory
  <2>3. CASE RemoveState \/ DeleteFails
    BY <1>0, <2>3, LoopIsThread, RestingIsJob DEF RemoveState, DeleteFails, Ends, TypeOK
  <2>4. QED
    BY <1>3, <2>1, <2>2, <2>3 DEF DeleteStep
<1>4. CASE ProcessRestart
  BY <1>4, LoopIsThread, RestingIsJob, CacheAssumption DEF ProcessRestart
<1>5. CASE UNCHANGED vars
  BY <1>5 DEF vars
<1>6. QED
  BY <1>0, <1>1, <1>2, <1>3, <1>4, <1>5, StepKinds

\* No step drops the marker or the metadata of a model that has a directory
\* and whose delete was neither cut short nor had company.
THEOREM StateIsLast == Spec => StateGoesLast
<1>1. Init => DirectoryGone
  BY LoopIsThread, RestingIsJob DEF Init, DirectoryGone, At
<1>2. StateInv /\ DirectoryGone /\ [Next]_vars
        => [\A m \in Models : m \in dir /\ m \notin disturbed
              => /\ m \in marker => m \in marker'
                 /\ m \in meta => m \in meta']_vars
  <2> SUFFICES ASSUME StateInv, DirectoryGone, Next, NEW m \in dir, m \notin disturbed
               PROVE  (m \in marker => m \in marker') /\ (m \in meta => m \in meta')
    OBVIOUS
  <2>1. CASE BesideDelete
    BY <2>1 DEF BesideDelete
  <2>2. CASE \E n \in Models : DeleteCommand(n) \/ UpdateMetadata(n)
    BY <2>2 DEF DeleteCommand, UpdateMetadata
  <2>3. CASE DeleteStep
    BY <2>3 DEF DeleteStep, RemoveEntry, RemoveDirectory, RemoveState, DeleteFails, DirectoryGone
  <2>4. CASE ProcessRestart
    BY <2>4 DEF ProcessRestart
  <2>5. QED
    BY <2>1, <2>2, <2>3, <2>4, StepKinds DEF StateInv
<1>3. QED
  BY StateInvariant, DirectoryGoneKept, <1>1, <1>2, PTL DEF Spec, StateGoesLast

-----------------------------------------------------------------------------
(* What a preload has downloaded.                                          *)

\* A preload that no delete has run beside is beside none now, and finds the
\* model whole from the return of its download to its marker.
WholeFor(w) ==
  /\ job[w].own => At(w, "mark")
  /\ job[w].alone /\ ~At(w, "idle") => ~Deleting(job[w].model)
  /\ job[w].alone /\ (job[w].own \/ At(w, "rescan")) => Whole(job[w].model)

\* Only a delete of the model makes it less than whole.
LEMMA WholeStays ==
  ASSUME StateInv, Next, NEW m \in Models, Whole(m), ~Deleting(m)
  PROVE  Whole(m)'
<1>0. TypeOK /\ Loop \in Threads
  BY LoopIsThread DEF StateInv
<1> SUFFICES m \in dir' /\ \A f \in Files : tree'[m][f] = "present"
  BY DEF Whole, Present
<1>1. m \in dir /\ \A f \in Files : tree[m][f] = "present"
  BY DEF Whole, Present
<1>2. ASSUME NEW t \in Threads, Download(t)
      PROVE  m \in dir' /\ \A f \in Files : tree'[m][f] = "present"
  <2>1. CASE \E f \in Files : FetchBegin(t, f)
    BY <1>0, <1>1, <2>1 DEF FetchBegin, Present, TypeOK
  <2>2. CASE \E f \in Files : FetchEnd(t, f)
    BY <1>0, <1>1, <2>2 DEF FetchEnd, TypeOK
  <2>3. CASE DownloadFails(t) \/ DownloadReturns(t)
    BY <1>1, <2>3 DEF DownloadFails, DownloadReturns
  <2>4. QED
    BY <1>2, <2>1, <2>2, <2>3 DEF Download
<1>3. CASE \E w \in Workers : PreloadStep(w) \/ \E n \in Models : PreloadCommand(w, n)
  BY <1>1, <1>2, <1>3, LoopIsThread
     DEF PreloadStep, PreloadScan, Rescan, WriteMarker, PreloadCommand
<1>4. CASE \E n \in Models : ServeModel(n) \/ DeleteCommand(n) \/ UpdateMetadata(n)
  BY <1>1, <1>4 DEF ServeModel, DeleteCommand, UpdateMetadata
<1>5. CASE Download(Runtime)
  BY <1>2, <1>5, LoopIsThread
<1>6. CASE DeleteStep
  BY <1>0, <1>1, <1>6
     DEF DeleteStep, RemoveEntry, RemoveDirectory, RemoveState, DeleteFails, Deleting, On, TypeOK
<1>7. CASE ProcessRestart
  BY <1>1, <1>7 DEF ProcessRestart
<1>8. QED
  BY <1>3, <1>4, <1>5, <1>6, <1>7 DEF Next

LEMMA WholeAtRest ==
  ASSUME NEW w, job'[w] = Resting
  PROVE  WholeFor(w)'
BY DEF WholeFor, Resting, At

\* A step that leaves the preload alone and begins no delete.
LEMMA WholeBeside ==
  ASSUME StateInv, Next, NEW w \in Workers, WholeFor(w), job'[w] = job[w],
         job'[Loop].model \in {job[Loop].model, NoModel}
  PROVE  WholeFor(w)'
<1>1. /\ job[w] \in Jobs
      /\ At(w, "idle") <=> job[w].model = NoModel
  BY LoopIsThread DEF StateInv, TypeOK, On
<1>2. job[w].own \/ At(w, "rescan") => ~At(w, "idle")
  BY DEF WholeFor, At
<1>3. ~At(w, "idle") => job[w].model \in Models
  BY <1>1 DEF Jobs
<1>4. ~At(w, "idle") /\ ~Deleting(job[w].model) => ~Deleting(job[w].model)'
  BY <1>1 DEF Deleting, On
<1>5. job[w].alone /\ (job[w].own \/ At(w, "rescan")) => Whole(job[w].model)'
  BY <1>2, <1>3, WholeStays DEF WholeFor
<1>6. QED
  BY <1>2, <1>4, <1>5 DEF WholeFor, At, Whole, Present

\* The preload's own steps.
LEMMA WholeAlong ==
  ASSUME StateInv, NEW w \in Workers, WholeFor(w), PreloadStep(w)
  PROVE  WholeFor(w)'
<1>0. /\ TypeOK /\ Next
      /\ w \in Threads /\ job[w] \in Jobs /\ Loop \in Threads /\ w # Loop
  BY LoopIsThread, CacheAssumption DEF StateInv, TypeOK, Next
<1>1. CASE PreloadScan(w)
  <2>1. /\ job'[w].own = job[w].own /\ job'[w].alone = job[w].alone
        /\ job'[w].model = job[w].model /\ job'[w].pc \in {"mark", "fetch"}
        /\ job'[Loop] = job[Loop]
    BY <1>0, <1>1 DEF PreloadScan, Goto, TypeOK, Jobs
  <2>2. ~job[w].own /\ ~At(w, "idle")
    BY <1>1 DEF PreloadScan, WholeFor, At
  <2>3. QED
    BY <2>1, <2>2 DEF WholeFor, At, Deleting, On
<1>2. CASE \E f \in Files : FetchBegin(w, f) \/ FetchEnd(w, f)
  <2>1. /\ job'[w].own = job[w].own /\ job'[w].alone = job[w].alone
        /\ job'[w].model = job[w].model /\ job'[w].pc = "fetch"
        /\ job'[Loop] = job[Loop]
    BY <1>0, <1>2 DEF FetchBegin, FetchEnd, TypeOK, Jobs, At
  <2>2. ~job[w].own /\ ~At(w, "idle")
    BY <1>2 DEF FetchBegin, FetchEnd, WholeFor, At
  <2>3. QED
    BY <2>1, <2>2 DEF WholeFor, At, Deleting, On
<1>3. CASE DownloadFails(w) \/ WriteMarker(w)
  BY <1>0, <1>3, WholeAtRest DEF DownloadFails, WriteMarker, Ends, TypeOK
<1>4. CASE DownloadReturns(w)
  <2>1. CASE job[w].op = "preload"
    <3>1. /\ job'[w].own = job[w].own /\ job'[w].alone = job[w].alone
          /\ job'[w].model = job[w].model /\ job'[w].pc = "rescan"
          /\ job'[Loop] = job[Loop]
      BY <1>0, <1>4, <2>1 DEF DownloadReturns, Goto, TypeOK, Jobs
    <3>2. Whole(job[w].model) /\ ~job[w].own /\ ~At(w, "idle") /\ UNCHANGED <<dir, tree>>
      BY <1>4 DEF DownloadReturns, WholeFor, At
    <3>3. QED
      BY <3>1, <3>2 DEF WholeFor, At, Deleting, On, Whole, Present
  <2>2. CASE job[w].op # "preload"
    BY <1>0, <1>4, <2>2, WholeAtRest DEF DownloadReturns, Ends, TypeOK
  <2>3. QED
    BY <2>1, <2>2
<1>5. CASE Rescan(w)
  <2>1. CASE CacheStatus(job[w].model) = "cached_on_disk"
    <3> DEFINE r == [job[w] EXCEPT !.pc = "mark", !.own = TRUE]
    <3>a. job' = [job EXCEPT ![w] = r]
      BY <1>5, <2>1 DEF Rescan
    <3>b. r.alone = job[w].alone /\ r.model = job[w].model /\ r.pc = "mark"
      BY <1>0 DEF Jobs
    <3> HIDE DEF r
    <3>1. /\ job'[w].alone = job[w].alone
          /\ job'[w].model = job[w].model /\ job'[w].pc = "mark"
          /\ job'[Loop] = job[Loop]
      BY <1>0, <3>a, <3>b DEF TypeOK
    <3>2. At(w, "rescan") /\ ~At(w, "idle") /\ UNCHANGED <<dir, tree>>
      BY <1>5 DEF Rescan, At
    <3>3. QED
      BY <3>1, <3>2 DEF WholeFor, At, Deleting, On, Whole, Present
  <2>2. CASE CacheStatus(job[w].model) # "cached_on_disk"
    BY <1>0, <1>5, <2>2, WholeAtRest DEF Rescan, Ends, TypeOK
  <2>3. QED
    BY <2>1, <2>2
<1>6. QED
  BY <1>1, <1>2, <1>3, <1>4, <1>5 DEF PreloadStep, Download

LEMMA WholeKept ==
  ASSUME StateInv, NEW w \in Workers, WholeFor(w), [Next]_vars
  PROVE  WholeFor(w)'
<1>0. /\ TypeOK /\ w \in Threads /\ job[w] \in Jobs
      /\ Loop \in Threads /\ w # Loop /\ w # Runtime /\ Runtime \in Threads
  BY LoopIsThread, CacheAssumption DEF StateInv, TypeOK
<1>1. CASE \E u \in Workers : PreloadStep(u)
  <2> PICK u \in Workers : PreloadStep(u)
    BY <1>1
  <2>1. CASE u = w
    BY <2>1, WholeAlong
  <2>2. CASE u # w
    <3>1. job'[w] = job[w] /\ job'[Loop] = job[Loop]
      BY <1>0, <2>2, CacheAssumption
         DEF PreloadStep, PreloadScan, Download, FetchBegin, FetchEnd, DownloadFails,
             DownloadReturns, Rescan, WriteMarker, Goto, Ends, TypeOK
    <3>2. QED
      BY <3>1, WholeBeside DEF Next
  <2>3. QED
    BY <2>1, <2>2
<1>2. CASE \E u \in Workers, m \in Models : PreloadCommand(u, m)
  <2> PICK u \in Workers, m \in Models : PreloadCommand(u, m)
    BY <1>2
  <2>1. CASE u = w
    BY <1>0, <2>1 DEF PreloadCommand, Begin, WholeFor, At, Deleting, On, Resting, TypeOK
  <2>2. CASE u # w
    <3>1. job'[w] = job[w] /\ job'[Loop] = job[Loop]
      BY <1>0, <2>2, CacheAssumption DEF PreloadCommand, Begin, TypeOK
    <3>2. QED
      BY <3>1, WholeBeside DEF Next
  <2>3. QED
    BY <2>1, <2>2
<1>3. CASE Download(Runtime) \/ \E m \in Models : ServeModel(m) \/ UpdateMetadata(m)
  <2>1. job'[w] = job[w] /\ job'[Loop] = job[Loop]
    BY <1>0, <1>3, CacheAssumption
       DEF ServeModel, UpdateMetadata, Begin, Download, FetchBegin, FetchEnd, DownloadFails,
           DownloadReturns, Goto, Ends, TypeOK
  <2>2. QED
    BY <1>3, <2>1, WholeBeside DEF Next
<1>4. CASE \E m \in Models : DeleteCommand(m)
  <2> PICK m \in Models : DeleteCommand(m)
    BY <1>4
  <2>1. job'[Loop].model = m /\ UNCHANGED <<dir, tree>>
    BY <1>0 DEF DeleteCommand, Resting
  <2>2. CASE job[w].model = m
    <3>1. job'[w].alone = FALSE /\ job'[w].own = job[w].own /\ job'[w].pc = job[w].pc
      BY <1>0, <2>2 DEF DeleteCommand, On, Jobs
    <3>2. QED
      BY <3>1 DEF WholeFor, At
  <2>3. CASE job[w].model # m
    <3>1. job'[w] = job[w]
      BY <1>0, <2>3 DEF DeleteCommand, On
    <3>2. QED
      BY <2>1, <2>3, <3>1 DEF WholeFor, At, Deleting, On, Whole, Present
  <2>4. QED
    BY <2>2, <2>3
<1>5. CASE DeleteStep
  <2>1. job'[w] = job[w]
    BY <1>0, <1>5
       DEF DeleteStep, RemoveEntry, RemoveDirectory, RemoveState, DeleteFails, Goto, Ends, TypeOK
  <2>2. job'[Loop].model \in {job[Loop].model, NoModel}
    BY <1>0, <1>5, RestingIsJob
       DEF DeleteStep, RemoveEntry, RemoveDirectory, RemoveState, DeleteFails, Goto, Ends,
           TypeOK, Jobs
  <2>3. QED
    BY <1>5, <2>1, <2>2, WholeBeside DEF Next
<1>6. CASE ProcessRestart
  BY <1>0, <1>6, WholeAtRest DEF ProcessRestart
<1>7. CASE UNCHANGED vars
  BY <1>7 DEF vars, WholeFor, At, Deleting, On, Whole, Present
<1>8. QED
  BY <1>1, <1>2, <1>3, <1>4, <1>5, <1>6, <1>7 DEF Next

WholeInv == \A w \in Workers : WholeFor(w)

\* A preload that has downloaded a model beside no delete marks a whole one,
\* whatever other downloads, restarts and earlier partial deletes there are.
THEOREM DownloadsAreWhole == Spec => []DownloadedIsWhole
<1>1. Init => WholeInv
  BY LoopIsThread DEF Init, WholeInv, WholeFor, At, Resting
<1>2. StateInv /\ WholeInv /\ [Next]_vars => WholeInv'
  BY WholeKept DEF WholeInv
<1>3. WholeInv => DownloadedIsWhole
  BY DEF WholeInv, WholeFor, DownloadedIsWhole
<1>4. QED
  BY StateInvariant, <1>1, <1>2, <1>3, PTL DEF Spec
=============================================================================
