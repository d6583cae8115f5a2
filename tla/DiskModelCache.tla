---------------------------- MODULE DiskModelCache ----------------------------
(***************************************************************************)
(* The models on disk (lmrs/model_cache.py): preload on job workers,       *)
(* delete and update_metadata on the event loop, beside a runtime that     *)
(* downloads into the same hub cache.                                      *)
(*                                                                         *)
(* LMRS reads what a model is from the files found under its directory, it *)
(* keeps no record of its own.  The hub client (external) fetches the      *)
(* files of a repository in any order, several at once, each into a        *)
(* partial blob that becomes a file of the snapshot when it is complete;   *)
(* it returns once it has them all.  A scan is one step: the steps of a    *)
(* thread are split where it acts on what it scanned.                      *)
(***************************************************************************)
EXTENDS FiniteSets

CONSTANTS
  Models,
  Shards,           \* weight files of a repository
  Index,            \* the index that names its shards
  Others,           \* its configuration and tokenizer files
  Loop, Workers,    \* the event-loop thread and the threads of the job queue
  Runtime,          \* the runtime's own downloader
  NoModel

ASSUME CacheAssumption ==
  /\ Shards # {}
  /\ Index \notin Shards \cup Others
  /\ Loop \notin Workers \cup {Runtime} /\ Runtime \notin Workers
  /\ NoModel \notin Models

VARIABLES
  dir,        \* models that have a repository directory
  tree,       \* the entry of each file under it
  marker,     \* models with a readiness marker
  meta,       \* models with stored operator metadata
  job,        \* what each thread is doing
  disturbed   \* models whose delete was cut short or had company (history)

vars == <<dir, tree, marker, meta, job, disturbed>>

Threads == Workers \cup {Loop, Runtime}
Files == Shards \cup {Index} \cup Others

\* "partial": an .incomplete blob; "broken": a link to a blob that is gone.
Entries == {"absent", "partial", "present", "broken"}

Jobs == [op : {"none", "preload", "serve", "delete"}, model : Models \cup {NoModel},
         pc : {"idle", "scan", "fetch", "rescan", "mark", "rmtree", "rmstate"},
         fetching : SUBSET Files,
         own : BOOLEAN,    \* it has downloaded the model itself
         alone : BOOLEAN]  \* no delete of the model has run beside it

Resting == [op |-> "none", model |-> NoModel, pc |-> "idle", fetching |-> {},
            own |-> FALSE, alone |-> TRUE]

TypeOK ==
  /\ dir \in SUBSET Models /\ marker \in SUBSET Models
  /\ meta \in SUBSET Models /\ disturbed \in SUBSET Models
  /\ tree \in [Models -> [Files -> Entries]]
  /\ job \in [Threads -> Jobs]

-----------------------------------------------------------------------------
(* What a scan finds.                                                      *)

Present(m) == {f \in Files : tree[m][f] = "present"}
Incomplete(m) == {f \in Files : tree[m][f] = "partial"}
Broken(m) == {f \in Files : tree[m][f] = "broken"}

\* Only an index says which shards there are.
MissingShards(m) == IF Index \in Present(m) THEN Shards \ Present(m) ELSE {}

CacheStatus(m) ==
  IF m \notin dir THEN "not_cached"
  ELSE IF Incomplete(m) # {} THEN "caching"
  ELSE IF Present(m) \cap Shards # {} /\ Broken(m) = {} /\ MissingShards(m) = {}
    THEN "cached_on_disk" ELSE "failed"

Whole(m) == m \in dir /\ Present(m) = Files

-----------------------------------------------------------------------------
At(t, pc) == job[t].pc = pc

On(t, m) == job[t].model = m

Deleting(m) == On(Loop, m)

\* Another thread is at work on m.
Company(m) == \E t \in Threads \ {Loop} : On(t, m)

Begin(t, op, m, pc) ==
  /\ At(t, "idle")
  /\ job' = [job EXCEPT ![t] = [Resting EXCEPT !.op = op, !.model = m, !.pc = pc,
                                               !.alone = ~Deleting(m)]]
  /\ disturbed' = IF Deleting(m) THEN disturbed \cup {m} ELSE disturbed

Goto(t, pc) == job' = [job EXCEPT ![t].pc = pc]

Ends(t) == job' = [job EXCEPT ![t] = Resting]

-----------------------------------------------------------------------------
(* preload, and the download in it.                                        *)

PreloadCommand(w, m) ==
  /\ Begin(w, "preload", m, "scan")
  /\ UNCHANGED <<dir, tree, marker, meta>>

\* Mutant: a model is marked without looking at what is on disk.
PreloadUnscanned(w) ==
  /\ At(w, "scan")
  /\ Goto(w, "mark") \/ Goto(w, "fetch")
  /\ UNCHANGED <<dir, tree, marker, meta, disturbed>>

\* A model that scans as complete is not downloaded.
PreloadScan(w) ==
  /\ At(w, "scan")
  /\ Goto(w, IF CacheStatus(job[w].model) = "cached_on_disk" THEN "mark" ELSE "fetch")
  /\ UNCHANGED <<dir, tree, marker, meta, disturbed>>

\* The runtime starts to serve a model and fetches what it lacks.
ServeModel(m) ==
  /\ Begin(Runtime, "serve", m, "fetch")
  /\ UNCHANGED <<dir, tree, marker, meta>>

\* A partial blob is opened, the one a stopped download left included; a
\* lock keeps two downloads off one file.
FetchBegin(t, f) ==
  LET m == job[t].model
  IN /\ At(t, "fetch")
     /\ f \notin Present(m)
     /\ \A u \in Threads : On(u, m) => f \notin job[u].fetching
     /\ dir' = dir \cup {m}
     /\ tree' = [tree EXCEPT ![m] = [@ EXCEPT ![f] = "partial"]]
     /\ job' = [job EXCEPT ![t].fetching = @ \cup {f}]
     /\ UNCHANGED <<marker, meta, disturbed>>

\* A blob that was removed meanwhile cannot become a file.
FetchEnd(t, f) ==
  LET m == job[t].model
  IN /\ At(t, "fetch") /\ f \in job[t].fetching
     /\ tree[m][f] = "partial"
     /\ tree' = [tree EXCEPT ![m] = [@ EXCEPT ![f] = "present"]]
     /\ job' = [job EXCEPT ![t].fetching = @ \ {f}]
     /\ UNCHANGED <<dir, marker, meta, disturbed>>

\* Mutant: a download that raises is taken for one that returned.
DownloadFailsUnseen(t) ==
  /\ At(t, "fetch")
  /\ IF job[t].op = "preload" THEN Goto(t, "rescan") ELSE Ends(t)
  /\ UNCHANGED <<dir, tree, marker, meta, disturbed>>

\* The download raises, whatever it has fetched so far: the preload answers
\* MODEL_CACHE_PRELOAD_FAILED.
DownloadFails(t) ==
  /\ At(t, "fetch")
  /\ Ends(t)
  /\ UNCHANGED <<dir, tree, marker, meta, disturbed>>

DownloadReturns(t) ==
  /\ At(t, "fetch")
  /\ Whole(job[t].model)
  /\ IF job[t].op = "preload" THEN Goto(t, "rescan") ELSE Ends(t)
  /\ UNCHANGED <<dir, tree, marker, meta, disturbed>>

\* The answer reports what landed on disk, not what was requested.
Rescan(w) ==
  /\ At(w, "rescan")
  /\ IF CacheStatus(job[w].model) = "cached_on_disk"
       THEN job' = [job EXCEPT ![w] = [@ EXCEPT !.pc = "mark", !.own = TRUE]]
       ELSE Ends(w)
  /\ UNCHANGED <<dir, tree, marker, meta, disturbed>>

\* A marker that cannot be written does not fail the preload.
WriteMarker(w) ==
  /\ At(w, "mark")
  /\ marker' \in {marker, marker \cup {job[w].model}}
  /\ Ends(w)
  /\ UNCHANGED <<dir, tree, meta, disturbed>>

-----------------------------------------------------------------------------
(* delete and update_metadata.                                             *)

\* Mutant: the state of the model goes before its directory.
DeleteStateFirst(m) ==
  /\ At(Loop, "idle")
  /\ m \in dir
  /\ job' = [t \in Threads |->
               IF t = Loop THEN [Resting EXCEPT !.op = "delete", !.model = m, !.pc = "rmtree"]
               ELSE IF On(t, m) THEN [job[t] EXCEPT !.alone = FALSE]
               ELSE job[t]]
  /\ disturbed' = IF Company(m) THEN disturbed \cup {m} ELSE disturbed
  /\ marker' = marker \ {m}
  /\ meta' = meta \ {m}
  /\ UNCHANGED <<dir, tree>>

\* A model without a directory has no record: the delete answers
\* MODEL_NOT_CACHED and looks no further.
DeleteCommand(m) ==
  /\ At(Loop, "idle")
  /\ m \in dir
  /\ job' = [t \in Threads |->
               IF t = Loop THEN [Resting EXCEPT !.op = "delete", !.model = m, !.pc = "rmtree"]
               ELSE IF On(t, m) THEN [job[t] EXCEPT !.alone = FALSE]
               ELSE job[t]]
  /\ disturbed' = IF Company(m) THEN disturbed \cup {m} ELSE disturbed
  /\ UNCHANGED <<dir, tree, marker, meta>>

\* rmtree removes entry by entry; a link and its blob are two entries.
RemoveEntry(f) ==
  LET m == job[Loop].model
      left == IF tree[m][f] = "present" THEN {"absent", "broken"} ELSE {"absent"}
  IN /\ At(Loop, "rmtree")
     /\ tree[m][f] # "absent"
     /\ \E e \in left : tree' = [tree EXCEPT ![m] = [@ EXCEPT ![f] = e]]
     /\ UNCHANGED <<dir, marker, meta, job, disturbed>>

\* Mutant: the delete ends with the directory.
RemoveDirectoryOnly ==
  /\ At(Loop, "rmtree")
  /\ \A f \in Files : tree[job[Loop].model][f] = "absent"
  /\ dir' = dir \ {job[Loop].model}
  /\ Ends(Loop)
  /\ UNCHANGED <<tree, marker, meta, disturbed>>

RemoveDirectory ==
  /\ At(Loop, "rmtree")
  /\ \A f \in Files : tree[job[Loop].model][f] = "absent"
  /\ dir' = dir \ {job[Loop].model}
  /\ Goto(Loop, "rmstate")
  /\ UNCHANGED <<tree, marker, meta, disturbed>>

\* The LMRS state directory goes last.
RemoveState ==
  LET m == job[Loop].model
  IN /\ At(Loop, "rmstate")
     /\ marker' = marker \ {m}
     /\ meta' = meta \ {m}
     /\ disturbed' = IF Company(m) THEN disturbed ELSE disturbed \ {m}
     /\ Ends(Loop)
     /\ UNCHANGED <<dir, tree>>

\* An OSError ends the delete where it is: MODEL_CACHE_DELETE_FAILED.
DeleteFails ==
  /\ At(Loop, "rmtree") \/ At(Loop, "rmstate")
  /\ disturbed' = disturbed \cup {job[Loop].model}
  /\ Ends(Loop)
  /\ UNCHANGED <<dir, tree, marker, meta>>

UpdateMetadata(m) ==
  /\ At(Loop, "idle")
  /\ m \in dir
  /\ meta' = meta \cup {m}
  /\ UNCHANGED <<dir, tree, marker, job, disturbed>>

-----------------------------------------------------------------------------
(* The two processes stop and start again.                                 *)

ProcessRestart ==
  /\ job' = [t \in Threads |-> IF t = Runtime THEN job[t] ELSE Resting]
  /\ disturbed' = disturbed \cup {m \in Models : Deleting(m)}
  /\ UNCHANGED <<dir, tree, marker, meta>>

-----------------------------------------------------------------------------
Init ==
  /\ dir = {} /\ marker = {} /\ meta = {} /\ disturbed = {}
  /\ tree = [m \in Models |-> [f \in Files |-> "absent"]]
  /\ job = [t \in Threads |-> Resting]

Download(t) ==
  \/ \E f \in Files : FetchBegin(t, f) \/ FetchEnd(t, f)
  \/ DownloadFails(t) \/ DownloadReturns(t)

PreloadStep(w) == PreloadScan(w) \/ Download(w) \/ Rescan(w) \/ WriteMarker(w)

DeleteStep ==
  \/ \E f \in Files : RemoveEntry(f)
  \/ RemoveDirectory \/ RemoveState \/ DeleteFails

Next ==
  \/ \E w \in Workers : PreloadStep(w) \/ \E m \in Models : PreloadCommand(w, m)
  \/ \E m \in Models : ServeModel(m) \/ DeleteCommand(m) \/ UpdateMetadata(m)
  \/ Download(Runtime)
  \/ DeleteStep
  \/ ProcessRestart

Spec == Init /\ [][Next]_vars

-----------------------------------------------------------------------------
(* Properties.                                                             *)

\* A preload that has downloaded the model itself, and found it complete,
\* marks a model all of whose files are there: no other download, restart
\* of either process or earlier partial delete leaves it less.  A delete
\* beside it may.
DownloadedIsWhole ==
  \A w \in Workers : At(w, "mark") /\ job[w].own /\ job[w].alone => Whole(job[w].model)

\* No readiness marker or metadata is left of a model without a directory,
\* unless its delete was cut short or a preload ran beside it.
StateNeedsModel ==
  \A m \in (marker \cup meta) \ dir :
    m \in disturbed \/ (At(Loop, "rmstate") /\ On(Loop, m))

\* Its inductive strengthening: company is noticed as long as a delete runs,
\* and a marker is about to be written only of a model that has a directory
\* or whose delete had company.
StateInv ==
  /\ TypeOK
  /\ StateNeedsModel
  /\ \A m \in Models : Deleting(m) /\ Company(m) => m \in disturbed
  /\ \A t \in Threads :
       /\ At(t, "idle") <=> On(t, NoModel)
       /\ At(t, "rmtree") \/ At(t, "rmstate") => t = Loop
       /\ At(t, "mark") => t # Loop /\ job[t].model \in dir \cup disturbed

\* Marker and metadata are dropped only after the directory is gone, or a
\* download beside the delete has made it anew.
StateGoesLast ==
  [][\A m \in Models : m \in dir /\ m \notin disturbed
       => /\ m \in marker => m \in marker'
          /\ m \in meta => m \in meta']_vars

\* A model that is reported as cached while nobody is at work on it is a
\* model the runtime can load.
CachedIsWhole ==
  \A m \in Models : CacheStatus(m) = "cached_on_disk" /\ (\A t \in Threads : ~On(t, m))
    => Whole(m)
=============================================================================
