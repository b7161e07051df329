----------------------------- MODULE Projection -----------------------------
(***************************************************************************)
(* The disposable search index of a store (crates/core/src/index/ and      *)
(* vector.rs): sync reconciles its rows with the Markdown files one file   *)
(* at a time, reindex builds a new database and renames it over the old    *)
(* one, and the vector tables are rebuilt from the rows.  These operations *)
(* hold projection.lock; searches take no lock, and neither do the people, *)
(* tools and repository operations that change the files meanwhile.  gc    *)
(* and doctor --repair remove index files without that lock.               *)
(*                                                                         *)
(* Abstractions.  A record's projected columns, chunks and content hash    *)
(* are its text.  An invalid file and a file of another scope are the      *)
(* same.  Fingerprints are injective, so they are what they hash, and one  *)
(* is read in one step.  There is one embedding model.  SQLite's log       *)
(* (index.sqlite3-wal) is only known by the database its commits belong    *)
(* to.                                                                     *)
(***************************************************************************)
EXTENDS Naturals

CONSTANTS
    Procs,      \* threads and processes that write the index
    Paths,      \* record files, numbered in the order of their paths
    Ids, Texts,
    Ops,        \* the operations in use
    NoFile,     \* what a path without a file holds
    Invalid,    \* a file that is not a valid record of this store
    NoRow, NoVectors, NoDb, NoJob, NoProc

VARIABLES
    files,      \* the canonical records: what each path holds
    index,      \* the database at index.sqlite3
    log,        \* the commits in index.sqlite3-wal: "none", of the "own" index,
                \* or of a "foreign" one that was replaced
    temps,      \* the Procs whose temporary database still has its name
    private,    \* a database only p reaches: being built, or unlinked by gc
    lock,       \* the holder of projection.lock
    pc,         \* where each process is in its operation
    job,        \* what that operation remembers
    calm        \* no file has changed since the operation listed the files

indexed == <<index, log, temps, private>>
vars == <<files, indexed, lock, pc, job, calm>>

Contents == [id : Ids, text : Texts]
Files == [Paths -> Contents \cup {NoFile, Invalid}]
Rows == [Ids -> [path : Paths, text : Texts] \cup {NoRow}]

(* A vector index: what was embedded, and the two fingerprints it is       *)
(* trusted by.                                                             *)
Vectors == [docs : Rows, canonical : Files, projection : Rows]

(* A database.  orphan: a vector table exists under the next free number.  *)
Databases == [rows : Rows, active : Vectors \cup {NoVectors}, orphan : BOOLEAN]

NoRows == [i \in Ids |-> NoRow]
EmptyDatabase == [rows |-> NoRows, active |-> NoVectors, orphan |-> FALSE]

OnIndex == {"sync", "vectors"}
Rebuilds == {"reindex", "semantic reindex"}
Operations == OnIndex \cup Rebuilds

Jobs == [op : Operations, known : Rows, listed : SUBSET Paths, todo : SUBSET Paths,
         ids : SUBSET Ids, complete : BOOLEAN, vectors : Vectors \cup {NoVectors}]

PCs == {"idle", "list", "visit", "sweep", "synced", "read", "table",
        "register", "activate", "finished", "failed", "sidecars"}

ASSUME ProjectionAssumption ==
    /\ Paths \subseteq Nat
    /\ Ops \subseteq Operations
    /\ NoFile \notin Contents /\ Invalid \notin Contents /\ NoFile # Invalid
    /\ NoRow \notin [path : Paths, text : Texts]
    /\ NoVectors \notin Vectors
    /\ NoDb \notin Databases
    /\ NoJob \notin Jobs
    /\ NoProc \notin Procs

TypeOK ==
    /\ files \in Files
    /\ index \in Databases \cup {NoDb}
    /\ log \in {"none", "own", "foreign"}
    /\ temps \subseteq Procs
    /\ private \in [Procs -> Databases \cup {NoDb}]
    /\ lock \in Procs \cup {NoProc}
    /\ pc \in [Procs -> PCs]
    /\ job \in [Procs -> Jobs \cup {NoJob}]
    /\ \A p \in Procs : (pc[p] = "idle" <=> job[p] = NoJob) /\ (pc[p] = "idle" <=> lock # p)
    /\ calm \in BOOLEAN

Init ==
    /\ files \in Files
    /\ index = NoDb
    /\ log = "none"
    /\ temps = {}
    /\ private = [p \in Procs |-> NoDb]
    /\ lock = NoProc
    /\ pc = [p \in Procs |-> "idle"]
    /\ job = [p \in Procs |-> NoJob]
    /\ calm = TRUE

-----------------------------------------------------------------------------
(* Rows and databases.                                                     *)

First(S) == CHOOSE q \in S : \A r \in S : q <= r

IdsAt(rows, q) == {i \in Ids : rows[i] # NoRow /\ rows[i].path = q}

(* delete_projection_by_path. *)
WithoutPath(rows, q) == [i \in Ids |-> IF i \in IdsAt(rows, q) THEN NoRow ELSE rows[i]]

(* Mutant of WithRecord: a row of this id that is there is left alone. *)
WithNewRecord(rows, q, r) ==
    IF rows[r.id] = NoRow THEN [rows EXCEPT ![r.id] = [path |-> q, text |-> r.text]] ELSE rows

(* project_record: the rows of this id go, and the new one comes. *)
WithRecord(rows, q, r) == [rows EXCEPT ![r.id] = [path |-> q, text |-> r.text]]

(* The rows an index of the present files has: the first file of an id.    *)
Projected ==
    [i \in Ids |->
        LET of == {q \in Paths : files[q] \in Contents /\ files[q].id = i}
        IN  IF of = {} THEN NoRow
            ELSE [path |-> First(of), text |-> files[First(of)].text]]

(* The database p has open. *)
Db(p) == IF private[p] = NoDb THEN index ELSE private[p]

(* One committed transaction of p. *)
Commit(p, db) ==
    IF private[p] = NoDb
    THEN index' = db /\ log' = "own" /\ UNCHANGED <<temps, private>>
    ELSE private' = [private EXCEPT ![p] = db] /\ UNCHANGED <<index, log, temps>>

CommitRows(p, rows) == Commit(p, [Db(p) EXCEPT !.rows = rows])

-----------------------------------------------------------------------------
(* Starting and ending an operation.                                       *)

NewJob(op) == [op |-> op, known |-> NoRows, listed |-> {}, todo |-> {}, ids |-> {},
               complete |-> TRUE, vectors |-> NoVectors]

(* Mutant of Start: the lock is taken without testing its holder. *)
StartWithoutLock(p, op) ==
    /\ pc[p] = "idle"
    /\ lock' = p
    /\ pc' = [pc EXCEPT ![p] = "list"]
    /\ job' = [job EXCEPT ![p] = NewJob(op)]
    /\ UNCHANGED <<files, calm>>

(* ProjectionLock::acquire does not wait: a held lock is IndexBusy. *)
Start(p, op) ==
    /\ pc[p] = "idle"
    /\ lock = NoProc
    /\ lock' = p
    /\ pc' = [pc EXCEPT ![p] = "list"]
    /\ job' = [job EXCEPT ![p] = NewJob(op)]
    /\ UNCHANGED <<files, calm>>

(* sync_store and rebuild_vector_index open the live index, or create it.  *)
(* What a database reads as beside a foreign log is not modelled.          *)
StartOnIndex(p) ==
    /\ \E op \in Ops \cap OnIndex : Start(p, op)
    /\ log # "foreign"
    /\ index' = IF index = NoDb THEN EmptyDatabase ELSE index
    /\ UNCHANGED <<log, temps, private>>

(* reindex_store, also as doctor --repair calls it. *)
StartReindex(p) ==
    /\ \E op \in Ops \cap Rebuilds : Start(p, op)
    /\ temps' = temps \cup {p}
    /\ private' = [private EXCEPT ![p] = EmptyDatabase]
    /\ UNCHANGED <<index, log>>

Release(p) ==
    /\ lock' = NoProc
    /\ pc' = [pc EXCEPT ![p] = "idle"]
    /\ job' = [job EXCEPT ![p] = NoJob]
    /\ private' = [private EXCEPT ![p] = NoDb]

(* The connection closes.  The last one to the index checkpoints its log   *)
(* and removes it; a search may still have the index open.                 *)
Close(p) ==
    /\ Release(p)
    /\ IF private[p] = NoDb /\ log = "own" THEN log' \in {"none", "own"} ELSE log' = log
    /\ temps' = temps \ {p}
    /\ UNCHANGED <<files, index, calm>>

(* The clean-up of a vector rebuild drops its table. *)
DropTable(p) ==
    /\ Commit(p, [Db(p) EXCEPT !.orphan = FALSE])
    /\ pc' = [pc EXCEPT ![p] = "failed"]
    /\ UNCHANGED <<files, lock, job, calm>>

(* The operation fails: an unreadable directory, a full disk, a model that *)
(* cannot embed a text.                                                    *)
Fail(p) ==
    \/ pc[p] \notin {"idle", "sidecars", "register"} /\ Close(p)
    \/ pc[p] = "register" /\ DropTable(p)

(* The process is killed: logs and temporary databases stay. *)
Crash(p) ==
    /\ pc[p] # "idle"
    /\ Release(p)
    /\ UNCHANGED <<files, index, log, temps, calm>>

-----------------------------------------------------------------------------
(* sync_canonical.                                                         *)

ListFiles(p) ==
    /\ pc[p] = "list"
    /\ LET listed == {q \in Paths : files[q] # NoFile}
       IN  job' = [job EXCEPT ![p].known = Db(p).rows, ![p].listed = listed, ![p].todo = listed]
    /\ pc' = [pc EXCEPT ![p] = "visit"]
    /\ calm' = TRUE
    /\ UNCHANGED <<files, indexed, lock>>

Visiting(p, q) == pc[p] = "visit" /\ job[p].todo # {} /\ q = First(job[p].todo)

(* Mutant of Usable: a second file of an id counts as well. *)
UsableAlone(p, q) == files[q] \in Contents

(* files[q] is the first valid file of its id. *)
Usable(p, q) == files[q] \in Contents /\ files[q].id \notin job[p].ids

Unchanged(p, q) == job[p].known[files[q].id] = [path |-> q, text |-> files[q].text]

(* Another id's row has this path: the path is UNIQUE. *)
Taken(p, q) == IdsAt(Db(p).rows, q) \ {files[q].id} # {}

(* An invalid, vanished or duplicate file loses its row. *)
VisitUnusable(p) ==
    \E q \in Paths :
        /\ Visiting(p, q)
        /\ ~ Usable(p, q)
        /\ IF IdsAt(Db(p).rows, q) = {} THEN UNCHANGED indexed
           ELSE CommitRows(p, WithoutPath(Db(p).rows, q))
        /\ job' = [job EXCEPT ![p].todo = @ \ {q}, ![p].complete = FALSE]
        /\ UNCHANGED <<files, lock, pc, calm>>

(* Mutant of VisitUnchanged: only the record id is compared. *)
VisitSameId(p) ==
    \E q \in Paths :
        /\ Visiting(p, q)
        /\ Usable(p, q)
        /\ job[p].known[files[q].id] # NoRow
        /\ job[p].known[files[q].id].path = q
        /\ job' = [job EXCEPT ![p].todo = @ \ {q}, ![p].ids = @ \cup {files[q].id}]
        /\ UNCHANGED <<files, indexed, lock, pc, calm>>

VisitUnchanged(p) ==
    \E q \in Paths :
        /\ Visiting(p, q)
        /\ Usable(p, q)
        /\ Unchanged(p, q)
        /\ job' = [job EXCEPT ![p].todo = @ \ {q}, ![p].ids = @ \cup {files[q].id}]
        /\ UNCHANGED <<files, indexed, lock, pc, calm>>

VisitChanged(p) ==
    \E q \in Paths :
        /\ Visiting(p, q)
        /\ Usable(p, q)
        /\ ~ Unchanged(p, q)
        /\ ~ Taken(p, q)
        /\ CommitRows(p, WithRecord(Db(p).rows, q, files[q]))
        /\ job' = [job EXCEPT ![p].todo = @ \ {q}, ![p].ids = @ \cup {files[q].id}]
        /\ UNCHANGED <<files, lock, pc, calm>>

(* The insertion breaks the UNIQUE constraint and the operation fails. *)
VisitTaken(p) ==
    \E q \in Paths :
        /\ Visiting(p, q)
        /\ Usable(p, q)
        /\ ~ Unchanged(p, q)
        /\ Taken(p, q)
        /\ Close(p)

(* Mutant of EndVisits: rows whose file is gone are not looked for. *)
EndVisitsAndKeep(p) ==
    /\ pc[p] = "visit"
    /\ job[p].todo = {}
    /\ pc' = [pc EXCEPT ![p] = "sweep"]
    /\ UNCHANGED <<files, indexed, lock, job, calm>>

EndVisits(p) ==
    /\ pc[p] = "visit"
    /\ job[p].todo = {}
    /\ job' = [job EXCEPT ![p].todo =
           {q \in Paths \ job[p].listed : IdsAt(job[p].known, q) # {}}]
    /\ pc' = [pc EXCEPT ![p] = "sweep"]
    /\ UNCHANGED <<files, indexed, lock, calm>>

(* A path that was projected before and is no longer listed. *)
Sweep(p) ==
    /\ pc[p] = "sweep"
    /\ job[p].todo # {}
    /\ LET q == First(job[p].todo)
       IN  /\ IF IdsAt(Db(p).rows, q) = {} THEN UNCHANGED indexed
              ELSE CommitRows(p, WithoutPath(Db(p).rows, q))
           /\ job' = [job EXCEPT ![p].todo = @ \ {q}]
    /\ UNCHANGED <<files, lock, pc, calm>>

EndSweep(p) ==
    /\ pc[p] = "sweep"
    /\ job[p].todo = {}
    /\ job' = [job EXCEPT ![p] = [NewJob(job[p].op) EXCEPT !.complete = job[p].complete]]
    /\ pc' = [pc EXCEPT ![p] = "synced"]
    /\ UNCHANGED <<files, indexed, lock, calm>>

(* sync_store returns its report, and rebuild_vector_index its error when  *)
(* a file was unusable.                                                    *)
FinishSync(p) ==
    /\ pc[p] = "synced"
    /\ job[p].op = "sync" \/ (job[p].op = "vectors" /\ ~ job[p].complete)
    /\ Close(p)

-----------------------------------------------------------------------------
(* rebuild_vectors.                                                        *)

WantsVectors(p) ==
    \/ job[p].op = "vectors" /\ job[p].complete
    \/ job[p].op = "semantic reindex"

(* The vector index of db passes for one of these files and these rows. *)
Fresh(db) == /\ db.active # NoVectors
             /\ db.active.canonical = files
             /\ db.active.projection = db.rows

KeepVectors(p) ==
    /\ pc[p] = "synced"
    /\ WantsVectors(p)
    /\ Fresh(Db(p))
    /\ pc' = [pc EXCEPT ![p] = "finished"]
    /\ UNCHANGED <<files, indexed, lock, job, calm>>

(* Mutant of Fingerprint: the second fingerprint is of the files as well. *)
FingerprintFiles(p) ==
    /\ pc[p] = "synced"
    /\ WantsVectors(p)
    /\ ~ Fresh(Db(p))
    /\ job' = [job EXCEPT ![p].vectors =
           [docs |-> NoRows, canonical |-> files, projection |-> Projected]]
    /\ pc' = [pc EXCEPT ![p] = "read"]
    /\ UNCHANGED <<files, indexed, lock, calm>>

(* Both fingerprints are taken before anything is embedded. *)
Fingerprint(p) ==
    /\ pc[p] = "synced"
    /\ WantsVectors(p)
    /\ ~ Fresh(Db(p))
    /\ job' = [job EXCEPT ![p].vectors =
           [docs |-> NoRows, canonical |-> files, projection |-> Db(p).rows]]
    /\ pc' = [pc EXCEPT ![p] = "read"]
    /\ UNCHANGED <<files, indexed, lock, calm>>

ReadDocuments(p) ==
    /\ pc[p] = "read"
    /\ job' = [job EXCEPT ![p].vectors.docs = Db(p).rows]
    /\ pc' = [pc EXCEPT ![p] = "table"]
    /\ UNCHANGED <<files, indexed, lock, calm>>

(* CREATE VIRTUAL TABLE under the next number. *)
CreateTable(p) ==
    /\ pc[p] = "table"
    /\ ~ Db(p).orphan
    /\ Commit(p, [Db(p) EXCEPT !.orphan = TRUE])
    /\ pc' = [pc EXCEPT ![p] = "register"]
    /\ UNCHANGED <<files, lock, job, calm>>

(* A process died between the table and its metadata: the rebuild fails. *)
DropOrphan(p) ==
    /\ pc[p] = "table"
    /\ Db(p).orphan
    /\ DropTable(p)

(* The inactive metadata row takes the number, so the table is no orphan.  *)
Register(p) ==
    /\ pc[p] = "register"
    /\ Commit(p, [Db(p) EXCEPT !.orphan = FALSE])
    /\ pc' = [pc EXCEPT ![p] = "activate"]
    /\ UNCHANGED <<files, lock, job, calm>>

(* The backfill is complete, and one transaction switches to it. *)
Activate(p) ==
    /\ pc[p] = "activate"
    /\ Commit(p, [Db(p) EXCEPT !.active = job[p].vectors])
    /\ pc' = [pc EXCEPT ![p] = "finished"]
    /\ UNCHANGED <<files, lock, job, calm>>

FinishVectors(p) ==
    /\ \/ pc[p] = "finished" /\ job[p].op = "vectors"
       \/ pc[p] = "failed"
    /\ Close(p)

-----------------------------------------------------------------------------
(* reindex_store_with_embedder switches to what it has built.              *)

Built(p) == \/ pc[p] = "synced" /\ job[p].op = "reindex"
            \/ pc[p] = "finished" /\ job[p].op = "semantic reindex"

(* The new database is checkpointed, closed and renamed over the index;    *)
(* the log of the one it replaces is still there.                          *)
Rename(p) ==
    /\ Built(p)
    /\ p \in temps
    /\ index' = private[p]
    /\ private' = [private EXCEPT ![p] = NoDb]
    /\ log' = IF log = "own" THEN "foreign" ELSE log
    /\ temps' = temps \ {p}
    /\ pc' = [pc EXCEPT ![p] = "sidecars"]
    /\ UNCHANGED <<files, lock, job, calm>>

(* Somebody removed the temporary database. *)
RenameFails(p) ==
    /\ Built(p)
    /\ p \notin temps
    /\ Close(p)

RemoveSidecars(p) ==
    /\ pc[p] = "sidecars"
    /\ log' = "none"
    /\ Release(p)
    /\ UNCHANGED <<files, index, temps, calm>>

-----------------------------------------------------------------------------
(* Others who hold no projection lock.                                     *)

(* gc unlinks the index, its log and temporary files under whoever has     *)
(* them open.                                                              *)
Gc ==
    /\ private' = [p \in Procs |->
           IF private[p] = NoDb /\ pc[p] \notin {"idle", "sidecars"} THEN index ELSE private[p]]
    /\ index' = NoDb
    /\ log' = "none"
    /\ temps' = {}
    /\ UNCHANGED <<files, lock, pc, job, calm>>

NoCanonicalFailure ==
    /\ \A q \in Paths : files[q] # Invalid
    /\ \A q, r \in Paths :
           files[q] \in Contents /\ files[r] \in Contents /\ files[q].id = files[r].id => q = r

(* doctor --repair removes temporary databases it takes for leftovers. *)
RemoveTemps ==
    /\ temps # {}
    /\ NoCanonicalFailure
    /\ temps' = {}
    /\ UNCHANGED <<files, index, log, private, lock, pc, job, calm>>

(* People, tools and repository operations write, damage, delete and move  *)
(* record files.                                                           *)
WriteFile(q) ==
    \E c \in (Contents \cup {NoFile, Invalid}) \ {files[q]} :
        files' = [files EXCEPT ![q] = c]

MoveFile(q, r) ==
    /\ files[q] # NoFile
    /\ q # r
    /\ files' = [files EXCEPT ![r] = files[q], ![q] = NoFile]

Author ==
    /\ \E q \in Paths : WriteFile(q) \/ \E r \in Paths : MoveFile(q, r)
    /\ calm' = FALSE
    /\ UNCHANGED <<indexed, lock, pc, job>>

-----------------------------------------------------------------------------

(* The steps of an operation that has begun, when nothing outside fails. *)
Continue(p) ==
    \/ ListFiles(p)
    \/ VisitUnusable(p) \/ VisitUnchanged(p) \/ VisitChanged(p) \/ VisitTaken(p) \/ EndVisits(p)
    \/ Sweep(p) \/ EndSweep(p) \/ FinishSync(p)
    \/ KeepVectors(p) \/ Fingerprint(p) \/ ReadDocuments(p)
    \/ CreateTable(p) \/ DropOrphan(p) \/ Register(p) \/ Activate(p) \/ FinishVectors(p)
    \/ Rename(p) \/ RenameFails(p) \/ RemoveSidecars(p)

Step(p) == StartOnIndex(p) \/ Continue(p) \/ Fail(p) \/ Crash(p)

Others == Gc \/ RemoveTemps \/ Author

Next == Others \/ \E p \in Procs : Step(p) \/ StartReindex(p)

Spec == Init /\ [][Next]_vars

(* A reindex starts when the log of the index it will replace has been     *)
(* checkpointed: no search has that index open and no writer was killed.   *)
StartReindexCheckpointed(p) == log # "own" /\ StartReindex(p)

CheckpointedNext == Others \/ \E p \in Procs : Step(p) \/ StartReindexCheckpointed(p)

CheckpointedSpec == Init /\ [][CheckpointedNext]_vars

(* A process that has begun an operation keeps being scheduled. *)
FairSpec == CheckpointedSpec /\ \A p \in Procs : WF_vars(Continue(p))

-----------------------------------------------------------------------------
(* Properties.                                                             *)

(* sync_canonical: whatever the index held and whoever died before, a sync *)
(* that succeeds while the files stay put leaves one row for the first     *)
(* file of every id, and no others.                                        *)
SyncIsExact ==
    \A p \in Procs : pc[p] = "synced" /\ calm => Db(p).rows = Projected

(* reindex: a search never goes from an index to one that was built only   *)
(* in part.                                                                *)
SwitchIsComplete ==
    [][\A p \in Procs : Built(p) /\ pc'[p] = "sidecars" /\ calm =>
           index'.rows = Projected]_vars

(* vector_hits: a vector index that passes for one of these rows was       *)
(* embedded from these rows, so its hits describe the records they are     *)
(* joined with.                                                            *)
VectorsMatchRows ==
    index # NoDb /\ index.active # NoVectors /\ index.active.projection = index.rows =>
        index.active.docs = index.rows

(* rebuild_vector_index and reindex: a rebuild during which no file         *)
(* changes embeds every record as it is.                                   *)
RebuildIsCurrent ==
    \A p \in Procs : pc[p] = "activate" /\ calm => job[p].vectors.docs = Projected

(* vector_hits: "A stale semantic projection is rejected rather than       *)
(* queried": one that passes describes the files as they are.  It does not *)
(* hold, and no run checks it: a file may change after the sync and before *)
(* it is read for the fingerprint.                                         *)
FreshMeansCurrent ==
    index # NoDb /\ Fresh(index) /\ lock = NoProc => index.active.docs = Projected

(* sync reconciles new, edited, moved and deleted files: no change of the  *)
(* files makes it fail.                                                    *)
SyncAcceptsFiles ==
    \A p \in Procs, q \in Paths :
        Visiting(p, q) /\ Usable(p, q) /\ ~ Unchanged(p, q) => ~ Taken(p, q)

(* reindex: an index is never read beside the log of the index it          *)
(* replaced, not even after the process was killed.  It does not hold, and *)
(* no run checks it: the rename and the removal are two steps.             *)
LogBelongsToIndex == log = "foreign" => lock # NoProc

(* An operation fails, on a taken path too, or dies before the index holds *)
(* what it synced.                                                         *)
Interrupted(p) ==
    /\ pc[p] # "sidecars"
    /\ ~ (pc[p] = "synced" /\ job[p].op \in OnIndex)
    /\ Fail(p) \/ Crash(p)

(* Searches synchronize first, so the index catches up with the files:     *)
(* unless files keep changing, gc keeps removing the index, operations     *)
(* keep failing or dying, or nobody uses the store any more.               *)
Converges ==
    \/ []<><<Author>>_vars
    \/ []<><<Gc>>_vars
    \/ []<><<\E p \in Procs : Interrupted(p)>>_vars
    \/ <>[](\A p \in Procs : pc[p] = "idle")
    \/ <>[](index # NoDb /\ index.rows = Projected)

=============================================================================
