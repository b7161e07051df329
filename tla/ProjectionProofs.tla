-------------------------- MODULE ProjectionProofs --------------------------
(***************************************************************************)
(* Theorems about Projection, for any number of processes, paths, ids and  *)
(* texts: with gc, repairs, crashes and authors between any two steps.     *)
(***************************************************************************)
EXTENDS Projection, FiniteSetTheorems, WellFoundedInduction, TLAPS

Open == PCs \ {"idle", "sidecars"}
Synced == {"synced", "read", "table", "register", "activate", "finished"}
Embedding == {"read", "table", "register", "activate"}
Embedded == {"table", "register", "activate"}

(* An operation has a database, and a rebuild one of its own. *)
OpenInv ==
    \A p \in Procs : pc[p] \in Open =>
        /\ Db(p) # NoDb
        /\ job[p].op \in Rebuilds => private[p] # NoDb
        /\ pc[p] = "list" => job[p].ids = {}
        /\ pc[p] \in Embedding => job[p].vectors # NoVectors

TypeInv == TypeOK /\ OpenInv

(* No two rows have one path. *)
UniquePaths(rows) ==
    \A i, j \in Ids : rows[i] # NoRow /\ rows[j] # NoRow /\ rows[i].path = rows[j].path => i = j

(* What was embedded is what the fingerprint was taken of. *)
Faithful(vectors) == vectors # NoVectors => vectors.docs = vectors.projection

Sound(db) == db # NoDb => UniquePaths(db.rows) /\ Faithful(db.active)

SoundInv == Sound(index) /\ \A p \in Procs : Sound(private[p])

(* Nobody else changes the database between the fingerprint and the switch. *)
EmbedsWell(p) ==
    /\ pc[p] = "read" => job[p].vectors.projection = Db(p).rows
    /\ pc[p] \in Embedded => Faithful(job[p].vectors)

(* The ids of the records in some of the files. *)
IdsIn(S) == {files[q].id : q \in {r \in S : files[r] \in Contents}}

(* Of the files that were visited the first of every id has its row, and   *)
(* no others; the rest is as it was, but for rows of a path visited.       *)
VisitsWell(p) ==
    calm /\ pc[p] = "visit" =>
        LET rows == Db(p).rows
            known == job[p].known
            done == job[p].listed \ job[p].todo
        IN  /\ job[p].listed = {q \in Paths : files[q] # NoFile}
            /\ job[p].todo \subseteq job[p].listed
            /\ \A q \in done, r \in job[p].todo : q < r
            /\ job[p].ids = IdsIn(done)
            /\ UniquePaths(known)
            /\ \A i \in job[p].ids : rows[i] = Projected[i]
            /\ \A i \in Ids \ job[p].ids :
                  /\ rows[i] # NoRow => rows[i] = known[i] /\ rows[i].path \notin done
                  /\ known[i] # NoRow /\ known[i].path \notin done => rows[i] = known[i]

(* Rows of other ids are to be swept away. *)
SweepsWell(p) ==
    calm /\ pc[p] = "sweep" =>
        LET rows == Db(p).rows
        IN  /\ \A q \in job[p].todo : files[q] = NoFile
            /\ job[p].ids = IdsIn(Paths)
            /\ \A i \in job[p].ids : rows[i] = Projected[i]
            /\ \A i \in Ids \ job[p].ids : rows[i] # NoRow => rows[i].path \in job[p].todo

StaysSynced(p) ==
    calm =>
        /\ pc[p] \in Synced => Db(p).rows = Projected
        /\ pc[p] \in Embedded => job[p].vectors.docs = Projected

OperationInv ==
    \A p \in Procs : EmbedsWell(p) /\ VisitsWell(p) /\ SweepsWell(p) /\ StaysSynced(p)

IndexInv == TypeInv /\ SoundInv /\ OperationInv

-----------------------------------------------------------------------------
(* The least path, and the rows an index should have.                      *)

Below(n) == 0..n

(* A set of paths has a least one: the intervals below its members are     *)
(* finite sets, among which inclusion is well-founded.                     *)
LEMMA FirstIsLeast ==
    ASSUME NEW S, S \subseteq Paths, S # {}
    PROVE  First(S) \in S /\ \A r \in S : First(S) <= r
  <1> DEFINE T == {Below(n) : n \in S}
  <1>1. S \subseteq Nat
    BY ProjectionAssumption
  <1>2. T \subseteq FiniteSubsetsOf(Nat)
    <2> SUFFICES ASSUME NEW n \in S PROVE Below(n) \in FiniteSubsetsOf(Nat)
      OBVIOUS
    <2>1. IsFiniteSet(0..n)
      BY <1>1, FS_Interval
    <2> QED
      BY <1>1, <2>1 DEF FiniteSubsetsOf, Below
  <1>3. PICK x \in T : \A y \in T : ~ (<<y, x>> \in StrictSubsetOrdering(Nat))
    <2>1. T # {}
      OBVIOUS
    <2> HIDE DEF T
    <2> QED
      BY <1>2, <2>1, FS_StrictSubsetOrderingWellFounded, WFMin
  <1>4. PICK n \in S : x = Below(n)
    BY <1>3
  <1>5. \A m \in S : n <= m
    <2> SUFFICES ASSUME NEW m \in S, m < n PROVE FALSE
      BY <1>1
    <2>1. Below(m) \subseteq Below(n) /\ Below(m) # Below(n) /\ Below(n) \subseteq Nat
      BY <1>1 DEF Below
    <2>2. <<Below(m), Below(n)>> \in StrictSubsetOrdering(Nat)
      BY <2>1 DEF StrictSubsetOrdering
    <2> QED
      BY <1>3, <1>4, <2>2
  <1> QED
    BY <1>5 DEF First

(* q holds a record of id i. *)
Holds(q, i) == files[q] \in Contents /\ files[q].id = i

(* The row of an id is of its first file, or there is none. *)
LEMMA ProjectedRow ==
    ASSUME NEW i \in Ids
    PROVE  /\ (\A q \in Paths : ~ Holds(q, i)) => Projected[i] = NoRow
           /\ (\E q \in Paths : Holds(q, i)) =>
                 \E q \in Paths :
                     /\ Holds(q, i)
                     /\ \A r \in Paths : Holds(r, i) => q <= r
                     /\ Projected[i] = [path |-> q, text |-> files[q].text]
  <1> DEFINE of == {q \in Paths : Holds(q, i)}
  <1>1. Projected[i] = IF of = {} THEN NoRow
                       ELSE [path |-> First(of), text |-> files[First(of)].text]
    BY DEF Projected, Holds
  <1>2. of # {} => First(of) \in of /\ \A r \in of : First(of) <= r
    BY FirstIsLeast
  <1> QED
    BY <1>1, <1>2

LEMMA ProjectedIsOfFiles ==
    ASSUME UNCHANGED files
    PROVE  Projected' = Projected /\ \A S : IdsIn(S)' = IdsIn(S)
  BY DEF Projected, IdsIn

LEMMA EmptyRows == NoRows \in Rows /\ UniquePaths(NoRows)
  BY DEF NoRows, Rows, UniquePaths

LEMMA WithoutPathRows ==
    ASSUME NEW rows \in Rows, NEW q \in Paths
    PROVE  /\ WithoutPath(rows, q) \in Rows
           /\ UniquePaths(rows) => UniquePaths(WithoutPath(rows, q))
           /\ \A i \in Ids : WithoutPath(rows, q)[i] =
                 IF rows[i] # NoRow /\ rows[i].path = q THEN NoRow ELSE rows[i]
  <1>1. \A i \in Ids : WithoutPath(rows, q)[i] =
           IF rows[i] # NoRow /\ rows[i].path = q THEN NoRow ELSE rows[i]
    BY DEF WithoutPath, IdsAt
  <1>2. WithoutPath(rows, q) \in Rows
    BY DEF WithoutPath, Rows
  <1> HIDE DEF WithoutPath
  <1>3. UniquePaths(rows) => UniquePaths(WithoutPath(rows, q))
    BY <1>1 DEF UniquePaths
  <1> QED
    BY <1>1, <1>2, <1>3

LEMMA WithRecordRows ==
    ASSUME NEW rows \in Rows, NEW q \in Paths, NEW r \in Contents
    PROVE  /\ WithRecord(rows, q, r) \in Rows
           /\ UniquePaths(rows) /\ IdsAt(rows, q) \ {r.id} = {} => UniquePaths(WithRecord(rows, q, r))
           /\ \A i \in Ids : WithRecord(rows, q, r)[i] =
                 IF i = r.id THEN [path |-> q, text |-> r.text] ELSE rows[i]
  <1>1. r.id \in Ids /\ r.text \in Texts
    BY DEF Contents
  <1>2. \A i \in Ids : WithRecord(rows, q, r)[i] =
           IF i = r.id THEN [path |-> q, text |-> r.text] ELSE rows[i]
    BY <1>1 DEF WithRecord, Rows
  <1>3. WithRecord(rows, q, r) \in Rows
    BY <1>1 DEF WithRecord, Rows
  <1>4. UniquePaths(rows) /\ IdsAt(rows, q) \ {r.id} = {} => UniquePaths(WithRecord(rows, q, r))
    BY <1>2 DEF UniquePaths, IdsAt
  <1> QED
    BY <1>2, <1>3, <1>4

-----------------------------------------------------------------------------
(* Types.                                                                  *)

LEMMA EmptyTypes ==
    /\ EmptyDatabase \in Databases /\ Sound(EmptyDatabase)
    /\ \A op \in Operations : NewJob(op) \in Jobs
  <1>1. EmptyDatabase \in Databases
    BY EmptyRows DEF EmptyDatabase, Databases
  <1>2. Sound(EmptyDatabase)
    BY EmptyRows DEF EmptyDatabase, Sound, Faithful
  <1>3. \A op \in Operations : NewJob(op) \in Jobs
    BY EmptyRows DEF NewJob, Jobs
  <1> QED
    BY <1>1, <1>2, <1>3

(* Databases that differ in one field. *)
LEMMA DatabaseUpdates ==
    ASSUME NEW db \in Databases
    PROVE  /\ db # NoDb
           /\ \A rows \in Rows :
                 /\ [db EXCEPT !.rows = rows] \in Databases
                 /\ Sound(db) /\ UniquePaths(rows) => Sound([db EXCEPT !.rows = rows])
           /\ \A o \in BOOLEAN :
                 /\ [db EXCEPT !.orphan = o] \in Databases
                 /\ Sound(db) => Sound([db EXCEPT !.orphan = o])
           /\ \A v \in Vectors \cup {NoVectors} :
                 /\ [db EXCEPT !.active = v] \in Databases
                 /\ Sound(db) /\ Faithful(v) => Sound([db EXCEPT !.active = v])
  <1>1. db # NoDb
    BY ProjectionAssumption
  <1>2. ASSUME NEW rows \in Rows
        PROVE  /\ [db EXCEPT !.rows = rows] \in Databases
               /\ Sound(db) /\ UniquePaths(rows) => Sound([db EXCEPT !.rows = rows])
    BY <1>1 DEF Databases, Sound
  <1>3. ASSUME NEW o \in BOOLEAN
        PROVE  /\ [db EXCEPT !.orphan = o] \in Databases
               /\ Sound(db) => Sound([db EXCEPT !.orphan = o])
    BY <1>1 DEF Databases, Sound
  <1>4. ASSUME NEW v \in Vectors \cup {NoVectors}
        PROVE  /\ [db EXCEPT !.active = v] \in Databases
               /\ Sound(db) /\ Faithful(v) => Sound([db EXCEPT !.active = v])
    BY <1>1 DEF Databases, Sound
  <1> QED
    BY <1>1, <1>2, <1>3, <1>4

LEMMA Alone ==
    /\ TypeOK => \A p, q \in Procs : p # q /\ pc[p] # "idle" => pc[q] = "idle"
    /\ TypeOK' => \A p, q \in Procs : p # q /\ pc'[p] # "idle" => pc'[q] = "idle"
  BY DEF TypeOK

(* Whoever has begun has a job, and whoever is at work a database. *)
LEMMA AtWork ==
    ASSUME TypeInv, NEW p \in Procs, pc[p] \in Open
    PROVE  /\ job[p] \in Jobs
           /\ Db(p) \in Databases
           /\ pc[p] # "idle" /\ pc[p] # "sidecars"
  BY DEF TypeInv, TypeOK, OpenInv, Open, Db

(* A committed transaction is what p reads from then on. *)
LEMMA CommitWell ==
    ASSUME TypeInv, NEW p \in Procs, NEW db \in Databases, Commit(p, db)
    PROVE  /\ index' \in Databases \cup {NoDb}
           /\ log' \in {"none", "own", "foreign"}
           /\ temps' = temps
           /\ private' \in [Procs -> Databases \cup {NoDb}]
           /\ Db(p)' = db
           /\ private[p] # NoDb => private'[p] # NoDb
           /\ index' \in {index, db} /\ \A q \in Procs : private'[q] \in {private[q], db}
  <1>1. db # NoDb
    BY ProjectionAssumption
  <1>2. CASE private[p] = NoDb
    BY <1>1, <1>2 DEF Commit, TypeInv, TypeOK, Db
  <1>3. CASE private[p] # NoDb
    BY <1>1, <1>3 DEF Commit, TypeInv, TypeOK, Db
  <1> QED
    BY <1>2, <1>3

(* An operation goes on to a label with a job, and commits db or nothing. *)
Goes(p, label, j) ==
    /\ pc' = [pc EXCEPT ![p] = label]
    /\ job' = [job EXCEPT ![p] = j]
    /\ UNCHANGED <<files, lock>>

LEMMA GoesWell ==
    ASSUME TypeInv, NEW p \in Procs, pc[p] \in Open,
           NEW label \in Open, NEW j \in Jobs, Goes(p, label, j), calm' \in BOOLEAN,
           label # "list", j.op = job[p].op, label \in Embedding => j.vectors # NoVectors,
           UNCHANGED indexed \/ \E db \in Databases : Commit(p, db)
    PROVE  TypeInv'
  <1>1. pc[p] # "idle" /\ label # "idle" /\ label \in PCs /\ j # NoJob
    BY ProjectionAssumption DEF Open
  <1>2. /\ index' \in Databases \cup {NoDb}
        /\ log' \in {"none", "own", "foreign"}
        /\ temps' = temps
        /\ private' \in [Procs -> Databases \cup {NoDb}]
        /\ private[p] # NoDb => private'[p] # NoDb
        /\ Db(p)' # NoDb
    <2>1. CASE UNCHANGED indexed
      BY <2>1 DEF indexed, TypeInv, TypeOK, OpenInv, Db
    <2>2. CASE \E db \in Databases : Commit(p, db)
      BY <2>2, CommitWell, ProjectionAssumption
    <2> QED
      BY <2>1, <2>2
  <1>3. pc' \in [Procs -> PCs] /\ job' \in [Procs -> Jobs \cup {NoJob}]
    BY <1>1 DEF Goes, TypeInv, TypeOK
  <1>4. pc'[p] = label /\ job'[p] = j /\ \A q \in Procs \ {p} : pc'[q] = pc[q] /\ job'[q] = job[q]
    BY DEF Goes, TypeInv, TypeOK
  <1>5. TypeOK'
    BY <1>1, <1>2, <1>3, <1>4 DEF Goes, TypeInv, TypeOK
  <1>6. \A q \in Procs \ {p} : pc'[q] \notin Open
    BY <1>1, <1>4, <1>5, Alone DEF Open
  <1>7. job[p].op \in Rebuilds => private[p] # NoDb
    BY DEF TypeInv, OpenInv
  <1>8. OpenInv'
    BY <1>2, <1>4, <1>6, <1>7 DEF OpenInv
  <1> QED
    BY <1>5, <1>8 DEF TypeInv

LEMMA ReleaseWell ==
    ASSUME TypeInv, NEW p \in Procs, pc[p] # "idle", Release(p),
           UNCHANGED <<files, index, calm>>,
           log' \in {"none", "own", "foreign"}, temps' \subseteq temps
    PROVE  TypeInv' /\ \A q \in Procs : pc'[q] = "idle"
  <1>1. \A q \in Procs : pc'[q] = "idle" /\ job'[q] = NoJob
    BY DEF Release, TypeInv, TypeOK
  <1>2. /\ pc' \in [Procs -> PCs] /\ job' \in [Procs -> Jobs \cup {NoJob}]
        /\ private' \in [Procs -> Databases \cup {NoDb}]
    BY DEF Release, TypeInv, TypeOK, PCs
  <1>3. TypeOK'
    BY <1>1, <1>2, ProjectionAssumption DEF Release, TypeInv, TypeOK
  <1> QED
    BY <1>1, <1>3 DEF TypeInv, OpenInv, Open

LEMMA JobUpdates ==
    ASSUME NEW j \in Jobs
    PROVE  /\ \A todo \in SUBSET Paths : [j EXCEPT !.todo = todo] \in Jobs
           /\ \A todo \in SUBSET Paths, ids \in SUBSET Ids :
                 [j EXCEPT !.todo = todo, !.ids = ids] \in Jobs
           /\ \A todo \in SUBSET Paths :
                 [j EXCEPT !.todo = todo, !.complete = FALSE] \in Jobs
           /\ \A known \in Rows, listed \in SUBSET Paths :
                 [j EXCEPT !.known = known, !.listed = listed, !.todo = listed] \in Jobs
           /\ [NewJob(j.op) EXCEPT !.complete = j.complete] \in Jobs
           /\ \A v \in Vectors : [j EXCEPT !.vectors = v] \in Jobs
  BY EmptyRows DEF Jobs, NewJob

LEMMA InitTypes == Init => TypeInv /\ SoundInv
  <1> SUFFICES ASSUME Init PROVE TypeInv /\ SoundInv
    OBVIOUS
  <1>1. TypeOK
    BY ProjectionAssumption DEF Init, TypeOK, PCs
  <1>2. OpenInv /\ SoundInv
    BY DEF Init, OpenInv, SoundInv, Sound, Open
  <1> QED
    BY <1>1, <1>2 DEF TypeInv

(* A new operation begins where there was none. *)
LEMMA StartWell ==
    ASSUME TypeInv, NEW p \in Procs, NEW op \in Ops, Start(p, op),
           index' \in Databases \cup {NoDb}, private' \in [Procs -> Databases \cup {NoDb}],
           log' \in {"none", "own", "foreign"}, temps' \subseteq Procs,
           Db(p)' # NoDb, op \in Rebuilds => private'[p] # NoDb
    PROVE  TypeInv' /\ pc'[p] = "list"
  <1>1. op \in Operations /\ NewJob(op) \in Jobs /\ NewJob(op) # NoJob
    BY EmptyTypes, ProjectionAssumption
  <1>2. \A q \in Procs : pc[q] = "idle" /\ job[q] = NoJob
    BY ProjectionAssumption DEF Start, TypeInv, TypeOK
  <1>3. /\ pc'[p] = "list" /\ job'[p] = NewJob(op)
        /\ \A q \in Procs \ {p} : pc'[q] = "idle" /\ job'[q] = NoJob
    BY <1>2 DEF Start, TypeInv, TypeOK
  <1>4. TypeOK'
    BY <1>1, <1>3 DEF Start, TypeInv, TypeOK, PCs
  <1>5. OpenInv'
    BY <1>3 DEF OpenInv, Open, Embedding, NewJob
  <1> QED
    BY <1>3, <1>4, <1>5 DEF TypeInv

LEMMA TypeStep == TypeInv /\ [Next]_vars => TypeInv'
  <1> SUFFICES ASSUME TypeInv, [Next]_vars PROVE TypeInv'
    OBVIOUS
  <1>1. ASSUME NEW p \in Procs, StartOnIndex(p) PROVE TypeInv'
    <2>1. PICK op \in Ops : op \in OnIndex /\ Start(p, op)
      BY <1>1 DEF StartOnIndex
    <2>2. index' \in Databases /\ UNCHANGED <<log, temps, private>>
      BY <1>1, EmptyTypes DEF StartOnIndex, TypeInv, TypeOK
    <2>3. Db(p)' # NoDb /\ op \notin Rebuilds
      BY <2>1, <2>2, ProjectionAssumption DEF Db, OnIndex, Rebuilds
    <2> QED
      BY <2>1, <2>2, <2>3, StartWell DEF TypeInv, TypeOK
  <1>2. ASSUME NEW p \in Procs, StartReindex(p) PROVE TypeInv'
    <2>1. PICK op \in Ops : Start(p, op)
      BY <1>2 DEF StartReindex
    <2>2. UNCHANGED <<index, log>> /\ temps' \subseteq Procs
      BY <1>2 DEF StartReindex, TypeInv, TypeOK
    <2>3. private' \in [Procs -> Databases \cup {NoDb}] /\ private'[p] # NoDb
      BY <1>2, EmptyTypes, ProjectionAssumption DEF StartReindex, TypeInv, TypeOK
    <2>4. Db(p)' # NoDb
      BY <2>3 DEF Db
    <2> QED
      BY <2>1, <2>2, <2>3, <2>4, StartWell DEF TypeInv, TypeOK
  <1>3. ASSUME NEW p \in Procs, ListFiles(p) PROVE TypeInv'
    <2>1. pc[p] = "list" /\ pc[p] \in Open /\ "visit" \in Open /\ pc \in [Procs -> PCs]
      BY <1>3 DEF ListFiles, Open, PCs, TypeInv, TypeOK
    <2>2. /\ job[p] \in Jobs /\ job \in [Procs -> Jobs \cup {NoJob}]
          /\ Db(p) \in Databases /\ calm \in BOOLEAN
      BY <2>1, AtWork DEF TypeInv, TypeOK
    <2> DEFINE j == [job[p] EXCEPT !.known = Db(p).rows, !.listed = {q \in Paths : files[q] # NoFile},
                                 !.todo = {q \in Paths : files[q] # NoFile}]
    <2>3. Db(p).rows \in Rows
      BY <2>2 DEF Databases
    <2>4. j \in Jobs /\ j.op = job[p].op
      BY <2>1, <2>2, <2>3, JobUpdates, ProjectionAssumption DEF Jobs, NewJob
    <2>5. Goes(p, "visit", j) /\ calm' \in BOOLEAN
      BY <1>3, <2>1, <2>2 DEF ListFiles, Goes
    <2>6. UNCHANGED indexed
      BY <1>3 DEF ListFiles
    <2> HIDE DEF j
    <2> QED
      BY <2>1, <2>2, <2>4, <2>5, <2>6, GoesWell DEF Embedding
  <1>4. ASSUME NEW p \in Procs, VisitUnusable(p) PROVE TypeInv'
    <2>1. pc[p] = "visit" /\ pc[p] \in Open /\ "visit" \in Open /\ pc \in [Procs -> PCs]
      BY <1>4 DEF VisitUnusable, Visiting, Open, PCs, TypeInv, TypeOK
    <2>2. /\ job[p] \in Jobs /\ job \in [Procs -> Jobs \cup {NoJob}]
          /\ Db(p) \in Databases /\ calm \in BOOLEAN
      BY <2>1, AtWork DEF TypeInv, TypeOK
    <2>3. PICK q \in Paths : /\ ~ Usable(p, q)
                             /\ job' = [job EXCEPT ![p].todo = @ \ {q}, ![p].complete = FALSE]
                             /\ IF IdsAt(Db(p).rows, q) = {} THEN UNCHANGED indexed
                                ELSE CommitRows(p, WithoutPath(Db(p).rows, q))
      BY <1>4 DEF VisitUnusable
    <2> DEFINE j == [job[p] EXCEPT !.todo = job[p].todo \ {q}, !.complete = FALSE]
    <2>4. job[p].todo \ {q} \in SUBSET Paths
      BY <2>2 DEF Jobs
    <2>5. j \in Jobs /\ j.op = job[p].op
      BY <2>2, <2>4, JobUpdates DEF Jobs
    <2>6. Goes(p, "visit", j) /\ calm' \in BOOLEAN
      BY <1>4, <2>1, <2>2, <2>3 DEF VisitUnusable, Goes
    <2>7. UNCHANGED indexed \/ \E db \in Databases : Commit(p, db)
      BY <2>2, <2>3, WithoutPathRows, DatabaseUpdates DEF CommitRows, Databases
    <2> HIDE DEF j
    <2> QED
      BY <2>1, <2>2, <2>5, <2>6, <2>7, GoesWell DEF Embedding
  <1>5. ASSUME NEW p \in Procs, VisitUnchanged(p) PROVE TypeInv'
    <2>1. pc[p] = "visit" /\ pc[p] \in Open /\ "visit" \in Open /\ pc \in [Procs -> PCs]
      BY <1>5 DEF VisitUnchanged, Visiting, Open, PCs, TypeInv, TypeOK
    <2>2. /\ job[p] \in Jobs /\ job \in [Procs -> Jobs \cup {NoJob}]
          /\ Db(p) \in Databases /\ calm \in BOOLEAN
      BY <2>1, AtWork DEF TypeInv, TypeOK
    <2>3. PICK q \in Paths : /\ Usable(p, q)
                             /\ job' = [job EXCEPT ![p].todo = @ \ {q}, ![p].ids = @ \cup {files[q].id}]
                             /\ UNCHANGED indexed
      BY <1>5 DEF VisitUnchanged
    <2> DEFINE j == [job[p] EXCEPT !.todo = job[p].todo \ {q}, !.ids = job[p].ids \cup {files[q].id}]
    <2>4. job[p].todo \ {q} \in SUBSET Paths /\ job[p].ids \cup {files[q].id} \in SUBSET Ids
      BY <2>2, <2>3 DEF Jobs, Usable, Contents
    <2>5. j \in Jobs /\ j.op = job[p].op
      BY <2>2, <2>4, JobUpdates DEF Jobs
    <2>6. Goes(p, "visit", j) /\ calm' \in BOOLEAN
      BY <1>5, <2>1, <2>2, <2>3 DEF VisitUnchanged, Goes
    <2> HIDE DEF j
    <2> QED
      BY <2>1, <2>2, <2>3, <2>5, <2>6, GoesWell DEF Embedding
  <1>6. ASSUME NEW p \in Procs, VisitChanged(p) PROVE TypeInv'
    <2>1. pc[p] = "visit" /\ pc[p] \in Open /\ "visit" \in Open /\ pc \in [Procs -> PCs]
      BY <1>6 DEF VisitChanged, Visiting, Open, PCs, TypeInv, TypeOK
    <2>2. /\ job[p] \in Jobs /\ job \in [Procs -> Jobs \cup {NoJob}]
          /\ Db(p) \in Databases /\ calm \in BOOLEAN
      BY <2>1, AtWork DEF TypeInv, TypeOK
    <2>3. PICK q \in Paths : /\ Usable(p, q)
                             /\ job' = [job EXCEPT ![p].todo = @ \ {q}, ![p].ids = @ \cup {files[q].id}]
                             /\ CommitRows(p, WithRecord(Db(p).rows, q, files[q]))
      BY <1>6 DEF VisitChanged
    <2> DEFINE j == [job[p] EXCEPT !.todo = job[p].todo \ {q}, !.ids = job[p].ids \cup {files[q].id}]
    <2>4. job[p].todo \ {q} \in SUBSET Paths /\ job[p].ids \cup {files[q].id} \in SUBSET Ids
      BY <2>2, <2>3 DEF Jobs, Usable, Contents
    <2>5. j \in Jobs /\ j.op = job[p].op
      BY <2>2, <2>4, JobUpdates DEF Jobs
    <2>6. Goes(p, "visit", j) /\ calm' \in BOOLEAN
      BY <1>6, <2>1, <2>2, <2>3 DEF VisitChanged, Goes
    <2>7. UNCHANGED indexed \/ \E db \in Databases : Commit(p, db)
      BY <2>2, <2>3, WithRecordRows, DatabaseUpdates DEF CommitRows, Databases, Usable
    <2> HIDE DEF j
    <2> QED
      BY <2>1, <2>2, <2>5, <2>6, <2>7, GoesWell DEF Embedding
  <1>7. ASSUME NEW p \in Procs, EndVisits(p) PROVE TypeInv'
    <2>1. pc[p] = "visit" /\ pc[p] \in Open /\ "sweep" \in Open /\ pc \in [Procs -> PCs]
      BY <1>7 DEF EndVisits, Open, PCs, TypeInv, TypeOK
    <2>2. /\ job[p] \in Jobs /\ job \in [Procs -> Jobs \cup {NoJob}]
          /\ Db(p) \in Databases /\ calm \in BOOLEAN
      BY <2>1, AtWork DEF TypeInv, TypeOK
    <2> DEFINE j == [job[p] EXCEPT !.todo = {q \in Paths \ job[p].listed : IdsAt(job[p].known, q) # {}}]
    <2>3. {q \in Paths \ job[p].listed : IdsAt(job[p].known, q) # {}} \in SUBSET Paths
      BY <2>2 DEF Jobs
    <2>4. j \in Jobs /\ j.op = job[p].op
      BY <2>1, <2>2, <2>3, JobUpdates, ProjectionAssumption DEF Jobs, NewJob
    <2>5. Goes(p, "sweep", j) /\ calm' \in BOOLEAN
      BY <1>7, <2>1, <2>2 DEF EndVisits, Goes
    <2>6. UNCHANGED indexed
      BY <1>7 DEF EndVisits
    <2> HIDE DEF j
    <2> QED
      BY <2>1, <2>2, <2>4, <2>5, <2>6, GoesWell DEF Embedding
  <1>8. ASSUME NEW p \in Procs, Sweep(p) PROVE TypeInv'
    <2>1. pc[p] = "sweep" /\ pc[p] \in Open /\ "sweep" \in Open /\ pc \in [Procs -> PCs]
      BY <1>8 DEF Sweep, Open, PCs, TypeInv, TypeOK
    <2>2. /\ job[p] \in Jobs /\ job \in [Procs -> Jobs \cup {NoJob}]
          /\ Db(p) \in Databases /\ calm \in BOOLEAN
      BY <2>1, AtWork DEF TypeInv, TypeOK
    <2> DEFINE j == [job[p] EXCEPT !.todo = job[p].todo \ {First(job[p].todo)}]
    <2>3. First(job[p].todo) \in Paths /\ job[p].todo \ {First(job[p].todo)} \in SUBSET Paths /\ Db(p).rows \in Rows
      BY <1>8, <2>2, FirstIsLeast DEF Sweep, Jobs, Databases
    <2>4. j \in Jobs /\ j.op = job[p].op
      BY <2>1, <2>2, <2>3, JobUpdates, ProjectionAssumption DEF Jobs, NewJob
    <2>5. Goes(p, "sweep", j) /\ calm' \in BOOLEAN
      BY <1>8, <2>1, <2>2 DEF Sweep, Goes
    <2>6. UNCHANGED indexed \/ \E db \in Databases : Commit(p, db)
      BY <1>8, <2>2, <2>3, WithoutPathRows, DatabaseUpdates DEF Sweep, CommitRows
    <2> HIDE DEF j
    <2> QED
      BY <2>1, <2>2, <2>4, <2>5, <2>6, GoesWell DEF Embedding
  <1>9. ASSUME NEW p \in Procs, EndSweep(p) PROVE TypeInv'
    <2>1. pc[p] = "sweep" /\ pc[p] \in Open /\ "synced" \in Open /\ pc \in [Procs -> PCs]
      BY <1>9 DEF EndSweep, Open, PCs, TypeInv, TypeOK
    <2>2. /\ job[p] \in Jobs /\ job \in [Procs -> Jobs \cup {NoJob}]
          /\ Db(p) \in Databases /\ calm \in BOOLEAN
      BY <2>1, AtWork DEF TypeInv, TypeOK
    <2> DEFINE j == [NewJob(job[p].op) EXCEPT !.complete = job[p].complete]
    <2>3. job[p].op \in Operations
      BY <2>2 DEF Jobs
    <2>4. j \in Jobs /\ j.op = job[p].op
      BY <2>1, <2>2, <2>3, JobUpdates, ProjectionAssumption DEF Jobs, NewJob
    <2>5. Goes(p, "synced", j) /\ calm' \in BOOLEAN
      BY <1>9, <2>1, <2>2 DEF EndSweep, Goes
    <2>6. UNCHANGED indexed
      BY <1>9 DEF EndSweep
    <2> HIDE DEF j
    <2> QED
      BY <2>1, <2>2, <2>4, <2>5, <2>6, GoesWell DEF Embedding
  <1>10. ASSUME NEW p \in Procs, KeepVectors(p) PROVE TypeInv'
    <2>1. pc[p] = "synced" /\ pc[p] \in Open /\ "finished" \in Open /\ pc \in [Procs -> PCs]
      BY <1>10 DEF KeepVectors, Open, PCs, TypeInv, TypeOK
    <2>2. /\ job[p] \in Jobs /\ job \in [Procs -> Jobs \cup {NoJob}]
          /\ Db(p) \in Databases /\ calm \in BOOLEAN
      BY <2>1, AtWork DEF TypeInv, TypeOK
    <2> DEFINE j == job[p]
    <2>3. job[p].op \in Operations
      BY <2>2 DEF Jobs
    <2>4. j \in Jobs /\ j.op = job[p].op
      BY <2>1, <2>2, <2>3, JobUpdates, ProjectionAssumption DEF Jobs, NewJob
    <2>5. Goes(p, "finished", j) /\ calm' \in BOOLEAN
      BY <1>10, <2>1, <2>2 DEF KeepVectors, Goes
    <2>6. UNCHANGED indexed
      BY <1>10 DEF KeepVectors
    <2> HIDE DEF j
    <2> QED
      BY <2>1, <2>2, <2>4, <2>5, <2>6, GoesWell DEF Embedding
  <1>11. ASSUME NEW p \in Procs, Fingerprint(p) PROVE TypeInv'
    <2>1. pc[p] = "synced" /\ pc[p] \in Open /\ "read" \in Open /\ pc \in [Procs -> PCs]
      BY <1>11 DEF Fingerprint, Open, PCs, TypeInv, TypeOK
    <2>2. /\ job[p] \in Jobs /\ job \in [Procs -> Jobs \cup {NoJob}]
          /\ Db(p) \in Databases /\ calm \in BOOLEAN
      BY <2>1, AtWork DEF TypeInv, TypeOK
    <2> DEFINE j == [job[p] EXCEPT !.vectors =
                       [docs |-> NoRows, canonical |-> files, projection |-> Db(p).rows]]
    <2>3. [docs |-> NoRows, canonical |-> files, projection |-> Db(p).rows] \in Vectors
      BY <2>2, EmptyRows DEF Databases, Vectors, TypeInv, TypeOK
    <2>4. j \in Jobs /\ j.op = job[p].op /\ j.vectors # NoVectors
      BY <2>1, <2>2, <2>3, JobUpdates, ProjectionAssumption DEF Jobs, NewJob
    <2>5. Goes(p, "read", j) /\ calm' \in BOOLEAN
      BY <1>11, <2>1, <2>2 DEF Fingerprint, Goes
    <2>6. UNCHANGED indexed
      BY <1>11 DEF Fingerprint
    <2> HIDE DEF j
    <2> QED
      BY <2>1, <2>2, <2>4, <2>5, <2>6, GoesWell DEF Embedding
  <1>12. ASSUME NEW p \in Procs, ReadDocuments(p) PROVE TypeInv'
    <2>1. pc[p] = "read" /\ pc[p] \in Open /\ "table" \in Open /\ pc \in [Procs -> PCs]
      BY <1>12 DEF ReadDocuments, Open, PCs, TypeInv, TypeOK
    <2>2. /\ job[p] \in Jobs /\ job \in [Procs -> Jobs \cup {NoJob}]
          /\ Db(p) \in Databases /\ calm \in BOOLEAN
      BY <2>1, AtWork DEF TypeInv, TypeOK
    <2> DEFINE j == [job[p] EXCEPT !.vectors = [job[p].vectors EXCEPT !.docs = Db(p).rows]]
    <2>3. [job[p].vectors EXCEPT !.docs = Db(p).rows] \in Vectors
      BY <2>1, <2>2 DEF Jobs, Databases, Vectors, TypeInv, OpenInv, Embedding
    <2>4. j \in Jobs /\ j.op = job[p].op /\ j.vectors # NoVectors
      BY <2>1, <2>2, <2>3, JobUpdates, ProjectionAssumption DEF Jobs, NewJob
    <2>5. Goes(p, "table", j) /\ calm' \in BOOLEAN
      BY <1>12, <2>1, <2>2 DEF ReadDocuments, Goes
    <2>6. UNCHANGED indexed
      BY <1>12 DEF ReadDocuments
    <2> HIDE DEF j
    <2> QED
      BY <2>1, <2>2, <2>4, <2>5, <2>6, GoesWell DEF Embedding
  <1>13. ASSUME NEW p \in Procs, CreateTable(p) PROVE TypeInv'
    <2>1. pc[p] = "table" /\ pc[p] \in Open /\ "register" \in Open /\ pc \in [Procs -> PCs]
      BY <1>13 DEF CreateTable, Open, PCs, TypeInv, TypeOK
    <2>2. /\ job[p] \in Jobs /\ job \in [Procs -> Jobs \cup {NoJob}]
          /\ Db(p) \in Databases /\ calm \in BOOLEAN
      BY <2>1, AtWork DEF TypeInv, TypeOK
    <2>3. [Db(p) EXCEPT !.orphan = TRUE] \in Databases /\ Commit(p, [Db(p) EXCEPT !.orphan = TRUE])
      BY <1>13, <2>2, DatabaseUpdates DEF CreateTable
    <2>4. Goes(p, "register", job[p]) /\ calm' \in BOOLEAN
      BY <1>13, <2>1, <2>2 DEF CreateTable, Goes
    <2>5. job[p].vectors # NoVectors
      BY <2>1 DEF TypeInv, OpenInv, Embedding
    <2> QED
      BY <2>1, <2>2, <2>3, <2>4, <2>5, GoesWell
  <1>14. ASSUME NEW p \in Procs, Register(p) PROVE TypeInv'
    <2>1. pc[p] = "register" /\ pc[p] \in Open /\ "activate" \in Open /\ pc \in [Procs -> PCs]
      BY <1>14 DEF Register, Open, PCs, TypeInv, TypeOK
    <2>2. /\ job[p] \in Jobs /\ job \in [Procs -> Jobs \cup {NoJob}]
          /\ Db(p) \in Databases /\ calm \in BOOLEAN
      BY <2>1, AtWork DEF TypeInv, TypeOK
    <2>3. [Db(p) EXCEPT !.orphan = FALSE] \in Databases /\ Commit(p, [Db(p) EXCEPT !.orphan = FALSE])
      BY <1>14, <2>2, DatabaseUpdates DEF Register
    <2>4. Goes(p, "activate", job[p]) /\ calm' \in BOOLEAN
      BY <1>14, <2>1, <2>2 DEF Register, Goes
    <2>5. job[p].vectors # NoVectors
      BY <2>1 DEF TypeInv, OpenInv, Embedding
    <2> QED
      BY <2>1, <2>2, <2>3, <2>4, <2>5, GoesWell
  <1>15. ASSUME NEW p \in Procs, Activate(p) PROVE TypeInv'
    <2>1. pc[p] = "activate" /\ pc[p] \in Open /\ "finished" \in Open /\ pc \in [Procs -> PCs]
      BY <1>15 DEF Activate, Open, PCs, TypeInv, TypeOK
    <2>2. /\ job[p] \in Jobs /\ job \in [Procs -> Jobs \cup {NoJob}]
          /\ Db(p) \in Databases /\ calm \in BOOLEAN
      BY <2>1, AtWork DEF TypeInv, TypeOK
    <2>3. [Db(p) EXCEPT !.active = job[p].vectors] \in Databases /\ Commit(p, [Db(p) EXCEPT !.active = job[p].vectors])
      BY <1>15, <2>2, DatabaseUpdates DEF Activate, Jobs
    <2>4. Goes(p, "finished", job[p]) /\ calm' \in BOOLEAN
      BY <1>15, <2>1, <2>2 DEF Activate, Goes
    <2> QED
      BY <2>1, <2>2, <2>3, <2>4, GoesWell DEF Embedding
  <1>16. ASSUME NEW p \in Procs, pc[p] \in {"table", "register"}, DropTable(p) PROVE TypeInv'
    <2>1. pc[p] \in Open /\ "failed" \in Open /\ pc \in [Procs -> PCs]
      BY <1>16 DEF Open, PCs, TypeInv, TypeOK
    <2>2. /\ job[p] \in Jobs /\ job \in [Procs -> Jobs \cup {NoJob}]
          /\ Db(p) \in Databases /\ calm \in BOOLEAN
      BY <2>1, AtWork DEF TypeInv, TypeOK
    <2>3. [Db(p) EXCEPT !.orphan = FALSE] \in Databases /\ Commit(p, [Db(p) EXCEPT !.orphan = FALSE])
      BY <1>16, <2>2, DatabaseUpdates DEF DropTable
    <2>4. Goes(p, "failed", job[p]) /\ calm' \in BOOLEAN
      BY <1>16, <2>1, <2>2 DEF DropTable, Goes
    <2> QED
      BY <2>1, <2>2, <2>3, <2>4, GoesWell DEF Embedding
  <1>17. ASSUME NEW p \in Procs, pc[p] # "idle", Close(p) PROVE TypeInv'
    <2>1. log' \in {"none", "own", "foreign"} /\ temps' \subseteq temps
      BY <1>17 DEF Close, TypeInv, TypeOK
    <2> QED
      BY <1>17, <2>1, ReleaseWell DEF Close
  <1>18. ASSUME NEW p \in Procs, Rename(p) PROVE TypeInv'
    <2>1. /\ pc[p] \in {"synced", "finished"} /\ pc[p] \in Open /\ pc[p] # "idle"
          /\ job[p].op \in Rebuilds
      BY <1>18 DEF Rename, Built, Open, PCs, Rebuilds
    <2>2. index' \in Databases
      BY <1>18, <2>1 DEF Rename, TypeInv, TypeOK, OpenInv
    <2>3. pc' = [pc EXCEPT ![p] = "sidecars"] /\ pc' \in [Procs -> PCs]
      BY <1>18 DEF Rename, TypeInv, TypeOK, PCs
    <2>4. /\ private' \in [Procs -> Databases \cup {NoDb}]
          /\ log' \in {"none", "own", "foreign"} /\ temps' \subseteq Procs
      BY <1>18 DEF Rename, TypeInv, TypeOK
    <2>5. TypeOK'
      BY <1>18, <2>1, <2>2, <2>3, <2>4 DEF Rename, TypeInv, TypeOK
    <2>6. \A q \in Procs : pc'[q] \notin Open
      BY <2>3, <2>5, Alone DEF Open, TypeInv, TypeOK
    <2> QED
      BY <2>5, <2>6 DEF TypeInv, OpenInv
  <1>19. ASSUME NEW p \in Procs, RemoveSidecars(p) PROVE TypeInv'
    BY <1>19, ReleaseWell DEF RemoveSidecars
  <1>20. ASSUME NEW p \in Procs, Crash(p) PROVE TypeInv'
    BY <1>20, ReleaseWell DEF Crash, TypeInv, TypeOK
  <1>21. CASE Gc
    <2>1. private' \in [Procs -> Databases \cup {NoDb}]
      BY <1>21 DEF Gc, TypeInv, TypeOK
    <2>2. TypeOK'
      BY <1>21, <2>1 DEF Gc, TypeInv, TypeOK
    <2>3. \A p \in Procs : pc[p] \in Open => Db(p)' = Db(p) /\ (private[p] # NoDb => private'[p] # NoDb)
      BY <1>21 DEF Gc, TypeInv, TypeOK, OpenInv, Db, Open
    <2> QED
      BY <1>21, <2>2, <2>3 DEF Gc, TypeInv, OpenInv
  <1>22. CASE RemoveTemps
    BY <1>22 DEF RemoveTemps, TypeInv, TypeOK, OpenInv, Db
  <1>23. CASE Author
    <2>1. files' \in Files
      BY <1>23 DEF Author, WriteFile, MoveFile, TypeInv, TypeOK, Files
    <2>2. UNCHANGED <<index, log, temps, private, lock, pc, job>> /\ calm' \in BOOLEAN
      BY <1>23 DEF Author, indexed
    <2> QED
      BY <2>1, <2>2 DEF TypeInv, TypeOK, OpenInv, Db
  <1>24. CASE UNCHANGED vars
    BY <1>24 DEF vars, indexed, TypeInv, TypeOK, OpenInv, Db
  <1>25. ASSUME NEW p \in Procs, Fail(p) PROVE TypeInv'
    BY <1>25, <1>16, <1>17 DEF Fail
  <1>26. ASSUME NEW p \in Procs, VisitTaken(p) \/ FinishSync(p) \/ FinishVectors(p) \/ RenameFails(p)
        PROVE  TypeInv'
    BY <1>26, <1>17
       DEF VisitTaken, Visiting, FinishSync, FinishVectors, RenameFails, Built
  <1>27. ASSUME NEW p \in Procs, DropOrphan(p) PROVE TypeInv'
    BY <1>27, <1>16 DEF DropOrphan
  <1> QED
    BY <1>1, <1>2, <1>3, <1>4, <1>5, <1>6, <1>7, <1>8, <1>9, <1>10, <1>11, <1>12,
       <1>13, <1>14, <1>15, <1>18, <1>19, <1>20, <1>21, <1>22, <1>23, <1>24, <1>25,
       <1>26, <1>27
       DEF Next, Others, Step, Continue

-----------------------------------------------------------------------------
(* Databases are sound.                                                    *)

LEMMA SoundCommit ==
    ASSUME TypeInv, SoundInv, NEW p \in Procs, NEW db \in Databases, Sound(db), Commit(p, db)
    PROVE  SoundInv'
  <1>1. index' \in {index, db} /\ \A q \in Procs : private'[q] \in {private[q], db}
    BY CommitWell
  <1> QED
    BY <1>1 DEF SoundInv, Sound

LEMMA SoundDb ==
    ASSUME SoundInv, NEW p \in Procs
    PROVE  Sound(Db(p))
  BY DEF SoundInv, Db

LEMMA SoundRelease ==
    ASSUME TypeInv, SoundInv, NEW p \in Procs, Release(p), UNCHANGED index
    PROVE  SoundInv'
  BY DEF SoundInv, Sound, Release, TypeInv, TypeOK

LEMMA SoundStep == TypeInv /\ SoundInv /\ (\A p \in Procs : EmbedsWell(p)) /\ [Next]_vars => SoundInv'
  <1> SUFFICES ASSUME TypeInv, SoundInv, \A p \in Procs : EmbedsWell(p), [Next]_vars PROVE SoundInv'
    OBVIOUS
  <1>1. ASSUME UNCHANGED indexed PROVE SoundInv'
    BY <1>1 DEF indexed, SoundInv, Sound
  <1>2. ASSUME NEW p \in Procs, StartOnIndex(p) PROVE SoundInv'
    BY <1>2, EmptyTypes DEF StartOnIndex, SoundInv, Sound
  <1>3. ASSUME NEW p \in Procs, StartReindex(p) PROVE SoundInv'
    BY <1>3, EmptyTypes DEF StartReindex, SoundInv, Sound, TypeInv, TypeOK
  <1>4. ASSUME NEW p \in Procs, pc[p] \in Open, VisitUnusable(p) PROVE SoundInv'
    <2>1. Db(p) \in Databases /\ Db(p).rows \in Rows /\ UniquePaths(Db(p).rows)
      BY <1>4, AtWork, SoundDb, ProjectionAssumption DEF Sound, Databases
    <2>2. PICK q \in Paths : UNCHANGED indexed \/ CommitRows(p, WithoutPath(Db(p).rows, q))
      BY <1>4 DEF VisitUnusable
    <2> QED
      BY <1>1, <2>1, <2>2, WithoutPathRows, DatabaseUpdates, SoundDb, SoundCommit DEF CommitRows
  <1>5. ASSUME NEW p \in Procs, pc[p] \in Open, VisitChanged(p) PROVE SoundInv'
    <2>1. Db(p) \in Databases /\ Db(p).rows \in Rows /\ UniquePaths(Db(p).rows)
      BY <1>5, AtWork, SoundDb, ProjectionAssumption DEF Sound, Databases
    <2>2. PICK q \in Paths : /\ files[q] \in Contents
                             /\ IdsAt(Db(p).rows, q) \ {files[q].id} = {}
                             /\ CommitRows(p, WithRecord(Db(p).rows, q, files[q]))
      BY <1>5 DEF VisitChanged, Usable, Taken
    <2> QED
      BY <2>1, <2>2, WithRecordRows, DatabaseUpdates, SoundDb, SoundCommit DEF CommitRows
  <1>6. ASSUME NEW p \in Procs, pc[p] \in Open, Sweep(p) PROVE SoundInv'
    <2>1. Db(p) \in Databases /\ Db(p).rows \in Rows /\ UniquePaths(Db(p).rows)
      BY <1>6, AtWork, SoundDb, ProjectionAssumption DEF Sound, Databases
    <2>2. First(job[p].todo) \in Paths
      BY <1>6, AtWork, FirstIsLeast DEF Sweep, Jobs
    <2>3. UNCHANGED indexed \/ CommitRows(p, WithoutPath(Db(p).rows, First(job[p].todo)))
      BY <1>6 DEF Sweep
    <2> QED
      BY <1>1, <2>1, <2>2, <2>3, WithoutPathRows, DatabaseUpdates, SoundDb, SoundCommit DEF CommitRows
  <1>7. ASSUME NEW p \in Procs, pc[p] \in Open, CreateTable(p) \/ Register(p) \/ DropTable(p)
        PROVE  SoundInv'
    <2>1. PICK o \in BOOLEAN : Commit(p, [Db(p) EXCEPT !.orphan = o])
      BY <1>7 DEF CreateTable, Register, DropTable
    <2> QED
      BY <1>7, <2>1, AtWork, DatabaseUpdates, SoundDb, SoundCommit
  <1>8. ASSUME NEW p \in Procs, pc[p] \in Open, Activate(p) PROVE SoundInv'
    <2>1. Faithful(job[p].vectors) /\ job[p].vectors \in Vectors \cup {NoVectors}
      BY <1>8, AtWork DEF Activate, EmbedsWell, Embedded, Jobs
    <2> QED
      BY <1>8, <2>1, AtWork, DatabaseUpdates, SoundDb, SoundCommit DEF Activate
  <1>9. ASSUME NEW p \in Procs, Rename(p) PROVE SoundInv'
    BY <1>9 DEF Rename, SoundInv, Sound, TypeInv, TypeOK
  <1>10. ASSUME NEW p \in Procs, Close(p) PROVE SoundInv'
    BY <1>10, SoundRelease DEF Close
  <1>11. ASSUME NEW p \in Procs, RemoveSidecars(p) \/ Crash(p) PROVE SoundInv'
    BY <1>11, SoundRelease DEF RemoveSidecars, Crash
  <1>12. CASE Gc
    BY <1>12 DEF Gc, SoundInv, Sound
  <1>13. CASE RemoveTemps \/ Author \/ UNCHANGED vars
    BY <1>13 DEF RemoveTemps, Author, vars, indexed, SoundInv, Sound
  <1>14. ASSUME NEW p \in Procs, Fail(p) PROVE SoundInv'
    BY <1>7, <1>10, <1>14 DEF Fail, Open, PCs
  <1>15. ASSUME NEW p \in Procs, Continue(p) PROVE SoundInv'
    <2>1. VisitUnusable(p) \/ VisitChanged(p) \/ Sweep(p) \/ CreateTable(p) \/ Register(p)
          \/ DropOrphan(p) \/ Activate(p) => pc[p] \in Open
      BY DEF VisitUnusable, VisitChanged, Visiting, Sweep, CreateTable, Register, DropOrphan,
         Activate, Open, PCs
    <2>2. CASE VisitUnusable(p) \/ VisitChanged(p) \/ Sweep(p) \/ CreateTable(p) \/ Register(p)
               \/ DropOrphan(p) \/ Activate(p)
      BY <1>4, <1>5, <1>6, <1>7, <1>8, <2>1, <2>2 DEF DropOrphan
    <2>3. CASE Rename(p) \/ RemoveSidecars(p)
      BY <1>9, <1>11, <2>3
    <2>4. CASE VisitTaken(p) \/ FinishSync(p) \/ FinishVectors(p) \/ RenameFails(p)
      BY <1>10, <2>4 DEF VisitTaken, FinishSync, FinishVectors, RenameFails
    <2>5. CASE ListFiles(p) \/ VisitUnchanged(p) \/ EndVisits(p) \/ EndSweep(p) \/ KeepVectors(p)
               \/ Fingerprint(p) \/ ReadDocuments(p)
      BY <1>1, <2>5 DEF ListFiles, VisitUnchanged, EndVisits, EndSweep, KeepVectors, Fingerprint,
         ReadDocuments
    <2> QED
      BY <1>15, <2>2, <2>3, <2>4, <2>5 DEF Continue
  <1> QED
    BY <1>2, <1>3, <1>11, <1>12, <1>13, <1>14, <1>15 DEF Next, Others, Step

-----------------------------------------------------------------------------
(* The visits.                                                             *)

(* A path that was visited comes before those that were not. *)
LEMMA VisitedPaths ==
    ASSUME TypeInv, NEW p \in Procs, NEW q \in Paths, Visiting(p, q), calm, VisitsWell(p)
    PROVE  LET done == job[p].listed \ job[p].todo
               left == job[p].todo \ {q}
           IN  /\ q \in job[p].todo /\ q \in job[p].listed /\ q \notin done
               /\ job[p].listed \ left = done \cup {q}
               /\ \A s \in done \cup {q}, r \in left : s < r
               /\ done \cup {q} \subseteq Paths
  <1>1. pc[p] \in Open /\ job[p].todo # {}
    BY DEF Visiting, Open, PCs
  <1>2. job[p].todo \subseteq Paths /\ job[p].listed \subseteq Paths /\ Paths \subseteq Nat
    BY <1>1, AtWork, ProjectionAssumption DEF Jobs
  <1>3. q \in job[p].todo /\ \A r \in job[p].todo : q <= r
    BY <1>1, <1>2, FirstIsLeast DEF Visiting
  <1>4. /\ job[p].todo \subseteq job[p].listed
        /\ \A s \in job[p].listed \ job[p].todo, r \in job[p].todo : s < r
    BY DEF Visiting, VisitsWell
  <1>5. \A r \in job[p].todo \ {q} : q < r
    <2> SUFFICES ASSUME NEW r \in job[p].todo, r # q PROVE q < r
      OBVIOUS
    <2>1. q \in Nat /\ r \in Nat /\ q <= r
      BY <1>2, <1>3
    <2> QED
      BY <2>1
  <1> QED
    BY <1>2, <1>3, <1>4, <1>5

(* The row of an id that was seen is of a path that was visited. *)
LEMMA SeenRow ==
    ASSUME TypeInv, NEW p \in Procs, calm, pc[p] = "visit", VisitsWell(p), NEW i \in job[p].ids
    PROVE  /\ i \in Ids
           /\ Projected[i] # NoRow
           /\ Projected[i].path \in job[p].listed \ job[p].todo
  <1>1. pc[p] \in Open
    BY DEF Open, PCs
  <1>2. job[p].todo \subseteq Paths /\ job[p].listed \subseteq Paths /\ i \in Ids
    BY <1>1, AtWork DEF Jobs
  <1>3. PICK r \in job[p].listed \ job[p].todo : Holds(r, i)
    BY DEF VisitsWell, IdsIn, Holds
  <1>4. PICK q \in Paths : /\ Holds(q, i)
                           /\ \A s \in Paths : Holds(s, i) => q <= s
                           /\ Projected[i] = [path |-> q, text |-> files[q].text]
    BY <1>2, <1>3, ProjectedRow
  <1>5. q \in job[p].listed
    BY <1>4, ProjectionAssumption DEF VisitsWell, Holds
  <1>6. q \notin job[p].todo
    <2> SUFFICES ASSUME q \in job[p].todo PROVE FALSE
      OBVIOUS
    <2>1. r < q
      BY DEF VisitsWell
    <2>2. q <= r
      BY <1>2, <1>3, <1>4
    <2>3. q \in Nat /\ r \in Nat
      BY <1>2, ProjectionAssumption
    <2> QED
      BY <2>1, <2>2, <2>3
  <1>7. Projected[i] # NoRow
    BY <1>2, <1>4, ProjectionAssumption DEF Holds, Contents
  <1> QED
    BY <1>2, <1>4, <1>5, <1>6, <1>7

(* The first file of an id is visited first. *)
LEMMA NextRow ==
    ASSUME TypeInv, NEW p \in Procs, NEW q \in Paths, Visiting(p, q), Usable(p, q), calm,
           VisitsWell(p)
    PROVE  Projected[files[q].id] = [path |-> q, text |-> files[q].text]
  <1>1. Holds(q, files[q].id) /\ files[q].id \in Ids
    BY DEF Usable, Holds, Contents
  <1>2. pc[p] = "visit" /\ q \in job[p].todo
    BY VisitedPaths DEF Visiting
  <1>3. \A r \in Paths : Holds(r, files[q].id) => r \in job[p].todo
    BY <1>2, ProjectionAssumption DEF VisitsWell, IdsIn, Holds, Usable
  <1>4. \A r \in job[p].todo : q <= r
    <2>1. job[p].todo \subseteq Paths
      BY <1>2, AtWork DEF Jobs, Open, PCs
    <2> QED
      BY <1>2, <2>1, FirstIsLeast DEF Visiting
  <1>5. PICK r \in Paths : /\ Holds(r, files[q].id)
                           /\ \A s \in Paths : Holds(s, files[q].id) => r <= s
                           /\ Projected[files[q].id] = [path |-> r, text |-> files[r].text]
    BY <1>1, ProjectedRow
  <1>6. r = q
    BY <1>1, <1>3, <1>4, <1>5, ProjectionAssumption
  <1> QED
    BY <1>5, <1>6

LEMMA IdsWith ==
    ASSUME NEW S, NEW q
    PROVE  IdsIn(S \cup {q}) =
               IF files[q] \in Contents THEN IdsIn(S) \cup {files[q].id} ELSE IdsIn(S)
  <1>1. ASSUME NEW T, NEW i PROVE i \in IdsIn(T) <=> \E r \in T : files[r] \in Contents /\ i = files[r].id
    BY DEF IdsIn
  <1>2. ASSUME NEW i
        PROVE  i \in IdsIn(S \cup {q}) <=>
                   i \in IdsIn(S) \/ (files[q] \in Contents /\ i = files[q].id)
    BY <1>1
  <1> HIDE DEF IdsIn
  <1>3. CASE files[q] \in Contents
    BY <1>2, <1>3
  <1>4. CASE files[q] \notin Contents
    BY <1>2, <1>4
  <1> QED
    BY <1>3, <1>4

(* What holds of the visits after a step, in the terms of the step. *)
LEMMA VisitsOn ==
    ASSUME NEW p \in Procs, UNCHANGED files, NEW done,
           job'[p].listed \ job'[p].todo = done,
           job'[p].listed = {r \in Paths : files[r] # NoFile},
           job'[p].todo \subseteq job'[p].listed,
           \A s \in done, r \in job'[p].todo : s < r,
           job'[p].ids = IdsIn(done),
           UniquePaths(job'[p].known),
           \A i \in job'[p].ids : Db(p)'.rows[i] = Projected[i],
           \A i \in Ids \ job'[p].ids :
              /\ Db(p)'.rows[i] # NoRow => /\ Db(p)'.rows[i] = job'[p].known[i]
                                           /\ Db(p)'.rows[i].path \notin done
              /\ job'[p].known[i] # NoRow /\ job'[p].known[i].path \notin done =>
                    Db(p)'.rows[i] = job'[p].known[i]
    PROVE  VisitsWell(p)'
  <1>1. IdsIn(job[p].listed \ job[p].todo)' = IdsIn(done)
    BY DEF IdsIn
  <1>2. UniquePaths(job[p].known)'
    BY DEF UniquePaths
  <1>3. Projected' = Projected
    BY ProjectedIsOfFiles
  <1>4. job'[p].listed = {r \in Paths : files'[r] # NoFile}
    OBVIOUS
  <1>5. \A i \in job'[p].ids : Db(p)'.rows[i] = Projected'[i]
    BY <1>3
  <1> QED
    BY <1>1, <1>2, <1>4, <1>5 DEF VisitsWell

(* A usable file is visited. *)
LEMMA UsableVisited ==
    ASSUME TypeInv, NEW p \in Procs, NEW q \in Paths, Visiting(p, q), Usable(p, q), calm,
           VisitsWell(p),
           UNCHANGED <<files, calm>>, pc' = pc,
           job' = [job EXCEPT ![p].todo = @ \ {q}, ![p].ids = @ \cup {files[q].id}],
           \A i \in Ids : Db(p)'.rows[i] =
               IF i = files[q].id THEN [path |-> q, text |-> files[q].text] ELSE Db(p).rows[i],
           \A i \in Ids \ {files[q].id} : Db(p).rows[i] # NoRow => Db(p).rows[i].path # q
    PROVE  VisitsWell(p)'
  <1> DEFINE id == files[q].id
             done == job[p].listed \ job[p].todo
  <1>1. pc[p] = "visit" /\ pc[p] \in Open /\ files[q] \in Contents /\ id \in Ids
    BY DEF Visiting, Open, PCs, Usable, Contents
  <1>2. job[p] \in Jobs /\ job \in [Procs -> Jobs \cup {NoJob}]
    BY <1>1, AtWork DEF TypeInv, TypeOK
  <1>3. /\ job'[p].listed = job[p].listed /\ job'[p].todo = job[p].todo \ {q}
        /\ job'[p].known = job[p].known /\ job'[p].ids = job[p].ids \cup {id}
    BY <1>2 DEF Jobs
  <1>4. job'[p].listed \ job'[p].todo = done \cup {q}
    BY <1>3, VisitedPaths
  <1>5. \A i \in job'[p].ids : Db(p)'.rows[i] = Projected[i]
    <2> SUFFICES ASSUME NEW i \in job'[p].ids PROVE Db(p)'.rows[i] = Projected[i]
      OBVIOUS
    <2>1. CASE i = id
      BY <1>1, <2>1, NextRow
    <2>2. CASE i # id
      BY <1>1, <1>2, <1>3, <2>2 DEF VisitsWell, Jobs
    <2> QED
      BY <2>1, <2>2
  <1>6. \A i \in Ids \ job'[p].ids :
           /\ Db(p)'.rows[i] # NoRow => /\ Db(p)'.rows[i] = job'[p].known[i]
                                        /\ Db(p)'.rows[i].path \notin done \cup {q}
           /\ job'[p].known[i] # NoRow /\ job'[p].known[i].path \notin done \cup {q} =>
                 Db(p)'.rows[i] = job'[p].known[i]
    BY <1>1, <1>3 DEF VisitsWell
  <1>7. job'[p].ids = IdsIn(done \cup {q})
    <2>1. job[p].ids = IdsIn(done)
      BY <1>1 DEF VisitsWell
    <2> QED
      BY <1>1, <1>3, <2>1, IdsWith
  <1>8. /\ job'[p].listed = {r \in Paths : files[r] # NoFile}
        /\ job'[p].todo \subseteq job'[p].listed
        /\ UniquePaths(job'[p].known)
    BY <1>1, <1>3 DEF VisitsWell
  <1>9. \A s \in done \cup {q}, r \in job'[p].todo : s < r
    BY <1>3, VisitedPaths
  <1> HIDE DEF done, id
  <1> QED
    BY <1>4, <1>5, <1>6, <1>7, <1>8, <1>9, VisitsOn

(* The rows at a path go in one transaction, when there are any. *)
LEMMA RowsGone ==
    ASSUME TypeInv, NEW p \in Procs, Db(p) \in Databases, NEW q \in Paths,
           IF IdsAt(Db(p).rows, q) = {} THEN UNCHANGED indexed
           ELSE CommitRows(p, WithoutPath(Db(p).rows, q))
    PROVE  \A i \in Ids : Db(p)'.rows[i] =
               IF Db(p).rows[i] # NoRow /\ Db(p).rows[i].path = q THEN NoRow ELSE Db(p).rows[i]
  <1>1. CASE IdsAt(Db(p).rows, q) = {}
    BY <1>1 DEF indexed, Db, IdsAt
  <1>2. CASE IdsAt(Db(p).rows, q) # {}
    <2>1. Db(p).rows \in Rows
      BY DEF Databases
    <2>2. Db(p)' = [Db(p) EXCEPT !.rows = WithoutPath(Db(p).rows, q)]
      BY <1>2, <2>1, WithoutPathRows, DatabaseUpdates, CommitWell DEF CommitRows
    <2>3. Db(p)'.rows = WithoutPath(Db(p).rows, q)
      BY <2>2 DEF Databases
    <2> QED
      BY <2>1, <2>3, WithoutPathRows
  <1> QED
    BY <1>1, <1>2

(* So is one that is not, and the rows at its path go. *)
LEMMA UnusableVisited ==
    ASSUME TypeInv, NEW p \in Procs, NEW q \in Paths, Visiting(p, q), ~ Usable(p, q), calm,
           VisitsWell(p), UNCHANGED files, job' = [job EXCEPT ![p].todo = @ \ {q}, ![p].complete = FALSE],
           \A i \in Ids : Db(p)'.rows[i] =
               IF Db(p).rows[i] # NoRow /\ Db(p).rows[i].path = q THEN NoRow ELSE Db(p).rows[i]
    PROVE  VisitsWell(p)'
  <1> DEFINE done == job[p].listed \ job[p].todo
  <1>1. pc[p] = "visit" /\ pc[p] \in Open
    BY DEF Visiting, Open, PCs
  <1>2. job[p] \in Jobs /\ job \in [Procs -> Jobs \cup {NoJob}]
    BY <1>1, AtWork DEF TypeInv, TypeOK
  <1>3. /\ job'[p].listed = job[p].listed /\ job'[p].todo = job[p].todo \ {q}
        /\ job'[p].known = job[p].known /\ job'[p].ids = job[p].ids
    BY <1>2 DEF Jobs
  <1>4. job'[p].listed \ job'[p].todo = done \cup {q}
    BY <1>3, VisitedPaths
  <1>5. \A i \in job'[p].ids : Db(p)'.rows[i] = Projected[i]
    <2> SUFFICES ASSUME NEW i \in job'[p].ids PROVE Db(p)'.rows[i] = Projected[i]
      OBVIOUS
    <2>1. i \in Ids /\ Db(p).rows[i] = Projected[i]
      BY <1>1, <1>2, <1>3 DEF VisitsWell, Jobs
    <2>2. q \notin done
      BY VisitedPaths
    <2>3. Projected[i].path \in done
      BY <1>1, <1>3, SeenRow
    <2> QED
      BY <2>1, <2>2, <2>3
  <1>6. ASSUME NEW i \in Ids \ job'[p].ids
        PROVE  /\ Db(p)'.rows[i] # NoRow => /\ Db(p)'.rows[i] = job'[p].known[i]
                                            /\ Db(p)'.rows[i].path \notin done \cup {q}
               /\ job'[p].known[i] # NoRow /\ job'[p].known[i].path \notin done \cup {q} =>
                     Db(p)'.rows[i] = job'[p].known[i]
    <2>1. /\ Db(p).rows[i] # NoRow => Db(p).rows[i] = job[p].known[i] /\ Db(p).rows[i].path \notin done
          /\ job[p].known[i] # NoRow /\ job[p].known[i].path \notin done =>
                Db(p).rows[i] = job[p].known[i]
      BY <1>1, <1>3 DEF VisitsWell
    <2>2. Db(p)'.rows[i] =
             IF Db(p).rows[i] # NoRow /\ Db(p).rows[i].path = q THEN NoRow ELSE Db(p).rows[i]
      OBVIOUS
    <2> HIDE DEF done
    <2> QED
      BY <1>3, <2>1, <2>2
  <1>7. job'[p].ids = IdsIn(done \cup {q})
    <2>1. job[p].ids = IdsIn(done)
      BY <1>1 DEF VisitsWell
    <2>2. files[q] \in Contents => files[q].id \in job[p].ids
      BY DEF Usable
    <2> HIDE DEF done
    <2>3. CASE files[q] \in Contents
      <3>1. IdsIn(done \cup {q}) = IdsIn(done) \cup {files[q].id}
        BY <2>3, IdsWith
      <3> QED
        BY <1>3, <2>1, <2>2, <2>3, <3>1
    <2>4. CASE files[q] \notin Contents
      BY <1>3, <2>1, <2>4, IdsWith
    <2> QED
      BY <2>3, <2>4
  <1>8. /\ job'[p].listed = {r \in Paths : files[r] # NoFile}
        /\ job'[p].todo \subseteq job'[p].listed
        /\ UniquePaths(job'[p].known)
    BY <1>1, <1>3 DEF VisitsWell
  <1>9. \A s \in done \cup {q}, r \in job'[p].todo : s < r
    BY <1>3, VisitedPaths
  <1> HIDE DEF done
  <1> QED
    BY <1>4, <1>5, <1>6, <1>7, <1>8, <1>9, VisitsOn

(* Nothing has been visited yet. *)
LEMMA VisitsBegin ==
    ASSUME TypeInv, SoundInv, NEW p \in Procs, ListFiles(p)
    PROVE  VisitsWell(p)'
  <1> DEFINE listed == {q \in Paths : files[q] # NoFile}
  <1>1. pc[p] \in Open /\ pc[p] = "list"
    BY DEF ListFiles, Open, PCs
  <1>2. job[p] \in Jobs /\ job \in [Procs -> Jobs \cup {NoJob}] /\ Db(p) \in Databases
    BY <1>1, AtWork DEF TypeInv, TypeOK
  <1>3. /\ job'[p].listed = listed /\ job'[p].todo = listed
        /\ job'[p].known = Db(p).rows /\ job'[p].ids = {}
    BY <1>1, <1>2 DEF ListFiles, Jobs, TypeInv, OpenInv
  <1>4. job'[p].listed \ job'[p].todo = {} /\ IdsIn({}) = {}
    BY <1>3 DEF IdsIn
  <1>5. UniquePaths(job'[p].known)
    BY <1>2, <1>3, SoundDb, ProjectionAssumption DEF Sound
  <1>6. Db(p)'.rows = Db(p).rows /\ UNCHANGED files
    BY DEF ListFiles, indexed, Db
  <1>7. \A i \in Ids \ job'[p].ids : Db(p)'.rows[i] = job'[p].known[i]
    BY <1>3, <1>6
  <1> QED
    BY <1>3, <1>4, <1>5, <1>6, <1>7, VisitsOn

(* All files have been visited: what is left has a path that is not listed. *)
LEMMA VisitsEnd ==
    ASSUME TypeInv, NEW p \in Procs, EndVisits(p), VisitsWell(p)
    PROVE  SweepsWell(p)'
  <1> SUFFICES ASSUME calm PROVE SweepsWell(p)'
    BY DEF EndVisits, SweepsWell
  <1>1. pc[p] = "visit" /\ pc[p] \in Open /\ job[p].todo = {}
    BY DEF EndVisits, Open, PCs
  <1>2. job[p] \in Jobs /\ job \in [Procs -> Jobs \cup {NoJob}] /\ Db(p) \in Databases
    BY <1>1, AtWork DEF TypeInv, TypeOK
  <1>3. /\ job'[p].todo = {q \in Paths \ job[p].listed : IdsAt(job[p].known, q) # {}}
        /\ job'[p].ids = job[p].ids
    BY <1>2 DEF EndVisits, Jobs
  <1>4. Db(p)'.rows = Db(p).rows /\ UNCHANGED files
    BY DEF EndVisits, indexed, Db
  <1>5. \A q \in job'[p].todo : files[q] = NoFile
    BY <1>1, <1>3 DEF VisitsWell
  <1>6. job[p].ids = IdsIn(Paths)
    <2>1. job[p].ids = IdsIn({q \in Paths : files[q] # NoFile})
      BY <1>1 DEF VisitsWell
    <2>2. {r \in {q \in Paths : files[q] # NoFile} : files[r] \in Contents}
             = {r \in Paths : files[r] \in Contents}
      BY ProjectionAssumption
    <2> QED
      BY <2>1, <2>2 DEF IdsIn
  <1>7. \A i \in job[p].ids : Db(p).rows[i] = Projected[i]
    BY <1>1 DEF VisitsWell
  <1>8. ASSUME NEW i \in Ids \ job[p].ids, Db(p).rows[i] # NoRow
        PROVE  Db(p).rows[i].path \in job'[p].todo
    <2>1. Db(p).rows[i].path \in Paths
      BY <1>2, <1>8 DEF Databases, Rows
    <2>2. Db(p).rows[i] = job[p].known[i] /\ Db(p).rows[i].path \notin job[p].listed
      BY <1>1, <1>8 DEF VisitsWell
    <2>3. i \in IdsAt(job[p].known, Db(p).rows[i].path)
      BY <1>8, <2>2 DEF IdsAt
    <2> QED
      BY <1>3, <2>1, <2>2, <2>3
  <1>9. IdsIn(Paths)' = IdsIn(Paths) /\ Projected' = Projected
    BY <1>4, ProjectedIsOfFiles DEF IdsIn
  <1> QED
    BY <1>3, <1>4, <1>5, <1>6, <1>7, <1>8, <1>9 DEF SweepsWell

LEMMA SweepOn ==
    ASSUME TypeInv, NEW p \in Procs, Sweep(p), SweepsWell(p), TypeInv'
    PROVE  SweepsWell(p)'
  <1> SUFFICES ASSUME calm PROVE SweepsWell(p)'
    BY DEF Sweep, SweepsWell
  <1> DEFINE q == First(job[p].todo)
  <1>1. pc[p] = "sweep" /\ pc[p] \in Open /\ job[p].todo # {}
    BY DEF Sweep, Open, PCs
  <1>2. job[p] \in Jobs /\ job \in [Procs -> Jobs \cup {NoJob}] /\ Db(p) \in Databases
    BY <1>1, AtWork DEF TypeInv, TypeOK
  <1>3. q \in job[p].todo /\ q \in Paths
    BY <1>1, <1>2, FirstIsLeast DEF Jobs
  <1>4. job'[p].todo = job[p].todo \ {q} /\ job'[p].ids = job[p].ids /\ UNCHANGED files
    BY <1>2 DEF Sweep, Jobs
  <1> HIDE DEF q
  <1>5. \A i \in Ids : Db(p)'.rows[i] =
           IF Db(p).rows[i] # NoRow /\ Db(p).rows[i].path = q THEN NoRow ELSE Db(p).rows[i]
    BY <1>2, <1>3, RowsGone DEF Sweep, q
  <1>6. \A i \in job[p].ids : i \in Ids /\ Db(p).rows[i] = Projected[i]
    BY <1>1, <1>2 DEF SweepsWell, Jobs
  <1>7. ASSUME NEW i \in job[p].ids PROVE Projected[i] # NoRow /\ Projected[i].path # q
    <2>1. PICK r \in Paths : Holds(r, i)
      BY <1>1 DEF SweepsWell, IdsIn, Holds
    <2>2. PICK s \in Paths : Holds(s, i) /\ Projected[i] = [path |-> s, text |-> files[s].text]
      BY <1>6, <2>1, ProjectedRow
    <2>3. files[q] = NoFile
      BY <1>1, <1>3 DEF SweepsWell
    <2> QED
      BY <2>2, <2>3, ProjectionAssumption DEF Holds, Contents
  <1>8. \A i \in job[p].ids : Db(p)'.rows[i] = Projected[i]
    BY <1>5, <1>6, <1>7
  <1>9. \A i \in Ids \ job[p].ids : Db(p)'.rows[i] # NoRow => Db(p)'.rows[i].path \in job'[p].todo
    BY <1>1, <1>4, <1>5 DEF SweepsWell
  <1>10. IdsIn(Paths)' = IdsIn(Paths) /\ Projected' = Projected
    BY <1>4, ProjectedIsOfFiles DEF IdsIn
  <1>11. (\A r \in job[p].todo : files[r] = NoFile) /\ job[p].ids = IdsIn(Paths)
    BY <1>1 DEF SweepsWell
  <1> QED
    BY <1>4, <1>8, <1>9, <1>10, <1>11 DEF SweepsWell

(* No row is left that should not be there. *)
LEMMA SweepEnds ==
    ASSUME TypeInv, NEW p \in Procs, EndSweep(p), SweepsWell(p), calm
    PROVE  Db(p).rows = Projected
  <1>1. pc[p] = "sweep" /\ pc[p] \in Open /\ job[p].todo = {}
    BY DEF EndSweep, Open, PCs
  <1>2. job[p] \in Jobs /\ Db(p).rows \in Rows
    BY <1>1, AtWork DEF Databases
  <1>3. ASSUME NEW i \in Ids PROVE Db(p).rows[i] = Projected[i]
    <2>1. CASE i \in job[p].ids
      BY <1>1, <2>1 DEF SweepsWell
    <2>2. CASE i \notin job[p].ids
      <3>1. Db(p).rows[i] = NoRow
        BY <1>1, <2>2 DEF SweepsWell
      <3>2. \A q \in Paths : ~ Holds(q, i)
        BY <1>1, <2>2 DEF SweepsWell, IdsIn, Holds
      <3> QED
        BY <3>1, <3>2, ProjectedRow
    <2> QED
      BY <2>1, <2>2
  <1>4. Projected = [i \in Ids |-> Projected[i]] /\ Db(p).rows = [i \in Ids |-> Db(p).rows[i]]
    BY <1>2 DEF Projected, Rows
  <1> QED
    BY <1>3, <1>4

-----------------------------------------------------------------------------
(* The steps of an operation.                                              *)

Operates(p) == EmbedsWell(p) /\ VisitsWell(p) /\ SweepsWell(p) /\ StaysSynced(p)

(* Nothing is asked of a process elsewhere. *)
LEMMA Elsewhere ==
    ASSUME NEW p \in Procs, pc'[p] \notin {"visit", "sweep"} \cup Synced
    PROVE  Operates(p)'
  BY DEF Operates, EmbedsWell, VisitsWell, SweepsWell, StaysSynced, Synced, Embedded

(* Only the holder of the lock is at work. *)
LEMMA OnlyHolder ==
    ASSUME TypeInv', NEW p \in Procs, pc'[p] # "idle", Operates(p)'
    PROVE  \A q \in Procs : Operates(q)'
  <1>1. \A q \in Procs \ {p} : pc'[q] = "idle"
    BY Alone DEF TypeInv
  <1> QED
    BY <1>1, Elsewhere DEF Synced

LEMMA VisitStep ==
    ASSUME TypeInv, SoundInv, NEW p \in Procs, Operates(p),
           VisitUnusable(p) \/ VisitUnchanged(p) \/ VisitChanged(p)
    PROVE  pc'[p] = "visit" /\ Operates(p)'
  <1>1. pc[p] = "visit" /\ pc'[p] = "visit" /\ pc[p] \in Open /\ UNCHANGED <<files, calm>> /\ pc' = pc
    BY DEF VisitUnusable, VisitUnchanged, VisitChanged, Visiting, Open, PCs
  <1>2. job[p] \in Jobs /\ Db(p) \in Databases /\ Db(p).rows \in Rows /\ UniquePaths(Db(p).rows)
    BY <1>1, AtWork, SoundDb, ProjectionAssumption DEF Sound, Databases
  <1>3. EmbedsWell(p)' /\ SweepsWell(p)' /\ StaysSynced(p)'
    BY <1>1 DEF EmbedsWell, SweepsWell, StaysSynced, Synced, Embedded
  <1>4. ASSUME calm PROVE VisitsWell(p)'
    <2>1. VisitsWell(p)
      BY DEF Operates
    <2>2. CASE VisitUnusable(p)
      <3>1. PICK q \in Paths :
               /\ Visiting(p, q) /\ ~ Usable(p, q)
               /\ IF IdsAt(Db(p).rows, q) = {} THEN UNCHANGED indexed
                  ELSE CommitRows(p, WithoutPath(Db(p).rows, q))
               /\ job' = [job EXCEPT ![p].todo = @ \ {q}, ![p].complete = FALSE]
        BY <2>2 DEF VisitUnusable
      <3> QED
        BY <1>1, <1>2, <1>4, <2>1, <3>1, RowsGone, UnusableVisited
    <2>3. CASE VisitUnchanged(p)
      <3>1. PICK q \in Paths :
               /\ Visiting(p, q) /\ Usable(p, q) /\ Unchanged(p, q) /\ UNCHANGED indexed
               /\ job' = [job EXCEPT ![p].todo = @ \ {q}, ![p].ids = @ \cup {files[q].id}]
        BY <2>3 DEF VisitUnchanged
      <3>2. Db(p)'.rows = Db(p).rows
        BY <3>1 DEF indexed, Db
      <3>3. files[q].id \in Ids \ job[p].ids /\ files[q].text \in Texts
        BY <3>1 DEF Usable, Contents
      <3>4. /\ job[p].known[files[q].id] = [path |-> q, text |-> files[q].text]
            /\ job[p].known[files[q].id] # NoRow
        BY <3>1, <3>3, ProjectionAssumption DEF Unchanged
      <3>5. q \notin job[p].listed \ job[p].todo
        BY <1>4, <2>1, <3>1, VisitedPaths
      <3>6. Db(p).rows[files[q].id] = [path |-> q, text |-> files[q].text]
        BY <1>1, <1>4, <2>1, <3>3, <3>4, <3>5 DEF VisitsWell
      <3>7. \A i \in Ids \ {files[q].id} : Db(p).rows[i] # NoRow => Db(p).rows[i].path # q
        BY <1>2, <3>3, <3>4, <3>6 DEF UniquePaths
      <3> QED
        BY <1>1, <1>4, <2>1, <3>1, <3>2, <3>6, <3>7, UsableVisited
    <2>4. CASE VisitChanged(p)
      <3>1. PICK q \in Paths :
               /\ Visiting(p, q) /\ Usable(p, q) /\ ~ Taken(p, q)
               /\ CommitRows(p, WithRecord(Db(p).rows, q, files[q]))
               /\ job' = [job EXCEPT ![p].todo = @ \ {q}, ![p].ids = @ \cup {files[q].id}]
        BY <2>4 DEF VisitChanged
      <3>2. files[q] \in Contents
        BY <3>1 DEF Usable
      <3>3. Db(p)' = [Db(p) EXCEPT !.rows = WithRecord(Db(p).rows, q, files[q])]
        <4>1. WithRecord(Db(p).rows, q, files[q]) \in Rows
          BY <1>2, <3>2, WithRecordRows
        <4>2. [Db(p) EXCEPT !.rows = WithRecord(Db(p).rows, q, files[q])] \in Databases
          BY <1>2, <4>1, DatabaseUpdates
        <4> QED
          BY <3>1, <4>2, CommitWell DEF CommitRows
      <3>4. Db(p)'.rows = WithRecord(Db(p).rows, q, files[q])
        BY <1>2, <3>3 DEF Databases
      <3>5. \A i \in Ids : Db(p)'.rows[i] =
               IF i = files[q].id THEN [path |-> q, text |-> files[q].text] ELSE Db(p).rows[i]
        BY <1>2, <3>2, <3>4, WithRecordRows
      <3>6. \A i \in Ids \ {files[q].id} : Db(p).rows[i] # NoRow => Db(p).rows[i].path # q
        BY <3>1 DEF Taken, IdsAt
      <3> QED
        BY <1>1, <1>4, <2>1, <3>1, <3>5, <3>6, UsableVisited
    <2> QED
      BY <2>2, <2>3, <2>4
  <1>5. VisitsWell(p)'
    BY <1>1, <1>4 DEF VisitsWell
  <1> QED
    BY <1>1, <1>3, <1>5 DEF Operates

LEMMA SweepStep ==
    ASSUME TypeInv, SoundInv, TypeInv', NEW p \in Procs, Operates(p),
           ListFiles(p) \/ EndVisits(p) \/ Sweep(p) \/ EndSweep(p)
    PROVE  pc'[p] # "idle" /\ Operates(p)'
  <1> USE DEF Operates
  <1>0. pc \in [Procs -> PCs] /\ calm \in BOOLEAN
    BY DEF TypeInv, TypeOK
  <1>1. CASE ListFiles(p)
    <2>1. pc'[p] = "visit"
      BY <1>0, <1>1 DEF ListFiles
    <2> QED
      BY <1>1, <2>1, VisitsBegin DEF EmbedsWell, SweepsWell, StaysSynced, Synced, Embedded
  <1>2. CASE EndVisits(p)
    <2>1. pc'[p] = "sweep"
      BY <1>0, <1>2 DEF EndVisits
    <2> QED
      BY <1>2, <2>1, VisitsEnd DEF EmbedsWell, VisitsWell, StaysSynced, Synced, Embedded
  <1>3. CASE Sweep(p)
    <2>1. pc'[p] = "sweep"
      BY <1>0, <1>3 DEF Sweep
    <2> QED
      BY <1>3, <2>1, SweepOn DEF EmbedsWell, VisitsWell, StaysSynced, Synced, Embedded
  <1>4. CASE EndSweep(p)
    <2>1. pc'[p] = "synced" /\ UNCHANGED <<files, indexed, calm>>
      BY <1>0, <1>4 DEF EndSweep
    <2>2. Db(p)' = Db(p) /\ Projected' = Projected
      BY <2>1, ProjectedIsOfFiles DEF indexed, Db
    <2>3. calm => Db(p)'.rows = Projected'
      BY <1>4, <2>2, SweepEnds
    <2> QED
      BY <2>1, <2>3 DEF EmbedsWell, VisitsWell, SweepsWell, StaysSynced, Embedded
  <1> QED
    BY <1>1, <1>2, <1>3, <1>4

(* The vectors are rebuilt from rows that stay as they are. *)
LEMMA VectorStep ==
    ASSUME TypeInv, SoundInv, NEW p \in Procs, Operates(p),
           \/ KeepVectors(p) \/ Fingerprint(p) \/ ReadDocuments(p)
           \/ CreateTable(p) \/ Register(p) \/ Activate(p)
    PROVE  pc'[p] # "idle" /\ Operates(p)'
  <1>0. pc[p] \in Open /\ pc \in [Procs -> PCs] /\ UNCHANGED <<files, calm>> /\ Projected' = Projected
    BY ProjectedIsOfFiles DEF KeepVectors, Fingerprint, ReadDocuments, CreateTable, Register, Activate,
       Open, PCs, TypeInv, TypeOK
  <1>1. job[p] \in Jobs /\ job \in [Procs -> Jobs \cup {NoJob}] /\ Db(p) \in Databases
    BY <1>0, AtWork DEF TypeInv, TypeOK
  <1>2. Db(p)'.rows = Db(p).rows
    <2>1. CASE KeepVectors(p) \/ Fingerprint(p) \/ ReadDocuments(p)
      BY <2>1 DEF KeepVectors, Fingerprint, ReadDocuments, indexed, Db
    <2>2. CASE CreateTable(p) \/ Register(p)
      <3>1. PICK o \in BOOLEAN : Commit(p, [Db(p) EXCEPT !.orphan = o])
        BY <2>2 DEF CreateTable, Register
      <3>2. Db(p)' = [Db(p) EXCEPT !.orphan = o]
        BY <1>1, <3>1, DatabaseUpdates, CommitWell
      <3> QED
        BY <1>1, <3>2 DEF Databases
    <2>3. CASE Activate(p)
      <3>1. Commit(p, [Db(p) EXCEPT !.active = job[p].vectors]) /\ job[p].vectors \in Vectors \cup {NoVectors}
        BY <1>1, <2>3 DEF Activate, Jobs
      <3>2. Db(p)' = [Db(p) EXCEPT !.active = job[p].vectors]
        BY <1>1, <3>1, DatabaseUpdates, CommitWell
      <3> QED
        BY <1>1, <3>2 DEF Databases
    <2> QED
      BY <2>1, <2>2, <2>3
  <1>3. calm => Db(p).rows = Projected
    BY DEF Operates, StaysSynced, Synced, KeepVectors, Fingerprint, ReadDocuments, CreateTable,
       Register, Activate
  <1>4. pc'[p] \in Synced \ {"synced"}
    BY <1>0 DEF Synced, KeepVectors, Fingerprint, ReadDocuments, CreateTable, Register, Activate
  <1>5. VisitsWell(p)' /\ SweepsWell(p)'
    BY <1>4 DEF VisitsWell, SweepsWell, Synced
  <1>6. /\ pc'[p] = "read" => job'[p].vectors.projection = Db(p)'.rows
        /\ pc'[p] \in Embedded => /\ Faithful(job'[p].vectors)
                                  /\ calm => job'[p].vectors.docs = Projected
    <2>1. CASE KeepVectors(p) \/ Activate(p)
      <3>1. pc'[p] = "finished"
        BY <1>0, <2>1 DEF KeepVectors, Activate
      <3> QED
        BY <3>1 DEF Embedded
    <2>2. CASE Fingerprint(p)
      <3>1. pc'[p] = "read" /\ job'[p].vectors.projection = Db(p).rows
        BY <1>0, <1>1, <2>2 DEF Fingerprint, Jobs
      <3> QED
        BY <1>2, <3>1 DEF Embedded
    <2>3. CASE ReadDocuments(p)
      <3>1. pc[p] = "read" /\ pc'[p] = "table" /\ job'[p].vectors = [job[p].vectors EXCEPT !.docs = Db(p).rows]
        BY <1>0, <1>1, <2>3 DEF ReadDocuments, Jobs
      <3>2. job[p].vectors \in Vectors
        BY <1>1, <3>1 DEF TypeInv, OpenInv, Open, PCs, Embedding, Jobs
      <3>3. job'[p].vectors.docs = Db(p).rows /\ job'[p].vectors.projection = job[p].vectors.projection
        BY <3>1, <3>2 DEF Vectors
      <3>4. job[p].vectors.projection = Db(p).rows
        BY <3>1 DEF Operates, EmbedsWell
      <3> QED
        BY <1>3, <3>1, <3>3, <3>4 DEF Faithful
    <2>4. CASE CreateTable(p) \/ Register(p)
      <3>1. pc[p] \in Embedded /\ pc'[p] # "read" /\ job' = job
        BY <1>0, <2>4 DEF CreateTable, Register, Embedded
      <3> QED
        BY <3>1 DEF Operates, EmbedsWell, StaysSynced
    <2> QED
      BY <2>1, <2>2, <2>3, <2>4
  <1>7. EmbedsWell(p)' /\ StaysSynced(p)'
    BY <1>0, <1>2, <1>3, <1>6 DEF EmbedsWell, StaysSynced, Faithful
  <1> QED
    BY <1>4, <1>5, <1>7 DEF Operates, Synced

(* A step that leaves a process and its database alone. *)
LEMMA SameOperation ==
    ASSUME NEW p \in Procs, Operates(p), UNCHANGED <<files, pc, job, calm>>, Db(p)' = Db(p)
    PROVE  Operates(p)'
  <1>1. Projected' = Projected /\ IdsIn(Paths)' = IdsIn(Paths)
    BY DEF Projected, IdsIn
  <1>2. VisitsWell(p)'
    BY <1>1 DEF Operates, VisitsWell, IdsIn, UniquePaths
  <1> QED
    BY <1>1, <1>2 DEF Operates, EmbedsWell, SweepsWell, StaysSynced, Faithful

(* A process gets to the clean-up by the rename only. *)
LEMMA OnlyRename ==
    ASSUME TypeInv, [Next]_vars, NEW p \in Procs, pc[p] \in Open, pc'[p] = "sidecars"
    PROVE  Rename(p)
  <1> SUFFICES ASSUME NEW q \in Procs, Step(q) \/ StartReindex(q), ~ Rename(q) PROVE pc'[p] # "sidecars"
    <2>1. pc' = pc => FALSE
      BY DEF Open
    <2>2. PICK q \in Procs : Step(q) \/ StartReindex(q)
      BY <2>1 DEF Next, Others, Gc, RemoveTemps, Author, vars
    <2>3. Rename(q) => q = p
      BY DEF Rename, TypeInv, TypeOK, Open
    <2> QED
      BY <2>2, <2>3
  <1>1. \E label \in PCs \ {"sidecars"} : pc' = [pc EXCEPT ![q] = label] \/ pc' = pc
    BY DEF Step, StartReindex, StartOnIndex, Start, Continue, Fail, Crash, Close, Release, DropTable,
       ListFiles, VisitUnusable, VisitUnchanged, VisitChanged, VisitTaken, EndVisits, Sweep, EndSweep,
       FinishSync, KeepVectors, Fingerprint, ReadDocuments, CreateTable, DropOrphan, Register,
       Activate, FinishVectors, RenameFails, RemoveSidecars, PCs
  <1> QED
    BY <1>1 DEF TypeInv, TypeOK, Open

LEMMA OperationStep == IndexInv /\ [Next]_vars => OperationInv'
  <1> SUFFICES ASSUME IndexInv, [Next]_vars PROVE \A q \in Procs : Operates(q)'
    BY DEF OperationInv, Operates
  <1>0. TypeInv /\ SoundInv /\ TypeInv' /\ \A q \in Procs : Operates(q)
    BY TypeStep DEF IndexInv, OperationInv, Operates
  <1>1. ASSUME NEW p \in Procs, StartOnIndex(p) \/ StartReindex(p) PROVE \A q \in Procs : Operates(q)'
    <2>1. pc'[p] = "list"
      BY <1>0, <1>1 DEF StartOnIndex, StartReindex, Start, TypeInv, TypeOK
    <2> QED
      BY <1>0, <2>1, Elsewhere, OnlyHolder DEF Synced
  <1>2. ASSUME NEW p \in Procs, VisitUnusable(p) \/ VisitUnchanged(p) \/ VisitChanged(p)
        PROVE  \A q \in Procs : Operates(q)'
    BY <1>0, <1>2, VisitStep, OnlyHolder
  <1>3. ASSUME NEW p \in Procs, ListFiles(p) \/ EndVisits(p) \/ Sweep(p) \/ EndSweep(p)
        PROVE  \A q \in Procs : Operates(q)'
    BY <1>0, <1>3, SweepStep, OnlyHolder
  <1>4. ASSUME NEW p \in Procs,
               \/ KeepVectors(p) \/ Fingerprint(p) \/ ReadDocuments(p)
               \/ CreateTable(p) \/ Register(p) \/ Activate(p)
        PROVE  \A q \in Procs : Operates(q)'
    BY <1>0, <1>4, VectorStep, OnlyHolder
  <1>5. ASSUME NEW p \in Procs, DropTable(p) PROVE \A q \in Procs : Operates(q)'
    <2>1. pc'[p] = "failed"
      BY <1>0, <1>5 DEF DropTable, TypeInv, TypeOK
    <2> QED
      BY <1>0, <2>1, Elsewhere, OnlyHolder DEF Synced
  <1>6. ASSUME NEW p \in Procs, Rename(p) PROVE \A q \in Procs : Operates(q)'
    <2>1. pc'[p] = "sidecars"
      BY <1>0, <1>6 DEF Rename, TypeInv, TypeOK
    <2> QED
      BY <1>0, <2>1, Elsewhere, OnlyHolder DEF Synced
  <1>7. ASSUME NEW p \in Procs, pc[p] # "idle", Release(p) PROVE \A q \in Procs : Operates(q)'
    <2>1. \A q \in Procs : pc'[q] = "idle"
      BY <1>0, <1>7 DEF Release, TypeInv, TypeOK
    <2> QED
      BY <2>1, Elsewhere DEF Synced
  <1>8. CASE Gc
    <2>1. \A q \in Procs : pc[q] \in Open => Db(q)' = Db(q)
      BY <1>0, <1>8 DEF Gc, TypeInv, TypeOK, OpenInv, Db, Open
    <2>2. Projected' = Projected /\ IdsIn(Paths)' = IdsIn(Paths) /\ UNCHANGED <<files, pc, job, calm>>
      BY <1>8 DEF Gc, Projected, IdsIn
    <2>3. ASSUME NEW q \in Procs, pc[q] \in {"visit", "sweep"} \cup Synced PROVE Operates(q)'
      <3>1. Db(q)' = Db(q)
        BY <2>1, <2>3 DEF Open, PCs, Synced
      <3> QED
        BY <1>0, <2>2, <3>1, SameOperation
    <2> QED
      BY <2>2, <2>3, Elsewhere
  <1>9. CASE RemoveTemps \/ UNCHANGED vars
    BY <1>0, <1>9, SameOperation DEF RemoveTemps, vars, indexed, Db
  <1>10. CASE Author
    <2>1. UNCHANGED <<indexed, pc, job>> /\ ~ calm'
      BY <1>10 DEF Author
    <2>2. \A q \in Procs : Db(q)' = Db(q)
      BY <2>1 DEF indexed, Db
    <2> QED
      BY <1>0, <2>1, <2>2 DEF Operates, EmbedsWell, VisitsWell, SweepsWell, StaysSynced, Faithful
  <1>11. ASSUME NEW p \in Procs, Fail(p) \/ Crash(p) PROVE \A q \in Procs : Operates(q)'
    BY <1>5, <1>7, <1>11 DEF Fail, Crash, Close
  <1>12. ASSUME NEW p \in Procs, Continue(p) PROVE \A q \in Procs : Operates(q)'
    <2>1. CASE VisitTaken(p) \/ FinishSync(p) \/ FinishVectors(p) \/ RenameFails(p) \/ RemoveSidecars(p)
      BY <1>7, <2>1 DEF VisitTaken, Visiting, FinishSync, FinishVectors, RenameFails, Built,
         RemoveSidecars, Close
    <2>2. CASE DropOrphan(p)
      BY <1>5, <2>2 DEF DropOrphan
    <2> QED
      BY <1>2, <1>3, <1>4, <1>6, <1>12, <2>1, <2>2 DEF Continue
  <1> QED
    BY <1>1, <1>8, <1>9, <1>10, <1>11, <1>12 DEF Next, Others, Step

-----------------------------------------------------------------------------
(* Theorems.                                                               *)

LEMMA InitIndex == Init => IndexInv
  BY InitTypes DEF Init, IndexInv, OperationInv, EmbedsWell, VisitsWell, SweepsWell, StaysSynced,
     Synced, Embedded

LEMMA IndexStep == IndexInv /\ [Next]_vars => IndexInv'
  BY TypeStep, SoundStep, OperationStep DEF IndexInv, OperationInv

LEMMA IndexIsInvariant == Spec => []IndexInv
  BY InitIndex, IndexStep, PTL DEF Spec

(* Every state has its type. *)
THEOREM TypeCorrect == Spec => []TypeOK
  <1>1. IndexInv => TypeOK
    BY DEF IndexInv, TypeInv
  <1> QED
    BY <1>1, IndexIsInvariant, PTL

(* sync_canonical, whatever the index held, whoever died before and        *)
(* whatever gc and doctor remove meanwhile: a sync that succeeds while the *)
(* files stay put leaves one row for the first file of every id, and no    *)
(* others.                                                                 *)
THEOREM SyncLeavesTheRows == Spec => []SyncIsExact
  <1>1. IndexInv => SyncIsExact
    BY DEF IndexInv, OperationInv, StaysSynced, Synced, SyncIsExact
  <1> QED
    BY <1>1, IndexIsInvariant, PTL

(* reindex never switches to an index that was built only in part. *)
THEOREM SwitchesAreComplete == Spec => SwitchIsComplete
  <1>1. IndexInv /\ [Next]_vars =>
           [\A p \in Procs : Built(p) /\ pc'[p] = "sidecars" /\ calm => index'.rows = Projected]_vars
    <2> SUFFICES ASSUME IndexInv, [Next]_vars, NEW p \in Procs, Built(p), pc'[p] = "sidecars", calm
                 PROVE  index'.rows = Projected
      OBVIOUS
    <2>1. /\ pc[p] \in Synced /\ pc[p] \in Open /\ pc[p] # "idle" /\ pc[p] # "sidecars"
          /\ job[p].op \in Rebuilds
      BY DEF Built, Synced, Open, PCs, Rebuilds
    <2>2. Db(p).rows = Projected
      BY <2>1 DEF IndexInv, OperationInv, StaysSynced
    <2>3. private[p] # NoDb
      BY <2>1 DEF IndexInv, TypeInv, OpenInv
    <2>4. Rename(p)
      BY <2>1, OnlyRename DEF IndexInv
    <2> QED
      BY <2>2, <2>3, <2>4 DEF Rename, Db
  <1> QED
    BY <1>1, IndexIsInvariant, PTL DEF Spec, SwitchIsComplete

(* vector_hits joins hits with the rows they were embedded from. *)
THEOREM HitsMatchRows == Spec => []VectorsMatchRows
  <1>1. IndexInv => VectorsMatchRows
    BY DEF IndexInv, SoundInv, Sound, Faithful, VectorsMatchRows
  <1> QED
    BY <1>1, IndexIsInvariant, PTL

(* A rebuild during which no file changes embeds every record as it is. *)
THEOREM RebuildsAreCurrent == Spec => []RebuildIsCurrent
  <1>1. IndexInv => RebuildIsCurrent
    BY DEF IndexInv, OperationInv, StaysSynced, Embedded, RebuildIsCurrent
  <1> QED
    BY <1>1, IndexIsInvariant, PTL

(* A store in which a reindex starts when the log is checkpointed is a     *)
(* store: what is proved of the one holds of the other.                    *)
LEMMA CheckpointedIsSpec == CheckpointedSpec => Spec
  <1>1. [CheckpointedNext]_vars => [Next]_vars
    BY DEF CheckpointedNext, Next, StartReindexCheckpointed
  <1> QED
    BY <1>1, PTL DEF CheckpointedSpec, Spec

=============================================================================
