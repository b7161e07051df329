------------------------ MODULE StoreLifecycleProofs ------------------------
(***************************************************************************)
(* Theorems about StoreLifecycle, for any number of processes, project ids *)
(* and lock files.  A lock file is locked by one process at a time; while  *)
(* no second lock file is created beside one that is open, that makes one  *)
(* holder of the lock of the store, which is what the rest follows from.   *)
(***************************************************************************)
EXTENDS StoreLifecycle, TLAPS

Waiting == {"trylock"} \cup Holding
Ignoring == {"ignore", "create", "fill"}

Labels == {"idle", "confirm", "check", "open", "trylock", "ignore", "create", "fill"} \cup Holding

(* What a process has been asked to do fits where it is. *)
Fits(label, j) ==
    /\ label = "idle" => j = NoJob
    /\ label \in {"confirm", "export", "delete"} => j.op = "destroy"
    /\ label = "export" => j.todo = Entries
    /\ label = "write_record" => j.op = "write"
    /\ label \in Ignoring \cup {"write_marker"} => j.op = "init"
    /\ j.op = "write" => j.id \in Ids

JobInv == \A p \in Processes : Fits(pc[p], job[p])

TypeInv == TypeOK /\ JobInv

(* Whoever waits for the lock or holds it has a lock file open; one process *)
(* locks a file; and while there is no second lock, the files that are open *)
(* are one, which is at its path until a deletion comes to it.              *)
LockInv ==
    /\ \A p \in Processes : job[p].opened # 0 <=> pc[p] \in Waiting
    /\ \A p, q \in Processes :
          /\ pc[p] \in Holding /\ pc[q] \in Holding
          /\ job[p].opened = job[q].opened
          => p = q
    /\ ~split =>
          \A p \in Processes : job[p].opened # 0 =>
              /\ lockFile \in {0, job[p].opened}
              /\ \A q \in Processes : job[q].opened \in {0, job[p].opened}

(* What a holder of the lock has found out about the store is still so.    *)
MarkerInv ==
    ~split =>
      \A p \in Processes :
        /\ pc[p] = "write_marker" => marker = NoStore
        /\ pc[p] = "export" => marker # NoStore /\ marker.id = job[p].id
        /\ pc[p] = "delete" => marker = NoStore \/ marker.id = job[p].id
        /\ pc[p] = "delete" /\ job[p].export => records \subseteq archive

LifeInv == TypeInv /\ LockInv /\ MarkerInv

(* A deletion that has begun to take the store's identity away. *)
Deleted(p) == pc[p] = "delete" /\ ~ {"marker", "ignore"} \subseteq job[p].todo

(* The ignore file belongs to the store that is there, unless somebody has *)
(* died over it, or deleted the store of somebody who initializes it, or   *)
(* there have been two locks.                                              *)
IgnoreInv ==
    ~torn =>
      /\ ~split
      /\ \A p \in Processes :
            /\ Finishing(p) => marker # NoStore /\ job[p].visibility = marker.visibility
            /\ pc[p] = "fill" => ignore # "missing"
            /\ pc[p] = "delete" /\ "ignore" \notin job[p].todo => ignore = "missing"
            /\ Deleted(p) => \A q \in Processes : ~Finishing(q)
      /\ ready => marker # NoStore /\ ignore # "missing"
      /\ ignore = "empty" => \E p \in Processes : pc[p] = "fill"
      /\ marker = NoStore /\ ignore # "missing" => \E p \in Processes : pc[p] = "delete"
      /\ marker # NoStore /\ ignore \in Visibilities => ignore = marker.visibility

-----------------------------------------------------------------------------
(* Types.                                                                  *)

(* Jobs that differ in one field. *)
LEMMA JobUpdates ==
    ASSUME NEW j \in Job
    PROVE  /\ \A op \in {"init", "write", "destroy"} : [j EXCEPT !.op = op] \in Job
           /\ \A v \in Visibilities : [j EXCEPT !.visibility = v] \in Job
           /\ \A n \in 0..MaxLocks : [j EXCEPT !.opened = n] \in Job
           /\ \A i \in Ids : [j EXCEPT !.id = i] \in Job
           /\ \A e \in BOOLEAN : [j EXCEPT !.export = e] \in Job
  BY DEF Job, Visibilities

LEMMA NoJobType == NoJob \in Job
  BY MaxLocksIsNat DEF NoJob, Job, Visibilities

(* A process moves on to a label with a job. *)
Moves(p, label, j) ==
    /\ pc' = [pc EXCEPT ![p] = label]
    /\ job' = [job EXCEPT ![p] = j]

MovesType ==
    /\ pc \in [Processes -> Labels]
    /\ job \in [Processes -> Job]
    /\ JobInv

LEMMA MovesWell ==
    ASSUME MovesType, NEW p \in Processes, NEW label \in Labels, NEW j \in Job,
           Moves(p, label, j), Fits(label, j)
    PROVE  MovesType'
  BY DEF MovesType, Moves, JobInv

LEMMA ReturnsWell ==
    ASSUME MovesType, NEW p \in Processes, Return(p)
    PROVE  MovesType'
  <1>1. NoJob \in Job /\ Fits("idle", NoJob)
    BY MaxLocksIsNat DEF NoJob, Job, Fits, Visibilities, Ignoring
  <1>2. Moves(p, "idle", NoJob) /\ "idle" \in Labels
    BY DEF Return, Goto, Moves, Labels
  <1> QED
    BY <1>1, <1>2, MovesWell

(* ... or with the job it has. *)
LEMMA GoesWell ==
    ASSUME MovesType, NEW p \in Processes, NEW label \in Labels,
           Goto(p, label), UNCHANGED job, Fits(label, job[p])
    PROVE  MovesType'
  BY DEF MovesType, Goto, JobInv

StoreType ==
    /\ marker \in Stores \cup {NoStore}
    /\ ignore \in {"missing", "empty"} \cup Visibilities
    /\ directory \in BOOLEAN
    /\ records \in SUBSET Records /\ (records # {} => directory)
    /\ lockFile \in 0..created /\ created \in 0..MaxLocks
    /\ used \in SUBSET Ids /\ archive \in SUBSET Records
    /\ ready \in BOOLEAN /\ torn \in BOOLEAN

LEMMA TypeParts ==
    /\ TypeInv <=> StoreType /\ MovesType /\ split \in BOOLEAN
    /\ TypeInv' <=> StoreType' /\ MovesType' /\ split' \in BOOLEAN
  BY DEF TypeInv, TypeOK, StoreType, MovesType, Labels

LEMMA InitType == Init => TypeInv
  <1> SUFFICES ASSUME Init PROVE TypeInv
    OBVIOUS
  <1>1. NoJob \in Job /\ Fits("idle", NoJob)
    BY MaxLocksIsNat DEF NoJob, Job, Fits, Visibilities, Ignoring
  <1>2. StoreType
    <2>1. lockFile \in 0..created /\ created \in 0..MaxLocks
      BY MaxLocksIsNat DEF Init
    <2> QED
      BY <2>1, Zenon DEF Init, StoreType
  <1>3. MovesType
    BY <1>1 DEF Init, MovesType, JobInv, Labels
  <1>4. split \in BOOLEAN
    BY DEF Init
  <1> QED
    BY <1>2, <1>3, <1>4, TypeParts

LEMMA TypeStep == TypeInv /\ [Next]_vars => TypeInv'
  <1>a. split \in BOOLEAN /\ [Next]_vars => split' \in BOOLEAN
    BY DEF Next, WatchLocks, vars
  <1> SUFFICES ASSUME StoreType, MovesType, [Next]_vars
               PROVE  StoreType' /\ MovesType'
    BY <1>a, TypeParts
  <1> USE NoStoreIsNoStore, MaxLocksIsNat
  <1>0. CASE UNCHANGED vars
    BY <1>0 DEF vars, StoreType, MovesType, JobInv
  <1>1. ASSUME NEW p \in Processes, CheckStore(p) PROVE StoreType' /\ MovesType'
    <2>1. StoreType'
      BY <1>1 DEF CheckStore, StoreType, tree
    <2>2. Return(p) \/ (Goto(p, "open") /\ UNCHANGED job)
      BY <1>1 DEF CheckStore
    <2>3. "open" \in Labels /\ Fits("open", job[p])
      BY <1>1 DEF CheckStore, MovesType, JobInv, Fits, Labels, Holding, Ignoring
    <2>4. MovesType'
      BY <2>2, <2>3, GoesWell, ReturnsWell
    <2> QED
      BY <2>1, <2>4
  <1>2. ASSUME NEW p \in Processes, OpenLock(p) PROVE StoreType' /\ MovesType'
    <2>1. StoreType'
      BY <1>2 DEF OpenLock, StoreType, tree
    <2> DEFINE j == [job[p] EXCEPT !.opened = lockFile']
    <2>2. Moves(p, "trylock", j)
      BY <1>2 DEF OpenLock, Moves, Goto
    <2>3. j \in Job
      BY <1>2, <2>1 DEF OpenLock, StoreType, MovesType, Job, NoJob, Stores, Visibilities
    <2>4. "trylock" \in Labels /\ Fits("trylock", j)
      BY <1>2
         DEF OpenLock, StoreType, MovesType, JobInv, Fits, Job, NoJob, Stores, Labels,
             Holding, Ignoring
    <2> HIDE DEF j
    <2>5. MovesType'
      BY <2>2, <2>3, <2>4, MovesWell
    <2> QED
      BY <2>1, <2>5
  <1>3. ASSUME NEW p \in Processes, TryLock(p) PROVE StoreType' /\ MovesType'
    <2>1. StoreType'
      BY <1>3 DEF TryLock, StoreType, tree
    <2>2. Return(p) \/ (Goto(p, "locked") /\ UNCHANGED job)
      BY <1>3 DEF TryLock
    <2>3. "locked" \in Labels /\ Fits("locked", job[p])
      BY <1>3 DEF TryLock, MovesType, JobInv, Fits, Labels, Holding, Ignoring
    <2>4. MovesType'
      BY <2>2, <2>3, GoesWell, ReturnsWell
    <2> QED
      BY <2>1, <2>4
  <1>4. ASSUME NEW p \in Processes, StartInit(p) PROVE StoreType' /\ MovesType'
    <2>1. StoreType'
      BY <1>4 DEF StartInit, StoreType, tree
    <2>2. PICK visibility \in Visibilities :
            Moves(p, "open", [NoJob EXCEPT !.op = "init", !.visibility = visibility])
      BY <1>4 DEF StartInit, Moves, Goto
    <2> DEFINE j == [NoJob EXCEPT !.op = "init", !.visibility = visibility]
    <2>3. j \in Job
      <3>1. [NoJob EXCEPT !.op = "init"] \in Job
        BY JobUpdates, NoJobType
      <3> QED
        BY <3>1, JobUpdates
    <2>4. "open" \in Labels /\ Fits("open", j)
      BY <1>4 DEF StartInit, Fits, NoJob, Labels, Holding, Ignoring
    <2> HIDE DEF j
    <2>5. Moves(p, "open", j)
      BY <2>2 DEF j
    <2>6. MovesType'
      BY <2>3, <2>4, <2>5, MovesWell
    <2> QED
      BY <2>1, <2>6
  <1>5. ASSUME NEW p \in Processes, FindMarker(p) PROVE StoreType' /\ MovesType'
    <2>1. StoreType'
      BY <1>5 DEF FindMarker, StoreType, tree
    <2> DEFINE j == [job[p] EXCEPT !.visibility = marker.visibility, !.opened = 0]
    <2>2. Return(p) \/ Moves(p, "ignore", j)
      BY <1>5 DEF FindMarker, Moves, Goto
    <2>3. j \in Job
      <3>1. marker.visibility \in Visibilities /\ job[p] \in Job /\ 0 \in 0..MaxLocks
        BY <1>5, MaxLocksIsNat DEF FindMarker, StoreType, MovesType, Stores
      <3>2. [job[p] EXCEPT !.visibility = marker.visibility] \in Job
        BY <3>1, JobUpdates
      <3> QED
        BY <3>1, <3>2, JobUpdates
    <2>4. "ignore" \in Labels /\ Fits("ignore", j)
      BY <1>5
         DEF FindMarker, StoreType, MovesType, JobInv, Fits, Job, NoJob, Stores,
             Labels, Holding, Ignoring
    <2> HIDE DEF j
    <2>5. MovesType'
      BY <2>2, <2>3, <2>4, MovesWell, ReturnsWell
    <2> QED
      BY <2>1, <2>5
  <1>6. ASSUME NEW p \in Processes, MissMarker(p) PROVE StoreType' /\ MovesType'
    <2>1. StoreType'
      BY <1>6 DEF MissMarker, StoreType, tree
    <2>2. MovesType'
      BY <1>6, GoesWell
         DEF MissMarker, MovesType, JobInv, Fits, Labels, Holding, Ignoring
    <2> QED
      BY <2>1, <2>2
  <1>7. ASSUME NEW p \in Processes, WriteMarker(p) PROVE StoreType' /\ MovesType'
    <2>1. StoreType'
      <3>1. job[p].visibility \in Visibilities
        BY DEF MovesType, Job
      <3>2. marker' \in Stores /\ used' \subseteq Ids
        BY <1>7, <3>1 DEF WriteMarker, StoreType, Stores
      <3> QED
        BY <1>7, <3>2 DEF WriteMarker, StoreType
    <2> DEFINE j == [job[p] EXCEPT !.opened = 0]
    <2>2. Moves(p, "ignore", j)
      BY <1>7 DEF WriteMarker, Moves, Goto
    <2>3. j \in Job
      BY <1>7, <2>1
         DEF WriteMarker, StoreType, MovesType, Job, NoJob, Stores, Visibilities
    <2>4. "ignore" \in Labels /\ Fits("ignore", j)
      BY <1>7
         DEF WriteMarker, StoreType, MovesType, JobInv, Fits, Job, NoJob, Stores,
             Labels, Holding, Ignoring
    <2> HIDE DEF j
    <2>5. MovesType'
      BY <2>2, <2>3, <2>4, MovesWell
    <2> QED
      BY <2>1, <2>5
  <1>8. ASSUME NEW p \in Processes, FindIgnore(p) PROVE StoreType' /\ MovesType'
    <2>1. StoreType'
      BY <1>8 DEF FindIgnore, StoreType, tree
    <2>2. MovesType'
      BY <1>8, ReturnsWell DEF FindIgnore
    <2> QED
      BY <2>1, <2>2
  <1>9. ASSUME NEW p \in Processes, MissIgnore(p) PROVE StoreType' /\ MovesType'
    <2>1. StoreType'
      BY <1>9 DEF MissIgnore, StoreType, tree
    <2>2. MovesType'
      BY <1>9, GoesWell
         DEF MissIgnore, MovesType, JobInv, Fits, Labels, Holding, Ignoring
    <2> QED
      BY <2>1, <2>2
  <1>10. ASSUME NEW p \in Processes, CreateIgnore(p) PROVE StoreType' /\ MovesType'
    <2>1. StoreType'
      BY <1>10 DEF CreateIgnore, StoreType, tree
    <2>2. Return(p) \/ (Goto(p, "fill") /\ UNCHANGED job)
      BY <1>10 DEF CreateIgnore
    <2>3. "fill" \in Labels /\ Fits("fill", job[p])
      BY <1>10 DEF CreateIgnore, MovesType, JobInv, Fits, Labels, Holding, Ignoring
    <2>4. MovesType'
      BY <2>2, <2>3, GoesWell, ReturnsWell
    <2> QED
      BY <2>1, <2>4
  <1>11. ASSUME NEW p \in Processes, FillIgnore(p) PROVE StoreType' /\ MovesType'
    <2>1. StoreType'
      BY <1>11 DEF FillIgnore, StoreType, tree, MovesType, Job
    <2>2. MovesType'
      BY <1>11, ReturnsWell DEF FillIgnore
    <2> QED
      BY <2>1, <2>2
  <1>12. ASSUME NEW p \in Processes, StartWrite(p) PROVE StoreType' /\ MovesType'
    <2>1. StoreType'
      BY <1>12 DEF StartWrite, StoreType, tree
    <2> DEFINE j == [NoJob EXCEPT !.op = "write", !.id = marker.id]
    <2>2. Moves(p, "check", j)
      BY <1>12 DEF StartWrite, Moves, Goto
    <2>3. j \in Job
      <3>1. marker.id \in Ids
        BY <1>12 DEF StartWrite, StoreType, Stores
      <3>2. [NoJob EXCEPT !.op = "write"] \in Job
        BY JobUpdates, NoJobType
      <3> QED
        BY <3>1, <3>2, JobUpdates
    <2>4. "check" \in Labels /\ Fits("check", j)
      BY <1>12
         DEF StartWrite, StoreType, MovesType, JobInv, Fits, Job, NoJob, Stores,
             Labels, Holding, Ignoring
    <2> HIDE DEF j
    <2>5. MovesType'
      BY <2>2, <2>3, <2>4, MovesWell
    <2> QED
      BY <2>1, <2>5
  <1>13. ASSUME NEW p \in Processes, Scan(p) PROVE StoreType' /\ MovesType'
    <2>1. StoreType'
      BY <1>13 DEF Scan, StoreType, tree
    <2>2. Return(p) \/ (Goto(p, "write_record") /\ UNCHANGED job)
      BY <1>13 DEF Scan
    <2>3. "write_record" \in Labels /\ Fits("write_record", job[p])
      BY <1>13 DEF Scan, MovesType, JobInv, Fits, Labels, Holding, Ignoring
    <2>4. MovesType'
      BY <2>2, <2>3, GoesWell, ReturnsWell
    <2> QED
      BY <2>1, <2>4
  <1>14. ASSUME NEW p \in Processes, WriteRecord(p) PROVE StoreType' /\ MovesType'
    <2>1. StoreType'
      BY <1>14 DEF WriteRecord, StoreType, tree, Records, MovesType, Job, JobInv, Fits
    <2>2. MovesType'
      BY <1>14, ReturnsWell DEF WriteRecord
    <2> QED
      BY <2>1, <2>2
  <1>15. ASSUME NEW p \in Processes, Preview(p) PROVE StoreType' /\ MovesType'
    <2>1. StoreType'
      BY <1>15 DEF Preview, StoreType, tree
    <2>2. PICK export \in BOOLEAN :
            Moves(p, "confirm",
                  [NoJob EXCEPT !.op = "destroy", !.id = marker.id, !.export = export])
      BY <1>15 DEF Preview, Moves, Goto
    <2> DEFINE j == [NoJob EXCEPT !.op = "destroy", !.id = marker.id, !.export = export]
    <2>3. j \in Job
      <3>1. marker.id \in Ids
        BY <1>15 DEF Preview, StoreType, Stores
      <3>2. [NoJob EXCEPT !.op = "destroy"] \in Job
        BY JobUpdates, NoJobType
      <3>3. [NoJob EXCEPT !.op = "destroy", !.id = marker.id] \in Job
        BY <3>1, <3>2, JobUpdates
      <3> QED
        BY <3>3, JobUpdates
    <2>4. "confirm" \in Labels /\ Fits("confirm", j)
      BY <1>15 DEF Preview, Fits, NoJob, Labels, Holding, Ignoring
    <2> HIDE DEF j
    <2>5. Moves(p, "confirm", j)
      BY <2>2 DEF j
    <2>6. MovesType'
      BY <2>3, <2>4, <2>5, MovesWell
    <2> QED
      BY <2>1, <2>6
  <1>16. ASSUME NEW p \in Processes, Cancel(p) PROVE StoreType' /\ MovesType'
    <2>1. StoreType'
      BY <1>16 DEF Cancel, StoreType, tree
    <2>2. MovesType'
      BY <1>16, ReturnsWell DEF Cancel
    <2> QED
      BY <2>1, <2>2
  <1>17. ASSUME NEW p \in Processes, Confirm(p) PROVE StoreType' /\ MovesType'
    <2>1. StoreType'
      BY <1>17 DEF Confirm, StoreType, tree
    <2>2. MovesType'
      BY <1>17, GoesWell DEF Confirm, MovesType, JobInv, Fits, Labels, Holding, Ignoring
    <2> QED
      BY <2>1, <2>2
  <1>18. ASSUME NEW p \in Processes, CheckIdentity(p) PROVE StoreType' /\ MovesType'
    <2>1. StoreType'
      BY <1>18 DEF CheckIdentity, StoreType, tree
    <2> DEFINE j == [job[p] EXCEPT !.todo = Entries]
    <2>2. Return(p) \/ Moves(p, "export", j) \/ Moves(p, "delete", j)
      BY <1>18 DEF CheckIdentity, Moves, Goto
    <2>3. j \in Job /\ Fits("export", j) /\ Fits("delete", j)
      BY <1>18 DEF CheckIdentity, MovesType, JobInv, Fits, Job, Ignoring
    <2> HIDE DEF j
    <2>4. MovesType'
      BY <2>2, <2>3, MovesWell, ReturnsWell DEF Labels, Holding
    <2> QED
      BY <2>1, <2>4
  <1>19. ASSUME NEW p \in Processes, Export(p) PROVE StoreType' /\ MovesType'
    <2>1. StoreType'
      BY <1>19 DEF Export, StoreType, tree, Exported
    <2>2. MovesType'
      BY <1>19, GoesWell DEF Export, MovesType, JobInv, Fits, Labels, Holding, Ignoring
    <2> QED
      BY <2>1, <2>2
  <1>20. ASSUME NEW p \in Processes, ExportFails(p) PROVE StoreType' /\ MovesType'
    <2>1. StoreType'
      BY <1>20 DEF ExportFails, StoreType, tree
    <2>2. MovesType'
      BY <1>20, ReturnsWell DEF ExportFails
    <2> QED
      BY <2>1, <2>2
  <1>21. ASSUME NEW p \in Processes, Delete(p) PROVE StoreType' /\ MovesType'
    <2>1. StoreType'
      BY <1>21 DEF Delete, StoreType, tree
    <2>2. PICK entry \in job[p].todo : job' = [job EXCEPT ![p].todo = @ \ {entry}]
      BY <1>21 DEF Delete
    <2> DEFINE j == [job[p] EXCEPT !.todo = @ \ {entry}]
    <2>3. j \in Job /\ Fits("delete", j)
      BY <1>21 DEF Delete, MovesType, JobInv, Fits, Job, Ignoring
    <2>4. Moves(p, "delete", j)
      BY <1>21, <2>2 DEF Delete, Moves, MovesType
    <2> HIDE DEF j
    <2>5. MovesType'
      BY <2>3, <2>4, MovesWell DEF Labels, Holding
    <2> QED
      BY <2>1, <2>5
  <1>22. ASSUME NEW p \in Processes, EndDelete(p) PROVE StoreType' /\ MovesType'
    <2>1. StoreType'
      BY <1>22 DEF EndDelete, StoreType, tree
    <2>2. MovesType'
      BY <1>22, ReturnsWell DEF EndDelete
    <2> QED
      BY <2>1, <2>2
  <1>23. ASSUME NEW p \in Processes, Die(p) PROVE StoreType' /\ MovesType'
    <2>1. StoreType'
      BY <1>23 DEF Die, StoreType, tree
    <2>2. MovesType'
      BY <1>23, ReturnsWell DEF Die
    <2> QED
      BY <2>1, <2>2
  <1> QED
    BY <1>0, <1>1, <1>2, <1>3, <1>4, <1>5, <1>6, <1>7, <1>8, <1>9, <1>10, <1>11, <1>12,
       <1>13,
       <1>14, <1>15, <1>16, <1>17, <1>18, <1>19, <1>20, <1>21, <1>22, <1>23 DEF Next, Step

-----------------------------------------------------------------------------
(* Locks.                                                                  *)

(* What a step of p may do to the lock file and to the one p has open.     *)
Closes(p) == pc'[p] \notin Waiting /\ job'[p].opened = 0 /\ lockFile' = lockFile

Opens(p) ==
    /\ pc'[p] = "trylock"
    /\ lockFile' # 0 /\ lockFile \in {0, lockFile'}
    /\ job'[p].opened = lockFile'

Locks(p) ==
    /\ pc[p] = "trylock" /\ pc'[p] = "locked"
    /\ job'[p].opened = job[p].opened /\ lockFile' = lockFile
    /\ \A q \in Processes \ {p} : pc[q] \in Holding => job[q].opened # job[p].opened

Keeps(p) ==
    /\ pc[p] \in Holding /\ pc'[p] \in Holding
    /\ job'[p].opened = job[p].opened /\ lockFile' \in {0, lockFile}

Others(p) == \A q \in Processes \ {p} : pc'[q] = pc[q] /\ job'[q] = job[q]

LEMMA JobOpened ==
    ASSUME NEW j \in Job
    PROVE  /\ \A v, n : [j EXCEPT !.visibility = v, !.opened = n].opened = n
           /\ \A n : [j EXCEPT !.opened = n].opened = n
           /\ \A t : [j EXCEPT !.todo = t].opened = j.opened
  BY DEF Job

LEMMA LockMoves ==
    ASSUME MovesType, StoreType, LockInv, NEW p \in Processes, Step(p)
    PROVE  Others(p) /\ (Closes(p) \/ Opens(p) \/ Locks(p) \/ Keeps(p))
  <1> DEFINE Moved == Others(p) /\ (Closes(p) \/ Opens(p) \/ Locks(p) \/ Keeps(p))
  <1> USE DEF MovesType, Goto, NoJob, Holding, Waiting, Others, Closes, Opens, Locks, Keeps
  <1>a. Return(p) /\ lockFile' = lockFile => Moved
    BY DEF Return
  <1>b. job[p].opened # 0 <=> pc[p] \in Waiting
    BY DEF LockInv
  <1>1. ASSUME CheckStore(p) PROVE Moved
    BY <1>1, <1>a, <1>b DEF CheckStore, tree
  <1>2. ASSUME OpenLock(p) PROVE Moved
    <2>1. lockFile \in 0..created /\ created \in Nat
      BY MaxLocksIsNat DEF StoreType
    <2>2. lockFile' # 0 /\ lockFile \in {0, lockFile'}
      BY <1>2, <2>1 DEF OpenLock
    <2>3. Others(p) /\ pc[p] = "open" /\ pc'[p] = "trylock"
      BY <1>2 DEF OpenLock
    <2>4. job'[p] = [job[p] EXCEPT !.opened = lockFile']
      BY <1>2 DEF OpenLock
    <2>5. job'[p].opened = lockFile'
      BY <2>4, JobOpened
    <2> QED
      BY <2>2, <2>3, <2>5
  <1>3. ASSUME TryLock(p) PROVE Moved
    BY <1>3, <1>a, <1>b DEF TryLock, tree
  <1>4. ASSUME StartInit(p) PROVE Moved
    BY <1>4, <1>a, <1>b DEF StartInit, tree
  <1>5. ASSUME FindMarker(p) PROVE Moved
    <2>1. CASE Return(p)
      BY <1>5, <1>a, <2>1 DEF FindMarker
    <2>2. CASE ~ Return(p)
      <3>1. /\ job' = [job EXCEPT ![p].visibility = marker.visibility, ![p].opened = 0]
            /\ pc' = [pc EXCEPT ![p] = "ignore"] /\ lockFile' = lockFile
        BY <1>5, <2>2 DEF FindMarker
      <3>2. job'[p] = [job[p] EXCEPT !.visibility = marker.visibility, !.opened = 0]
        BY <3>1
      <3>3. job'[p].opened = 0
        BY <3>2, JobOpened
      <3> QED
        BY <3>1, <3>3
    <2> QED
      BY <2>1, <2>2
  <1>6. ASSUME MissMarker(p) PROVE Moved
    BY <1>6, <1>a, <1>b DEF MissMarker, tree
  <1>7. ASSUME WriteMarker(p) PROVE Moved
    BY <1>7, <1>a, <1>b DEF WriteMarker, tree
  <1>8. ASSUME FindIgnore(p) PROVE Moved
    BY <1>8, <1>a, <1>b DEF FindIgnore, tree
  <1>9. ASSUME MissIgnore(p) PROVE Moved
    BY <1>9, <1>a, <1>b DEF MissIgnore, tree
  <1>10. ASSUME CreateIgnore(p) PROVE Moved
    BY <1>10, <1>a, <1>b DEF CreateIgnore, tree
  <1>11. ASSUME FillIgnore(p) PROVE Moved
    BY <1>11, <1>a, <1>b DEF FillIgnore, tree
  <1>12. ASSUME StartWrite(p) PROVE Moved
    BY <1>12, <1>a, <1>b DEF StartWrite, tree
  <1>13. ASSUME Scan(p) PROVE Moved
    BY <1>13, <1>a, <1>b DEF Scan, tree
  <1>14. ASSUME WriteRecord(p) PROVE Moved
    BY <1>14, <1>a, <1>b DEF WriteRecord, tree
  <1>15. ASSUME Preview(p) PROVE Moved
    BY <1>15, <1>a, <1>b DEF Preview, tree
  <1>16. ASSUME Cancel(p) PROVE Moved
    BY <1>16, <1>a, <1>b DEF Cancel, tree
  <1>17. ASSUME Confirm(p) PROVE Moved
    BY <1>17, <1>a, <1>b DEF Confirm, tree
  <1>18. ASSUME CheckIdentity(p) PROVE Moved
    <2>1. CASE Return(p)
      BY <1>18, <1>a, <2>1 DEF CheckIdentity
    <2>2. CASE ~ Return(p)
      <3>1. /\ job' = [job EXCEPT ![p].todo = Entries] /\ pc[p] = "locked"
            /\ pc' = [pc EXCEPT ![p] = IF job[p].export THEN "export" ELSE "delete"]
            /\ lockFile' = lockFile
        BY <1>18, <2>2 DEF CheckIdentity
      <3>2. job'[p] = [job[p] EXCEPT !.todo = Entries]
        BY <3>1
      <3>3. job'[p].opened = job[p].opened
        BY <3>2, JobOpened
      <3>4. pc'[p] \in Holding
        BY <3>1
      <3> QED
        BY <3>1, <3>3, <3>4
    <2> QED
      BY <2>1, <2>2
  <1>19. ASSUME Export(p) PROVE Moved
    BY <1>19, <1>a, <1>b DEF Export, tree
  <1>20. ASSUME ExportFails(p) PROVE Moved
    BY <1>20, <1>a, <1>b DEF ExportFails, tree
  <1>21. ASSUME Delete(p) PROVE Moved
    BY <1>21, <1>a, <1>b DEF Delete, tree
  <1>22. ASSUME EndDelete(p) PROVE Moved
    BY <1>22, <1>a, <1>b DEF EndDelete, tree
  <1>23. ASSUME Die(p) PROVE Moved
    BY <1>23, <1>a, <1>b DEF Die, tree
  <1> QED
    BY <1>1, <1>2, <1>3, <1>4, <1>5, <1>6, <1>7, <1>8, <1>9, <1>10, <1>11, <1>12,
       <1>13, <1>14, <1>15, <1>16, <1>17, <1>18, <1>19, <1>20, <1>21, <1>22, <1>23
       DEF Step

LEMMA LockStep ==
    ASSUME TypeInv, LockInv, [Next]_vars
    PROVE  LockInv'
  <1>. MovesType /\ StoreType
    BY TypeParts
  <1>0. CASE UNCHANGED vars
    BY <1>0 DEF vars, LockInv
  <1>1. ASSUME NEW p \in Processes, Step(p), WatchLocks PROVE LockInv'
    <2>1. Others(p) /\ (Closes(p) \/ Opens(p) \/ Locks(p) \/ Keeps(p))
      BY <1>1, LockMoves
    <2> USE DEF LockInv, Others, Holding, Waiting
    <2>2. \A q \in Processes : job'[q].opened # 0 <=> pc'[q] \in Waiting
      BY <2>1 DEF Closes, Opens, Locks, Keeps
    <2>3. ASSUME NEW q \in Processes, NEW r \in Processes,
                 pc'[q] \in Holding, pc'[r] \in Holding, job'[q].opened = job'[r].opened
          PROVE  q = r
      BY <2>1, <2>3 DEF Closes, Opens, Locks, Keeps
    <2>4. ASSUME ~split', NEW q \in Processes, job'[q].opened # 0
          PROVE  /\ lockFile' \in {0, job'[q].opened}
                 /\ \A r \in Processes : job'[r].opened \in {0, job'[q].opened}
      <3>1. ~split /\ ~(LockIsLost /\ lockFile' # 0)
        BY <1>1, <2>4 DEF WatchLocks
      <3>2. CASE Opens(p) /\ lockFile = 0
        BY <2>1, <2>4, <3>1, <3>2 DEF Opens, LockIsLost
      <3>3. CASE Opens(p) /\ lockFile # 0
        BY <2>1, <2>4, <3>1, <3>3 DEF Opens
      <3>4. CASE Closes(p) \/ Locks(p) \/ Keeps(p)
        BY <2>1, <2>4, <3>1, <3>4 DEF Closes, Locks, Keeps
      <3> QED
        BY <2>1, <3>2, <3>3, <3>4
    <2> QED
      BY <2>2, <2>3, <2>4
  <1> QED
    BY <1>0, <1>1 DEF Next

(* While there is no second lock, a process that holds it is the only one. *)
LEMMA OneHolder ==
    ASSUME LockInv, ~split
    PROVE  WritesAreSerialized
  <1>1. \A p \in Processes : pc[p] \in Holding => job[p].opened # 0
    BY DEF LockInv, Waiting
  <1>2. \A p, q \in Processes :
          pc[p] \in Holding /\ pc[q] \in Holding => job[p].opened = job[q].opened
    BY <1>1 DEF LockInv
  <1> QED
    BY <1>2 DEF LockInv, WritesAreSerialized

(* When the two locks are gone, nobody holds any.                          *)
LEMMA SplitEnds ==
    ASSUME LockInv', split, ~split', WatchLocks
    PROVE  \A p \in Processes : pc'[p] \notin Waiting
  BY DEF LockInv, WatchLocks

-----------------------------------------------------------------------------
(* The store under the lock.                                               *)

LEMMA MarkerStep ==
    ASSUME TypeInv, LockInv, LockInv', MarkerInv, [Next]_vars
    PROVE  MarkerInv'
  <1>. MovesType /\ StoreType
    BY TypeParts
  <1> SUFFICES ASSUME ~split', ~ UNCHANGED vars PROVE MarkerInv'
    BY DEF MarkerInv, vars, tree
  <1>. PICK p \in Processes : Step(p) /\ WatchLocks
    BY DEF Next
  <1>a. CASE split
    BY <1>a, SplitEnds DEF MarkerInv, Waiting, Holding
  <1>b. CASE ~split
    <2>. WritesAreSerialized
      BY <1>b, OneHolder
    <2> USE <1>b DEF MarkerInv, WritesAreSerialized
    <2> USE DEF MovesType, JobInv, Fits, Goto, Return, NoJob, Holding, tree
    <2>1. CASE CheckStore(p)
      BY <2>1 DEF CheckStore
    <2>2. CASE OpenLock(p)
      BY <2>2 DEF OpenLock
    <2>3. CASE TryLock(p)
      BY <2>3 DEF TryLock
    <2>4. CASE StartInit(p)
      BY <2>4 DEF StartInit
    <2>5. CASE FindMarker(p)
      BY <2>5 DEF FindMarker
    <2>6. CASE MissMarker(p)
      BY <2>6 DEF MissMarker
    <2>7. CASE WriteMarker(p)
      BY <2>7 DEF WriteMarker
    <2>8. CASE FindIgnore(p)
      BY <2>8 DEF FindIgnore
    <2>9. CASE MissIgnore(p)
      BY <2>9 DEF MissIgnore
    <2>10. CASE CreateIgnore(p)
      BY <2>10 DEF CreateIgnore
    <2>11. CASE FillIgnore(p)
      BY <2>11 DEF FillIgnore
    <2>12. CASE StartWrite(p)
      BY <2>12 DEF StartWrite
    <2>13. CASE Scan(p)
      BY <2>13 DEF Scan
    <2>14. CASE WriteRecord(p)
      BY <2>14 DEF WriteRecord
    <2>15. CASE Preview(p)
      BY <2>15 DEF Preview
    <2>16. CASE Cancel(p)
      BY <2>16 DEF Cancel
    <2>17. CASE Confirm(p)
      BY <2>17 DEF Confirm
    <2>18. CASE CheckIdentity(p)
      <3>1. \A q \in Processes \ {p} : pc'[q] = pc[q] /\ job'[q] = job[q]
        BY <2>18 DEF CheckIdentity
      <3>2. CASE Return(p)
        BY <2>18, <3>2 DEF CheckIdentity
      <3>3. CASE ~ Return(p)
        <4>1. /\ marker # NoStore /\ marker.id = job[p].id
              /\ pc' = [pc EXCEPT ![p] = IF job[p].export THEN "export" ELSE "delete"]
              /\ job' = [job EXCEPT ![p].todo = Entries]
          BY <2>18, <3>3 DEF CheckIdentity
        <4>2. job'[p] = [job[p] EXCEPT !.todo = Entries]
          BY <4>1
        <4>3. job'[p].id = job[p].id /\ job'[p].export = job[p].export
          BY <4>2 DEF Job
        <4>4. pc'[p] = IF job[p].export THEN "export" ELSE "delete"
          BY <4>1
        <4> QED
          BY <2>18, <3>1, <4>1, <4>3, <4>4 DEF CheckIdentity
      <3> QED
        BY <3>2, <3>3
    <2>19. CASE Export(p)
      BY <2>19 DEF Export, Exported
    <2>20. CASE ExportFails(p)
      BY <2>20 DEF ExportFails
    <2>21. CASE Delete(p)
      BY <2>21 DEF Delete
    <2>22. CASE EndDelete(p)
      BY <2>22 DEF EndDelete
    <2>23. CASE Die(p)
      BY <2>23 DEF Die
    <2> QED
      BY <2>1, <2>2, <2>3, <2>4, <2>5, <2>6, <2>7, <2>8, <2>9, <2>10, <2>11, <2>12,
         <2>13, <2>14, <2>15, <2>16, <2>17, <2>18, <2>19, <2>20, <2>21, <2>22, <2>23
         DEF Step
  <1> QED
    BY <1>a, <1>b

(* Only an initialization and a destruction touch the marker. *)
LEMMA OnlyTwoMark ==
    ASSUME [Next]_vars, marker' # marker
    PROVE  \E p \in Processes : WriteMarker(p) \/ Delete(p)
  BY
     DEF Next, Step, vars, tree, CheckStore, OpenLock, TryLock, StartInit, FindMarker,
         MissMarker,
         FindIgnore, MissIgnore, CreateIgnore, FillIgnore, StartWrite, Scan, WriteRecord,
         Preview, Cancel, Confirm, CheckIdentity, Export, ExportFails, EndDelete, Die

LEMMA LifeStep ==
    ASSUME LifeInv, [Next]_vars
    PROVE  LifeInv'
  BY TypeStep, LockStep, MarkerStep DEF LifeInv

LEMMA LifeInit == Init => LifeInv
  BY InitType DEF Init, LifeInv, LockInv, MarkerInv, NoJob, Waiting, Holding

LEMMA LifeAlways == Spec => []LifeInv
  <1>1. LifeInv /\ [Next]_vars => LifeInv'
    BY LifeStep
  <1> QED
    BY <1>1, LifeInit, PTL DEF Spec

(* Only an acquisition makes a lock file. *)
LEMMA SplitBegins ==
    ASSUME NEW p \in Processes, Step(p), WatchLocks, ~split, ~OpenLock(p)
    PROVE  ~split'
  <1>1. lockFile' \in {0, lockFile}
    BY
       DEF Step, tree, CheckStore, TryLock, StartInit, FindMarker, MissMarker,
           WriteMarker,
           FindIgnore, MissIgnore, CreateIgnore, FillIgnore, StartWrite, Scan, WriteRecord,
           Preview, Cancel, Confirm, CheckIdentity, Export, ExportFails, Delete, EndDelete, Die
  <1> QED
    BY <1>1 DEF WatchLocks, LockIsLost

LEMMA IgnoreStep ==
    ASSUME LifeInv, IgnoreInv, [Next]_vars
    PROVE  IgnoreInv'
  <1>1. MovesType /\ StoreType /\ LockInv /\ MarkerInv
    BY TypeParts DEF LifeInv
  <1>2. CASE UNCHANGED vars
    BY <1>2 DEF IgnoreInv, Deleted, Finishing, vars
  <1>3. ASSUME NEW p \in Processes, Step(p), WatchLocks
        PROVE  IgnoreInv'
    <2>1. CASE torn'
      BY <2>1 DEF IgnoreInv
    <2>2. CASE ~torn'
      <3>1. ~torn
        BY <1>3, <2>2
           DEF Step, CheckStore, OpenLock, TryLock, StartInit, FindMarker, MissMarker, WriteMarker,
               FindIgnore, MissIgnore, CreateIgnore, FillIgnore, StartWrite, Scan, WriteRecord,
               Preview, Cancel, Confirm, CheckIdentity, Export, ExportFails, Delete, EndDelete, Die
      <3>2. ~split
        BY <3>1 DEF IgnoreInv
      <3>3. ~split'
        <4>1. CASE OpenLock(p)
          BY <1>3, <2>2, <3>2, <4>1 DEF OpenLock, WatchLocks
        <4> QED
          BY <1>3, <3>2, <4>1, SplitBegins
      <3>4. WritesAreSerialized
        BY <1>1, <3>2, OneHolder
      <3> USE <1>1, <2>2, <3>1, <3>2, <3>3, <3>4
      <3> USE DEF IgnoreInv, Deleted, Finishing, MovesType, JobInv, Fits, Goto, Return, NoJob,
                  Ignoring, tree
      <3>5. CASE CheckStore(p)
        BY <3>5 DEF CheckStore
      <3>6. CASE OpenLock(p)
        BY <3>6 DEF OpenLock
      <3>7. CASE TryLock(p)
        BY <3>7 DEF TryLock
      <3>8. CASE StartInit(p)
        BY <3>8 DEF StartInit
      <3>9. CASE FindMarker(p)
        <4>1. \A q \in Processes \ {p} : pc'[q] = pc[q] /\ job'[q] = job[q]
          BY <3>9 DEF FindMarker
        <4>2. CASE Return(p)
          BY <3>9, <4>2 DEF FindMarker
        <4>3. CASE ~ Return(p)
          <5>1. /\ job' = [job EXCEPT ![p].visibility = marker.visibility, ![p].opened = 0]
                /\ pc' = [pc EXCEPT ![p] = "ignore"]
            BY <3>9, <4>3 DEF FindMarker
          <5>4. \A q \in Processes : pc[q] # "delete"
            BY <3>9 DEF FindMarker, WritesAreSerialized, Holding
          <5>2. job'[p] = [job[p] EXCEPT !.visibility = marker.visibility, !.opened = 0]
            BY <5>1
          <5>3. job'[p].visibility = marker.visibility /\ pc'[p] = "ignore"
            BY <5>1, <5>2 DEF Job
          <5> QED
            BY <3>9, <4>1, <5>3, <5>4 DEF FindMarker
        <4> QED
          BY <4>2, <4>3
      <3>10. CASE MissMarker(p)
        BY <3>10 DEF MissMarker
      <3>11. CASE WriteMarker(p)
        <4>1. marker = NoStore /\ pc[p] = "write_marker" /\ pc'[p] = "ignore"
          BY <3>11 DEF WriteMarker, MarkerInv
        <4>2. \A q \in Processes \ {p} : pc'[q] = pc[q] /\ job'[q] = job[q]
          BY <3>11 DEF WriteMarker
        <4>3. \A q \in Processes : pc[q] \notin Ignoring \cup {"export", "delete"}
          BY <4>1 DEF WritesAreSerialized, Holding, MarkerInv
        <4>4. marker' \in Stores /\ marker'.visibility = job[p].visibility
          BY <3>11 DEF WriteMarker, Stores, Job
        <4>5. job'[p].visibility = job[p].visibility
          <5>1. job'[p] = [job[p] EXCEPT !.opened = 0]
            BY <3>11 DEF WriteMarker
          <5> QED
            BY <5>1 DEF Job
        <4>6. ~torn => ignore = "missing"
          BY <4>1, <4>3
        <4> QED
          BY <3>11, <4>1, <4>2, <4>3, <4>4, <4>5, <4>6, NoStoreIsNoStore
             DEF WriteMarker, Visibilities
      <3>12. CASE FindIgnore(p)
        BY <3>12 DEF FindIgnore, StoreType
      <3>13. CASE MissIgnore(p)
        BY <3>13 DEF MissIgnore
      <3>14. CASE CreateIgnore(p)
        <4>1. CASE ignore = "missing"
          <5>1. /\ ignore' = "empty" /\ pc' = [pc EXCEPT ![p] = "fill"]
                /\ UNCHANGED <<marker, job, ready, torn>>
            BY <3>14, <4>1 DEF CreateIgnore
          <5>2. pc'[p] = "fill" /\ pc[p] = "create"
            BY <3>14, <5>1 DEF CreateIgnore
          <5>3. \A q \in Processes \ {p} : pc'[q] = pc[q]
            BY <5>1
          <5>4. \A q \in Processes : ~Deleted(q)
            BY <5>2
          <5> QED
            BY <5>1, <5>2, <5>3, <5>4 DEF Visibilities
        <4>2. CASE ignore # "missing"
          BY <3>14, <4>2 DEF CreateIgnore
        <4> QED
          BY <4>1, <4>2
      <3>15. CASE FillIgnore(p)
        <4>1. pc[p] = "fill" /\ pc'[p] = "idle" /\ marker # NoStore /\ marker' = marker
          BY <3>15 DEF FillIgnore
        <4>2. ignore' = marker.visibility /\ marker.visibility \in Visibilities
          BY <3>15, <4>1 DEF FillIgnore, Job
        <4>3. \A q \in Processes \ {p} : pc'[q] = pc[q] /\ job'[q] = job[q]
          BY <3>15 DEF FillIgnore
        <4>4. \A q \in Processes : ~Deleted(q)
          BY <4>1
        <4> QED
          BY <4>1, <4>2, <4>3, <4>4 DEF Visibilities
      <3>16. CASE StartWrite(p)
        BY <3>16 DEF StartWrite
      <3>17. CASE Scan(p)
        BY <3>17 DEF Scan
      <3>18. CASE WriteRecord(p)
        BY <3>18 DEF WriteRecord
      <3>19. CASE Preview(p)
        BY <3>19 DEF Preview
      <3>20. CASE Cancel(p)
        BY <3>20 DEF Cancel
      <3>21. CASE Confirm(p)
        BY <3>21 DEF Confirm
      <3>22. CASE CheckIdentity(p)
        <4>1. \A q \in Processes \ {p} : pc'[q] = pc[q] /\ job'[q] = job[q]
          BY <3>22 DEF CheckIdentity
        <4>2. pc[p] = "locked" /\ pc'[p] \in {"idle", "export", "delete"}
          BY <3>22 DEF CheckIdentity
        <4>3. pc'[p] = "delete" => {"marker", "ignore"} \subseteq job'[p].todo
          <5>1. CASE ~ Return(p)
            <6>1. job' = [job EXCEPT ![p].todo = Entries]
              BY <3>22, <5>1 DEF CheckIdentity
            <6>2. job'[p] = [job[p] EXCEPT !.todo = Entries]
              BY <6>1
            <6> QED
              BY <6>2 DEF Job, Entries
          <5> QED
            BY <5>1
        <4>4. UNCHANGED <<marker, ignore, ready, torn>>
          BY <3>22 DEF CheckIdentity
        <4>5. pc'[p] \notin {"ignore", "create", "fill"}
          BY <4>2
        <4>6. pc[p] \notin {"fill", "delete"}
          BY <4>2
        <4>7. \A q \in Processes : Finishing(q)' => q # p /\ Finishing(q)
          BY <4>1, <4>5
        <4>8. \A q \in Processes : Deleted(q)' => q # p /\ Deleted(q)
          BY <4>1, <4>3
        <4>9. \A q \in Processes :
                 pc'[q] = "delete" /\ "ignore" \notin job'[q].todo => ignore' = "missing"
          BY <4>1, <4>3, <4>4
        <4>10. \A q \in Processes : pc[q] \in {"fill", "delete"} => pc'[q] = pc[q]
          BY <4>1, <4>6
        <4>11. \A q \in Processes : Finishing(q)' =>
                  marker' # NoStore /\ job'[q].visibility = marker'.visibility
          BY <4>1, <4>4, <4>7
        <4>12. \A q \in Processes : pc'[q] = "fill" => ignore' # "missing"
          BY <4>1, <4>4, <4>5
        <4>13. \A q \in Processes : Deleted(q)' => \A r \in Processes : ~Finishing(r)'
          BY <4>7, <4>8
        <4>14. ready' => marker' # NoStore /\ ignore' # "missing"
          BY <4>4
        <4>15. ignore' = "empty" => \E q \in Processes : pc'[q] = "fill"
          BY <4>4, <4>10
        <4>16. marker' = NoStore /\ ignore' # "missing" =>
                 \E q \in Processes : pc'[q] = "delete"
          BY <4>4, <4>10
        <4>17. marker' # NoStore /\ ignore' \in Visibilities => ignore' = marker'.visibility
          BY <4>4
        <4>18. \A q \in Processes :
                 /\ Finishing(q)' => marker' # NoStore /\ job'[q].visibility = marker'.visibility
                 /\ pc'[q] = "fill" => ignore' # "missing"
                 /\ pc'[q] = "delete" /\ "ignore" \notin job'[q].todo => ignore' = "missing"
                 /\ Deleted(q)' => \A r \in Processes : ~Finishing(r)'
          BY <4>9, <4>11, <4>12, <4>13
        <4> QED
          BY <4>14, <4>15, <4>16, <4>17, <4>18
      <3>23. CASE Export(p)
        BY <3>23 DEF Export, Entries
      <3>24. CASE ExportFails(p)
        BY <3>24 DEF ExportFails
      <3>25. CASE Delete(p)
        <4>1. pc[p] = "delete" /\ pc' = pc
          BY <3>25 DEF Delete
        <4>2. \A q \in Processes \ {p} : pc[q] # "delete"
          BY <4>1 DEF WritesAreSerialized, Holding
        <4>3. PICK entry \in job[p].todo :
                /\ job' = [job EXCEPT ![p].todo = @ \ {entry}]
                /\ marker' = IF entry = "marker" THEN NoStore ELSE marker
                /\ ignore' = IF entry = "ignore" THEN "missing" ELSE ignore
                /\ ready' = (ready /\ entry \notin {"marker", "ignore"})
                /\ torn' = (torn \/ (entry \in {"marker", "ignore"}
                                        /\ \E q \in Processes : Finishing(q)))
          BY <3>25 DEF Delete
        <4>4. job'[p].todo = job[p].todo \ {entry}
          <5>1. job'[p] = [job[p] EXCEPT !.todo = @ \ {entry}]
            BY <4>3
          <5> QED
            BY <5>1 DEF Job
        <4>5. \A q \in Processes \ {p} : job'[q] = job[q]
          BY <4>3
        <4>6. \A q \in Processes : job'[q].visibility = job[q].visibility
          <5>1. job'[p] = [job[p] EXCEPT !.todo = @ \ {entry}]
            BY <4>3
          <5>2. job'[p].visibility = job[p].visibility
            BY <5>1 DEF Job
          <5> QED
            BY <4>5, <5>2
        <4>7. CASE entry \in {"marker", "ignore"}
          <5>1. \A q \in Processes : pc'[q] \notin {"ignore", "create", "fill"}
            BY <4>1, <4>3, <4>7
          <5>2. ~ready'
            BY <4>3, <4>7
          <5>3. "ignore" \notin job'[p].todo => ignore' = "missing"
            BY <4>1, <4>3, <4>4
          <5>4. marker' # NoStore => marker' = marker
            BY <4>3
          <5>5. ignore' # "missing" => ignore' = ignore
            BY <4>3
          <5>6. ignore' # "empty"
            BY <4>1, <5>1, <5>5
          <5> QED
            BY <4>1, <4>2, <5>1, <5>2, <5>3, <5>4, <5>5, <5>6 DEF Visibilities
        <4>8. CASE entry \notin {"marker", "ignore"}
          <5>1. UNCHANGED <<marker, ignore>> /\ (ready' => ready)
            BY <4>3, <4>8
          <5>2. \A q \in Processes :
                   /\ "ignore" \in job'[q].todo <=> "ignore" \in job[q].todo
                   /\ "marker" \in job'[q].todo <=> "marker" \in job[q].todo
            BY <4>4, <4>5, <4>8
          <5> QED
            BY <4>1, <4>6, <5>1, <5>2
        <4> QED
          BY <4>7, <4>8
      <3>26. CASE EndDelete(p)
        BY <3>26 DEF EndDelete
      <3>27. CASE Die(p)
        BY <3>27 DEF Die
      <3> QED
        BY <1>3, <3>5, <3>6, <3>7, <3>8, <3>9, <3>10, <3>11, <3>12, <3>13, <3>14,
           <3>15, <3>16, <3>17, <3>18, <3>19, <3>20, <3>21, <3>22, <3>23, <3>24, <3>25,
           <3>26, <3>27
           DEF Step
    <2> QED
      BY <2>1, <2>2
  <1> QED
    BY <1>2, <1>3 DEF Next

LEMMA IgnoreAlways == Spec => []IgnoreInv
  <1>1. Init => IgnoreInv
    BY DEF Init, IgnoreInv, Finishing, Deleted
  <1>2. IgnoreInv /\ LifeInv /\ [Next]_vars => IgnoreInv'
    BY IgnoreStep
  <1> QED
    BY <1>1, <1>2, LifeAlways, PTL DEF Spec

-----------------------------------------------------------------------------
(* Theorems.                                                               *)

(* Whatever processes do at whatever moment, every variable keeps its      *)
(* type, and records are only ever found in the records directory.         *)
THEOREM TypeCorrect == Spec => []TypeOK
  <1>1. TypeInv => TypeOK
    BY DEF TypeInv
  <1> QED
    BY <1>1, InitType, TypeStep, PTL DEF Spec

(* The mutation lock serializes the writers of a store as long as nobody    *)
(* makes a lock file while another one is open.  Only a deletion lets that *)
(* happen (run store_deletion): it removes the lock file it has locked.    *)
THEOREM LockingSerializes == Spec => [](~split => WritesAreSerialized)
  <1>1. LifeInv => (~split => WritesAreSerialized)
    BY OneHolder DEF LifeInv
  <1> QED
    BY <1>1, LifeAlways, PTL

(* create_marker: while there is one lock, a store that has an identity    *)
(* keeps it, whoever initializes it, writes to it or deletes it beside.    *)
THEOREM IdentityIsKept == Spec => OneIdentity
  <1>1. ASSUME LifeInv, [Next]_vars
        PROVE  [marker # NoStore /\ marker' # NoStore /\ ~split => marker' = marker]_vars
    <2>1. CASE marker' = marker \/ split
      BY <2>1
    <2>2. CASE marker' # marker /\ ~split
      <3>1. PICK p \in Processes : WriteMarker(p) \/ Delete(p)
        BY <1>1, <2>2, OnlyTwoMark
      <3>2. CASE WriteMarker(p)
        BY <1>1, <2>2, <3>2 DEF WriteMarker, LifeInv, MarkerInv
      <3>3. CASE Delete(p)
        <4>1. marker' \in {NoStore, marker}
          BY <3>3 DEF Delete
        <4> QED
          BY <2>2, <4>1
      <3> QED
        BY <3>1, <3>2, <3>3
    <2> QED
      BY <2>1, <2>2
  <1> QED
    BY <1>1, LifeAlways, PTL DEF Spec, OneIdentity

(* destroy_store: while there is one lock, the identity of the store that  *)
(* goes was confirmed by the process that deletes it.                      *)
THEOREM DestructionIsConfirmed == Spec => DestroysWhatWasConfirmed
  <1>1. ASSUME LifeInv, [Next]_vars
        PROVE  [marker # NoStore /\ marker' = NoStore /\ ~split =>
                   \E p \in Processes : Deleting(p) /\ job[p].id = marker.id]_vars
    <2>1. SUFFICES ASSUME marker # NoStore, marker' = NoStore, ~split
                   PROVE  \E p \in Processes : Deleting(p) /\ job[p].id = marker.id
      OBVIOUS
    <2>2. PICK p \in Processes : WriteMarker(p) \/ Delete(p)
      BY <1>1, <2>1, OnlyTwoMark
    <2>3. pc[p] = "delete"
      BY <1>1, <2>1, <2>2 DEF WriteMarker, Delete, LifeInv, MarkerInv
    <2>4. job[p].op = "destroy" /\ job[p].id = marker.id
      BY <1>1, <2>1, <2>3 DEF LifeInv, TypeInv, JobInv, Fits, MarkerInv
    <2> QED
      BY <2>3, <2>4 DEF Deleting
  <1> QED
    BY <1>1, LifeAlways, PTL DEF Spec, DestroysWhatWasConfirmed

(* destroy_store with an export: while there is one lock, what it deletes  *)
(* is in the archive.                                                      *)
THEOREM ExportsAreComplete == Spec => ExportHoldsWhatIsDeleted
  <1>1. LifeInv =>
          [\A p \in Processes : ~split /\
             pc[p] = "delete" /\ job[p].export => records \ records' \subseteq archive]_vars
    BY DEF LifeInv, MarkerInv
  <1> QED
    BY <1>1, LifeAlways, PTL DEF Spec, ExportHoldsWhatIsDeleted

(* ensure_project_gitignore: a store whose initialization has returned has *)
(* the ignore rules of its visibility, whoever initialized it with what    *)
(* wish at the same time, unless a death, a deletion beside an             *)
(* initialization or a second lock tore the two apart.                     *)
THEOREM IgnoreRulesFit == Spec => []IgnoreFitsVisibility
  <1>1. LifeInv /\ IgnoreInv => IgnoreFitsVisibility
    BY TypeParts DEF LifeInv, StoreType, IgnoreInv, IgnoreFitsVisibility
  <1> QED
    BY <1>1, LifeAlways, IgnoreAlways, PTL
=============================================================================
