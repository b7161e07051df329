-------------------------- MODULE RepositoryProofs --------------------------
(***************************************************************************)
(* Proofs about Repository, for any number of processes, records and       *)
(* crashes: what holds even if people edit, damage and delete files while  *)
(* operations run (PlacedInv), what holds if they do so between operations *)
(* (SharedInv), and what holds when only its processes write (IInv).       *)
(***************************************************************************)
EXTENDS Repository, TLAPS

(* A journal, on disk or about to be written, that describes a supersession. *)
PairOK(j) ==
    /\ j \in Journals
    /\ j.old_before.status = "active"
    /\ j.old_after = M!WithStatus(j.old_before, "superseded")
    /\ j.new_after.status = "active"
    /\ j.old_before.id \in j.new_after.supersedes
    /\ j.old_path = record_path(j.old_before.id)
    /\ j.new_path = record_path(j.new_after.id)
    /\ j.new_before # NoFile => j.new_before = M!WithStatus(j.new_after, "candidate")

(* A single write the lifecycle allows. *)
LegalWrite(w) ==
    \/ w.base = NoFile /\ w.file # NoFile /\ w.file.status \in {"active", "candidate"}
    \/ w.base # NoFile /\ w.file = NoFile
    \/ /\ w.base # NoFile
       /\ w.file # NoFile
       /\ w.file.id = w.base.id
       /\ \/ w.base.status = "active" /\ w.file.status = "active"
          \/ /\ w.base.status = "candidate"
             /\ \A o \in Ids : w.base.supersedes # {o}
             /\ w.file = M!WithStatus(w.base, "active")
          \/ /\ w.base.status \in {"candidate", "active"}
             /\ w.file = M!WithStatus(w.base, "archived")
          \/ w.base.status = "archived" /\ w.file = M!WithStatus(w.base, "active")

(* A process with nothing decided; only before recovery may a journal be left. *)
Undecided(p) ==
    /\ pc[p] \in {"idle", "recover", "scan"} => job[p] = NoJob
    /\ pc[p] \in {"scan", "write", "journal"} => journal = NoJournal

(* A process about to write one file that still holds what it read there. *)
ReadyToWrite(p) ==
    pc[p] = "write" =>
        /\ job[p] \in WriteJobs
        /\ files[job[p].path] = job[p].base
        /\ job[p].file # NoFile => job[p].path = record_path(job[p].file.id)
        /\ LegalWrite(job[p])

(* A process about to write its journal. *)
ReadyToPair(p) ==
    pc[p] = "journal" =>
        /\ job[p] \in SupersedeJobs
        /\ job[p].redo = {"old", "new"}
        /\ PairOK(job[p].journal)
        /\ files[job[p].journal.old_path] = job[p].journal.old_before
        /\ files[job[p].journal.new_path] = job[p].journal.new_before

(* A process that replays the journal: redo names the writes that are due. *)
Replaying(p) ==
    /\ pc[p] \in {"old", "new", "clear"} =>
           /\ job[p] \in SupersedeJobs
           /\ journal # NoJournal
           /\ journal = job[p].journal
    /\ pc[p] = "old" =>
           files[journal.old_path] = IF "old" \in job[p].redo THEN journal.old_before
                                                              ELSE journal.old_after
    /\ pc[p] \in {"new", "clear"} => files[journal.old_path] = journal.old_after
    /\ pc[p] \in {"old", "new"} =>
           files[journal.new_path] = IF "new" \in job[p].redo THEN journal.new_before
                                                              ELSE journal.new_after
    /\ pc[p] = "clear" => files[journal.new_path] = journal.new_after

LocalInv(p) == /\ Undecided(p)
               /\ ReadyToWrite(p)
               /\ ReadyToPair(p)
               /\ Replaying(p)
               /\ FreshApproval(p)

(* Files are where the code puts them, also when they do not parse. *)
FilesInv ==
    \A q \in Paths :
        files[q] # NoFile => q = record_path(q[2]) /\ (Holds(q) => files[q].id = q[2])

JournalInv == journal # NoJournal => PairOK(journal)

(* The inductive invariant of a store that people edit between operations. *)
SharedInv ==
    /\ TypeOK
    /\ MutualExclusion
    /\ FilesInv
    /\ JournalInv
    /\ \A p \in Procs : LocalInv(p)

(* Where the replacement is in place, the old file has been retired.       *)
OldIsRetired ==
    journal # NoJournal /\ files[journal.new_path] = journal.new_after =>
        files[journal.old_path] = journal.old_after

(* ... and of one that is left to its processes: every file parses, and    *)
(* those of the journal are as it knows them.                              *)
IInv ==
    /\ SharedInv
    /\ \A q \in Paths : files[q] # Unreadable
    /\ JournalReplayable
    /\ OldIsRetired

-----------------------------------------------------------------------------
(* Facts about the data.                                                   *)

(* Changing the status of a record changes nothing else of it. *)
LEMMA WithStatusFacts ==
    ASSUME NEW r \in M!Records, NEW s \in M!Statuses
    PROVE  /\ M!WithStatus(r, s) \in M!Records
           /\ M!WithStatus(r, s).id = r.id
           /\ M!WithStatus(r, s).status = s
           /\ M!WithStatus(r, s).title = r.title
           /\ M!WithStatus(r, s).body = r.body
           /\ M!WithStatus(r, s).supersedes = r.supersedes
  BY DEF M!Records, M!WithStatus

(* A record has an id, one of the four statuses, and links to other records. *)
LEMMA RecordFacts ==
    ASSUME NEW r \in M!Records
    PROVE  /\ r.id \in Ids
           /\ r.status \in M!Statuses
           /\ r.supersedes \in SUBSET Ids
           /\ r.id \notin r.supersedes
           /\ r # NoFile
           /\ r # Unreadable
  BY RepositoryAssumption DEF M!Records

(* record_path gives each id a path of its own. *)
LEMMA RecordPathFacts ==
    /\ \A i \in Ids : record_path(i) \in Paths /\ record_path(i)[2] = i
    /\ \A q \in Paths : q[2] \in Ids
    /\ \A i, k \in Ids : record_path(i) = record_path(k) => i = k
  BY RepositoryAssumption DEF record_path, Paths

(* Two statuses of the same record are two records. *)
LEMMA StatusesDiffer ==
    ASSUME NEW r \in M!Records, NEW s \in M!Statuses, NEW t \in M!Statuses, s # t
    PROVE  M!WithStatus(r, s) # M!WithStatus(r, t)
  BY WithStatusFacts

(* The two images of each file of a journal differ, and so do its paths. *)
LEMMA PairFacts ==
    ASSUME NEW j, PairOK(j)
    PROVE  /\ j # NoJournal
           /\ j.old_path \in Paths /\ j.new_path \in Paths
           /\ j.old_path # j.new_path
           /\ j.old_before \in M!Records /\ j.old_after \in M!Records
           /\ j.new_after \in M!Records
           /\ j.new_before \in M!Records \cup {NoFile}
           /\ j.old_before # j.old_after
           /\ j.new_before # j.new_after
           /\ j.old_after.id = j.old_before.id
           /\ j.new_before # NoFile => j.new_before.id = j.new_after.id
  <1>1. j \in Journals
    BY DEF PairOK
  <1>2. /\ j.old_path \in Paths /\ j.new_path \in Paths
        /\ j.old_before \in M!Records /\ j.old_after \in M!Records
        /\ j.new_after \in M!Records
        /\ j.new_before \in M!Records \cup {NoFile}
    BY <1>1 DEF Journals
  <1>3. j # NoJournal
    BY <1>1, RepositoryAssumption
  <1>4. j.old_after.status = "superseded" /\ j.old_after.id = j.old_before.id
    BY <1>2, WithStatusFacts DEF PairOK, M!Statuses
  <1>5. j.new_before # NoFile => /\ j.new_before.status = "candidate"
                                 /\ j.new_before.id = j.new_after.id
    BY <1>2, WithStatusFacts DEF PairOK, M!Statuses
  <1>6. j.old_path # j.new_path
    BY <1>2, RecordFacts, RecordPathFacts DEF PairOK
  <1>7. j.old_before # j.old_after
    BY <1>4 DEF PairOK
  <1>8. j.new_before # j.new_after
    BY <1>2, <1>5, RecordFacts DEF PairOK
  <1> QED
    BY <1>2, <1>3, <1>4, <1>5, <1>6, <1>7, <1>8

(* A path that holds a record holds it under the record's own id. *)
LEMMA HeldInPlace ==
    ASSUME FilesInv, NEW q \in Paths, Holds(q)
    PROVE  /\ files[q] \in M!Records
           /\ files[q] # NoFile
           /\ files[q].id \in Ids
           /\ q = record_path(files[q].id)
  BY RecordFacts DEF Holds, FilesInv

LEMMA HeldWhereItBelongs ==
    ASSUME SharedInv, NEW q \in Paths, Holds(q)
    PROVE  /\ files[q] \in M!Records
           /\ files[q] # NoFile
           /\ files[q].id \in Ids
           /\ q = record_path(files[q].id)
  BY HeldInPlace DEF SharedInv

-----------------------------------------------------------------------------
(* The shape shared by all steps.                                          *)

(* Whoever is inside an operation is alone there. *)
LEMMA OthersAreIdle ==
    ASSUME SharedInv, NEW p \in Procs, pc[p] # "idle" \/ lock = NoProc
    PROVE  \A r \in Procs \ {p} : pc[r] = "idle" /\ job[r] = NoJob
  <1> TAKE r \in Procs \ {p}
  <1>1. pc[r] = "idle"
    BY RepositoryAssumption DEF SharedInv, MutualExclusion
  <1>2. LocalInv(r)
    BY DEF SharedInv
  <1> QED
    BY <1>1, <1>2 DEF LocalInv, Undecided

(* A step of p keeps the invariant when it keeps its shared parts and what  *)
(* the invariant says of p itself.                                         *)
LEMMA StepOf ==
    ASSUME SharedInv, NEW p \in Procs, pc[p] # "idle" \/ lock = NoProc,
           \A r \in Procs \ {p} : pc'[r] = pc[r] /\ job'[r] = job[r],
           TypeOK',
           IF pc'[p] = "idle" THEN lock' = NoProc ELSE lock' = p,
           FilesInv', JournalInv', LocalInv(p)'
    PROVE  SharedInv'
  <1>1. \A r \in Procs \ {p} : pc'[r] = "idle" /\ job'[r] = NoJob
    BY OthersAreIdle
  <1>2. ASSUME NEW r \in Procs PROVE LocalInv(r)'
    <2>1. CASE r = p
      BY <2>1
    <2>2. CASE r # p
      BY <2>2, <1>1 DEF LocalInv, Undecided, ReadyToWrite, ReadyToPair, Replaying,
                        FreshApproval
    <2> QED
      BY <2>1, <2>2
  <1>3. MutualExclusion'
    BY <1>1, RepositoryAssumption DEF MutualExclusion
  <1> QED
    BY <1>2, <1>3 DEF SharedInv

(* Nothing of the store changes and p goes back to idle. *)
LEMMA LeavingStep ==
    ASSUME SharedInv, NEW p \in Procs, pc[p] # "idle", Release(p),
           draft' \in [Procs -> Drafts \cup {NoDraft}], UNCHANGED disk
    PROVE  SharedInv'
  <1> USE DEF disk, Release
  <1>1. /\ TypeOK
        /\ pc'[p] = "idle" /\ job'[p] = NoJob /\ lock' = NoProc
        /\ \A r \in Procs \ {p} : pc'[r] = pc[r] /\ job'[r] = job[r]
    BY DEF SharedInv, TypeOK
  <1>2. TypeOK'
    BY <1>1 DEF TypeOK, PCs
  <1>3. FilesInv'
    BY DEF SharedInv, FilesInv, Holds
  <1>4. JournalInv'
    BY DEF SharedInv, JournalInv
  <1>5. LocalInv(p)'
    BY <1>1 DEF LocalInv, Undecided, ReadyToWrite, ReadyToPair, Replaying, FreshApproval
  <1> QED
    BY <1>1, <1>2, <1>3, <1>4, <1>5, StepOf

(* An operation decides one write that the lifecycle allows. *)
LEMMA DecideStep ==
    ASSUME SharedInv, NEW p \in Procs, pc[p] = "scan",
           NEW path \in Paths, NEW base \in M!Records \cup {NoFile},
           NEW file \in M!Records \cup {NoFile},
           Decide(p, path, base, file),
           files[path] = base,
           file # NoFile => path = record_path(file.id),
           LegalWrite([path |-> path, base |-> base, file |-> file]),
           base # NoFile /\ base.status = "candidate" /\ file # NoFile
               /\ file.status = "active" =>
             ~ DuplicateOf(file, file.supersedes \cup {file.id})
    PROVE  SharedInv'
  <1> DEFINE w == [path |-> path, base |-> base, file |-> file]
  <1>1. /\ TypeOK
        /\ pc'[p] = "write" /\ job'[p] = w
        /\ \A r \in Procs \ {p} : pc'[r] = pc[r] /\ job'[r] = job[r]
        /\ UNCHANGED <<files, journal, lock, draft>>
    BY DEF Decide, SharedInv, TypeOK
  <1>2. w \in WriteJobs
    BY DEF WriteJobs
  <1>3. TypeOK'
    BY <1>1, <1>2 DEF TypeOK, PCs, Decide
  <1>4. FilesInv'
    BY <1>1 DEF SharedInv, FilesInv, Holds
  <1>5. JournalInv'
    BY <1>1 DEF SharedInv, JournalInv
  <1>6. lock' = p
    BY <1>1 DEF SharedInv, MutualExclusion
  <1>7. journal' = NoJournal
    BY <1>1 DEF SharedInv, LocalInv, Undecided
  <1>8. LocalInv(p)'
    <2>1. Undecided(p)' /\ ReadyToPair(p)' /\ Replaying(p)'
      BY <1>1, <1>7 DEF Undecided, ReadyToPair, Replaying
    <2>2. ReadyToWrite(p)'
      BY <1>1, <1>2 DEF ReadyToWrite, LegalWrite
    <2>3. FreshApproval(p)'
      BY <1>1 DEF FreshApproval, DuplicateOf, Holds
    <2> QED
      BY <2>1, <2>2, <2>3 DEF LocalInv
  <1> QED
    BY <1>1, <1>3, <1>4, <1>5, <1>6, <1>8, StepOf

(* An operation decides a supersession. *)
LEMMA DecidePairStep ==
    ASSUME SharedInv, NEW p \in Procs, pc[p] = "scan",
           NEW q \in Paths, NEW r \in M!Records, NEW before \in M!Records \cup {NoFile},
           DecidePair(p, q, r, before),
           HasStatus(q, "active"),
           r.status = "active",
           files[q].id \in r.supersedes,
           files[record_path(r.id)] = before,
           before # NoFile => /\ before = M!WithStatus(r, "candidate")
                              /\ ~ DuplicateOf(r, {files[q].id, r.id})
    PROVE  SharedInv'
  <1> DEFINE j == [old_path |-> q, old_before |-> files[q],
                   old_after |-> M!WithStatus(files[q], "superseded"),
                   new_path |-> record_path(r.id), new_before |-> before, new_after |-> r]
             s == [journal |-> j, redo |-> {"old", "new"}, resume |-> "idle"]
  <1>1. /\ TypeOK
        /\ pc'[p] = "journal" /\ job'[p] = s
        /\ \A o \in Procs \ {p} : pc'[o] = pc[o] /\ job'[o] = job[o]
        /\ UNCHANGED <<files, journal, lock, draft>>
    BY DEF DecidePair, SharedInv, TypeOK
  <1>2. files[q] \in M!Records /\ files[q].status = "active"
    BY DEF HasStatus, Holds
  <1>3. q = record_path(files[q].id)
    BY HeldWhereItBelongs DEF HasStatus
  <1>4. j \in Journals
    BY <1>2, RecordPathFacts, RecordFacts, WithStatusFacts DEF Journals, M!Statuses
  <1>5. s \in SupersedeJobs
    BY <1>4 DEF SupersedeJobs
  <1>6. PairOK(j)
    BY <1>2, <1>3, <1>4 DEF PairOK
  <1>7. TypeOK'
    BY <1>1, <1>5 DEF TypeOK, PCs, DecidePair
  <1>8. FilesInv'
    BY <1>1 DEF SharedInv, FilesInv, Holds
  <1>9. JournalInv'
    BY <1>1 DEF SharedInv, JournalInv
  <1>10. lock' = p
    BY <1>1 DEF SharedInv, MutualExclusion
  <1>11. journal' = NoJournal
    BY <1>1 DEF SharedInv, LocalInv, Undecided
  <1>12. LocalInv(p)'
    <2>1. Undecided(p)' /\ ReadyToWrite(p)' /\ Replaying(p)'
      BY <1>1, <1>11 DEF Undecided, ReadyToWrite, Replaying
    <2>2. ReadyToPair(p)'
      BY <1>1, <1>5, <1>6 DEF ReadyToPair, PairOK
    <2>3. FreshApproval(p)'
      BY <1>1 DEF FreshApproval, DuplicateOf, Holds
    <2> QED
      BY <2>1, <2>2, <2>3 DEF LocalInv
  <1> QED
    BY <1>1, <1>7, <1>8, <1>9, <1>10, <1>12, StepOf

-----------------------------------------------------------------------------
(* The facts that the guards of the operations rest on.                    *)

(* When every file parses, an id no file carries has no file at its path. *)
LEMMA UnknownIsFree ==
    ASSUME SharedInv, Scannable, NEW i \in Ids, ~ Known(i)
    PROVE  files[record_path(i)] = NoFile
  <1> SUFFICES ASSUME files[record_path(i)] # NoFile PROVE FALSE
    OBVIOUS
  <1>1. record_path(i) \in Paths /\ record_path(i)[2] = i
    BY RecordPathFacts
  <1>2. Holds(record_path(i))
    BY <1>1 DEF SharedInv, TypeOK, Files, Scannable, Holds
  <1>3. files[record_path(i)].id = i
    BY <1>1, <1>2 DEF SharedInv, FilesInv
  <1> QED
    BY <1>1, <1>2, <1>3 DEF Known

(* Changing a status and changing it back gives the record again. *)
LEMMA WithStatusBack ==
    ASSUME NEW r \in M!Records, NEW s \in M!Statuses
    PROVE  M!WithStatus(M!WithStatus(r, s), r.status) = r
  BY DEF M!WithStatus, M!Records

(* Whether a record repeats an open one does not depend on its status. *)
LEMMA DuplicateIgnoresStatus ==
    ASSUME NEW r \in M!Records, NEW s \in M!Statuses, NEW X
    PROVE  DuplicateOf(M!WithStatus(r, s), X) <=> DuplicateOf(r, X)
  BY WithStatusFacts DEF DuplicateOf, M!Duplicates

(* A write that changes only the status of the record at q. *)
LEMMA StatusWriteStep ==
    ASSUME SharedInv, NEW p \in Procs, pc[p] = "scan",
           NEW q \in Paths, Holds(q), NEW s \in M!Statuses,
           Decide(p, q, files[q], M!WithStatus(files[q], s)),
           \/ /\ files[q].status = "candidate" /\ s = "active"
              /\ \A o \in Ids : files[q].supersedes # {o}
              /\ ~ DuplicateOf(files[q], files[q].supersedes \cup {files[q].id})
           \/ files[q].status \in {"candidate", "active"} /\ s = "archived"
           \/ files[q].status = "archived" /\ s = "active"
    PROVE  SharedInv'
  <1> DEFINE old == files[q]
             new == M!WithStatus(files[q], s)
  <1>1. /\ old \in M!Records /\ old # NoFile /\ q = record_path(old.id)
    BY HeldWhereItBelongs
  <1>2. /\ new \in M!Records /\ new # NoFile
        /\ new.id = old.id /\ new.status = s /\ new.supersedes = old.supersedes
    BY <1>1, WithStatusFacts, RecordFacts
  <1>3. LegalWrite([path |-> q, base |-> old, file |-> new])
    BY <1>1, <1>2 DEF LegalWrite
  <1>4. DuplicateOf(new, new.supersedes \cup {new.id})
            <=> DuplicateOf(old, old.supersedes \cup {old.id})
    BY <1>1, <1>2, DuplicateIgnoresStatus
  <1>5. old.status = "candidate" /\ new.status = "active" =>
            ~ DuplicateOf(new, new.supersedes \cup {new.id})
    BY <1>2, <1>4
  <1> HIDE DEF old, new
  <1>6. Decide(p, q, old, new) /\ files[q] = old
    BY DEF old, new
  <1>7. new # NoFile => q = record_path(new.id)
    BY <1>1, <1>2
  <1> QED
    BY <1>1, <1>2, <1>3, <1>5, <1>6, <1>7, DecideStep

-----------------------------------------------------------------------------
(* One lemma for each group of steps.                                      *)

(* The store starts empty, with nobody inside an operation. *)
LEMMA InitIsShared == Init => SharedInv
  <1> SUFFICES ASSUME Init PROVE SharedInv
    OBVIOUS
  <1>1. TypeOK
    BY DEF Init, TypeOK, Files, PCs
  <1>2. MutualExclusion /\ FilesInv /\ JournalInv
    BY RepositoryAssumption DEF Init, MutualExclusion, FilesInv, JournalInv
  <1>3. \A p \in Procs : LocalInv(p)
    BY DEF Init, LocalInv, Undecided, ReadyToWrite, ReadyToPair, Replaying, FreshApproval
  <1> QED
    BY <1>1, <1>2, <1>3 DEF SharedInv

(* Taking the lock, and the operations and deaths that write nothing. *)
LEMMA IdleSteps ==
    ASSUME SharedInv, NEW p \in Procs,
           AcquireLock(p) \/ NothingToRecover(p) \/ RefuseRecovery(p) \/ Finish(p)
               \/ FindForEdit(p) \/ Crash(p)
    PROVE  SharedInv'
  <1>1. CASE AcquireLock(p) \/ NothingToRecover(p)
    <2>1. /\ TypeOK
          /\ UNCHANGED <<files, journal, job, draft>>
          /\ pc' = [pc EXCEPT ![p] = IF pc[p] = "idle" THEN "recover" ELSE "scan"]
          /\ pc[p] \in {"idle", "recover"}
          /\ lock' = p
          /\ pc[p] = "recover" => journal = NoJournal
          /\ pc[p] # "idle" \/ lock = NoProc
      BY <1>1 DEF AcquireLock, NothingToRecover, SharedInv, MutualExclusion
    <2>2. TypeOK' /\ pc'[p] \in {"recover", "scan"}
              /\ \A r \in Procs \ {p} : pc'[r] = pc[r] /\ job'[r] = job[r]
      BY <2>1 DEF TypeOK, PCs
    <2>3. FilesInv' /\ JournalInv'
      BY <2>1 DEF SharedInv, FilesInv, Holds, JournalInv
    <2>4. job'[p] = NoJob
      BY <2>1 DEF SharedInv, LocalInv, Undecided
    <2>5. pc'[p] = "scan" => journal' = NoJournal
      BY <2>1 DEF TypeOK
    <2>6. LocalInv(p)'
      BY <2>2, <2>4, <2>5 DEF LocalInv, Undecided, ReadyToWrite, ReadyToPair, Replaying,
                             FreshApproval
    <2> QED
      BY <2>1, <2>2, <2>3, <2>6, StepOf
  <1>2. CASE RefuseRecovery(p) \/ Finish(p) \/ Crash(p)
    <2>1. pc[p] # "idle" /\ Release(p) /\ ForgetDraft(p) /\ UNCHANGED disk
      BY <1>2 DEF RefuseRecovery, Finish, Crash
    <2>2. draft' \in [Procs -> Drafts \cup {NoDraft}]
      BY <2>1 DEF ForgetDraft, SharedInv, TypeOK
    <2> QED
      BY <2>1, <2>2, LeavingStep
  <1>3. CASE FindForEdit(p)
    <2>1. pc[p] # "idle" /\ Release(p) /\ UNCHANGED disk
      BY <1>3 DEF FindForEdit, Scanning
    <2>2. draft' \in [Procs -> Drafts \cup {NoDraft}]
      BY <1>3 DEF FindForEdit, Holds, Drafts, SharedInv, TypeOK
    <2> QED
      BY <2>1, <2>2, LeavingStep
  <1> QED
    BY <1>1, <1>2, <1>3

(* The operations that create a file. *)
LEMMA CreatingSteps ==
    ASSUME SharedInv, NEW p \in Procs, Add(p) \/ Propose(p) \/ ProposeUpdate(p)
    PROVE  SharedInv'
  <1>1. PICK r \in M!Records : /\ r.status \in {"active", "candidate"}
                               /\ ~ Known(r.id)
                               /\ Decide(p, record_path(r.id), NoFile, r)
    BY DEF Add, Propose, ProposeUpdate
  <1>2. pc[p] = "scan" /\ Scannable
    BY DEF Add, Propose, ProposeUpdate, Scanning
  <1>3. r.id \in Ids /\ record_path(r.id) \in Paths /\ r # NoFile
    BY RecordFacts, RecordPathFacts
  <1>4. files[record_path(r.id)] = NoFile
    BY <1>1, <1>2, <1>3, UnknownIsFree
  <1>5. LegalWrite([path |-> record_path(r.id), base |-> NoFile, file |-> r])
    BY <1>1, <1>3 DEF LegalWrite
  <1> QED
    BY <1>1, <1>2, <1>3, <1>4, <1>5, DecideStep

(* The operations that rewrite or remove one file. *)
LEMMA RewritingSteps ==
    ASSUME SharedInv, NEW p \in Procs,
           Approve(p) \/ Reject(p) \/ Archive(p) \/ Restore(p) \/ Forget(p) \/ Replace(p)
    PROVE  SharedInv'
  <1>1. CASE Approve(p) \/ Reject(p) \/ Archive(p) \/ Restore(p)
    <2>1. PICK q \in Paths, s \in M!Statuses :
              /\ Holds(q)
              /\ Decide(p, q, files[q], M!WithStatus(files[q], s))
              /\ \/ /\ files[q].status = "candidate" /\ s = "active"
                    /\ \A o \in Ids : files[q].supersedes # {o}
                    /\ ~ DuplicateOf(files[q], files[q].supersedes \cup {files[q].id})
                 \/ files[q].status \in {"candidate", "active"} /\ s = "archived"
                 \/ files[q].status = "archived" /\ s = "active"
      BY <1>1 DEF Approve, Approvable, Reject, Archive, Restore, HasStatus, M!Statuses
    <2>2. pc[p] = "scan"
      BY <1>1 DEF Approve, Reject, Archive, Restore, Scanning
    <2> QED
      BY <2>1, <2>2, StatusWriteStep
  <1>2. CASE Forget(p)
    <2>1. PICK q \in Paths : Holds(q) /\ Decide(p, q, files[q], NoFile)
      BY <1>2 DEF Forget
    <2>2. pc[p] = "scan"
      BY <1>2 DEF Forget, Scanning
    <2>3. files[q] \in M!Records /\ files[q] # NoFile
      BY <2>1, HeldWhereItBelongs
    <2>4. LegalWrite([path |-> q, base |-> files[q], file |-> NoFile])
      BY <2>3 DEF LegalWrite
    <2> QED
      BY <2>1, <2>2, <2>3, <2>4, DecideStep
  <1>3. CASE Replace(p)
    <2> DEFINE q == draft[p].path
    <2>1. PICK r \in M!Records : /\ r.id = draft[p].file.id
                                 /\ r.status = "active"
                                 /\ Decide(p, q, draft[p].file, r)
      BY <1>3 DEF Replace
    <2>2. /\ pc[p] = "scan"
          /\ files[q] = draft[p].file
          /\ HasStatus(q, "active")
          /\ draft[p] # NoDraft
      BY <1>3 DEF Replace
    <2>3. q \in Paths
      BY <2>2 DEF SharedInv, TypeOK, Drafts
    <2>4. /\ files[q] \in M!Records /\ files[q] # NoFile /\ files[q].status = "active"
          /\ q = record_path(files[q].id)
      BY <2>2, <2>3, HeldWhereItBelongs DEF HasStatus
    <2>5. r # NoFile
      BY RecordFacts
    <2>6. LegalWrite([path |-> q, base |-> files[q], file |-> r])
      BY <2>1, <2>2, <2>4, <2>5 DEF LegalWrite
    <2>7. Decide(p, q, files[q], r) /\ q = record_path(r.id)
      BY <2>1, <2>2, <2>4
    <2> HIDE DEF q
    <2> QED
      BY <2>2, <2>3, <2>4, <2>6, <2>7, DecideStep
  <1> QED
    BY <1>1, <1>2, <1>3

(* The operations that decide a supersession. *)
LEMMA PairingSteps ==
    ASSUME SharedInv, NEW p \in Procs, Supersede(p) \/ ApproveReplacement(p)
    PROVE  SharedInv'
  <1>1. pc[p] = "scan"
    BY DEF Supersede, ApproveReplacement, Scanning
  <1>2. CASE Supersede(p)
    <2>1. PICK q \in Paths, r \in M!Records :
              /\ HasStatus(q, "active")
              /\ files[q].id \in r.supersedes
              /\ ~ Known(r.id)
              /\ r.status = "active"
              /\ DecidePair(p, q, r, NoFile)
      BY <1>2 DEF Supersede
    <2>2. files[record_path(r.id)] = NoFile
      BY <1>2, <2>1, RecordFacts, UnknownIsFree DEF Supersede, Scanning
    <2> QED
      BY <1>1, <2>1, <2>2, DecidePairStep
  <1>3. CASE ApproveReplacement(p)
    <2>1. PICK q \in Paths, o \in Paths :
              /\ Approvable(q)
              /\ HasStatus(o, "active")
              /\ files[q].supersedes = {files[o].id}
              /\ DecidePair(p, o, M!WithStatus(files[q], "active"), files[q])
      BY <1>3 DEF ApproveReplacement
    <2> DEFINE b == files[q]
               r == M!WithStatus(files[q], "active")
    <2>2. /\ Holds(q) /\ b.status = "candidate"
          /\ ~ DuplicateOf(b, b.supersedes \cup {b.id})
      BY <2>1 DEF Approvable, HasStatus
    <2>3. b \in M!Records /\ b # NoFile /\ q = record_path(b.id)
      BY <2>2, HeldWhereItBelongs
    <2>4. /\ r \in M!Records /\ r.id = b.id /\ r.status = "active"
          /\ r.supersedes = {files[o].id}
      BY <2>1, <2>3, WithStatusFacts DEF M!Statuses
    <2>5. b = M!WithStatus(r, "candidate")
      BY <2>2, <2>3, WithStatusBack DEF M!Statuses
    <2>6. b.supersedes \cup {b.id} = {files[o].id, r.id}
      BY <2>1, <2>4
    <2>7. ~ DuplicateOf(r, {files[o].id, r.id})
      BY <2>2, <2>3, <2>6, DuplicateIgnoresStatus DEF M!Statuses
    <2>8. DecidePair(p, o, r, b) /\ files[record_path(r.id)] = b
      BY <2>1, <2>3, <2>4
    <2> HIDE DEF b, r
    <2> QED
      BY <1>1, <2>1, <2>3, <2>4, <2>5, <2>7, <2>8, DecidePairStep
  <1> QED
    BY <1>2, <1>3

(* Recovery finds both files in a known image and works out what is due. *)
LEMMA StartingRecovery ==
    ASSUME SharedInv, NEW p \in Procs, StartRecovery(p)
    PROVE  SharedInv'
  <1> DEFINE due == {s \in {"old", "new"} :
                        \/ s = "old" /\ files[journal.old_path] # journal.old_after
                        \/ s = "new" /\ files[journal.new_path] # journal.new_after}
             w == [journal |-> journal, redo |-> due, resume |-> "scan"]
  <1>1. /\ TypeOK
        /\ pc[p] = "recover" /\ journal # NoJournal /\ OldIsKnown /\ NewIsKnown
        /\ pc'[p] = "old" /\ job'[p] = w
        /\ \A r \in Procs \ {p} : pc'[r] = pc[r] /\ job'[r] = job[r]
        /\ UNCHANGED <<files, journal, lock, draft>>
    BY DEF StartRecovery, SharedInv, TypeOK
  <1>2. w \in SupersedeJobs
    BY <1>1 DEF TypeOK, SupersedeJobs
  <1>3. TypeOK'
    BY <1>1, <1>2 DEF TypeOK, PCs, StartRecovery
  <1>4. FilesInv' /\ JournalInv'
    BY <1>1 DEF SharedInv, FilesInv, Holds, JournalInv
  <1>5. lock' = p
    BY <1>1 DEF SharedInv, MutualExclusion
  <1>6. LocalInv(p)'
    <2>1. Undecided(p)' /\ ReadyToWrite(p)' /\ ReadyToPair(p)' /\ FreshApproval(p)'
      BY <1>1 DEF Undecided, ReadyToWrite, ReadyToPair, FreshApproval
    <2>2. Replaying(p)'
      BY <1>1, <1>2 DEF Replaying, OldIsKnown, NewIsKnown
    <2> QED
      BY <2>1, <2>2 DEF LocalInv
  <1> QED
    BY <1>1, <1>3, <1>4, <1>5, <1>6, StepOf

(* The rename that commits a supersession. *)
LEMMA WritingJournal ==
    ASSUME SharedInv, NEW p \in Procs, WriteJournal(p)
    PROVE  SharedInv'
  <1> DEFINE j == job[p].journal
  <1>1. /\ TypeOK
        /\ pc[p] = "journal" /\ journal' = j
        /\ pc'[p] = "old" /\ job' = job
        /\ \A r \in Procs \ {p} : pc'[r] = pc[r]
        /\ UNCHANGED <<files, lock, draft>>
    BY DEF WriteJournal, SharedInv, TypeOK
  <1>2. /\ job[p] \in SupersedeJobs /\ job[p].redo = {"old", "new"}
        /\ PairOK(j)
        /\ files[j.old_path] = j.old_before /\ files[j.new_path] = j.new_before
    BY <1>1 DEF SharedInv, LocalInv, ReadyToPair
  <1>3. j \in Journals /\ j # NoJournal /\ j.new_before # j.new_after
    BY <1>2, PairFacts DEF PairOK
  <1>4. TypeOK'
    BY <1>1, <1>3 DEF TypeOK, PCs, WriteJournal
  <1>5. FilesInv'
    BY <1>1 DEF SharedInv, FilesInv, Holds
  <1>6. JournalInv'
    BY <1>1, <1>2 DEF JournalInv
  <1>7. lock' = p
    BY <1>1 DEF SharedInv, MutualExclusion
  <1>8. LocalInv(p)'
    <2>1. Undecided(p)' /\ ReadyToWrite(p)' /\ ReadyToPair(p)' /\ FreshApproval(p)'
      BY <1>1 DEF Undecided, ReadyToWrite, ReadyToPair, FreshApproval
    <2>2. Replaying(p)'
      BY <1>1, <1>2, <1>3 DEF Replaying
    <2> QED
      BY <2>1, <2>2 DEF LocalInv
  <1> QED
    BY <1>1, <1>4, <1>5, <1>6, <1>7, <1>8, StepOf

(* A file is replaced by one that belongs there, or removed. *)
LEMMA FilesStayInPlace ==
    ASSUME TypeOK, FilesInv, NEW path \in Paths, NEW file \in M!Records \cup {NoFile},
           file # NoFile => path = record_path(file.id),
           files' = [files EXCEPT ![path] = file]
    PROVE  FilesInv'
  <1> SUFFICES ASSUME NEW q \in Paths, files'[q] # NoFile
               PROVE  q = record_path(q[2]) /\ (Holds(q)' => files'[q].id = q[2])
    BY DEF FilesInv, record_path
  <1>1. CASE q = path
    <2>1. files'[q] = file
      BY <1>1 DEF TypeOK
    <2>2. file \in M!Records /\ q = record_path(file.id) /\ file.id \in Ids
      BY <1>1, <2>1, RecordFacts
    <2> QED
      BY <2>1, <2>2, RecordPathFacts
  <1>2. CASE q # path
    <2>1. files'[q] = files[q]
      BY <1>2 DEF TypeOK
    <2> QED
      BY <2>1 DEF FilesInv, Holds
  <1> QED
    BY <1>1, <1>2

(* The old file is retired, or was already. *)
LEMMA WritingOld ==
    ASSUME SharedInv, NEW p \in Procs, WriteOld(p)
    PROVE  SharedInv'
  <1> DEFINE j == journal
  <1>1. /\ TypeOK
        /\ pc[p] = "old" /\ pc'[p] = "new" /\ job' = job
        /\ \A r \in Procs \ {p} : pc'[r] = pc[r]
        /\ UNCHANGED <<journal, lock, draft>>
    BY DEF WriteOld, SharedInv, TypeOK
  <1>2. /\ job[p] \in SupersedeJobs /\ j # NoJournal /\ j = job[p].journal
        /\ files[j.old_path] = IF "old" \in job[p].redo THEN j.old_before ELSE j.old_after
        /\ files[j.new_path] = IF "new" \in job[p].redo THEN j.new_before ELSE j.new_after
    BY <1>1 DEF SharedInv, LocalInv, Replaying
  <1>3. PairOK(j)
    BY <1>2 DEF SharedInv, JournalInv
  <1>4. files' = [files EXCEPT ![j.old_path] = j.old_after]
    BY <1>1, <1>2 DEF WriteOld, TypeOK
  <1>5. /\ files' \in [Paths -> Files]
        /\ files'[j.old_path] = j.old_after
        /\ files'[j.new_path] = files[j.new_path]
    BY <1>3, <1>4, PairFacts DEF SharedInv, TypeOK, Files
  <1>6. TypeOK'
    BY <1>1, <1>5 DEF TypeOK, PCs, WriteOld
  <1>7. FilesInv'
    <2>1. /\ j.old_path \in Paths /\ j.old_after \in M!Records \cup {NoFile}
          /\ j.old_path = record_path(j.old_after.id)
      BY <1>3, PairFacts DEF PairOK
    <2> QED
      BY <1>1, <1>4, <2>1, FilesStayInPlace DEF SharedInv
  <1>8. JournalInv'
    BY <1>1, <1>3 DEF JournalInv
  <1>9. lock' = p
    BY <1>1 DEF SharedInv, MutualExclusion
  <1>10. LocalInv(p)'
    <2>1. Undecided(p)' /\ ReadyToWrite(p)' /\ ReadyToPair(p)' /\ FreshApproval(p)'
      BY <1>1 DEF Undecided, ReadyToWrite, ReadyToPair, FreshApproval
    <2>2. Replaying(p)'
      BY <1>1, <1>2, <1>5 DEF Replaying
    <2> QED
      BY <2>1, <2>2 DEF LocalInv
  <1> QED
    BY <1>1, <1>6, <1>7, <1>8, <1>9, <1>10, StepOf

(* The replacement is installed, or was already. *)
LEMMA WritingNew ==
    ASSUME SharedInv, NEW p \in Procs, WriteNew(p)
    PROVE  SharedInv'
  <1> DEFINE j == journal
  <1>1. /\ TypeOK
        /\ pc[p] = "new" /\ pc'[p] = "clear" /\ job' = job
        /\ \A r \in Procs \ {p} : pc'[r] = pc[r]
        /\ UNCHANGED <<journal, lock, draft>>
    BY DEF WriteNew, SharedInv, TypeOK
  <1>2. /\ job[p] \in SupersedeJobs /\ j # NoJournal /\ j = job[p].journal
        /\ files[j.old_path] = j.old_after
        /\ files[j.new_path] = IF "new" \in job[p].redo THEN j.new_before ELSE j.new_after
    BY <1>1 DEF SharedInv, LocalInv, Replaying
  <1>3. PairOK(j)
    BY <1>2 DEF SharedInv, JournalInv
  <1>4. files' = [files EXCEPT ![j.new_path] = j.new_after]
    BY <1>1, <1>2 DEF WriteNew, TypeOK
  <1>5. /\ files' \in [Paths -> Files]
        /\ files'[j.old_path] = j.old_after
        /\ files'[j.new_path] = j.new_after
    BY <1>2, <1>3, <1>4, PairFacts DEF SharedInv, TypeOK, Files
  <1>6. TypeOK'
    BY <1>1, <1>5 DEF TypeOK, PCs, WriteNew
  <1>7. FilesInv'
    <2>1. /\ j.new_path \in Paths /\ j.new_after \in M!Records \cup {NoFile}
          /\ j.new_path = record_path(j.new_after.id)
      BY <1>3, PairFacts DEF PairOK
    <2> QED
      BY <1>1, <1>4, <2>1, FilesStayInPlace DEF SharedInv
  <1>8. JournalInv'
    BY <1>1, <1>3 DEF JournalInv
  <1>9. lock' = p
    BY <1>1 DEF SharedInv, MutualExclusion
  <1>10. LocalInv(p)'
    <2>1. Undecided(p)' /\ ReadyToWrite(p)' /\ ReadyToPair(p)' /\ FreshApproval(p)'
      BY <1>1 DEF Undecided, ReadyToWrite, ReadyToPair, FreshApproval
    <2>2. Replaying(p)'
      BY <1>1, <1>2, <1>5 DEF Replaying
    <2> QED
      BY <2>1, <2>2 DEF LocalInv
  <1> QED
    BY <1>1, <1>6, <1>7, <1>8, <1>9, <1>10, StepOf

(* The journal is removed; a recovery goes on to the scan. *)
LEMMA ClearingJournal ==
    ASSUME SharedInv, NEW p \in Procs, ClearJournal(p)
    PROVE  SharedInv'
  <1>1. /\ TypeOK
        /\ pc[p] = "clear" /\ journal' = NoJournal /\ job'[p] = NoJob
        /\ pc' = [pc EXCEPT ![p] = IF lock' = NoProc THEN "idle" ELSE "scan"]
        /\ \A r \in Procs \ {p} : pc'[r] = pc[r] /\ job'[r] = job[r]
        /\ lock' \in {p, NoProc}
        /\ UNCHANGED <<files, draft>>
    BY RepositoryAssumption DEF ClearJournal, Release, SharedInv, TypeOK, MutualExclusion
  <1>2. TypeOK'
    BY <1>1 DEF TypeOK, PCs, ClearJournal, Release
  <1>3. FilesInv' /\ JournalInv'
    BY <1>1 DEF SharedInv, FilesInv, Holds, JournalInv
  <1>4. pc'[p] \in {"idle", "scan"}
    BY <1>1 DEF TypeOK
  <1>5. LocalInv(p)'
    BY <1>1, <1>4 DEF LocalInv, Undecided, ReadyToWrite, ReadyToPair, Replaying, FreshApproval
  <1>6. IF pc'[p] = "idle" THEN lock' = NoProc ELSE lock' = p
    BY <1>1 DEF TypeOK
  <1> QED
    BY <1>1, <1>2, <1>3, <1>5, <1>6, StepOf

(* A decided write replaces or removes one file. *)
LEMMA Writing ==
    ASSUME SharedInv, NEW p \in Procs, Write(p)
    PROVE  SharedInv'
  <1>1. /\ TypeOK
        /\ pc[p] = "write" /\ files' = [files EXCEPT ![job[p].path] = job[p].file]
        /\ pc'[p] = "idle" /\ job'[p] = NoJob /\ lock' = NoProc
        /\ \A r \in Procs \ {p} : pc'[r] = pc[r] /\ job'[r] = job[r]
        /\ UNCHANGED journal
    BY DEF Write, Release, SharedInv, TypeOK
  <1>2. /\ journal = NoJournal
        /\ job[p].path \in Paths
        /\ job[p].file \in M!Records \cup {NoFile}
        /\ job[p].file # NoFile => job[p].path = record_path(job[p].file.id)
    BY <1>1 DEF SharedInv, LocalInv, Undecided, ReadyToWrite, WriteJobs
  <1>3. TypeOK'
    BY <1>1, <1>2 DEF TypeOK, Files, PCs, Write, Release, ForgetDraft
  <1>4. FilesInv'
    BY <1>1, <1>2, FilesStayInPlace DEF SharedInv
  <1>5. JournalInv'
    BY <1>1, <1>2 DEF JournalInv
  <1>6. LocalInv(p)'
    BY <1>1 DEF LocalInv, Undecided, ReadyToWrite, ReadyToPair, Replaying, FreshApproval
  <1> QED
    BY <1>1, <1>3, <1>4, <1>5, <1>6, StepOf

-----------------------------------------------------------------------------
(* What people's edits between operations keep.                            *)

(* Every step of every process keeps the invariant. *)
LEMMA NextKeepsShared == SharedInv /\ [Next]_vars => SharedInv'
  <1> SUFFICES ASSUME SharedInv, [Next]_vars PROVE SharedInv'
    OBVIOUS
  <1>1. CASE UNCHANGED vars
    BY <1>1 DEF vars, SharedInv, TypeOK, MutualExclusion, FilesInv, JournalInv, Holds, LocalInv,
                Undecided, ReadyToWrite, ReadyToPair, Replaying, FreshApproval, DuplicateOf
  <1>2. ASSUME NEW p \in Procs, AcquireLock(p) \/ Continue(p) \/ Crash(p)
        PROVE  SharedInv'
    <2>1. CASE AcquireLock(p) \/ NothingToRecover(p) \/ RefuseRecovery(p) \/ Finish(p)
                   \/ FindForEdit(p) \/ Crash(p)
      BY <2>1, IdleSteps
    <2>2. CASE Add(p) \/ Propose(p) \/ ProposeUpdate(p)
      BY <2>2, CreatingSteps
    <2>3. CASE Approve(p) \/ Reject(p) \/ Archive(p) \/ Restore(p) \/ Forget(p)
                   \/ Replace(p)
      BY <2>3, RewritingSteps
    <2>4. CASE Supersede(p) \/ ApproveReplacement(p)
      BY <2>4, PairingSteps
    <2>5. CASE StartRecovery(p)
      BY <2>5, StartingRecovery
    <2>6. CASE WriteJournal(p)
      BY <2>6, WritingJournal
    <2>7. CASE WriteOld(p)
      BY <2>7, WritingOld
    <2>8. CASE WriteNew(p)
      BY <2>8, WritingNew
    <2>9. CASE ClearJournal(p)
      BY <2>9, ClearingJournal
    <2>10. CASE Write(p)
      BY <2>10, Writing
    <2> QED
      BY <1>2, <2>1, <2>2, <2>3, <2>4, <2>5, <2>6, <2>7, <2>8, <2>9, <2>10 DEF Continue
  <1> QED
    BY <1>1, <1>2 DEF Next

(* A file that a person changes stays where it is and keeps its id. *)
LEMMA AuthorKeepsFiles ==
    ASSUME TypeOK, FilesInv, Author
    PROVE  files' \in [Paths -> Files] /\ FilesInv'
  <1>1. PICK q \in Paths, f \in Files :
          /\ files[q] # NoFile
          /\ files' = [files EXCEPT ![q] = f]
          /\ f \in M!Records => f.id = q[2]
    <2>1. PICK q \in Paths : AuthorEdit(q) \/ AuthorDamage(q) \/ AuthorDelete(q)
      BY DEF Author
    <2>2. CASE AuthorEdit(q)
      BY <2>2 DEF AuthorEdit, Files
    <2>3. CASE AuthorDamage(q)
      BY <2>3, RepositoryAssumption DEF AuthorDamage, Holds, Files
    <2>4. CASE AuthorDelete(q)
      BY <2>4, RepositoryAssumption DEF AuthorDelete, Files
    <2> QED
      BY <2>1, <2>2, <2>3, <2>4
  <1> QED
    BY <1>1 DEF FilesInv, TypeOK, Holds, record_path

(* A person changes files while no operation is running, so nothing an     *)
(* operation has read is lost.                                             *)
LEMMA AuthorKeepsShared ==
    ASSUME SharedInv, lock = NoProc, Author
    PROVE  SharedInv'
  <1>1. TypeOK /\ FilesInv /\ UNCHANGED <<journal, lock, pc, job, draft>>
    BY DEF SharedInv, Author
  <1>2. files' \in [Paths -> Files] /\ FilesInv'
    BY <1>1, AuthorKeepsFiles
  <1>3. TypeOK'
    BY <1>1, <1>2 DEF TypeOK
  <1>4. MutualExclusion' /\ JournalInv'
    BY <1>1 DEF SharedInv, MutualExclusion, JournalInv
  <1>5. ASSUME NEW p \in Procs PROVE LocalInv(p)'
    <2>1. pc'[p] = "idle" /\ job'[p] = NoJob
      <3>1. pc[p] = "idle"
        BY RepositoryAssumption DEF SharedInv, MutualExclusion
      <3> QED
        BY <1>1, <3>1 DEF SharedInv, LocalInv, Undecided
    <2> QED
      BY <2>1 DEF LocalInv, Undecided, ReadyToWrite, ReadyToPair, Replaying, FreshApproval
  <1> QED
    BY <1>2, <1>3, <1>4, <1>5 DEF SharedInv

LEMMA SharedKept == PoliteAuthoredSpec => []SharedInv
  <1>1. SharedInv /\ [Next \/ (lock = NoProc /\ Author)]_vars => SharedInv'
    BY NextKeepsShared, AuthorKeepsShared
  <1> QED
    BY <1>1, InitIsShared, PTL DEF PoliteAuthoredSpec

(* A store that nobody edits is one that people may edit. *)
LEMMA SpecIsAuthored == Spec => PoliteAuthoredSpec
  <1>1. [Next]_vars => [Next \/ (lock = NoProc /\ Author)]_vars
    OBVIOUS
  <1> QED
    BY <1>1, PTL DEF Spec, PoliteAuthoredSpec

(* ... and editing between operations is editing at some time. *)
LEMMA PoliteIsAuthored == PoliteAuthoredSpec => AuthoredSpec
  <1>1. [Next \/ (lock = NoProc /\ Author)]_vars => [Next \/ Author]_vars
    OBVIOUS
  <1> QED
    BY <1>1, PTL DEF PoliteAuthoredSpec, AuthoredSpec

-----------------------------------------------------------------------------
(* What holds even if people change files while operations run: where a    *)
(* process will write, and which record, is decided once.                  *)

Placed(p) ==
    /\ pc[p] \in {"idle", "recover", "scan"} => job[p] = NoJob
    /\ pc[p] = "write" =>
           /\ job[p] \in WriteJobs
           /\ job[p].file # NoFile => job[p].path = record_path(job[p].file.id)
    /\ pc[p] \in {"journal", "old", "new", "clear"} =>
           job[p] \in SupersedeJobs /\ PairOK(job[p].journal)

PlacedInv ==
    /\ TypeOK
    /\ MutualExclusion
    /\ FilesInv
    /\ JournalInv
    /\ \A p \in Procs : Placed(p)

(* A step of p keeps it when it keeps what concerns the store and p. *)
LEMMA PlacedStepOf ==
    ASSUME PlacedInv, NEW p \in Procs, pc[p] # "idle" \/ lock = NoProc,
           \A r \in Procs \ {p} : pc'[r] = pc[r] /\ job'[r] = job[r],
           TypeOK',
           IF pc'[p] = "idle" THEN lock' = NoProc ELSE lock' = p,
           FilesInv', JournalInv', Placed(p)'
    PROVE  PlacedInv'
  <1>1. \A r \in Procs \ {p} : pc[r] = "idle"
    BY RepositoryAssumption DEF PlacedInv, MutualExclusion
  <1>2. ASSUME NEW r \in Procs PROVE Placed(r)'
    <2>1. CASE r = p
      BY <2>1
    <2>2. CASE r # p
      BY <2>2, <1>1 DEF PlacedInv, Placed
    <2> QED
      BY <2>1, <2>2
  <1>3. MutualExclusion'
    BY <1>1, RepositoryAssumption DEF MutualExclusion
  <1> QED
    BY <1>2, <1>3 DEF PlacedInv

(* A step that leaves the files and the journal alone. *)
LEMMA QuietStepOf ==
    ASSUME PlacedInv, NEW p \in Procs, pc[p] # "idle" \/ lock = NoProc, UNCHANGED disk,
           \A r \in Procs \ {p} : pc'[r] = pc[r] /\ job'[r] = job[r],
           TypeOK',
           IF pc'[p] = "idle" THEN lock' = NoProc ELSE lock' = p,
           Placed(p)'
    PROVE  PlacedInv'
  <1>1. FilesInv' /\ JournalInv'
    BY DEF disk, PlacedInv, FilesInv, Holds, JournalInv
  <1> QED
    BY <1>1, PlacedStepOf

(* Taking the lock, recovering, and the ends of an operation. *)
LEMMA PlacedIdleSteps ==
    ASSUME PlacedInv, NEW p \in Procs,
           AcquireLock(p) \/ NothingToRecover(p) \/ StartRecovery(p) \/ RefuseRecovery(p)
               \/ Finish(p) \/ FindForEdit(p) \/ Crash(p)
    PROVE  PlacedInv'
  <1>1. TypeOK /\ Placed(p) /\ JournalInv
    BY DEF PlacedInv
  <1>2. CASE AcquireLock(p) \/ NothingToRecover(p)
    <2>1. /\ UNCHANGED <<files, journal, job, draft>>
          /\ pc' = [pc EXCEPT ![p] = IF pc[p] = "idle" THEN "recover" ELSE "scan"]
          /\ pc[p] \in {"idle", "recover"}
          /\ lock' = p
          /\ pc[p] # "idle" \/ lock = NoProc
      BY <1>2 DEF AcquireLock, NothingToRecover, PlacedInv, MutualExclusion
    <2>2. /\ TypeOK' /\ pc'[p] \in {"recover", "scan"}
          /\ \A r \in Procs \ {p} : pc'[r] = pc[r] /\ job'[r] = job[r]
      BY <1>1, <2>1 DEF TypeOK, PCs
    <2>3. Placed(p)'
      BY <1>1, <2>1, <2>2 DEF Placed
    <2> QED
      BY <2>1, <2>2, <2>3, QuietStepOf DEF disk
  <1>3. CASE StartRecovery(p)
    <2> DEFINE w == [journal |-> journal,
                     redo    |-> {s \in {"old", "new"} :
                         \/ s = "old" /\ files[journal.old_path] # journal.old_after
                         \/ s = "new" /\ files[journal.new_path] # journal.new_after},
                     resume  |-> "scan"]
    <2>1. /\ pc[p] = "recover" /\ journal # NoJournal
          /\ pc'[p] = "old" /\ job'[p] = w
          /\ \A r \in Procs \ {p} : pc'[r] = pc[r] /\ job'[r] = job[r]
          /\ UNCHANGED <<files, journal, lock, draft>>
      BY <1>1, <1>3 DEF StartRecovery, TypeOK
    <2>2. w \in SupersedeJobs /\ w.journal = journal
      BY <1>1, <2>1 DEF TypeOK, SupersedeJobs
    <2> HIDE DEF w
    <2>3. job' = [job EXCEPT ![p] = w] /\ pc' = [pc EXCEPT ![p] = "old"]
      BY <1>3 DEF StartRecovery, w
    <2>4. TypeOK'
      BY <1>1, <2>1, <2>2, <2>3 DEF TypeOK, PCs
    <2>5. Placed(p)'
      BY <1>1, <2>1, <2>2 DEF JournalInv, Placed, PairOK
    <2>6. lock' = p
      BY <2>1 DEF PlacedInv, MutualExclusion
    <2> QED
      BY <2>1, <2>4, <2>5, <2>6, QuietStepOf DEF disk
  <1>4. CASE RefuseRecovery(p) \/ Finish(p) \/ FindForEdit(p) \/ Crash(p)
    <2>1. pc[p] # "idle" /\ Release(p) /\ UNCHANGED disk
      BY <1>4 DEF RefuseRecovery, Finish, FindForEdit, Crash, Scanning
    <2>2. draft' \in [Procs -> Drafts \cup {NoDraft}]
      BY <1>1, <1>4 DEF RefuseRecovery, Finish, FindForEdit, Crash, ForgetDraft, Holds, Drafts,
                        TypeOK
    <2>3. /\ TypeOK' /\ pc'[p] = "idle" /\ job'[p] = NoJob /\ lock' = NoProc
          /\ \A r \in Procs \ {p} : pc'[r] = pc[r] /\ job'[r] = job[r]
      BY <1>1, <2>1, <2>2 DEF TypeOK, PCs, Release, disk
    <2>4. Placed(p)'
      BY <2>3 DEF Placed
    <2> QED
      BY <2>1, <2>3, <2>4, QuietStepOf
  <1> QED
    BY <1>2, <1>3, <1>4

(* A decision to write one file, where its record belongs. *)
LEMMA PlacedDecision ==
    ASSUME PlacedInv, NEW p \in Procs, pc[p] = "scan",
           NEW path \in Paths, NEW base \in M!Records \cup {NoFile},
           NEW file \in M!Records \cup {NoFile},
           Decide(p, path, base, file),
           file # NoFile => path = record_path(file.id)
    PROVE  PlacedInv'
  <1> DEFINE w == [path |-> path, base |-> base, file |-> file]
  <1>1. /\ TypeOK
        /\ pc'[p] = "write" /\ job'[p] = w
        /\ \A r \in Procs \ {p} : pc'[r] = pc[r] /\ job'[r] = job[r]
        /\ UNCHANGED <<files, journal, lock, draft>>
    BY DEF Decide, PlacedInv, TypeOK
  <1>2. w \in WriteJobs
    BY DEF WriteJobs
  <1>3. TypeOK'
    BY <1>1, <1>2 DEF TypeOK, PCs, Decide
  <1>4. Placed(p)'
    BY <1>1, <1>2 DEF Placed
  <1>5. lock' = p
    BY <1>1 DEF PlacedInv, MutualExclusion
  <1> QED
    BY <1>1, <1>3, <1>4, <1>5, QuietStepOf DEF disk

LEMMA PlacedDecisions ==
    ASSUME PlacedInv, NEW p \in Procs,
           \/ Add(p) \/ Propose(p) \/ ProposeUpdate(p)
           \/ Approve(p) \/ Reject(p) \/ Archive(p) \/ Restore(p) \/ Forget(p) \/ Replace(p)
    PROVE  PlacedInv'
  <1>1. FilesInv /\ TypeOK
    BY DEF PlacedInv
  <1>2. pc[p] = "scan"
    BY DEF Add, Propose, ProposeUpdate, Approve, Reject, Archive, Restore, Forget, Replace,
           Scanning
  <1>3. CASE Add(p) \/ Propose(p) \/ ProposeUpdate(p)
    <2>1. PICK r \in M!Records : Decide(p, record_path(r.id), NoFile, r)
      BY <1>3 DEF Add, Propose, ProposeUpdate
    <2>2. record_path(r.id) \in Paths
      BY RecordFacts, RecordPathFacts
    <2> QED
      BY <1>2, <2>1, <2>2, PlacedDecision
  <1>4. CASE Approve(p) \/ Reject(p) \/ Archive(p) \/ Restore(p)
    <2>1. PICK q \in Paths, s \in M!Statuses :
              Holds(q) /\ Decide(p, q, files[q], M!WithStatus(files[q], s))
      BY <1>4 DEF Approve, Approvable, Reject, Archive, Restore, HasStatus, M!Statuses
    <2>2. files[q] \in M!Records /\ q = record_path(files[q].id)
      BY <1>1, <2>1, HeldInPlace
    <2> DEFINE r == M!WithStatus(files[q], s)
    <2>3. r \in M!Records /\ r.id = files[q].id
      BY <2>2, WithStatusFacts
    <2> HIDE DEF r
    <2>4. Decide(p, q, files[q], r) /\ q = record_path(r.id)
      BY <2>1, <2>2, <2>3 DEF r
    <2> QED
      BY <1>2, <2>2, <2>3, <2>4, PlacedDecision
  <1>5. CASE Forget(p)
    <2>1. PICK q \in Paths : Holds(q) /\ Decide(p, q, files[q], NoFile)
      BY <1>5 DEF Forget
    <2>2. files[q] \in M!Records
      BY <2>1 DEF Holds
    <2> QED
      BY <1>2, <2>1, <2>2, PlacedDecision
  <1>6. CASE Replace(p)
    <2> DEFINE q == draft[p].path
    <2>1. PICK r \in M!Records : r.id = draft[p].file.id /\ Decide(p, q, draft[p].file, r)
      BY <1>6 DEF Replace
    <2>2. files[q] = draft[p].file /\ Holds(q) /\ q \in Paths
      BY <1>1, <1>6 DEF Replace, HasStatus, TypeOK, Drafts
    <2> HIDE DEF q
    <2>3. files[q] \in M!Records /\ q = record_path(files[q].id)
      BY <1>1, <2>2, HeldInPlace
    <2>4. Decide(p, q, files[q], r) /\ q = record_path(r.id)
      BY <2>1, <2>2, <2>3
    <2> QED
      BY <1>2, <2>2, <2>3, <2>4, PlacedDecision
  <1> QED
    BY <1>3, <1>4, <1>5, <1>6

(* A decision to supersede. *)
LEMMA PlacedPair ==
    ASSUME PlacedInv, NEW p \in Procs, pc[p] = "scan",
           NEW q \in Paths, NEW r \in M!Records, NEW before \in M!Records \cup {NoFile},
           DecidePair(p, q, r, before),
           HasStatus(q, "active"),
           r.status = "active",
           files[q].id \in r.supersedes,
           before # NoFile => before = M!WithStatus(r, "candidate")
    PROVE  PlacedInv'
  <1> DEFINE j == [old_path |-> q, old_before |-> files[q],
                   old_after |-> M!WithStatus(files[q], "superseded"),
                   new_path |-> record_path(r.id), new_before |-> before, new_after |-> r]
             s == [journal |-> j, redo |-> {"old", "new"}, resume |-> "idle"]
  <1>1. /\ TypeOK
        /\ pc'[p] = "journal" /\ job'[p] = s
        /\ \A o \in Procs \ {p} : pc'[o] = pc[o] /\ job'[o] = job[o]
        /\ UNCHANGED <<files, journal, lock, draft>>
    BY DEF DecidePair, PlacedInv, TypeOK
  <1>2. files[q] \in M!Records /\ files[q].status = "active"
    BY DEF HasStatus, Holds
  <1>3. q = record_path(files[q].id)
    BY HeldInPlace DEF HasStatus, PlacedInv
  <1>4. j \in Journals
    BY <1>2, RecordPathFacts, RecordFacts, WithStatusFacts DEF Journals, M!Statuses
  <1>5. s \in SupersedeJobs
    BY <1>4 DEF SupersedeJobs
  <1>6. PairOK(j)
    BY <1>2, <1>3, <1>4 DEF PairOK
  <1>7. TypeOK'
    BY <1>1, <1>5 DEF TypeOK, PCs, DecidePair
  <1>8. lock' = p
    BY <1>1 DEF PlacedInv, MutualExclusion
  <1>9. Placed(p)'
    BY <1>1, <1>5, <1>6 DEF Placed, PairOK
  <1> QED
    BY <1>1, <1>7, <1>8, <1>9, QuietStepOf DEF disk

LEMMA PlacedPairs ==
    ASSUME PlacedInv, NEW p \in Procs, Supersede(p) \/ ApproveReplacement(p)
    PROVE  PlacedInv'
  <1>1. pc[p] = "scan"
    BY DEF Supersede, ApproveReplacement, Scanning
  <1>2. CASE Supersede(p)
    <2>1. PICK q \in Paths, r \in M!Records :
              /\ HasStatus(q, "active")
              /\ files[q].id \in r.supersedes
              /\ r.status = "active"
              /\ DecidePair(p, q, r, NoFile)
      BY <1>2 DEF Supersede
    <2> QED
      BY <1>1, <2>1, PlacedPair
  <1>3. CASE ApproveReplacement(p)
    <2>1. PICK q \in Paths, o \in Paths :
              /\ Holds(q) /\ files[q].status = "candidate"
              /\ HasStatus(o, "active")
              /\ files[q].supersedes = {files[o].id}
              /\ DecidePair(p, o, M!WithStatus(files[q], "active"), files[q])
      BY <1>3 DEF ApproveReplacement, Approvable, HasStatus
    <2> DEFINE b == files[q]
               r == M!WithStatus(files[q], "active")
    <2>2. b \in M!Records
      BY <2>1 DEF Holds
    <2>3. /\ r \in M!Records /\ r.status = "active"
          /\ r.supersedes = {files[o].id}
      BY <2>1, <2>2, WithStatusFacts DEF M!Statuses
    <2>4. b = M!WithStatus(r, "candidate")
      BY <2>1, <2>2, WithStatusBack DEF M!Statuses
    <2>5. DecidePair(p, o, r, b) /\ files[o].id \in r.supersedes
      BY <2>1, <2>3
    <2> HIDE DEF b, r
    <2> QED
      BY <1>1, <2>1, <2>2, <2>3, <2>4, <2>5, PlacedPair
  <1> QED
    BY <1>2, <1>3

(* The steps that write: each puts a record where it belongs. *)
LEMMA PlacedWrites ==
    ASSUME PlacedInv, NEW p \in Procs,
           WriteJournal(p) \/ WriteOld(p) \/ WriteNew(p) \/ ClearJournal(p) \/ Write(p)
    PROVE  PlacedInv'
  <1>1. TypeOK /\ Placed(p) /\ FilesInv /\ JournalInv
    BY DEF PlacedInv
  <1>2. pc[p] # "idle" => lock = p
    BY DEF PlacedInv, MutualExclusion
  <1>3. CASE WriteJournal(p)
    <2>1. /\ pc[p] = "journal" /\ pc'[p] = "old" /\ journal' = job[p].journal
          /\ \A r \in Procs \ {p} : pc'[r] = pc[r]
          /\ UNCHANGED <<files, lock, draft, job>>
      BY <1>1, <1>3 DEF WriteJournal, TypeOK
    <2>2. job[p] \in SupersedeJobs /\ PairOK(job[p].journal) /\ job[p].journal \in Journals
      BY <1>1, <2>1 DEF Placed, PairOK
    <2>3. TypeOK'
      BY <1>1, <1>3, <2>1, <2>2 DEF TypeOK, PCs, WriteJournal
    <2>4. FilesInv' /\ JournalInv' /\ Placed(p)'
      BY <1>1, <2>1, <2>2 DEF FilesInv, Holds, JournalInv, Placed, PairOK
    <2> QED
      BY <1>2, <2>1, <2>3, <2>4, PlacedStepOf
  <1>4. CASE WriteOld(p) \/ WriteNew(p)
    <2> DEFINE j == job[p].journal
               path == IF pc[p] = "old" THEN j.old_path ELSE j.new_path
               file == IF pc[p] = "old" THEN j.old_after ELSE j.new_after
    <2>1. /\ pc[p] \in {"old", "new"} /\ pc'[p] \in {"new", "clear"}
          /\ pc' \in [Procs -> PCs]
          /\ files' \in {files, [files EXCEPT ![path] = file]}
          /\ \A r \in Procs \ {p} : pc'[r] = pc[r]
          /\ UNCHANGED <<journal, lock, draft, job>>
      BY <1>1, <1>4 DEF WriteOld, WriteNew, TypeOK, PCs
    <2>2. job[p] \in SupersedeJobs /\ PairOK(j)
      BY <1>1, <2>1 DEF Placed
    <2>3. path \in Paths /\ file \in M!Records \cup {NoFile} /\ path = record_path(file.id)
      BY <2>2, PairFacts DEF PairOK
    <2> HIDE DEF path, file, j
    <2>4. FilesInv'
      <3>1. CASE files' = files
        BY <1>1, <3>1 DEF FilesInv, Holds
      <3>2. CASE files' = [files EXCEPT ![path] = file]
        BY <1>1, <2>3, <3>2, FilesStayInPlace
      <3> QED
        BY <2>1, <3>1, <3>2
    <2>5. TypeOK'
      BY <1>1, <2>1, <2>3 DEF TypeOK, Files
    <2>6. JournalInv' /\ Placed(p)'
      BY <1>1, <2>1, <2>2 DEF JournalInv, Placed, PairOK, j
    <2> QED
      BY <1>2, <2>1, <2>4, <2>5, <2>6, PlacedStepOf
  <1>5. CASE ClearJournal(p)
    <2>1. /\ pc[p] = "clear" /\ journal' = NoJournal /\ job'[p] = NoJob
          /\ \/ pc'[p] = "idle" /\ lock' = NoProc
             \/ pc'[p] = "scan" /\ lock' = lock
          /\ pc' \in [Procs -> PCs] /\ job' = [job EXCEPT ![p] = NoJob]
          /\ \A r \in Procs \ {p} : pc'[r] = pc[r] /\ job'[r] = job[r]
          /\ UNCHANGED <<files, draft>>
      BY <1>1, <1>5 DEF ClearJournal, Release, TypeOK, PCs
    <2>2. TypeOK'
      BY <1>1, <2>1 DEF TypeOK
    <2>3. FilesInv' /\ JournalInv' /\ Placed(p)'
      BY <1>1, <2>1 DEF FilesInv, Holds, JournalInv, Placed
    <2> QED
      BY <1>2, <2>1, <2>2, <2>3, PlacedStepOf
  <1>6. CASE Write(p)
    <2>1. /\ pc[p] = "write" /\ pc'[p] = "idle" /\ job'[p] = NoJob /\ lock' = NoProc
          /\ files' = [files EXCEPT ![job[p].path] = job[p].file]
          /\ \A r \in Procs \ {p} : pc'[r] = pc[r] /\ job'[r] = job[r]
          /\ UNCHANGED journal
      BY <1>1, <1>6 DEF Write, Release, TypeOK
    <2>2. /\ job[p].path \in Paths /\ job[p].file \in M!Records \cup {NoFile}
          /\ job[p].file # NoFile => job[p].path = record_path(job[p].file.id)
      BY <1>1, <2>1 DEF Placed, WriteJobs
    <2>3. TypeOK'
      BY <1>1, <1>6, <2>1, <2>2 DEF TypeOK, Files, PCs, Write, Release, ForgetDraft
    <2>4. FilesInv'
      BY <1>1, <2>1, <2>2, FilesStayInPlace
    <2>5. JournalInv' /\ Placed(p)'
      BY <1>1, <2>1 DEF JournalInv, Placed
    <2> QED
      BY <2>1, <2>3, <2>4, <2>5, PlacedStepOf
  <1> QED
    BY <1>3, <1>4, <1>5, <1>6

LEMMA PlacedKept == AuthoredSpec => []PlacedInv
  <1>1. Init => PlacedInv
    <2> SUFFICES ASSUME Init PROVE PlacedInv
      OBVIOUS
    <2>1. SharedInv
      BY InitIsShared
    <2> QED
      BY <2>1 DEF Init, SharedInv, PlacedInv, Placed
  <1>2. ASSUME PlacedInv, NEW p \in Procs, AcquireLock(p) \/ Continue(p) \/ Crash(p)
        PROVE  PlacedInv'
    BY <1>2, PlacedIdleSteps, PlacedDecisions, PlacedPairs, PlacedWrites DEF Continue
  <1>3. ASSUME PlacedInv, Author PROVE PlacedInv'
    <2>1. TypeOK /\ MutualExclusion /\ FilesInv /\ JournalInv
      BY <1>3 DEF PlacedInv
    <2>2. UNCHANGED <<journal, lock, pc, job, draft>>
      BY <1>3 DEF Author
    <2>3. files' \in [Paths -> Files] /\ FilesInv'
      BY <1>3, <2>1, AuthorKeepsFiles
    <2>4. TypeOK'
      BY <2>1, <2>2, <2>3 DEF TypeOK
    <2>5. MutualExclusion' /\ JournalInv' /\ \A p \in Procs : Placed(p)'
      BY <1>3, <2>2 DEF PlacedInv, MutualExclusion, JournalInv, Placed
    <2> QED
      BY <2>3, <2>4, <2>5 DEF PlacedInv
  <1>4. PlacedInv /\ UNCHANGED vars => PlacedInv'
    BY DEF vars, PlacedInv, TypeOK, MutualExclusion, FilesInv, Holds, JournalInv, Placed
  <1>5. PlacedInv /\ [Next \/ Author]_vars => PlacedInv'
    BY <1>2, <1>3, <1>4 DEF Next
  <1> QED
    BY <1>1, <1>5, PTL DEF AuthoredSpec

(* Every process stays within the types of its state: no operation writes  *)
(* a file that does not parse, or a journal that is not one, even while    *)
(* people change the files it works on.                                    *)
THEOREM TypeCorrect == AuthoredSpec => []TypeOK
  <1>1. PlacedInv => TypeOK
    BY DEF PlacedInv
  <1> QED
    BY <1>1, PlacedKept, PTL

(* Whoever is inside an operation holds the mutation lock, alone. *)
THEOREM MutualExclusionHolds == AuthoredSpec => []MutualExclusion
  <1>1. PlacedInv => MutualExclusion
    BY DEF PlacedInv
  <1> QED
    BY <1>1, PlacedKept, PTL

(* scan_locked never answers DuplicateId while people leave each file its  *)
(* id and its place, whenever they edit it.                                *)
THEOREM IdsAreUnique == AuthoredSpec => []UniqueIds
  <1>1. PlacedInv => UniqueIds
    <2> SUFFICES ASSUME PlacedInv, NEW q \in Paths, NEW r \in Paths,
                        Holds(q), Holds(r), files[q].id = files[r].id
                 PROVE  q = r
      BY DEF UniqueIds
    <2>1. FilesInv
      BY DEF PlacedInv
    <2> QED
      BY <2>1, HeldInPlace
  <1> QED
    BY <1>1, PlacedKept, PTL

-----------------------------------------------------------------------------
(* While people edit between operations, what one has read is still there. *)

(* Every write of every operation replaces exactly what the operation read *)
(* at that path, however people edited, damaged or deleted files, each in  *)
(* its place, before it began.  Of moved files it does not hold (run       *)
(* repository_moved): a replacement is written where nothing was read.     *)
THEOREM NoUpdateIsLost == PoliteAuthoredSpec => []NoBlindOverwrite
  <1>1. SharedInv => NoBlindOverwrite
    BY DEF SharedInv, LocalInv, ReadyToWrite, ReadyToPair, Replaying, NoBlindOverwrite
  <1> QED
    BY <1>1, SharedKept, PTL

(* approve activates nothing that repeats another open record, whatever    *)
(* people made of that one, in its place, since the candidate was proposed. *)
THEOREM ApprovalsAreFresh == PoliteAuthoredSpec => []ApprovalIsFresh
  <1>1. SharedInv => ApprovalIsFresh
    BY DEF SharedInv, LocalInv, ApprovalIsFresh
  <1> QED
    BY <1>1, SharedKept, PTL

-----------------------------------------------------------------------------
(* An edit writes over the bytes that its editor read.                     *)

(* An editor's write is the one it drafted. *)
DraftInv ==
    \A p \in Procs : pc[p] = "write" /\ draft[p] # NoDraft =>
        job[p].path = draft[p].path /\ job[p].base = draft[p].file

(* Whoever decides a write without a draft, or with its own, keeps it so. *)
LEMMA DecideKeepsDraft ==
    ASSUME SharedInv, DraftInv, NEW p \in Procs, NEW path, NEW base, NEW file,
           Decide(p, path, base, file),
           draft[p] # NoDraft => path = draft[p].path /\ base = draft[p].file
    PROVE  DraftInv'
  <1>1. /\ TypeOK /\ draft' = draft
        /\ job'[p] = [path |-> path, base |-> base, file |-> file]
        /\ \A r \in Procs \ {p} : pc'[r] = pc[r] /\ job'[r] = job[r]
    BY DEF Decide, SharedInv, TypeOK
  <1> QED
    BY <1>1 DEF DraftInv

(* A step of p that decides no single write keeps it so. *)
LEMMA OtherStepsKeepDraft ==
    ASSUME SharedInv, DraftInv, NEW p \in Procs, pc'[p] # "write",
           \A r \in Procs \ {p} : pc'[r] = pc[r] /\ job'[r] = job[r] /\ draft'[r] = draft[r]
    PROVE  DraftInv'
  BY DEF DraftInv

LEMMA DraftKept ==
    ASSUME SharedInv, DraftInv, [Next \/ (lock = NoProc /\ Author)]_vars
    PROVE  DraftInv'
  <1> USE DEF SharedInv
  <1>1. CASE UNCHANGED <<pc, job, draft>>
    BY <1>1 DEF DraftInv
  <1>2. ASSUME NEW p \in Procs, AcquireLock(p) \/ Continue(p) \/ Crash(p)
        PROVE  DraftInv'
    <2>1. CASE AcquireLock(p) \/ NothingToRecover(p) \/ StartRecovery(p)
      <3>1. /\ pc'[p] # "write"
            /\ \A r \in Procs \ {p} : pc'[r] = pc[r] /\ job'[r] = job[r] /\ draft'[r] = draft[r]
        BY <2>1 DEF AcquireLock, NothingToRecover, StartRecovery, TypeOK
      <3> QED
        BY <3>1, OtherStepsKeepDraft
    <2>2. CASE RefuseRecovery(p) \/ Finish(p) \/ FindForEdit(p) \/ Crash(p) \/ Write(p)
      <3>1. /\ pc'[p] # "write"
            /\ \A r \in Procs \ {p} : pc'[r] = pc[r] /\ job'[r] = job[r] /\ draft'[r] = draft[r]
        BY <2>2 DEF RefuseRecovery, Finish, FindForEdit, Crash, Write, Release, ForgetDraft, TypeOK
      <3> QED
        BY <3>1, OtherStepsKeepDraft
    <2>3. CASE WriteJournal(p) \/ WriteOld(p) \/ WriteNew(p) \/ ClearJournal(p)
      <3>1. /\ pc'[p] # "write"
            /\ \A r \in Procs \ {p} : pc'[r] = pc[r] /\ job'[r] = job[r] /\ draft'[r] = draft[r]
        BY <2>3 DEF WriteJournal, WriteOld, WriteNew, ClearJournal, Release, TypeOK
      <3> QED
        BY <3>1, OtherStepsKeepDraft
    <2>4. CASE Supersede(p) \/ ApproveReplacement(p)
      <3>1. /\ pc'[p] # "write"
            /\ \A r \in Procs \ {p} : pc'[r] = pc[r] /\ job'[r] = job[r] /\ draft'[r] = draft[r]
        BY <2>4 DEF Supersede, ApproveReplacement, DecidePair, TypeOK
      <3> QED
        BY <3>1, OtherStepsKeepDraft
    <2>5. CASE Add(p) \/ Propose(p) \/ ProposeUpdate(p) \/ Approve(p) \/ Reject(p)
                   \/ Archive(p) \/ Restore(p) \/ Forget(p)
      <3>1. draft[p] = NoDraft
        BY <2>5 DEF Add, Propose, ProposeUpdate, Approve, Reject, Archive, Restore, Forget,
                    Scanning
      <3>2. \E path, base, file : Decide(p, path, base, file)
        BY <2>5 DEF Add, Propose, ProposeUpdate, Approve, Reject, Archive, Restore, Forget
      <3> QED
        BY <3>1, <3>2, DecideKeepsDraft
    <2>6. CASE Replace(p)
      <3>1. \E file : Decide(p, draft[p].path, draft[p].file, file)
        BY <2>6 DEF Replace
      <3> QED
        BY <3>1, DecideKeepsDraft
    <2> QED
      BY <1>2, <2>1, <2>2, <2>3, <2>4, <2>5, <2>6 DEF Continue
  <1> QED
    BY <1>1, <1>2 DEF Next, Author, vars

(* sbuf edit and PUT never write over bytes newer than those the editor    *)
(* read, unless somebody writes the file while the operation holds the     *)
(* lock: people who edit files in place between operations lose nothing.  *)
THEOREM EditsKeepNewerBytes == PoliteAuthoredSpec => []EditKeepsNewerBytes
  <1>1. Init => DraftInv
    BY DEF Init, DraftInv
  <1>2. SharedInv /\ DraftInv /\ [Next \/ (lock = NoProc /\ Author)]_vars => DraftInv'
    BY DraftKept
  <1>3. SharedInv /\ DraftInv => EditKeepsNewerBytes
    BY DEF SharedInv, LocalInv, ReadyToWrite, DraftInv, EditKeepsNewerBytes
  <1> QED
    BY <1>1, <1>2, <1>3, SharedKept, PTL DEF PoliteAuthoredSpec

-----------------------------------------------------------------------------
(* What holds when nobody edits files.                                     *)

(* Only five kinds of step change a file or the journal. *)
LEMMA DiskChanges ==
    ASSUME [Next]_vars
    PROVE  \/ UNCHANGED disk
           \/ \E p \in Procs : WriteJournal(p) \/ WriteOld(p) \/ WriteNew(p)
                                   \/ ClearJournal(p) \/ Write(p)
  <1>1. CASE UNCHANGED vars
    BY <1>1 DEF vars, disk
  <1>2. ASSUME NEW p \in Procs, AcquireLock(p) \/ Continue(p) \/ Crash(p),
               ~ (WriteJournal(p) \/ WriteOld(p) \/ WriteNew(p) \/ ClearJournal(p) \/ Write(p))
        PROVE  UNCHANGED disk
    <2>1. CASE AcquireLock(p) \/ NothingToRecover(p) \/ StartRecovery(p)
      BY <2>1 DEF disk, AcquireLock, NothingToRecover, StartRecovery
    <2>2. CASE RefuseRecovery(p) \/ Finish(p) \/ FindForEdit(p) \/ Crash(p)
      BY <2>2 DEF RefuseRecovery, Finish, FindForEdit, Crash
    <2>3. CASE Add(p) \/ Propose(p) \/ ProposeUpdate(p)
      BY <2>3 DEF disk, Add, Propose, ProposeUpdate, Decide
    <2>4. CASE Approve(p) \/ Reject(p) \/ Archive(p) \/ Restore(p) \/ Forget(p) \/ Replace(p)
      BY <2>4 DEF disk, Approve, Reject, Archive, Restore, Forget, Replace, Decide
    <2>5. CASE Supersede(p) \/ ApproveReplacement(p)
      BY <2>5 DEF disk, Supersede, ApproveReplacement, DecidePair
    <2> QED
      BY <1>2, <2>1, <2>2, <2>3, <2>4, <2>5 DEF Continue
  <1> QED
    BY <1>1, <1>2 DEF Next

LEMMA InitIsIInv == Init => IInv
  <1> SUFFICES ASSUME Init PROVE IInv
    OBVIOUS
  <1>1. SharedInv
    BY InitIsShared
  <1> QED
    BY <1>1, RepositoryAssumption DEF Init, IInv, JournalReplayable, OldIsRetired

(* Every step of every process keeps the inductive invariant. *)
LEMMA NextKeepsIInv == IInv /\ [Next]_vars => IInv'
  <1> SUFFICES ASSUME IInv, [Next]_vars PROVE IInv'
    OBVIOUS
  <1> DEFINE Kept == /\ \A q \in Paths : files[q] # Unreadable
                     /\ JournalReplayable
                     /\ OldIsRetired
  <1>1. SharedInv /\ SharedInv' /\ Kept /\ TypeOK /\ \A p \in Procs : LocalInv(p)
    BY NextKeepsShared DEF IInv, SharedInv
  <1>2. ASSUME UNCHANGED disk PROVE Kept'
    BY <1>1, <1>2 DEF disk, JournalReplayable, OldIsKnown, NewIsKnown, OldIsRetired
  <1>3. ASSUME NEW p \in Procs, WriteJournal(p) PROVE Kept'
    <2> DEFINE j == job[p].journal
    <2>1. /\ journal' = j /\ files' = files /\ PairOK(j)
          /\ files[j.old_path] = j.old_before /\ files[j.new_path] = j.new_before
      BY <1>1, <1>3 DEF WriteJournal, LocalInv, ReadyToPair
    <2>2. j.new_before # j.new_after
      BY <2>1, PairFacts
    <2> QED
      BY <1>1, <2>1, <2>2 DEF JournalReplayable, OldIsKnown, NewIsKnown, OldIsRetired
  <1>4. ASSUME NEW p \in Procs, WriteOld(p) \/ WriteNew(p) PROVE Kept'
    <2> DEFINE j == journal
    <2>1. /\ j # NoJournal /\ j = job[p].journal /\ journal' = j
          /\ pc[p] = "old" =>
                 files[j.old_path] = IF "old" \in job[p].redo THEN j.old_before ELSE j.old_after
          /\ pc[p] = "new" => files[j.old_path] = j.old_after
          /\ files[j.new_path] = IF "new" \in job[p].redo THEN j.new_before ELSE j.new_after
      BY <1>1, <1>4 DEF WriteOld, WriteNew, LocalInv, Replaying
    <2>2. PairOK(j)
      BY <1>1, <2>1 DEF SharedInv, JournalInv
    <2>3. /\ j.old_path \in Paths /\ j.new_path \in Paths /\ j.old_path # j.new_path
          /\ j.old_after # Unreadable /\ j.new_after # Unreadable
      BY <2>2, PairFacts, RecordFacts
    <2>4. /\ files'[j.old_path] = j.old_after
          /\ files'[j.new_path] \in {files[j.new_path], j.new_after}
          /\ \A q \in Paths : files'[q] \in {files[q], j.old_after, j.new_after}
      BY <1>1, <1>4, <2>1, <2>3 DEF WriteOld, WriteNew, TypeOK
    <2>5. files'[j.new_path] \in {j.new_before, j.new_after}
      BY <2>1, <2>4
    <2> QED
      BY <1>1, <2>1, <2>3, <2>4, <2>5 DEF JournalReplayable, OldIsKnown, NewIsKnown, OldIsRetired
  <1>5. ASSUME NEW p \in Procs, ClearJournal(p) PROVE Kept'
    BY <1>1, <1>5 DEF ClearJournal, JournalReplayable, OldIsRetired
  <1>6. ASSUME NEW p \in Procs, Write(p) PROVE Kept'
    <2>1. /\ journal' = NoJournal /\ job[p].file # Unreadable
          /\ files' = [files EXCEPT ![job[p].path] = job[p].file]
      BY <1>1, <1>6, RecordFacts, RepositoryAssumption
         DEF Write, LocalInv, Undecided, ReadyToWrite, WriteJobs
    <2> QED
      BY <1>1, <2>1 DEF TypeOK, JournalReplayable, OldIsRetired
  <1>7. Kept'
    BY <1>2, <1>3, <1>4, <1>5, <1>6, DiskChanges
  <1> QED
    BY <1>1, <1>7 DEF IInv

(* The inductive invariant holds in every reachable state. *)
LEMMA SpecKeepsIInv == Spec => []IInv
  BY InitIsIInv, NextKeepsIInv, PTL DEF Spec

(* recover_supersession never answers RecoveryConflict while only the      *)
(* store's own processes write.                                            *)
THEOREM RecoveryNeverConflicts == Spec => []JournalReplayable
  <1>1. IInv => JournalReplayable
    BY DEF IInv
  <1> QED
    BY <1>1, SpecKeepsIInv, PTL

(* Every rename that puts a replacement in place, in a commit or in a      *)
(* recovery, comes after the one that retires the old record.              *)
THEOREM OldIsRetiredFirst == Spec => OldRetiresFirst
  <1>1. IInv /\ [Next]_vars =>
            [/\ journal # NoJournal
             /\ files[journal.new_path] # journal.new_after
             /\ files'[journal.new_path] = journal.new_after
             => files[journal.old_path] = journal.old_after]_vars
    <2> SUFFICES ASSUME IInv, [Next]_vars,
                        journal # NoJournal,
                        files[journal.new_path] # journal.new_after,
                        files'[journal.new_path] = journal.new_after
                 PROVE  files[journal.old_path] = journal.old_after
      OBVIOUS
    <2>1. \A p \in Procs : LocalInv(p)
      BY DEF IInv, SharedInv
    <2>2. ASSUME NEW p \in Procs, WriteOld(p)
          PROVE  FALSE
      <3>1. journal = job[p].journal /\ PairOK(journal)
        BY <2>1, <2>2 DEF WriteOld, LocalInv, Replaying, IInv, SharedInv, JournalInv
      <3>2. /\ journal.old_path \in Paths /\ journal.new_path \in Paths
            /\ journal.old_path # journal.new_path
        BY <3>1, PairFacts
      <3>3. files'[journal.new_path] = files[journal.new_path]
        BY <2>2, <3>1, <3>2 DEF WriteOld, IInv, SharedInv, TypeOK
      <3> QED
        BY <3>3
    <2>3. ASSUME NEW p \in Procs, WriteNew(p)
          PROVE  files[journal.old_path] = journal.old_after
      BY <2>1, <2>3 DEF WriteNew, LocalInv, Replaying
    <2>4. ASSUME NEW p \in Procs, Write(p)
          PROVE  FALSE
      BY <2>1, <2>4 DEF Write, LocalInv, Undecided
    <2>5. ASSUME NEW p \in Procs, WriteJournal(p) \/ ClearJournal(p)
          PROVE  FALSE
      BY <2>5 DEF WriteJournal, ClearJournal
    <2>6. CASE UNCHANGED disk
      BY <2>6 DEF disk
    <2> QED
      BY <2>2, <2>3, <2>4, <2>5, <2>6, DiskChanges
  <1> QED
    BY <1>1, SpecKeepsIInv, PTL DEF Spec, OldRetiresFirst

-----------------------------------------------------------------------------
(* Superseded records are never rewritten.                                 *)

(* A file that holds a superseded record is kept or removed by any step. *)
LEMMA SupersededStays ==
    ASSUME SharedInv, [Next]_vars, NEW q \in Paths, HasStatus(q, "superseded")
    PROVE  files'[q] \in {files[q], NoFile}
  <1>1. ASSUME NEW p \in Procs, WriteOld(p) \/ WriteNew(p)
        PROVE  files'[q] = files[q]
    <2>1. /\ journal # NoJournal /\ journal = job[p].journal
          /\ pc[p] = "old" =>
                 files[journal.old_path] = IF "old" \in job[p].redo THEN journal.old_before
                                                                    ELSE journal.old_after
          /\ pc[p] \in {"old", "new"} =>
                 files[journal.new_path] = IF "new" \in job[p].redo THEN journal.new_before
                                                                    ELSE journal.new_after
      BY <1>1 DEF WriteOld, WriteNew, SharedInv, LocalInv, Replaying
    <2>2. PairOK(journal)
      BY <2>1 DEF SharedInv, JournalInv
    <2>3. /\ journal.old_before.status = "active"
          /\ journal.new_before # NoFile => journal.new_before.status = "candidate"
      BY <2>2, PairFacts, WithStatusFacts DEF PairOK, M!Statuses
    <2>4. files[q] # NoFile /\ files[q].status = "superseded"
      BY HeldWhereItBelongs DEF HasStatus
    <2> QED
      BY <1>1, <2>1, <2>3, <2>4 DEF WriteOld, WriteNew, SharedInv, TypeOK
  <1>2. ASSUME NEW p \in Procs, Write(p)
        PROVE  files'[q] \in {files[q], NoFile}
    <2>1. files' = [files EXCEPT ![job[p].path] = job[p].file]
      BY <1>2 DEF Write
    <2>2. job[p] \in WriteJobs /\ files[job[p].path] = job[p].base /\ LegalWrite(job[p])
      BY <1>2 DEF Write, SharedInv, LocalInv, ReadyToWrite
    <2>3. files[q] # NoFile /\ files[q].status = "superseded"
      BY HeldWhereItBelongs DEF HasStatus
    <2>4. job[p].path = q => job[p].file = NoFile
      BY <2>2, <2>3 DEF LegalWrite
    <2> QED
      BY <2>1, <2>4 DEF SharedInv, TypeOK
  <1>3. ASSUME NEW p \in Procs, WriteJournal(p) \/ ClearJournal(p)
        PROVE  files' = files
    BY <1>3 DEF WriteJournal, ClearJournal
  <1> QED
    BY <1>1, <1>2, <1>3, DiskChanges DEF disk

(* A superseded file is only ever forgotten. *)
THEOREM SupersededIsTerminal == Spec => TerminalHistory
  <1>1. IInv /\ [Next]_vars =>
            [\A q \in Paths : HasStatus(q, "superseded") =>
                 files'[q] \in {files[q], NoFile}]_vars
    BY SupersededStays DEF IInv
  <1> QED
    BY <1>1, SpecKeepsIInv, PTL DEF Spec, TerminalHistory

(* While an operation runs, a superseded file is kept or forgotten. *)
OperationsKeepHistory ==
    [][lock # NoProc =>
           \A q \in Paths : HasStatus(q, "superseded") =>
               files'[q] \in {files[q], NoFile}]_vars

(* No operation revives or rewrites a superseded record, whatever people   *)
(* wrote into the files, each in its place, before it began.               *)
THEOREM HistorySurvivesEdits == PoliteAuthoredSpec => OperationsKeepHistory
  <1>1. SharedInv /\ [Next \/ (lock = NoProc /\ Author)]_vars =>
            [lock # NoProc =>
                 \A q \in Paths : HasStatus(q, "superseded") =>
                     files'[q] \in {files[q], NoFile}]_vars
    <2> SUFFICES ASSUME SharedInv, [Next]_vars, NEW q \in Paths, HasStatus(q, "superseded")
                 PROVE  files'[q] \in {files[q], NoFile}
      OBVIOUS
    <2> QED
      BY SupersededStays
  <1> QED
    BY <1>1, SharedKept, PTL DEF PoliteAuthoredSpec, OperationsKeepHistory

-----------------------------------------------------------------------------
(* Record::transition_to never refuses what an operation asks of it.       *)

(* While an operation runs, a file that stays a record keeps its status or *)
(* moves along can_transition_to.                                          *)
FollowsLifecycle ==
    [][lock # NoProc =>
           \A q \in Paths : Holds(q) /\ Holds(q)' =>
               \/ files'[q].status = files[q].status
               \/ M!CanTransition(files[q].status, files'[q].status)]_vars

(* One step of any process changes a status only along the table. *)
LEMMA StatusMoves ==
    ASSUME SharedInv, [Next]_vars, NEW q \in Paths, Holds(q), Holds(q)'
    PROVE  \/ files'[q].status = files[q].status
           \/ M!CanTransition(files[q].status, files'[q].status)
  <1>1. ASSUME NEW p \in Procs, WriteOld(p) \/ WriteNew(p)
        PROVE  \/ files'[q].status = files[q].status
               \/ M!CanTransition(files[q].status, files'[q].status)
    <2>1. /\ journal # NoJournal /\ journal = job[p].journal
          /\ pc[p] = "old" =>
                 files[journal.old_path] = IF "old" \in job[p].redo THEN journal.old_before
                                                                    ELSE journal.old_after
          /\ pc[p] \in {"old", "new"} =>
                 files[journal.new_path] = IF "new" \in job[p].redo THEN journal.new_before
                                                                    ELSE journal.new_after
      BY <1>1 DEF WriteOld, WriteNew, SharedInv, LocalInv, Replaying
    <2>2. PairOK(journal)
      BY <2>1 DEF SharedInv, JournalInv
    <2>3. /\ journal.old_before.status = "active"
          /\ journal.old_after.status = "superseded"
          /\ journal.new_after.status = "active"
          /\ journal.new_before # NoFile => journal.new_before.status = "candidate"
      BY <2>2, PairFacts, WithStatusFacts DEF PairOK, M!Statuses
    <2>4. files[q] # NoFile
      BY HeldWhereItBelongs
    <2> QED
      BY <1>1, <2>1, <2>3, <2>4 DEF WriteOld, WriteNew, SharedInv, TypeOK, M!CanTransition
  <1>2. ASSUME NEW p \in Procs, Write(p)
        PROVE  \/ files'[q].status = files[q].status
               \/ M!CanTransition(files[q].status, files'[q].status)
    <2>1. files' = [files EXCEPT ![job[p].path] = job[p].file]
      BY <1>2 DEF Write
    <2>2. /\ job[p] \in WriteJobs /\ files[job[p].path] = job[p].base
          /\ LegalWrite(job[p])
      BY <1>2 DEF Write, SharedInv, LocalInv, ReadyToWrite
    <2>3. files[q] # NoFile /\ files'[q] # NoFile
      BY RecordFacts DEF Holds
    <2>4. CASE job[p].path = q
      <3>1. files[q] = job[p].base /\ files'[q] = job[p].file /\ files[q] \in M!Records
        BY <2>1, <2>2, <2>4 DEF SharedInv, TypeOK, Holds
      <3> QED
        BY <2>2, <2>3, <3>1, WithStatusFacts DEF LegalWrite, M!CanTransition, M!Statuses
    <2>5. CASE job[p].path # q
      BY <2>1, <2>5 DEF SharedInv, TypeOK
    <2> QED
      BY <2>4, <2>5
  <1>3. ASSUME NEW p \in Procs, WriteJournal(p) \/ ClearJournal(p)
        PROVE  files' = files
    BY <1>3 DEF WriteJournal, ClearJournal
  <1> QED
    BY <1>1, <1>2, <1>3, DiskChanges DEF disk

(* The guards of the operations imply the transition table of the record   *)
(* type: no operation ever needs the table's refusal, also for statuses    *)
(* that people wrote into the files, each in its place.                    *)
THEOREM TransitionsAreLegal == PoliteAuthoredSpec => FollowsLifecycle
  <1>1. SharedInv /\ [Next \/ (lock = NoProc /\ Author)]_vars =>
            [lock # NoProc =>
                 \A q \in Paths : Holds(q) /\ Holds(q)' =>
                     \/ files'[q].status = files[q].status
                     \/ M!CanTransition(files[q].status, files'[q].status)]_vars
    <2> SUFFICES ASSUME SharedInv, [Next]_vars, NEW q \in Paths, Holds(q), Holds(q)'
                 PROVE  \/ files'[q].status = files[q].status
                        \/ M!CanTransition(files[q].status, files'[q].status)
      OBVIOUS
    <2> QED
      BY StatusMoves
  <1> QED
    BY <1>1, SharedKept, PTL DEF PoliteAuthoredSpec, FollowsLifecycle

-----------------------------------------------------------------------------
(* The repository implements the abstract store.                           *)

(* Without a journal the store holds what the files hold. *)
LEMMA PlainMemory ==
    ASSUME journal = NoJournal, NEW i \in Ids
    PROVE  RecoveredMemory[i] = files[record_path(i)]
  BY DEF RecoveredMemory, Recovered

(* A step that leaves the store's content alone. *)
LEMMA SameMemory ==
    ASSUME \A i \in Ids : Recovered(record_path(i))' = Recovered(record_path(i))
    PROVE  UNCHANGED RecoveredMemory
  BY DEF RecoveredMemory

(* The steps after the journal's rename are invisible: the journal already *)
(* stands for the files they write.                                        *)
LEMMA PairStutters ==
    ASSUME SharedInv, NEW p \in Procs, WriteOld(p) \/ WriteNew(p) \/ ClearJournal(p)
    PROVE  UNCHANGED RecoveredMemory
  <1>1. /\ journal # NoJournal /\ journal = job[p].journal
        /\ pc[p] \in {"new", "clear"} => files[journal.old_path] = journal.old_after
        /\ pc[p] = "clear" => files[journal.new_path] = journal.new_after
    BY DEF WriteOld, WriteNew, ClearJournal, SharedInv, LocalInv, Replaying
  <1>2. PairOK(journal)
    BY <1>1 DEF SharedInv, JournalInv
  <1>3. \A i \in Ids : Recovered(record_path(i))' = Recovered(record_path(i))
    <2> TAKE i \in Ids
    <2>1. record_path(i)' = record_path(i)
      BY DEF record_path
    <2>2. CASE WriteOld(p) \/ WriteNew(p)
      <3>1. /\ journal' = journal
            /\ \A q \in Paths : q \notin {journal.old_path, journal.new_path} =>
                   files'[q] = files[q]
        BY <2>2, <1>1 DEF WriteOld, WriteNew, SharedInv, TypeOK
      <3> QED
        BY <3>1, <2>1, <1>1, RecordPathFacts DEF Recovered
    <2>3. CASE ClearJournal(p)
      BY <2>1, <2>3, <1>1 DEF ClearJournal, Recovered
    <2> QED
      BY <2>2, <2>3
  <1> QED
    BY <1>3, SameMemory

(* The journal's rename is the supersession of the abstract store. *)
LEMMA JournalIsSupersede ==
    ASSUME IInv, NEW p \in Procs, WriteJournal(p)
    PROVE  \E o \in Ids : M!Supersede(o)
  <1> DEFINE j == job[p].journal
             o == j.old_before.id
             r == j.new_after
  <1>1. /\ journal = NoJournal /\ journal' = j /\ files' = files
        /\ PairOK(j)
        /\ files[j.old_path] = j.old_before /\ files[j.new_path] = j.new_before
        /\ j.new_before # NoFile => ~ DuplicateOf(r, {o, r.id})
    BY DEF WriteJournal, IInv, SharedInv, LocalInv, Undecided, ReadyToPair, FreshApproval
  <1>2. /\ j # NoJournal
        /\ j.old_before \in M!Records /\ r \in M!Records
        /\ j.old_before.status = "active" /\ r.status = "active"
        /\ o \in r.supersedes
        /\ j.old_path = record_path(o) /\ j.new_path = record_path(r.id)
        /\ j.old_after = M!WithStatus(j.old_before, "superseded")
        /\ j.new_before # NoFile => j.new_before = M!WithStatus(r, "candidate")
    BY <1>1, PairFacts DEF PairOK
  <1>3. o \in Ids /\ r.id \in Ids /\ r.id # o
    BY <1>2, RecordFacts
  <1>4. RecoveredMemory[o] = j.old_before /\ RecoveredMemory[r.id] = j.new_before
    BY <1>1, <1>2, <1>3, PlainMemory
  <1>5. j.new_before # NoFile => M!Unduplicated(r)
    <2> SUFFICES ASSUME j.new_before # NoFile,
                        NEW i \in Ids \ (r.supersedes \cup {r.id}), M!Present(i)
                 PROVE  ~ M!Duplicates(RecoveredMemory[i], r)
      BY DEF M!Unduplicated
    <2>1. RecoveredMemory[i] = files[record_path(i)] /\ files[record_path(i)] # NoFile
      BY <1>1, PlainMemory DEF M!Present
    <2>2. Holds(record_path(i)) /\ files[record_path(i)].id = i
      BY <2>1, RecordPathFacts DEF IInv, SharedInv, TypeOK, Files, FilesInv, Holds
    <2>3. i \notin {o, r.id}
      BY <1>2
    <2> QED
      BY <1>1, <2>1, <2>2, <2>3, RecordPathFacts DEF DuplicateOf
  <1>6. RecoveredMemory' = [RecoveredMemory EXCEPT ![o] = M!WithStatus(@, "superseded"),
                                                  ![r.id] = r]
    <2> DEFINE new == [RecoveredMemory EXCEPT ![o] = M!WithStatus(@, "superseded"),
                                              ![r.id] = r]
    <2>1. ASSUME NEW i \in Ids PROVE RecoveredMemory'[i] = new[i]
      <3>1. RecoveredMemory'[i] = Recovered(record_path(i))'
        BY DEF RecoveredMemory, record_path
      <3>2. record_path(i)' = record_path(i)
        BY DEF record_path
      <3>3. Recovered(record_path(i))' =
                IF i = r.id THEN r
                ELSE IF i = o THEN M!WithStatus(j.old_before, "superseded")
                ELSE files[record_path(i)]
        BY <1>1, <1>2, <1>3, <3>2, RecordPathFacts DEF Recovered
      <3>4. new[i] = IF i = r.id THEN r
                     ELSE IF i = o THEN M!WithStatus(RecoveredMemory[o], "superseded")
                     ELSE RecoveredMemory[i]
        BY <1>3 DEF RecoveredMemory
      <3> QED
        BY <3>1, <3>3, <3>4, <1>1, <1>4, PlainMemory
    <2> QED
      BY <2>1 DEF RecoveredMemory
  <1>7. M!Present(o) /\ (M!Present(r.id) <=> j.new_before # NoFile)
    BY <1>2, <1>4, RecordFacts DEF M!Present
  <1> QED
    BY <1>2, <1>3, <1>4, <1>5, <1>6, <1>7 DEF M!Supersede

(* A write is one lifecycle step of the abstract store. *)
LEMMA WriteIsAbstractStep ==
    ASSUME IInv, NEW p \in Procs, Write(p)
    PROVE  M!Next
  <1> DEFINE b == job[p].base
             f == job[p].file
             i == IF f = NoFile THEN b.id ELSE f.id
  <1>1. /\ journal = NoJournal /\ journal' = NoJournal
        /\ files' = [files EXCEPT ![job[p].path] = f]
        /\ job[p] \in WriteJobs
        /\ files[job[p].path] = b
        /\ LegalWrite(job[p])
        /\ f # NoFile => job[p].path = record_path(f.id)
        /\ b # NoFile /\ b.status = "candidate" /\ f # NoFile /\ f.status = "active" =>
               ~ DuplicateOf(f, f.supersedes \cup {f.id})
    BY DEF Write, IInv, SharedInv, LocalInv, Undecided, ReadyToWrite, FreshApproval
  <1>2. /\ b \in M!Records \cup {NoFile} /\ f \in M!Records \cup {NoFile}
        /\ job[p].path \in Paths
    BY <1>1 DEF WriteJobs
  <1>3. b # NoFile => job[p].path = record_path(b.id) /\ b.id \in Ids
    BY <1>1, <1>2, RecordFacts, HeldWhereItBelongs DEF IInv, Holds
  <1>4. f # NoFile => f.id \in Ids
    BY <1>2, RecordFacts
  <1>5. i \in Ids /\ job[p].path = record_path(i)
    BY <1>1, <1>3, <1>4 DEF LegalWrite
  <1>6. RecoveredMemory[i] = b
    BY <1>1, <1>5, PlainMemory
  <1>7. RecoveredMemory' = [RecoveredMemory EXCEPT ![i] = f]
    <2>1. ASSUME NEW k \in Ids
          PROVE  RecoveredMemory'[k] = [RecoveredMemory EXCEPT ![i] = f][k]
      <3>1. RecoveredMemory'[k] = files'[record_path(k)]
        BY <1>1 DEF RecoveredMemory, Recovered, record_path
      <3>2. RecoveredMemory[k] = files[record_path(k)]
        BY <1>1, PlainMemory
      <3>3. record_path(k) \in Paths /\ (record_path(k) = record_path(i) <=> k = i)
        BY <1>5, RecordPathFacts
      <3>4. [RecoveredMemory EXCEPT ![i] = f][k] = IF k = i THEN f ELSE RecoveredMemory[k]
        BY DEF RecoveredMemory
      <3> HIDE DEF i, f
      <3> QED
        BY <1>1, <1>5, <3>1, <3>2, <3>3, <3>4 DEF IInv, SharedInv, TypeOK
    <2> HIDE DEF i, f
    <2> QED
      BY <2>1 DEF RecoveredMemory
  <1>8. M!Present(i) <=> b # NoFile
    BY <1>6 DEF M!Present
  <1>9. ASSUME b # NoFile, b.status = "candidate", f # NoFile, f.status = "active",
               f = M!WithStatus(b, "active")
        PROVE  M!Unduplicated(b)
    <2>1. b \in M!Records /\ f.id = b.id /\ f.supersedes = b.supersedes
      BY <1>2, <1>9, WithStatusFacts DEF M!Statuses
    <2>2. ~ DuplicateOf(b, b.supersedes \cup {b.id})
      BY <1>1, <1>9, <2>1, DuplicateIgnoresStatus DEF M!Statuses
    <2>3. ASSUME NEW k \in Ids \ (b.supersedes \cup {b.id}), M!Present(k)
          PROVE  ~ M!Duplicates(RecoveredMemory[k], b)
      <3>1. RecoveredMemory[k] = files[record_path(k)] /\ files[record_path(k)] # NoFile
        BY <1>1, <2>3, PlainMemory DEF M!Present
      <3>2. Holds(record_path(k)) /\ files[record_path(k)].id = k
        BY <3>1, RecordPathFacts DEF IInv, SharedInv, TypeOK, Files, FilesInv, Holds
      <3> QED
        BY <2>2, <3>1, <3>2, RecordPathFacts DEF DuplicateOf
    <2> QED
      BY <2>3 DEF M!Unduplicated
  <1>10. CASE b = NoFile
    BY <1>1, <1>2, <1>6, <1>7, <1>8, <1>10 DEF LegalWrite, M!Insert, M!Next
  <1>11. CASE b # NoFile /\ f = NoFile
    BY <1>5, <1>7, <1>8, <1>11 DEF M!Forget, M!Next
  <1>12. CASE b # NoFile /\ f # NoFile
    <2>1. f.id = b.id /\ b \in M!Records /\ f \in M!Records /\ i = f.id
      BY <1>1, <1>2, <1>12 DEF LegalWrite
    <2> HIDE DEF i
    <2>2. CASE b.status = "active" /\ f.status = "active"
      BY <2>1, <2>2, <1>6, <1>7, <1>8, <1>12 DEF M!Edit, M!Next
    <2>3. CASE /\ b.status = "candidate"
               /\ \A o \in Ids : b.supersedes # {o}
               /\ f = M!WithStatus(b, "active")
      <3>1. M!Unduplicated(b)
        BY <1>9, <1>12, <2>1, <2>3, WithStatusFacts DEF M!Statuses
      <3> QED
        BY <3>1, <2>3, <1>5, <1>6, <1>7, <1>8, <1>12 DEF M!Approve, M!Next
    <2>4. CASE b.status \in {"candidate", "active"} /\ f = M!WithStatus(b, "archived")
      BY <2>4, <1>5, <1>6, <1>7, <1>8, <1>12 DEF M!Archive, M!Next
    <2>5. CASE b.status = "archived" /\ f = M!WithStatus(b, "active")
      BY <2>5, <1>5, <1>6, <1>7, <1>8, <1>12 DEF M!Restore, M!Next
    <2> QED
      BY <1>1, <1>12, <2>2, <2>3, <2>4, <2>5 DEF LegalWrite
  <1> QED
    BY <1>10, <1>11, <1>12

(* An empty directory is an empty store. *)
LEMMA InitImplements == Init => M!Init
  <1> SUFFICES ASSUME Init PROVE M!Init
    OBVIOUS
  <1>1. \A i \in Ids : Recovered(record_path(i)) = NoFile
    BY RecordPathFacts DEF Init, Recovered
  <1> QED
    BY <1>1 DEF M!Init, RecoveredMemory

(* Every step of the repository is a step of the abstract store or leaves it *)
(* alone.                                                                  *)
LEMMA StepImplements == IInv /\ [Next]_vars => [M!Next]_RecoveredMemory
  <1> SUFFICES ASSUME IInv, [Next]_vars PROVE M!Next \/ UNCHANGED RecoveredMemory
    OBVIOUS
  <1>1. CASE UNCHANGED disk
    BY <1>1, SameMemory DEF disk, Recovered, record_path
  <1>2. ASSUME NEW p \in Procs, WriteOld(p) \/ WriteNew(p) \/ ClearJournal(p)
        PROVE  UNCHANGED RecoveredMemory
    BY <1>2, PairStutters DEF IInv
  <1>3. ASSUME NEW p \in Procs, WriteJournal(p) PROVE M!Next
    BY <1>3, JournalIsSupersede DEF M!Next
  <1>4. ASSUME NEW p \in Procs, Write(p) PROVE M!Next
    BY <1>4, WriteIsAbstractStep
  <1> QED
    BY <1>1, <1>2, <1>3, <1>4, DiskChanges

(* Locks, journals, files, crashes and recoveries together behave as a map *)
(* from ids to records that changes by atomic lifecycle steps.             *)
THEOREM RepositoryImplementsMemoryStore == Spec => ImplementsMemoryStore
  BY InitImplements, StepImplements, SpecKeepsIInv, PTL
     DEF Spec, ImplementsMemoryStore, M!Spec

=============================================================================
