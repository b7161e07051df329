---------------------------- MODULE Repository -----------------------------
(***************************************************************************)
(* RecordRepository (crates/core/src/repository.rs): processes that share  *)
(* one store directory of Markdown records.  Every operation takes the     *)
(* mutation lock without waiting, finishes a supersession that an earlier  *)
(* process left in the journal, scans the records, and then writes.  A     *)
(* supersession writes two files and is made recoverable by the journal.   *)
(* A process may die, or a write may fail, between any two durable steps.  *)
(* A person may also edit, move or delete record files with other tools.   *)
(*                                                                         *)
(* Abstractions.  A file's bytes are the record they parse to; two         *)
(* versions that differ only in updated_at are the same file, so the model *)
(* accepts every replacement the code accepts, and more.  A store holds    *)
(* one scope, so scope checks always succeed on records it can read.       *)
(***************************************************************************)
EXTENDS FiniteSets

CONSTANTS
    Procs,      \* threads and processes that run repository operations
    Editors,    \* the Procs that read a record, release the lock and write later
    Ids,
    Titles,
    Bodies,
    Dirs,       \* directories under records/
    Home,       \* the records directory itself, where the code puts new files
    NoFile,     \* what a path without a file holds
    Unreadable, \* a file that does not parse to a valid record of this store
    NoJournal, NoJob, NoDraft, NoProc

VARIABLES
    files,      \* the records directory: what each path holds
    journal,    \* locks/supersede.toml
    lock,       \* the holder of locks/mutation.lock
    pc,         \* where each process is in its operation
    job,        \* what the operation in progress has decided to write
    draft       \* the StoredRecord an editor read before it released the lock

disk == <<files, journal>>
vars == <<files, journal, lock, pc, job, draft>>

(* The lifecycle vocabulary: records, statuses, duplicates and overlaps.   *)
(* The instance's state is what the store holds once a pending             *)
(* supersession is finished: journal.old_after and journal.new_after stand *)
(* for the files they will replace.                                        *)
Paths == Dirs \X Ids

record_path(id) == <<Home, id>>

Recovered(q) ==
    IF journal = NoJournal THEN files[q]
    ELSE IF q = journal.new_path THEN journal.new_after
    ELSE IF q = journal.old_path THEN journal.old_after
    ELSE files[q]

RecoveredMemory == [i \in Ids |-> Recovered(record_path(i))]

M == INSTANCE MemoryStore WITH Absent <- NoFile, memory <- RecoveredMemory

Files == M!Records \cup {NoFile, Unreadable}

Journals ==
    [old_path : Paths, old_before : M!Records, old_after : M!Records,
     new_path : Paths, new_before : M!Records \cup {NoFile}, new_after : M!Records]

WriteJobs == [path : Paths, base : M!Records \cup {NoFile},
              file : M!Records \cup {NoFile}]

SupersedeJobs == [journal : Journals, redo : SUBSET {"old", "new"},
                  resume : {"scan", "idle"}]

Drafts == [path : Paths, file : M!Records]

PCs == {"idle", "recover", "scan", "write", "journal", "old", "new", "clear"}

(* The "nothing" values are none of the things they stand in for. *)
ASSUME RepositoryAssumption ==
    /\ Editors \subseteq Procs
    /\ Home \in Dirs
    /\ NoProc \notin Procs
    /\ NoFile \notin M!Records
    /\ Unreadable \notin M!Records
    /\ Unreadable # NoFile
    /\ NoJournal \notin Journals

TypeOK ==
    /\ files \in [Paths -> Files]
    /\ journal \in Journals \cup {NoJournal}
    /\ lock \in Procs \cup {NoProc}
    /\ pc \in [Procs -> PCs]
    /\ job \in [Procs -> WriteJobs \cup SupersedeJobs \cup {NoJob}]
    /\ draft \in [Procs -> Drafts \cup {NoDraft}]

Init ==
    /\ files = [q \in Paths |-> NoFile]
    /\ journal = NoJournal
    /\ lock = NoProc
    /\ pc = [p \in Procs |-> "idle"]
    /\ job = [p \in Procs |-> NoJob]
    /\ draft = [p \in Procs |-> NoDraft]

-----------------------------------------------------------------------------
(* Reading the store.                                                      *)

Holds(q) == files[q] \in M!Records

(* scan_locked succeeds: every file parses and no id is in two files. *)
Scannable ==
    /\ \A q \in Paths : files[q] # Unreadable
    /\ \A q, r \in Paths :
           Holds(q) /\ Holds(r) /\ files[q].id = files[r].id => q = r

Known(id) == \E q \in Paths : Holds(q) /\ files[q].id = id

(* matching_record_excluding_ids, for duplicates and for overlaps. *)
DuplicateOf(r, excluded) ==
    \E q \in Paths : /\ Holds(q)
                     /\ files[q].id \notin excluded
                     /\ M!Duplicates(files[q], r)

OverlapOf(r, excluded) ==
    \E q \in Paths : /\ Holds(q)
                     /\ files[q].id \notin excluded
                     /\ M!Overlaps(files[q], r)

-----------------------------------------------------------------------------
(* Starting and ending an operation.                                       *)

(* The lock guard is dropped and the locals go with it. *)
Release(p) ==
    /\ lock' = NoProc
    /\ pc' = [pc EXCEPT ![p] = "idle"]
    /\ job' = [job EXCEPT ![p] = NoJob]

ForgetDraft(p) == draft' = [draft EXCEPT ![p] = NoDraft]

(* Mutant of AcquireLock: the lock is taken without testing its holder. *)
AcquireHeldLock(p) ==
    /\ pc[p] = "idle"
    /\ lock' = p
    /\ pc' = [pc EXCEPT ![p] = "recover"]
    /\ UNCHANGED <<files, journal, job, draft>>

(* try_lock_exclusive succeeds; a busy lock is an error that changes       *)
(* nothing.                                                                *)
AcquireLock(p) ==
    /\ pc[p] = "idle"
    /\ lock = NoProc
    /\ lock' = p
    /\ pc' = [pc EXCEPT ![p] = "recover"]
    /\ UNCHANGED <<files, journal, job, draft>>

(* An operation that writes nothing: find, list, or any refusal. *)
Finish(p) ==
    /\ pc[p] = "scan"
    /\ Release(p)
    /\ ForgetDraft(p)
    /\ UNCHANGED disk

(* The process dies, or a system call of the operation fails.  The kernel  *)
(* or the guard's drop frees the lock; the files stay as they are.         *)
Crash(p) ==
    /\ pc[p] # "idle"
    /\ Release(p)
    /\ ForgetDraft(p)
    /\ UNCHANGED disk

-----------------------------------------------------------------------------
(* recover_supersession.                                                   *)

(* Mutant of NothingToRecover: an operation may skip the recovery. *)
SkipRecovery(p) ==
    /\ pc[p] = "recover"
    /\ pc' = [pc EXCEPT ![p] = "scan"]
    /\ UNCHANGED <<files, journal, lock, job, draft>>

NothingToRecover(p) ==
    /\ pc[p] = "recover"
    /\ journal = NoJournal
    /\ pc' = [pc EXCEPT ![p] = "scan"]
    /\ UNCHANGED <<files, journal, lock, job, draft>>

OldIsKnown == files[journal.old_path] \in {journal.old_before, journal.old_after}
NewIsKnown == files[journal.new_path] \in {journal.new_before, journal.new_after}

(* Both files hold an image the journal knows: the missing writes follow. *)
StartRecovery(p) ==
    /\ pc[p] = "recover"
    /\ journal # NoJournal
    /\ OldIsKnown
    /\ NewIsKnown
    /\ job' = [job EXCEPT ![p] =
           [journal |-> journal,
            redo    |-> {s \in {"old", "new"} :
                \/ s = "old" /\ files[journal.old_path] # journal.old_after
                \/ s = "new" /\ files[journal.new_path] # journal.new_after},
            resume  |-> "scan"]]
    /\ pc' = [pc EXCEPT ![p] = "old"]
    /\ UNCHANGED <<files, journal, lock, draft>>

(* RecoveryConflict: the operation fails and the journal stays. *)
RefuseRecovery(p) ==
    /\ pc[p] = "recover"
    /\ journal # NoJournal
    /\ ~ (OldIsKnown /\ NewIsKnown)
    /\ Release(p)
    /\ ForgetDraft(p)
    /\ UNCHANGED disk

-----------------------------------------------------------------------------
(* The durable steps of commit_supersession, shared with recovery.         *)

WriteJournal(p) ==
    /\ pc[p] = "journal"
    /\ journal' = job[p].journal
    /\ pc' = [pc EXCEPT ![p] = "old"]
    /\ UNCHANGED <<files, lock, job, draft>>

(* Mutant of WriteOld: the replacement is written before the old record. *)
WriteNewFirst(p) ==
    /\ pc[p] = "old"
    /\ files' = IF "new" \in job[p].redo
                THEN [files EXCEPT ![job[p].journal.new_path] = job[p].journal.new_after]
                ELSE files
    /\ pc' = [pc EXCEPT ![p] = "new"]
    /\ UNCHANGED <<journal, lock, job, draft>>

WriteOld(p) ==
    /\ pc[p] = "old"
    /\ files' = IF "old" \in job[p].redo
                THEN [files EXCEPT ![job[p].journal.old_path] = job[p].journal.old_after]
                ELSE files
    /\ pc' = [pc EXCEPT ![p] = "new"]
    /\ UNCHANGED <<journal, lock, job, draft>>

WriteNew(p) ==
    /\ pc[p] = "new"
    /\ files' = IF "new" \in job[p].redo
                THEN [files EXCEPT ![job[p].journal.new_path] = job[p].journal.new_after]
                ELSE files
    /\ pc' = [pc EXCEPT ![p] = "clear"]
    /\ UNCHANGED <<journal, lock, job, draft>>

(* Mutant of ClearJournal: a recovery leaves the journal behind. *)
KeepRecoveredJournal(p) ==
    /\ pc[p] = "clear"
    /\ \/ /\ job[p].resume = "idle"
          /\ journal' = NoJournal
          /\ Release(p)
       \/ /\ job[p].resume = "scan"
          /\ pc' = [pc EXCEPT ![p] = "scan"]
          /\ job' = [job EXCEPT ![p] = NoJob]
          /\ UNCHANGED <<journal, lock>>
    /\ UNCHANGED <<files, draft>>

(* After a commit the operation ends; after a recovery it goes on. *)
ClearJournal(p) ==
    /\ pc[p] = "clear"
    /\ journal' = NoJournal
    /\ \/ /\ job[p].resume = "idle"
          /\ Release(p)
       \/ /\ job[p].resume = "scan"
          /\ pc' = [pc EXCEPT ![p] = "scan"]
          /\ job' = [job EXCEPT ![p] = NoJob]
          /\ UNCHANGED lock
    /\ UNCHANGED <<files, draft>>

(* write_atomic, or remove_file for forget: one rename, one unlink. *)
Write(p) ==
    /\ pc[p] = "write"
    /\ files' = [files EXCEPT ![job[p].path] = job[p].file]
    /\ Release(p)
    /\ ForgetDraft(p)
    /\ UNCHANGED journal

-----------------------------------------------------------------------------
(* What an operation decides from the records it read under the lock.      *)

(* Write file to path; base is what the operation knows to be there. *)
Decide(p, path, base, file) ==
    /\ job' = [job EXCEPT ![p] = [path |-> path, base |-> base, file |-> file]]
    /\ pc' = [pc EXCEPT ![p] = "write"]
    /\ UNCHANGED <<files, journal, lock, draft>>

(* Supersede the record at q with r, whose file is now before. *)
DecidePair(p, q, r, before) ==
    /\ job' = [job EXCEPT ![p] =
           [journal |-> [old_path   |-> q,
                         old_before |-> files[q],
                         old_after  |-> M!WithStatus(files[q], "superseded"),
                         new_path   |-> record_path(r.id),
                         new_before |-> before,
                         new_after  |-> r],
            redo    |-> {"old", "new"},
            resume  |-> "idle"]]
    /\ pc' = [pc EXCEPT ![p] = "journal"]
    /\ UNCHANGED <<files, journal, lock, draft>>

Scanning(p) == pc[p] = "scan" /\ draft[p] = NoDraft /\ Scannable

HasStatus(q, s) == Holds(q) /\ files[q].status = s

Add(p) ==
    /\ Scanning(p)
    /\ \E r \in M!Records :
           /\ r.status = "active"
           /\ ~ Known(r.id)
           /\ files[record_path(r.id)] = NoFile
           /\ Decide(p, record_path(r.id), NoFile, r)

(* A person's proposal becomes active unless it overlaps an open record;   *)
(* an agent's proposal always waits as a candidate.                        *)
Propose(p) ==
    /\ Scanning(p)
    /\ \E r \in M!Records :
           /\ ~ Known(r.id)
           /\ ~ DuplicateOf(r, {r.id})
           /\ \/ r.status = "candidate"    \* an agent, or an overlap
              \/ r.status = "active" /\ ~ OverlapOf(r, {r.id})  \* a person
           /\ Decide(p, record_path(r.id), NoFile, r)

ProposeUpdate(p) ==
    /\ Scanning(p)
    /\ \E q \in Paths, r \in M!Records :
           /\ HasStatus(q, "active")
           /\ r.id # files[q].id
           /\ ~ Known(r.id)
           /\ r.supersedes = {files[q].id}
           /\ ~ DuplicateOf(r, {files[q].id, r.id})
           /\ r.status = "candidate"
           /\ Decide(p, record_path(r.id), NoFile, r)

(* Mutant of Approvable: the duplicate check of the proposal is trusted. *)
ApprovableOnceProposed(q) == HasStatus(q, "candidate")

(* A candidate may be activated: it repeats no open record it does not     *)
(* itself replace.                                                         *)
Approvable(q) ==
    /\ HasStatus(q, "candidate")
    /\ ~ DuplicateOf(files[q], files[q].supersedes \cup {files[q].id})

(* approve of a candidate that names no single record to replace. *)
Approve(p) ==
    /\ Scanning(p)
    /\ \E q \in Paths :
           /\ Approvable(q)
           /\ \A o \in Ids : files[q].supersedes # {o}
           /\ Decide(p, q, files[q], M!WithStatus(files[q], "active"))

(* Mutant of ApproveReplacement: the old record's status is not read again. *)
ApproveStaleReplacement(p) ==
    /\ Scanning(p)
    /\ \E q, o \in Paths :
           /\ Approvable(q)
           /\ Holds(o)
           /\ files[q].supersedes = {files[o].id}
           /\ DecidePair(p, o, M!WithStatus(files[q], "active"), files[q])

(* approve of a candidate that replaces one active record. *)
ApproveReplacement(p) ==
    /\ Scanning(p)
    /\ \E q, o \in Paths :
           /\ Approvable(q)
           /\ HasStatus(o, "active")
           /\ files[q].supersedes = {files[o].id}
           /\ DecidePair(p, o, M!WithStatus(files[q], "active"), files[q])

Reject(p) ==
    /\ Scanning(p)
    /\ \E q \in Paths : /\ HasStatus(q, "candidate")
                        /\ Decide(p, q, files[q], M!WithStatus(files[q], "archived"))

Archive(p) ==
    /\ Scanning(p)
    /\ \E q \in Paths : /\ HasStatus(q, "active")
                        /\ Decide(p, q, files[q], M!WithStatus(files[q], "archived"))

(* Mutant of Restore: anything inactive is restored. *)
RestoreInactive(p) ==
    /\ Scanning(p)
    /\ \E q \in Paths : /\ HasStatus(q, "archived") \/ HasStatus(q, "superseded")
                        /\ Decide(p, q, files[q], M!WithStatus(files[q], "active"))

Restore(p) ==
    /\ Scanning(p)
    /\ \E q \in Paths : /\ HasStatus(q, "archived")
                        /\ Decide(p, q, files[q], M!WithStatus(files[q], "active"))

Supersede(p) ==
    /\ Scanning(p)
    /\ \E q \in Paths, r \in M!Records :
           /\ HasStatus(q, "active")
           /\ r.id # files[q].id
           /\ files[q].id \in r.supersedes
           /\ ~ Known(r.id)
           /\ r.status = "active"
           /\ DecidePair(p, q, r, NoFile)

(* Mutant of Forget: the file is truncated, not removed. *)
ForgetByTruncating(p) ==
    /\ Scanning(p)
    /\ \E q \in Paths : Holds(q) /\ Decide(p, q, files[q], Unreadable)

Forget(p) ==
    /\ Scanning(p)
    /\ \E q \in Paths : Holds(q) /\ Decide(p, q, files[q], NoFile)

(* The first half of an edit: find returns a StoredRecord and the lock is  *)
(* released while a person or an HTTP client works on it.                  *)
FindForEdit(p) ==
    /\ Scanning(p)
    /\ p \in Editors
    /\ \E q \in Paths : /\ Holds(q)
                        /\ draft' = [draft EXCEPT ![p] = [path |-> q, file |-> files[q]]]
    /\ Release(p)
    /\ UNCHANGED disk

(* Mutants of Replace: the bytes are not compared; the id may change. *)
ReplaceUnchecked(p) ==
    /\ pc[p] = "scan"
    /\ draft[p] # NoDraft
    /\ HasStatus(draft[p].path, "active")
    /\ \E r \in M!Records :
           /\ r.id = draft[p].file.id
           /\ r.status = "active"
           /\ Decide(p, draft[p].path, draft[p].file, r)

ReplaceWithAnyId(p) ==
    /\ pc[p] = "scan"
    /\ draft[p] # NoDraft
    /\ files[draft[p].path] = draft[p].file
    /\ HasStatus(draft[p].path, "active")
    /\ \E r \in M!Records :
           /\ r.status = "active"
           /\ Decide(p, draft[p].path, draft[p].file, r)

(* replace_if_unchanged: only the drafted file is read again. *)
Replace(p) ==
    /\ pc[p] = "scan"
    /\ draft[p] # NoDraft
    /\ files[draft[p].path] = draft[p].file
    /\ HasStatus(draft[p].path, "active")
    /\ \E r \in M!Records :
           /\ r.id = draft[p].file.id
           /\ r.status = "active"
           /\ Decide(p, draft[p].path, draft[p].file, r)

-----------------------------------------------------------------------------

(* The steps of an operation that has begun, without its death. *)
Continue(p) ==
    \/ NothingToRecover(p) \/ StartRecovery(p) \/ RefuseRecovery(p)
    \/ Finish(p)
    \/ Add(p) \/ Propose(p) \/ ProposeUpdate(p)
    \/ Approve(p) \/ ApproveReplacement(p) \/ Reject(p)
    \/ Archive(p) \/ Restore(p) \/ Supersede(p) \/ Forget(p)
    \/ FindForEdit(p) \/ Replace(p)
    \/ Write(p)
    \/ WriteJournal(p) \/ WriteOld(p) \/ WriteNew(p) \/ ClearJournal(p)

Next == \E p \in Procs : AcquireLock(p) \/ Continue(p) \/ Crash(p)

Spec == Init /\ [][Next]_vars

(* A process that has begun an operation keeps being scheduled.  Nobody is *)
(* obliged to start one, and nothing is assumed about deaths.              *)
FairSpec == Spec /\ \A p \in Procs : WF_vars(Continue(p))

-----------------------------------------------------------------------------
(* Records are ordinary files: other tools edit, damage, delete and move   *)
(* them without any lock.                                                  *)

AuthorEdit(q) ==
    /\ files[q] # NoFile
    /\ \E r \in M!Records : r.id = q[2] /\ files' = [files EXCEPT ![q] = r]

AuthorDamage(q) ==
    /\ Holds(q)
    /\ files' = [files EXCEPT ![q] = Unreadable]

AuthorDelete(q) ==
    /\ files[q] # NoFile
    /\ files' = [files EXCEPT ![q] = NoFile]

AuthorMove(q, d) ==
    /\ files[q] # NoFile
    /\ files[<<d, q[2]>>] = NoFile
    /\ files' = [files EXCEPT ![q] = NoFile, ![<<d, q[2]>>] = files[q]]

Author ==
    /\ \E q \in Paths : AuthorEdit(q) \/ AuthorDamage(q) \/ AuthorDelete(q)
    /\ UNCHANGED <<journal, lock, pc, job, draft>>

Mover ==
    /\ \E q \in Paths, d \in Dirs : AuthorMove(q, d)
    /\ UNCHANGED <<journal, lock, pc, job, draft>>

(* People change files only while no operation is running. *)
PoliteAuthoredSpec == Init /\ [][Next \/ (lock = NoProc /\ Author)]_vars
FairAuthoredSpec == PoliteAuthoredSpec /\ \A p \in Procs : WF_vars(Continue(p))

(* As before, and they also move files between directories. *)
MovedSpec == Init /\ [][Next \/ (lock = NoProc /\ (Author \/ Mover))]_vars

(* People change files at any time. *)
AuthoredSpec == Init /\ [][Next \/ Author]_vars

-----------------------------------------------------------------------------
(* Properties.                                                             *)

(* The flock on locks/mutation.lock: whoever is inside an operation holds  *)
(* the lock, so no two processes are inside one at the same time.          *)
MutualExclusion == \A p \in Procs : pc[p] # "idle" <=> lock = p

(* replace_if_unchanged and every other writer: a file is only overwritten *)
(* while it still holds what the operation read there, so no update is     *)
(* lost between reading and writing, across any crash and recovery.        *)
NoBlindOverwrite ==
    \A p \in Procs :
        /\ pc[p] = "write" => files[job[p].path] = job[p].base
        /\ pc[p] \in {"journal", "old"} /\ "old" \in job[p].redo =>
               files[job[p].journal.old_path] = job[p].journal.old_before
        /\ pc[p] \in {"journal", "old", "new"} /\ "new" \in job[p].redo =>
               files[job[p].journal.new_path] = job[p].journal.new_before

(* recover_supersession: whatever operations and crashes came after a      *)
(* journal was written, both of its files still hold an image it knows, so *)
(* recovery never answers RecoveryConflict.                                *)
JournalReplayable == journal # NoJournal => OldIsKnown /\ NewIsKnown

(* commit_supersession and recover_supersession: the rename that puts a    *)
(* replacement in place, also where it finishes what somebody died in,     *)
(* finds the old file retired already, so no death between the two renames *)
(* leaves a replacement beside an old record that is still active.  A      *)
(* listing without the lock, which reads the files one by one, may yet put *)
(* such a pair together.                                                   *)
OldRetiresFirst ==
    [][/\ journal # NoJournal
       /\ files[journal.new_path] # journal.new_after
       /\ files'[journal.new_path] = journal.new_after
       => files[journal.old_path] = journal.old_after]_vars

(* scan_locked's DuplicateId: no record id is ever in two files.           *)
UniqueIds ==
    \A q, r \in Paths :
        Holds(q) /\ Holds(r) /\ files[q].id = files[r].id => q = r

(* The lifecycle makes superseded terminal: a file that reached that       *)
(* status is never rewritten, only forgotten.                              *)
TerminalHistory ==
    [][\A q \in Paths : HasStatus(q, "superseded") =>
           files'[q] \in {files[q], NoFile}]_vars

(* Every operation, torn supersessions and recoveries included, is one     *)
(* lifecycle step of the abstract store or changes nothing: the journal's  *)
(* rename is the moment a supersession happens.                            *)
ImplementsMemoryStore == M!Spec

(* What a process is about to activate repeats no open record except those *)
(* it replaces.                                                            *)
FreshApproval(p) ==
    /\ pc[p] = "write" /\ job[p].base # NoFile /\ job[p].base.status = "candidate"
           /\ job[p].file # NoFile /\ job[p].file.status = "active" =>
       ~ DuplicateOf(job[p].file, job[p].file.supersedes \cup {job[p].file.id})
    /\ pc[p] = "journal" /\ job[p].journal.new_before # NoFile =>
       ~ DuplicateOf(job[p].journal.new_after,
                     {job[p].journal.old_before.id, job[p].journal.new_after.id})

(* approve checks for duplicates again under the lock, whatever was        *)
(* edited, proposed or restored since the candidate was written.           *)
ApprovalIsFresh == \A p \in Procs : FreshApproval(p)

(* sbuf edit and PUT: if the file changed while it was open, the edit      *)
(* fails instead of overwriting the newer bytes.  It holds if people write *)
(* the files between operations (RepositoryProofs), not if they do so at   *)
(* any time, and no run checks it.                                         *)
EditKeepsNewerBytes ==
    \A p \in Procs : pc[p] = "write" /\ draft[p] # NoDraft =>
        files[draft[p].path] = draft[p].file

(* An interrupted supersession is finished by the next operation: a        *)
(* journal does not stay for ever unless processes keep dying before they  *)
(* have scanned the store, people keep changing files or have left one     *)
(* that the journal does not know, or nobody uses the store any more.      *)
RecoveryProgress ==
    \/ []<>(journal = NoJournal)
    \/ []<><<\E p \in Procs : pc[p] # "scan" /\ Crash(p)>>_vars
    \/ []<><<Author>>_vars
    \/ <>[](\A p \in Procs : pc[p] = "idle")
    \/ <>[](journal # NoJournal /\ ~ (OldIsKnown /\ NewIsKnown))

=============================================================================
