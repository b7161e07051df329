--------------------------- MODULE StoreLifecycle ---------------------------
(***************************************************************************)
(* The life of one project store: initialize_store (lib.rs), the mutation  *)
(* lock and a write under it (repository.rs), and destroy_store            *)
(* (backup.rs), which deletes the lock file with everything else, and so   *)
(* lets others make a new one while it goes on.  A lock belongs to the     *)
(* file a process has opened, not to its path, so lock files are numbered  *)
(* in the order of their creation.                                         *)
(***************************************************************************)
EXTENDS Naturals, FiniteSets

CONSTANTS
    Processes,
    Ids,            \* project ids; each is generated once
    MaxLocks,       \* bound on the lock files that are created
    NoStore         \* there is no store.toml

Visibilities == {"private", "shared"}
Stores == [id: Ids, visibility: Visibilities]
Records == Processes \X Ids     \* who wrote it, and the project it belongs to
Entries == {"lock", "marker", "ignore", "records"}

ASSUME NoStoreIsNoStore == NoStore \notin Stores
ASSUME MaxLocksIsNat == MaxLocks \in Nat

VARIABLES
    marker,     \* store.toml
    ignore,     \* .gitignore: "missing", "empty", or the rules it holds
    directory,  \* whether records/ exists
    records,    \* what is in it
    lockFile,   \* which file is at locks/mutation.lock, 0 for none
    created,    \* how many lock files there have been
    used,       \* the project ids that have been generated
    archive,    \* the records of the last export
    pc, job,
    ready,      \* an init has returned for the store that is there, all of it
    split,      \* observes: a lock file was created while another one was
                \* open, and some of them still are
    torn        \* observes: .gitignore may be another store's, because there
                \* were two locks, or somebody died while filling it or
                \* deleting, or deleted while an init had not returned

vars == <<marker, ignore, directory, records, lockFile, created, used, archive,
          pc, job, ready, split, torn>>
tree == <<marker, ignore, directory, records>>

Holding == {"locked", "write_marker", "write_record", "export", "delete"}
Job == [op: {"none", "init", "write", "destroy"}, visibility: Visibilities,
        opened: 0..MaxLocks, id: Ids \cup {NoStore}, export: BOOLEAN, todo: SUBSET Entries]
NoJob == [op |-> "none", visibility |-> "private", opened |-> 0, id |-> NoStore,
          export |-> FALSE, todo |-> {}]

TypeOK ==
    /\ marker \in Stores \cup {NoStore}
    /\ ignore \in {"missing", "empty"} \cup Visibilities
    /\ directory \in BOOLEAN
    /\ records \in SUBSET Records /\ (records # {} => directory)
    /\ lockFile \in 0..created /\ created \in 0..MaxLocks
    /\ used \in SUBSET Ids /\ archive \in SUBSET Records
    /\ pc \in [Processes -> {"idle", "confirm", "check", "open", "trylock",
                             "ignore", "create", "fill"} \cup Holding]
    /\ job \in [Processes -> Job]
    /\ ready \in BOOLEAN /\ split \in BOOLEAN /\ torn \in BOOLEAN

Init ==
    /\ marker = NoStore /\ ignore = "missing"
    /\ directory = FALSE /\ records = {}
    /\ lockFile = 0 /\ created = 0
    /\ used = {} /\ archive = {}
    /\ pc = [p \in Processes |-> "idle"]
    /\ job = [p \in Processes |-> NoJob]
    /\ ready = FALSE /\ split = FALSE /\ torn = FALSE

Goto(p, label) == pc' = [pc EXCEPT ![p] = label]

\* An operation returns or fails; the file it has locked is closed.
Return(p) == Goto(p, "idle") /\ job' = [job EXCEPT ![p] = NoJob]

\* Somebody has opened a lock file that is not at its path any more.
LockIsLost == lockFile = 0 /\ \E p \in Processes : job[p].opened # 0

Deleting(p) == job[p].op = "destroy" /\ pc[p] # "confirm"

\* An initialization that has released the lock and has not returned.
Finishing(p) == pc[p] \in {"ignore", "create", "fill"}

(***************************************************************************)
(* The mutation lock                                                       *)
(***************************************************************************)
\* acquire_store_mutation_lock wants store.toml before it opens the lock.
CheckStore(p) ==
    /\ pc[p] = "check"
    /\ IF marker = NoStore THEN Return(p) ELSE Goto(p, "open") /\ UNCHANGED job
    /\ UNCHANGED <<tree, lockFile, created, used, archive, ready, torn>>

\* acquire_store_initialization_lock creates the directory and the file.
OpenLock(p) ==
    /\ pc[p] = "open"
    /\ IF lockFile # 0 THEN UNCHANGED <<lockFile, created>>
       ELSE /\ created < MaxLocks
            /\ created' = created + 1
            /\ lockFile' = created + 1
    /\ job' = [job EXCEPT ![p].opened = lockFile']
    /\ Goto(p, "trylock")
    /\ torn' = (torn \/ LockIsLost)
    /\ UNCHANGED <<tree, used, archive, ready>>

\* try_lock_exclusive: a file that somebody else has locked is MutationBusy.
TryLock(p) ==
    /\ pc[p] = "trylock"
    /\ IF \E q \in Processes \ {p} : pc[q] \in Holding /\ job[q].opened = job[p].opened
         THEN Return(p)
         ELSE Goto(p, "locked") /\ UNCHANGED job
    /\ UNCHANGED <<tree, lockFile, created, used, archive, ready, torn>>

(***************************************************************************)
(* initialize_store                                                        *)
(***************************************************************************)
StartInit(p) ==
    /\ pc[p] = "idle"
    /\ \E visibility \in Visibilities :
        job' = [job EXCEPT ![p] = [NoJob EXCEPT !.op = "init", !.visibility = visibility]]
    /\ directory' = TRUE
    /\ Goto(p, "open")
    /\ UNCHANGED <<marker, ignore, records, lockFile, created, used, archive, ready, torn>>

\* Mutant of FindMarker: the requested visibility decides the ignore rules.
FindMarkerOnly(p) ==
    /\ pc[p] = "locked" /\ job[p].op = "init" /\ marker # NoStore
    /\ Goto(p, "ignore")
    /\ job' = [job EXCEPT ![p].opened = 0]
    /\ UNCHANGED <<tree, lockFile, created, used, archive, ready, torn>>

\* create_marker: a store that is there keeps its identity and its
\* visibility, which must not be shared against its will.
FindMarker(p) ==
    /\ pc[p] = "locked" /\ job[p].op = "init" /\ marker # NoStore
    /\ IF job[p].visibility = "shared" /\ marker.visibility = "private"
         THEN Return(p)
         ELSE /\ job' = [job EXCEPT ![p].visibility = marker.visibility, ![p].opened = 0]
              /\ Goto(p, "ignore")
    /\ UNCHANGED <<tree, lockFile, created, used, archive, ready, torn>>

\* Mutant of MissMarker: the store was found missing before the lock was taken.
MissedMarker(p) ==
    /\ pc[p] = "locked" /\ job[p].op = "init"
    /\ Goto(p, "write_marker")
    /\ UNCHANGED <<tree, lockFile, created, used, archive, job, ready, torn>>

MissMarker(p) ==
    /\ pc[p] = "locked" /\ job[p].op = "init" /\ marker = NoStore
    /\ Goto(p, "write_marker")
    /\ UNCHANGED <<tree, lockFile, created, used, archive, job, ready, torn>>

\* The file is renamed into place and the lock is released.
WriteMarker(p) ==
    /\ pc[p] = "write_marker"
    /\ \E id \in Ids \ used :
        /\ marker' = [id |-> id, visibility |-> job[p].visibility]
        /\ used' = used \cup {id}
    /\ job' = [job EXCEPT ![p].opened = 0]
    /\ ready' = FALSE
    /\ Goto(p, "ignore")
    /\ UNCHANGED <<ignore, directory, records, lockFile, created, archive, torn>>

\* ensure_project_gitignore, without the lock: the rules of a shared store are
\* compared, those of a private one are taken as they are.
FindIgnore(p) ==
    /\ pc[p] = "ignore" /\ ignore # "missing"
    /\ ready' = (ready \/ job[p].visibility = "private" \/ ignore = "shared")
    /\ Return(p)
    /\ UNCHANGED <<tree, lockFile, created, used, archive, torn>>

MissIgnore(p) ==
    /\ pc[p] = "ignore" /\ ignore = "missing"
    /\ Goto(p, "create")
    /\ UNCHANGED <<tree, lockFile, created, used, archive, job, ready, torn>>

\* create_file_if_missing: a file that somebody else has created is enough.
CreateIgnore(p) ==
    /\ pc[p] = "create"
    /\ IF ignore = "missing"
         THEN ignore' = "empty" /\ Goto(p, "fill") /\ UNCHANGED <<job, ready>>
         ELSE Return(p) /\ ready' = TRUE /\ UNCHANGED ignore
    /\ UNCHANGED <<marker, directory, records, lockFile, created, used, archive, torn>>

FillIgnore(p) ==
    /\ pc[p] = "fill"
    /\ ignore' = IF ignore = "missing" THEN "missing" ELSE job[p].visibility
    /\ ready' = TRUE
    /\ Return(p)
    /\ UNCHANGED <<marker, directory, records, lockFile, created, used, archive, torn>>

(***************************************************************************)
(* A write under the lock: RecordRepository::add                           *)
(***************************************************************************)
\* validate_store_scope reads store.toml before the lock is taken.
StartWrite(p) ==
    /\ pc[p] = "idle" /\ marker # NoStore
    /\ job' = [job EXCEPT ![p] = [NoJob EXCEPT !.op = "write", !.id = marker.id]]
    /\ Goto(p, "check")
    /\ UNCHANGED <<tree, lockFile, created, used, archive, ready, torn>>

\* scan_locked needs the directory; a record that is there is not added again.
Scan(p) ==
    /\ pc[p] = "locked" /\ job[p].op = "write"
    /\ IF ~directory \/ <<p, job[p].id>> \in records
         THEN Return(p)
         ELSE Goto(p, "write_record") /\ UNCHANGED job
    /\ UNCHANGED <<tree, lockFile, created, used, archive, ready, torn>>

WriteRecord(p) ==
    /\ pc[p] = "write_record"
    /\ records' = records \cup {<<p, job[p].id>>}
    /\ directory' = TRUE
    /\ Return(p)
    /\ UNCHANGED <<marker, ignore, lockFile, created, used, archive, ready, torn>>

(***************************************************************************)
(* destroy_store                                                           *)
(***************************************************************************)
\* preview_store_destruction shows the identity that is to be confirmed.
Preview(p) ==
    /\ pc[p] = "idle" /\ marker # NoStore
    /\ \E export \in BOOLEAN :
        job' = [job EXCEPT ![p] = [NoJob EXCEPT !.op = "destroy", !.id = marker.id,
                                                !.export = export]]
    /\ Goto(p, "confirm")
    /\ UNCHANGED <<tree, lockFile, created, used, archive, ready, torn>>

Cancel(p) ==
    /\ pc[p] = "confirm"
    /\ Return(p)
    /\ UNCHANGED <<tree, lockFile, created, used, archive, ready, torn>>

Confirm(p) ==
    /\ pc[p] = "confirm"
    /\ Goto(p, "check")
    /\ UNCHANGED <<tree, lockFile, created, used, archive, job, ready, torn>>

\* Mutant of CheckIdentity: the preview has compared the identity already.
SkipIdentity(p) ==
    /\ pc[p] = "locked" /\ job[p].op = "destroy"
    /\ Goto(p, IF job[p].export THEN "export" ELSE "delete")
    /\ job' = [job EXCEPT ![p].todo = Entries]
    /\ UNCHANGED <<tree, lockFile, created, used, archive, ready, torn>>

\* Under the lock the store must still be the one that was confirmed.
CheckIdentity(p) ==
    /\ pc[p] = "locked" /\ job[p].op = "destroy"
    /\ IF marker = NoStore \/ marker.id # job[p].id
         THEN Return(p)
         ELSE /\ Goto(p, IF job[p].export THEN "export" ELSE "delete")
              /\ job' = [job EXCEPT ![p].todo = Entries]
    /\ UNCHANGED <<tree, lockFile, created, used, archive, ready, torn>>

\* export_records: every record that scan_locked has found.
Exported == records

\* Mutant of Export: an archive that is there already is kept.
ExportOnce(p) ==
    /\ pc[p] = "export"
    /\ archive' = IF archive = {} THEN Exported ELSE archive
    /\ Goto(p, "delete")
    /\ UNCHANGED <<tree, lockFile, created, used, job, ready, torn>>

\* The archive is made and verified before it replaces the one that is there.
Export(p) ==
    /\ pc[p] = "export"
    /\ archive' = Exported
    /\ Goto(p, "delete")
    /\ UNCHANGED <<tree, lockFile, created, used, job, ready, torn>>

\* An archive that cannot be verified, is too long or would be in the store.
ExportFails(p) ==
    /\ pc[p] = "export"
    /\ Return(p)
    /\ UNCHANGED <<tree, lockFile, created, used, archive, ready, torn>>

\* Mutant of Delete: the directory is gone, the records in it are not.
DeleteDirectory(p) ==
    /\ pc[p] = "delete"
    /\ \E entry \in job[p].todo :
        /\ job' = [job EXCEPT ![p].todo = @ \ {entry}]
        /\ marker' = IF entry = "marker" THEN NoStore ELSE marker
        /\ directory' = (directory /\ entry # "records")
        /\ ready' = FALSE /\ torn' = TRUE
    /\ UNCHANGED <<ignore, lockFile, records, created, used, archive, pc>>

\* remove_dir_all: one entry after the other, in the order of the directory.
Delete(p) ==
    /\ pc[p] = "delete"
    /\ \E entry \in job[p].todo :
        /\ job' = [job EXCEPT ![p].todo = @ \ {entry}]
        /\ marker' = IF entry = "marker" THEN NoStore ELSE marker
        /\ ignore' = IF entry = "ignore" THEN "missing" ELSE ignore
        /\ lockFile' = IF entry = "lock" THEN 0 ELSE lockFile
        /\ directory' = (directory /\ entry # "records")
        /\ records' = IF entry = "records" THEN {} ELSE records
        /\ ready' = (ready /\ entry \notin {"marker", "ignore"})
        /\ torn' = \/ torn
                   \/ entry \in {"marker", "ignore"} /\ \E q \in Processes : Finishing(q)
    /\ UNCHANGED <<created, used, archive, pc>>

\* The root itself goes, unless something new is in it.
EndDelete(p) ==
    /\ pc[p] = "delete" /\ job[p].todo = {}
    /\ Return(p)
    /\ UNCHANGED <<tree, lockFile, created, used, archive, ready, torn>>

\* A process dies; the kernel closes its files.
Die(p) ==
    /\ pc[p] \notin {"idle", "confirm"}
    /\ torn' = (torn \/ pc[p] \in {"fill", "delete"})
    /\ Return(p)
    /\ UNCHANGED <<tree, lockFile, created, used, archive, ready>>

Step(p) ==
    \/ CheckStore(p) \/ OpenLock(p) \/ TryLock(p)
    \/ StartInit(p) \/ FindMarker(p) \/ MissMarker(p) \/ WriteMarker(p)
    \/ FindIgnore(p) \/ MissIgnore(p) \/ CreateIgnore(p) \/ FillIgnore(p)
    \/ StartWrite(p) \/ Scan(p) \/ WriteRecord(p)
    \/ Preview(p) \/ Cancel(p) \/ Confirm(p) \/ CheckIdentity(p)
    \/ Export(p) \/ ExportFails(p)
    \/ Delete(p) \/ EndDelete(p) \/ Die(p)

\* The two locks of a store whose lock file was deleted; nothing reads this.
WatchLocks ==
    split' = /\ \E p \in Processes : job'[p].opened # 0
             /\ split \/ (LockIsLost /\ lockFile' # 0)

Next == (\E p \in Processes : Step(p)) /\ WatchLocks

Spec == Init /\ [][Next]_vars

(***************************************************************************)
(* Properties                                                              *)
(***************************************************************************)
\* While there is one lock: of processes that initialize one store at a time,
\* whichever dies or deletes it, one gives it its identity and visibility, and
\* nobody changes them afterwards.
OneIdentity ==
    [][marker # NoStore /\ marker' # NoStore /\ ~split => marker' = marker]_vars

\* While there is one lock, a store is taken away only by somebody who confirmed
\* its own id, although other stores may have come and gone since the preview.
DestroysWhatWasConfirmed ==
    [][marker # NoStore /\ marker' = NoStore /\ ~split =>
         \E p \in Processes : Deleting(p) /\ job[p].id = marker.id]_vars

\* While there is one lock, nothing that an export was to save is deleted unless
\* the archive has it, also what others wrote before the export began.
ExportHoldsWhatIsDeleted ==
    [][\A p \in Processes : ~split /\
         pc[p] = "delete" /\ job[p].export => records \ records' \subseteq archive]_vars

\* Once an init has returned, a store has the ignore rules of its visibility,
\* which keep private records out of version control, unless they are torn apart.
IgnoreFitsVisibility ==
    ready /\ ~torn /\ (\A p \in Processes : pc[p] # "fill") => ignore = marker.visibility

\* "Core locking serializes writes across the API, CLI, and other local
\* Stormbuffer processes" (local-api.md).  A deletion breaks it: it removes the
\* lock file it has locked and goes on, and another process locks a new one.
WritesAreSerialized ==
    \A p, q \in Processes : pc[p] \in Holding /\ pc[q] \in Holding => p = q
=============================================================================
