------------------------------- MODULE Import -------------------------------
(***************************************************************************)
(* import_store (crates/core/src/backup.rs): under the mutation lock, and  *)
(* after recovery, it scans the store, plans what becomes of every record  *)
(* of an archive under three collision policies, and then writes the       *)
(* planned files one by one.  It may be killed between two writes; nothing *)
(* remembers the plan.  Imports exclude each other and every repository    *)
(* operation, so one job is enough.                                        *)
(*                                                                         *)
(* Abstractions.  A record's kind, title and body are its text; two texts  *)
(* are the same when their normal forms are.  The archive has passed       *)
(* verify_export: it parses and no id is in it twice.  A file's bytes are  *)
(* the record they parse to.                                               *)
(***************************************************************************)
EXTENDS Naturals, Sequences

CONSTANTS
    Ids, Texts,
    Dirs,       \* directories under records/
    Home,       \* the records directory itself, where the code puts new files
    Here,       \* the scope of this store
    Elsewhere,  \* any other scope
    Archives,   \* the archives there are to import
    NoFile, NoJob

VARIABLES
    files,      \* the records directory: what each path holds
    archive,    \* the bundle that is imported, perhaps more than once
    job         \* the import in progress

vars == <<files, archive, job>>

Paths == Dirs \X Ids

record_path(id) == <<Home, id>>

Records == [id : Ids, scope : {Here, Elsewhere}, text : Texts,
            status : {"candidate", "active", "superseded", "archived"},
            supersedes : SUBSET Ids]

(* What a store holds: its own scope only. *)
StoreFiles == {r \in Records : r.scope = Here} \cup {NoFile}

(* ImportOptions.  A collision without a policy fails, as does "fail". *)
Options == [scope : {"fail", "skip", "remap"},
            id : {"fail", "skip", "overwrite", "remap"},
            existing : {"fail", "skip", "overwrite"}]

(* What is planned for one record of the archive. *)
Plans == [action : {"skip", "overwrite", "remap", "import"},
          path : Paths,
          equivalent : Paths,   \* the stored record it collides with
          record : {r \in Records : r.scope = Here}]

ASSUME ImportAssumption ==
    /\ Home \in Dirs
    /\ Here # Elsewhere
    /\ NoFile \notin Records
    /\ NoJob \notin [options : Options, plan : Seq(Plans), next : Nat]
    /\ Archives \subseteq Seq(Records)
    /\ \A a \in Archives : \A k, l \in DOMAIN a : a[k].id = a[l].id => k = l

TypeOK ==
    /\ files \in [Paths -> StoreFiles]
    /\ archive \in Archives
    /\ \/ job = NoJob
       \/ /\ job.options \in Options
          /\ job.plan \in Seq(Plans)
          /\ DOMAIN job.plan = DOMAIN archive
          /\ job.next \in 1 .. Len(archive) + 1

-----------------------------------------------------------------------------
(* The store as scan_locked finds it.                                      *)

Stored == {q \in Paths : files[q] # NoFile}

IdsUnique == \A q, r \in Stored : files[q].id = files[r].id => q = r

(* Mutant of At: only records that are still open are looked up. *)
AtOpen(id) == {q \in Stored : files[q].id = id /\ files[q].status \in {"candidate", "active"}}

(* by_id: where the record with this id is. *)
At(id) == {q \in Stored : files[q].id = id}

(* existing_identity: open records under other ids that say the same. *)
Twins(r) == {q \in Stored : /\ files[q].id # r.id
                            /\ files[q].status \notin {"superseded", "archived"}
                            /\ files[q].scope = r.scope
                            /\ files[q].text = r.text}

(* Mutant of Localized: the record keeps the scope it came from. *)
KeptForeign(r) == r

Localized(r) == [r EXCEPT !.scope = Here]

-----------------------------------------------------------------------------
(* plan_import.                                                            *)

Foreign(r, options) == r.scope # Here /\ options.scope # "remap"

(* Mutant of Action: a record with this id is taken for this record. *)
ActionById(r, options) ==
    IF Foreign(r, options) THEN options.scope
    ELSE IF At(r.id) # {} \/ Twins(Localized(r)) # {} THEN options.existing
    ELSE "import"

(* The policy that decides about r, or "import" when nothing collides. *)
Action(r, options) ==
    IF Foreign(r, options) THEN options.scope
    ELSE IF \E q \in At(r.id) : files[q] = r THEN options.existing
    ELSE IF At(r.id) # {} THEN options.id
    ELSE IF Twins(Localized(r)) # {} THEN options.existing
    ELSE "import"

Remapped(options) == {k \in DOMAIN archive : Action(archive[k], options) = "remap"}

(* new[k] is the fresh id of a remapped record, and twin[k] the first      *)
(* equivalent file in the order of the scan, which is the directory's.     *)
NewIds(options) ==
    {new \in [Remapped(options) -> {i \in Ids : /\ At(i) = {}
                                                /\ \A k \in DOMAIN archive : archive[k].id # i}] :
        \A k, l \in Remapped(options) : new[k] = new[l] => k = l}

TwinChoices ==
    {twin \in [DOMAIN archive -> Paths] :
        \A k \in DOMAIN archive :
            LET twins == Twins(Localized(archive[k]))
            IN  IF twins = {} THEN twin[k] = record_path(archive[k].id) ELSE twin[k] \in twins}

(* The stored record that r collides with: the one with its id, or the     *)
(* twin; where r itself would go when there is neither.                    *)
Equivalent(r, twin) == IF At(r.id) # {} THEN CHOOSE q \in At(r.id) : TRUE ELSE twin

(* Mutant of Destination: an overwritten record is written where a new one would be. *)
DestinationAtHome(r, action, id, twin) == record_path(id)

Destination(r, action, id, twin) ==
    IF action = "overwrite" THEN Equivalent(r, twin) ELSE record_path(id)

TargetId(k, action, new, twin) ==
    CASE action = "remap" -> new[k]
      [] action = "overwrite" /\ At(archive[k].id) = {} -> files[twin[k]].id
      [] OTHER -> archive[k].id

(* Mutant of Relinked: the records planned so far are known, later ones are not. *)
RelinkedInOnePass(r, k, new) ==
    LET renamed == {l \in DOMAIN new : l < k /\ archive[l].id \in r.supersedes}
    IN  [r EXCEPT !.supersedes = (@ \ {archive[l].id : l \in renamed}) \cup {new[l] : l \in renamed}]

(* The links to remapped records follow them. *)
Relinked(r, k, new) ==
    LET renamed == {l \in DOMAIN new : archive[l].id \in r.supersedes}
    IN  [r EXCEPT !.supersedes = (@ \ {archive[l].id : l \in renamed}) \cup {new[l] : l \in renamed}]

Plan(options, new, twin) ==
    [k \in DOMAIN archive |->
        LET action == Action(archive[k], options)
            id == TargetId(k, action, new, twin)
            local == [Localized(archive[k]) EXCEPT !.id = id]
        IN  [action |-> action,
             path |-> Destination(archive[k], action, id, twin[k]),
             equivalent |-> Equivalent(archive[k], twin[k]),
             record |-> Relinked(local, k, new)]]

Imported(plan) == {k \in DOMAIN plan : plan[k].action # "skip"}

(* Mutant of Acceptable: two plans for one file are not noticed. *)
AcceptableWithoutCheck(plan) == \A k \in DOMAIN plan : plan[k].action # "fail"

(* No collision without a policy, and DestinationCollision. *)
Acceptable(plan) ==
    /\ \A k \in DOMAIN plan : plan[k].action # "fail"
    /\ \A k, l \in Imported(plan) : plan[k].path = plan[l].path => k = l

-----------------------------------------------------------------------------

(* Authors may have moved and renamed files, but to no name that would be  *)
(* the file of another record: see the README for what happens then.       *)
Init ==
    /\ files \in [Paths -> StoreFiles]
    /\ IdsUnique
    /\ \A i \in Ids : record_path(i) \in Stored => files[record_path(i)].id = i
    /\ archive \in Archives
    /\ job = NoJob

(* The lock is taken, the store scanned, and the whole plan made. *)
StartImport ==
    /\ job = NoJob
    /\ IdsUnique
    /\ \E options \in Options :
           \E new \in NewIds(options), twin \in TwinChoices :
               /\ Acceptable(Plan(options, new, twin))
               /\ job' = [options |-> options, next |-> 1,
                          plan |-> Plan(options, new, twin)]
    /\ UNCHANGED <<files, archive>>

(* The next record of the plan is written, or skipped. *)
WriteNext ==
    /\ job # NoJob
    /\ job.next \in DOMAIN job.plan
    /\ files' = IF job.plan[job.next].action = "skip" THEN files
                ELSE [files EXCEPT ![job.plan[job.next].path] = job.plan[job.next].record]
    /\ job' = [job EXCEPT !.next = @ + 1]
    /\ UNCHANGED archive

Completed == job # NoJob /\ job.next = Len(archive) + 1

(* The report is returned, a write failed, or the process was killed. *)
EndImport ==
    /\ job # NoJob
    /\ job' = NoJob
    /\ UNCHANGED <<files, archive>>

Next == StartImport \/ WriteNext \/ EndImport

Spec == Init /\ [][Next]_vars

-----------------------------------------------------------------------------
(* Properties.                                                             *)

(* scan_locked: no import, whole or interrupted, leaves an id in two       *)
(* files, after which every operation of the store would fail.             *)
UniqueIds == IdsUnique

(* plan_import, "Stormbuffer rejects collisions unless you select a        *)
(* policy": a record of the store is replaced only where a policy said to  *)
(* overwrite it, and its id survives.                                      *)
AsksBeforeOverwriting ==
    [][\A q \in Stored : files'[q] # files[q] =>
           /\ job.plan[job.next].action = "overwrite"
           /\ files'[q] # NoFile
           /\ files'[q].id = files[q].id]_vars

(* import_store: what a completed import reports as imported is in the     *)
(* store, wherever its parts came to lie.                                  *)
ImportedIsThere ==
    Completed => \A k \in Imported(job.plan) : files[job.plan[k].path] = job.plan[k].record

(* remap "updates supersession links inside the imported set": a link      *)
(* between two imported records still leads from the one to the other,     *)
(* unless the other was written over an equivalent under another id.       *)
LinksStayTogether ==
    Completed =>
        \A k, l \in Imported(job.plan) :
            /\ archive[l].id \in archive[k].supersedes
            /\ job.plan[l].action = "overwrite" => job.plan[l].record.id = archive[l].id
            => job.plan[k].record.supersedes \cap {archive[l].id, job.plan[l].record.id}
                   = {job.plan[l].record.id}

Overwritten(q) == \E k \in Imported(job.plan) :
                      job.plan[k].action = "overwrite" /\ job.plan[k].path = q

(* What the archive says is in the store after a completed import, unless  *)
(* a policy skips foreign records or taken ids, or the very record it was  *)
(* skipped for was overwritten, under its own id, by the same import.      *)
NothingIsDropped ==
    Completed =>
        \A k \in DOMAIN archive :
            \/ archive[k].scope # Here /\ job.options.scope = "skip"
            \/ At(archive[k].id) # {} /\ job.options.id = "skip"
            \/ \E q \in Stored : files[q].text = archive[k].text
            \/ job.plan[k].action = "skip" /\ Overwritten(job.plan[k].equivalent)

=============================================================================
