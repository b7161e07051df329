---------------------------- MODULE ImportProofs ----------------------------
(***************************************************************************)
(* Theorems about Import, for any archives, ids, texts and directories:    *)
(* with a stop or another import after any write.                          *)
(***************************************************************************)
EXTENDS Import, TLAPS

JobType ==
    /\ job \in [options : Options, plan : Seq(Plans), next : Nat]
    /\ job.options \in Options
    /\ job.plan \in Seq(Plans)
    /\ DOMAIN job.plan = DOMAIN archive
    /\ job.next \in 1 .. Len(archive) + 1

(* A file in the place of a record's own file is that record's. *)
HomeInv == \A i \in Ids : record_path(i) \in Stored => files[record_path(i)].id = i

(* What is planned replaces the record with its id, or adds one whose id   *)
(* is not stored.                                                          *)
Fits(entry) ==
    /\ entry.action = "overwrite" => entry.path \in Stored /\ files[entry.path].id = entry.record.id
    /\ entry.action \in {"remap", "import"} =>
          entry.path = record_path(entry.record.id) /\ At(entry.record.id) = {}

(* An import in progress: what was planned was acceptable, what is written *)
(* is there, and the rest still fits.                                      *)
PlanInv ==
    job # NoJob =>
        /\ Acceptable(job.plan)
        /\ \A k \in Imported(job.plan) :
              IF k < job.next THEN files[job.plan[k].path] = job.plan[k].record
              ELSE Fits(job.plan[k])

(* Links were made to follow the remapped records. *)
Linked(plan) ==
    \A k, l \in Imported(plan) :
        /\ archive[l].id \in archive[k].supersedes
        /\ plan[l].action = "overwrite" => plan[l].record.id = archive[l].id
        => plan[k].record.supersedes \cap {archive[l].id, plan[l].record.id} = {plan[l].record.id}

(* What is skipped was to be skipped, or is said in the store by the       *)
(* record it was skipped for, as long as that is not overwritten.          *)
Allowed(k, options) ==
    \/ archive[k].scope # Here /\ options.scope = "skip"
    \/ At(archive[k].id) # {} /\ options.id = "skip"

Said(k, q) == q \in Stored /\ files[q].text = archive[k].text

SaidInv ==
    job # NoJob =>
        \A k \in DOMAIN archive :
            /\ job.plan[k].record.text = archive[k].text
            /\ job.plan[k].action = "skip" =>
                  \/ Allowed(k, job.options)
                  \/ Said(k, job.plan[k].equivalent)
                  \/ Overwritten(job.plan[k].equivalent)

StoreInv == TypeOK /\ (job # NoJob => JobType) /\ IdsUnique /\ HomeInv /\ PlanInv

ImportInv == StoreInv /\ (job # NoJob => Linked(job.plan)) /\ SaidInv

-----------------------------------------------------------------------------
(* The plan.                                                               *)

LEMMA ArchiveType ==
    ASSUME TypeOK
    PROVE  /\ archive \in Seq(Records) /\ DOMAIN archive = 1 .. Len(archive) /\ Len(archive) \in Nat
           /\ \A k \in DOMAIN archive : archive[k] \in Records
           /\ \A k, l \in DOMAIN archive : archive[k].id = archive[l].id => k = l
  BY ImportAssumption DEF TypeOK

LEMMA StoredType ==
    ASSUME TypeOK
    PROVE  \A q \in Stored : q \in Paths /\ files[q] \in Records /\ files[q].scope = Here
  BY DEF TypeOK, Stored, StoreFiles

(* The policies that can decide. *)
LEMMA ActionCases ==
    ASSUME NEW r, NEW options \in Options
    PROVE  /\ Action(r, options) \in {"fail", "skip", "overwrite", "remap", "import"}
           /\ Action(r, options) = "overwrite" => At(r.id) # {} \/ Twins(Localized(r)) # {}
           /\ Action(r, options) = "import" => At(r.id) = {}
           /\ Action(r, options) = "skip" =>
                 \/ r.scope # Here /\ options.scope = "skip"
                 \/ At(r.id) # {} /\ options.id = "skip"
                 \/ \E q \in At(r.id) : files[q] = r
                 \/ Twins(Localized(r)) # {}
  BY DEF Action, Foreign, Options

LEMMA RelinkedRecord ==
    ASSUME TypeOK, NEW r \in Records, NEW k, NEW options, NEW new \in NewIds(options)
    PROVE  /\ Relinked(r, k, new) \in Records
           /\ Relinked(r, k, new).id = r.id
           /\ Relinked(r, k, new).scope = r.scope
           /\ Relinked(r, k, new).text = r.text
           /\ Relinked(r, k, new).supersedes =
                 (r.supersedes \ {archive[l].id : l \in {l \in DOMAIN new : archive[l].id \in r.supersedes}})
                 \cup {new[l] : l \in {l \in DOMAIN new : archive[l].id \in r.supersedes}}
  <1> DEFINE renamed == {l \in DOMAIN new : archive[l].id \in r.supersedes}
             links == (r.supersedes \ {archive[l].id : l \in renamed}) \cup {new[l] : l \in renamed}
  <1>1. Relinked(r, k, new) = [r EXCEPT !.supersedes = links]
    BY DEF Relinked
  <1>2. links \in SUBSET Ids
    BY DEF NewIds, Records
  <1> HIDE DEF links
  <1>3. [r EXCEPT !.supersedes = links] \in Records /\ [r EXCEPT !.supersedes = links].supersedes = links
    BY <1>2 DEF Records
  <1>4. /\ [r EXCEPT !.supersedes = links].id = r.id /\ [r EXCEPT !.supersedes = links].text = r.text
        /\ [r EXCEPT !.supersedes = links].scope = r.scope
    BY DEF Records
  <1> QED
    BY <1>1, <1>3, <1>4 DEF links

(* What is planned for the k-th record of the archive. *)
LEMMA PlanEntry ==
    ASSUME TypeOK, NEW options \in Options, NEW new \in NewIds(options), NEW twin \in TwinChoices,
           NEW k \in DOMAIN archive
    PROVE  LET entry == Plan(options, new, twin)[k]
               id == TargetId(k, Action(archive[k], options), new, twin)
           IN  /\ entry.action = Action(archive[k], options)
               /\ entry.path \in Paths
               /\ entry.equivalent = Equivalent(archive[k], twin[k])
               /\ entry.equivalent \in Paths
               /\ entry.record \in Records /\ entry.record.scope = Here
               /\ entry.record.id = id
               /\ entry.record.text = archive[k].text
               /\ entry.record.supersedes =
                     (archive[k].supersedes
                        \ {archive[l].id : l \in {l \in DOMAIN new : archive[l].id \in archive[k].supersedes}})
                     \cup {new[l] : l \in {l \in DOMAIN new : archive[l].id \in archive[k].supersedes}}
               /\ Fits(entry)
               /\ entry.action = "remap" => k \in DOMAIN new /\ id = new[k]
               /\ entry.action = "import" => id = archive[k].id
  <1> DEFINE r == archive[k]
             action == Action(r, options)
             id == TargetId(k, action, new, twin)
             local == [Localized(r) EXCEPT !.id = id]
             entry == Plan(options, new, twin)[k]
             path == Destination(r, action, id, twin[k])
  <1>1. r \in Records /\ r.id \in Ids
    BY ArchiveType DEF Records
  <1>2. entry = [action |-> action, path |-> path, equivalent |-> Equivalent(r, twin[k]),
                 record |-> Relinked(local, k, new)]
    BY DEF Plan
  <1>3. Localized(r) \in Records /\ Localized(r).scope = Here /\ Localized(r).text = r.text
        /\ Localized(r).supersedes = r.supersedes /\ Localized(r).id = r.id
    BY <1>1 DEF Localized, Records
  <1>4. action \in {"fail", "skip", "overwrite", "remap", "import"}
    BY ActionCases
  <1>5. action = "remap" => k \in DOMAIN new /\ new[k] \in Ids /\ At(new[k]) = {} /\ id = new[k]
    BY DEF NewIds, Remapped, TargetId
  <1>6. twin[k] \in Paths /\ (Twins(Localized(r)) # {} => twin[k] \in Twins(Localized(r)))
    BY DEF TwinChoices
  <1>7. action = "overwrite" /\ At(r.id) = {} =>
           /\ twin[k] \in Stored /\ id = files[twin[k]].id /\ path = twin[k]
    BY <1>6, ActionCases DEF Twins, TargetId, Destination, Equivalent
  <1>8. action = "overwrite" /\ At(r.id) # {} => path \in At(r.id) /\ id = r.id
    BY DEF TargetId, Destination, Equivalent
  <1>9. action \notin {"overwrite", "remap"} => id = r.id
    BY DEF TargetId
  <1>10. id \in Ids
    BY <1>1, <1>4, <1>5, <1>7, <1>8, <1>9, StoredType DEF Records
  <1>10a. Equivalent(r, twin[k]) \in Paths
    BY <1>6 DEF Equivalent, At, Stored
  <1>11. path \in Paths
    BY <1>10, <1>10a, ImportAssumption DEF Destination, record_path, Paths
  <1>12. action # "overwrite" => path = record_path(id)
    BY DEF Destination
  <1>13. local \in Records /\ local.id = id /\ local.scope = Here /\ local.text = r.text
         /\ local.supersedes = r.supersedes
    BY <1>3, <1>10 DEF Records
  <1> HIDE DEF local, action, id, path, entry
  <1>14. /\ entry.record \in Records /\ entry.record.id = id /\ entry.record.scope = Here
         /\ entry.record.text = r.text /\ entry.record = Relinked(local, k, new)
         /\ entry.action = action /\ entry.path = path
         /\ entry.equivalent = Equivalent(r, twin[k])
    BY <1>2, <1>13, RelinkedRecord
  <1>15. entry.record.supersedes =
            (r.supersedes \ {archive[l].id : l \in {l \in DOMAIN new : archive[l].id \in r.supersedes}})
            \cup {new[l] : l \in {l \in DOMAIN new : archive[l].id \in r.supersedes}}
    BY <1>13, <1>14, RelinkedRecord
  <1>16. action = "import" => At(r.id) = {}
    BY ActionCases DEF action
  <1>17. Fits(entry)
    <2>1. action = "overwrite" => path \in Stored /\ files[path].id = id
      BY <1>7, <1>8 DEF At
    <2> QED
      BY <1>5, <1>9, <1>12, <1>14, <1>16, <2>1 DEF Fits
  <1> QED
    BY <1>5, <1>9, <1>10a, <1>11, <1>14, <1>15, <1>17 DEF entry, action, id

(* A step forward in the plan changes nothing else of the job. *)
LEMMA JobFields ==
    ASSUME JobType, WriteNext
    PROVE  /\ job' \in [options : Options, plan : Seq(Plans), next : Nat]
           /\ job'.options = job.options /\ job'.plan = job.plan /\ job'.next = job.next + 1
  BY DEF WriteNext, JobType

(* An acceptable plan has its type, and says nothing new of the archive. *)
LEMMA PlanType ==
    ASSUME TypeOK, NEW options \in Options, NEW new \in NewIds(options), NEW twin \in TwinChoices,
           Acceptable(Plan(options, new, twin))
    PROVE  /\ Plan(options, new, twin) \in Seq(Plans)
           /\ DOMAIN Plan(options, new, twin) = DOMAIN archive
  <1> DEFINE plan == Plan(options, new, twin)
  <1>1. DOMAIN plan = DOMAIN archive /\ plan = [k \in DOMAIN archive |-> plan[k]]
    BY DEF Plan
  <1>2. ASSUME NEW k \in DOMAIN archive PROVE plan[k] \in Plans
    <2>1. plan[k].action \in {"skip", "overwrite", "remap", "import"}
      BY <1>1, ActionCases, PlanEntry DEF Acceptable
    <2>2. /\ plan[k].path \in Paths /\ plan[k].record \in Records /\ plan[k].record.scope = Here
          /\ plan[k].equivalent \in Paths
      BY PlanEntry
    <2>3. plan[k] = [action |-> plan[k].action, path |-> plan[k].path,
                     equivalent |-> plan[k].equivalent, record |-> plan[k].record]
      BY DEF Plan
    <2> HIDE DEF plan
    <2> QED
      BY <2>1, <2>2, <2>3 DEF Plans
  <1> HIDE DEF plan
  <1>3. plan \in Seq(Plans)
    BY <1>1, <1>2, ArchiveType
  <1> QED
    BY <1>1, <1>3 DEF plan

(* A link to a remapped record leads to its new id, which nothing else in  *)
(* the archive has, and every other link stays.                            *)
LEMMA PlanIsLinked ==
    ASSUME TypeOK, NEW options \in Options, NEW new \in NewIds(options), NEW twin \in TwinChoices
    PROVE  Linked(Plan(options, new, twin))
  <1> DEFINE plan == Plan(options, new, twin)
  <1> SUFFICES ASSUME NEW k \in Imported(plan), NEW l \in Imported(plan),
                      archive[l].id \in archive[k].supersedes,
                      plan[l].action = "overwrite" => plan[l].record.id = archive[l].id
               PROVE  plan[k].record.supersedes \cap {archive[l].id, plan[l].record.id}
                         = {plan[l].record.id}
    BY DEF Linked
  <1>1. k \in DOMAIN archive /\ l \in DOMAIN archive
    BY DEF Imported, Plan
  <1> DEFINE renamed == {m \in DOMAIN new : archive[m].id \in archive[k].supersedes}
  <1>2. plan[k].record.supersedes =
           (archive[k].supersedes \ {archive[m].id : m \in renamed}) \cup {new[m] : m \in renamed}
    BY <1>1, PlanEntry
  <1>3. DOMAIN new \subseteq DOMAIN archive /\ \A m \in DOMAIN new, n \in DOMAIN archive : new[m] # archive[n].id
    BY DEF NewIds, Remapped
  <1>4. CASE plan[l].action = "remap"
    <2>1. l \in renamed /\ plan[l].record.id = new[l]
      BY <1>1, <1>4, PlanEntry
    <2>2. archive[l].id \notin {new[m] : m \in renamed}
      BY <1>1, <1>3
    <2> HIDE DEF plan, renamed
    <2> QED
      BY <1>2, <2>1, <2>2
  <1>5. CASE plan[l].action # "remap"
    <2>1. plan[l].record.id = archive[l].id
      BY <1>1, <1>5, ActionCases, PlanEntry DEF TargetId
    <2>2. l \notin DOMAIN new
      BY <1>1, <1>5, PlanEntry DEF NewIds, Remapped
    <2>3. archive[l].id \notin {archive[m].id : m \in renamed}
      BY <1>1, <1>3, <2>2, ArchiveType
    <2> HIDE DEF plan, renamed
    <2> QED
      BY <1>2, <2>1, <2>3
  <1> QED
    BY <1>4, <1>5

(* What a plan skips it has a reason to skip. *)
LEMMA SkipsAreExcused ==
    ASSUME TypeOK, IdsUnique, NEW options \in Options, NEW twin \in TwinChoices,
           NEW k \in DOMAIN archive, Action(archive[k], options) = "skip"
    PROVE  Allowed(k, options) \/ Said(k, Equivalent(archive[k], twin[k]))
  <1>1. archive[k] \in Records
    BY ArchiveType
  <1>2. CASE \E q \in At(archive[k].id) : files[q] = archive[k]
    <2>1. Equivalent(archive[k], twin[k]) \in At(archive[k].id)
      BY <1>2 DEF Equivalent
    <2>2. files[Equivalent(archive[k], twin[k])] = archive[k]
      BY <1>2, <2>1 DEF At, IdsUnique
    <2> QED
      BY <2>1, <2>2 DEF Said, At
  <1>3. CASE At(archive[k].id) = {} /\ Twins(Localized(archive[k])) # {}
    <2>1. Localized(archive[k]).text = archive[k].text
      BY <1>1 DEF Localized, Records
    <2>2. twin[k] \in Twins(Localized(archive[k]))
      BY <1>3 DEF TwinChoices
    <2> QED
      BY <1>3, <2>1, <2>2 DEF Said, Twins, Equivalent
  <1>4. CASE At(archive[k].id) # {} /\ ~ \E q \in At(archive[k].id) : files[q] = archive[k]
    BY <1>4 DEF Action, Foreign, Allowed, Options
  <1> QED
    BY <1>2, <1>3, <1>4, ActionCases DEF Allowed

-----------------------------------------------------------------------------
(* Steps.                                                                  *)

LEMMA InitImport == Init => ImportInv
  BY DEF Init, ImportInv, StoreInv, TypeOK, HomeInv, PlanInv, SaidInv

LEMMA StartStep == ImportInv /\ StartImport => ImportInv'
  <1> SUFFICES ASSUME ImportInv, StartImport PROVE ImportInv'
    OBVIOUS
  <1>0. TypeOK /\ IdsUnique /\ HomeInv /\ UNCHANGED <<files, archive>>
    BY DEF ImportInv, StoreInv, StartImport
  <1>1. PICK options \in Options :
           \E new \in NewIds(options), twin \in TwinChoices :
               /\ Acceptable(Plan(options, new, twin))
               /\ job' = [options |-> options, next |-> 1, plan |-> Plan(options, new, twin)]
    BY DEF StartImport
  <1>1a. PICK new \in NewIds(options), twin \in TwinChoices :
           /\ Acceptable(Plan(options, new, twin))
           /\ job' = [options |-> options, next |-> 1, plan |-> Plan(options, new, twin)]
    BY <1>1
  <1> DEFINE plan == Plan(options, new, twin)
  <1>2. /\ job'.options = options /\ job'.next = 1 /\ job'.plan = plan
        /\ plan \in Seq(Plans) /\ DOMAIN plan = DOMAIN archive
        /\ job' \in [options : Options, plan : Seq(Plans), next : Nat]
    BY <1>0, <1>1a, PlanType
  <1>3. JobType'
    BY <1>0, <1>2, ArchiveType DEF JobType
  <1>4. \A k \in DOMAIN archive : /\ plan[k].action = Action(archive[k], options)
                                  /\ plan[k].record.text = archive[k].text
                                  /\ plan[k].equivalent = Equivalent(archive[k], twin[k])
                                  /\ Fits(plan[k])
    BY <1>0, PlanEntry
  <1>5. Linked(plan)
    BY <1>0, PlanIsLinked
  <1>6. Acceptable(plan)
    BY <1>1a
  <1> HIDE DEF plan
  <1>7. TypeOK'
    BY <1>0, <1>3 DEF TypeOK, JobType
  <1>8. IdsUnique' /\ HomeInv'
    BY <1>0 DEF IdsUnique, HomeInv, Stored
  <1>9. \A k \in Imported(plan) : k \in DOMAIN archive /\ ~ (k < 1)
    BY <1>0, <1>2, ArchiveType DEF Imported
  <1>10. PlanInv'
    <2>1. \A k \in Imported(plan) : Fits(job.plan[k])'
      BY <1>0, <1>2, <1>4, <1>9 DEF Fits, Stored, At
    <2> QED
      BY <1>2, <1>6, <1>9, <2>1 DEF PlanInv, Acceptable, Imported
  <1>11. Linked(job.plan)'
    BY <1>0, <1>2, <1>5 DEF Linked, Imported
  <1>12. SaidInv'
    <2>1. ASSUME NEW k \in DOMAIN archive, plan[k].action = "skip"
          PROVE  Allowed(k, options) \/ Said(k, plan[k].equivalent)
      BY <1>0, <1>4, <2>1, SkipsAreExcused
    <2> QED
      BY <1>0, <1>2, <1>4, <2>1 DEF SaidInv, Allowed, Said, At, Stored
  <1> QED
    BY <1>3, <1>7, <1>8, <1>10, <1>11, <1>12 DEF ImportInv, StoreInv

LEMMA EndStep == ImportInv /\ (EndImport \/ UNCHANGED vars) => ImportInv'
  <1> SUFFICES ASSUME ImportInv, EndImport \/ UNCHANGED vars PROVE ImportInv'
    OBVIOUS
  <1>1. CASE EndImport
    BY <1>1 DEF ImportInv, StoreInv, EndImport, TypeOK, IdsUnique, HomeInv, PlanInv, SaidInv, Stored
  <1>2. CASE UNCHANGED vars
    BY <1>2 DEF ImportInv, StoreInv, vars, TypeOK, IdsUnique, HomeInv, PlanInv, SaidInv, Stored,
       Acceptable, Imported, Fits, At, Linked, Allowed, Said, Overwritten, JobType
  <1> QED
    BY <1>1, <1>2

(* The entry that is written, and what it does to the store. *)
Entry == job.plan[job.next]

LEMMA WrittenEntry ==
    ASSUME ImportInv, WriteNext, Entry.action # "skip"
    PROVE  /\ job.next \in Imported(job.plan) /\ job.next \in DOMAIN archive /\ job.next \in Nat
           /\ Entry.path \in Paths /\ Entry.record \in Records /\ Entry.record.scope = Here
           /\ Entry.record \in StoreFiles /\ Entry.record # NoFile
           /\ Fits(Entry) /\ Entry.action \in {"overwrite", "remap", "import"}
           /\ files' = [files EXCEPT ![Entry.path] = Entry.record]
           /\ files'[Entry.path] = Entry.record
           /\ \A q \in Paths \ {Entry.path} : files'[q] = files[q]
  <1>1. TypeOK /\ job # NoJob /\ PlanInv
    BY DEF ImportInv, StoreInv, WriteNext
  <1>2. /\ job.plan \in Seq(Plans) /\ DOMAIN job.plan = DOMAIN archive /\ job.next \in DOMAIN archive
        /\ job.next \in Nat
    BY <1>1, ArchiveType DEF TypeOK, WriteNext
  <1>3. Entry \in Plans
    BY <1>2 DEF Entry
  <1>4. /\ Entry.path \in Paths /\ Entry.record \in Records /\ Entry.record.scope = Here
        /\ Entry.action \in {"overwrite", "remap", "import"}
    BY <1>3 DEF Plans
  <1>5. Entry.record \in StoreFiles /\ Entry.record # NoFile
    BY <1>4, ImportAssumption DEF StoreFiles
  <1>6. job.next \in Imported(job.plan)
    BY <1>2 DEF Imported, Entry
  <1>7. Fits(Entry)
    BY <1>1, <1>2, <1>6 DEF PlanInv, Entry
  <1>8. files' = [files EXCEPT ![Entry.path] = Entry.record]
    BY DEF WriteNext, Entry
  <1> QED
    BY <1>1, <1>2, <1>4, <1>5, <1>6, <1>7, <1>8 DEF TypeOK

(* It replaces the file that has its id, or comes where no file is. *)
LEMMA WritePlace ==
    ASSUME ImportInv, WriteNext, Entry.action # "skip"
    PROVE  \/ /\ Entry.action = "overwrite" /\ Entry.path \in Stored
              /\ files[Entry.path].id = Entry.record.id
           \/ /\ Entry.action # "overwrite" /\ Entry.path \notin Stored
              /\ Entry.path = record_path(Entry.record.id)
              /\ At(Entry.record.id) = {}
  <1>1. CASE Entry.action = "overwrite"
    BY <1>1, WrittenEntry DEF Fits
  <1>2. CASE Entry.action # "overwrite"
    <2>1. Entry.path = record_path(Entry.record.id) /\ At(Entry.record.id) = {}
      BY <1>2, WrittenEntry DEF Fits
    <2>2. Entry.record.id \in Ids
      BY WrittenEntry DEF Records
    <2>3. Entry.path \notin Stored
      BY <2>1, <2>2 DEF ImportInv, StoreInv, HomeInv, At
    <2> QED
      BY <1>2, <2>1, <2>3
  <1> QED
    BY <1>1, <1>2

LEMMA StoredAfter ==
    ASSUME ImportInv, WriteNext, Entry.action # "skip"
    PROVE  /\ Stored' = Stored \cup {Entry.path}
           /\ \A q \in Stored' : files'[q].id = IF q = Entry.path THEN Entry.record.id ELSE files[q].id
           /\ \A q \in Stored : files'[q].id = files[q].id
  <1>1. Stored' = Stored \cup {Entry.path}
    BY WrittenEntry DEF Stored
  <1>2. \A q \in Stored' : files'[q].id = IF q = Entry.path THEN Entry.record.id ELSE files[q].id
    BY WrittenEntry DEF Stored
  <1>3. \A q \in Stored : files'[q].id = files[q].id
    BY <1>1, <1>2, WritePlace
  <1> QED
    BY <1>1, <1>2, <1>3

LEMMA WriteStep == ImportInv /\ WriteNext => ImportInv'
  <1> SUFFICES ASSUME ImportInv, WriteNext PROVE ImportInv'
    OBVIOUS
  <1>1. /\ TypeOK /\ IdsUnique /\ HomeInv /\ PlanInv /\ Linked(job.plan) /\ SaidInv
        /\ job # NoJob /\ JobType /\ archive' = archive
    BY DEF ImportInv, StoreInv, WriteNext
  <1>2. job.next \in DOMAIN archive /\ job.next \in Nat /\ job.next < Len(archive) + 1
    BY <1>1, ArchiveType DEF JobType, WriteNext
  <1>3. /\ job' \in [options : Options, plan : Seq(Plans), next : Nat]
        /\ job'.options = job.options /\ job'.plan = job.plan /\ job'.next = job.next + 1
    BY <1>1, <1>2, JobFields
  <1>4. JobType'
    BY <1>1, <1>2, <1>3, ArchiveType DEF JobType
  <1>5. Linked(job.plan)'
    BY <1>1, <1>3 DEF Linked, Imported
  <1>6. CASE Entry.action = "skip"
    <2>1. files' = files
      BY <1>6 DEF WriteNext, Entry
    <2>2. TypeOK' /\ IdsUnique' /\ HomeInv' /\ SaidInv'
      <3>1. TypeOK' /\ IdsUnique' /\ HomeInv'
        BY <1>1, <1>3, <1>4, <2>1 DEF TypeOK, JobType, IdsUnique, HomeInv, Stored, At
      <3>2. job # NoJob /\ SaidInv
        BY <1>1
      <3>3. SaidInv'
        BY <1>1, <1>3, <2>1, <3>2 DEF SaidInv, Allowed, Said, Overwritten, Stored, At
      <3> QED
        BY <3>1, <3>3
    <2>3. \A k \in Imported(job.plan) : k \in Nat /\ k # job.next
      BY <1>1, <1>2, <1>6, ArchiveType DEF Imported, Entry, JobType
    <2>4. PlanInv'
      BY <1>1, <1>2, <1>3, <2>1, <2>3 DEF PlanInv, Acceptable, Imported, Fits, Stored, At
    <2> QED
      BY <1>4, <1>5, <2>2, <2>4 DEF ImportInv, StoreInv
  <1>7. CASE Entry.action # "skip"
    <2>1. TypeOK'
      BY <1>1, <1>4, <1>7, WrittenEntry DEF TypeOK, JobType
    <2>2. IdsUnique'
      BY <1>1, <1>7, StoredAfter, WritePlace DEF IdsUnique, At
    <2>3. HomeInv'
      <3> SUFFICES ASSUME NEW i \in Ids, record_path(i) \in Stored' PROVE files'[record_path(i)].id = i
        BY DEF HomeInv
      <3>1. CASE record_path(i) \in Stored
        BY <1>1, <1>7, <3>1, StoredAfter DEF HomeInv
      <3>2. CASE record_path(i) \notin Stored
        BY <1>7, <3>2, StoredAfter, WritePlace DEF record_path
      <3> QED
        BY <3>1, <3>2
    <2>4. ASSUME NEW k \in Imported(job.plan), k # job.next
          PROVE  /\ k \in DOMAIN archive /\ k \in Nat
                 /\ job.plan[k].path # Entry.path /\ job.plan[k].path \in Paths
                 /\ files'[job.plan[k].path] = files[job.plan[k].path]
      <3>1. k \in DOMAIN archive /\ k \in Nat /\ job.plan[k] \in Plans
        BY <1>1, <1>2, ArchiveType DEF Imported, JobType
      <3>2. job.plan[k].path # Entry.path
        BY <1>1, <1>7, <2>4, WrittenEntry DEF PlanInv, Acceptable, Entry
      <3> QED
        BY <1>7, <3>1, <3>2, WrittenEntry DEF Plans
    <2>5. ASSUME NEW k \in Imported(job.plan), k # job.next, Fits(job.plan[k])
          PROVE  Fits(job.plan[k])'
      <3>1. CASE job.plan[k].action = "overwrite"
        BY <1>3, <1>7, <2>4, <2>5, <3>1, StoredAfter DEF Fits
      <3>2. CASE job.plan[k].action # "overwrite"
        <4>1. \/ /\ job.plan[k].path = record_path(job.plan[k].record.id)
                 /\ At(job.plan[k].record.id) = {}
              \/ job.plan[k].action \notin {"remap", "import"}
          BY <2>5, <3>2 DEF Fits
        <4>2. At(job.plan[k].record.id) = {} /\ job.plan[k].path = record_path(job.plan[k].record.id)
                 => Entry.record.id # job.plan[k].record.id
          BY <1>7, <2>4, <2>5, WritePlace DEF At
        <4> QED
          BY <1>3, <1>7, <3>2, <4>1, <4>2, StoredAfter DEF Fits, At
      <3> QED
        BY <3>1, <3>2
    <2>6. PlanInv'
      <3>1. Acceptable(job.plan)'
        BY <1>1, <1>3 DEF PlanInv, Acceptable, Imported
      <3>2. ASSUME NEW k \in Imported(job.plan)
            PROVE  IF k < job.next + 1 THEN files'[job.plan[k].path] = job.plan[k].record
                   ELSE Fits(job.plan[k])'
        <4>1. CASE k = job.next
          BY <1>2, <1>7, <4>1, WrittenEntry DEF Entry
        <4>2. CASE k # job.next
          <5>1. k < job.next + 1 <=> k < job.next
            BY <1>2, <2>4, <4>2
          <5> QED
            BY <1>1, <2>4, <2>5, <4>2, <5>1 DEF PlanInv
        <4> QED
          BY <4>1, <4>2
      <3> QED
        BY <1>3, <3>1, <3>2 DEF PlanInv, Imported
    <2>7. SaidInv'
      <3>1. \A k \in DOMAIN archive : job'.plan[k].record.text = archive[k].text
        BY <1>1, <1>3 DEF SaidInv
      <3>2. ASSUME NEW k \in DOMAIN archive, job.plan[k].action = "skip"
            PROVE  \/ Allowed(k, job.options)'
                   \/ Said(k, job.plan[k].equivalent)'
                   \/ Overwritten(job.plan[k].equivalent)'
        <4> DEFINE q == job.plan[k].equivalent
        <4>1. CASE Allowed(k, job.options)
          BY <1>1, <1>3, <1>7, <4>1, StoredAfter DEF Allowed, At
        <4>2. CASE Overwritten(q)
          BY <1>3, <4>2 DEF Overwritten, Imported
        <4>3. CASE Said(k, q) /\ q # Entry.path
          BY <1>1, <1>3, <1>7, <4>3, StoredAfter, WrittenEntry DEF Said, Stored
        <4>4. CASE Said(k, q) /\ q = Entry.path
          <5>1. Entry.action = "overwrite"
            BY <1>7, <4>4, WritePlace DEF Said
          <5>2. Overwritten(q)
            BY <1>7, <4>4, <5>1, WrittenEntry DEF Overwritten, Entry
          <5> QED
            BY <1>3, <5>2 DEF Overwritten, Imported
        <4> QED
          BY <1>1, <3>2, <4>1, <4>2, <4>3, <4>4 DEF SaidInv
      <3> QED
        BY <1>1, <1>3, <3>1, <3>2 DEF SaidInv
    <2> QED
      BY <1>4, <1>5, <2>1, <2>2, <2>3, <2>6, <2>7 DEF ImportInv, StoreInv
  <1> QED
    BY <1>6, <1>7

LEMMA ImportIsInvariant == Spec => []ImportInv
  <1>1. ImportInv /\ [Next]_vars => ImportInv'
    BY StartStep, WriteStep, EndStep DEF Next
  <1> QED
    BY <1>1, InitImport, PTL DEF Spec

-----------------------------------------------------------------------------
(* Theorems.                                                               *)

(* Every state has its type. *)
THEOREM TypeCorrect == Spec => []TypeOK
  <1>1. ImportInv => TypeOK
    BY DEF ImportInv, StoreInv
  <1> QED
    BY <1>1, ImportIsInvariant, PTL

(* No import, whole or interrupted, leaves an id in two files. *)
THEOREM IdsStayUnique == Spec => []UniqueIds
  <1>1. ImportInv => UniqueIds
    BY DEF ImportInv, StoreInv, UniqueIds
  <1> QED
    BY <1>1, ImportIsInvariant, PTL

(* A record of the store is replaced only where a policy said to overwrite *)
(* it, and its id survives.                                                *)
THEOREM OverwritesWereAskedFor == Spec => AsksBeforeOverwriting
  <1>1. ImportInv /\ [Next]_vars =>
           [\A q \in Stored : files'[q] # files[q] =>
               /\ job.plan[job.next].action = "overwrite"
               /\ files'[q] # NoFile
               /\ files'[q].id = files[q].id]_vars
    <2> SUFFICES ASSUME ImportInv, [Next]_vars, NEW q \in Stored, files'[q] # files[q]
                 PROVE  /\ job.plan[job.next].action = "overwrite"
                        /\ files'[q] # NoFile
                        /\ files'[q].id = files[q].id
      OBVIOUS
    <2>1. WriteNext /\ Entry.action # "skip"
      BY DEF Next, StartImport, EndImport, WriteNext, vars, Entry
    <2>2. q = Entry.path
      BY <2>1, WrittenEntry DEF Stored
    <2>3. Entry.action = "overwrite"
      BY <2>1, <2>2, WritePlace
    <2> QED
      BY <2>1, <2>2, <2>3, WrittenEntry, StoredAfter DEF Entry
  <1> QED
    BY <1>1, ImportIsInvariant, PTL DEF Spec, AsksBeforeOverwriting

(* What a completed import reports as imported is in the store. *)
THEOREM ImportsAreThere == Spec => []ImportedIsThere
  <1>1. ImportInv => ImportedIsThere
    <2> SUFFICES ASSUME ImportInv, Completed, NEW k \in Imported(job.plan)
                 PROVE  files[job.plan[k].path] = job.plan[k].record
      BY DEF ImportedIsThere
    <2>1. k < job.next
      BY ArchiveType DEF ImportInv, StoreInv, Completed, TypeOK, Imported
    <2> QED
      BY <2>1 DEF ImportInv, StoreInv, PlanInv, Completed
  <1> QED
    BY <1>1, ImportIsInvariant, PTL

(* A link between two imported records still leads from one to the other.  *)
THEOREM LinksFollow == Spec => []LinksStayTogether
  <1>1. ImportInv => LinksStayTogether
    BY DEF ImportInv, Linked, LinksStayTogether, Completed
  <1> QED
    BY <1>1, ImportIsInvariant, PTL

(* What the archive says is dropped only where a policy says so, or where  *)
(* the record it was skipped for is overwritten by the same import.        *)
THEOREM DropsAreExcused == Spec => []NothingIsDropped
  <1>1. ImportInv => NothingIsDropped
    <2> SUFFICES ASSUME ImportInv, Completed, NEW k \in DOMAIN archive
                 PROVE  \/ Allowed(k, job.options)
                        \/ \E q \in Stored : files[q].text = archive[k].text
                        \/ /\ job.plan[k].action = "skip"
                           /\ Overwritten(job.plan[k].equivalent)
      BY DEF NothingIsDropped, Allowed
    <2>1. CASE job.plan[k].action = "skip"
      BY <2>1 DEF ImportInv, SaidInv, Said, Completed
    <2>2. CASE job.plan[k].action # "skip"
      <3>1. TypeOK /\ PlanInv /\ SaidInv /\ job # NoJob /\ JobType
        BY DEF ImportInv, StoreInv, Completed, TypeOK, JobType
      <3>2. k \in Imported(job.plan) /\ k < job.next /\ job.plan[k] \in Plans
        BY <2>2, <3>1, ArchiveType DEF Imported, JobType, Completed
      <3>3. files[job.plan[k].path] = job.plan[k].record
        BY <3>1, <3>2 DEF PlanInv
      <3>4. job.plan[k].path \in Stored
        BY <3>2, <3>3, ImportAssumption DEF Stored, Plans
      <3> QED
        BY <3>1, <3>3, <3>4 DEF SaidInv
    <2> QED
      BY <2>1, <2>2
  <1> QED
    BY <1>1, ImportIsInvariant, PTL

=============================================================================
