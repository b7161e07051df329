# Verification of Stormbuffer

TLA+ models of Stormbuffer (`sbuf`), a local-first memory store: records are
Markdown files with front matter, changed by several processes (the CLI, the MCP
server, the local HTTP server, editor plugins) and by people with ordinary
editors, and searched through a disposable SQLite index beside them. The models
are checked with TLC. Every invariant and every safety property of the steps that
a run checks is also proved with TLAPS, for every number of processes, records and
requests, and for every text; only liveness rests on TLC alone.

Paths below are relative to `src/crates/` unless they begin with `packages/`.

## The system

| Part | State it keeps | Operations | Talks to | What is hard | What makes it correct |
|---|---|---|---|---|---|
| Record vocabulary (`core/src/record.rs`) | none | validation, status transitions | everybody | - | a status only moves along `can_transition_to` |
| Codec (`core/src/codec.rs`) | none | parse, render | repository, index, import | - | render then parse is the record |
| Record repository (`core/src/repository.rs`) | `records/**/*.md`, `locks/mutation.lock`, `locks/supersede.toml` | add, propose, propose_update, approve, reject, archive, restore, supersede, forget, find/replace_if_unchanged, list_read_only, recovery | files shared with authors | two-file commits, deaths, authors without a lock, stale drafts | no lost update, recoverable supersession, one file per id, fresh approvals, atomic map |
| Store layout (`core/src/lib.rs`) | `store.toml`, directories, `.gitignore` | init, inspect, resolve | repository lock | init racing init or destroy | one identity per store, ignore rules that fit it |
| Search projection (`core/src/index/{sync,canonical,projection,schema}.rs`) | `index.sqlite3` and its `-wal`, temporary databases, `projection.lock` | sync, reindex, watch | reads the record files | files change during a scan, deaths, a switch by rename | the index equals the files, or catches up |
| Vector index (`core/src/vector.rs`) | vector tables and `vector_indexes` in the same database | rebuild, cleanup, search | embedder | stale embeddings, a filter after the nearest neighbours | only fresh vectors are queried, nothing admissible is missed |
| Doctor (`core/src/index/doctor.rs`) | none | diagnose, repair | index, repository lock | repairs beside running operations | never harms records |
| Backup (`core/src/backup.rs`) | none | export, import, destroy, gc | repository lock | partial import, gc beside sync, a lock that is deleted with its store | import is all its plan or reported; while there is one lock, only what was confirmed is destroyed |
| Retrieval (`core/src/index/{retrieval,chunking,types}.rs`) | none | search, context | index, embedder | reads beside commits, budgets, signs and scales of scores | only what the caller may see, in a meaningful order, within the budget |
| Invocation (`core/src/invoke.rs`, `cli/src/protocol.rs`) | none | the JSON operations of an agent | repository, retrieval | check then act, busy fallback | a retried request is one record |
| MCP server (`mcp/src`) | a cached embedder | tools, resources | invocation | cancelled calls whose thread goes on | the write policy, single flight of the model |
| Local HTTP server (`cli/src/server.rs`) | none | records, search | repository, retrieval | GET and PUT are separate requests | a PUT overwrites nothing unseen |
| Model cache (`core/src/embedder.rs`) | cached model files, `.part`, `.lock` | acquire, verify, load | network | resumed downloads, shared/exclusive lock, gc beside them | only verified bytes are loaded |
| Receipt feedback (`core/src/feedback.rs`) | a small SQLite file | rebuild | - | rename | complete file or the old one |
| Codex hooks (`packages/codex-plugin-stormbuffer/hooks`) | a mark per session and turn | context, capture review | MCP answers | order of events, failing writes | no turn goes by without an answer to a candidate tool and unasked |

Processes meet in three ways. Repository operations hold an exclusive `flock` on
`locks/mutation.lock`, index operations one on `projection.lock`. Neither is
waited for: an operation that finds it taken fails at once, with `MutationBusy` or
`IndexBusy`. The model cache's lock is waited for. Everything else (readers,
searches, authors, gc and repair on the index, gc on the model cache) takes no
lock that the other side respects.

## Modules

| Module | Models | Checked by |
|---|---|---|
| `MemoryStore` | what the repository promises: a map from ids to records, changed by one atomic step per operation; the status vocabulary | refinement target of `Repository` and of `Invocation` |
| `Repository` | `repository.rs` step by step: lock, recovery, scan, journal, each rename, deaths, authors | `MCRepository`, `RepositoryProofs` |
| `Projection` | sync, reindex, vector rebuild, gc and repair on the index | `MCProjection`, `ProjectionProofs` |
| `Import` | import_store: the plan, its collision policies, the writes, stops between them | `MCImport`, `ImportProofs` |
| `ModelCache` | acquire, verify and load under the cache lock, the server's slot, gc | run `model_cache`, `ModelCacheProofs` |
| `StoreLifecycle` | initialize_store, a write, destroy_store, and the lock file that goes with the store | `MCStoreLifecycle`, `StoreLifecycleProofs` |
| `Chunking` | a body cut into chunks, a chunk into embedded pieces | through `Retrieval`, `ChunkingProofs` |
| `Retrieval` | search and context, statement by statement, beside edits, sync and reindex | `MCRetrieval`, `RetrievalProofs` |
| `Invocation` | the agent's calls, people's HTTP requests and commands, and the Codex hooks | `MCInvocation`, `InvocationProofs` |

The `MC` modules give instances and symmetry sets; the `...Proofs` modules hold the
theorems.

How they fit together: `Repository` justifies that an operation under the
mutation lock is one step (it implements `MemoryStore`), and `Invocation`,
`Retrieval` and `StoreLifecycle` take it as one where the lock is held. `MemoryStore`
is the seam: the steps of `Invocation`'s callers are steps of it too
(`OperationsAreLifecycleSteps`), except for an editor of a person, which may write
any open record.
`Projection` says when the rows that `Retrieval` reads may change: its `Sync` and
`Reindex` are the commits of `Projection`. `Invocation` leaves recall to
`Retrieval`, which has the agent's way to prepare its stores and fall back.
`StoreLifecycle` is the only module in which the lock is a file that can be
deleted.

### Repository

`files` maps a path (a directory and a file name, the name being an id) to a
record, `NoFile`, or `Unreadable` for a file that does not parse. `journal` is
`supersede.toml`. `lock` is the holder of the flock, which the kernel
frees when its process dies. `pc` and `job` are the program point of each process
and what it has decided; `draft` is the `StoredRecord` an editor session or an
HTTP PUT keeps between its read and its write.

Every operation runs `AcquireLock`, then recovery (`NothingToRecover`, or
`StartRecovery` and the replay steps, or `RefuseRecovery`), then one scanning
step that reads all files and decides, then `Write`; a supersession writes its
journal, the old record, the new one and removes the journal (`WriteJournal`,
`WriteOld`, `WriteNew`, `ClearJournal`). `Crash` may strike between any two.
Reading and deciding are one step because nobody else who respects the lock can
write meanwhile, and because nothing read there outlives the decision except what
is written in `job`; authors may act between the decision and each write.

A record is its id, title and body (which decide duplicates), its status and its
supersession links; the rest of the front matter, timestamps included, is left
out. A rename is atomic and durable once made: `write_atomic` syncs the file and
the directory.

`MemoryStore` has one action per operation. The refinement mapping is
`RecoveredMemory`: the files with the pending journal already replayed. So
writing the journal is the step at which a supersession takes effect, and dying,
recovering and replaying are all stutters.

### Projection

`files` is what each path holds; paths are numbers in the order the scan visits
them. `index` is the database at `index.sqlite3`: its rows (path and text of each
id), its active vector index with the two fingerprints stored beside it, and
whether a vector table without metadata was left behind. `log` says whose commits
`index.sqlite3-wal` holds. `temps` and `private` separate the name of a temporary
database from the database a process has open, so that gc and repair can remove
the one under the other. `calm` is an observation: no file has changed since the
operation listed the files.

`ListFiles` takes the listing and the snapshot of projected rows; each `Visit...`
step reads one file and commits its rows; `Sweep` removes rows of paths that were
known and are not listed. Rebuilding vectors is `KeepVectors`, or `Fingerprint`,
`ReadDocuments`, `CreateTable`, `Register`, `Activate`. reindex runs the same
steps on its private database, then `Rename` and `RemoveSidecars`.

An index operation may meet a held lock at any time and then does nothing, so
`IndexBusy` is a disabled `Start`. `Fail` stands for every error return and closes
the database; `Crash` leaves logs and temporary databases behind.

### Import

`StartImport` is `prepare_mutation`, `scan_locked` and `plan_import`: with the lock
held and all files read, the whole plan is made before anything is written.
`Action` is the chain of collisions in the order of the code (scope, same id and
same bytes, same id, equivalent under another id), each handed to its policy; an
unset policy acts as `fail`. `Plan` adds what follows: destination, new ids, and
the links that follow remapped records. `WriteNext` writes one file; `EndImport` is
the return, a failed write or a death, after which any other import may follow.

In the initial stores files may have been moved and renamed, but none in `records/`
itself bears the id of another record as its name. Without that an import that brings
this id replaces the file and loses the record in it, without asking: `plan_import`
compares ids and texts, never names. (With initial states of that kind TLC finds
`AsksBeforeOverwriting` and `NothingIsDropped` violated.) Records that are skipped
because an equivalent is stored are lost if the same import overwrites that very
equivalent, which a plan names (`equivalent`) and `NothingIsDropped` excepts, and
nothing else; and a record written over an equivalent takes its id, to which links
from other imported records do not follow, which `LinksStayTogether` excepts.

### ModelCache

`files` and `part` are what is at the path of each artifact and at its `.part`
path: a length, and whether the bytes are the beginning of what the checksum
pins. `origin` is what the URL serves. A worker is a thread of the MCP server,
which takes the mutex around the server's slot (`TakeTurn`), acquires and loads;
or a command line process, which acquires or checks and exits. acquire is
`LockForDownload`, `CheckFile`, `Request`, `OpenPart`, `Copy`, `Synced`,
`VerifyPart` or `RejectPart`, `RemoveCorrupt`, `Install` for each artifact in turn;
load is `LockForLoad`, `VerifyFile`, `ReadFile`, `KeepModel`. The server may
answer a Range with 206 or with 200, its bytes may be of another version, a copy
may fail, processes may die, and gc removes files and downloads one by one without
either lock. `calm` is an observation: from now on none of that happens except gc
finishing what it has begun.

### StoreLifecycle

A lock belongs to the file a process has opened, not to the path, so lock files
are numbered and `lockFile` is the one at the path now. init is `OpenLock`,
`TryLock`, `FindMarker` or `MissMarker` and `WriteMarker`, then, without the lock,
`FindIgnore` or `MissIgnore`, `CreateIgnore`, `FillIgnore`. A write is add with its
scope read before the lock is taken. destroy-store is `Preview`, `Confirm` or
`Cancel`, the lock, `CheckIdentity`, `Export`, and `Delete`, which takes one entry
after the other, the lock file among them. Any process may die at any step, and
everything runs beside everything else: nothing keeps a process from making a new
lock file while a deletion goes on, and from writing or initializing under it.

Two observations, which no action reads, say what has become of a store. `split`
is true from the creation of a lock file while another, deleted one is open, until
nobody has any open. `torn` is set when somebody dies while writing
`.gitignore`, which leaves the file empty, or while deleting, which leaves part of a
store; when a deletion takes the marker or the ignore file from under an
initialization that has released the lock and not returned; and when the lock splits.
`OneIdentity`, `DestroysWhatWasConfirmed` and `ExportHoldsWhatIsDeleted` speak of a
store that is not split, and `IgnoreFitsVisibility` of one that is not torn. That a
store does split is a finding (`store_deletion`, below): with two locks a record can
be deleted that no export has, and an identity nobody confirmed.

### Chunking and Retrieval

`Chunking` is pure: `chunk_record`'s scan of lines, the joining of sections into
chunks, and the pieces of `split_embedding_text`, with recursion as folds and
functions. A line is its kind and its words; a blank line is one without words.
Beside the algorithm stand reference definitions that look at the whole body:
where a fence is open (`FenceAt`), which headings a line is under (`HeadingsOf`),
what the body says outside its headings (`BodyText`), and which two lines are of one
fenced block (`SameBlock`, of whose words a chunk has all or none). `Retrieval` lets
a note grow line by line (`draft`) and compares its chunks and pieces with these
(`ChunksAreFaithful`); and it runs one query at a time beside edits, syncs and
reindexes, with a model (`Reindex`) or without one (`ReindexWithoutModel`, which
leaves a store without a vector index). `Begin` asks; an agent's or a person's query
syncs the stores of its view and rebuilds their vectors (`SyncStore`, `SyncIsBusy`,
`RebuildVectors`, `RebuildFails`, `PrepareFails`); then each store is read in turn:
`SearchLexical`; `CheckFresh`, which looks for an active vector index and compares the
files with it; `CheckRows`, which compares the rows later and embeds the query, and
may fail there; `SearchVectors`, which fails where the table is gone or sqlite-vec
refuses its window (`IsRefused`); and `Join`, one row each. The rest ranks the hits
and packs the context. `semanticOf` is an observation of what became of the vector
search of each store. What a query's text matches is data: the rank of each chunk, how each
title or text matches, how far each piece is.

### Invocation

`records` is the store by `MemoryStore`'s vocabulary. A worker is a blocking thread
of the MCP server or an `sbuf invoke` process; its call is `Send`, perhaps `Cancel`
(the thread is not told), and the operation: `Remember` and `Propose` in one step,
`Update`, `Supersede` and `Archive` in two, because `find_allowed` lets go of the
lock. `Respond` is the answer, which the host sees if it still waits. A request is
what the code distinguishes about it, its `flaw` included. An HTTP client's PUT
is `GetRecord`, `MatchEtag` and `ReplaceIfUnchanged`, with everybody else's steps
between; `sbuf supersede` is `GetRecord` and `SupersedeRecord`, with its editor
between. `turn`, `phase` and `marks` are the Codex session with its state files;
`captured` and `declined` are observations: a candidate tool was answered in this turn
and wrote a candidate, or was answered ok and wrote none.
`standing` is an observation: the request that wrote a record, as long as the
record is open and says the same. `Memory` is the store as `MemoryStore` has it, its
records under one title.

## Runs

| Run | Instance | Distinct states | Shows |
|---|---|---|---|
| `repository` | 2 processes, 3 ids, 2 bodies | 40 k | `TypeOK`, `JournalReplayable`, `OldRetiresFirst`, `TerminalHistory`, `ImplementsMemoryStore` |
| `repository_authored` | 2 processes, 1 editor, 2 ids, authors act between operations | 59 k | `NoBlindOverwrite`, `ApprovalIsFresh`, `UniqueIds`, `RecoveryProgress` |
| `repository_moved` | authors also move files | violation | `UniqueIds` fails |
| `projection` | 2 processes, 2 paths, 2 ids, sync and reindex; 1 process, 1 path, 2 ids, 2 texts, with vectors | 139 k | `TypeOK`, `SyncIsExact`, `VectorsMatchRows`, `RebuildIsCurrent`, `SwitchIsComplete`, `Converges` |
| `projection_path` | 2 paths, 2 ids | violation | `SyncAcceptsFiles` fails |
| `import` | 4 ids, 2 texts, stores of 0 to 2 files, 5 archives of 2 records | 446 k | `TypeOK`, `UniqueIds`, `ImportedIsThere`, `LinksStayTogether`, `NothingIsDropped`, `AsksBeforeOverwriting` |
| `model_cache` | 1 thread of the server, 1 process, 2 artifacts of length 2 | 122 k | `TypeOK`, `LoadedIsPinned`, `InstallsOnlyPinned`, `ServerGetsModel` |
| `store` | 2 processes, 2 identities, 2 lock files, 1 record at a time | 2.76 M | `TypeOK`, `IgnoreFitsVisibility`, `OneIdentity`, `DestroysWhatWasConfirmed`, `ExportHoldsWhatIsDeleted` |
| `store_deletion` | the same | violation | `WritesAreSerialized` fails |
| `retrieval` | 2 stores, 3 records, 9 queries, 4 matches, notes of up to 4 lines | 357 k | `TypeOK`, `ChunksAreFaithful`, `ResultsAreAllowed`, `VectorSearchIsComplete`, `NamedRecordsFirst`, `ReceiptIsHonest` |
| `retrieval_rank` | the same without notes | violation | `BetterMatchFirst` fails |
| `invocation` | 2 workers, 1 client, 2 ids, 2 bodies, 2 turns or 2 edits | 706 k | `TypeOK`, `OneRecordPerRequest`, `PutsOverWhatWasRead`, `TurnsAreCaptured` |

Every passing run explores its whole state space, and every property of one is
broken by a plausible bug in the code it is about; these mutants stand beside the
definition they change and are listed in `PROJECT.json`.

Bounds. Three ids let a candidate supersede a record while a third repeats it, and
make chains of supersession. Two bodies under one title distinguish a duplicate from
an overlap. Two processes are enough for a lock and one waiter or successor after a
death. Two paths over two ids give a duplicate on either side of the row that was
indexed, a move, and a swap. With vectors one path and one process suffice: what
matters is that its id and text change between the reads (damage is left to the other
scenario), and the lock keeps a second process out (the theorems have any number of
both). For an import, two stored and two archived records give each collision and
every pair of them (both equivalent to one file, one equivalent and one with its id, a
replacement before and after its old record), and two more ids are free for remapping.
Two artifacts let one be read while the other is replaced, and a length of two is the
least with a partial download. Two identities and two lock files (`MaxLocks`) are a
store and its successor, and one record (`MaxRecords`) is enough to be lost or saved;
a third process would only repeat what one of the two does, since everything a process
knows of the others is in the tree. A query's store has a record of two chunks, one of
one, and another store has a third: a vector window can hold two pieces of one chunk,
an inadmissible chunk, and a boost against a better rank. `MaxWords`, `MaxTokens`,
`MaxLimit` and `MaxBlockBytes` are small so that four lines reach each of them;
`Overfetch` and `NearestFactor` are small so that their windows do not hold
everything. `MaxNearest`, 4096 in sqlite-vec, is 4: less than the pieces of a store,
so that a window is refused. `MaxChanges` is one edit beside a query. `invocation` has
three scenarios: two calls open at a time and sent again over two turns; one call
beside people's two edits; one call of each kind and flaw. Only in the first does a
turn end, and are marks kept. There is no other bound on the length of behaviours.

Deadlock is checked in every run.

Specifications. `Spec` of `Repository` has only the store's own processes. The
authored runs let people act only while nobody holds the lock
(`FairAuthoredSpec`), since the race with a running operation is real; see
`EditKeepsNewerBytes` below. `Projection`'s passing runs use `CheckpointedSpec`:
a reindex starts only when the log of the index it replaces has been
checkpointed. Without that a death at the right moment leaves a database beside a
foreign log, and what SQLite then reads is arbitrary; see `LogBelongsToIndex`.
Authors, gc and repair act at any time in all `Projection` runs. The `projection` run
begins in one of two scenarios, which limit what the files may hold and who works,
and nothing else. The two `store` runs have the same specification, in which
everything runs beside everything.

Fairness. In `Repository` and `Projection`, weak fairness of each process's next
step once it has begun an operation (`Continue(p)`): a thread that holds the lock
waits for nobody. Nothing obliges anyone to start an operation, so
`RecoveryProgress` and `Converges` say what follows if operations go on: a pending
journal is replayed unless operations keep dying or stop or an author's edit makes
recovery refuse; the index comes to equal the files unless files keep changing, gc
keeps removing the index, index operations keep failing or dying, or nobody uses
the store any more. A sync that fails because a path has passed to another record
(`projection_path`) is one that fails, so `Converges` does not promise that such a
store recovers by itself: it takes a reindex. In `ModelCache`, weak fairness for
processes and for gc once it has begun. For the server's threads it is strong: they
wait in a mutex and in a blocking `flock`, whose waiters the kernel wakes, and the
lock is free infinitely often while others come and go; and an empty slot is asked
for again, since every call that needs the embedder resolves it. `StoreLifecycle`,
`Retrieval`, `Import` and `Invocation` state no liveness: their operations end, and
what remains to be done is a caller's choice.

## Proofs

Assumptions. Those about constants say what kind of value each is, that the values
which stand for nothing (`NoFile`, `NoRecord`, `Unset` and the like) are no records
and no reasons, and that numbers are natural; beyond that:

- `RepositoryAssumption` and `InvocationAssumption` let the sets of records be of any
  size, infinite ones included.
- `ChunkingAssumption`: the limits on words and tokens are at least 1; in the code
  they are constants.
- `RetrievalAssumption`: the lines of a note are among `Lines`; `MaxLimit` is at most
  100, which `MAX_SEARCH_LIMIT` is; and neither agents nor people ask for the semantic
  part alone: `RetrievalMode::Semantic` is for callers of the library.
- `MatchAssumption`: ranks and distances are natural numbers, and no two pieces are
  equally far. A distance stands for a place in the order in which sqlite-vec
  returns the pieces, and that is a total order.

`RepositoryProofs` proves, for all `Procs`, `Ids`, `Titles`, `Bodies` and `Dirs`, three
layers, one for each way in which people may write beside the processes.

- Whenever they like, also while an operation runs (`AuthoredSpec`): `TypeCorrect`,
  `MutualExclusionHolds` and `IdsAreUnique`. `PlacedInv` says no more than where a
  process will write, and under which id, which it decides once and never reads
  again.
- Only between operations (`PoliteAuthoredSpec`): `NoUpdateIsLost`,
  `ApprovalsAreFresh`, `EditsKeepNewerBytes`, `HistorySurvivesEdits` and
  `TransitionsAreLegal`. These people write, damage and delete files in their places;
  of moved files the theorems say nothing (`repository_moved`). `SharedInv` adds, for
  every program point, what a process there knows of the files (`Undecided`,
  `ReadyToWrite`, `ReadyToPair`, `Replaying`, `FreshApproval`), and that a journal, on
  disk or decided, describes a supersession of an active record (`PairOK`); `DraftInv`
  that an editor's write is the one it drafted. The core of the argument is
  `Replaying`: the files at the journal's two paths hold their before or after images,
  and `redo` names exactly the writes still due; a death keeps this because it only
  forgets `redo`, which recovery recomputes or refuses.
- Not at all (`Spec`): `RecoveryNeverConflicts`, `OldIsRetiredFirst`,
  `SupersededIsTerminal` and `RepositoryImplementsMemoryStore`. `IInv` adds that every
  file parses and that a pending journal can be replayed, which an edit may undo.

Each layer's theorems hold in the next, by the lemmas `SpecIsAuthored` and
`PoliteIsAuthored`. `NextKeepsShared` and `NextKeepsIInv` have one lemma per group of
actions. The action properties follow from the invariants and `DiskChanges`, which
says what one step can do to the files. For the refinement, `WriteJournal` maps to the
abstract `Supersede` or `Approve`, `Write` to the operation decided, and every other
step to a stutter, because `RecoveredMemory` already counts a pending journal as done.

`StoreLifecycleProofs` proves, for all `Processes`, `Ids` and `MaxLocks`:
`TypeCorrect`, `LockingSerializes`, `IdentityIsKept`, `DestructionIsConfirmed`,
`ExportsAreComplete` and `IgnoreRulesFit`, of everything that may run beside a
deletion. That two processes never hold the lock of a store that is not split is the
heart of it, and is not a matter of one file: `LockInv` says that then all lock files
that are open are one file, the one at the path if there is any, so that whoever
waited for a lock that was deleted waits for the same one. Only `Delete` takes a lock
file away, so only a deletion lets a store split; of one that has, the theorems claim
nothing but its types.
`MarkerInv` says what a process that found or missed a marker under the lock may
rely on, and what its export holds. Visibility never changes once it is written, so
`IgnoreInv` can say that anyone about to write ignore rules writes those of the
marker that is there, although the lock was released before.

`InvocationProofs` proves, for all `Ids`, `Bodies`, `Requests`, `Workers`, `Clients`
and bounds: `TypeCorrect`, `RequestsStandOnce`, `PutsReplaceWhatWasRead`,
`TurnsEndCaptured` and `OperationsAreLifecycleSteps`. `OneRecordPerRequest` needs
`StandingInv`: what stands for a request is open, says its text, is not the record the
request is about, and if the request supersedes a record, that one is superseded,
which is for good (`Kept`). So a second write for the same request meets either the
duplicate check or a record that is not active (`MayStand`). Every operation either
changes records without a request (`BecomesWell`) or adds one for a request
(`WritesWell`). `TurnInv` adds that the mark of a turn is only made in that turn and
means an ok answer of a candidate tool, and `CallsInv` that a client past the
comparison holds the bytes it compared. For the refinement, `StoreStep` reduces every
step to one of the six changes a store can undergo (`ChangesStore`), and `LinksInv`
says that a record replaces nothing or one other record, so that each of them is a
lifecycle step of `MemoryStore`.

`ProjectionProofs` proves about `Spec`, and so about `CheckpointedSpec`, for all
`Procs`, `Paths`, `Ids` and `Texts`: `TypeCorrect`, `SyncLeavesTheRows`,
`SwitchesAreComplete`, `HitsMatchRows` and `RebuildsAreCurrent`. Its invariant
`IndexInv` describes an operation at each of its stages. While files are visited
(`VisitsWell`) the ids seen are those in the paths visited, their rows are what
they should be, and any other row is as it was in the snapshot, unless its path has
been visited; this needs the rows of a database to have different paths
(`UniquePaths`), since an unchanged file is judged by the snapshot and not by the
rows. Then (`SweepsWell`) every wrong row has a path that is still to be swept, and
afterwards (`StaysSynced`) there are none. `VisitsWell`, `SweepsWell` and
`StaysSynced` speak of operations during which no file changes; `EmbedsWell` and
`Faithful`, on which `HitsMatchRows` rests, do not: they need only that nobody but
the holder of the lock writes a database, under its name or after gc has unlinked
it. That the first file of an id is found at all is `FirstIsLeast`, which gets the
least of a set of paths from the well-foundedness of strict inclusion among
finite sets, the library's induction being out of reach.

`ImportProofs` proves, for all `Ids`, `Texts`, `Dirs` and `Archives`:
`TypeCorrect`, `IdsStayUnique`, `OverwritesWereAskedFor`, `ImportsAreThere`,
`LinksFollow` and `DropsAreExcused`. The plan is made from one scan and the store
changes under it, by its own writes; `PlanInv` says that what has not been written
still fits: a file to overwrite has the id that replaces it, a new id is stored
nowhere. One write does not spoil another because their destinations differ
(`DestinationCollision`) and because no file bears the name of another record
(`HomeInv`, true of the initial stores, as said above). `PlanIsLinked` is about
the plan alone, and `SaidInv` keeps the reasons for what was skipped.

`ModelCacheProofs` proves, for all `Threads`, `Tools`, numbers of artifacts and
lengths: `TypeCorrect`, `KeptModelIsPinned` and `InstalledIsPinned`. `CacheInv` says
that who downloads has the cache to itself but for gc (`LockInv`), that a download
that was verified is as it was or gone (`PartInv`), and the same of the files that a
loading thread has verified, so that it has read nothing else (`VerifiedInv`). gc
takes no lock, but only ever removes, which makes a read fail and never makes it
wrong.

`ChunkingProofs` proves what `Chunking` computes, for a body of any number of lines:
`SectionsFaithful` (the first pass), `ChunksKeep` (the second), `ChunkDivides` and
`PiecesFitAlways` (the pieces), from which the `ChunksFaithful` of `RetrievalProofs`
follows. The library's induction theorems take an operator as a parameter, which no
prover here can instantiate; so the module states its own for sets: a set of numbers
that holds 0 and with each number the next holds them all (`InductionTo`), and one may
suppose what is claimed of every argument with a smaller measure (`MeasureInduction`).
Both rest on `LeastNumber`, which comes from the well-foundedness of strict inclusion
among finite sets. From these follow what a fold returns (`FoldAgrees`;
`FoldPrefixes`: it is a function on the prefixes of its sequence) and that a function
defined by recursion on the length of what is left exists (`RecursionExists`); every
later proof about a scan is then an invariant of its steps. `ScanKeeps` is that of the
first pass: the sections closed so far with the open one say what the lines so far
say, each under the headings of its lines, and an open fence is open in the body.
`GatherKeeps` is that of the second: the chunks made and the pending one say what the
sections so far say, and the pending one is within the limit or made of one section.

`RetrievalProofs` proves, for all `Records`, rows, `Queries`, `Matches` and bounds:
`TypeCorrect`, `ChunksFaithful`, `ResultsAllowed`, `VectorSearchComplete`,
`NamedFirst` and `ReceiptHonest`. `IInv` has six parts: `TypeInv`; `QueryInv`, at
which point which part of a query is asked for and what its missing part is excused
with; `PartInv`, of which stores the vectors have been read by then; `SeenInv`, the
rows of a store that has been prepared, and of every hit, were there while the query
ran; `DistinctInv`, no chunk is found twice, although the second store is read after
the first; and `ScoreInv`, a hit whose record is named is worth at least 120 and any
other at most 90, and a store gives at most `MaxLimit` of them. `NamedFirst` needs the
last for fusion, where a score is the sum of `1000000 / (60 + rank)` over two lists:
two stores have at most 200 lexical hits, so a hit with a name keeps 3846 of its rank
and 30000 of its boost, and one without, first in both lists, has 32786. (A semantic
hit that has taken the place of a named one is not named any more; the property is
about what a result says of itself.) The completeness of the vector search is about
the widening loop alone: each round takes the nearest pieces of a window, and it ends
when enough of them are admitted or the window holds everything.

Model-checked only: liveness (`RecoveryProgress`, `Converges`, `ServerGetsModel`),
since the prover has neither fairness nor ENABLED, and of course the four violations.
Proved and stated without a run: `MutualExclusion`, `EditKeepsNewerBytes`,
`OperationsKeepHistory` and `FollowsLifecycle` of the repository, `WritesAreSerialized`
of a store that is not split, and `CallsAreLifecycleSteps` of the invocations.

## What the checks found

Four disagreements between the code and its documentation have a run that shows
them and an entry under "findings" in `PROJECT.json`:

- The approval of a candidate that was moved duplicates its id (`repository_moved`).
- A path that passes to another record stops sync until a reindex (`projection_path`).
- Among hits that match alike, the worst by bm25 comes first (`retrieval_rank`):
  bm25 is negative and smaller for a better match, and `1 / (1 + |rank|)` is smaller
  for it too, although greater scores come first (`core/src/index/projection.rs:664`).
- A deletion lets go of the lock it holds (`store_deletion`): destroy-store removes
  `locks/mutation.lock` with the rest (`core/src/backup.rs:564`), and it may be the
  first entry to go. Another process, which passed `prepare_mutation`'s look at
  `store.toml` before, or which initializes and needs none, makes and locks a new
  file, and both are at work; local-api.md:100-101 says "Core locking serializes
  writes across the API, CLI, and other local Stormbuffer processes."

Others have no run of their own; the models contain them, and where a property
would have said otherwise it names them as exceptions:

- A turn is not reviewed although no candidate was written. An agent calls
  `memory_remember` with a text that an open record already says; the answer is
  `ok: true` with the outcome `duplicate_of` (or `invalid`), and nothing is written;
  `PostToolUse` takes the answer for a candidate write and keeps a mark
  (`packages/codex-plugin-stormbuffer/hooks/capture-state.mjs:61`); `Stop` consumes
  it, and the turn is over. codex-plugin.md:78-80 says "If no MCP candidate was
  written, Stop remains a fallback capture boundary." `TurnsAreCaptured` without
  `declined` fails after these four steps.
- A recall fails, and does not fall back to lexical matches, when a rebuild drops
  the vector table between the look at the active index and the search of it, or
  when the filter makes the widening search ask sqlite-vec for more than 4096
  neighbours (`SearchVectors`): neither is an embedding error. mcp.md:166-168 says "If
  semantic retrieval is unavailable, it returns lexical matches rather than failing
  the recall", and cli/reference.md:284-286 that "the request still runs with lexical
  retrieval".
- After a reindex without a model (`core/src/index/sync.rs:58`) between its
  preparation and its search, a recall finds no vectors in that store, raises no error
  (`core/src/index/projection.rs:222`) and answers with the mode `hybrid` and no
  reason, although mcp.md:168-172 has `semantic_fallback` report that the projection
  was unavailable. `ReceiptIsHonest` excepts such a store (`semanticOf` is "absent")
  and no other.

Some properties are stated in a module although no run checks them, because they do
not hold and their counterexamples are known:

- `EditKeepsNewerBytes` (`Repository`): an editor may write a file between the
  comparison of `replace_if_unchanged` and its rename, and those bytes are lost
  (`core/src/repository.rs:452`); no lock could prevent it. That it takes a write during
  the operation itself is proved (`EditsKeepNewerBytes`): what people write between
  operations is safe, however long the draft has been open.
- `FreshMeansCurrent` (`Projection`): a file changed after the sync and before the
  fingerprint is read passes as embedded (`core/src/index/projection.rs:99`).
- `LogBelongsToIndex` (`Projection`): a reindex killed between its rename and the
  removal of the log files leaves a foreign log (`core/src/index/sync.rs:70`).
- `InterruptedDownloadsCanBeRetried` (`ModelCache`): a download that was complete
  when its process died is asked for with a Range behind its end, which is
  answered 416, for ever (`core/src/embedder.rs:567`); `ServerGetsModel` excepts it.

Behaviours met while modelling that no document contradicts outright, or that a
property names as an exception:

- A listing without the lock (`list_read_only`, `core/src/repository.rs:411`) reads the
  files one by one, and can read the old file before a supersession and the new
  one after it: both records look active. `OldRetiresFirst` is about the two renames,
  which no death can turn round, and not about such a reader.
- A candidate with two or more supersession links is approved without retiring any
  of them (`core/src/repository.rs:325`); `MemoryStore`'s `Approve` does the same.
- Marks of a review are never taken away again.
- `sbuf invoke` with `propose` or `supersede` looks for no secret, and with
  `supersede` for no duplicate; nobody reviews what supersedes.
- `update` and `supersede` of an agent, and `sbuf supersede`, are based on text that
  was read in an earlier step; the record retired must be active, and need not say
  that any more.
- `archive` acts on a record whose access may have changed since `find_allowed`.
- `restore` does no duplicate check.
- The death of init while it writes `.gitignore` leaves an empty file that nothing
  fills; an interrupted destroy followed by init gives the records that remain
  another identity; a deletion beside an init that has released the lock leaves the
  store without ignore rules, or with those of another. `torn` excepts these.
- A replacement of a hit in fusion compares scores of lexical and semantic hits,
  which have different scales.
- A context counts the omitted results among the hits it was given, and the search
  has cut those off at its limit before.

## Not modelled

Left out for good: the codec, the secret guard, the evaluation harness,
formatting and argument parsing (pure functions of strings), the documentation
site. Inbox, audit and diagnosis only read. `feedback.rs` builds one temporary
database and renames it, which `Projection` shows in a harder setting.

Left out of modelled parts: path resolution and the global store's directories;
schema migrations and advisory relations; several embedding models at a time;
edits of `.gitignore` by people; the export's and import's archive format; the
tokenizer; SQLite's ranking and sqlite-vec's distances, which are data; links
of a record that is PUT; the watch loop, which only calls sync.

## Next

1. Proofs: `LogBelongsToIndex` under `CheckpointedSpec`; that a pending journal an edit
   has made unreplayable is always refused and never half replayed; that a call
   which may not write changes nothing.
2. `Retrieval`: schema migrations and the relations that a search adds as advice;
   several embedding models at a time.
3. `StoreLifecycle` with the record operations of `Repository` in place of its one
   kind of write, and gc and projection beside it.
