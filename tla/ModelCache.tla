----------------------------- MODULE ModelCache -----------------------------
(***************************************************************************)
(* The embedding model cache (embedder.rs) of one store: pinned artifacts  *)
(* under cache/models, each downloaded into a .part file, verified and     *)
(* renamed into place under an exclusive lock, and loaded under a shared   *)
(* one.  Threads of one MCP server share a model that the first of them    *)
(* loads (server.rs); Tools are command line processes.  gc (backup.rs)    *)
(* removes artifacts and downloads without either lock.                    *)
(*                                                                         *)
(* The bytes of a file are its length, in units of a download, and whether *)
(* they are the beginning of the artifact its checksum pins.               *)
(***************************************************************************)
EXTENDS Naturals, FiniteSets

CONSTANTS
    Threads,    \* threads of the MCP server that need the embedder
    Tools,      \* processes that acquire or check the model and exit
    N,          \* the number of artifacts of the manifest
    Size,       \* the length of an artifact: a download takes so many steps
    NoFile,     \* nothing at a path
    NoModel,    \* the empty slot of the server
    NoThread    \* nobody holds the mutex of the slot

Workers == Threads \cup Tools
Artifacts == 1..N
Content == [size: 0..Size, good: BOOLEAN]
Pinned == [size |-> Size, good |-> TRUE]
Empty == [size |-> 0, good |-> TRUE]

ASSUME CountsAreNatural == N \in Nat \ {0} /\ Size \in Nat \ {0}
ASSUME NoFileIsNoContent == NoFile \notin Content
ASSUME NoModelIsNoModel == NoModel \notin [Artifacts -> Content]
ASSUME NoThreadIsNoThread == NoThread \notin Workers
ASSUME ThreadsAreNoTools == Threads \cap Tools = {}

VARIABLES
    files,      \* what is at the path of each artifact
    part,       \* what is at its .part path
    origin,     \* the URL serves the "pinned" bytes or some "other" ones
    pc,         \* where each worker is
    at,         \* the artifact it has come to
    body,       \* the answer it is copying: how much of it is left, what
                \* the bytes are, whether they go to the end of the .part file
    memory,     \* the bytes a worker has read for its model
    slot,       \* the model the server keeps
    turn,       \* the thread that holds the mutex around the slot
    doomed,     \* what the running gc has still to remove
    calm        \* no death, gc, bad answer or failed write from now on

vars == <<files, part, origin, pc, at, body, memory, slot, turn, doomed, calm>>
disk == <<files, part, origin>>

Writing == {"copy", "verify_part", "replace", "install"}
Downloading == {"check", "request", "open"} \cup Writing
Loading == {"verify", "read"}
Body == [left: 0..Size, good: BOOLEAN, append: BOOLEAN]
NoBody == [left |-> 0, good |-> TRUE, append |-> FALSE]
NothingRead == [a \in Artifacts |-> NoFile]
Candidates == {"file", "part"} \X Artifacts

TypeOK ==
    /\ files \in [Artifacts -> Content \cup {NoFile}]
    /\ part \in [Artifacts -> Content \cup {NoFile}]
    /\ origin \in {"pinned", "other"}
    /\ pc \in [Workers -> {"idle", "lock", "wait"} \cup Downloading \cup Loading]
    /\ at \in [Workers -> 1..(N + 1)]
    /\ body \in [Workers -> Body]
    /\ memory \in [Workers -> [Artifacts -> Content \cup {NoFile}]]
    /\ slot \in [Artifacts -> Content] \cup {NoModel}
    /\ turn \in Threads \cup {NoThread}
    /\ doomed \in SUBSET Candidates
    /\ calm \in BOOLEAN

\* A new cache, or one whose artifacts were installed, damaged or cut short.
Init ==
    /\ files \in [Artifacts -> {NoFile, Pinned, [size |-> Size, good |-> FALSE]}]
    /\ part = [a \in Artifacts |-> NoFile]
    /\ origin = "pinned"
    /\ pc = [w \in Workers |-> "idle"]
    /\ at = [w \in Workers |-> 1]
    /\ body = [w \in Workers |-> NoBody]
    /\ memory = [w \in Workers |-> NothingRead]
    /\ slot = NoModel
    /\ turn = NoThread
    /\ doomed = {}
    /\ calm = FALSE

\* Mutant of Verifies: only the length is compared.
HasLength(content) == content # NoFile /\ content.size = Size

\* verify_checksum: the file opens and its checksum is the pinned one.
Verifies(content) == content = Pinned

\* with_model_cache_lock: an exclusive lock waits for every other holder, a
\* shared one for an exclusive holder only.
LockIsFree(exclusive) ==
    \A w \in Workers :
        /\ pc[w] \notin Downloading
        /\ exclusive => pc[w] \notin Loading

Goto(w, label, artifact) ==
    /\ pc' = [pc EXCEPT ![w] = label]
    /\ at' = [at EXCEPT ![w] = artifact]

\* A worker returns, with its model or an error, and lets go of its locks.
Return(w) ==
    /\ Goto(w, "idle", 1)
    /\ body' = [body EXCEPT ![w] = NoBody]
    /\ memory' = [memory EXCEPT ![w] = NothingRead]
    /\ turn' = IF turn = w THEN NoThread ELSE turn

Fail(w) == Return(w) /\ UNCHANGED <<slot, doomed, calm>>

(***************************************************************************)
(* Who asks for the model                                                  *)
(***************************************************************************)
\* resolve_cached_embedder: with the mutex held, an empty slot is filled.
TakeTurn(w) ==
    /\ w \in Threads /\ pc[w] = "idle"
    /\ turn = NoThread /\ slot = NoModel
    /\ turn' = w
    /\ Goto(w, "lock", 1)
    /\ UNCHANGED <<disk, body, memory, slot, doomed, calm>>

\* ensure_default_model or default_model_is_ready from the command line.
StartTool(w) ==
    /\ w \in Tools /\ pc[w] = "idle"
    /\ \E label \in {"lock", "wait"} : Goto(w, label, 1)
    /\ UNCHANGED <<disk, body, memory, slot, turn, doomed, calm>>

(***************************************************************************)
(* acquire                                                                 *)
(***************************************************************************)
\* Mutant of LockForDownload: the lock is opened and not waited for.
LockForDownloadUnheld(w) ==
    /\ pc[w] = "lock"
    /\ Goto(w, "check", 1)
    /\ UNCHANGED <<disk, body, memory, slot, turn, doomed, calm>>

LockForDownload(w) ==
    /\ pc[w] = "lock" /\ LockIsFree(TRUE)
    /\ Goto(w, "check", 1)
    /\ UNCHANGED <<disk, body, memory, slot, turn, doomed, calm>>

\* An artifact that verifies is left alone.
CheckFile(w) ==
    /\ pc[w] = "check" /\ at[w] \in Artifacts
    /\ IF Verifies(files[at[w]])
         THEN Goto(w, "check", at[w] + 1)
         ELSE Goto(w, "request", at[w])
    /\ UNCHANGED <<disk, body, memory, slot, turn, doomed, calm>>

EndAcquire(w) ==
    /\ pc[w] = "check" /\ at[w] = N + 1
    /\ Goto(w, IF w \in Threads THEN "wait" ELSE "idle", 1)
    /\ UNCHANGED <<disk, body, memory, slot, turn, doomed, calm>>

Existing(a) == IF part[a] = NoFile THEN 0 ELSE part[a].size

\* The server answers 206 with what follows a Range it can satisfy, or 200
\* with everything.
Request(w) ==
    /\ pc[w] = "request" /\ Existing(at[w]) < Size
    /\ \E partial \in BOOLEAN :
        /\ partial => Existing(at[w]) > 0
        /\ body' = [body EXCEPT ![w] =
                      [left |-> IF partial THEN Size - Existing(at[w]) ELSE Size,
                       good |-> origin = "pinned", append |-> partial]]
    /\ Goto(w, "open", at[w])
    /\ UNCHANGED <<disk, memory, slot, turn, doomed, calm>>

\* A Range that begins where the artifact ends is answered 416, which is an
\* error like a failed connection.
RequestFails(w) ==
    /\ pc[w] = "request"
    /\ Existing(at[w]) = Size \/ ~calm
    /\ Fail(w) /\ UNCHANGED disk

\* What is appended to a file that is no longer there is no beginning.
OpenPart(w) ==
    /\ pc[w] = "open"
    /\ part' = [part EXCEPT ![at[w]] =
                  CASE ~body[w].append -> Empty
                    [] body[w].append /\ @ = NoFile -> [size |-> 0, good |-> FALSE]
                    [] OTHER -> @]
    /\ Goto(w, "copy", at[w])
    /\ UNCHANGED <<files, origin, body, memory, slot, turn, doomed, calm>>

\* Mutant of Copy: the end of the body is not looked for.
CopyOn(w) ==
    /\ pc[w] = "copy"
    /\ body' = [body EXCEPT ![w].left = @ - 1]
    /\ UNCHANGED <<disk, pc, at, memory, slot, turn, doomed, calm>>

\* Bytes of a file that gc has unlinked go nowhere.
Copy(w) ==
    /\ pc[w] = "copy" /\ body[w].left > 0
    /\ body' = [body EXCEPT ![w].left = @ - 1]
    /\ part' = [part EXCEPT ![at[w]] =
                  IF @ = NoFile \/ @.size = Size THEN @
                  ELSE [size |-> @.size + 1, good |-> @.good /\ body[w].good]]
    /\ UNCHANGED <<files, origin, pc, at, memory, slot, turn, doomed, calm>>

CopyFails(w) ==
    /\ pc[w] = "copy" /\ ~calm
    /\ Fail(w) /\ UNCHANGED disk

\* The end of the body: io::copy and sync_all have returned.
Synced(w) ==
    /\ pc[w] = "copy" /\ body[w].left = 0
    /\ Goto(w, "verify_part", at[w])
    /\ UNCHANGED <<disk, body, memory, slot, turn, doomed, calm>>

VerifyPart(w) ==
    /\ pc[w] = "verify_part" /\ Verifies(part[at[w]])
    /\ Goto(w, "replace", at[w])
    /\ UNCHANGED <<disk, body, memory, slot, turn, doomed, calm>>

\* Mutant of RejectPart: the rejected download is kept to be resumed.
KeepPart(w) ==
    /\ pc[w] = "verify_part" /\ ~Verifies(part[at[w]])
    /\ Fail(w) /\ UNCHANGED disk

RejectPart(w) ==
    /\ pc[w] = "verify_part" /\ ~Verifies(part[at[w]])
    /\ part' = [part EXCEPT ![at[w]] = NoFile]
    /\ Fail(w) /\ UNCHANGED <<files, origin>>

RemoveCorrupt(w) ==
    /\ pc[w] = "replace"
    /\ files' = [files EXCEPT ![at[w]] = NoFile]
    /\ Goto(w, "install", at[w])
    /\ UNCHANGED <<part, origin, body, memory, slot, turn, doomed, calm>>

\* rename fails when gc has taken the .part file.
Install(w) ==
    /\ pc[w] = "install" /\ part[at[w]] # NoFile
    /\ files' = [files EXCEPT ![at[w]] = part[at[w]]]
    /\ part' = [part EXCEPT ![at[w]] = NoFile]
    /\ Goto(w, "check", at[w] + 1)
    /\ body' = [body EXCEPT ![w] = NoBody]
    /\ UNCHANGED <<origin, memory, slot, turn, doomed, calm>>

InstallFails(w) ==
    /\ pc[w] = "install" /\ part[at[w]] = NoFile
    /\ Fail(w) /\ UNCHANGED disk

(***************************************************************************)
(* load                                                                    *)
(***************************************************************************)
LockForLoad(w) ==
    /\ pc[w] = "wait" /\ LockIsFree(FALSE)
    /\ Goto(w, "verify", 1)
    /\ UNCHANGED <<disk, body, memory, slot, turn, doomed, calm>>

\* verify_files; a readiness check ends with it.
VerifyFile(w) ==
    /\ pc[w] = "verify" /\ Verifies(files[at[w]])
    /\ CASE at[w] < N -> Goto(w, "verify", at[w] + 1)
         [] at[w] = N /\ w \in Threads -> Goto(w, "read", 1)
         [] OTHER -> Goto(w, "idle", 1)
    /\ UNCHANGED <<disk, body, memory, slot, turn, doomed, calm>>

VerifyFails(w) ==
    /\ pc[w] = "verify" /\ ~Verifies(files[at[w]])
    /\ Fail(w) /\ UNCHANGED disk

\* from_verified_files opens every file again and reads it.
ReadFile(w) ==
    /\ pc[w] = "read" /\ at[w] < N /\ files[at[w]] # NoFile
    /\ memory' = [memory EXCEPT ![w][at[w]] = files[at[w]]]
    /\ Goto(w, "read", at[w] + 1)
    /\ UNCHANGED <<disk, body, slot, turn, doomed, calm>>

ReadFails(w) ==
    /\ pc[w] = "read" /\ files[at[w]] = NoFile
    /\ Fail(w) /\ UNCHANGED disk

\* The last file makes the model, which the slot keeps for all threads.
KeepModel(w) ==
    /\ pc[w] = "read" /\ at[w] = N /\ files[N] # NoFile
    /\ slot' = [memory[w] EXCEPT ![N] = files[N]]
    /\ Return(w)
    /\ UNCHANGED <<disk, doomed, calm>>

(***************************************************************************)
(* Everything else that happens to the cache                               *)
(***************************************************************************)
Path(c) == IF c[1] = "file" THEN files[c[2]] ELSE part[c[2]]

\* gc lists first, then removes one candidate after the other, in the order
\* of their names; one that is gone ends it.
GcList ==
    /\ doomed = {} /\ ~calm
    /\ doomed' = {c \in Candidates : Path(c) # NoFile}
    /\ UNCHANGED <<disk, pc, at, body, memory, slot, turn, calm>>

Before(c, d) == c[2] < d[2] \/ (c[2] = d[2] /\ c[1] = "file" /\ d[1] = "part")

GcRemove ==
    \E c \in doomed :
        /\ \A d \in doomed \ {c} : Before(c, d)
        /\ doomed' = IF Path(c) = NoFile THEN {} ELSE doomed \ {c}
        /\ files' = IF c[1] = "file" THEN [files EXCEPT ![c[2]] = NoFile] ELSE files
        /\ part' = IF c[1] = "part" THEN [part EXCEPT ![c[2]] = NoFile] ELSE part
        /\ UNCHANGED <<origin, pc, at, body, memory, slot, turn, calm>>

OriginChanges ==
    /\ ~calm
    /\ origin' \in {"pinned", "other"}
    /\ UNCHANGED <<files, part, pc, at, body, memory, slot, turn, doomed, calm>>

\* A tool dies, or the server with all its threads and its slot.
ToolDies(w) ==
    /\ w \in Tools /\ ~calm /\ pc[w] # "idle"
    /\ Fail(w) /\ UNCHANGED disk

ServerDies ==
    /\ ~calm
    /\ pc' = [w \in Workers |-> IF w \in Threads THEN "idle" ELSE pc[w]]
    /\ at' = [w \in Workers |-> IF w \in Threads THEN 1 ELSE at[w]]
    /\ body' = [w \in Workers |-> IF w \in Threads THEN NoBody ELSE body[w]]
    /\ memory' = [w \in Workers |-> IF w \in Threads THEN NothingRead ELSE memory[w]]
    /\ slot' = NoModel
    /\ turn' = NoThread
    /\ UNCHANGED <<disk, doomed, calm>>

CalmDown ==
    /\ ~calm /\ origin = "pinned"
    /\ calm' = TRUE
    /\ UNCHANGED <<disk, pc, at, body, memory, slot, turn, doomed>>

Download(w) ==
    \/ LockForDownload(w) \/ CheckFile(w) \/ EndAcquire(w)
    \/ Request(w) \/ RequestFails(w) \/ OpenPart(w)
    \/ Copy(w) \/ CopyFails(w) \/ Synced(w)
    \/ VerifyPart(w) \/ RejectPart(w)
    \/ RemoveCorrupt(w) \/ Install(w) \/ InstallFails(w)

Load(w) ==
    \/ LockForLoad(w) \/ VerifyFile(w) \/ VerifyFails(w)
    \/ ReadFile(w) \/ ReadFails(w) \/ KeepModel(w)

Next ==
    \/ \E w \in Workers : TakeTurn(w) \/ StartTool(w) \/ Download(w) \/ Load(w) \/ ToolDies(w)
    \/ GcList \/ GcRemove \/ OriginChanges \/ ServerDies \/ CalmDown

Spec == Init /\ [][Next]_vars

\* A worker that has begun goes on, a thread that waits for the mutex or for
\* the cache lock gets it (the kernel wakes waiters, here fairly), gc goes on,
\* and while the server has no model some call asks for it again.
Fairness ==
    /\ \A w \in Threads : SF_vars(TakeTurn(w)) /\ SF_vars(Download(w)) /\ SF_vars(Load(w))
    /\ \A w \in Tools : WF_vars(Download(w)) /\ WF_vars(Load(w))
    /\ WF_vars(GcRemove)

FairSpec == Spec /\ Fairness

(***************************************************************************)
(* Properties                                                              *)
(***************************************************************************)
\* The model a server keeps consists of pinned bytes only, although the files
\* are opened a second time after they were verified and gc takes no lock.
LoadedIsPinned == slot # NoModel => \A a \in Artifacts : slot[a] = Pinned

\* Whatever else happens between the verification of a download and its
\* rename, only pinned bytes come to the path of an artifact.
InstallsOnlyPinned ==
    [][\A a \in Artifacts : files'[a] \in {files[a], NoFile, Pinned}]_vars

\* A download somebody left behind when it had its whole length.
Stranded ==
    \E a \in Artifacts :
        /\ Existing(a) = Size /\ ~Verifies(files[a])
        /\ \A w \in Workers : ~(pc[w] \in Writing /\ at[w] = a)

\* Once nothing disturbs it, the server gets its model, whatever was damaged,
\* removed or interrupted before; a whole download left behind excepted.
ServerGetsModel == calm /\ ~Stranded ~> slot # NoModel

\* "Interrupted downloads can be retried safely" (embedder.rs): the same
\* without the exception, which does not hold; no run checks it.
InterruptedDownloadsCanBeRetried == calm ~> slot # NoModel
=============================================================================
