----------------------------- MODULE Invocation -----------------------------
(***************************************************************************)
(* Who changes records, and on whose behalf.  An agent calls the protocol  *)
(* of invoke.rs through the MCP server, whose worker goes on when the host *)
(* cancels the call, or through `sbuf invoke`; it may send a request again *)
(* whatever became of it.  A person uses the HTTP server, whose PUT spans  *)
(* several requests, or the commands behind it, or an editor.  In Codex    *)
(* the hooks ask the agent once in a turn to review it for a memory, and   *)
(* do not when a candidate tool was answered ok in that turn.              *)
(*                                                                         *)
(* Abstractions.  Repository says why what an operation does under the     *)
(* mutation lock is one step here; a lock that is taken makes it Fail.     *)
(* All records have one title, kind and scope, so two bodies overlap and   *)
(* equal bodies are duplicates.  The links of a PUT, forgetting, and what  *)
(* people's commands decline are left out.  Recall is Retrieval's: it      *)
(* changes no record.                                                      *)
(***************************************************************************)
EXTENDS FiniteSets, Naturals

CONSTANTS
    Ids,            \* record ids
    Bodies,         \* what records say
    Requests,       \* what the agent may ask for
    Workers,        \* blocking threads of the MCP server, and sbuf processes
    Clients,        \* people's HTTP clients and commands
    Granted,        \* the operations the write policy of the MCP server allows
    MaxTurns,       \* bound: turns of the agent's session
    Edits,          \* the bodies and access values people change records to
    MaxEdits,       \* bound: such changes
    NoRecord, NoRequest, NoRead

VARIABLES
    records,    \* the store
    call,       \* the request a worker runs
    pc,         \* where each worker and each client is
    waiting,    \* the host has not cancelled the worker's call
    seen,       \* the record that a client got, from which it has the ETag
    current,    \* what its PUT found
    turn, phase, \* the agent's turn: "working", "reviewing" or "over"
    marks,      \* the state files of PostToolUse
    captured,   \* observation: in this turn a candidate tool was answered, and wrote one,
    declined,   \* ... or was answered ok, and wrote none
    asked,      \* the review of this turn was asked for
    edits,      \* changes of bodies and access so far
    standing    \* the request that wrote a record, while that is still open and says the same

agent == <<call, waiting>>
http == <<seen, current>>
session == <<turn, phase, marks, captured, declined, asked>>
vars == <<records, agent, pc, http, session, edits, standing>>

AccessValues == {"agent", "human"}
RecordType == [status : {"candidate", "active", "superseded", "archived"}, body : Bodies,
               access : AccessValues, supersedes : SUBSET Ids]

Writes == {"remember", "propose", "update", "supersede", "archive"}
Reads == {"get", "record", "candidate", "scope"}

(* What is wrong with a request: an unknown field or version, an actor or  *)
(* access class that is not the agent's, a scope of another store, a field *)
(* of the record, a likely credential in it, or that it names no source.   *)
Flaws == {"none", "request", "actor", "scope", "fields", "secret", "source"}

Present(i) == records[i] # NoRecord

(* The store as MemoryStore has it: its records have one title.            *)
Stored(i, r) ==
    [id |-> i, status |-> r.status, title |-> NoRecord, body |-> r.body,
     supersedes |-> r.supersedes]
Memory == [i \in Ids |-> IF Present(i) THEN Stored(i, records[i]) ELSE NoRecord]
M == INSTANCE MemoryStore
         WITH Titles <- {NoRecord}, Absent <- NoRecord, memory <- Memory

ASSUME InvocationAssumption ==
    /\ \A q \in Requests : /\ q.via \in {"mcp", "cli"}
                           /\ q.op \in Writes \cup Reads
                           /\ q.via = "mcp" => q.op \notin {"propose", "supersede"}
                           /\ q.id \in Ids /\ q.body \in Bodies /\ q.flaw \in Flaws
    /\ NoRequest \notin Requests
    /\ NoRecord \notin RecordType \cup M!Records
    /\ NoRead \notin [id : Ids, record : RecordType]
    /\ Workers \cap Clients = {}
    /\ Edits \subseteq Bodies \X AccessValues
    /\ MaxTurns \in Nat \ {0} /\ MaxEdits \in Nat

Init ==
    /\ records \in [Ids -> {NoRecord} \cup
                        [status : {"active"}, body : Bodies, access : {"agent"}, supersedes : {{}}]]
    /\ Cardinality({i \in Ids : Present(i)}) <= 1
    /\ call = [w \in Workers |-> NoRequest]
    /\ pc = [p \in Workers \cup Clients |-> "idle"]
    /\ waiting = [w \in Workers |-> FALSE]
    /\ seen = [c \in Clients |-> NoRead]
    /\ current = [c \in Clients |-> NoRecord]
    /\ turn \in 1..MaxTurns /\ phase = "working" /\ marks = {}
    /\ captured = FALSE /\ declined = FALSE /\ asked = FALSE
    /\ edits \in 0..MaxEdits
    /\ standing = [i \in Ids |-> NoRequest]

-----------------------------------------------------------------------------
(* What the operations of the repository do.                               *)

(* Mutant of Repeated: candidates do not count. *)
RepeatedInMemory(body, excluded) ==
    \E i \in Ids \ excluded :
        Present(i) /\ records[i].status = "active" /\ records[i].body = body

(* matching_record_excluding_ids, for duplicates. *)
Repeated(body, excluded) ==
    \E i \in Ids \ excluded : Present(i) /\ M!Open(records[i]) /\ records[i].body = body

(* ... and for overlaps. *)
Overlapped(body) == \E i \in Ids : Present(i) /\ M!Open(records[i]) /\ records[i].body # body

(* A record that says something else, or is not open any more, is not what *)
(* a request asked for.                                                    *)
StillStanding(next) ==
    [i \in Ids |->
        IF next[i] # NoRecord /\ M!Open(next[i]) /\ Present(i) /\ next[i].body = records[i].body
        THEN standing[i] ELSE NoRequest]

Become(next) == records' = next /\ standing' = StillStanding(next)

(* The store becomes next, with a new record that request q asked for. *)
Write(next, i, q) ==
    /\ records' = next
    /\ standing' = [StillStanding(next) EXCEPT ![i] = q]

(* A record that says what a request says, the rest as the code sets it.   *)
Candidate(body, old) ==
    [status |-> "candidate", body |-> body, access |-> "agent", supersedes |-> old]

-----------------------------------------------------------------------------
(* The agent's calls, by the server or by `sbuf invoke`.                   *)

Send(w, q) ==
    /\ pc[w] = "idle" /\ phase # "over"
    /\ call' = [call EXCEPT ![w] = q]
    /\ pc' = [pc EXCEPT ![w] = "sent"]
    /\ waiting' = [waiting EXCEPT ![w] = TRUE]
    /\ UNCHANGED <<records, http, session, edits, standing>>

CallTool(w, q) == q.via = "mcp" /\ Send(w, q)
Invoke(w, q) == q.via = "cli" /\ Send(w, q)

(* The host gives a call up; the thread that runs it is not told.          *)
Cancel(w) ==
    /\ waiting[w] /\ call[w].via = "mcp"
    /\ waiting' = [waiting EXCEPT ![w] = FALSE]
    /\ UNCHANGED <<records, call, pc, http, session, edits, standing>>

(* Mutant of StateFile: the file is named after the session alone. *)
SessionFile(t) == 1

(* The state file of a turn, whose name is a hash of session and turn. *)
StateFile(t) == t

(* PostToolUse keeps the file if it can. *)
KeptMarks == {marks, marks \cup {StateFile(turn)}}

(* The host sees an answer that says ok to a candidate tool of the server; *)
(* whether a candidate was written is not looked at.                       *)
CandidateWriteSucceeded(w, ok) ==
    waiting[w] /\ ok /\ call[w].via = "mcp" /\ call[w].op \in {"remember", "update"}

(* The worker is done, with an envelope that says ok or not.               *)
Respond(w, ok) ==
    LET succeeded == CandidateWriteSucceeded(w, ok)
    IN /\ pc' = [pc EXCEPT ![w] = "idle"]
       /\ call' = [call EXCEPT ![w] = NoRequest]
       /\ waiting' = [waiting EXCEPT ![w] = FALSE]
       /\ captured' = (captured \/ (succeeded /\ records' # records))
       /\ declined' = (declined \/ (succeeded /\ records' = records))
       /\ marks' \in IF succeeded THEN KeptMarks ELSE {marks}
       /\ UNCHANGED <<turn, phase, asked>>

Unchanged == UNCHANGED <<records, http, edits, standing>>

(* McpWritePolicy::allows. *)
Allows(op) == op \in Granted \/ op \notin {"remember", "update", "archive"}

(* A call that was cancelled before its thread began, or that the write    *)
(* policy does not allow.                                                  *)
Denied(w) == call[w].via = "mcp" /\ (~ waiting[w] \/ ~ Allows(call[w].op))

Refuse(w) ==
    /\ pc[w] = "sent" /\ Denied(w)
    /\ Respond(w, FALSE)
    /\ Unchanged

(* The repository fails: the lock is taken, or a system call fails before  *)
(* it has written anything.                                                *)
Fail(w) ==
    /\ pc[w] \in {"sent", "found"}
    /\ Respond(w, FALSE)
    /\ Unchanged

(* request_map and ensure_keys. *)
WellFormed(q) == q.flaw # "request"

(* ensure_agent_write. *)
ByAgent(q) == q.flaw # "actor"

(* What invocation_access lets a caller see. *)
InvocationAccess(q) == IF q.flaw = "actor" THEN {} ELSE {"agent"}

(* What invocation_scope lets it see: all records have the store's scope. *)
InvocationScope(q) == q.flaw # "scope"

(* The parsers of a record's fields. *)
Parses(q) == q.flaw # "fields"

(* reject_secret_candidate; the classifier is not modelled. *)
HoldsSecret(q) == q.flaw = "secret"

(* find_allowed: the lock is free again when it returns. *)
Allowed(q) ==
    /\ Present(q.id)
    /\ InvocationScope(q)
    /\ records[q.id].access \in InvocationAccess(q)

IsActive(i) == Present(i) /\ records[i].status = "active"

(* The outcome of a proposal, be it "invalid" or "duplicate_of", is an     *)
(* envelope that says ok.                                                  *)
ProposeOrDecline(w, replaced) ==
    LET q == call[w] IN
    /\ IF q.flaw # "source" /\ ~ Repeated(q.body, replaced)
       THEN /\ \E i \in Ids :
                  /\ ~ Present(i)
                  /\ Write([records EXCEPT ![i] = Candidate(q.body, replaced)], i, q)
            /\ UNCHANGED <<http, edits>>
       ELSE Unchanged
    /\ Respond(w, TRUE)

Decline(w) == Respond(w, FALSE) /\ Unchanged

(* invoke_remember. *)
Remember(w) ==
    LET q == call[w] IN
    /\ pc[w] = "sent" /\ ~ Denied(w) /\ q.op = "remember"
    /\ IF WellFormed(q) /\ ByAgent(q) /\ Parses(q) /\ ~ HoldsSecret(q)
       THEN ProposeOrDecline(w, {}) ELSE Decline(w)

(* invoke_propose, which looks for no credential. *)
Propose(w) ==
    LET q == call[w] IN
    /\ pc[w] = "sent" /\ q.op = "propose"
    /\ IF WellFormed(q) /\ ByAgent(q) /\ Parses(q) THEN ProposeOrDecline(w, {}) ELSE Decline(w)

(* The other writes first find the record they are about. *)
Find(w) ==
    LET q == call[w] IN
    /\ pc[w] = "sent" /\ ~ Denied(w) /\ q.op \in {"update", "supersede", "archive"}
    /\ IF WellFormed(q) /\ Allowed(q)
       THEN pc' = [pc EXCEPT ![w] = "found"] /\ UNCHANGED <<agent, session>> /\ Unchanged
       ELSE Decline(w)

(* invoke_update, from the record it found on: propose_update, which looks *)
(* at the record again unless the new text is not valid.                   *)
Update(w) ==
    LET q == call[w] IN
    /\ pc[w] = "found" /\ q.op = "update"
    /\ IF Parses(q) /\ ~ HoldsSecret(q) /\ (q.flaw = "source" \/ IsActive(q.id))
       THEN ProposeOrDecline(w, {q.id}) ELSE Decline(w)

(* invoke_supersede: the request gives the status, so the replacement is   *)
(* active, and nobody reviews it or looks for a duplicate.                 *)
Supersede(w) ==
    LET q == call[w] IN
    /\ pc[w] = "found" /\ q.op = "supersede"
    /\ IF Parses(q) /\ q.flaw # "source" /\ IsActive(q.id)
       THEN /\ \E i \in Ids :
                  /\ ~ Present(i)
                  /\ Write([records EXCEPT ![q.id] = M!WithStatus(@, "superseded"),
                                           ![i] = M!WithStatus(Candidate(q.body, {q.id}), "active")],
                           i, q)
            /\ Respond(w, TRUE)
            /\ UNCHANGED <<http, edits>>
       ELSE Decline(w)

(* invoke_archive: whatever the id names by now is archived. *)
Archive(w) ==
    LET q == call[w] IN
    /\ pc[w] = "found" /\ q.op = "archive"
    /\ IF IsActive(q.id)
       THEN /\ Become([records EXCEPT ![q.id] = M!WithStatus(@, "archived")])
            /\ Respond(w, TRUE)
            /\ UNCHANGED <<http, edits>>
       ELSE Decline(w)

(* invoke_get, the resources of one record or candidate, and a scope's.    *)
Get(w) ==
    LET q == call[w] IN
    /\ pc[w] = "sent" /\ ~ Denied(w) /\ q.op = "get"
    /\ Respond(w, WellFormed(q) /\ Allowed(q))
    /\ Unchanged

ReadRecord(w) ==
    LET q == call[w] IN
    /\ pc[w] = "sent" /\ q.op \in {"record", "candidate"}
    /\ Respond(w, Allowed(q) /\ (q.op = "candidate" => records[q.id].status = "candidate"))
    /\ Unchanged

ReadScope(w) ==
    /\ pc[w] = "sent" /\ call[w].op = "scope"
    /\ Respond(w, InvocationScope(call[w]))
    /\ Unchanged

-----------------------------------------------------------------------------
(* The Codex hooks.                                                        *)

(* Stop takes the mark away; it passes for missing when it cannot.         *)
ConsumeCandidateWrite(written) ==
    \/ written /\ StateFile(turn) \in marks /\ marks' = marks \ {StateFile(turn)}
    \/ ~ written /\ marks' = marks

(* The agent ends its turn when no call is open.  Without a mark Stop asks *)
(* for the review, after which it is called with stop_hook_active.         *)
Stop ==
    /\ \A w \in Workers : ~ waiting[w]
    /\ \/ /\ phase = "working"
          /\ \E written \in BOOLEAN :
                /\ ConsumeCandidateWrite(written)
                /\ phase' = IF written THEN "over" ELSE "reviewing"
                /\ asked' = ~ written
       \/ /\ phase = "reviewing"
          /\ phase' = "over" /\ UNCHANGED <<marks, asked>>
    /\ UNCHANGED <<records, agent, pc, http, turn, captured, declined, edits, standing>>

NextTurn ==
    /\ phase = "over" /\ turn < MaxTurns
    /\ turn' = turn + 1 /\ phase' = "working"
    /\ captured' = FALSE /\ declined' = FALSE /\ asked' = FALSE
    /\ UNCHANGED <<records, agent, pc, http, marks, edits, standing>>

-----------------------------------------------------------------------------
(* People.                                                                 *)

Quietly == UNCHANGED <<agent, pc, http, session, edits>>

(* draft_record. *)
Draft(body) == [status |-> "active", body |-> body, access |-> "human", supersedes |-> {}]

(* `sbuf add`: what a person adds is active, a duplicate or not. *)
AddRecord(body) ==
    /\ \E i \in Ids : ~ Present(i) /\ Become([records EXCEPT ![i] = Draft(body)])
    /\ Quietly

(* `sbuf propose`: the draft awaits approval. *)
ProposeRecord(body) ==
    /\ ~ Repeated(body, {})
    /\ \E i \in Ids :
          /\ ~ Present(i)
          /\ Become([records EXCEPT
                ![i] = [Draft(body) EXCEPT !.status = "candidate", !.access = "agent"]])
    /\ Quietly

(* create_record: a person's record is active unless it may overlap. *)
CreateRecord(body) ==
    /\ ~ Repeated(body, {})
    /\ \E i \in Ids :
          /\ ~ Present(i)
          /\ Become([records EXCEPT ![i] =
                M!WithStatus(Candidate(body, {}), IF Overlapped(body) THEN "candidate" ELSE "active")])
    /\ Quietly

(* approve_record: a candidate that replaces a record retires it. *)
ApproveRecord(i) ==
    /\ Present(i) /\ records[i].status = "candidate"
    /\ ~ Repeated(records[i].body, records[i].supersedes \cup {i})
    /\ \A o \in records[i].supersedes : IsActive(o)
    /\ Become([j \in Ids |-> CASE j = i -> M!WithStatus(records[i], "active")
                               [] j \in records[i].supersedes -> M!WithStatus(records[j], "superseded")
                               [] OTHER -> records[j]])
    /\ Quietly

(* transition. *)
Move(i, from, to) ==
    /\ Present(i) /\ records[i].status = from
    /\ Become([records EXCEPT ![i] = M!WithStatus(@, to)])
    /\ Quietly

RejectRecord(i) == Move(i, "candidate", "archived")
ArchiveRecord(i) == Move(i, "active", "archived")
RestoreRecord(i) == Move(i, "archived", "active")

(* Somebody edits the file of a record that is open. *)
EditFile(i, edit) ==
    /\ edits < MaxEdits /\ edits' = edits + 1
    /\ Present(i) /\ M!Open(records[i])
    /\ Become([records EXCEPT ![i].body = edit[1], ![i].access = edit[2]])
    /\ UNCHANGED <<agent, pc, http, session>>

(* The ETag stands for all of a record's Markdown. *)
Etag(record) == record

(* get_record: the answer has the record and its ETag; `sbuf supersede`    *)
(* finds the record that its draft is a copy of.                           *)
GetRecord(c, i) ==
    /\ pc[c] = "idle" /\ seen[c] = NoRead /\ edits < MaxEdits
    /\ Present(i)
    /\ seen' = [seen EXCEPT ![c] = [id |-> i, record |-> records[i]]]
    /\ UNCHANGED <<records, agent, pc, current, session, edits, standing>>

(* The end of an HTTP client's exchange, or of a command. *)
EndPut(c) ==
    /\ seen' = [seen EXCEPT ![c] = NoRead]
    /\ current' = [current EXCEPT ![c] = NoRecord]
    /\ pc' = [pc EXCEPT ![c] = "idle"]

(* `sbuf supersede` after its editor: the old record must be active, and   *)
(* need not say what the draft was made from.                              *)
SupersedeRecord(c) ==
    LET old == seen[c].id IN
    /\ pc[c] = "idle" /\ seen[c] # NoRead /\ edits < MaxEdits
    /\ IsActive(old)
    /\ edits' = edits + 1
    /\ \E i \in Ids, edit \in Edits :
          /\ ~ Present(i)
          /\ Become([records EXCEPT
                ![old] = M!WithStatus(@, "superseded"),
                ![i] = [seen[c].record EXCEPT !.status = "active", !.body = edit[1],
                                            !.access = edit[2], !.supersedes = {old}]])
    /\ EndPut(c)
    /\ UNCHANGED <<agent, session>>

(* Mutant of MatchEtag: any If-Match will do. *)
MatchAny(c) ==
    /\ pc[c] = "idle" /\ seen[c] # NoRead
    /\ current' = [current EXCEPT ![c] = records[seen[c].id]]
    /\ pc' = [pc EXCEPT ![c] = "matched"]
    /\ UNCHANGED <<records, agent, seen, session, edits, standing>>

(* replace_record, up to the comparison with If-Match. *)
MatchEtag(c) ==
    LET i == seen[c].id IN
    /\ pc[c] = "idle" /\ seen[c] # NoRead
    /\ IF Etag(records[i]) = Etag(seen[c].record)
       THEN /\ current' = [current EXCEPT ![c] = records[i]]
            /\ pc' = [pc EXCEPT ![c] = "matched"]
            /\ seen' = seen
       ELSE EndPut(c)
    /\ UNCHANGED <<records, agent, session, edits, standing>>

(* into_record: the replacement is active. *)
IntoRecord(record, edit) ==
    [record EXCEPT !.status = "active", !.body = edit[1], !.access = edit[2]]

(* Mutant of ReplaceIfUnchanged: the ETag was compared, that is enough. *)
ReplaceMatched(c) ==
    LET i == seen[c].id IN
    /\ pc[c] = "matched" /\ edits < MaxEdits
    /\ IsActive(i)
    /\ edits' = edits + 1
    /\ \E edit \in Edits : Become([records EXCEPT ![i] = IntoRecord(current[c], edit)])
    /\ EndPut(c)
    /\ UNCHANGED <<agent, session>>

(* ... and from there on: replace_if_unchanged, with the record as it was  *)
(* compared.                                                               *)
ReplaceIfUnchanged(c) ==
    LET i == seen[c].id IN
    /\ pc[c] = "matched" /\ edits < MaxEdits
    /\ IsActive(i) /\ records[i] = current[c]
    /\ edits' = edits + 1
    /\ \E edit \in Edits : Become([records EXCEPT ![i] = IntoRecord(current[c], edit)])
    /\ EndPut(c)
    /\ UNCHANGED <<agent, session>>

(* A record that changed is a conflict, one that is not active an error,   *)
(* and so is a store that is busy.                                         *)
PutFails(c) ==
    /\ pc[c] = "matched"
    /\ EndPut(c)
    /\ UNCHANGED <<records, agent, session, edits, standing>>

-----------------------------------------------------------------------------

(* invoke_operation_with_semantic_status, without search and context. *)
Work(w) ==
    \/ Refuse(w) \/ Fail(w) \/ Find(w)
    \/ Remember(w) \/ Propose(w) \/ Update(w) \/ Supersede(w) \/ Archive(w)
    \/ Get(w) \/ ReadRecord(w) \/ ReadScope(w)

People ==
    \/ \E body \in Bodies : AddRecord(body) \/ ProposeRecord(body) \/ CreateRecord(body)
    \/ \E i \in Ids : \/ ApproveRecord(i) \/ RejectRecord(i) \/ ArchiveRecord(i) \/ RestoreRecord(i)
                      \/ \E edit \in Edits : EditFile(i, edit)
    \/ \E c \in Clients : \/ \E i \in Ids : GetRecord(c, i)
                          \/ MatchEtag(c) \/ ReplaceIfUnchanged(c) \/ PutFails(c)
                          \/ SupersedeRecord(c)

Next ==
    \/ \E w \in Workers : \/ \E q \in Requests : CallTool(w, q) \/ Invoke(w, q)
                          \/ Cancel(w) \/ Work(w)
    \/ Stop \/ NextTurn
    \/ People

Spec == Init /\ [][Next]_vars

-----------------------------------------------------------------------------
(* Properties.                                                             *)

(* The state has its type; a call is open while its worker runs it. *)
TypeOK ==
    /\ records \in [Ids -> RecordType \cup {NoRecord}]
    /\ pc \in [Workers \cup Clients -> {"idle", "sent", "found", "matched"}]
    /\ \A w \in Workers : /\ pc[w] = "idle" <=> call[w] = NoRequest
                          /\ waiting[w] => call[w] \in Requests
    /\ \A c \in Clients : pc[c] = "matched" => Etag(current[c]) = Etag(seen[c].record)
    /\ turn \in 1..MaxTurns /\ phase \in {"working", "reviewing", "over"}
    /\ marks \subseteq 1..MaxTurns /\ captured \in BOOLEAN /\ declined \in BOOLEAN
    /\ asked \in BOOLEAN
    /\ edits \in 0..MaxEdits

(* However often a request is sent, cancelled while it runs and sent again *)
(* before or after its first record was reviewed, one record at most       *)
(* stands for it ("Exact duplicates are not written", cli/reference.md).   *)
OneRecordPerRequest ==
    \A i, j \in Ids : i # j /\ standing[i] = standing[j] => standing[i] = NoRequest

(* A PUT replaces the very text its client was sent with the ETag, whoever *)
(* changed the record between its requests, "so the client can reload      *)
(* rather than overwrite" (local-api.md).                                  *)
PutsOverWhatWasRead ==
    [][\A c \in Clients :
          pc[c] = "matched" /\ pc'[c] = "idle" /\ records' # records
            => Etag(records[seen[c].id]) = Etag(seen[c].record) /\ IsActive(seen[c].id)]_vars

(* Whatever an agent calls, a person asks for and a client puts is one     *)
(* lifecycle step of the abstract store, which Repository implements, or   *)
(* changes nothing; only people's editors may write what they like into    *)
(* an open record.                                                         *)
CallsAreLifecycleSteps ==
    [][M!Next \/ \E i \in Ids, edit \in Edits : EditFile(i, edit)]_Memory

(* A turn ends without a review only if a candidate tool of the server was *)
(* answered ok in that very turn: no mark of another turn, or of a review, *)
(* keeps Stop from asking (capture-state.mjs, codex.mjs).  The tool wrote a*)
(* candidate then, with one exception: an answer of "invalid" or           *)
(* "duplicate_of" says ok too, and nothing was written, while              *)
(* codex-plugin.md has it that "If no MCP candidate was written, Stop       *)
(* remains a fallback capture boundary": see the README.                   *)
TurnsAreCaptured ==
    phase = "over" => asked \/ captured \/ declined

=============================================================================
