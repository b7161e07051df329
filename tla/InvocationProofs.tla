--------------------------- MODULE InvocationProofs ---------------------------
(***************************************************************************)
(* Theorems about Invocation, for any number of records, requests, workers *)
(* and clients.                                                            *)
(***************************************************************************)
EXTENDS Invocation, TLAPS

RecordMaps == [Ids -> RecordType \cup {NoRecord}]

(* What stands for a request is an open record that says it, and is not    *)
(* the record it is about; what was superseded by request stays so.        *)
StandsWell(i, q) ==
    /\ Present(i) /\ M!Open(records[i]) /\ records[i].body = q.body
    /\ q.op \in {"update", "supersede"} => q.id # i
    /\ q.op = "supersede" => Present(q.id) /\ records[q.id].status = "superseded"

StandingInv == \A i \in Ids : standing[i] # NoRequest => StandsWell(i, standing[i])

RecordsInv ==
    /\ records \in RecordMaps
    /\ standing \in [Ids -> Requests \cup {NoRequest}]
    /\ StandingInv
    /\ OneRecordPerRequest

(* A worker has a call while it runs one; a client that has compared an    *)
(* ETag found the record that it had read.                                 *)
CallsInv ==
    /\ call \in [Workers -> Requests \cup {NoRequest}]
    /\ pc \in [Workers \cup Clients -> {"idle", "sent", "found", "matched"}]
    /\ waiting \in [Workers -> BOOLEAN]
    /\ seen \in [Clients -> [id : Ids, record : RecordType] \cup {NoRead}]
    /\ current \in [Clients -> RecordType \cup {NoRecord}]
    /\ \A w \in Workers : /\ pc[w] = "idle" <=> call[w] = NoRequest
                          /\ waiting[w] => pc[w] # "idle"
    /\ \A c \in Clients : pc[c] = "matched" => /\ seen[c] # NoRead
                                               /\ current[c] = seen[c].record

(* No mark is of a turn to come, and that of this turn means a candidate   *)
(* tool that was answered ok.                                              *)
TurnInv ==
    /\ turn \in 1..MaxTurns /\ phase \in {"working", "reviewing", "over"}
    /\ captured \in BOOLEAN /\ declined \in BOOLEAN /\ asked \in BOOLEAN
    /\ marks \subseteq 1..turn
    /\ turn \in marks => captured \/ declined
    /\ phase = "reviewing" => asked
    /\ phase = "over" => asked \/ captured \/ declined

EditsInv == edits \in 0..MaxEdits

IInv == RecordsInv /\ CallsInv /\ TurnInv /\ EditsInv

-----------------------------------------------------------------------------
(* Records.                                                                *)

(* Nothing is forgotten, and nothing comes back from supersession. *)
Kept(next) ==
    /\ next \in RecordMaps
    /\ \A i \in Ids : Present(i) =>
          /\ next[i] # NoRecord
          /\ records[i].status = "superseded" => next[i].status = "superseded"

LEMMA BecomesWell ==
    ASSUME RecordsInv, NEW next, Kept(next), Become(next)
    PROVE  RecordsInv'
  <1>1. \A i \in Ids : standing'[i] # NoRequest =>
            /\ standing'[i] = standing[i] /\ Present(i)
            /\ next[i] # NoRecord /\ M!Open(next[i]) /\ next[i].body = records[i].body
    BY DEF Become, StillStanding
  <1>2. records' \in RecordMaps /\ standing' \in [Ids -> Requests \cup {NoRequest}]
    BY DEF Become, StillStanding, Kept, RecordsInv
  <1>3. ASSUME NEW i \in Ids, standing'[i] # NoRequest
        PROVE  StandsWell(i, standing[i])'
    <2>1. StandsWell(i, standing[i]) /\ standing[i] \in Requests
      BY <1>1, <1>3 DEF RecordsInv, StandingInv
    <2>2. standing[i].id \in Ids
      BY <2>1, InvocationAssumption
    <2> QED
      BY <1>1, <1>3, <2>1, <2>2 DEF StandsWell, Become, Kept, Present
  <1>4. OneRecordPerRequest'
    BY <1>1 DEF OneRecordPerRequest, RecordsInv
  <1> QED
    BY <1>2, <1>3, <1>4 DEF RecordsInv, StandingInv

(* A new record may stand for a request if no open record says the same,   *)
(* but perhaps the one that the request is about; or if it supersedes one  *)
(* that was active.                                                        *)
MayStand(q, next) ==
    \/ q.op # "supersede" /\ ~ Repeated(q.body, IF q.op = "update" THEN {q.id} ELSE {})
    \/ q.op = "supersede" /\ IsActive(q.id) /\ next[q.id].status = "superseded"

LEMMA WritesWell ==
    ASSUME RecordsInv, NEW next, Kept(next), NEW i \in Ids, NEW q \in Requests,
           Write(next, i, q), ~ Present(i), next[i] # NoRecord, M!Open(next[i]),
           next[i].body = q.body, q.op \in {"update", "supersede"} => Present(q.id),
           MayStand(q, next)
    PROVE  RecordsInv'
  <1>1. \A j \in Ids \ {i} : standing'[j] # NoRequest =>
            /\ standing'[j] = standing[j] /\ Present(j)
            /\ next[j] # NoRecord /\ M!Open(next[j]) /\ next[j].body = records[j].body
    BY DEF Write, StillStanding
  <1>2. standing'[i] = q
    BY DEF Write, StillStanding
  <1>3. records' \in RecordMaps /\ standing' \in [Ids -> Requests \cup {NoRequest}]
    BY DEF Write, StillStanding, Kept, RecordsInv
  <1>4. q.id \in Ids /\ q # NoRequest
    BY InvocationAssumption
  <1>5. ASSUME NEW j \in Ids, standing'[j] # NoRequest
        PROVE  StandsWell(j, standing[j])'
    <2>1. CASE j = i
      BY <1>2, <1>4, <2>1 DEF StandsWell, Write, Kept, Present, MayStand, IsActive
    <2>2. CASE j # i
      <3>1. StandsWell(j, standing[j]) /\ standing[j] \in Requests
        BY <1>1, <1>5, <2>2 DEF RecordsInv, StandingInv
      <3>2. standing[j].id \in Ids
        BY <3>1, InvocationAssumption
      <3> QED
        BY <1>1, <1>5, <2>2, <3>1, <3>2 DEF StandsWell, Write, Kept, Present
    <2> QED
      BY <2>1, <2>2
  <1>6. ASSUME NEW j \in Ids \ {i} PROVE standing'[j] # q
    <2> SUFFICES ASSUME standing'[j] = q PROVE FALSE
      OBVIOUS
    <2>1. standing[j] = q
      BY <1>1, <1>4
    <2>2. StandsWell(j, q)
      BY <1>4, <2>1 DEF RecordsInv, StandingInv
    <2>3. CASE q.op # "supersede"
      BY <2>2, <2>3 DEF StandsWell, MayStand, Repeated
    <2>4. CASE q.op = "supersede"
      BY <2>2, <2>4 DEF StandsWell, MayStand, IsActive
    <2> QED
      BY <2>3, <2>4
  <1>7. OneRecordPerRequest'
    BY <1>1, <1>2, <1>6 DEF OneRecordPerRequest, RecordsInv
  <1> QED
    BY <1>3, <1>5, <1>7 DEF RecordsInv, StandingInv

-----------------------------------------------------------------------------
(* Turns.                                                                  *)

LEMMA MaxTurnsIsNat == MaxTurns \in Nat
  BY InvocationAssumption

LEMMA RespondsInTurn ==
    ASSUME TurnInv, NEW w \in Workers, NEW ok \in BOOLEAN, Respond(w, ok)
    PROVE  TurnInv'
  <1>1. CASE CandidateWriteSucceeded(w, ok)
    <2>1. /\ captured' \in BOOLEAN /\ declined' \in BOOLEAN /\ (captured' \/ declined')
          /\ UNCHANGED <<turn, phase, asked>>
      BY <1>1 DEF Respond, TurnInv
    <2>2. marks' = marks \/ marks' = marks \cup {turn}
      BY <1>1 DEF Respond, KeptMarks, StateFile
    <2>3. turn \in 1..turn
      BY MaxTurnsIsNat DEF TurnInv
    <2> QED
      BY <2>1, <2>2, <2>3 DEF TurnInv
  <1>2. CASE ~ CandidateWriteSucceeded(w, ok)
    BY <1>2 DEF TurnInv, Respond
  <1> QED
    BY <1>1, <1>2

LEMMA TurnStep ==
    ASSUME TurnInv, [Next]_vars
    PROVE  TurnInv'
  <1>0. CASE UNCHANGED vars
    BY <1>0 DEF vars, session, TurnInv
  <1>1. ASSUME NEW w \in Workers, NEW q \in Requests, CallTool(w, q) PROVE TurnInv'
    BY <1>1 DEF CallTool, Send, session, TurnInv
  <1>2. ASSUME NEW w \in Workers, NEW q \in Requests, Invoke(w, q) PROVE TurnInv'
    BY <1>2 DEF Invoke, Send, session, TurnInv
  <1>3. ASSUME NEW w \in Workers, Cancel(w) PROVE TurnInv'
    BY <1>3 DEF Cancel, session, TurnInv
  <1>4. ASSUME NEW w \in Workers, Refuse(w) PROVE TurnInv'
    BY <1>4, RespondsInTurn DEF Refuse
  <1>5. ASSUME NEW w \in Workers, Fail(w) PROVE TurnInv'
    BY <1>5, RespondsInTurn DEF Fail
  <1>6. ASSUME NEW w \in Workers, Find(w) PROVE TurnInv'
    <2>1. UNCHANGED session \/ Respond(w, FALSE)
      BY <1>6 DEF Find, Decline
    <2> QED
      BY <2>1, RespondsInTurn DEF session, TurnInv
  <1>7. ASSUME NEW w \in Workers, Remember(w) PROVE TurnInv'
    BY <1>7, RespondsInTurn DEF Remember, Decline, ProposeOrDecline
  <1>8. ASSUME NEW w \in Workers, Propose(w) PROVE TurnInv'
    BY <1>8, RespondsInTurn DEF Propose, Decline, ProposeOrDecline
  <1>9. ASSUME NEW w \in Workers, Update(w) PROVE TurnInv'
    BY <1>9, RespondsInTurn DEF Update, Decline, ProposeOrDecline
  <1>10. ASSUME NEW w \in Workers, Supersede(w) PROVE TurnInv'
    BY <1>10, RespondsInTurn DEF Supersede, Decline
  <1>11. ASSUME NEW w \in Workers, Archive(w) PROVE TurnInv'
    BY <1>11, RespondsInTurn DEF Archive, Decline
  <1>12. ASSUME NEW w \in Workers, Get(w) PROVE TurnInv'
    <2>1. PICK ok \in BOOLEAN : Respond(w, ok)
      BY <1>12 DEF Get, Allowed, InvocationScope, WellFormed
    <2> QED
      BY <2>1, RespondsInTurn
  <1>13. ASSUME NEW w \in Workers, ReadRecord(w) PROVE TurnInv'
    <2>1. PICK ok \in BOOLEAN : Respond(w, ok)
      BY <1>13 DEF ReadRecord, Allowed, InvocationScope, WellFormed
    <2> QED
      BY <2>1, RespondsInTurn
  <1>14. ASSUME NEW w \in Workers, ReadScope(w) PROVE TurnInv'
    <2>1. PICK ok \in BOOLEAN : Respond(w, ok)
      BY <1>14 DEF ReadScope, Allowed, InvocationScope, WellFormed
    <2> QED
      BY <2>1, RespondsInTurn
  <1>15. ASSUME Stop PROVE TurnInv'
    <2>1. UNCHANGED <<turn, captured, declined>> /\ phase' \in {"reviewing", "over"}
      BY <1>15 DEF Stop
    <2>2. CASE phase = "reviewing"
      <3>1. phase' = "over" /\ UNCHANGED <<marks, asked>>
        BY <1>15, <2>2 DEF Stop
      <3> QED
        BY <2>1, <2>2, <3>1 DEF TurnInv
    <2>3. CASE phase # "reviewing"
      <3>1. PICK written \in BOOLEAN :
              /\ ConsumeCandidateWrite(written)
              /\ phase' = IF written THEN "over" ELSE "reviewing"
              /\ asked' = ~ written
        BY <1>15, <2>3 DEF Stop
      <3>2. CASE written
        BY <2>1, <3>1, <3>2 DEF ConsumeCandidateWrite, StateFile, TurnInv
      <3>3. CASE ~ written
        BY <2>1, <3>1, <3>3 DEF ConsumeCandidateWrite, TurnInv
      <3> QED
        BY <3>2, <3>3
    <2> QED
      BY <2>2, <2>3
  <1>16. ASSUME NextTurn PROVE TurnInv'
    <2>1. /\ turn' = turn + 1 /\ turn < MaxTurns /\ phase' = "working"
          /\ captured' = FALSE /\ declined' = FALSE /\ asked' = FALSE /\ marks' = marks
      BY <1>16 DEF NextTurn
    <2>2. turn' \in 1..MaxTurns /\ turn' \notin 1..turn /\ 1..turn \subseteq 1..turn'
      BY <2>1, MaxTurnsIsNat DEF TurnInv
    <2> QED
      BY <2>1, <2>2 DEF TurnInv
  <1>17. ASSUME NEW body \in Bodies, AddRecord(body) PROVE TurnInv'
    BY <1>17 DEF AddRecord, Quietly, session, TurnInv
  <1>18. ASSUME NEW body \in Bodies, ProposeRecord(body) PROVE TurnInv'
    BY <1>18 DEF ProposeRecord, Quietly, session, TurnInv
  <1>19. ASSUME NEW body \in Bodies, CreateRecord(body) PROVE TurnInv'
    BY <1>19 DEF CreateRecord, Quietly, session, TurnInv
  <1>20. ASSUME NEW i \in Ids, ApproveRecord(i) PROVE TurnInv'
    BY <1>20 DEF ApproveRecord, Quietly, session, TurnInv
  <1>21. ASSUME NEW i \in Ids, RejectRecord(i) PROVE TurnInv'
    BY <1>21 DEF RejectRecord, Move, Quietly, session, TurnInv
  <1>22. ASSUME NEW i \in Ids, ArchiveRecord(i) PROVE TurnInv'
    BY <1>22 DEF ArchiveRecord, Move, Quietly, session, TurnInv
  <1>23. ASSUME NEW i \in Ids, RestoreRecord(i) PROVE TurnInv'
    BY <1>23 DEF RestoreRecord, Move, Quietly, session, TurnInv
  <1>24. ASSUME NEW i \in Ids, NEW edit \in Edits, EditFile(i, edit) PROVE TurnInv'
    BY <1>24 DEF EditFile, session, TurnInv
  <1>25. ASSUME NEW c \in Clients, NEW i \in Ids, GetRecord(c, i) PROVE TurnInv'
    BY <1>25 DEF GetRecord, session, TurnInv
  <1>26. ASSUME NEW c \in Clients, MatchEtag(c) PROVE TurnInv'
    BY <1>26 DEF MatchEtag, session, TurnInv
  <1>27. ASSUME NEW c \in Clients, ReplaceIfUnchanged(c) PROVE TurnInv'
    BY <1>27 DEF ReplaceIfUnchanged, session, TurnInv
  <1>28. ASSUME NEW c \in Clients, PutFails(c) PROVE TurnInv'
    BY <1>28 DEF PutFails, session, TurnInv
  <1>29. ASSUME NEW c \in Clients, SupersedeRecord(c) PROVE TurnInv'
    BY <1>29 DEF SupersedeRecord, session, TurnInv
  <1> QED
    BY <1>0, <1>1, <1>2, <1>3, <1>4, <1>5, <1>6, <1>7, <1>8, <1>9, <1>10, <1>11, <1>12,
       <1>13, <1>14, <1>15, <1>16, <1>17, <1>18, <1>19, <1>20, <1>21, <1>22, <1>23,
       <1>24, <1>25, <1>26, <1>27, <1>28, <1>29
       DEF Next, Work, People

-----------------------------------------------------------------------------
(* Calls.                                                                  *)

LEMMA Apart == \A w \in Workers, c \in Clients : w # c
  BY InvocationAssumption

LEMMA RespondsWell ==
    ASSUME CallsInv, NEW w \in Workers, NEW ok, Respond(w, ok), UNCHANGED http
    PROVE  CallsInv'
  BY Apart, InvocationAssumption DEF CallsInv, Respond, http

LEMMA EndsWell ==
    ASSUME CallsInv, NEW c \in Clients, EndPut(c), UNCHANGED agent
    PROVE  CallsInv'
  BY Apart DEF CallsInv, EndPut, agent

LEMMA CallsStep ==
    ASSUME CallsInv, RecordsInv, [Next]_vars
    PROVE  CallsInv'
  <1>0. CASE UNCHANGED vars
    BY <1>0 DEF vars, agent, http, CallsInv
  <1>1. ASSUME NEW w \in Workers, NEW q \in Requests, CallTool(w, q) PROVE CallsInv'
    BY <1>1, Apart, InvocationAssumption DEF CallTool, Send, CallsInv, http
  <1>2. ASSUME NEW w \in Workers, NEW q \in Requests, Invoke(w, q) PROVE CallsInv'
    BY <1>2, Apart, InvocationAssumption DEF Invoke, Send, CallsInv, http
  <1>3. ASSUME NEW w \in Workers, Cancel(w) PROVE CallsInv'
    BY <1>3 DEF Cancel, agent, http, CallsInv
  <1>4. ASSUME NEW w \in Workers, Refuse(w) PROVE CallsInv'
    BY <1>4, RespondsWell DEF Refuse, Unchanged
  <1>5. ASSUME NEW w \in Workers, Fail(w) PROVE CallsInv'
    BY <1>5, RespondsWell DEF Fail, Unchanged
  <1>6. ASSUME NEW w \in Workers, Find(w) PROVE CallsInv'
    BY <1>6, RespondsWell, Apart DEF Find, Decline, Unchanged, agent, http, CallsInv
  <1>7. ASSUME NEW w \in Workers, Remember(w) PROVE CallsInv'
    BY <1>7, RespondsWell DEF Remember, Decline, ProposeOrDecline, Unchanged
  <1>8. ASSUME NEW w \in Workers, Propose(w) PROVE CallsInv'
    BY <1>8, RespondsWell DEF Propose, Decline, ProposeOrDecline, Unchanged
  <1>9. ASSUME NEW w \in Workers, Update(w) PROVE CallsInv'
    BY <1>9, RespondsWell DEF Update, Decline, ProposeOrDecline, Unchanged
  <1>10. ASSUME NEW w \in Workers, Supersede(w) PROVE CallsInv'
    BY <1>10, RespondsWell DEF Supersede, Decline, Unchanged
  <1>11. ASSUME NEW w \in Workers, Archive(w) PROVE CallsInv'
    BY <1>11, RespondsWell DEF Archive, Decline, Unchanged
  <1>12. ASSUME NEW w \in Workers, Get(w) PROVE CallsInv'
    BY <1>12, RespondsWell DEF Get, Unchanged
  <1>13. ASSUME NEW w \in Workers, ReadRecord(w) PROVE CallsInv'
    BY <1>13, RespondsWell DEF ReadRecord, Unchanged
  <1>14. ASSUME NEW w \in Workers, ReadScope(w) PROVE CallsInv'
    BY <1>14, RespondsWell DEF ReadScope, Unchanged
  <1>15. ASSUME Stop PROVE CallsInv'
    BY <1>15 DEF Stop, agent, http, CallsInv
  <1>16. ASSUME NextTurn PROVE CallsInv'
    BY <1>16 DEF NextTurn, agent, http, CallsInv
  <1>17. ASSUME NEW body \in Bodies, AddRecord(body) PROVE CallsInv'
    BY <1>17 DEF AddRecord, Quietly, agent, http, CallsInv
  <1>18. ASSUME NEW body \in Bodies, ProposeRecord(body) PROVE CallsInv'
    BY <1>18 DEF ProposeRecord, Quietly, agent, http, CallsInv
  <1>19. ASSUME NEW body \in Bodies, CreateRecord(body) PROVE CallsInv'
    BY <1>19 DEF CreateRecord, Quietly, agent, http, CallsInv
  <1>20. ASSUME NEW i \in Ids, ApproveRecord(i) PROVE CallsInv'
    BY <1>20 DEF ApproveRecord, Quietly, agent, http, CallsInv
  <1>21. ASSUME NEW i \in Ids, RejectRecord(i) PROVE CallsInv'
    BY <1>21 DEF RejectRecord, Move, Quietly, agent, http, CallsInv
  <1>22. ASSUME NEW i \in Ids, ArchiveRecord(i) PROVE CallsInv'
    BY <1>22 DEF ArchiveRecord, Move, Quietly, agent, http, CallsInv
  <1>23. ASSUME NEW i \in Ids, RestoreRecord(i) PROVE CallsInv'
    BY <1>23 DEF RestoreRecord, Move, Quietly, agent, http, CallsInv
  <1>24. ASSUME NEW i \in Ids, NEW edit \in Edits, EditFile(i, edit) PROVE CallsInv'
    BY <1>24 DEF EditFile, agent, http, CallsInv
  <1>25. ASSUME NEW c \in Clients, NEW i \in Ids, GetRecord(c, i) PROVE CallsInv'
    BY <1>25, InvocationAssumption
       DEF GetRecord, CallsInv, RecordsInv, RecordMaps, Present, agent
  <1>26. ASSUME NEW c \in Clients, MatchEtag(c) PROVE CallsInv'
    BY <1>26, EndsWell, Apart DEF MatchEtag, Etag, CallsInv, RecordsInv, agent
  <1>27. ASSUME NEW c \in Clients, ReplaceIfUnchanged(c) PROVE CallsInv'
    BY <1>27, EndsWell DEF ReplaceIfUnchanged
  <1>28. ASSUME NEW c \in Clients, PutFails(c) PROVE CallsInv'
    BY <1>28, EndsWell DEF PutFails
  <1>29. ASSUME NEW c \in Clients, SupersedeRecord(c) PROVE CallsInv'
    BY <1>29, EndsWell DEF SupersedeRecord
  <1> QED
    BY <1>0, <1>1, <1>2, <1>3, <1>4, <1>5, <1>6, <1>7, <1>8, <1>9, <1>10, <1>11, <1>12,
       <1>13, <1>14, <1>15, <1>16, <1>17, <1>18, <1>19, <1>20, <1>21, <1>22, <1>23,
       <1>24, <1>25, <1>26, <1>27, <1>28, <1>29
       DEF Next, Work, People

-----------------------------------------------------------------------------
(* What each operation does to the records.                                *)

Same == UNCHANGED <<records, standing>>

LEMMA StaysWell ==
    ASSUME RecordsInv, Same
    PROVE  RecordsInv'
  BY DEF RecordsInv, StandingInv, StandsWell, OneRecordPerRequest, Same, Present

LEMMA StatusType ==
    ASSUME NEW r \in RecordType, NEW status \in {"candidate", "active", "superseded", "archived"}
    PROVE  /\ M!WithStatus(r, status) \in RecordType
           /\ M!WithStatus(r, status).status = status
           /\ M!WithStatus(r, status).body = r.body
  BY DEF M!WithStatus, RecordType

LEMMA CandidateType ==
    ASSUME NEW body \in Bodies, NEW old \in SUBSET Ids
    PROVE  /\ Candidate(body, old) \in RecordType
           /\ Candidate(body, old).status = "candidate"
           /\ Candidate(body, old).body = body
  BY DEF Candidate, RecordType, AccessValues

LEMMA RequestType ==
    ASSUME NEW q \in Requests
    PROVE  q.id \in Ids /\ q.body \in Bodies /\ q.op \in Writes \cup Reads
  BY InvocationAssumption

(* A record that is there and open is replaced by one that is not gone. *)
LEMMA KeptBut ==
    ASSUME RecordsInv, NEW i \in Ids, NEW r \in RecordType,
           Present(i) => records[i].status # "superseded" \/ r.status = "superseded"
    PROVE  /\ Kept([records EXCEPT ![i] = r])
           /\ [records EXCEPT ![i] = r][i] = r
           /\ r # NoRecord
  BY InvocationAssumption DEF Kept, RecordsInv, RecordMaps, Present

LEMMA OneBecomesWell ==
    ASSUME RecordsInv, NEW i \in Ids, NEW r \in RecordType,
           Present(i) => records[i].status # "superseded" \/ r.status = "superseded",
           Become([records EXCEPT ![i] = r])
    PROVE  RecordsInv'
  BY KeptBut, BecomesWell

(* A record that is active is superseded by a new one. *)
LEMMA SupersedesWell ==
    ASSUME RecordsInv, NEW o \in Ids, NEW i \in Ids, NEW r \in RecordType,
           IsActive(o), ~ Present(i)
    PROVE  Kept([records EXCEPT ![o] = M!WithStatus(@, "superseded"), ![i] = r])
  <1>1. records[o] \in RecordType /\ records \in RecordMaps /\ i # o
    BY DEF RecordsInv, RecordMaps, IsActive, Present
  <1> DEFINE retired == M!WithStatus(records[o], "superseded")
             next == [records EXCEPT ![o] = retired, ![i] = r]
  <1>2. retired \in RecordType /\ retired.status = "superseded"
    BY <1>1, StatusType
  <1>3. next \in RecordMaps /\ next[o] = retired /\ \A j \in Ids \ {o, i} : next[j] = records[j]
    BY <1>1, <1>2 DEF RecordMaps
  <1>4. [records EXCEPT ![o] = M!WithStatus(@, "superseded"), ![i] = r] = next
    BY <1>1 DEF RecordMaps
  <1> HIDE DEF next, retired
  <1>5. Kept(next)
    BY <1>1, <1>2, <1>3, InvocationAssumption DEF Kept, Present
  <1> QED
    BY <1>4, <1>5

(* ProposeOrDecline for a request that excludes the record it is about.    *)
LEMMA ProposesWell ==
    ASSUME RecordsInv, CallsInv, NEW w \in Workers, pc[w] # "idle",
           call[w].op \notin {"update", "supersede"} \/ (call[w].op = "update" /\
               (call[w].flaw = "source" \/ Present(call[w].id))),
           NEW old, old = IF call[w].op = "update" THEN {call[w].id} ELSE {},
           ProposeOrDecline(w, old)
    PROVE  RecordsInv'
  <1> DEFINE q == call[w]
  <1>1. q \in Requests /\ q.id \in Ids /\ q.body \in Bodies
    BY RequestType DEF CallsInv
  <1>2. CASE q.flaw # "source" /\ ~ Repeated(q.body, old)
    <2>1. PICK i \in Ids : /\ ~ Present(i)
                           /\ Write([records EXCEPT ![i] = Candidate(q.body, old)], i, q)
      BY <1>2 DEF ProposeOrDecline
    <2> DEFINE r == Candidate(q.body, old)
               next == [records EXCEPT ![i] = r]
    <2>2. r \in RecordType /\ r.status = "candidate" /\ r.body = q.body
      BY <1>1, CandidateType
    <2>3. Kept(next) /\ next[i] = r /\ r # NoRecord
      BY <2>1, <2>2, KeptBut
    <2>4. M!Open(next[i])
      BY <2>2, <2>3 DEF M!Open
    <2>5. MayStand(q, next)
      BY <1>2 DEF MayStand
    <2>6. q.op \in {"update", "supersede"} => Present(q.id)
      BY <1>2
    <2> HIDE DEF q, next, r
    <2> QED
      BY <1>1, <2>1, <2>2, <2>3, <2>4, <2>5, <2>6, WritesWell DEF next, r
  <1>3. CASE ~ (q.flaw # "source" /\ ~ Repeated(q.body, old))
    BY <1>3, StaysWell DEF ProposeOrDecline, Unchanged, Same
  <1> QED
    BY <1>2, <1>3

LEMMA RecordsStep ==
    ASSUME RecordsInv, CallsInv, [Next]_vars
    PROVE  RecordsInv'
  <1>0. CASE UNCHANGED vars
    BY <1>0, StaysWell DEF vars, Same
  <1>1. ASSUME NEW w \in Workers, NEW q \in Requests, CallTool(w, q) PROVE RecordsInv'
    BY <1>1, StaysWell DEF CallTool, Same, Send
  <1>2. ASSUME NEW w \in Workers, NEW q \in Requests, Invoke(w, q) PROVE RecordsInv'
    BY <1>2, StaysWell DEF Invoke, Same, Send
  <1>3. ASSUME NEW w \in Workers, Cancel(w) PROVE RecordsInv'
    BY <1>3, StaysWell DEF Cancel, Same
  <1>4. ASSUME NEW w \in Workers, Refuse(w) PROVE RecordsInv'
    BY <1>4, StaysWell DEF Refuse, Same, Unchanged
  <1>5. ASSUME NEW w \in Workers, Fail(w) PROVE RecordsInv'
    BY <1>5, StaysWell DEF Fail, Same, Unchanged
  <1>6. ASSUME NEW w \in Workers, Find(w) PROVE RecordsInv'
    BY <1>6, StaysWell DEF Find, Same, Unchanged, Decline
  <1>7. ASSUME NEW w \in Workers, Remember(w) PROVE RecordsInv'
    <2>1. ProposeOrDecline(w, {}) \/ Unchanged
      BY <1>7 DEF Remember, Decline
    <2>2. pc[w] # "idle" /\ call[w].op \notin {"update", "supersede"}
      BY <1>7 DEF Remember
    <2> QED
      BY <2>1, <2>2, ProposesWell, StaysWell DEF Unchanged, Same
  <1>8. ASSUME NEW w \in Workers, Propose(w) PROVE RecordsInv'
    <2>1. ProposeOrDecline(w, {}) \/ Unchanged
      BY <1>8 DEF Propose, Decline
    <2>2. pc[w] # "idle" /\ call[w].op \notin {"update", "supersede"}
      BY <1>8 DEF Propose
    <2> QED
      BY <2>1, <2>2, ProposesWell, StaysWell DEF Unchanged, Same
  <1>9. ASSUME NEW w \in Workers, Update(w) PROVE RecordsInv'
    <2>1. \/ /\ ProposeOrDecline(w, {call[w].id})
             /\ call[w].flaw = "source" \/ Present(call[w].id)
          \/ Unchanged
      BY <1>9 DEF Update, Decline, IsActive
    <2>2. pc[w] # "idle" /\ call[w].op = "update"
      BY <1>9 DEF Update
    <2> QED
      BY <2>1, <2>2, ProposesWell, StaysWell DEF Unchanged, Same
  <1>10. ASSUME NEW w \in Workers, Supersede(w) PROVE RecordsInv'
    <2> DEFINE q == call[w]
    <2>1. q \in Requests /\ q.op = "supersede"
      BY <1>10 DEF Supersede, CallsInv
    <2>2. CASE Parses(q) /\ q.flaw # "source" /\ IsActive(q.id)
      <3> DEFINE r == M!WithStatus(Candidate(q.body, {q.id}), "active")
      <3>1. PICK i \in Ids :
              /\ ~ Present(i)
              /\ Write([records EXCEPT ![q.id] = M!WithStatus(@, "superseded"), ![i] = r], i, q)
        BY <1>10, <2>2 DEF Supersede
      <3> DEFINE next == [records EXCEPT ![q.id] = M!WithStatus(@, "superseded"), ![i] = r]
      <3>2. q.id \in Ids /\ q.body \in Bodies
        BY <2>1, RequestType
      <3>3. r \in RecordType /\ r.status = "active" /\ r.body = q.body
        BY <3>2, CandidateType, StatusType
      <3>4. i # q.id /\ Present(q.id)
        BY <2>2, <3>1 DEF IsActive
      <3>5. Kept(next)
        BY <2>2, <3>1, <3>2, <3>3, SupersedesWell
      <3>6. next[i] = r /\ next[q.id] = M!WithStatus(records[q.id], "superseded")
        BY <3>2, <3>4 DEF RecordsInv, RecordMaps
      <3>7. next[q.id].status = "superseded"
        BY <3>2, <3>4, <3>6, StatusType DEF RecordsInv, RecordMaps, Present
      <3>8. MayStand(q, next)
        BY <2>1, <2>2, <3>7 DEF MayStand
      <3>9. r # NoRecord /\ M!Open(r)
        BY <3>3, InvocationAssumption DEF M!Open
      <3>10. Write(next, i, q)
        BY <3>1
      <3> HIDE DEF next, r, q
      <3> QED
        BY <2>1, <3>1, <3>3, <3>4, <3>5, <3>6, <3>8, <3>9, <3>10, WritesWell
    <2>3. CASE ~ (Parses(q) /\ q.flaw # "source" /\ IsActive(q.id))
      BY <1>10, <2>3, StaysWell DEF Supersede, Decline, Unchanged, Same
    <2> QED
      BY <2>2, <2>3
  <1>11. ASSUME NEW w \in Workers, Archive(w) PROVE RecordsInv'
    <2> DEFINE i == call[w].id
    <2>1. CASE IsActive(i)
      <3>1. i \in Ids
        BY <1>11, RequestType DEF Archive, CallsInv
      <3>2. Become([records EXCEPT ![i] = M!WithStatus(records[i], "archived")])
        BY <1>11, <2>1 DEF Archive
      <3>3. M!WithStatus(records[i], "archived") \in RecordType /\ records[i].status # "superseded"
        BY <2>1, <3>1, StatusType DEF IsActive, Present, RecordsInv, RecordMaps
      <3> HIDE DEF i
      <3> QED
        BY <3>1, <3>2, <3>3, OneBecomesWell
    <2>2. CASE ~ IsActive(i)
      BY <1>11, <2>2, StaysWell DEF Archive, Decline, Unchanged, Same
    <2> QED
      BY <2>1, <2>2
  <1>12. ASSUME NEW w \in Workers, Get(w) PROVE RecordsInv'
    BY <1>12, StaysWell DEF Get, Same, Unchanged
  <1>13. ASSUME NEW w \in Workers, ReadRecord(w) PROVE RecordsInv'
    BY <1>13, StaysWell DEF ReadRecord, Same, Unchanged
  <1>14. ASSUME NEW w \in Workers, ReadScope(w) PROVE RecordsInv'
    BY <1>14, StaysWell DEF ReadScope, Same, Unchanged
  <1>15. ASSUME Stop PROVE RecordsInv'
    BY <1>15, StaysWell DEF Stop, Same
  <1>16. ASSUME NextTurn PROVE RecordsInv'
    BY <1>16, StaysWell DEF NextTurn, Same
  <1>17. ASSUME NEW body \in Bodies, AddRecord(body) PROVE RecordsInv'
    <2>1. PICK i \in Ids : ~ Present(i) /\ Become([records EXCEPT ![i] = Draft(body)])
      BY <1>17 DEF AddRecord
    <2>2. Draft(body) \in RecordType
      BY DEF Draft, RecordType, AccessValues
    <2> QED
      BY <2>1, <2>2, OneBecomesWell
  <1>18. ASSUME NEW body \in Bodies, ProposeRecord(body) PROVE RecordsInv'
    <2> DEFINE r == [Draft(body) EXCEPT !.status = "candidate", !.access = "agent"]
    <2>1. PICK i \in Ids : ~ Present(i) /\ Become([records EXCEPT ![i] = r])
      BY <1>18 DEF ProposeRecord
    <2>2. r \in RecordType
      BY DEF Draft, RecordType, AccessValues
    <2> HIDE DEF r
    <2> QED
      BY <2>1, <2>2, OneBecomesWell
  <1>19. ASSUME NEW body \in Bodies, CreateRecord(body) PROVE RecordsInv'
    <2> DEFINE r == M!WithStatus(Candidate(body, {}),
                                IF Overlapped(body) THEN "candidate" ELSE "active")
    <2>1. PICK i \in Ids : ~ Present(i) /\ Become([records EXCEPT ![i] = r])
      BY <1>19 DEF CreateRecord
    <2>2. r \in RecordType
      BY CandidateType, StatusType
    <2> HIDE DEF r
    <2> QED
      BY <2>1, <2>2, OneBecomesWell
  <1>20. ASSUME NEW i \in Ids, ApproveRecord(i) PROVE RecordsInv'
    <2> DEFINE old == records[i].supersedes
               next == [j \in Ids |-> CASE j = i -> M!WithStatus(records[i], "active")
                                        [] j \in old -> M!WithStatus(records[j], "superseded")
                                        [] OTHER -> records[j]]
    <2>1. /\ Present(i) /\ records[i].status = "candidate"
          /\ \A o \in old : IsActive(o)
          /\ Become(next)
      BY <1>20 DEF ApproveRecord
    <2>2. records \in RecordMaps /\ records[i] \in RecordType
      BY <2>1 DEF RecordsInv, RecordMaps, Present
    <2>3. old \subseteq Ids
      BY <2>2 DEF RecordType
    <2>4. \A j \in old : Present(j) /\ records[j].status = "active" /\ records[j] \in RecordType
      BY <2>1, <2>2, <2>3 DEF IsActive, Present, RecordMaps
    <2>5. \A j \in Ids : \/ j = i /\ next[j] = M!WithStatus(records[i], "active")
                         \/ j # i /\ j \in old /\ next[j] = M!WithStatus(records[j], "superseded")
                         \/ j # i /\ j \notin old /\ next[j] = records[j]
      <3>1. i \notin old
        BY <2>1, <2>4
      <3> HIDE DEF old
      <3> QED
        BY <3>1
    <2>6. next = [j \in Ids |-> next[j]]
      OBVIOUS
    <2> HIDE DEF next, old
    <2>7. \A j \in Ids : next[j] \in RecordType \cup {NoRecord}
      BY <2>2, <2>4, <2>5, StatusType DEF RecordMaps
    <2>8. next \in RecordMaps
      BY <2>6, <2>7 DEF RecordMaps
    <2>9. ASSUME NEW j \in Ids, Present(j)
          PROVE  /\ next[j] # NoRecord
                 /\ records[j].status = "superseded" => next[j].status = "superseded"
      BY <2>1, <2>2, <2>4, <2>5, <2>9, StatusType, InvocationAssumption DEF Present
    <2>10. Kept(next)
      BY <2>8, <2>9 DEF Kept
    <2> QED
      BY <2>1, <2>10, BecomesWell
  <1>21. ASSUME NEW i \in Ids, RejectRecord(i) PROVE RecordsInv'
    <2>1. PICK to \in {"active", "archived"} :
            /\ Present(i) /\ records[i].status # "superseded"
            /\ Become([records EXCEPT ![i] = M!WithStatus(@, to)])
      BY <1>21 DEF RejectRecord, Move
    <2>2. M!WithStatus(records[i], to) \in RecordType
      BY <2>1, StatusType DEF RecordsInv, RecordMaps, Present
    <2>3. Become([records EXCEPT ![i] = M!WithStatus(records[i], to)])
      BY <2>1
    <2> QED
      BY <2>1, <2>2, <2>3, OneBecomesWell
  <1>22. ASSUME NEW i \in Ids, ArchiveRecord(i) PROVE RecordsInv'
    <2>1. PICK to \in {"active", "archived"} :
            /\ Present(i) /\ records[i].status # "superseded"
            /\ Become([records EXCEPT ![i] = M!WithStatus(@, to)])
      BY <1>22 DEF ArchiveRecord, Move
    <2>2. M!WithStatus(records[i], to) \in RecordType
      BY <2>1, StatusType DEF RecordsInv, RecordMaps, Present
    <2>3. Become([records EXCEPT ![i] = M!WithStatus(records[i], to)])
      BY <2>1
    <2> QED
      BY <2>1, <2>2, <2>3, OneBecomesWell
  <1>23. ASSUME NEW i \in Ids, RestoreRecord(i) PROVE RecordsInv'
    <2>1. PICK to \in {"active", "archived"} :
            /\ Present(i) /\ records[i].status # "superseded"
            /\ Become([records EXCEPT ![i] = M!WithStatus(@, to)])
      BY <1>23 DEF RestoreRecord, Move
    <2>2. M!WithStatus(records[i], to) \in RecordType
      BY <2>1, StatusType DEF RecordsInv, RecordMaps, Present
    <2>3. Become([records EXCEPT ![i] = M!WithStatus(records[i], to)])
      BY <2>1
    <2> QED
      BY <2>1, <2>2, <2>3, OneBecomesWell
  <1>24. ASSUME NEW i \in Ids, NEW edit \in Edits, EditFile(i, edit) PROVE RecordsInv'
    <2> DEFINE r == [records[i] EXCEPT !.body = edit[1], !.access = edit[2]]
    <2>1. /\ Present(i) /\ M!Open(records[i])
          /\ Become([records EXCEPT ![i].body = edit[1], ![i].access = edit[2]])
      BY <1>24 DEF EditFile
    <2>2. records[i] \in RecordType /\ records \in RecordMaps
      BY <2>1 DEF RecordsInv, RecordMaps, Present
    <2>3. r \in RecordType
      BY <2>2, InvocationAssumption DEF RecordType
    <2>4. [records EXCEPT ![i].body = edit[1], ![i].access = edit[2]] = [records EXCEPT ![i] = r]
      BY <2>2 DEF RecordMaps, RecordType
    <2>5. records[i].status # "superseded"
      BY <2>1 DEF M!Open
    <2> HIDE DEF r
    <2> QED
      BY <2>1, <2>3, <2>4, <2>5, OneBecomesWell
  <1>25. ASSUME NEW c \in Clients, NEW i \in Ids, GetRecord(c, i) PROVE RecordsInv'
    BY <1>25, StaysWell DEF GetRecord, Same
  <1>26. ASSUME NEW c \in Clients, MatchEtag(c) PROVE RecordsInv'
    BY <1>26, StaysWell DEF MatchEtag, Same
  <1>27. ASSUME NEW c \in Clients, ReplaceIfUnchanged(c) PROVE RecordsInv'
    <2>1. /\ pc[c] = "matched" /\ IsActive(seen[c].id)
          /\ records[seen[c].id] = current[c]
      BY <1>27 DEF ReplaceIfUnchanged
    <2>2. PICK edit \in Edits :
            Become([records EXCEPT ![seen[c].id] = IntoRecord(current[c], edit)])
      BY <1>27 DEF ReplaceIfUnchanged
    <2>3. seen[c].id \in Ids
      BY <2>1 DEF CallsInv
    <2>4. current[c] \in RecordType /\ records[seen[c].id].status = "active"
      BY <2>1, <2>3 DEF RecordsInv, RecordMaps, IsActive, Present
    <2>5. IntoRecord(current[c], edit) \in RecordType
      BY <2>4, InvocationAssumption DEF IntoRecord, RecordType
    <2> QED
      BY <2>2, <2>3, <2>4, <2>5, OneBecomesWell
  <1>28. ASSUME NEW c \in Clients, PutFails(c) PROVE RecordsInv'
    BY <1>28, StaysWell DEF PutFails, Same
  <1>29. ASSUME NEW c \in Clients, SupersedeRecord(c) PROVE RecordsInv'
    <2> DEFINE old == seen[c].id
    <2>1. seen[c] # NoRead /\ IsActive(old)
      BY <1>29 DEF SupersedeRecord
    <2>2. PICK i \in Ids, edit \in Edits :
            /\ ~ Present(i)
            /\ Become([records EXCEPT
                  ![old] = M!WithStatus(@, "superseded"),
                  ![i] = [seen[c].record EXCEPT !.status = "active", !.body = edit[1],
                                                !.access = edit[2], !.supersedes = {old}]])
      BY <1>29 DEF SupersedeRecord
    <2> DEFINE r == [seen[c].record EXCEPT !.status = "active", !.body = edit[1],
                                           !.access = edit[2], !.supersedes = {old}]
    <2>3. old \in Ids /\ seen[c].record \in RecordType
      BY <2>1 DEF CallsInv
    <2>4. r \in RecordType
      BY <2>3, InvocationAssumption DEF RecordType
    <2>5. Become([records EXCEPT ![old] = M!WithStatus(@, "superseded"), ![i] = r])
      BY <2>2
    <2> HIDE DEF r, old
    <2>6. Kept([records EXCEPT ![old] = M!WithStatus(@, "superseded"), ![i] = r])
      BY <2>1, <2>2, <2>3, <2>4, SupersedesWell
    <2> QED
      BY <2>5, <2>6, BecomesWell
  <1> QED
    BY <1>0, <1>1, <1>2, <1>3, <1>4, <1>5, <1>6, <1>7, <1>8, <1>9, <1>10, <1>11, <1>12,
       <1>13, <1>14, <1>15, <1>16, <1>17, <1>18, <1>19, <1>20, <1>21, <1>22, <1>23,
       <1>24, <1>25, <1>26, <1>27, <1>28, <1>29
       DEF Next, Work, People

-----------------------------------------------------------------------------
(* Edits by people.                                                        *)

LEMMA EditsStep ==
    ASSUME EditsInv, [Next]_vars
    PROVE  EditsInv'
  <1> USE InvocationAssumption
  <1>0. CASE UNCHANGED vars
    BY <1>0 DEF vars, EditsInv
  <1>1. ASSUME NEW w \in Workers, NEW q \in Requests, CallTool(w, q) PROVE EditsInv'
    BY <1>1 DEF CallTool, Send, EditsInv
  <1>2. ASSUME NEW w \in Workers, NEW q \in Requests, Invoke(w, q) PROVE EditsInv'
    BY <1>2 DEF Invoke, Send, EditsInv
  <1>3. ASSUME NEW w \in Workers, Cancel(w) PROVE EditsInv'
    BY <1>3 DEF Cancel, EditsInv
  <1>4. ASSUME NEW w \in Workers, Refuse(w) PROVE EditsInv'
    BY <1>4 DEF Refuse, Unchanged, EditsInv
  <1>5. ASSUME NEW w \in Workers, Fail(w) PROVE EditsInv'
    BY <1>5 DEF Fail, Unchanged, EditsInv
  <1>6. ASSUME NEW w \in Workers, Find(w) PROVE EditsInv'
    BY <1>6 DEF Find, Decline, Unchanged, EditsInv
  <1>7. ASSUME NEW w \in Workers, Remember(w) PROVE EditsInv'
    BY <1>7 DEF Remember, Decline, ProposeOrDecline, Unchanged, EditsInv
  <1>8. ASSUME NEW w \in Workers, Propose(w) PROVE EditsInv'
    BY <1>8 DEF Propose, Decline, ProposeOrDecline, Unchanged, EditsInv
  <1>9. ASSUME NEW w \in Workers, Update(w) PROVE EditsInv'
    BY <1>9 DEF Update, Decline, ProposeOrDecline, Unchanged, EditsInv
  <1>10. ASSUME NEW w \in Workers, Supersede(w) PROVE EditsInv'
    BY <1>10 DEF Supersede, Decline, Unchanged, EditsInv
  <1>11. ASSUME NEW w \in Workers, Archive(w) PROVE EditsInv'
    BY <1>11 DEF Archive, Decline, Unchanged, EditsInv
  <1>12. ASSUME NEW w \in Workers, Get(w) PROVE EditsInv'
    BY <1>12 DEF Get, Unchanged, EditsInv
  <1>13. ASSUME NEW w \in Workers, ReadRecord(w) PROVE EditsInv'
    BY <1>13 DEF ReadRecord, Unchanged, EditsInv
  <1>14. ASSUME NEW w \in Workers, ReadScope(w) PROVE EditsInv'
    BY <1>14 DEF ReadScope, Unchanged, EditsInv
  <1>15. ASSUME Stop PROVE EditsInv'
    BY <1>15 DEF Stop, EditsInv
  <1>16. ASSUME NextTurn PROVE EditsInv'
    BY <1>16 DEF NextTurn, EditsInv
  <1>17. ASSUME NEW body \in Bodies, AddRecord(body) PROVE EditsInv'
    BY <1>17 DEF AddRecord, Quietly, EditsInv
  <1>18. ASSUME NEW body \in Bodies, ProposeRecord(body) PROVE EditsInv'
    BY <1>18 DEF ProposeRecord, Quietly, EditsInv
  <1>19. ASSUME NEW body \in Bodies, CreateRecord(body) PROVE EditsInv'
    BY <1>19 DEF CreateRecord, Quietly, EditsInv
  <1>20. ASSUME NEW i \in Ids, ApproveRecord(i) PROVE EditsInv'
    BY <1>20 DEF ApproveRecord, Quietly, EditsInv
  <1>21. ASSUME NEW i \in Ids, RejectRecord(i) PROVE EditsInv'
    BY <1>21 DEF RejectRecord, Move, Quietly, EditsInv
  <1>22. ASSUME NEW i \in Ids, ArchiveRecord(i) PROVE EditsInv'
    BY <1>22 DEF ArchiveRecord, Move, Quietly, EditsInv
  <1>23. ASSUME NEW i \in Ids, RestoreRecord(i) PROVE EditsInv'
    BY <1>23 DEF RestoreRecord, Move, Quietly, EditsInv
  <1>24. ASSUME NEW i \in Ids, NEW edit \in Edits, EditFile(i, edit) PROVE EditsInv'
    <2>1. edits < MaxEdits /\ edits' = edits + 1
      BY <1>24 DEF EditFile
    <2> QED
      BY <2>1 DEF EditsInv
  <1>25. ASSUME NEW c \in Clients, NEW i \in Ids, GetRecord(c, i) PROVE EditsInv'
    BY <1>25 DEF GetRecord, EditsInv
  <1>26. ASSUME NEW c \in Clients, MatchEtag(c) PROVE EditsInv'
    BY <1>26 DEF MatchEtag, EditsInv
  <1>27. ASSUME NEW c \in Clients, ReplaceIfUnchanged(c) PROVE EditsInv'
    <2>1. edits < MaxEdits /\ edits' = edits + 1
      BY <1>27 DEF ReplaceIfUnchanged
    <2> QED
      BY <2>1 DEF EditsInv
  <1>28. ASSUME NEW c \in Clients, PutFails(c) PROVE EditsInv'
    BY <1>28 DEF PutFails, EditsInv
  <1>29. ASSUME NEW c \in Clients, SupersedeRecord(c) PROVE EditsInv'
    <2>1. edits < MaxEdits /\ edits' = edits + 1
      BY <1>29 DEF SupersedeRecord
    <2> QED
      BY <2>1 DEF EditsInv
  <1> QED
    BY <1>0, <1>1, <1>2, <1>3, <1>4, <1>5, <1>6, <1>7, <1>8, <1>9, <1>10, <1>11, <1>12,
       <1>13, <1>14, <1>15, <1>16, <1>17, <1>18, <1>19, <1>20, <1>21, <1>22, <1>23,
       <1>24, <1>25, <1>26, <1>27, <1>28, <1>29
       DEF Next, Work, People

-----------------------------------------------------------------------------
(* The invariant and what follows from it.                                 *)

LEMMA InitInv == Init => IInv
  <1> SUFFICES ASSUME Init PROVE IInv
    OBVIOUS
  <1>1. RecordsInv
    BY DEF Init, RecordsInv, RecordMaps, RecordType, AccessValues, StandingInv,
           OneRecordPerRequest
  <1>2. CallsInv
    BY InvocationAssumption DEF Init, CallsInv
  <1>3. TurnInv
    BY MaxTurnsIsNat DEF Init, TurnInv
  <1>4. EditsInv
    BY DEF Init, EditsInv
  <1> QED
    BY <1>1, <1>2, <1>3, <1>4 DEF IInv

LEMMA StepInv == IInv /\ [Next]_vars => IInv'
  BY RecordsStep, CallsStep, TurnStep, EditsStep DEF IInv

THEOREM Invariance == Spec => []IInv
  BY InitInv, StepInv, PTL DEF Spec

LEMMA InvTyped == IInv => TypeOK
  <1> SUFFICES ASSUME IInv PROVE TypeOK
    OBVIOUS
  <1>1. records \in [Ids -> RecordType \cup {NoRecord}]
    BY DEF IInv, RecordsInv, RecordMaps
  <1>2. /\ pc \in [Workers \cup Clients -> {"idle", "sent", "found", "matched"}]
        /\ \A w \in Workers : /\ pc[w] = "idle" <=> call[w] = NoRequest
                              /\ waiting[w] => call[w] \in Requests
        /\ \A c \in Clients : pc[c] = "matched" => Etag(current[c]) = Etag(seen[c].record)
    BY DEF IInv, CallsInv, Etag
  <1>3. /\ turn \in 1..MaxTurns /\ phase \in {"working", "reviewing", "over"}
        /\ marks \subseteq 1..MaxTurns /\ captured \in BOOLEAN /\ declined \in BOOLEAN /\ asked \in BOOLEAN
    BY MaxTurnsIsNat DEF IInv, TurnInv
  <1> QED
    BY <1>1, <1>2, <1>3 DEF IInv, EditsInv, TypeOK

(* The state keeps its type, and a call is open while its worker runs it   *)
(* (server.rs and invoke.rs).                                              *)
THEOREM TypeCorrect == Spec => []TypeOK
  BY Invariance, InvTyped, PTL

(* However often the agent sends a request, cancels it or sends it again,  *)
(* one open record at most stands for it (repository.rs, matching_record). *)
THEOREM RequestsStandOnce == Spec => []OneRecordPerRequest
  BY Invariance, PTL DEF IInv, RecordsInv

(* A turn that is over was asked about, or in that very turn a candidate   *)
(* tool wrote a candidate or was answered ok without one (capture-state.mjs*)
(* and codex.mjs).                                                         *)
THEOREM TurnsEndCaptured == Spec => []TurnsAreCaptured
  BY Invariance, PTL DEF IInv, TurnInv, TurnsAreCaptured

-----------------------------------------------------------------------------
(* What a PUT replaces.                                                    *)

PutsWell ==
    \A c \in Clients :
       pc[c] = "matched" /\ pc'[c] = "idle" /\ records' # records
         => Etag(records[seen[c].id]) = Etag(seen[c].record) /\ IsActive(seen[c].id)

LEMMA PutStep ==
    ASSUME IInv, [Next]_vars
    PROVE  PutsWell
  <1> SUFFICES ASSUME NEW d \in Clients, pc[d] = "matched", pc'[d] = "idle",
                      records' # records
               PROVE  Etag(records[seen[d].id]) = Etag(seen[d].record) /\ IsActive(seen[d].id)
    BY DEF PutsWell
  <1> DEFINE Goal == Etag(records[seen[d].id]) = Etag(seen[d].record) /\ IsActive(seen[d].id)
  <1>a. pc \in [Workers \cup Clients -> {"idle", "sent", "found", "matched"}]
    BY DEF IInv, CallsInv
  <1>0. CASE UNCHANGED vars
    BY <1>0 DEF vars
  <1>1. ASSUME NEW w \in Workers, NEW q \in Requests, CallTool(w, q) PROVE Goal
    BY <1>1, <1>a, Apart DEF CallTool, Send
  <1>2. ASSUME NEW w \in Workers, NEW q \in Requests, Invoke(w, q) PROVE Goal
    BY <1>2, <1>a, Apart DEF Invoke, Send
  <1>3. ASSUME NEW w \in Workers, Cancel(w) PROVE Goal
    BY <1>3 DEF Cancel
  <1>4. ASSUME NEW w \in Workers, Refuse(w) PROVE Goal
    BY <1>4, <1>a, Apart DEF Refuse, Respond
  <1>5. ASSUME NEW w \in Workers, Fail(w) PROVE Goal
    BY <1>5, <1>a, Apart DEF Fail, Respond
  <1>6. ASSUME NEW w \in Workers, Find(w) PROVE Goal
    BY <1>6, <1>a, Apart DEF Find, Decline, Respond
  <1>7. ASSUME NEW w \in Workers, Remember(w) PROVE Goal
    BY <1>7, <1>a, Apart DEF Remember, Decline, ProposeOrDecline, Respond
  <1>8. ASSUME NEW w \in Workers, Propose(w) PROVE Goal
    BY <1>8, <1>a, Apart DEF Propose, Decline, ProposeOrDecline, Respond
  <1>9. ASSUME NEW w \in Workers, Update(w) PROVE Goal
    BY <1>9, <1>a, Apart DEF Update, Decline, ProposeOrDecline, Respond
  <1>10. ASSUME NEW w \in Workers, Supersede(w) PROVE Goal
    BY <1>10, <1>a, Apart DEF Supersede, Decline, Respond
  <1>11. ASSUME NEW w \in Workers, Archive(w) PROVE Goal
    BY <1>11, <1>a, Apart DEF Archive, Decline, Respond
  <1>12. ASSUME NEW w \in Workers, Get(w) PROVE Goal
    BY <1>12, <1>a, Apart DEF Get, Respond
  <1>13. ASSUME NEW w \in Workers, ReadRecord(w) PROVE Goal
    BY <1>13, <1>a, Apart DEF ReadRecord, Respond
  <1>14. ASSUME NEW w \in Workers, ReadScope(w) PROVE Goal
    BY <1>14, <1>a, Apart DEF ReadScope, Respond
  <1>15. ASSUME Stop PROVE Goal
    BY <1>15 DEF Stop
  <1>16. ASSUME NextTurn PROVE Goal
    BY <1>16 DEF NextTurn
  <1>17. ASSUME NEW body \in Bodies, AddRecord(body) PROVE Goal
    BY <1>17 DEF AddRecord, Quietly
  <1>18. ASSUME NEW body \in Bodies, ProposeRecord(body) PROVE Goal
    BY <1>18 DEF ProposeRecord, Quietly
  <1>19. ASSUME NEW body \in Bodies, CreateRecord(body) PROVE Goal
    BY <1>19 DEF CreateRecord, Quietly
  <1>20. ASSUME NEW i \in Ids, ApproveRecord(i) PROVE Goal
    BY <1>20 DEF ApproveRecord, Quietly
  <1>21. ASSUME NEW i \in Ids, RejectRecord(i) PROVE Goal
    BY <1>21 DEF RejectRecord, Move, Quietly
  <1>22. ASSUME NEW i \in Ids, ArchiveRecord(i) PROVE Goal
    BY <1>22 DEF ArchiveRecord, Move, Quietly
  <1>23. ASSUME NEW i \in Ids, RestoreRecord(i) PROVE Goal
    BY <1>23 DEF RestoreRecord, Move, Quietly
  <1>24. ASSUME NEW i \in Ids, NEW edit \in Edits, EditFile(i, edit) PROVE Goal
    BY <1>24 DEF EditFile
  <1>25. ASSUME NEW c \in Clients, NEW i \in Ids, GetRecord(c, i) PROVE Goal
    BY <1>25 DEF GetRecord
  <1>26. ASSUME NEW c \in Clients, MatchEtag(c) PROVE Goal
    BY <1>26 DEF MatchEtag
  <1>27. ASSUME NEW c \in Clients, ReplaceIfUnchanged(c) PROVE Goal
    <2>1. c = d
      BY <1>27, <1>a DEF ReplaceIfUnchanged, EndPut
    <2>2. current[d] = seen[d].record
      BY DEF IInv, CallsInv
    <2> QED
      BY <1>27, <2>1, <2>2 DEF ReplaceIfUnchanged, Etag
  <1>28. ASSUME NEW c \in Clients, PutFails(c) PROVE Goal
    BY <1>28 DEF PutFails
  <1>29. ASSUME NEW c \in Clients, SupersedeRecord(c) PROVE Goal
    BY <1>29, <1>a DEF SupersedeRecord, EndPut
  <1> QED
    BY <1>0, <1>1, <1>2, <1>3, <1>4, <1>5, <1>6, <1>7, <1>8, <1>9, <1>10, <1>11, <1>12,
       <1>13, <1>14, <1>15, <1>16, <1>17, <1>18, <1>19, <1>20, <1>21, <1>22, <1>23,
       <1>24, <1>25, <1>26, <1>27, <1>28, <1>29
       DEF Next, Work, People

(* A PUT replaces the text that its client read, whatever was written      *)
(* between its requests (server.rs, replace_record, and                    *)
(* Repository::replace_if_unchanged).                                      *)
THEOREM PutsReplaceWhatWasRead == Spec => PutsOverWhatWasRead
  <1>1. IInv /\ [Next]_vars => [PutsWell]_vars
    BY PutStep
  <1> QED
    BY <1>1, Invariance, PTL DEF Spec, PutsOverWhatWasRead, PutsWell

-----------------------------------------------------------------------------
(* The calls of an agent and of people on the abstract store.              *)

(* A record is linked to nothing or to one other record. *)
Linked(i, r) ==
    /\ i \notin r.supersedes
    /\ r.supersedes = {} \/ \E o \in Ids : r.supersedes = {o}

LinksInv == \A i \in Ids : Present(i) => Linked(i, records[i])

(* What a step may do to the store: add a record, ... *)
Adds(i, r) ==
    /\ ~ Present(i)
    /\ r \in RecordType /\ r.status \in {"active", "candidate"} /\ Linked(i, r)
    /\ records' = [records EXCEPT ![i] = r]

(* ... archive one or restore it, ... *)
Moves(i, to) ==
    /\ Present(i)
    /\ \/ records[i].status \in {"candidate", "active"} /\ to = "archived"
       \/ records[i].status = "archived" /\ to = "active"
    /\ records' = [records EXCEPT ![i] = M!WithStatus(records[i], to)]

(* ... approve a candidate that replaces nothing, ... *)
Approves(i) ==
    /\ Present(i) /\ records[i].status = "candidate" /\ records[i].supersedes = {}
    /\ ~ Repeated(records[i].body, {i})
    /\ records' = [records EXCEPT ![i] = M!WithStatus(records[i], "active")]

(* ... retire one for another, which is new or a candidate, ... *)
Replaces(o, i, r) ==
    /\ IsActive(o) /\ o # i
    /\ r \in RecordType /\ r.status = "active" /\ r.supersedes = {o}
    /\ \/ ~ Present(i)
       \/ records[i] = M!WithStatus(r, "candidate") /\ ~ Repeated(r.body, {o, i})
    /\ records' = [records EXCEPT ![o] = M!WithStatus(records[o], "superseded"), ![i] = r]

(* ... or rewrite one. *)
Rewrites(i, r) ==
    /\ Present(i)
    /\ r \in RecordType /\ r.supersedes = records[i].supersedes
    /\ records' = [records EXCEPT ![i] = r]

ChangesStore ==
    \/ UNCHANGED records
    \/ \E i \in Ids, r \in RecordType : Adds(i, r)
    \/ \E i \in Ids, to \in {"archived", "active"} : Moves(i, to)
    \/ \E i \in Ids : Approves(i)
    \/ \E o \in Ids, i \in Ids, r \in RecordType : Replaces(o, i, r)
    \/ \E i \in Ids, r \in RecordType :
          /\ Rewrites(i, r)
          /\ \/ IsActive(i) /\ r.status = "active"
             \/ \E edit \in Edits : EditFile(i, edit)

(* A proposal adds a candidate or nothing. *)
LEMMA ProposalAdds ==
    ASSUME RecordsInv, CallsInv, NEW w \in Workers, pc[w] # "idle",
           NEW old, old = {} \/ (old = {call[w].id} /\
                                    (call[w].flaw = "source" \/ Present(call[w].id))),
           ProposeOrDecline(w, old)
    PROVE  ChangesStore
  <1> DEFINE q == call[w]
  <1>1. q \in Requests /\ q.id \in Ids /\ q.body \in Bodies
    BY RequestType DEF CallsInv
  <1>2. CASE q.flaw # "source" /\ ~ Repeated(q.body, old)
    <2>1. PICK i \in Ids : /\ ~ Present(i)
                           /\ Write([records EXCEPT ![i] = Candidate(q.body, old)], i, q)
      BY <1>2 DEF ProposeOrDecline
    <2> DEFINE r == Candidate(q.body, old)
    <2>2. old \in SUBSET Ids
      BY <1>1
    <2>3. r \in RecordType /\ r.status = "candidate" /\ r.supersedes = old
      BY <1>1, <2>2, CandidateType DEF Candidate
    <2>4. Linked(i, r)
      BY <1>1, <1>2, <2>1, <2>3 DEF Linked
    <2>5. records' = [records EXCEPT ![i] = r]
      BY <2>1 DEF Write
    <2> HIDE DEF r
    <2>6. Adds(i, r)
      BY <2>1, <2>3, <2>4, <2>5 DEF Adds
    <2> QED
      BY <2>3, <2>6 DEF ChangesStore
  <1>3. CASE ~ (q.flaw # "source" /\ ~ Repeated(q.body, old))
    BY <1>3 DEF ProposeOrDecline, Unchanged, ChangesStore
  <1> QED
    BY <1>2, <1>3

(* A status that a person or an agent sets. *)
LEMMA MoveMoves ==
    ASSUME RecordsInv, NEW i \in Ids, NEW from, NEW to,
           \/ from \in {"candidate", "active"} /\ to = "archived"
           \/ from = "archived" /\ to = "active",
           Present(i), records[i].status = from,
           Become([records EXCEPT ![i] = M!WithStatus(@, to)])
    PROVE  ChangesStore
  <1>1. records' = [records EXCEPT ![i] = M!WithStatus(records[i], to)]
    BY DEF Become, RecordsInv, RecordMaps
  <1>2. Moves(i, to) /\ to \in {"archived", "active"}
    BY <1>1 DEF Moves
  <1> QED
    BY <1>2 DEF ChangesStore

LEMMA StoreStep ==
    ASSUME RecordsInv, CallsInv, LinksInv, [Next]_vars
    PROVE  ChangesStore
  <1>0. CASE UNCHANGED vars
    BY <1>0 DEF vars, ChangesStore
  <1>1. ASSUME NEW w \in Workers, NEW q \in Requests, CallTool(w, q) \/ Invoke(w, q)
        PROVE  ChangesStore
    BY <1>1 DEF CallTool, Invoke, Send, ChangesStore
  <1>2. ASSUME NEW w \in Workers, \/ Cancel(w) \/ Refuse(w) \/ Fail(w) \/ Find(w)
                                  \/ Get(w) \/ ReadRecord(w) \/ ReadScope(w)
        PROVE  ChangesStore
    BY <1>2 DEF Cancel, Refuse, Fail, Find, Get, ReadRecord, ReadScope, Unchanged, Decline, ChangesStore
  <1>3. ASSUME NEW w \in Workers, Remember(w) \/ Propose(w) PROVE ChangesStore
    <2>1. pc[w] # "idle" /\ (ProposeOrDecline(w, {}) \/ Unchanged)
      BY <1>3 DEF Remember, Propose, Decline
    <2> QED
      BY <2>1, ProposalAdds DEF Unchanged, ChangesStore
  <1>4. ASSUME NEW w \in Workers, Update(w) PROVE ChangesStore
    <2>1. /\ pc[w] # "idle"
          /\ \/ /\ ProposeOrDecline(w, {call[w].id})
                /\ call[w].flaw = "source" \/ Present(call[w].id)
             \/ Unchanged
      BY <1>4 DEF Update, Decline, IsActive
    <2> QED
      BY <2>1, ProposalAdds DEF Unchanged, ChangesStore
  <1>5. ASSUME NEW w \in Workers, Supersede(w) PROVE ChangesStore
    <2> DEFINE q == call[w]
               r == M!WithStatus(Candidate(q.body, {q.id}), "active")
    <2>1. q.id \in Ids /\ q.body \in Bodies
      BY <1>5, RequestType DEF Supersede, CallsInv
    <2>2. CASE Parses(q) /\ q.flaw # "source" /\ IsActive(q.id)
      <3>1. PICK i \in Ids :
              /\ ~ Present(i)
              /\ Write([records EXCEPT ![q.id] = M!WithStatus(@, "superseded"), ![i] = r], i, q)
        BY <1>5, <2>2 DEF Supersede
      <3>2. r \in RecordType /\ r.status = "active"
        BY <2>1, CandidateType, StatusType
      <3>3. r.supersedes = {q.id}
        BY DEF Candidate, M!WithStatus
      <3>4. records' = [records EXCEPT ![q.id] = M!WithStatus(records[q.id], "superseded"), ![i] = r]
        BY <3>1 DEF Write, RecordsInv, RecordMaps
      <3> HIDE DEF r, q
      <3>5. Replaces(q.id, i, r)
        BY <2>1, <2>2, <3>1, <3>2, <3>3, <3>4 DEF Replaces, IsActive
      <3> QED
        BY <2>1, <3>2, <3>5 DEF ChangesStore
    <2>3. CASE ~ (Parses(q) /\ q.flaw # "source" /\ IsActive(q.id))
      BY <1>5, <2>3 DEF Supersede, Decline, Unchanged, ChangesStore
    <2> QED
      BY <2>2, <2>3
  <1>6. ASSUME NEW w \in Workers, Archive(w) PROVE ChangesStore
    <2>1. CASE IsActive(call[w].id)
      <3>1. call[w].id \in Ids
        BY <1>6, RequestType DEF Archive, CallsInv
      <3>2. /\ Become([records EXCEPT ![call[w].id] = M!WithStatus(@, "archived")])
            /\ Present(call[w].id) /\ records[call[w].id].status = "active"
        BY <1>6, <2>1 DEF Archive, IsActive
      <3> QED
        BY <3>1, <3>2, MoveMoves
    <2>2. CASE ~ IsActive(call[w].id)
      BY <1>6, <2>2 DEF Archive, Decline, Unchanged, ChangesStore
    <2> QED
      BY <2>1, <2>2
  <1>7. ASSUME NEW body \in Bodies, AddRecord(body) \/ ProposeRecord(body) \/ CreateRecord(body)
        PROVE  ChangesStore
    <2>1. PICK i \in Ids, r \in {Draft(body),
                                 [Draft(body) EXCEPT !.status = "candidate", !.access = "agent"],
                                 M!WithStatus(Candidate(body, {}), "candidate"),
                                 M!WithStatus(Candidate(body, {}), "active")} :
            ~ Present(i) /\ Become([records EXCEPT ![i] = r])
      BY <1>7 DEF AddRecord, ProposeRecord, CreateRecord
    <2>2. /\ r \in RecordType /\ r.status \in {"active", "candidate"} /\ r.supersedes = {}
      <3>1. \/ r = [status |-> "active", body |-> body, access |-> "human", supersedes |-> {}]
            \/ r = [status |-> "candidate", body |-> body, access |-> "agent", supersedes |-> {}]
            \/ r = [status |-> "active", body |-> body, access |-> "agent", supersedes |-> {}]
        BY <2>1 DEF Draft, Candidate, M!WithStatus
      <3> QED
        BY <3>1 DEF RecordType, AccessValues
    <2>3. Adds(i, r)
      BY <2>1, <2>2 DEF Adds, Linked, Become
    <2> QED
      BY <2>2, <2>3 DEF ChangesStore
  <1>8. ASSUME NEW i \in Ids, ApproveRecord(i) PROVE ChangesStore
    <2> DEFINE old == records[i].supersedes
               r == M!WithStatus(records[i], "active")
    <2>1. /\ Present(i) /\ records[i].status = "candidate"
          /\ ~ Repeated(records[i].body, old \cup {i})
          /\ \A o \in old : IsActive(o)
          /\ records' = [j \in Ids |-> CASE j = i -> r
                                         [] j \in old -> M!WithStatus(records[j], "superseded")
                                         [] OTHER -> records[j]]
      BY <1>8 DEF ApproveRecord, Become
    <2>2. records \in RecordMaps /\ records[i] \in RecordType /\ Linked(i, records[i])
      BY <2>1 DEF RecordsInv, RecordMaps, Present, LinksInv
    <2>3. r \in RecordType /\ r.status = "active" /\ r.supersedes = old
      BY <2>2, StatusType DEF M!WithStatus, RecordType
    <2>4. CASE old = {}
      <3>1. records' = [records EXCEPT ![i] = r]
        BY <2>1, <2>2, <2>4 DEF RecordMaps
      <3>2. Approves(i)
        BY <2>1, <2>4, <3>1 DEF Approves
      <3> QED
        BY <3>2 DEF ChangesStore
    <2>5. CASE old # {}
      <3>1. PICK o \in Ids : old = {o}
        BY <2>2, <2>5 DEF Linked
      <3>2. IsActive(o) /\ o # i
        BY <2>1, <2>2, <3>1 DEF Linked
      <3>3. records' = [records EXCEPT ![o] = M!WithStatus(records[o], "superseded"), ![i] = r]
        <4> DEFINE next == [records EXCEPT ![o] = M!WithStatus(records[o], "superseded"), ![i] = r]
                   retired == M!WithStatus(records[o], "superseded")
        <4> HIDE DEF r
        <4>1. ASSUME NEW j \in Ids PROVE records'[j] = next[j]
          <5>1. records'[j] = IF j = i THEN r ELSE IF j = o THEN M!WithStatus(records[j], "superseded") ELSE records[j]
            BY <2>1, <3>1, <3>2
          <5> QED
            BY <5>1, <2>2, <3>2 DEF RecordMaps
        <4> QED
          BY <4>1, <2>1, <2>2 DEF RecordMaps
      <3>4. records[i] = M!WithStatus(r, "candidate")
        BY <2>1, <2>2 DEF M!WithStatus, RecordType
      <3>5. ~ Repeated(r.body, {o, i})
        <4>1. r.body = records[i].body /\ old \cup {i} = {o, i}
          BY <2>2, <3>1, StatusType
        <4> QED
          BY <2>1, <4>1
      <3> HIDE DEF r
      <3>6. Replaces(o, i, r)
        BY <2>3, <3>1, <3>2, <3>3, <3>4, <3>5 DEF Replaces
      <3> QED
        BY <2>3, <3>6 DEF ChangesStore
    <2> QED
      BY <2>4, <2>5
  <1>9. ASSUME NEW i \in Ids, RejectRecord(i) \/ ArchiveRecord(i) \/ RestoreRecord(i)
        PROVE  ChangesStore
    BY <1>9, MoveMoves DEF RejectRecord, ArchiveRecord, RestoreRecord, Move
  <1>10. ASSUME NEW i \in Ids, NEW edit \in Edits, EditFile(i, edit) PROVE ChangesStore
    <2> DEFINE r == [records[i] EXCEPT !.body = edit[1], !.access = edit[2]]
    <2>1. /\ Present(i)
          /\ records' = [records EXCEPT ![i].body = edit[1], ![i].access = edit[2]]
      BY <1>10 DEF EditFile, Become
    <2>2. records[i] \in RecordType /\ records \in RecordMaps
      BY <2>1 DEF RecordsInv, RecordMaps, Present
    <2>3. r \in RecordType /\ r.supersedes = records[i].supersedes
      BY <2>2, InvocationAssumption DEF RecordType
    <2>4. records' = [records EXCEPT ![i] = r]
      BY <2>1, <2>2 DEF RecordMaps, RecordType
    <2> HIDE DEF r
    <2>5. Rewrites(i, r)
      BY <2>1, <2>3, <2>4 DEF Rewrites
    <2> QED
      BY <1>10, <2>3, <2>5 DEF ChangesStore
  <1>11. ASSUME NEW c \in Clients, (\E i \in Ids : GetRecord(c, i)) \/ MatchEtag(c) \/ PutFails(c)
         PROVE  ChangesStore
    BY <1>11 DEF GetRecord, MatchEtag, PutFails, ChangesStore
  <1>12. ASSUME NEW c \in Clients, ReplaceIfUnchanged(c) PROVE ChangesStore
    <2> DEFINE i == seen[c].id
    <2>1. /\ pc[c] = "matched" /\ IsActive(i) /\ records[i] = current[c]
      BY <1>12 DEF ReplaceIfUnchanged
    <2>2. PICK edit \in Edits : Become([records EXCEPT ![i] = IntoRecord(current[c], edit)])
      BY <1>12 DEF ReplaceIfUnchanged
    <2>3. i \in Ids
      BY <2>1 DEF CallsInv
    <2>4. current[c] \in RecordType
      BY <2>1, <2>3 DEF RecordsInv, RecordMaps, IsActive, Present
    <2> DEFINE r == IntoRecord(current[c], edit)
    <2>5. r \in RecordType /\ r.status = "active" /\ r.supersedes = current[c].supersedes
      BY <2>4, InvocationAssumption DEF IntoRecord, RecordType
    <2>6. records' = [records EXCEPT ![i] = r]
      BY <2>2 DEF Become
    <2> HIDE DEF r, i
    <2>7. Rewrites(i, r)
      BY <2>1, <2>5, <2>6 DEF Rewrites, IsActive
    <2> QED
      BY <2>1, <2>3, <2>5, <2>7 DEF ChangesStore
  <1>13. ASSUME NEW c \in Clients, SupersedeRecord(c) PROVE ChangesStore
    <2> DEFINE old == seen[c].id
    <2>1. seen[c] # NoRead /\ IsActive(old)
      BY <1>13 DEF SupersedeRecord
    <2>2. PICK i \in Ids, edit \in Edits :
            /\ ~ Present(i)
            /\ Become([records EXCEPT
                  ![old] = M!WithStatus(@, "superseded"),
                  ![i] = [seen[c].record EXCEPT !.status = "active", !.body = edit[1],
                                                !.access = edit[2], !.supersedes = {old}]])
      BY <1>13 DEF SupersedeRecord
    <2> DEFINE r == [seen[c].record EXCEPT !.status = "active", !.body = edit[1],
                                           !.access = edit[2], !.supersedes = {old}]
    <2>3. old \in Ids /\ seen[c].record \in RecordType
      BY <2>1 DEF CallsInv
    <2>4. r \in RecordType /\ r.status = "active" /\ r.supersedes = {old}
      BY <2>3, InvocationAssumption DEF RecordType
    <2>5. records' = [records EXCEPT ![old] = M!WithStatus(records[old], "superseded"), ![i] = r]
      BY <2>2, <2>3 DEF Become, RecordsInv, RecordMaps
    <2> HIDE DEF r, old
    <2>6. Replaces(old, i, r)
      BY <2>1, <2>2, <2>4, <2>5 DEF Replaces, IsActive
    <2> QED
      BY <2>3, <2>4, <2>6 DEF ChangesStore
  <1>14. CASE Stop \/ NextTurn
    BY <1>14 DEF Stop, NextTurn, ChangesStore
  <1> QED
    BY <1>0, <1>1, <1>2, <1>3, <1>4, <1>5, <1>6, <1>7, <1>8, <1>9, <1>10, <1>11, <1>12,
       <1>13, <1>14
       DEF Next, Work, People

(* Each of these keeps the links as they are. *)
LEMMA LinksStep ==
    ASSUME RecordsInv, LinksInv, ChangesStore
    PROVE  LinksInv'
  <1> USE DEF LinksInv, Present
  <1>1. records \in RecordMaps /\ NoRecord \notin RecordType
    BY InvocationAssumption DEF RecordsInv
  <1>2. CASE UNCHANGED records
    BY <1>2 DEF Linked
  <1>3. ASSUME NEW i \in Ids, NEW r \in RecordType, Linked(i, r),
               records' = [records EXCEPT ![i] = r]
        PROVE  LinksInv'
    BY <1>1, <1>3 DEF Linked, RecordMaps
  <1>4. ASSUME NEW i \in Ids, NEW to, Present(i),
               records' = [records EXCEPT ![i] = M!WithStatus(records[i], to)]
        PROVE  LinksInv'
    <2>1. M!WithStatus(records[i], to).supersedes = records[i].supersedes
      BY <1>1, <1>4 DEF M!WithStatus, RecordMaps, RecordType
    <2> QED
      BY <1>1, <1>4, <2>1 DEF Linked, RecordMaps
  <1>5. ASSUME NEW o \in Ids, NEW i \in Ids, NEW r \in RecordType, Replaces(o, i, r)
        PROVE  LinksInv'
    <2>1. M!WithStatus(records[o], "superseded").supersedes = records[o].supersedes
      BY <1>1, <1>5 DEF Replaces, IsActive, M!WithStatus, RecordMaps, RecordType
    <2>2. /\ o # i /\ r.supersedes = {o} /\ records[o] # NoRecord
          /\ records' = [records EXCEPT ![o] = M!WithStatus(records[o], "superseded"), ![i] = r]
      BY <1>5 DEF Replaces, IsActive
    <2> QED
      BY <1>1, <2>1, <2>2 DEF Linked, RecordMaps
  <1>6. ASSUME NEW i \in Ids, NEW r \in RecordType, Rewrites(i, r) PROVE LinksInv'
    <2>1. Linked(i, r) /\ records' = [records EXCEPT ![i] = r]
      BY <1>6 DEF Rewrites, Linked
    <2> QED
      BY <2>1, <1>3
  <1> QED
    BY <1>2, <1>3, <1>4, <1>5, <1>6 DEF ChangesStore, Adds, Moves, Approves

(* What the abstract store keeps of a record. *)
LEMMA StoredFacts ==
    ASSUME NEW i \in Ids, NEW r \in RecordType, Linked(i, r)
    PROVE  /\ Stored(i, r) \in M!Records
           /\ Stored(i, r) # NoRecord
           /\ Stored(i, r).id = i
           /\ Stored(i, r).status = r.status
           /\ Stored(i, r).title = NoRecord
           /\ Stored(i, r).body = r.body
           /\ Stored(i, r).supersedes = r.supersedes
           /\ \A s : M!WithStatus(Stored(i, r), s) = Stored(i, M!WithStatus(r, s))
  <1>1. Stored(i, r) \in M!Records
    BY DEF Stored, M!Records, M!Statuses, RecordType, Linked
  <1>2. Stored(i, r) # NoRecord
    BY <1>1, InvocationAssumption
  <1>3. \A s : M!WithStatus(Stored(i, r), s) = Stored(i, M!WithStatus(r, s))
    BY DEF M!WithStatus, Stored, RecordType
  <1> QED
    BY <1>1, <1>2, <1>3 DEF Stored

LEMMA MemoryAt ==
    ASSUME RecordsInv, LinksInv, NEW i \in Ids
    PROVE  /\ M!Present(i) <=> Present(i)
           /\ ~ Present(i) => Memory[i] = NoRecord
           /\ Present(i) => /\ Memory[i] = Stored(i, records[i])
                            /\ records[i] \in RecordType
                            /\ Linked(i, records[i])
  <1>1. Present(i) => records[i] \in RecordType /\ Linked(i, records[i])
    BY DEF RecordsInv, RecordMaps, Present, LinksInv
  <1>2. Memory[i] = IF Present(i) THEN Stored(i, records[i]) ELSE NoRecord
    BY DEF Memory
  <1> QED
    BY <1>1, <1>2, StoredFacts DEF M!Present

LEMMA MemoryBut ==
    ASSUME RecordsInv, NEW i \in Ids, NEW r \in RecordType,
           records' = [records EXCEPT ![i] = r]
    PROVE  Memory' = [Memory EXCEPT ![i] = Stored(i, r)]
  <1>1. \A j \in Ids : records'[j] = IF j = i THEN r ELSE records[j]
    BY DEF RecordsInv, RecordMaps
  <1>2. r # NoRecord
    BY InvocationAssumption
  <1>3. \A j \in Ids : Memory'[j] = IF j = i THEN Stored(i, r) ELSE Memory[j]
    BY <1>1, <1>2 DEF Memory, Present, Stored
  <1>4. Memory' = [j \in Ids |-> Memory'[j]] /\ Memory = [j \in Ids |-> Memory[j]]
    BY DEF Memory
  <1> QED
    BY <1>3, <1>4

(* matching_record_excluding_ids is the abstract store's look for          *)
(* duplicates.                                                             *)
LEMMA UnrepeatedIsUnduplicated ==
    ASSUME RecordsInv, LinksInv, NEW i \in Ids, NEW r \in RecordType, Linked(i, r),
           ~ Repeated(r.body, r.supersedes \cup {i})
    PROVE  M!Unduplicated(Stored(i, r))
  <1> SUFFICES ASSUME NEW j \in Ids \ (r.supersedes \cup {i}), M!Present(j)
               PROVE  ~ M!Duplicates(Memory[j], Stored(i, r))
    BY StoredFacts DEF M!Unduplicated
  <1>1. Present(j) /\ Memory[j] = Stored(j, records[j])
        /\ records[j] \in RecordType /\ Linked(j, records[j])
    BY MemoryAt
  <1>2. ~ (M!Open(records[j]) /\ records[j].body = r.body)
    BY <1>1 DEF Repeated
  <1> QED
    BY <1>1, <1>2, StoredFacts DEF M!Duplicates, M!Open

LEMMA StepIsLifecycleStep ==
    ASSUME RecordsInv, LinksInv, ChangesStore
    PROVE  M!Next \/ UNCHANGED Memory \/ \E i \in Ids, edit \in Edits : EditFile(i, edit)
  <1>1. CASE UNCHANGED records
    BY <1>1 DEF Memory, Present, Stored
  <1>2. ASSUME NEW i \in Ids, NEW r \in RecordType, Adds(i, r) PROVE M!Next
    <2>1. /\ Stored(i, r) \in M!Records /\ Stored(i, r).id = i
          /\ Stored(i, r).status \in {"active", "candidate"}
      BY <1>2, StoredFacts DEF Adds
    <2>2. ~ M!Present(i)
      BY <1>2, MemoryAt DEF Adds
    <2>3. Memory' = [Memory EXCEPT ![i] = Stored(i, r)]
      BY <1>2, MemoryBut DEF Adds
    <2> QED
      BY <2>1, <2>2, <2>3 DEF M!Next, M!Insert
  <1>3. ASSUME NEW i \in Ids, NEW to \in {"archived", "active"}, Present(i),
               records' = [records EXCEPT ![i] = M!WithStatus(records[i], to)]
        PROVE  /\ M!Present(i) /\ Memory[i] = Stored(i, records[i])
               /\ Memory[i].status = records[i].status
               /\ records[i] \in RecordType /\ Linked(i, records[i])
               /\ Memory' = [Memory EXCEPT ![i] = M!WithStatus(@, to)]
    <2>1. /\ M!Present(i) /\ Memory[i] = Stored(i, records[i])
          /\ records[i] \in RecordType /\ Linked(i, records[i])
      BY <1>3, MemoryAt
    <2>2. M!WithStatus(records[i], to) \in RecordType
      BY <2>1, StatusType
    <2>3. Memory' = [Memory EXCEPT ![i] = Stored(i, M!WithStatus(records[i], to))]
      BY <1>3, <2>2, MemoryBut
    <2>4. Memory' = [Memory EXCEPT ![i] = M!WithStatus(Memory[i], to)]
      <3>1. M!WithStatus(Memory[i], to) = Stored(i, M!WithStatus(records[i], to))
        BY <2>1, StoredFacts
      <3> QED
        BY <2>3, <3>1
    <2>5. Memory[i].status = records[i].status
      BY <2>1, StoredFacts
    <2> QED
      BY <2>1, <2>4, <2>5
  <1>4. ASSUME NEW i \in Ids, NEW to \in {"archived", "active"}, Moves(i, to) PROVE M!Next
    <2>1. /\ M!Present(i) /\ Memory[i].status = records[i].status
          /\ Memory' = [Memory EXCEPT ![i] = M!WithStatus(@, to)]
      BY <1>3, <1>4 DEF Moves
    <2>2. M!Archive(i) \/ M!Restore(i)
      BY <1>4, <2>1 DEF Moves, M!Archive, M!Restore
    <2> QED
      BY <2>2 DEF M!Next
  <1>5. ASSUME NEW i \in Ids, Approves(i) PROVE M!Next
    <2>1. /\ M!Present(i) /\ Memory[i] = Stored(i, records[i])
          /\ Memory[i].status = records[i].status
          /\ records[i] \in RecordType /\ Linked(i, records[i])
          /\ Memory' = [Memory EXCEPT ![i] = M!WithStatus(@, "active")]
      BY <1>3, <1>5 DEF Approves
    <2>2. ~ Repeated(records[i].body, records[i].supersedes \cup {i})
      <3>1. records[i].supersedes \cup {i} = {i}
        BY <1>5 DEF Approves
      <3> QED
        BY <1>5, <3>1 DEF Approves
    <2>3. M!Unduplicated(Memory[i])
      BY <2>1, <2>2, UnrepeatedIsUnduplicated
    <2>4. Memory[i].supersedes = {}
      BY <1>5, <2>1, StoredFacts DEF Approves
    <2>5. M!Approve(i)
      BY <1>5, <2>1, <2>3, <2>4 DEF M!Approve, Approves
    <2> QED
      BY <2>5 DEF M!Next
  <1>6. ASSUME NEW o \in Ids, NEW i \in Ids, NEW r \in RecordType, Replaces(o, i, r)
        PROVE  M!Next
    <2> DEFINE old == records[o]
               retired == M!WithStatus(records[o], "superseded")
               new == Stored(i, r)
    <2>1. /\ Present(o) /\ old.status = "active" /\ o # i
          /\ r.status = "active" /\ r.supersedes = {o}
          /\ records' = [records EXCEPT ![o] = retired, ![i] = r]
      BY <1>6 DEF Replaces, IsActive
    <2>2. /\ M!Present(o) /\ Memory[o] = Stored(o, old)
          /\ old \in RecordType /\ Linked(o, old)
      BY <2>1, MemoryAt
    <2>3. retired \in RecordType /\ Stored(o, retired) = M!WithStatus(Memory[o], "superseded")
      BY <2>2, StatusType, StoredFacts
    <2>4. Linked(i, r)
      BY <2>1 DEF Linked
    <2>5. /\ new \in M!Records /\ new.id = i /\ new.status = "active" /\ new.supersedes = {o}
          /\ new.body = r.body /\ M!WithStatus(new, "candidate") = Stored(i, M!WithStatus(r, "candidate"))
      BY <2>1, <2>4, StoredFacts
    <2>6. Memory' = [Memory EXCEPT ![o] = Stored(o, retired), ![i] = new]
      <3> HIDE DEF retired
      <3>1. \A j \in Ids : records'[j] = IF j = i THEN r ELSE IF j = o THEN retired ELSE records[j]
        BY <2>1 DEF RecordsInv, RecordMaps
      <3>2. r # NoRecord /\ retired # NoRecord
        BY <2>3, InvocationAssumption
      <3>3. \A j \in Ids : Memory'[j] = IF j = i THEN new
                                        ELSE IF j = o THEN Stored(o, retired) ELSE Memory[j]
        BY <3>1, <3>2 DEF Memory, Present, Stored
      <3>4. Memory' = [j \in Ids |-> Memory'[j]] /\ Memory = [j \in Ids |-> Memory[j]]
        BY DEF Memory
      <3> HIDE DEF new
      <3> QED
        BY <2>1, <3>3, <3>4
    <2>7. Memory' = [Memory EXCEPT ![o] = M!WithStatus(@, "superseded"), ![i] = new]
      BY <2>3, <2>6 DEF Memory
    <2>8. Memory[o].status = "active"
      BY <2>1, <2>2, StoredFacts
    <2>9. \/ ~ M!Present(i)
          \/ Memory[i] = M!WithStatus(new, "candidate") /\ M!Unduplicated(new)
      <3>1. CASE ~ Present(i)
        BY <3>1, MemoryAt
      <3>2. CASE Present(i)
        <4>1. records[i] = M!WithStatus(r, "candidate") /\ ~ Repeated(r.body, {o, i})
          BY <1>6, <3>2 DEF Replaces
        <4>2. ~ Repeated(r.body, r.supersedes \cup {i})
          <5>1. r.supersedes \cup {i} = {o, i}
            BY <2>1
          <5> QED
            BY <4>1, <5>1
        <4>3. M!Unduplicated(new)
          BY <2>4, <4>2, UnrepeatedIsUnduplicated
        <4>4. Memory[i] = Stored(i, records[i])
          BY <3>2, MemoryAt
        <4> QED
          BY <2>5, <4>1, <4>3, <4>4
      <3> QED
        BY <3>1, <3>2
    <2> HIDE DEF new, retired, old
    <2>10. M!Supersede(o)
      BY <2>2, <2>5, <2>7, <2>8, <2>9 DEF M!Supersede
    <2> QED
      BY <2>10 DEF M!Next
  <1>7. ASSUME NEW i \in Ids, NEW r \in RecordType, Rewrites(i, r), IsActive(i),
               r.status = "active"
        PROVE  M!Next
    <2>1. /\ M!Present(i) /\ Memory[i] = Stored(i, records[i])
          /\ records[i] \in RecordType /\ Linked(i, records[i])
      BY <1>7, MemoryAt DEF IsActive
    <2>2. Linked(i, r)
      BY <1>7, <2>1 DEF Rewrites, Linked
    <2>3. /\ Stored(i, r) \in M!Records /\ Stored(i, r).id = i /\ Stored(i, r).status = "active"
          /\ Memory[i].status = "active"
      BY <1>7, <2>1, <2>2, StoredFacts DEF IsActive
    <2>4. Memory' = [Memory EXCEPT ![i] = Stored(i, r)]
      BY <1>7, MemoryBut DEF Rewrites
    <2> QED
      BY <2>1, <2>3, <2>4 DEF M!Next, M!Edit
  <1> QED
    BY <1>1, <1>2, <1>4, <1>5, <1>6, <1>7 DEF ChangesStore

(* Calls of an agent, people's requests and commands, and a PUT change the *)
(* store by one lifecycle step each, the steps that Repository implements  *)
(* with locks, journals and files (invoke.rs, server.rs, repository.rs).   *)
THEOREM OperationsAreLifecycleSteps == Spec => CallsAreLifecycleSteps
  <1>1. Init => LinksInv
    <2> SUFFICES ASSUME Init, NEW i \in Ids, Present(i) PROVE Linked(i, records[i])
      BY DEF LinksInv
    <2>1. records[i].supersedes = {}
      BY DEF Init, Present
    <2> QED
      BY <2>1 DEF Linked
  <1>2. IInv /\ LinksInv /\ [Next]_vars => ChangesStore
    BY StoreStep DEF IInv
  <1>3. IInv /\ LinksInv /\ [Next]_vars => LinksInv'
    BY <1>2, LinksStep DEF IInv
  <1>4. IInv /\ LinksInv /\ [Next]_vars =>
            [M!Next \/ \E i \in Ids, edit \in Edits : EditFile(i, edit)]_Memory
    BY <1>2, StepIsLifecycleStep DEF IInv
  <1> QED
    BY <1>1, <1>3, <1>4, Invariance, PTL DEF Spec, CallsAreLifecycleSteps

=============================================================================
