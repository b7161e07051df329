---------------------------- MODULE MemoryStore ----------------------------
(***************************************************************************)
(* What a store promises about its records, whatever files, locks and      *)
(* journals it uses: a map from record ids to records, changed by atomic   *)
(* lifecycle steps.  A supersession retires the old record and activates   *)
(* its replacement in one step.                                            *)
(***************************************************************************)

CONSTANTS
    Ids,        \* record ids (UUIDs)
    Titles,     \* kind and normalized title of a record, taken together
    Bodies,     \* normalized bodies
    Absent      \* the value of an id that names no record

(* The lifecycle states of a record. *)
Statuses == {"candidate", "active", "superseded", "archived"}

(* The part of a record its lifecycle depends on: validation refuses a     *)
(* record that supersedes itself.                                          *)
Records ==
    {r \in [id : Ids, status : Statuses, title : Titles, body : Bodies,
            supersedes : SUBSET Ids] : r.id \notin r.supersedes}

(* The record r with status s; everything else is kept. *)
WithStatus(r, s) == [r EXCEPT !.status = s]

(* Lifecycle changes the record type allows, apart from staying put. *)
CanTransition(from, to) ==
    \/ from = "candidate" /\ to \in {"active", "archived"}
    \/ from = "active"    /\ to \in {"superseded", "archived"}
    \/ from = "archived"  /\ to = "active"

(* An open record makes another one with the same title redundant.         *)
Open(r) == r.status \in {"candidate", "active"}

(* s is an open record that says exactly what r says. *)
Duplicates(s, r) == Open(s) /\ s.title = r.title /\ s.body = r.body

(* s is an open record on the topic of r with a different body. *)
Overlaps(s, r) == Open(s) /\ s.title = r.title /\ s.body # r.body

VARIABLE memory

TypeOK == memory \in [Ids -> Records \cup {Absent}]

Init == memory = [i \in Ids |-> Absent]

Present(i) == memory[i] # Absent

(* No open record other than those r replaces says what r says. *)
Unduplicated(r) ==
    \A i \in Ids \ (r.supersedes \cup {r.id}) :
        Present(i) => ~ Duplicates(memory[i], r)

(* add and propose: a new record enters as active or as a candidate. *)
Insert ==
    \E r \in Records :
        /\ ~ Present(r.id)
        /\ r.status \in {"active", "candidate"}
        /\ memory' = [memory EXCEPT ![r.id] = r]

(* replace_if_unchanged: an active record is rewritten and stays active. *)
Edit ==
    \E r \in Records :
        /\ Present(r.id)
        /\ memory[r.id].status = "active"
        /\ r.status = "active"
        /\ memory' = [memory EXCEPT ![r.id] = r]

(* approve: a candidate that repeats no other open record becomes active. *)
Approve(i) ==
    /\ Present(i)
    /\ memory[i].status = "candidate"
    /\ \A o \in Ids : memory[i].supersedes # {o}
    /\ Unduplicated(memory[i])
    /\ memory' = [memory EXCEPT ![i] = WithStatus(@, "active")]

(* reject and archive. *)
Archive(i) ==
    /\ Present(i)
    /\ memory[i].status \in {"candidate", "active"}
    /\ memory' = [memory EXCEPT ![i] = WithStatus(@, "archived")]

(* restore. *)
Restore(i) ==
    /\ Present(i)
    /\ memory[i].status = "archived"
    /\ memory' = [memory EXCEPT ![i] = WithStatus(@, "active")]

(* supersede, and approve of a candidate that replaces one record: the old *)
(* record is retired and r becomes active in the same step.                *)
Supersede(o) ==
    \E r \in Records :
        /\ Present(o)
        /\ memory[o].status = "active"
        /\ r.status = "active"
        /\ o \in r.supersedes
        /\ \/ ~ Present(r.id)
           \/ /\ memory[r.id] = WithStatus(r, "candidate")
              /\ Unduplicated(r)
        /\ memory' = [memory EXCEPT ![o] = WithStatus(@, "superseded"),
                                    ![r.id] = r]

(* forget. *)
Forget(i) ==
    /\ Present(i)
    /\ memory' = [memory EXCEPT ![i] = Absent]

Next ==
    \/ Insert
    \/ Edit
    \/ \E i \in Ids : \/ Approve(i) \/ Archive(i) \/ Restore(i)
                      \/ Supersede(i) \/ Forget(i)

Spec == Init /\ [][Next]_memory

=============================================================================
