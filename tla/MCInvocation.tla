---------------------------- MODULE MCInvocation ----------------------------
(* Instances of Invocation for TLC: the agent remembers one text, and      *)
(* updates, supersedes, archives and reads one record.                     *)
(* In the scenario "retries" it has two calls open at a time and two       *)
(* turns.  In the others it has one call open, its turn does not end, and  *)
(* no mark of it is kept: in "people" records are edited and PUT as well,  *)
(* in "checks" the agent asks for everything, rightly or not.              *)
EXTENDS Invocation, TLC

CONSTANTS i1, i2, b1, b2

VARIABLE scenario

Ask(via, op, body, flaw) == [via |-> via, op |-> op, id |-> i1, body |-> body, flaw |-> flaw]

Repeatable ==
    {Ask("mcp", "remember", b1, "none"), Ask("mcp", "update", b2, "none"),
     Ask("cli", "supersede", b2, "none"), Ask("cli", "archive", b1, "none")}

MCRequests ==
    Repeatable
    \cup {Ask("mcp", "remember", b1, flaw) : flaw \in {"source", "secret"}}
    \cup {Ask("cli", "propose", b1, flaw) : flaw \in {"secret", "actor"}}
    \cup {Ask("mcp", "update", b2, flaw) : flaw \in {"request", "scope", "fields"}}
    \cup {Ask("mcp", "archive", b1, "none"), Ask("cli", "supersede", b2, "fields")}
    \cup {Ask("mcp", op, b1, "none") : op \in Reads}

MCEdits == {<<b1, "human">>, <<b2, "agent">>}

MCInit ==
    /\ Init
    /\ records[i2] = NoRecord
    /\ \/ scenario = "retries" /\ turn = 1 /\ edits = MaxEdits
       \/ scenario = "people" /\ turn = MaxTurns /\ edits = 0
       \/ scenario = "checks" /\ turn = MaxTurns /\ edits = MaxEdits

MCNext ==
    /\ Next
    /\ UNCHANGED scenario
    /\ scenario # "checks" => \A w \in Workers : call'[w] \in Repeatable \cup {NoRequest}
    /\ scenario # "retries" => /\ Cardinality({w \in Workers : call'[w] # NoRequest}) <= 1
                               /\ phase' = phase /\ marks' = marks

MCSpec == MCInit /\ [][MCNext]_<<vars, scenario>>

WorkerSymmetry == Permutations(Workers)

=============================================================================
