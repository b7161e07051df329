---------------------------- MODULE MCProjection ----------------------------
(* An instance of Projection for TLC.  Paths are numbers, because their    *)
(* order decides which of two files with one id counts.  In the scenario   *)
(* "files" two processes sync and rebuild the index of two files, in       *)
(* "vectors" one process embeds the records of one file whose id and text  *)
(* change.                                                                 *)
EXTENDS Projection

CONSTANTS p1, i1, i2, t1, t2

VARIABLE scenario

Record(i, t) == [id |-> i, text |-> t]

(* What the files may hold, and who does what. *)
InScenario(layout, jobs) ==
    \/ /\ scenario = "files"
       /\ \A q \in Paths : layout[q] \in {Record(i1, t1), Record(i2, t1), NoFile, Invalid}
       /\ \A p \in Procs : jobs[p] = NoJob \/ jobs[p].op \in {"sync", "reindex"}
    \/ /\ scenario = "vectors"
       /\ layout[1] \in {Record(i1, t1), Record(i1, t2), Record(i2, t1)}
       /\ layout[2] = NoFile
       /\ \A p \in Procs \ {p1} : jobs[p] = NoJob

MCInit == Init /\ scenario \in {"files", "vectors"} /\ InScenario(files, job)

MCNext == CheckpointedNext /\ UNCHANGED scenario /\ InScenario(files', job')

(* No scenario keeps an operation that has begun from going on. *)
MCSpec == /\ MCInit /\ [][MCNext]_<<vars, scenario>>
          /\ \A p \in Procs : WF_vars(Continue(p))

=============================================================================
