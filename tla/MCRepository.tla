---------------------------- MODULE MCRepository ----------------------------
(* Instances of Repository for TLC: a few interchangeable processes, ids   *)
(* and bodies.                                                             *)
EXTENDS Repository, TLC

SafetySymmetry == Permutations(Ids) \cup Permutations(Bodies)
                  \cup Permutations(Procs \ Editors)

=============================================================================
