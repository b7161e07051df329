-------------------------- MODULE MCStoreLifecycle --------------------------
EXTENDS StoreLifecycle, TLC

CONSTANT MaxRecords     \* bound: records in the store at a time

MCSpec == Init /\ [][Next /\ Cardinality(records') <= MaxRecords]_vars

\* No process and no project id is treated differently from another.
Symmetry == Permutations(Processes) \cup Permutations(Ids)
=============================================================================
