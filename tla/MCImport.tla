------------------------------ MODULE MCImport ------------------------------
(* Instances of Import for TLC: stores of at most MaxFiles records without *)
(* links, under any names, some of them nested, and archives of two records.                 *)
EXTENDS Import, FiniteSetsExt

CONSTANTS i1, i2, t1, t2, MaxFiles, StoreIds

Archived(id, scope, text, status, links) ==
    [id |-> id, scope |-> scope, text |-> text, status |-> status, supersedes |-> links]

(* A replacement before and after the record it replaces, here and from    *)
(* elsewhere; two records that say the same; two that do not.              *)
MCArchives ==
    {<<Archived(i1, s, t1, "superseded", {}), Archived(i2, s, t2, "active", {i1})>> : s \in {Here, Elsewhere}}
    \cup {<<Archived(i2, Here, t2, "active", {i1}), Archived(i1, Here, t1, "superseded", {})>>}
    \cup {<<Archived(i1, Here, t1, "active", {}), Archived(i2, Here, t, "active", {})>> : t \in Texts}

SmallRecords ==
    {Archived(i, Here, t, s, {}) : i \in StoreIds, t \in Texts, s \in {"active", "superseded"}}

(* Two files may lie in a directory of their own. *)
SmallPaths == {q \in Paths : q[1] = Home \/ q[2] \in {i1, i2}}

SmallStores ==
    {[q \in Paths |-> IF q \in DOMAIN f THEN f[q] ELSE NoFile] :
        f \in UNION {[Q -> SmallRecords] : Q \in UNION {kSubset(n, SmallPaths) : n \in 0 .. MaxFiles}}}

MCInit == files \in SmallStores /\ Init

MCSpec == MCInit /\ [][Next]_vars

=============================================================================
