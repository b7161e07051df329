--------------------------- MODULE RetrievalProofs ---------------------------
(***************************************************************************)
(* What Retrieval's queries do, for every set of records, rows, queries    *)
(* and matches.                                                            *)
(***************************************************************************)
EXTENDS Retrieval, ChunkingProofs

-----------------------------------------------------------------------------
(* The inductive invariant.                                                *)

Tables == {t \in [Records -> Rows \cup {NoRow}] : \A r \in Records : t[r] \in RowsOf(r) \cup {NoRow}}

Phases == {"idle", "sync", "rebuild", "lexical", "fresh", "rows", "vector", "join", "rank",
           "done", "failed"}

RunningQueries == Queries \cup {[q EXCEPT !.mode = "lexical"] : q \in Queries}

HitsOf(reasons) ==
    {h \in [chunk : Records \X Nat, row : Rows, reason : reasons, score : Nat] :
       h.row \in RowsOf(h.chunk[1]) /\ h.chunk \in ChunksOf(h.chunk[1], h.row)}
LexicalHits == HitsOf(Reasons)
SemanticHits == HitsOf({"vector"})
AllHits == HitsOf(Reasons \cup {"vector"})
FoundChunks == [chunk : Records \X Nat, distance : Nat]

TypeInv ==
    /\ draft \in Seq(Lines) /\ Len(draft) <= MaxLines
    /\ files \in Tables /\ rows \in Tables
    /\ vectors \in [StoreNames -> Tables \cup {NoVectors}]
    /\ changes \in 0..MaxChanges
    /\ pc \in Phases /\ at \in {1, 2}
    /\ lexical \in SUBSET LexicalHits /\ IsFiniteSet(lexical)
    /\ semantic \in SUBSET SemanticHits /\ IsFiniteSet(semantic)
    /\ found \in Seq(FoundChunks) /\ joined \in 0..Len(found)
    /\ result \in Seq(AllHits)
    /\ fallback \in {Unset, "unavailable", "busy", "failed"}

(* A query is one of those asked, and agents and persons do not ask for    *)
(* the semantic part alone.  Its stores are prepared before anything is    *)
(* found, and an agent's reason for a missing part is there as long as the *)
(* part is missing.                                                        *)
QueryInv ==
    /\ pc = "idle" => /\ query = NoQuery /\ match = NoQuery /\ at = 1
                      /\ lexical = {} /\ semantic = {} /\ found = <<>> /\ joined = 0 /\ result = <<>>
                      /\ fallback = Unset /\ seen = {}
    /\ pc # "idle" => /\ query \in RunningQueries /\ match \in Matches
                      /\ query.by # "library" => query.mode # "semantic"
    /\ pc \in {"sync", "rebuild"} =>
         /\ query \in Queries /\ query.by # "library" /\ lexical = {} /\ semantic = {}
         /\ query.by = "agent" /\ fallback = Unset => query.mode = "hybrid"
         /\ query.by = "agent" /\ query.mode = "lexical" => fallback # Unset
         /\ query.by = "agent" /\ pc = "rebuild" => fallback = Unset
    /\ pc \in {"lexical", "fresh", "rows", "vector", "join", "rank", "done"} /\ query.by = "agent" =>
         (query.mode = "lexical" <=> fallback # Unset)
    /\ pc \in {"rows", "vector", "join"} => trusted \in Tables
    /\ pc \in {"fresh", "rows", "vector", "join"} => query.mode # "lexical"
    /\ pc \in {"lexical", "fresh", "rows", "vector", "join", "rank"} /\ query.mode = "lexical" => semantic = {}
    /\ pc \in {"lexical", "fresh", "rows", "vector", "join", "rank"} /\ query.mode = "semantic" => lexical = {} /\ pc # "lexical"

(* The stores whose rows the query may read. *)
Prepared(phase, place, by) ==
    CASE phase = "sync" -> IF place = 1 THEN {} ELSE {"project"}
      [] phase = "rebuild" /\ by # "person" /\ place = 1 -> {"project"}
      [] OTHER -> StoreNames

SeenInv ==
    /\ pc \notin {"idle", "failed"} =>
         /\ query.by # "library" => \A r \in Records : <<r, files[r]>> \in seen
         /\ \A r \in Records : StoreOf[r] \in Prepared(pc, at, query.by) => <<r, rows[r]>> \in seen
    /\ \A h \in lexical \cup semantic :
         <<h.chunk[1], h.row>> \in seen /\ \E s \in StoreNames : Allowed(query, s, h.chunk[1], h.row)

(* No chunk is found twice: what was found before is of the first store, or*)
(* it is a chunk that the search of this store found and that is joined.   *)
Unrepeated(S) == \A a, b \in S : a.chunk = b.chunk => a = b
Earlier(h) == at = 2 /\ ScopeOf(h) = "project"

DistinctInv ==
    /\ Unrepeated(lexical) /\ Unrepeated(semantic)
    /\ pc = "lexical" => \A h \in lexical : Earlier(h)
    /\ pc \in {"fresh", "rows", "vector", "join"} /\ at = 1 => \A h \in lexical : ScopeOf(h) = "project"
    /\ pc \in {"lexical", "fresh", "rows", "vector"} => \A h \in semantic : Earlier(h)
    /\ pc = "join" =>
         /\ \A i \in 1..Len(found) : StoreOf[found[i].chunk[1]] = Stores[at]
         /\ \A i, j \in 1..Len(found) : found[i].chunk = found[j].chunk => i = j
         /\ \A h \in semantic : Earlier(h) \/ \E i \in 1..joined : h.chunk = found[i].chunk

(* What a match is worth, and how many there are.                          *)
ScoreInv ==
    /\ \A h \in lexical : IF h.reason \in Naming THEN h.score >= 120 ELSE h.score <= 90
    /\ pc = "lexical" \/ (pc \in {"fresh", "rows", "vector", "join"} /\ at = 1) => Cardinality(lexical) <= MaxLimit
    /\ Cardinality(lexical) <= 2 * MaxLimit

(* What became of the vector search of each store: of none in a lexical    *)
(* query, and of every store that a query has left.                        *)
PartInv ==
    /\ semanticOf \in [StoreNames -> {"unread", "searched", "absent"}]
    /\ pc \in {"idle", "sync", "rebuild"} => semanticOf = Unread
    /\ pc \in {"lexical", "rank", "done"} /\ query.mode = "lexical" => semanticOf = Unread
    /\ pc \in {"lexical", "fresh", "rows", "vector", "join"} /\ query.mode # "lexical" /\ at = 2 =>
         semanticOf["project"] # "unread"
    /\ pc = "join" => semanticOf[Stores[at]] # "unread"
    /\ pc \in {"rank", "done"} /\ query.mode # "lexical" => \A s \in StoreNames : semanticOf[s] # "unread"

IInv == TypeInv /\ QueryInv /\ SeenInv /\ DistinctInv /\ ScoreInv /\ PartInv
-----------------------------------------------------------------------------
(* Rows, chunks and pieces.                                                *)

LEMMA RowType ==
    ASSUME NEW r \in Records, NEW row \in RowsOf(r)
    PROVE  row \in Rows /\ row # NoRow /\ row.body \in Seq(Lines) /\ row.status \in Statuses /\ row.access \in AccessValues
  <1>1. row \in Rows /\ row # NoRow
    <2>1. row # NoRow /\ (row \in ChangedRows \/ \E t \in InitialRows : row = t[r])
      BY DEF RowsOf
    <2>2. CASE row \in ChangedRows
      BY <2>1, <2>2, RetrievalAssumption
    <2>3. CASE \E t \in InitialRows : row = t[r]
      <3>1. PICK t \in InitialRows : row = t[r]
        BY <2>3
      <3>2. t \in [Records -> Rows \cup {NoRow}]
        BY RetrievalAssumption
      <3>3. t[r] \in Rows \cup {NoRow}
        BY <3>2
      <3> QED
        BY <2>1, <3>1, <3>3
    <2> QED
      BY <2>1, <2>2, <2>3
  <1>2. \A x \in Rows : x.body \in Seq(Lines) /\ x.status \in Statuses /\ x.access \in AccessValues
    BY DEF Rows
  <1> QED
    BY <1>1, <1>2

LEMMA ChunksOfType ==
    ASSUME NEW r \in Records, NEW row \in RowsOf(r)
    PROVE  /\ ChunksOf(r, row) \subseteq Records \X (Nat \ {0}) /\ IsFiniteSet(ChunksOf(r, row))
           /\ \A c \in ChunksOf(r, row) : c[1] = r /\ c[2] \in 1..Len(Chunks(row.body)) /\ c = <<c[1], c[2]>>
  <1> DEFINE n == Len(Chunks(row.body))
             f == [k \in 1..n |-> <<r, k>>]
  <1>1. n \in Nat
    BY RowType, ChunksType
  <1> HIDE DEF n
  <1>2. \A c \in ChunksOf(r, row) : \E k \in 1..n : c = f[k] /\ c = <<r, k>>
    BY DEF ChunksOf, n
  <1>3. IsFiniteSet(1..n)
    BY <1>1, FS_Interval
  <1>4. IsFiniteSet(ChunksOf(r, row))
    <2> DEFINE N == 1..n
    <2>1. IsFiniteSet(N) /\ \A c \in ChunksOf(r, row) : \E k \in N : c = f[k]
      BY <1>2, <1>3
    <2> HIDE DEF f, N
    <2> QED
      BY <2>1, FiniteImage
  <1> QED
    BY <1>1, <1>2, <1>4 DEF n

LEMMA PieceCountType ==
    ASSUME NEW r \in Records, NEW row \in RowsOf(r), NEW n \in 1..Len(Chunks(row.body))
    PROVE  PieceCount(row, n) \in Nat \ {0}
  <1>1. row.body \in Seq(Lines)
    BY RowType
  <1> QED
    BY <1>1, ChunkDivides DEF PieceCount

LEMMA PiecesOfType ==
    ASSUME NEW r \in Records, NEW row \in RowsOf(r)
    PROVE  /\ IsFiniteSet(PiecesOf(r, row)) /\ PiecesOf(r, row) \subseteq Records \X Nat \X Nat
           /\ \A d \in PiecesOf(r, row) : d[1] = r /\ <<d[1], d[2]>> \in ChunksOf(r, row)
           /\ \A c \in ChunksOf(r, row) : \E d \in PiecesOf(r, row) : <<d[1], d[2]>> = c
  <1> DEFINE n == Len(Chunks(row.body))
             T == Records \X Nat \X Nat
             f == [i \in 1..n |-> {<<r, i, k>> : k \in 1..PieceCount(row, i)}]
  <1>1. n \in Nat /\ \A i \in 1..n : PieceCount(row, i) \in Nat \ {0} /\ i \in Nat
    BY RowType, ChunksType, PieceCountType
  <1>2. \A d \in PiecesOf(r, row) : \E i \in 1..n : d \in f[i]
    BY DEF PiecesOf
  <1>3. ASSUME NEW i \in 1..n PROVE IsFiniteSet(f[i])
    <2> DEFINE g == [k \in 1..PieceCount(row, i) |-> <<r, i, k>>]
    <2> DEFINE N == 1..PieceCount(row, i)
    <2>1. \A d \in f[i] : \E k \in N : d = g[k]
      OBVIOUS
    <2>2. IsFiniteSet(N)
      BY <1>1, FS_Interval
    <2> HIDE DEF f, g, N
    <2> QED
      BY <2>1, <2>2, FiniteImage
  <1>4. IsFiniteSet(1..n)
    BY <1>1, FS_Interval
  <1>5. IsFiniteSet(PiecesOf(r, row))
    <2> HIDE DEF f, n
    <2> QED
      BY <1>2, <1>3, <1>4, FiniteUnion
  <1>6. ASSUME NEW d \in PiecesOf(r, row)
        PROVE  d \in T /\ d[1] = r /\ <<d[1], d[2]>> \in ChunksOf(r, row)
    <2>1. PICK i \in 1..n : \E k \in 1..PieceCount(row, i) : d = <<r, i, k>>
      BY DEF PiecesOf
    <2>2. PICK k \in 1..PieceCount(row, i) : d = <<r, i, k>>
      BY <2>1
    <2>3. d \in T
      BY <1>1, <2>2
    <2> QED
      BY <2>2, <2>3 DEF ChunksOf
  <1>7. ASSUME NEW c \in ChunksOf(r, row) PROVE \E d \in PiecesOf(r, row) : <<d[1], d[2]>> = c
    <2>1. PICK i \in 1..n : c = <<r, i>>
      BY DEF ChunksOf
    <2>2. 1 \in 1..PieceCount(row, i)
      BY <1>1
    <2>3. <<r, i, 1>> \in PiecesOf(r, row)
      BY <2>2 DEF PiecesOf
    <2> QED
      BY <2>1, <2>3
  <1> QED
    BY <1>5, <1>6, <1>7

LEMMA PresentType ==
    ASSUME NEW table \in Tables, NEW s
    PROVE  /\ IsFiniteSet(Present(table, s)) /\ Present(table, s) \subseteq Records
           /\ \A r \in Present(table, s) : table[r] \in RowsOf(r) /\ StoreOf[r] = s
  <1>1. Present(table, s) \in SUBSET Records
    BY DEF Present
  <1>2. IsFiniteSet(Present(table, s))
    BY <1>1, FS_Subset, RetrievalAssumption
  <1>3. \A r \in Present(table, s) : table[r] \in RowsOf(r) /\ StoreOf[r] = s
    BY DEF Present, Tables
  <1> QED
    BY <1>1, <1>2, <1>3

LEMMA ChunkIdsType ==
    ASSUME NEW table \in Tables, NEW s
    PROVE  /\ IsFiniteSet(ChunkIds(table, s)) /\ ChunkIds(table, s) \subseteq Records \X (Nat \ {0})
           /\ \A c \in ChunkIds(table, s) : /\ c[1] \in Present(table, s) /\ table[c[1]] \in RowsOf(c[1])
                                            /\ StoreOf[c[1]] = s /\ c \in ChunksOf(c[1], table[c[1]])
  <1> DEFINE P == Present(table, s)
             T == Records \X (Nat \ {0})
             f == [r \in P |-> ChunksOf(r, table[r])]
  <1>1. IsFiniteSet(P) /\ P \subseteq Records /\ \A r \in P : table[r] \in RowsOf(r) /\ StoreOf[r] = s
    BY PresentType
  <1>2. \A c \in ChunkIds(table, s) : \E r \in P : c \in f[r]
    BY DEF ChunkIds
  <1> HIDE DEF P
  <1>3. \A r \in P : f[r] \subseteq T /\ IsFiniteSet(f[r]) /\ \A c \in f[r] : c[1] = r
    BY <1>1, ChunksOfType
  <1>5. IsFiniteSet(ChunkIds(table, s))
    <2> HIDE DEF f, T
    <2> QED
      BY <1>1, <1>2, <1>3, FiniteUnion
  <1>6. ASSUME NEW c \in ChunkIds(table, s)
        PROVE  /\ c \in T /\ c[1] \in P /\ table[c[1]] \in RowsOf(c[1])
               /\ StoreOf[c[1]] = s /\ c \in ChunksOf(c[1], table[c[1]])
    <2>1. PICK r \in P : c \in f[r]
      BY <1>2
    <2> QED
      BY <1>1, <1>3, <2>1
  <1> QED
    BY <1>5, <1>6 DEF P

LEMMA DocumentsType ==
    ASSUME NEW table \in Tables, NEW s
    PROVE  /\ IsFiniteSet(Documents(table, s)) /\ Documents(table, s) \subseteq Records \X Nat \X Nat
           /\ \A d \in Documents(table, s) :
                /\ d[1] \in Present(table, s) /\ d \in PiecesOf(d[1], table[d[1]])
                /\ <<d[1], d[2]>> \in ChunkIds(table, s)
           /\ \A c \in ChunkIds(table, s) : \E d \in Documents(table, s) : <<d[1], d[2]>> = c
  <1> DEFINE P == Present(table, s)
             T == Records \X Nat \X Nat
             f == [r \in P |-> PiecesOf(r, table[r])]
  <1>1. IsFiniteSet(P) /\ P \subseteq Records /\ \A r \in P : table[r] \in RowsOf(r) /\ StoreOf[r] = s
    BY PresentType
  <1>2. \A d \in Documents(table, s) : \E r \in P : d \in f[r]
    BY DEF Documents
  <1>3. \A r \in P : f[r] \subseteq T /\ IsFiniteSet(f[r]) /\ \A d \in f[r] : d[1] = r
    <2> HIDE DEF P
    <2> QED
      BY <1>1, PiecesOfType
  <1>5. IsFiniteSet(Documents(table, s))
    <2> HIDE DEF f, T, P
    <2> QED
      BY <1>1, <1>2, <1>3, FiniteUnion
  <1>6. ASSUME NEW d \in Documents(table, s)
        PROVE  /\ d \in T /\ d[1] \in P /\ d \in PiecesOf(d[1], table[d[1]])
               /\ <<d[1], d[2]>> \in ChunkIds(table, s)
    <2>1. PICK r \in P : d \in f[r]
      BY <1>2
    <2>2. d \in PiecesOf(r, table[r]) /\ d[1] = r /\ d \in T
      BY <1>3, <2>1
    <2>3. <<d[1], d[2]>> \in ChunksOf(r, table[r])
      BY <1>1, <2>2, PiecesOfType
    <2>4. <<d[1], d[2]>> \in ChunkIds(table, s)
      BY <2>3 DEF ChunkIds
    <2> QED
      BY <2>2, <2>4
  <1>7. ASSUME NEW c \in ChunkIds(table, s) PROVE \E d \in Documents(table, s) : <<d[1], d[2]>> = c
    <2>1. PICK r \in P : c \in ChunksOf(r, table[r])
      BY DEF ChunkIds
    <2>2. PICK d \in PiecesOf(r, table[r]) : <<d[1], d[2]>> = c
      BY <1>1, <2>1, PiecesOfType
    <2>3. d \in Documents(table, s)
      BY <2>2 DEF Documents
    <2> QED
      BY <2>2, <2>3
  <1> QED
    BY <1>5, <1>6, <1>7 DEF P

-----------------------------------------------------------------------------
(* Orders.                                                                 *)

LEMMA FirstType ==
    ASSUME NEW S, NEW seq \in Seq(S), NEW n \in Nat
    PROVE  /\ First(seq, n) \in Seq(S) /\ Len(First(seq, n)) = Smaller(n, Len(seq))
           /\ Len(First(seq, n)) \in Nat /\ Len(First(seq, n)) <= n /\ Len(First(seq, n)) <= Len(seq)
           /\ \A i \in 1..Len(First(seq, n)) : First(seq, n)[i] = seq[i] /\ i \in 1..Len(seq)
           /\ ToSet(First(seq, n)) = {seq[i] : i \in 1..Len(First(seq, n))}
  <1> DEFINE m == Smaller(n, Len(seq))
  <1>1. m \in 0..Len(seq) /\ m <= n /\ m \in Nat
    BY DEF Smaller
  <1> HIDE DEF m
  <1>2. First(seq, n) = SubSeq(seq, 1, m)
    BY DEF First, m
  <1>3. /\ SubSeq(seq, 1, m) \in Seq(S) /\ Len(SubSeq(seq, 1, m)) = m
        /\ \A i \in 1..m : SubSeq(seq, 1, m)[i] = seq[i]
        /\ DOMAIN SubSeq(seq, 1, m) = 1..m
    BY <1>1
  <1>4. ToSet(SubSeq(seq, 1, m)) = {seq[i] : i \in 1..m}
    BY <1>3 DEF ToSet
  <1> QED
    BY <1>1, <1>2, <1>3, <1>4 DEF m

(* What there is in an order, it has at its places. *)
LEMMA InOrderFirst ==
    ASSUME NEW S, NEW R, NEW f, InOrder(S, R, f), NEW n \in Nat
    PROVE  /\ ToSet(First(f, n)) \in SUBSET S
           /\ IsFiniteSet(ToSet(First(f, n))) /\ Cardinality(ToSet(First(f, n))) <= n
           /\ Cardinality(ToSet(First(f, n))) \in Nat
  <1>1. f \in Seq(S) /\ Len(f) = Cardinality(S) /\ \A i \in 1..Cardinality(S) : f[i] \in S
    BY DEF InOrder
  <1> DEFINE m == Len(First(f, n))
             T == ToSet(First(f, n))
  <1>2. /\ m \in Nat /\ m <= n /\ T = {f[i] : i \in 1..m}
        /\ \A i \in 1..m : i \in 1..Cardinality(S)
    BY <1>1, FirstType
  <1> HIDE DEF m, T
  <1>3. T \in SUBSET S
    BY <1>1, <1>2
  <1> DEFINE g == [i \in 1..m |-> f[i]]
  <1>4. g \in Surjection(1..m, T)
    <2>1. g \in [1..m -> T] /\ \A t \in T : \E i \in 1..m : g[i] = t
      BY <1>2
    <2> HIDE DEF g
    <2> QED
      BY <2>1, Fun_IsSurj
  <1>5. IsFiniteSet(1..m) /\ Cardinality(1..m) = m
    BY <1>2, FS_Interval
  <1>6. IsFiniteSet(T) /\ Cardinality(T) <= m /\ Cardinality(T) \in Nat
    BY <1>4, <1>5, FS_Surjection, FS_CardinalityType
  <1> QED
    BY <1>2, <1>3, <1>6 DEF T

(* Hits, as far as orders look at them. *)
AreHits(S) == IsFiniteSet(S) /\ \A h \in S : h.chunk \in Records \X Nat /\ h.score \in Nat

HitOrder(S, current) == {p \in S \X S : Before(current, p[1], p[2])}

LEMMA IdsOrder ==
    ASSUME NEW S, AreHits(S), Unrepeated(S)
    PROVE  /\ \A a \in S : ~IdsBefore(a, a)
           /\ \A a, b, c \in S : IdsBefore(a, b) /\ IdsBefore(b, c) => IdsBefore(a, c)
           /\ \A a, b \in S : a # b => IdsBefore(a, b) \/ IdsBefore(b, a)
  <1>1. \A a \in S : a.chunk[1] \in Nat /\ a.chunk[2] \in Nat
    BY RetrievalAssumption DEF AreHits
  <1>2. ASSUME NEW a \in S, NEW b \in S, a # b PROVE a.chunk[1] # b.chunk[1] \/ a.chunk[2] # b.chunk[2]
    BY <1>2 DEF AreHits, Unrepeated
  <1>3. ASSUME NEW a \in S PROVE ~IdsBefore(a, a)
    BY <1>1 DEF IdsBefore
  <1>4. ASSUME NEW a \in S, NEW b \in S, NEW c \in S, IdsBefore(a, b), IdsBefore(b, c) PROVE IdsBefore(a, c)
    BY <1>1, <1>4 DEF IdsBefore
  <1>5. ASSUME NEW a \in S, NEW b \in S, a # b PROVE IdsBefore(a, b) \/ IdsBefore(b, a)
    BY <1>1, <1>2, <1>5 DEF IdsBefore
  <1> QED
    BY <1>3, <1>4, <1>5

LEMMA ScopeRankType ==
    ASSUME NEW scope, NEW current
    PROVE  ScopeRank(scope, current) \in 0..2
  BY DEF ScopeRank

LEMMA SortHitsInOrder ==
    ASSUME NEW S, AreHits(S), Unrepeated(S), NEW current
    PROVE  InOrder(S, HitOrder(S, current), SortHits(S, current))
  <1> DEFINE R == HitOrder(S, current)
             rank(h) == ScopeRank(ScopeOf(h), current)
  <1>1. \A a, b \in S : <<a, b>> \in R <=> Before(current, a, b)
    BY DEF HitOrder
  <1>2. \A a \in S : rank(a) \in Nat /\ a.score \in Nat
    BY ScopeRankType DEF AreHits
  <1>3. \A a, b \in S : Before(current, a, b) <=>
          \/ rank(a) > rank(b)
          \/ rank(a) = rank(b) /\ a.score > b.score
          \/ rank(a) = rank(b) /\ a.score = b.score /\ IdsBefore(a, b)
    BY DEF Before
  <1> HIDE DEF rank
  <1>4. IsOrder(S, R)
    <2>1. ASSUME NEW a \in S PROVE ~Before(current, a, a)
      BY <1>2, <1>3, IdsOrder
    <2>2. ASSUME NEW a \in S, NEW b \in S, NEW c \in S, Before(current, a, b), Before(current, b, c)
          PROVE  Before(current, a, c)
      <3>1. IdsBefore(a, b) /\ IdsBefore(b, c) => IdsBefore(a, c)
        BY IdsOrder
      <3> QED
        BY <1>2, <1>3, <2>2, <3>1
    <2>3. ASSUME NEW a \in S, NEW b \in S, a # b PROVE Before(current, a, b) \/ Before(current, b, a)
      <3>1. IdsBefore(a, b) \/ IdsBefore(b, a)
        BY <2>3, IdsOrder
      <3> QED
        BY <1>2, <1>3, <3>1
    <2> HIDE DEF R
    <2> QED
      BY <1>1, <2>1, <2>2, <2>3 DEF IsOrder
  <1>5. \A a \in S : Preceding(S, R, a) = {b \in S : Before(current, b, a)}
    BY <1>1 DEF Preceding
  <1>6. SortHits(S, current) = [i \in 1..Cardinality(S) |->
          CHOOSE a \in S : Cardinality({b \in S : Before(current, b, a)}) = i - 1]
    BY DEF SortHits, Ordered
  <1>7. SortHits(S, current) = [i \in 1..Cardinality(S) |->
          CHOOSE a \in S : Cardinality(Preceding(S, R, a)) = i - 1]
    <2>1. \A k : (CHOOSE a \in S : Cardinality({b \in S : Before(current, b, a)}) = k)
                 = (CHOOSE a \in S : Cardinality(Preceding(S, R, a)) = k)
      BY <1>5
    <2> QED
      BY <1>6, <2>1
  <1>8. IsFiniteSet(S)
    BY DEF AreHits
  <1> HIDE DEF R
  <1>9. InOrder(S, R, SortHits(S, current))
    BY <1>4, <1>7, <1>8, ChosenIsSorted
  <1> QED
    BY <1>9 DEF R

(* SortSemantic ranks by score before scope. *)
SemanticOrder(S, current) ==
    {p \in S \X S :
       LET a == p[1]
           b == p[2]
       IN \/ a.score > b.score
          \/ a.score = b.score /\ ScopeRank(ScopeOf(a), current) > ScopeRank(ScopeOf(b), current)
          \/ a.score = b.score /\ ScopeRank(ScopeOf(a), current) = ScopeRank(ScopeOf(b), current)
             /\ IdsBefore(a, b)}

LEMMA SortSemanticInOrder ==
    ASSUME NEW S, AreHits(S), Unrepeated(S), NEW current
    PROVE  InOrder(S, SemanticOrder(S, current), SortSemantic(S, current))
  <1> DEFINE R == SemanticOrder(S, current)
             rank(h) == ScopeRank(ScopeOf(h), current)
             before(a, b) ==
               \/ a.score > b.score
               \/ a.score = b.score /\ rank(a) > rank(b)
               \/ a.score = b.score /\ rank(a) = rank(b) /\ IdsBefore(a, b)
  <1>1. \A a, b \in S : <<a, b>> \in R <=> before(a, b)
    BY DEF SemanticOrder
  <1>2. \A a \in S : rank(a) \in Nat /\ a.score \in Nat
    BY ScopeRankType DEF AreHits
  <1>3. SortSemantic(S, current) = [i \in 1..Cardinality(S) |->
          CHOOSE a \in S : Cardinality({b \in S : before(b, a)}) = i - 1]
    BY DEF SortSemantic, Ordered
  <1> HIDE DEF rank
  <1>4. IsOrder(S, R)
    <2>1. ASSUME NEW a \in S PROVE ~before(a, a)
      BY <1>2, IdsOrder
    <2>2. ASSUME NEW a \in S, NEW b \in S, NEW c \in S, before(a, b), before(b, c)
          PROVE  before(a, c)
      <3>1. IdsBefore(a, b) /\ IdsBefore(b, c) => IdsBefore(a, c)
        BY IdsOrder
      <3> QED
        BY <1>2, <2>2, <3>1
    <2>3. ASSUME NEW a \in S, NEW b \in S, a # b PROVE before(a, b) \/ before(b, a)
      <3>1. IdsBefore(a, b) \/ IdsBefore(b, a)
        BY <2>3, IdsOrder
      <3> QED
        BY <1>2, <3>1
    <2> HIDE DEF R, before
    <2> QED
      BY <1>1, <2>1, <2>2, <2>3 DEF IsOrder
  <1> HIDE DEF before
  <1>5. \A a \in S : Preceding(S, R, a) = {b \in S : before(b, a)}
    BY <1>1 DEF Preceding
  <1>6. SortSemantic(S, current) = [i \in 1..Cardinality(S) |->
          CHOOSE a \in S : Cardinality(Preceding(S, R, a)) = i - 1]
    <2>1. \A k : (CHOOSE a \in S : Cardinality({b \in S : before(b, a)}) = k)
                 = (CHOOSE a \in S : Cardinality(Preceding(S, R, a)) = k)
      BY <1>5
    <2> QED
      BY <1>3, <2>1
  <1>7. IsFiniteSet(S)
    BY DEF AreHits
  <1> HIDE DEF R
  <1>8. InOrder(S, R, SortSemantic(S, current))
    BY <1>4, <1>6, <1>7, ChosenIsSorted
  <1> QED
    BY <1>8 DEF R

-----------------------------------------------------------------------------
(* The lexical search.                                                     *)

LEMMA PairType ==
    ASSUME NEW A, NEW B, NEW p \in A \X B
    PROVE  p[1] \in A /\ p[2] \in B /\ p = <<p[1], p[2]>>
  OBVIOUS

LEMMA MatchingInOrder ==
    ASSUME NEW S, IsFiniteSet(S),
           \A c \in S : match.rank[c] \in Nat /\ c[1] \in Nat /\ c[2] \in Nat /\ c = <<c[1], c[2]>>
    PROVE  InOrder(S, {p \in S \X S : Better(p[1], p[2])}, Ordered(S, Better))
  <1> DEFINE R == {p \in S \X S : Better(p[1], p[2])}
  <1>1. \A a, b \in S : <<a, b>> \in R <=> Better(a, b)
    OBVIOUS
  <1>2. IsOrder(S, R)
    <2>1. ASSUME NEW a \in S PROVE ~Better(a, a)
      BY DEF Better
    <2>2. ASSUME NEW a \in S, NEW b \in S, NEW c \in S, Better(a, b), Better(b, c)
          PROVE  Better(a, c)
      BY <2>2 DEF Better
    <2>3. ASSUME NEW a \in S, NEW b \in S, a # b PROVE Better(a, b) \/ Better(b, a)
      <3>1. a[1] # b[1] \/ a[2] # b[2]
        BY <2>3
      <3> QED
        BY <3>1 DEF Better
    <2> HIDE DEF R
    <2> QED
      BY <1>1, <2>1, <2>2, <2>3 DEF IsOrder
  <1>3. \A a \in S : Preceding(S, R, a) = {b \in S : Better(b, a)}
    BY <1>1 DEF Preceding
  <1>4. Ordered(S, Better) = [i \in 1..Cardinality(S) |->
          CHOOSE a \in S : Cardinality({b \in S : Better(b, a)}) = i - 1]
    BY DEF Ordered
  <1>5. Ordered(S, Better) = [i \in 1..Cardinality(S) |->
          CHOOSE a \in S : Cardinality(Preceding(S, R, a)) = i - 1]
    <2>1. \A k : (CHOOSE a \in S : Cardinality({b \in S : Better(b, a)}) = k)
                 = (CHOOSE a \in S : Cardinality(Preceding(S, R, a)) = k)
      BY <1>3
    <2> QED
      BY <1>4, <2>1
  <1> HIDE DEF R
  <1>6. InOrder(S, R, Ordered(S, Better))
    BY <1>2, <1>5, ChosenIsSorted
  <1> QED
    BY <1>6 DEF R

LEMMA SelectedType ==
    ASSUME rows \in Tables, match \in Matches, NEW q, NEW s, NEW limit \in Nat
    PROVE  /\ IsFiniteSet(Selected(q, s, limit)) /\ Selected(q, s, limit) \subseteq ChunkIds(rows, s)
           /\ \A c \in Selected(q, s, limit) : match.rank[c] > 0 /\ Allowed(q, s, c[1], rows[c[1]])
  <1> DEFINE S == Matching(q, s)
             R == {p \in S \X S : Better(p[1], p[2])}
             k == Overfetch * limit
  <1>1. S \in SUBSET ChunkIds(rows, s)
    BY DEF Matching
  <1>2. IsFiniteSet(S)
    BY <1>1, ChunkIdsType, FS_Subset
  <1>3. ASSUME NEW c \in S
        PROVE  match.rank[c] \in Nat /\ c[1] \in Nat /\ c[2] \in Nat /\ c = <<c[1], c[2]>>
    <2>1. c[1] \in Records /\ rows[c[1]] \in RowsOf(c[1]) /\ c \in ChunksOf(c[1], rows[c[1]])
          /\ c \in Records \X (Nat \ {0})
      BY <1>1, ChunkIdsType, PresentType
    <2>2. match.rank[c] \in Nat
      BY <2>1, MatchAssumption
    <2> HIDE DEF S
    <2>3. Records \subseteq Nat
      BY RetrievalAssumption
    <2>4. c[1] \in Records /\ c[2] \in Nat \ {0} /\ c = <<c[1], c[2]>>
      BY <2>1, PairType
    <2> QED
      BY <2>2, <2>3, <2>4
  <1>4. k \in Nat
    <2>1. \A x, y \in Nat : x * y \in Nat
      OBVIOUS
    <2> QED
      BY <2>1, RetrievalAssumption
  <1>5. Selected(q, s, limit) = ToSet(First(Ordered(S, Better), k))
    BY DEF Selected
  <1> HIDE DEF S, k
  <1>6. InOrder(S, R, Ordered(S, Better))
    BY <1>2, <1>3, MatchingInOrder
  <1> HIDE DEF R
  <1>7. Selected(q, s, limit) \in SUBSET S /\ IsFiniteSet(Selected(q, s, limit))
    BY <1>4, <1>5, <1>6, InOrderFirst
  <1> QED
    BY <1>1, <1>7 DEF S, Matching

LEMMA LexicalHitType ==
    ASSUME rows \in Tables, match \in Matches, NEW s, NEW c \in ChunkIds(rows, s), match.rank[c] > 0
    PROVE  /\ LexicalHit(c) \in LexicalHits /\ LexicalHit(c).chunk = c /\ LexicalHit(c).row = rows[c[1]]
           /\ IF LexicalHit(c).reason \in Naming THEN LexicalHit(c).score >= 120 ELSE LexicalHit(c).score <= 90
  <1> DEFINE reason == match.reason[c[1]]
             rank == match.rank[c]
             score == 60 \div (1 + rank) + Boost(reason)
  <1>1. c[1] \in Records /\ rows[c[1]] \in RowsOf(c[1]) /\ c \in ChunksOf(c[1], rows[c[1]])
        /\ c \in Records \X (Nat \ {0}) /\ rows[c[1]] \in Rows
    BY ChunkIdsType, PresentType, RowType
  <1>2. reason \in Reasons /\ rank \in Nat \ {0}
    BY <1>1, MatchAssumption
  <1>3. 60 \div (1 + rank) \in 0..30
    <2> HIDE DEF rank
    <2> QED
      BY <1>2
  <1>4. Boost(reason) \in Nat /\ IF reason \in Naming THEN Boost(reason) >= 120 ELSE Boost(reason) <= 60
    BY <1>2 DEF Boost, Naming, Reasons
  <1>5. score \in Nat /\ IF reason \in Naming THEN score >= 120 ELSE score <= 90
    <2> HIDE DEF reason, rank
    <2> QED
      BY <1>3, <1>4
  <1>6. LexicalHit(c) = [chunk |-> c, row |-> rows[c[1]], reason |-> reason, score |-> score]
    BY DEF LexicalHit
  <1> HIDE DEF reason, score
  <1>7. LexicalHit(c) \in LexicalHits
    BY <1>1, <1>2, <1>5, <1>6 DEF LexicalHits, HitsOf
  <1> QED
    BY <1>5, <1>6, <1>7

LEMMA SearchHitsType ==
    ASSUME rows \in Tables, match \in Matches, NEW q, NEW s, NEW limit \in Nat
    PROVE  /\ IsFiniteSet(SearchHits(q, s, limit)) /\ Cardinality(SearchHits(q, s, limit)) <= limit
           /\ Cardinality(SearchHits(q, s, limit)) \in Nat
           /\ SearchHits(q, s, limit) \subseteq LexicalHits
           /\ Unrepeated(SearchHits(q, s, limit))
           /\ \A h \in SearchHits(q, s, limit) :
                /\ ScopeOf(h) = s /\ h.row = rows[h.chunk[1]] /\ h.chunk[1] \in Records
                /\ Allowed(q, s, h.chunk[1], h.row)
                /\ IF h.reason \in Naming THEN h.score >= 120 ELSE h.score <= 90
  <1> DEFINE C == Selected(q, s, limit)
             S == {LexicalHit(c) : c \in C}
             current == CurrentIn(q, s)
  <1>1. IsFiniteSet(C) /\ \A c \in C : c \in ChunkIds(rows, s) /\ match.rank[c] > 0 /\ Allowed(q, s, c[1], rows[c[1]])
    BY SelectedType
  <1> HIDE DEF C
  <1>2. ASSUME NEW h \in S
        PROVE  /\ h \in LexicalHits /\ h.row = rows[h.chunk[1]] /\ h = LexicalHit(h.chunk)
               /\ ScopeOf(h) = s /\ h.chunk[1] \in Records /\ Allowed(q, s, h.chunk[1], h.row)
               /\ IF h.reason \in Naming THEN h.score >= 120 ELSE h.score <= 90
    <2>1. PICK c \in C : h = LexicalHit(c)
      OBVIOUS
    <2>2. h.chunk = c /\ StoreOf[c[1]] = s /\ c[1] \in Records
      BY <1>1, <2>1, LexicalHitType, ChunkIdsType, PresentType
    <2> QED
      BY <1>1, <2>1, <2>2, LexicalHitType DEF ScopeOf
  <1>3. IsFiniteSet(S)
    <2> DEFINE f == [c \in C |-> LexicalHit(c)]
    <2>1. \A h \in S : \E c \in C : h = f[c]
      OBVIOUS
    <2> HIDE DEF S, f
    <2> QED
      BY <1>1, <2>1, FiniteImage
  <1> HIDE DEF S
  <1>4. AreHits(S)
    BY <1>2, <1>3 DEF AreHits, LexicalHits, HitsOf
  <1>5. Unrepeated(S)
    BY <1>2 DEF Unrepeated
  <1>6. InOrder(S, HitOrder(S, current), SortHits(S, current))
    BY <1>4, <1>5, SortHitsInOrder
  <1>7. SearchHits(q, s, limit) = ToSet(First(SortHits(S, current), limit))
    BY DEF SearchHits, S, C
  <1> DEFINE T == ToSet(First(SortHits(S, current), limit))
  <1>8. T \in SUBSET S /\ IsFiniteSet(T) /\ Cardinality(T) <= limit /\ Cardinality(T) \in Nat
    BY <1>6, InOrderFirst
  <1> HIDE DEF T
  <1>9. Unrepeated(T)
    BY <1>5, <1>8 DEF Unrepeated
  <1> QED
    BY <1>2, <1>7, <1>8, <1>9 DEF T

-----------------------------------------------------------------------------
(* The vector search.                                                      *)

LEMMA ByDistanceInOrder ==
    ASSUME NEW S, IsFiniteSet(S), NEW f, \A a \in S : f[a] \in Nat,
           \A a, b \in S : f[a] = f[b] => a = b
    PROVE  InOrder(S, {p \in S \X S : f[p[1]] < f[p[2]]}, ByDistance(S, f))
  <1> DEFINE R == {p \in S \X S : f[p[1]] < f[p[2]]}
  <1>1. \A a, b \in S : <<a, b>> \in R <=> f[a] < f[b]
    OBVIOUS
  <1>2. IsOrder(S, R)
    <2>1. \A a, b \in S : f[a] \in Nat /\ f[b] \in Nat /\ (a # b => f[a] # f[b])
      OBVIOUS
    <2> HIDE DEF R
    <2> QED
      BY <1>1, <2>1 DEF IsOrder
  <1>3. \A a \in S : Preceding(S, R, a) = {b \in S : f[b] < f[a]}
    BY <1>1 DEF Preceding
  <1>4. ByDistance(S, f) = [i \in 1..Cardinality(S) |->
          CHOOSE a \in S : Cardinality({b \in S : f[b] < f[a]}) = i - 1]
    BY DEF ByDistance, Ordered
  <1>5. ByDistance(S, f) = [i \in 1..Cardinality(S) |->
          CHOOSE a \in S : Cardinality(Preceding(S, R, a)) = i - 1]
    <2>1. \A k : (CHOOSE a \in S : Cardinality({b \in S : f[b] < f[a]}) = k)
                 = (CHOOSE a \in S : Cardinality(Preceding(S, R, a)) = k)
      BY <1>3
    <2> QED
      BY <1>4, <2>1
  <1> HIDE DEF R
  <1>6. InOrder(S, R, ByDistance(S, f))
    BY <1>2, <1>5, ChosenIsSorted
  <1> QED
    BY <1>6 DEF R

(* A document of an index, and the chunk it is of.                         *)
ChunkOf(d) == <<d[1], d[2]>>
Admits(q, s, d) == Allowed(q, s, d[1], trusted[d[1]])
Near(s) == {p \in Documents(trusted, s) \X Documents(trusted, s) : match.distance[p[1]] < match.distance[p[2]]}

LEMMA DistanceType ==
    ASSUME trusted \in Tables, match \in Matches, NEW s, NEW d \in Documents(trusted, s)
    PROVE  /\ match.distance[d] \in Nat /\ ChunkOf(d) \in Records \X Nat
           /\ ChunkOf(d) \in ChunkIds(trusted, s) /\ ChunkOf(d)[1] = d[1]
           /\ \A e \in Documents(trusted, s) : match.distance[d] = match.distance[e] => d = e
  <1>1. \A e \in Documents(trusted, s) :
          /\ e[1] \in Records /\ trusted[e[1]] \in RowsOf(e[1])
          /\ e \in PiecesOf(e[1], trusted[e[1]]) /\ ChunkOf(e) \in ChunkIds(trusted, s)
    BY DocumentsType, PresentType DEF ChunkOf
  <1>2. match.distance[d] \in Nat
    BY <1>1, MatchAssumption
  <1>3. \A e \in Documents(trusted, s) : match.distance[d] = match.distance[e] => d = e
    BY <1>1, MatchAssumption
  <1>4. ChunkOf(d) \in Records \X (Nat \ {0})
    BY <1>1, ChunkIdsType
  <1>5. \A c \in Records \X (Nat \ {0}) : c \in Records \X Nat
    OBVIOUS
  <1> QED
    BY <1>1, <1>2, <1>3, <1>4, <1>5 DEF ChunkOf

LEMMA NearestInOrder ==
    ASSUME trusted \in Tables, match \in Matches, NEW s
    PROVE  InOrder(Documents(trusted, s), Near(s), Nearest(trusted, s))
  <1> DEFINE D == Documents(trusted, s)
             f == match.distance
  <1>1. IsFiniteSet(D) /\ (\A a \in D : f[a] \in Nat) /\ (\A a, b \in D : f[a] = f[b] => a = b)
    BY DocumentsType, DistanceType
  <1> HIDE DEF D, f
  <1>2. InOrder(D, {p \in D \X D : f[p[1]] < f[p[2]]}, ByDistance(D, f))
    BY <1>1, ByDistanceInOrder
  <1> QED
    BY <1>2 DEF Nearest, Near, D, f

LEMMA AddDistinctType ==
    ASSUME trusted \in Tables, match \in Matches, NEW q, NEW s,
           NEW acc \in Seq(FoundChunks), NEW d \in Documents(trusted, s)
    PROVE  AddDistinct(q, s, acc, d) \in Seq(FoundChunks)
  <1> DEFINE x == [chunk |-> ChunkOf(d), distance |-> match.distance[d]]
  <1>1. x \in FoundChunks
    BY DistanceType DEF FoundChunks
  <1>2. AddDistinct(q, s, acc, d) \in {acc, Append(acc, x)}
    BY DEF AddDistinct, ChunkOf
  <1> HIDE DEF x
  <1> QED
    BY <1>1, <1>2, AppendType

(* The distinct chunks of a window by its prefixes. *)
LEMMA DistinctByPrefixes ==
    ASSUME trusted \in Tables, match \in Matches, NEW q, NEW s, NEW window \in Seq(Documents(trusted, s))
    PROVE  \E p \in [0..Len(window) -> Seq(FoundChunks)] :
             /\ p[0] = <<>>
             /\ \A k \in 1..Len(window) : p[k] = AddDistinct(q, s, p[k - 1], window[k])
             /\ DistinctIn(q, s, window) = p[Len(window)]
  <1> DEFINE n == Len(window)
             F == [k \in 1..n |-> [x \in Seq(FoundChunks) |-> AddDistinct(q, s, x, window[k])]]
             iter == CHOOSE g : g = [t \in SUBSET (DOMAIN window) |->
                       IF t = {} THEN <<>> ELSE AddDistinct(q, s, g[t \ {Max(t)}], window[Max(t)])]
  <1>0. /\ Len(window) \in Nat /\ DOMAIN window = 1..Len(window) /\ <<>> \in Seq(FoundChunks)
        /\ \A k \in 1..Len(window), c \in Seq(FoundChunks) : AddDistinct(q, s, c, window[k]) \in Seq(FoundChunks)
    <2>1. Len(window) \in Nat /\ DOMAIN window = 1..Len(window) /\ <<>> \in Seq(FoundChunks)
      OBVIOUS
    <2>2. \A k \in 1..Len(window) : window[k] \in Documents(trusted, s)
      OBVIOUS
    <2> QED
      BY <2>1, <2>2, AddDistinctType
  <1>1. n \in Nat /\ DOMAIN window = 1..n /\ StepsIn(Seq(FoundChunks), n, <<>>, F)
    BY <1>0 DEF StepsIn
  <1>2. PICK g, p : IsFold(Seq(FoundChunks), n, <<>>, F, g, p)
    <2> HIDE DEF F, n
    <2> QED
      BY <1>1, FoldPrefixes
  <1>3. \A t \in SUBSET (1..n) : t # {} => g[t] = AddDistinct(q, s, g[t \ {Max(t)}], window[Max(t)])
    BY <1>2 DEF IsFold
  <1>4. g = [t \in SUBSET (DOMAIN window) |->
               IF t = {} THEN <<>> ELSE AddDistinct(q, s, g[t \ {Max(t)}], window[Max(t)])]
    BY <1>1, <1>2, <1>3 DEF IsFold
  <1>5. iter = [t \in SUBSET (DOMAIN window) |->
                  IF t = {} THEN <<>> ELSE AddDistinct(q, s, iter[t \ {Max(t)}], window[Max(t)])]
    BY <1>4
  <1>6. DistinctIn(q, s, window) = iter[1..n]
    BY <1>1 DEF DistinctIn, FoldLeft, MapThenFoldSet
  <1> HIDE DEF iter
  <1>7. iter[1..n] = g[1..n]
    <2>1. \A t \in SUBSET (1..n) : t # {} /\ iter[t \ {Max(t)}] = g[t \ {Max(t)}] => iter[t] = g[t]
      BY <1>1, <1>3, <1>5
    <2>2. iter[{}] = g[{}]
      BY <1>1, <1>2, <1>5 DEF IsFold
    <2> HIDE DEF n
    <2> QED
      BY <1>1, <2>1, <2>2, FoldAgrees
  <1>8. \A k \in 1..n : p[k] = AddDistinct(q, s, p[k - 1], window[k])
    BY <1>2 DEF IsFold
  <1> QED
    BY <1>2, <1>6, <1>7, <1>8 DEF IsFold

(* What the first k documents give: the chunks that the filter admits,     *)
(* each by its first document.                                             *)
IsDistinct(q, s, near, k, F) ==
    /\ F \in Seq(FoundChunks)
    /\ \A i \in 1..Len(F) : \E m \in 1..k :
         /\ Admits(q, s, near[m]) /\ F[i].chunk = ChunkOf(near[m])
         /\ F[i].distance = match.distance[near[m]]
         /\ \A o \in 1..(m - 1) : ChunkOf(near[o]) # F[i].chunk
    /\ \A m \in 1..k : Admits(q, s, near[m]) => \E i \in 1..Len(F) : F[i].chunk = ChunkOf(near[m])
    /\ \A i, j \in 1..Len(F) : i < j => F[i].distance < F[j].distance /\ F[i].chunk # F[j].chunk

LEMMA DistinctGrows ==
    ASSUME trusted \in Tables, match \in Matches, NEW q, NEW s, NEW near,
           InOrder(Documents(trusted, s), Near(s), near), NEW k \in 1..Cardinality(Documents(trusted, s)),
           NEW F, IsDistinct(q, s, near, k - 1, F)
    PROVE  /\ IsDistinct(q, s, near, k, AddDistinct(q, s, F, near[k]))
           /\ Len(F) <= Len(AddDistinct(q, s, F, near[k]))
           /\ \A i \in 1..Len(F) : AddDistinct(q, s, F, near[k])[i] = F[i]
  <1> DEFINE D == Documents(trusted, s)
             n == Cardinality(D)
             G == AddDistinct(q, s, F, near[k])
             x == [chunk |-> ChunkOf(near[k]), distance |-> match.distance[near[k]]]
             skips == \/ ~Admits(q, s, near[k])
                      \/ \E i \in 1..Len(F) : F[i].chunk = ChunkOf(near[k])
  <1>1. n \in Nat /\ k \in 1..n /\ \A i \in 1..n : near[i] \in D
    BY DEF InOrder
  <1>2. F \in Seq(FoundChunks) /\ Len(F) \in Nat /\ DOMAIN F = 1..Len(F)
    BY DEF IsDistinct
  <1>3. x \in FoundChunks /\ x.chunk = ChunkOf(near[k]) /\ x.distance = match.distance[near[k]]
    BY <1>1, DistanceType DEF FoundChunks
  <1>4. G = IF skips THEN F ELSE Append(F, x)
    BY <1>2 DEF AddDistinct, ChunkOf, Admits
  <1>5. ASSUME NEW i \in 1..Len(F)
        PROVE  \E m \in 1..k :
                 /\ m < k /\ Admits(q, s, near[m]) /\ F[i].chunk = ChunkOf(near[m])
                 /\ F[i].distance = match.distance[near[m]]
                 /\ \A o \in 1..(m - 1) : ChunkOf(near[o]) # F[i].chunk
    <2>1. PICK m \in 1..(k - 1) :
             /\ Admits(q, s, near[m]) /\ F[i].chunk = ChunkOf(near[m])
             /\ F[i].distance = match.distance[near[m]]
             /\ \A o \in 1..(m - 1) : ChunkOf(near[o]) # F[i].chunk
      BY DEF IsDistinct
    <2>2. m \in 1..k /\ m < k
      BY <1>1
    <2> QED
      BY <2>1, <2>2
  <1>6. \A m \in 1..(k - 1) : Admits(q, s, near[m]) => \E i \in 1..Len(F) : F[i].chunk = ChunkOf(near[m])
    BY DEF IsDistinct
  <1>7. \A i, j \in 1..Len(F) : i < j => F[i].distance < F[j].distance /\ F[i].chunk # F[j].chunk
    BY DEF IsDistinct
  <1>8. \A m \in 1..k : m \in 1..(k - 1) \/ m = k
    BY <1>1
  <1> HIDE DEF G, x, n, D
  <1>9. CASE skips
    <2>1. G = F
      BY <1>4, <1>9
    <2>2. \A m \in 1..k : Admits(q, s, near[m]) => \E i \in 1..Len(F) : F[i].chunk = ChunkOf(near[m])
      BY <1>6, <1>8, <1>9
    <2>3. IsDistinct(q, s, near, k, F)
      BY <1>2, <1>5, <1>7, <2>2 DEF IsDistinct
    <2> QED
      BY <1>2, <2>1, <2>3 DEF G
  <1>10. CASE ~skips
    <2> DEFINE l == Len(F)
    <2>1. /\ G = Append(F, x) /\ G \in Seq(FoundChunks) /\ l \in Nat /\ Len(G) = l + 1
          /\ (\A i \in 1..l : G[i] = F[i]) /\ G[l + 1] = x
      BY <1>2, <1>3, <1>4, <1>10, AppendAt, AppendType
    <2>2. \A i \in 1..(l + 1) : i \in 1..l \/ i = l + 1
      BY <2>1
    <2>3. ASSUME NEW o \in 1..(k - 1) PROVE ChunkOf(near[o]) # ChunkOf(near[k])
      <3>1. SUFFICES ASSUME ChunkOf(near[o]) = ChunkOf(near[k]) PROVE FALSE
        OBVIOUS
      <3>2. near[o][1] = near[k][1]
        BY <3>1 DEF ChunkOf
      <3>3. Admits(q, s, near[o])
        BY <1>10, <3>2 DEF Admits
      <3> QED
        BY <1>6, <1>10, <3>1, <3>3
    <2>4. ASSUME NEW i \in 1..(l + 1)
          PROVE  \E m \in 1..k :
                   /\ Admits(q, s, near[m]) /\ G[i].chunk = ChunkOf(near[m])
                   /\ G[i].distance = match.distance[near[m]]
                   /\ \A o \in 1..(m - 1) : ChunkOf(near[o]) # G[i].chunk
      <3>1. CASE i \in 1..l
        BY <1>5, <2>1, <3>1
      <3>2. CASE i = l + 1
        <4>1. G[i] = x /\ k \in 1..k
          BY <1>1, <2>1, <3>2
        <4> QED
          BY <1>3, <1>10, <2>3, <4>1
      <3> QED
        BY <2>2, <3>1, <3>2
    <2>5. ASSUME NEW m \in 1..k, Admits(q, s, near[m])
          PROVE  \E i \in 1..(l + 1) : G[i].chunk = ChunkOf(near[m])
      <3>1. CASE m \in 1..(k - 1)
        <4>1. PICK i \in 1..l : F[i].chunk = ChunkOf(near[m])
          BY <1>6, <2>5, <3>1
        <4>2. i \in 1..(l + 1) /\ G[i] = F[i]
          BY <2>1
        <4> QED
          BY <4>1, <4>2
      <3>2. CASE m = k
        <4>1. l + 1 \in 1..(l + 1)
          BY <2>1
        <4> QED
          BY <1>3, <2>1, <3>2, <4>1
      <3> QED
        BY <1>8, <3>1, <3>2
    <2>6. ASSUME NEW i \in 1..(l + 1), NEW j \in 1..(l + 1), i < j
          PROVE  G[i].distance < G[j].distance /\ G[i].chunk # G[j].chunk
      <3>1. i \in 1..l /\ (j \in 1..l \/ j = l + 1)
        BY <2>1, <2>6
      <3>2. CASE j \in 1..l
        BY <1>7, <2>1, <2>6, <3>1, <3>2
      <3>3. CASE j = l + 1
        <4>1. PICK m \in 1..k : m < k /\ F[i].chunk = ChunkOf(near[m]) /\ F[i].distance = match.distance[near[m]]
          BY <1>5, <3>1
        <4>2. m \in 1..n
          BY <1>1
        <4>3. <<near[m], near[k]>> \in Near(s)
          BY <1>1, <4>1, <4>2 DEF InOrder, D, n
        <4>4. match.distance[near[m]] < match.distance[near[k]]
          BY <4>3 DEF Near
        <4>5. G[i] = F[i] /\ G[j] = x
          BY <2>1, <3>1, <3>3
        <4>6. m \in 1..(k - 1)
          BY <1>1, <4>1
        <4>7. ChunkOf(near[m]) # ChunkOf(near[k])
          BY <2>3, <4>6
        <4> QED
          BY <1>3, <4>1, <4>4, <4>5, <4>7
      <3> QED
        BY <3>1, <3>2, <3>3
    <2>7. IsDistinct(q, s, near, k, G)
      BY <2>1, <2>4, <2>5, <2>6 DEF IsDistinct
    <2> QED
      BY <2>1, <2>7 DEF G
  <1> QED
    BY <1>9, <1>10

(* The documents of a store by their distances, and the distinct chunks of *)
(* every number of them.                                                   *)
IsDistinctBy(q, s, p) ==
    LET near == Nearest(trusted, s) IN
    /\ p \in [0..Len(near) -> Seq(FoundChunks)]
    /\ \A k \in 0..Len(near) : IsDistinct(q, s, near, k, p[k])
    /\ \A w \in 0..Len(near) :
         /\ DistinctIn(q, s, First(near, w)) = p[w]
         /\ Len(p[w]) <= Len(p[Len(near)])
         /\ \A i \in 1..Len(p[w]) : p[Len(near)][i] = p[w][i]

LEMMA DistinctByDistance ==
    ASSUME trusted \in Tables, match \in Matches, NEW q, NEW s
    PROVE  \E p : IsDistinctBy(q, s, p)
  <1> DEFINE D == Documents(trusted, s)
             near == Nearest(trusted, s)
             n == Cardinality(D)
  <1>1. InOrder(D, Near(s), near)
    BY NearestInOrder
  <1>2. n \in Nat /\ near \in Seq(D) /\ Len(near) = n
    BY <1>1 DEF InOrder
  <1>3. PICK p \in [0..n -> Seq(FoundChunks)] :
          p[0] = <<>> /\ \A k \in 1..n : p[k] = AddDistinct(q, s, p[k - 1], near[k])
    <2>1. near \in Seq(Documents(trusted, s))
      BY <1>2
    <2> HIDE DEF near, n
    <2>2. \E p \in [0..Len(near) -> Seq(FoundChunks)] :
            /\ p[0] = <<>>
            /\ \A k \in 1..Len(near) : p[k] = AddDistinct(q, s, p[k - 1], near[k])
            /\ DistinctIn(q, s, near) = p[Len(near)]
      BY <2>1, DistinctByPrefixes
    <2> QED
      BY <1>2, <2>2
  <1> HIDE DEF near, n, D
  <1>4. \A k \in 0..n : IsDistinct(q, s, near, k, p[k])
    <2> DEFINE T == {k \in 0..n : IsDistinct(q, s, near, k, p[k])}
    <2>1. 0 \in T
      <3>1. IsDistinct(q, s, near, 0, <<>>)
        BY DEF IsDistinct
      <3> QED
        BY <1>2, <1>3, <3>1
    <2>2. ASSUME NEW k \in 0..(n - 1), k \in T PROVE k + 1 \in T
      <3>1. k + 1 \in 1..n /\ (k + 1) - 1 = k /\ k + 1 \in 0..n
        BY <1>2
      <3>2. p[k + 1] = AddDistinct(q, s, p[k], near[k + 1])
        BY <1>3, <3>1
      <3>3. IsDistinct(q, s, near, (k + 1) - 1, p[k])
        BY <2>2, <3>1
      <3> DEFINE m == k + 1
      <3>4. m \in 1..Cardinality(Documents(trusted, s)) /\ IsDistinct(q, s, near, m - 1, p[k])
            /\ InOrder(Documents(trusted, s), Near(s), near)
        BY <1>1, <3>1, <3>3 DEF n, D
      <3> HIDE DEF m
      <3>5. IsDistinct(q, s, near, m, AddDistinct(q, s, p[k], near[m]))
        BY <3>4, DistinctGrows
      <3> QED
        BY <3>1, <3>2, <3>5 DEF m
    <2> HIDE DEF T
    <2>3. \A k \in 0..n : k \in T
      BY <1>2, <2>1, <2>2, InductionTo
    <2> QED
      BY <2>3 DEF T
  <1>5. \A k \in 1..n : Len(p[k - 1]) <= Len(p[k]) /\ \A i \in 1..Len(p[k - 1]) : p[k][i] = p[k - 1][i]
    <2>1. ASSUME NEW k \in 1..n
          PROVE  Len(p[k - 1]) <= Len(p[k]) /\ \A i \in 1..Len(p[k - 1]) : p[k][i] = p[k - 1][i]
      <3>1. k - 1 \in 0..n
        BY <1>2
      <3>2. IsDistinct(q, s, near, k - 1, p[k - 1])
        BY <1>4, <3>1
      <3>3. k \in 1..Cardinality(Documents(trusted, s)) /\ InOrder(Documents(trusted, s), Near(s), near)
        BY <1>1 DEF n, D
      <3>4. p[k] = AddDistinct(q, s, p[k - 1], near[k])
        BY <1>3
      <3> DEFINE F == p[k - 1]
      <3>5. IsDistinct(q, s, near, k - 1, F)
        BY <3>2
      <3> HIDE DEF F
      <3>6. Len(F) <= Len(AddDistinct(q, s, F, near[k])) /\ \A i \in 1..Len(F) : AddDistinct(q, s, F, near[k])[i] = F[i]
        BY <3>3, <3>5, DistinctGrows
      <3> QED
        BY <3>4, <3>6 DEF F
    <2> QED
      BY <2>1
  <1>6. ASSUME NEW w \in 0..n
        PROVE  Len(p[w]) <= Len(p[n]) /\ \A i \in 1..Len(p[w]) : p[n][i] = p[w][i]
    <2> DEFINE T == {k \in 0..n : k >= w => Len(p[w]) <= Len(p[k]) /\ \A i \in 1..Len(p[w]) : p[k][i] = p[w][i]}
    <2>0. \A k \in 0..n : p[k] \in Seq(FoundChunks) /\ Len(p[k]) \in Nat
      BY <1>3
    <2>1. 0 \in T
      BY <1>2, <2>0
    <2>2. ASSUME NEW k \in 0..(n - 1), k \in T PROVE k + 1 \in T
      <3>1. k + 1 \in 1..n /\ (k + 1) - 1 = k /\ k + 1 \in 0..n /\ k \in 0..n
        BY <1>2
      <3>2. Len(p[k]) <= Len(p[k + 1]) /\ \A i \in 1..Len(p[k]) : p[k + 1][i] = p[k][i]
        BY <1>5, <3>1
      <3>3. CASE k >= w
        <4>1. Len(p[w]) <= Len(p[k]) /\ \A i \in 1..Len(p[w]) : p[k][i] = p[w][i]
          BY <2>2, <3>3
        <4>2. Len(p[w]) \in Nat /\ Len(p[k]) \in Nat /\ Len(p[k + 1]) \in Nat
          BY <2>0, <3>1
        <4>3. \A i \in 1..Len(p[w]) : i \in 1..Len(p[k])
          BY <4>1, <4>2
        <4>4. Len(p[w]) <= Len(p[k + 1]) /\ \A i \in 1..Len(p[w]) : p[k + 1][i] = p[w][i]
          BY <3>2, <4>1, <4>2, <4>3
        <4> QED
          BY <3>1, <4>4
      <3>4. CASE k + 1 = w
        BY <2>0, <3>1, <3>4
      <3>5. CASE k + 1 < w
        BY <1>2, <3>1, <3>5
      <3> QED
        BY <1>2, <3>3, <3>4, <3>5
    <2>3. \A k \in 0..n : k \in T
      <3> HIDE DEF T
      <3> QED
        BY <1>2, <2>1, <2>2, InductionTo
    <2>4. n \in 0..n /\ n >= w
      BY <1>2
    <2> QED
      BY <2>3, <2>4
  <1>7. ASSUME NEW w \in 0..n PROVE DistinctIn(q, s, First(near, w)) = p[w]
    <2> DEFINE window == First(near, w)
    <2>1. window \in Seq(D) /\ Len(window) = w /\ \A i \in 1..w : window[i] = near[i]
      BY <1>2, FirstType DEF Smaller
    <2> HIDE DEF window
    <2>2. PICK x \in [0..Len(window) -> Seq(FoundChunks)] :
            /\ x[0] = <<>> /\ \A k \in 1..Len(window) : x[k] = AddDistinct(q, s, x[k - 1], window[k])
            /\ DistinctIn(q, s, window) = x[Len(window)]
      BY <2>1, DistinctByPrefixes DEF D
    <2> DEFINE T == {k \in 0..w : x[k] = p[k]}
    <2>3. 0 \in T
      BY <1>2, <1>3, <2>2
    <2>4. ASSUME NEW k \in 0..(w - 1), k \in T PROVE k + 1 \in T
      <3>1. k + 1 \in 1..w /\ k + 1 \in 1..n /\ (k + 1) - 1 = k /\ k + 1 \in 0..w
        BY <1>2
      <3>2. x[k + 1] = AddDistinct(q, s, x[k], near[k + 1])
        BY <2>1, <2>2, <3>1
      <3>3. p[k + 1] = AddDistinct(q, s, p[k], near[k + 1])
        BY <1>3, <3>1
      <3> QED
        BY <2>4, <3>1, <3>2, <3>3
    <2>5. w \in Nat
      BY <1>2
    <2>6. \A k \in 0..w : k \in T
      <3> HIDE DEF T
      <3> QED
        BY <2>3, <2>4, <2>5, InductionTo
    <2>7. w \in 0..w
      BY <2>5
    <2> QED
      BY <2>1, <2>2, <2>6, <2>7 DEF window
  <1> QED
    BY <1>2, <1>3, <1>4, <1>6, <1>7 DEF IsDistinctBy, near

(* However the window grows, it ends with the first of all distinct chunks.*)
LEMMA WindowGrows ==
    ASSUME trusted \in Tables, match \in Matches, NEW q, q.limit \in Nat, NEW s, NEW p, IsDistinctBy(q, s, p)
    PROVE  VectorSearch(q, s) = First(p[Len(Nearest(trusted, s))], Bounded(q.limit))
  <1> DEFINE near == Nearest(trusted, s)
             n == Len(near)
             requested == Bounded(q.limit)
             hits(w) == DistinctIn(q, s, First(near, w))
             enough(w) == Len(hits(w)) >= requested \/ w = n
             S == 0..n
             A == Seq(FoundChunks)
             stop == {w \in S : enough(w) \/ w = 0}
             base == [w \in S |-> First(hits(w), requested)]
             next == [w \in S |-> IF w \in stop THEN w ELSE Smaller(2 * w, n)]
             F == [w \in S |-> [x \in A |-> x]]
             measure == [w \in S |-> n - w]
             Search(f) == [w \in 0..n |->
                             LET hitsIn == DistinctIn(q, s, First(near, w))
                             IN IF Len(hitsIn) >= requested \/ w = n THEN First(hitsIn, requested)
                                ELSE f[Smaller(2 * w, n)]]
             search == CHOOSE f : f = Search(f)
  <1>1. n \in Nat
    BY NearestInOrder DEF InOrder
  <1>2. requested \in Nat \ {0}
    BY RetrievalAssumption DEF Bounded, Smaller
  <1>3. /\ \A w \in S : hits(w) = p[w] /\ hits(w) \in Seq(FoundChunks) /\ Len(hits(w)) \in Nat
        /\ \A w \in S : Len(hits(w)) <= Len(p[n]) /\ \A i \in 1..Len(hits(w)) : p[n][i] = hits(w)[i]
        /\ p[n] \in Seq(FoundChunks) /\ Len(p[n]) \in Nat
    BY <1>1 DEF IsDistinctBy
  <1>4. VectorSearch(q, s) = search[Smaller(NearestFactor * requested, n)]
    BY DEF VectorSearch
  <1> HIDE DEF near, n, requested, hits
  <1>5. ASSUME NEW w \in S, w \notin stop PROVE w \in Nat /\ w > 0 /\ w < n /\ Smaller(2 * w, n) \in S /\ Smaller(2 * w, n) > w
    BY <1>1, <1>5 DEF Smaller
  <1>6. \E f : Recursion(S, A, stop, base, next, F, f)
    <2>1. measure \in [S -> 0..n] /\ next \in [S -> S] /\ F \in [S -> [A -> A]]
      BY <1>1, <1>5
    <2>2. base \in [S -> A]
      BY <1>2, <1>3, FirstType
    <2>3. \A w \in S \ stop : measure[next[w]] < measure[w]
      BY <1>1, <1>5
    <2> HIDE DEF S, A, stop, base, next, F, measure
    <2> QED
      BY <1>1, <2>1, <2>2, <2>3, RecursionExists
  <1>7. PICK f : Recursion(S, A, stop, base, next, F, f)
    BY <1>6
  <1>8. f = Search(f)
    <2>1. f \in [S -> A] /\ \A w \in S : f[w] = IF w \in stop THEN base[w] ELSE F[w][f[next[w]]]
      BY <1>7 DEF Recursion
    <2>2. ASSUME NEW w \in S
          PROVE  f[w] = IF enough(w) THEN First(hits(w), requested) ELSE f[Smaller(2 * w, n)]
      <3>1. CASE enough(w)
        <4>1. w \in stop
          BY <3>1
        <4>2. f[w] = base[w]
          BY <2>1, <4>1
        <4> HIDE DEF enough
        <4> QED
          BY <3>1, <4>2
      <3>2. CASE ~enough(w) /\ w = 0
        <4>1. Smaller(2 * w, n) = w
          BY <1>1, <3>2 DEF Smaller
        <4> HIDE DEF enough
        <4> QED
          BY <3>2, <4>1
      <3>3. CASE ~enough(w) /\ w # 0
        <4>1. w \notin stop
          BY <3>3
        <4>2. next[w] = Smaller(2 * w, n) /\ next[w] \in S
          BY <1>5, <4>1
        <4>3. f[next[w]] \in A
          BY <2>1, <4>2
        <4>4. f[w] = F[w][f[next[w]]]
          BY <2>1, <4>1
        <4>5. f[w] = f[next[w]]
          BY <4>3, <4>4
        <4> HIDE DEF enough, next
        <4> QED
          BY <3>3, <4>2, <4>5
      <3> HIDE DEF enough
      <3> QED
        BY <3>1, <3>2, <3>3
    <2>3. f = [w \in 0..n |-> f[w]]
      BY <2>1
    <2> HIDE DEF stop, base, next, F, measure
    <2> QED
      BY <2>2, <2>3 DEF hits
  <1>9. search = Search(search)
    <2> HIDE DEF Search
    <2> QED
      BY <1>8
  <1>10. \A w \in S : search[w] = IF enough(w) THEN First(hits(w), requested) ELSE search[Smaller(2 * w, n)]
    <2> HIDE DEF search
    <2> QED
      BY <1>9 DEF hits
  <1>11. ASSUME NEW w \in S, enough(w) PROVE First(hits(w), requested) = First(p[n], requested)
    <2> DEFINE x == First(hits(w), requested)
               y == First(p[n], requested)
               l == Len(hits(w))
    <2>1. /\ x \in Seq(FoundChunks) /\ Len(x) = Smaller(requested, l) /\ \A i \in 1..Len(x) : x[i] = hits(w)[i]
      BY <1>2, <1>3, FirstType
    <2>2. /\ y \in Seq(FoundChunks) /\ Len(y) = Smaller(requested, Len(p[n])) /\ \A i \in 1..Len(y) : y[i] = p[n][i]
      BY <1>2, <1>3, FirstType
    <2> HIDE DEF x, y
    <2>3. Len(x) = Len(y) /\ Len(x) <= l /\ Len(x) \in Nat
      <3>1. CASE w = n
        BY <1>2, <1>3, <2>1, <2>2, <3>1 DEF Smaller
      <3>2. CASE l >= requested
        BY <1>2, <1>3, <2>1, <2>2, <3>2 DEF Smaller
      <3> QED
        BY <1>11, <3>1, <3>2
    <2>4. \A i \in 1..Len(x) : x[i] = y[i]
      <3>1. \A i \in 1..Len(x) : i \in 1..l
        BY <1>3, <2>3
      <3> QED
        BY <1>3, <2>1, <2>2, <2>3, <3>1
    <2>5. x = y
      BY <2>1, <2>2, <2>3, <2>4, SameSequence
    <2> QED
      BY <2>5 DEF x, y
  <1> HIDE DEF search
  <1>12. \A w \in S : w # 0 \/ w = n => search[w] = First(p[n], requested)
    <2> DEFINE T == {w \in S : w # 0 \/ w = n => search[w] = First(p[n], requested)}
    <2>1. ASSUME NEW w \in S, \A v \in S : measure[v] < measure[w] => v \in T PROVE w \in T
      <3>1. CASE enough(w)
        <4>1. search[w] = First(hits(w), requested)
          BY <1>10, <3>1
        <4>2. First(hits(w), requested) = First(p[n], requested)
          BY <1>11, <3>1
        <4> QED
          BY <4>1, <4>2
      <3>2. CASE ~enough(w) /\ w = 0
        BY <1>1, <3>2
      <3>3. CASE ~enough(w) /\ w # 0
        <4> DEFINE v == Smaller(2 * w, n)
        <4>1. v \in S /\ v > w /\ v # 0 /\ measure[v] < measure[w]
          BY <1>1, <1>5, <3>3
        <4>2. search[w] = search[v]
          BY <1>10, <3>3
        <4> HIDE DEF v
        <4>3. search[v] = First(p[n], requested)
          BY <2>1, <4>1
        <4> QED
          BY <4>2, <4>3
      <3> HIDE DEF enough
      <3> QED
        BY <3>1, <3>2, <3>3
    <2>2. measure \in [S -> Nat]
      BY <1>1
    <2>3. S \subseteq T
      <3> HIDE DEF S, T, measure
      <3> QED
        BY <2>1, <2>2, MeasureInduction
    <2> QED
      BY <2>3
  <1>13. Smaller(NearestFactor * requested, n) \in S
         /\ (Smaller(NearestFactor * requested, n) # 0 \/ Smaller(NearestFactor * requested, n) = n)
    <2>1. \A x, y \in Nat \ {0} : x * y \in Nat \ {0}
      OBVIOUS
    <2>2. NearestFactor * requested \in Nat \ {0}
      BY <1>2, <2>1, RetrievalAssumption
    <2> DEFINE k == NearestFactor * requested
    <2> HIDE DEF k
    <2>3. k \in Nat \ {0}
      BY <2>2 DEF k
    <2>4. Smaller(k, n) \in S /\ (Smaller(k, n) # 0 \/ Smaller(k, n) = n)
      BY <1>1, <2>3 DEF Smaller
    <2> QED
      BY <2>4 DEF k
  <1> QED
    BY <1>4, <1>12, <1>13 DEF n, near, requested

(* The distinct chunks of all documents are the admitted ones, by the       *)
(* distances of their nearest pieces.                                      *)
Admitted(q, s) == {c \in ChunkIds(trusted, s) : Allowed(q, s, c[1], trusted[c[1]])}
DistanceOf(q, s) ==
    [c \in Admitted(q, s) |->
       Min({match.distance[d] : d \in {e \in Documents(trusted, s) : <<e[1], e[2]>> = c}})]

LEMMA AllDistinct ==
    ASSUME trusted \in Tables, match \in Matches, NEW q, NEW s,
           NEW F, IsDistinct(q, s, Nearest(trusted, s), Len(Nearest(trusted, s)), F)
    PROVE  /\ Cardinality(Admitted(q, s)) = Len(F)
           /\ \A i \in 1..Len(F) :
                /\ F[i].chunk \in Admitted(q, s)
                /\ F[i].chunk = ByDistance(Admitted(q, s), DistanceOf(q, s))[i]
                /\ F[i].distance = DistanceOf(q, s)[F[i].chunk]
  <1> DEFINE D == Documents(trusted, s)
             near == Nearest(trusted, s)
             n == Cardinality(D)
             C == Admitted(q, s)
             distance == DistanceOf(q, s)
             l == Len(F)
             G == [i \in 1..l |-> F[i].chunk]
             R == {x \in C \X C : distance[x[1]] < distance[x[2]]}
  <1>1. InOrder(D, Near(s), near)
    BY NearestInOrder
  <1>2. /\ n \in Nat /\ Len(near) = n /\ \A m \in 1..n : near[m] \in D
        /\ \A d \in D : \E m \in 1..n : near[m] = d
        /\ \A m, o \in 1..n : m < o <=> <<near[m], near[o]>> \in Near(s)
    BY <1>1 DEF InOrder
  <1>3. IsDistinct(q, s, near, n, F)
    BY <1>2
  <1> HIDE DEF near, n, D
  <1>4. F \in Seq(FoundChunks) /\ l \in Nat
    BY <1>3 DEF IsDistinct
  <1>5. ASSUME NEW i \in 1..l PROVE F[i] \in FoundChunks
    BY <1>4
  <1>6. \A d \in D : /\ match.distance[d] \in Nat /\ ChunkOf(d) \in ChunkIds(trusted, s) /\ ChunkOf(d)[1] = d[1]
                     /\ \A e \in D : match.distance[d] = match.distance[e] => d = e
    BY DistanceType DEF D
  <1>7. ASSUME NEW i \in 1..l
        PROVE  F[i].chunk \in C /\ F[i].distance = distance[F[i].chunk]
    <2>1. PICK m \in 1..n :
            /\ Admits(q, s, near[m]) /\ F[i].chunk = ChunkOf(near[m])
            /\ F[i].distance = match.distance[near[m]]
            /\ \A o \in 1..(m - 1) : ChunkOf(near[o]) # F[i].chunk
      BY <1>3 DEF IsDistinct
    <2>2. near[m] \in D
      BY <1>2
    <2> DEFINE c == F[i].chunk
               X == {match.distance[d] : d \in {e \in D : <<e[1], e[2]>> = c}}
    <2>3. c \in C
      BY <1>6, <2>1, <2>2 DEF Admitted, Admits
    <2>4. F[i].distance \in X
      BY <2>1, <2>2 DEF ChunkOf
    <2>5. X \subseteq Nat /\ X # {}
      BY <1>6, <2>4
    <2>6. Min(X) \in X /\ \A x \in X : Min(X) <= x
      <3> HIDE DEF X
      <3> QED
        BY <2>5, MinOf
    <2>7. F[i].distance <= Min(X)
      <3>1. PICK d \in D : ChunkOf(d) = c /\ Min(X) = match.distance[d]
        BY <2>6 DEF ChunkOf
      <3>2. PICK o \in 1..n : near[o] = d
        BY <1>2
      <3>3. ~(o \in 1..(m - 1))
        BY <2>1, <3>1, <3>2
      <3>4. o = m \/ m < o
        BY <1>2, <3>3
      <3>5. CASE o = m
        BY <1>6, <2>1, <2>2, <3>1, <3>2, <3>5
      <3>6. CASE m < o
        <4>1. <<near[m], near[o]>> \in Near(s)
          BY <1>2, <3>6
        <4>2. match.distance[near[m]] < match.distance[near[o]]
          BY <4>1 DEF Near
        <4>3. match.distance[near[m]] \in Nat /\ match.distance[near[o]] \in Nat
          BY <1>2, <1>6
        <4> HIDE DEF X
        <4> QED
          BY <2>1, <3>1, <3>2, <4>2, <4>3
      <3> QED
        BY <3>4, <3>5, <3>6
    <2>8. F[i].distance = Min(X)
      <3> HIDE DEF X
      <3>1. F[i].distance \in Nat /\ Min(X) \in Nat /\ Min(X) <= F[i].distance
        BY <2>4, <2>5, <2>6
      <3> QED
        BY <2>7, <3>1
    <2>9. distance[c] = Min(X)
      BY <2>3 DEF DistanceOf, D
    <2> QED
      BY <2>3, <2>8, <2>9
  <1>8. ASSUME NEW c \in C PROVE \E i \in 1..l : F[i].chunk = c
    <2>1. PICK d \in D : ChunkOf(d) = c
      BY DocumentsType DEF D, ChunkOf, Admitted
    <2>2. PICK m \in 1..n : near[m] = d
      BY <1>2
    <2>3. Admits(q, s, near[m])
      BY <1>6, <2>1, <2>2 DEF Admits, Admitted
    <2> QED
      BY <1>3, <2>1, <2>2, <2>3 DEF IsDistinct
  <1>9. \A i, j \in 1..l : i < j => F[i].distance < F[j].distance /\ F[i].chunk # F[j].chunk
    BY <1>3 DEF IsDistinct
  <1> HIDE DEF C, distance, l
  <1>10. \A i, j \in 1..l : i # j => F[i].chunk # F[j].chunk
    <2>1. \A i, j \in 1..l : i # j => i < j \/ j < i
      BY <1>4
    <2> QED
      BY <1>9, <2>1
  <1>11. IsFiniteSet(C) /\ Cardinality(C) = l
    <2>1. G \in [1..l -> C] /\ (\A i, j \in 1..l : i # j => G[i] # G[j]) /\ \A c \in C : \E i \in 1..l : G[i] = c
      BY <1>7, <1>8, <1>10
    <2> DEFINE N == 1..l
    <2>2. G \in Bijection(N, C)
      <3> HIDE DEF G
      <3> QED
        BY <2>1, Fun_IsBij
    <2>3. IsFiniteSet(N) /\ Cardinality(N) = l
      BY <1>4, FS_Interval
    <2> HIDE DEF N, G
    <2> QED
      BY <2>2, <2>3, FS_Bijection DEF ExistsBijection
  <1>12. \A a \in C : distance[a] \in Nat
    <2>1. \A i \in 1..l : F[i].distance \in Nat
      BY <1>5 DEF FoundChunks
    <2> QED
      BY <1>7, <1>8, <2>1
  <1>13. \A a, b \in C : distance[a] = distance[b] => a = b
    <2>1. \A i, j \in 1..l : i # j => F[i].distance # F[j].distance
      <3>1. \A i, j \in 1..l : i # j => i < j \/ j < i
        BY <1>4
      <3>2. \A i \in 1..l : F[i].distance \in Nat
        BY <1>5 DEF FoundChunks
      <3> QED
        BY <1>9, <3>1, <3>2
    <2> QED
      BY <1>7, <1>8, <2>1
  <1>14. InOrder(C, R, ByDistance(C, distance))
    BY <1>11, <1>12, <1>13, ByDistanceInOrder
  <1>15. InOrder(C, R, G)
    <2>1. G \in [1..l -> C]
      BY <1>7
    <2>2. G \in Seq(C) /\ Len(G) = l /\ DOMAIN G = 1..l
      <3> HIDE DEF G
      <3> QED
        BY <1>4, <2>1, IsSequence
    <2>3. \A a \in C : \E i \in 1..l : G[i] = a
      BY <1>8
    <2>4. ASSUME NEW i \in 1..l, NEW j \in 1..l PROVE i < j <=> <<G[i], G[j]>> \in R
      <3>1. G[i] \in C /\ G[j] \in C /\ distance[G[i]] = F[i].distance /\ distance[G[j]] = F[j].distance
        BY <1>7
      <3>2. F[i].distance \in Nat /\ F[j].distance \in Nat
        BY <1>5 DEF FoundChunks
      <3>3. i < j <=> F[i].distance < F[j].distance
        <4>1. i < j \/ j < i \/ i = j
          BY <1>4
        <4>2. CASE i < j
          BY <1>9, <4>2
        <4>3. CASE j < i
          <5>1. F[j].distance < F[i].distance /\ ~(i < j)
            BY <1>4, <1>9, <4>3
          <5> QED
            BY <3>2, <5>1
        <4>4. CASE i = j
          <5>1. ~(i < j)
            BY <1>4, <4>4
          <5> QED
            BY <3>2, <4>4, <5>1
        <4> QED
          BY <4>1, <4>2, <4>3, <4>4
      <3>4. <<G[i], G[j]>> \in R <=> distance[G[i]] < distance[G[j]]
        BY <3>1
      <3> QED
        BY <3>1, <3>3, <3>4
    <2> HIDE DEF G, R
    <2> QED
      BY <1>4, <1>11, <2>1, <2>2, <2>3, <2>4 DEF InOrder
  <1>16. G = ByDistance(C, distance)
    <2> HIDE DEF G, R
    <2> QED
      BY <1>14, <1>15, OneOrder
  <1>17. \A i \in 1..l : F[i].chunk = ByDistance(C, distance)[i]
    BY <1>16
  <1> QED
    BY <1>7, <1>11, <1>17 DEF C, distance, l

(* The search finds the nearest admitted chunks, all there are or as many  *)
(* as are asked for.                                                       *)
LEMMA VectorSearchFinds ==
    ASSUME trusted \in Tables, match \in Matches, NEW q, q.limit \in Nat, NEW s
    PROVE  /\ VectorSearch(q, s) = NearestAdmitted(q, s)
           /\ VectorSearch(q, s) \in Seq(FoundChunks)
           /\ \A i \in 1..Len(VectorSearch(q, s)) : VectorSearch(q, s)[i].chunk \in Admitted(q, s)
           /\ \A i, j \in 1..Len(VectorSearch(q, s)) :
                VectorSearch(q, s)[i].chunk = VectorSearch(q, s)[j].chunk => i = j
  <1> DEFINE near == Nearest(trusted, s)
             n == Len(near)
             requested == Bounded(q.limit)
             C == Admitted(q, s)
             distance == DistanceOf(q, s)
             nearest == ByDistance(C, distance)
  <1>1. PICK p : IsDistinctBy(q, s, p)
    BY DistinctByDistance
  <1> DEFINE F == p[n]
             found1 == First(F, requested)
  <1>2. VectorSearch(q, s) = found1
    BY <1>1, WindowGrows
  <1>3. n \in Nat
    BY NearestInOrder DEF InOrder
  <1>4. IsDistinct(q, s, near, n, F) /\ F \in Seq(FoundChunks) /\ Len(F) \in Nat
    BY <1>1, <1>3 DEF IsDistinctBy
  <1>5. requested \in Nat \ {0}
    BY RetrievalAssumption DEF Bounded, Smaller
  <1>6. Cardinality(C) = Len(F)
        /\ \A i \in 1..Len(F) : F[i].chunk \in C /\ F[i].chunk = nearest[i] /\ F[i].distance = distance[F[i].chunk]
    <2> HIDE DEF F
    <2> QED
      BY <1>4, AllDistinct
  <1>7. \A i, j \in 1..Len(F) : F[i].chunk = F[j].chunk => i = j
    <2>1. \A i, j \in 1..Len(F) : i < j => F[i].chunk # F[j].chunk
      BY <1>4 DEF IsDistinct
    <2>2. \A i, j \in 1..Len(F) : i < j \/ j < i \/ i = j
      BY <1>4
    <2> QED
      BY <2>1, <2>2
  <1> HIDE DEF F, requested
  <1> DEFINE m == Len(found1)
  <1>8. /\ found1 \in Seq(FoundChunks) /\ m = Smaller(requested, Len(F)) /\ m \in Nat /\ m <= Len(F)
        /\ \A i \in 1..m : found1[i] = F[i] /\ i \in 1..Len(F)
    BY <1>4, <1>5, FirstType
  <1> HIDE DEF found1, m
  <1>9. ASSUME NEW i \in 1..m
        PROVE  found1[i] = [chunk |-> nearest[i], distance |-> distance[nearest[i]]]
    <2>1. F[i] \in FoundChunks /\ found1[i] = F[i] /\ i \in 1..Len(F)
      BY <1>4, <1>8
    <2>2. F[i] = [chunk |-> F[i].chunk, distance |-> F[i].distance]
      BY <2>1 DEF FoundChunks
    <2> HIDE DEF nearest, distance, C
    <2>3. F[i].chunk = nearest[i] /\ F[i].distance = distance[nearest[i]]
      BY <1>6, <2>1
    <2> QED
      BY <2>1, <2>2, <2>3
  <1>10. found1 = [i \in 1..m |-> [chunk |-> nearest[i], distance |-> distance[nearest[i]]]]
    <2>1. found1 = [i \in 1..m |-> found1[i]]
      BY <1>8 DEF m
    <2> HIDE DEF nearest, distance, C
    <2> QED
      BY <1>9, <2>1
  <1>11. NearestAdmitted(q, s) = [i \in 1..Smaller(requested, Cardinality(C)) |->
                                   [chunk |-> nearest[i], distance |-> distance[nearest[i]]]]
    BY DEF NearestAdmitted, Admitted, DistanceOf, requested
  <1>12. found1 = NearestAdmitted(q, s)
    <2> HIDE DEF nearest, distance, C
    <2> QED
      BY <1>6, <1>8, <1>10, <1>11
  <1> HIDE DEF nearest, distance, C
  <1>13. \A i \in 1..m : found1[i].chunk \in C
    BY <1>6, <1>8
  <1>14. \A i, j \in 1..m : found1[i].chunk = found1[j].chunk => i = j
    BY <1>7, <1>8
  <1> QED
    BY <1>2, <1>8, <1>12, <1>13, <1>14 DEF m, C

-----------------------------------------------------------------------------
(* Fusion.                                                                 *)

LEMMA RankOfType ==
    ASSUME NEW S, NEW seq \in Seq(S), NEW r, \E i \in 1..Len(seq) : seq[i].chunk[1] = r
    PROVE  RankOf(r, seq) \in 1..Len(seq) /\ seq[RankOf(r, seq)].chunk[1] = r
  <1> DEFINE X == {i \in DOMAIN seq : seq[i].chunk[1] = r}
  <1>1. Len(seq) \in Nat /\ DOMAIN seq = 1..Len(seq)
    OBVIOUS
  <1>2. X \subseteq Nat /\ X # {}
    BY <1>1
  <1>3. Min(X) \in X
    <2> HIDE DEF X
    <2> QED
      BY <1>2, MinOf
  <1> QED
    BY <1>1, <1>3 DEF RankOf

LEMMA ReciprocalType ==
    ASSUME NEW rank \in Nat \ {0}
    PROVE  /\ Reciprocal(rank) \in Nat /\ Reciprocal(rank) <= 16393
           /\ rank <= 200 => Reciprocal(rank) >= 3846
  <1> DEFINE b == 60 + rank
             x == 1000000 \div b
  <1>1. b \in Nat /\ b >= 61 /\ (rank <= 200 => b <= 260)
    OBVIOUS
  <1> HIDE DEF b
  <1>2. x \in Nat /\ b * x <= 1000000 /\ 1000000 < b * x + b
    BY <1>1, SMT
  <1> HIDE DEF x
  <1>3. x <= 16393
    <2>1. SUFFICES ASSUME x >= 16394 PROVE FALSE
      BY <1>2
    <2>2. 61 * 16394 <= b * x
      BY <1>1, <1>2, <2>1
    <2> QED
      BY <1>1, <1>2, <2>2, SMT
  <1>4. ASSUME rank <= 200 PROVE x >= 3846
    <2>1. SUFFICES ASSUME x <= 3845 PROVE FALSE
      BY <1>2
    <2>2. b * x <= 260 * 3845
      BY <1>1, <1>2, <1>4, <2>1
    <2> QED
      BY <1>1, <1>2, <1>4, <2>2
  <1>5. x \in Nat /\ x <= 16393 /\ (rank <= 200 => x >= 3846)
    BY <1>2, <1>3, <1>4
  <1>6. Reciprocal(rank) = x
    BY SMT DEF Reciprocal, x, b
  <1> QED
    BY <1>5, <1>6

(* What is needed of the hits that are ranked.                             *)
Rankable ==
    /\ lexical \in SUBSET LexicalHits /\ IsFiniteSet(lexical) /\ Unrepeated(lexical)
    /\ semantic \in SUBSET SemanticHits /\ IsFiniteSet(semantic) /\ Unrepeated(semantic)
    /\ \A h \in lexical : IF h.reason \in Naming THEN h.score >= 120 ELSE h.score <= 90
    /\ Cardinality(lexical) <= 200

LEMMA HitType ==
    ASSUME NEW reasons, NEW h \in HitsOf(reasons)
    PROVE  /\ h.chunk \in Records \X Nat /\ h.chunk[1] \in Records /\ h.score \in Nat /\ h.reason \in reasons
           /\ h.row \in Rows /\ h.row \in RowsOf(h.chunk[1]) /\ h.chunk \in ChunksOf(h.chunk[1], h.row)
           /\ h = [chunk |-> h.chunk, row |-> h.row, reason |-> h.reason, score |-> h.score]
  <1>1. /\ h \in [chunk : Records \X Nat, row : Rows, reason : reasons, score : Nat]
        /\ h.row \in RowsOf(h.chunk[1]) /\ h.chunk \in ChunksOf(h.chunk[1], h.row)
    BY DEF HitsOf
  <1>2. h.chunk \in Records \X Nat
    BY <1>1
  <1>3. h.chunk[1] \in Records
    BY <1>2
  <1>4. h.score \in Nat /\ h.reason \in reasons /\ h.row \in Rows
        /\ h = [chunk |-> h.chunk, row |-> h.row, reason |-> h.reason, score |-> h.score]
    BY <1>1
  <1> QED
    BY <1>1, <1>2, <1>3, <1>4

(* A hit of a fused record is one of its hits with another score, in which *)
(* the boost of a record that is named outweighs two first ranks.          *)
FusedFrom(r, f, current) ==
    \E h \in lexical \cup semantic :
      LET extra == IF ScopeOf(h) = current THEN 10000 ELSE 0 IN
      /\ h.chunk[1] = r /\ f.score \in Nat
      /\ f = [chunk |-> h.chunk, row |-> h.row, reason |-> h.reason, score |-> f.score]
      /\ IF h.reason \in Naming THEN f.score >= extra + 33846 ELSE f.score <= extra + 32786

LEMMA FusedHitType ==
    ASSUME Rankable, NEW current, NEW r, \E h \in lexical \cup semantic : h.chunk[1] = r
    PROVE  FusedFrom(r, FusedHit(r, SortHits(lexical, current), SortSemantic(semantic, current), current), current)
  <1> DEFINE lex == SortHits(lexical, current)
             sem == SortSemantic(semantic, current)
             inLex == \E i \in DOMAIN lex : lex[i].chunk[1] = r
             inSem == \E i \in DOMAIN sem : sem[i].chunk[1] = r
             l == lex[RankOf(r, lex)]
             v == sem[RankOf(r, sem)]
             hit == CASE inLex /\ inSem -> IF v.score >= l.score THEN v ELSE l
                      [] inLex /\ ~inSem -> l
                      [] OTHER -> v
             lexScore == IF inLex THEN Reciprocal(RankOf(r, lex)) ELSE 0
             semScore == IF inSem THEN Reciprocal(RankOf(r, sem)) ELSE 0
             boost == FusedBoost(hit, current)
             f == [hit EXCEPT !.score = lexScore + semScore + boost]
  <1>1. \A h \in lexical : h.chunk \in Records \X Nat /\ h.score \in Nat /\ h.reason \in Reasons
          /\ h = [chunk |-> h.chunk, row |-> h.row, reason |-> h.reason, score |-> h.score]
    BY HitType DEF Rankable, LexicalHits
  <1>2. \A h \in semantic : h.chunk \in Records \X Nat /\ h.score \in Nat /\ h.reason = "vector"
          /\ h = [chunk |-> h.chunk, row |-> h.row, reason |-> h.reason, score |-> h.score]
    BY HitType DEF Rankable, SemanticHits
  <1>3. InOrder(lexical, HitOrder(lexical, current), lex) /\ InOrder(semantic, SemanticOrder(semantic, current), sem)
    BY <1>1, <1>2, SortHitsInOrder, SortSemanticInOrder DEF Rankable, AreHits
  <1>4. /\ lex \in Seq(lexical) /\ Len(lex) = Cardinality(lexical) /\ Len(lex) \in Nat /\ DOMAIN lex = 1..Len(lex)
        /\ (\A i \in 1..Len(lex) : lex[i] \in lexical) /\ \A h \in lexical : \E i \in 1..Len(lex) : lex[i] = h
    BY <1>3 DEF InOrder
  <1>5. /\ sem \in Seq(semantic) /\ Len(sem) \in Nat /\ DOMAIN sem = 1..Len(sem)
        /\ (\A i \in 1..Len(sem) : sem[i] \in semantic) /\ \A h \in semantic : \E i \in 1..Len(sem) : sem[i] = h
    BY <1>3 DEF InOrder
  <1>6. FusedHit(r, lex, sem, current) = f
    BY DEF FusedHit
  <1> HIDE DEF lex, sem
  <1>7. inLex \/ inSem
    BY <1>4, <1>5
  <1> DEFINE rl == RankOf(r, lex)
             rs == RankOf(r, sem)
             xl == Reciprocal(rl)
             xs == Reciprocal(rs)
  <1>8. ASSUME inLex
        PROVE  l \in lexical /\ l.chunk[1] = r /\ xl \in Nat /\ xl >= 3846 /\ xl <= 16393
    <2>1. rl \in 1..Len(lex) /\ l.chunk[1] = r
      BY <1>4, <1>8, RankOfType
    <2>2. l \in lexical
      BY <1>4, <2>1
    <2> HIDE DEF rl
    <2>3. rl \in Nat \ {0} /\ rl <= 200
      BY <1>4, <2>1 DEF Rankable
    <2>4. xl \in Nat /\ xl <= 16393 /\ xl >= 3846
      BY <2>3, ReciprocalType, SMT
    <2> HIDE DEF xl, l
    <2> QED
      BY <2>1, <2>2, <2>4, SMT
  <1>9. ASSUME inSem
        PROVE  v \in semantic /\ v.chunk[1] = r /\ xs \in Nat /\ xs <= 16393
    <2>1. rs \in 1..Len(sem) /\ v.chunk[1] = r
      BY <1>5, <1>9, RankOfType
    <2>2. v \in semantic
      BY <1>5, <2>1
    <2> HIDE DEF rs
    <2>3. rs \in Nat \ {0}
      BY <1>5, <2>1
    <2>4. xs \in Nat /\ xs <= 16393
      BY <2>3, ReciprocalType, SMT
    <2> HIDE DEF xs, v
    <2> QED
      BY <2>1, <2>2, <2>4, SMT
  <1> HIDE DEF inLex, inSem
  <1>10. /\ lexScore \in Nat /\ lexScore <= 16393 /\ (inLex => lexScore >= 3846)
         /\ semScore \in Nat /\ semScore <= 16393
    <2>1. lexScore = (IF inLex THEN xl ELSE 0) /\ semScore = (IF inSem THEN xs ELSE 0)
      OBVIOUS
    <2> HIDE DEF lexScore, semScore, xl, xs
    <2> QED
      BY <1>8, <1>9, <2>1, SMT
  <1>11. hit \in lexical \cup semantic /\ hit.chunk[1] = r /\ (hit \in lexical => inLex \/ hit \in semantic)
    <2>1. hit \in {l, v} /\ (hit = l => inLex \/ l = v) /\ (hit = v => inSem \/ l = v)
      <3> HIDE DEF l, v
      <3> QED
        BY <1>7
    <2>2. (inLex => l \in lexical /\ l.chunk[1] = r) /\ (inSem => v \in semantic /\ v.chunk[1] = r)
      BY <1>8, <1>9
    <2> HIDE DEF hit, l, v
    <2> QED
      BY <1>7, <2>1, <2>2
  <1>12. hit.reason \in Naming => inLex
    <2>1. "vector" \notin Naming
      BY DEF Naming
    <2> HIDE DEF hit
    <2> QED
      BY <1>2, <1>11, <2>1
  <1> HIDE DEF hit, lexScore, semScore
  <1> DEFINE extra == IF ScopeOf(hit) = current THEN 10000 ELSE 0
  <1>13. boost \in Nat /\ (hit.reason \in Naming => boost >= extra + 30000) /\ (hit.reason \notin Naming => boost = extra)
    BY SMT DEF FusedBoost, Naming
  <1>14. extra \in Nat
    BY SMT
  <1> DEFINE score == lexScore + semScore + boost
  <1> HIDE DEF boost, extra
  <1>15. score \in Nat /\ IF hit.reason \in Naming THEN score >= extra + 33846 ELSE score <= extra + 32786
    <2>1. CASE hit.reason \in Naming
      BY <1>10, <1>12, <1>13, <1>14, <2>1, SMT
    <2>2. CASE hit.reason \notin Naming
      BY <1>10, <1>13, <1>14, <2>2, SMT
    <2> HIDE DEF score
    <2> QED
      BY <2>1, <2>2, SMT
  <1>16. hit = [chunk |-> hit.chunk, row |-> hit.row, reason |-> hit.reason, score |-> hit.score]
    BY <1>1, <1>2, <1>11
  <1>17. f = [chunk |-> hit.chunk, row |-> hit.row, reason |-> hit.reason, score |-> score]
    <2> HIDE DEF score
    <2>1. f = [hit EXCEPT !.score = score]
      BY DEF score
    <2> HIDE DEF f
    <2> QED
      BY <1>16, <2>1
  <1> HIDE DEF score, f
  <1>18. f.score = score
    BY <1>17
  <1> QED
    BY <1>6, <1>11, <1>15, <1>17, <1>18 DEF FusedFrom, extra, lex, sem

(* The hits of a set with which ranks begin keep an order in which a named *)
(* record is worth more than the others of its scope.                      *)
LEMMA NamedInOrder ==
    ASSUME NEW S, AreHits(S), Unrepeated(S), NEW current,
           \A a, b \in S : ScopeOf(a) = ScopeOf(b) /\ b.reason \in Naming /\ a.reason \notin Naming => a.score < b.score
    PROVE  /\ SortHits(S, current) \in Seq(S) /\ Len(SortHits(S, current)) \in Nat
           /\ \A i \in 1..Len(SortHits(S, current)) : SortHits(S, current)[i] \in S
           /\ \A i, j \in 1..Len(SortHits(S, current)) :
                LET a == SortHits(S, current)[i]
                    b == SortHits(S, current)[j]
                IN i < j /\ ScopeOf(a) = ScopeOf(b) /\ b.reason \in Naming => a.reason \in Naming
  <1> DEFINE f == SortHits(S, current)
             n == Len(f)
  <1>1. InOrder(S, HitOrder(S, current), f)
    BY SortHitsInOrder
  <1> HIDE DEF f
  <1>2. /\ f \in Seq(S) /\ n \in Nat /\ (\A i \in 1..n : f[i] \in S)
        /\ \A i, j \in 1..n : i < j => <<f[i], f[j]>> \in HitOrder(S, current)
    BY <1>1 DEF InOrder
  <1> HIDE DEF n
  <1>3. ASSUME NEW i \in 1..n, NEW j \in 1..n, i < j, ScopeOf(f[i]) = ScopeOf(f[j]), f[j].reason \in Naming
        PROVE  f[i].reason \in Naming
    <2> DEFINE a == f[i]
               b == f[j]
    <2>1. a \in S /\ b \in S
      BY <1>2
    <2>2. Before(current, a, b)
      BY <1>2, <1>3 DEF HitOrder
    <2> HIDE DEF a, b
    <2>3. ScopeOf(a) = ScopeOf(b) /\ b.reason \in Naming
      BY <1>3 DEF a, b
    <2>4. a.score \in Nat /\ b.score \in Nat
      BY <2>1 DEF AreHits
    <2>5. a.score >= b.score
      <3> DEFINE rank == ScopeRank(ScopeOf(b), current)
      <3>1. rank \in Nat
        BY ScopeRankType
      <3>2. \/ rank > rank
            \/ rank = rank /\ a.score > b.score
            \/ rank = rank /\ a.score = b.score /\ IdsBefore(a, b)
        BY <2>2, <2>3 DEF Before
      <3> HIDE DEF rank
      <3> QED
        BY <2>4, <3>1, <3>2
    <2>6. a.reason \in Naming
      BY <2>1, <2>3, <2>4, <2>5
    <2> QED
      BY <2>6 DEF a
  <1> QED
    BY <1>2, <1>3 DEF f, n

LEMMA RankedType ==
    ASSUME Rankable
    PROVE  /\ Ranked \in Seq(AllHits) /\ Len(Ranked) \in Nat
           /\ \A i \in 1..Len(Ranked) : \E h \in lexical \cup semantic : h.chunk = Ranked[i].chunk /\ h.row = Ranked[i].row
           /\ \A i, j \in 1..Len(Ranked) :
                i < j /\ ScopeOf(Ranked[i]) = ScopeOf(Ranked[j]) /\ Ranked[j].reason \in Naming
                => Ranked[i].reason \in Naming
  <1> DEFINE current == CurrentOf(query)
  <1>1. \A h \in lexical : h \in LexicalHits /\ h.chunk \in Records \X Nat /\ h.score \in Nat
    BY HitType DEF Rankable, LexicalHits
  <1>2. \A h \in semantic : h \in SemanticHits /\ h.chunk \in Records \X Nat /\ h.score \in Nat
    BY HitType DEF Rankable, SemanticHits
  <1>3. LexicalHits \subseteq AllHits /\ SemanticHits \subseteq AllHits
    BY DEF LexicalHits, SemanticHits, AllHits, HitsOf
  <1> HIDE DEF current
  <1>4. CASE query.mode = "lexical"
    <2>1. AreHits(lexical) /\ Unrepeated(lexical)
      BY <1>1 DEF AreHits, Rankable
    <2>2. \A a, b \in lexical : ScopeOf(a) = ScopeOf(b) /\ b.reason \in Naming /\ a.reason \notin Naming => a.score < b.score
      BY <1>1 DEF Rankable
    <2>3. Ranked = SortHits(lexical, current)
      BY <1>4 DEF Ranked, current
    <2>4. Ranked \in Seq(lexical) /\ Len(Ranked) \in Nat /\ \A i \in 1..Len(Ranked) : Ranked[i] \in lexical
      BY <2>1, <2>2, <2>3, NamedInOrder
    <2>5. \A i, j \in 1..Len(Ranked) :
            i < j /\ ScopeOf(Ranked[i]) = ScopeOf(Ranked[j]) /\ Ranked[j].reason \in Naming
            => Ranked[i].reason \in Naming
      BY <2>1, <2>2, <2>3, NamedInOrder
    <2>6. Ranked \in Seq(AllHits)
      <3>1. lexical \subseteq AllHits
        BY <1>1, <1>3
      <3> QED
        BY <2>4, <3>1
    <2> QED
      BY <2>4, <2>5, <2>6
  <1>5. CASE query.mode # "lexical"
    <2> DEFINE H == lexical \cup semantic
               R == {h.chunk[1] : h \in H}
               fused(r) == FusedHit(r, SortHits(lexical, current), SortSemantic(semantic, current), current)
               S == {fused(r) : r \in R}
    <2>1. Ranked = SortHits(S, current)
      BY <1>5 DEF Ranked, FuseHits, current
    <2>2. ASSUME NEW r \in R PROVE FusedFrom(r, fused(r), current)
      <3>1. \E h \in lexical \cup semantic : h.chunk[1] = r
        OBVIOUS
      <3> QED
        BY <3>1, FusedHitType
    <2> HIDE DEF fused
    <2>3. ASSUME NEW f \in S
          PROVE  /\ f \in AllHits /\ f.chunk \in Records \X Nat /\ f.score \in Nat
                 /\ f = fused(f.chunk[1])
                 /\ \E h \in H : h.chunk = f.chunk /\ h.row = f.row
                 /\ LET extra == IF ScopeOf(f) = current THEN 10000 ELSE 0
                    IN IF f.reason \in Naming THEN f.score >= extra + 33846 ELSE f.score <= extra + 32786
      <3>1. PICK r \in R : f = fused(r)
        OBVIOUS
      <3>2. PICK h \in H :
               LET extra == IF ScopeOf(h) = current THEN 10000 ELSE 0 IN
               /\ h.chunk[1] = r /\ f.score \in Nat
               /\ f = [chunk |-> h.chunk, row |-> h.row, reason |-> h.reason, score |-> f.score]
               /\ IF h.reason \in Naming THEN f.score >= extra + 33846 ELSE f.score <= extra + 32786
        BY <2>2, <3>1, SMT DEF FusedFrom
      <3>3. h \in AllHits
        BY <1>1, <1>2, <1>3
      <3>4. f.chunk = h.chunk /\ f.row = h.row /\ f.reason = h.reason /\ ScopeOf(f) = ScopeOf(h)
        BY <3>2, SMT DEF ScopeOf
      <3>5. f.score \in Nat
        BY <3>2, SMT
      <3>6. f = [chunk |-> h.chunk, row |-> h.row, reason |-> h.reason, score |-> f.score]
        BY <3>2, SMT
      <3>7. f \in AllHits
        <4>1. /\ h.chunk \in Records \X Nat /\ h.row \in Rows /\ h.reason \in Reasons \cup {"vector"}
              /\ h.row \in RowsOf(h.chunk[1]) /\ h.chunk \in ChunksOf(h.chunk[1], h.row)
          BY <3>3, HitType DEF AllHits
        <4>2. f \in [chunk : Records \X Nat, row : Rows, reason : Reasons \cup {"vector"}, score : Nat]
          BY <3>5, <3>6, <4>1
        <4> QED
          BY <3>4, <4>1, <4>2 DEF AllHits, HitsOf
      <3>8. f.chunk \in Records \X Nat
        BY <1>1, <1>2, <3>4
      <3>9. LET extra == IF ScopeOf(f) = current THEN 10000 ELSE 0
            IN IF f.reason \in Naming THEN f.score >= extra + 33846 ELSE f.score <= extra + 32786
        BY <3>2, <3>4, SMT
      <3>10. f = fused(f.chunk[1])
        <4>1. h.chunk[1] = r
          BY <3>2, SMT
        <4> QED
          BY <3>1, <3>4, <4>1
      <3>11. \E g \in H : g.chunk = f.chunk /\ g.row = f.row
        BY <3>4
      <3> QED
        BY <3>5, <3>7, <3>8, <3>9, <3>10, <3>11
    <2>4. IsFiniteSet(S)
      <3>1. IsFiniteSet(H)
        BY FS_Union DEF Rankable
      <3> DEFINE g == [h \in H |-> fused(h.chunk[1])]
      <3>2. \A f \in S : \E h \in H : f = g[h]
        OBVIOUS
      <3> HIDE DEF g, S, H
      <3> QED
        BY <3>1, <3>2, FiniteImage
    <2> HIDE DEF S, H
    <2>5. AreHits(S) /\ Unrepeated(S)
      <3>1. \A f \in S : f.chunk \in Records \X Nat /\ f.score \in Nat /\ f = fused(f.chunk[1])
        BY <2>3
      <3> QED
        BY <2>4, <3>1 DEF AreHits, Unrepeated
    <2>6. ASSUME NEW a \in S, NEW b \in S, ScopeOf(a) = ScopeOf(b), b.reason \in Naming, a.reason \notin Naming
          PROVE  a.score < b.score
      <3> DEFINE extra == IF ScopeOf(b) = current THEN 10000 ELSE 0
      <3>1. extra \in Nat /\ a.score \in Nat /\ b.score \in Nat
        BY <2>3, SMT
      <3>2. b.score >= extra + 33846 /\ a.score <= extra + 32786
        BY <2>3, <2>6, SMT
      <3> HIDE DEF extra
      <3> QED
        BY <3>1, <3>2, SMT
    <2>7. Ranked \in Seq(S) /\ Len(Ranked) \in Nat /\ \A i \in 1..Len(Ranked) : Ranked[i] \in S
      BY <2>1, <2>5, <2>6, NamedInOrder
    <2>8. \A i, j \in 1..Len(Ranked) :
            i < j /\ ScopeOf(Ranked[i]) = ScopeOf(Ranked[j]) /\ Ranked[j].reason \in Naming
            => Ranked[i].reason \in Naming
      BY <2>1, <2>5, <2>6, NamedInOrder
    <2>9. S \subseteq AllHits /\ \A f \in S : \E h \in H : h.chunk = f.chunk /\ h.row = f.row
      BY <2>3
    <2>10. Ranked \in Seq(AllHits)
      BY <2>7, <2>9
    <2>11. \A i \in 1..Len(Ranked) : \E h \in H : h.chunk = Ranked[i].chunk /\ h.row = Ranked[i].row
      BY <2>7, <2>9
    <2> QED
      BY <2>7, <2>8, <2>10, <2>11 DEF H
  <1> QED
    BY <1>4, <1>5

-----------------------------------------------------------------------------
(* Contexts.                                                               *)

LEMMA WordLengthType ==
    ASSUME NEW hit \in AllHits, NEW w \in WordsOf(hit.row.body)
    PROVE  WordLength(hit, w) \in Nat \ {0}
  <1> DEFINE body == hit.row.body
  <1>1. body \in Seq(Lines)
    BY HitType, RowType DEF AllHits
  <1>2. WordLength(hit, w) = body[w[1]].words[w[2]]
    BY DEF WordLength
  <1> HIDE DEF body
  <1>3. PICK l \in 1..Len(body) : \E k \in 1..Len(body[l].words) : w = <<l, k>>
    BY DEF WordsOf, body
  <1>4. PICK k \in 1..Len(body[l].words) : w = <<l, k>>
    BY <1>3
  <1>5. body[l].words \in Seq(Nat \ {0})
    <2>1. body[l] \in Lines
      BY <1>1
    <2> QED
      BY <2>1 DEF Lines
  <1>6. body[l].words[k] \in Nat \ {0}
    BY <1>5
  <1> QED
    BY <1>2, <1>4, <1>6

LEMMA TextType ==
    ASSUME NEW hit \in AllHits
    PROVE  Text(hit) \in Seq(WordsOf(hit.row.body)) /\ Len(Text(hit)) \in Nat \ {0}
  <1> DEFINE body == hit.row.body
             n == hit.chunk[2]
  <1>1. body \in Seq(Lines)
    BY HitType, RowType DEF AllHits
  <1>2. n \in 1..Len(Chunks(body))
    BY HitType, ChunksOfType DEF AllHits
  <1>3. Chunks(body)[n].text \in Seq(WordsOf(body)) \ {<<>>}
    BY <1>1, <1>2, ChunksType
  <1> HIDE DEF body, n
  <1>4. \A s \in Seq(WordsOf(body)) \ {<<>>} : Len(s) \in Nat \ {0}
    OBVIOUS
  <1> QED
    BY <1>3, <1>4 DEF Text, body, n

(* The bytes of a text by its prefixes. *)
LEMMA BytesByPrefixes ==
    ASSUME NEW hit \in AllHits, NEW text \in Seq(WordsOf(hit.row.body))
    PROVE  \E p \in [0..Len(text) -> Nat] :
             /\ p[0] = 0
             /\ \A k \in 1..Len(text) : p[k] = p[k - 1] + WordLength(hit, text[k]) + (IF p[k - 1] = 0 THEN 0 ELSE 1)
             /\ ByteLength(hit, text) = p[Len(text)]
  <1> DEFINE n == Len(text)
             F == [k \in 1..n |-> [x \in Nat |-> x + WordLength(hit, text[k]) + (IF x = 0 THEN 0 ELSE 1)]]
             iter == CHOOSE g : g = [t \in SUBSET (DOMAIN text) |->
                       IF t = {} THEN 0 ELSE g[t \ {Max(t)}] + WordLength(hit, text[Max(t)]) + (IF g[t \ {Max(t)}] = 0 THEN 0 ELSE 1)]
  <1>0. /\ Len(text) \in Nat /\ DOMAIN text = 1..Len(text) /\ 0 \in Nat
        /\ \A k \in 1..Len(text), c \in Nat : c + WordLength(hit, text[k]) + (IF c = 0 THEN 0 ELSE 1) \in Nat
    <2>1. Len(text) \in Nat /\ DOMAIN text = 1..Len(text)
      OBVIOUS
    <2>2. \A k \in 1..Len(text) : text[k] \in WordsOf(hit.row.body)
      OBVIOUS
    <2>3. \A k \in 1..Len(text) : WordLength(hit, text[k]) \in Nat
      BY <2>2, WordLengthType
    <2> QED
      BY <2>1, <2>3
  <1>1. n \in Nat /\ DOMAIN text = 1..n /\ StepsIn(Nat, n, 0, F)
    BY <1>0 DEF StepsIn
  <1>2. PICK g, p : IsFold(Nat, n, 0, F, g, p)
    <2> HIDE DEF F, n
    <2> QED
      BY <1>1, FoldPrefixes
  <1>3. \A t \in SUBSET (1..n) : t # {} => g[t] = g[t \ {Max(t)}] + WordLength(hit, text[Max(t)]) + (IF g[t \ {Max(t)}] = 0 THEN 0 ELSE 1)
    BY <1>2 DEF IsFold
  <1>4. g = [t \in SUBSET (DOMAIN text) |->
               IF t = {} THEN 0 ELSE g[t \ {Max(t)}] + WordLength(hit, text[Max(t)]) + (IF g[t \ {Max(t)}] = 0 THEN 0 ELSE 1)]
    BY <1>1, <1>2, <1>3 DEF IsFold
  <1>5. iter = [t \in SUBSET (DOMAIN text) |->
                  IF t = {} THEN 0 ELSE iter[t \ {Max(t)}] + WordLength(hit, text[Max(t)]) + (IF iter[t \ {Max(t)}] = 0 THEN 0 ELSE 1)]
    BY <1>4
  <1>6. ByteLength(hit, text) = iter[1..n]
    BY <1>1 DEF ByteLength, FoldLeft, MapThenFoldSet
  <1> HIDE DEF iter
  <1>7. iter[1..n] = g[1..n]
    <2>1. \A t \in SUBSET (1..n) : t # {} /\ iter[t \ {Max(t)}] = g[t \ {Max(t)}] => iter[t] = g[t]
      BY <1>1, <1>3, <1>5
    <2>2. iter[{}] = g[{}]
      BY <1>1, <1>2, <1>5 DEF IsFold
    <2> HIDE DEF n
    <2> QED
      BY <1>1, <2>1, <2>2, FoldAgrees
  <1>8. \A k \in 1..n : p[k] = p[k - 1] + WordLength(hit, text[k]) + (IF p[k - 1] = 0 THEN 0 ELSE 1)
    BY <1>2 DEF IsFold
  <1> QED
    BY <1>2, <1>6, <1>7, <1>8 DEF IsFold

(* A word begins within the bytes of the text up to its end.               *)
LEMMA WithinBytesType ==
    ASSUME NEW hit \in AllHits, NEW text \in Seq(WordsOf(hit.row.body)), Len(text) # 0
    PROVE  /\ WithinBytes(hit, text) \in 1..Len(text)
           /\ ByteLength(hit, text) <= MaxBlockBytes => WithinBytes(hit, text) = Len(text)
  <1> DEFINE n == Len(text)
             S == 1..n
             W(k) == WordLength(hit, text[k])
             stop == {1}
             base == [k \in S |-> 0]
             next == [k \in S |-> IF k = 1 THEN k ELSE k - 1]
             F == [k \in S |-> [x \in Nat |-> IF k = 1 THEN x ELSE x + W(k - 1) + 1]]
             measure == [k \in S |-> k]
             Offset(f) == [k \in 1..Len(text) |->
                             IF k = 1 THEN 0 ELSE f[k - 1] + WordLength(hit, text[k - 1]) + 1]
             offset == CHOOSE f : f = Offset(f)
             within == {k \in 1..n : offset[k] < MaxBlockBytes}
  <1>1. n \in Nat \ {0} /\ 1 \in S
    OBVIOUS
  <1>2. \A k \in S : W(k) \in Nat \ {0}
    <2>1. \A k \in S : text[k] \in WordsOf(hit.row.body)
      OBVIOUS
    <2> QED
      BY <2>1, WordLengthType
  <1>3. WithinBytes(hit, text) = Cardinality(within)
    BY DEF WithinBytes
  <1> HIDE DEF n, W
  <1>4. PICK f : Recursion(S, Nat, stop, base, next, F, f)
    <2>1. measure \in [S -> 0..n] /\ next \in [S -> S] /\ base \in [S -> Nat]
      BY <1>1
    <2>2. F \in [S -> [Nat -> Nat]]
      <3>1. \A k \in S, x \in Nat : (IF k = 1 THEN x ELSE x + W(k - 1) + 1) \in Nat
        <4>1. ASSUME NEW k \in S, k # 1 PROVE k - 1 \in S
          BY <1>1, <4>1
        <4> QED
          BY <1>2, <4>1
      <3> QED
        BY <3>1
    <2>3. \A k \in S \ stop : measure[next[k]] < measure[k]
      BY <1>1
    <2>4. n \in Nat
      BY <1>1
    <2> HIDE DEF S, stop, base, next, F, measure
    <2>5. \E f : Recursion(S, Nat, stop, base, next, F, f)
      BY <2>1, <2>2, <2>3, <2>4, RecursionExists
    <2> QED
      BY <2>5
  <1>5. f \in [S -> Nat] /\ \A k \in S : f[k] = IF k \in stop THEN base[k] ELSE F[k][f[next[k]]]
    BY <1>4 DEF Recursion
  <1>6. \A k \in S : f[k] = IF k = 1 THEN 0 ELSE f[k - 1] + W(k - 1) + 1
    <2>1. ASSUME NEW k \in S, k # 1 PROVE f[k] = f[k - 1] + W(k - 1) + 1
      <3>1. k - 1 \in S /\ next[k] = k - 1 /\ k \notin stop
        BY <1>1, <2>1
      <3>2. f[k - 1] \in Nat
        BY <1>5, <3>1
      <3>3. f[k] = F[k][f[k - 1]]
        BY <1>5, <3>1
      <3> QED
        BY <2>1, <3>2, <3>3
    <2> QED
      BY <1>1, <1>5, <2>1
  <1>7. f = Offset(f)
    <2>1. f = [k \in S |-> f[k]]
      BY <1>5
    <2> HIDE DEF F, base, next, stop
    <2> QED
      BY <1>6, <2>1 DEF n, W
  <1>8. offset = Offset(offset)
    <2> HIDE DEF Offset
    <2> QED
      BY <1>7
  <1>9. \A k \in S : offset[k] = IF k = 1 THEN 0 ELSE offset[k - 1] + W(k - 1) + 1
    <2> HIDE DEF offset
    <2> QED
      BY <1>8 DEF n, W
  <1> HIDE DEF offset
  <1>10. \A k \in S : offset[k] = f[k]
    <2> DEFINE T == {k \in S : offset[k] = f[k]}
    <2>1. ASSUME NEW k \in S, \A j \in S : measure[j] < measure[k] => j \in T PROVE k \in T
      <3>1. CASE k = 1
        BY <1>6, <1>9, <3>1
      <3>2. CASE k # 1
        <4>1. k - 1 \in S /\ measure[k - 1] < measure[k]
          BY <1>1, <3>2
        <4>2. offset[k - 1] = f[k - 1]
          BY <2>1, <4>1
        <4> QED
          BY <1>6, <1>9, <3>2, <4>2
      <3> QED
        BY <3>1, <3>2
    <2>2. measure \in [S -> Nat]
      BY <1>1
    <2>3. S \subseteq T
      <3> HIDE DEF S, T, measure
      <3> QED
        BY <2>1, <2>2, MeasureInduction
    <2> QED
      BY <2>3
  <1>11. IsFiniteSet(S) /\ Cardinality(S) = n /\ within \in SUBSET S
    BY <1>1, FS_Interval
  <1>12. 1 \in within
    BY <1>1, <1>6, <1>10, RetrievalAssumption
  <1> HIDE DEF within
  <1>13. Cardinality(within) \in 1..n
    <2>1. IsFiniteSet(within) /\ Cardinality(within) <= n /\ Cardinality(within) \in Nat
      <3> HIDE DEF S
      <3> QED
        BY <1>11, FS_Subset, FS_CardinalityType
    <2>2. Cardinality(within) # 0
      BY <1>12, <2>1, FS_EmptySet
    <2> QED
      BY <1>1, <2>1, <2>2
  <1>14. ASSUME ByteLength(hit, text) <= MaxBlockBytes PROVE within = S
    <2>1. PICK p \in [0..n -> Nat] :
            /\ p[0] = 0
            /\ \A k \in 1..n : p[k] = p[k - 1] + W(k) + (IF p[k - 1] = 0 THEN 0 ELSE 1)
            /\ ByteLength(hit, text) = p[n]
      BY BytesByPrefixes DEF n, W
    <2>2. \A k \in S : p[k] = f[k] + W(k) /\ p[k] \in Nat \ {0}
      <3> DEFINE T == {k \in S : p[k] = f[k] + W(k) /\ p[k] \in Nat \ {0}}
      <3>1. ASSUME NEW k \in S, \A j \in S : measure[j] < measure[k] => j \in T PROVE k \in T
        <4>1. CASE k = 1
          <5>1. p[1] = p[0] + W(1) + (IF p[0] = 0 THEN 0 ELSE 1) /\ f[1] = 0 /\ W(1) \in Nat \ {0}
            BY <1>1, <1>2, <1>6, <2>1
          <5> QED
            BY <2>1, <4>1, <5>1
        <4>2. CASE k # 1
          <5>1. k - 1 \in S /\ measure[k - 1] < measure[k]
            BY <1>1, <4>2
          <5>2. p[k - 1] = f[k - 1] + W(k - 1) /\ p[k - 1] \in Nat \ {0}
            BY <3>1, <5>1
          <5>3. p[k] = p[k - 1] + W(k) + 1 /\ f[k] = f[k - 1] + W(k - 1) + 1
            BY <1>6, <2>1, <4>2, <5>2
          <5>4. W(k) \in Nat /\ W(k - 1) \in Nat /\ f[k - 1] \in Nat
            BY <1>2, <1>5, <5>1
          <5> HIDE DEF W
          <5>5. p[k] = f[k] + W(k) /\ p[k] \in Nat \ {0}
            <6> DEFINE a == p[k - 1]
                       b == f[k - 1]
                       c == W(k - 1)
                       d == W(k)
            <6>1. a = b + c /\ a \in Nat \ {0} /\ b \in Nat /\ c \in Nat /\ d \in Nat
                  /\ p[k] = a + d + 1 /\ f[k] = b + c + 1
              BY <5>2, <5>3, <5>4
            <6> HIDE DEF a, b, c
            <6>2. p[k] = f[k] + d /\ p[k] \in Nat \ {0}
              <7> HIDE DEF d
              <7> QED
                BY <6>1
            <6> QED
              BY <6>2
          <5> QED
            BY <5>5
        <4> QED
          BY <4>1, <4>2
      <3>2. measure \in [S -> Nat]
        BY <1>1
      <3>3. S \subseteq T
        <4> HIDE DEF S, T, measure
        <4> QED
          BY <3>1, <3>2, MeasureInduction
      <3> QED
        BY <3>3
    <2>3. ASSUME NEW k \in S PROVE p[k] <= p[n]
      <3> DEFINE T == {j \in 0..n : j >= k => p[k] <= p[j]}
      <3>1. 0 \in T
        BY <1>1
      <3>2. ASSUME NEW j \in 0..(n - 1), j \in T PROVE j + 1 \in T
        <4>1. j + 1 \in 1..n /\ (j + 1) - 1 = j /\ j + 1 \in 0..n /\ j \in 0..n
          BY <1>1
        <4>2. p[j + 1] = p[j] + W(j + 1) + (IF p[j] = 0 THEN 0 ELSE 1)
          BY <2>1, <4>1
        <4>3. W(j + 1) \in Nat /\ p[j] \in Nat /\ p[k] \in Nat
          BY <1>1, <1>2, <2>1, <4>1
        <4>4. p[j] <= p[j + 1] /\ p[j + 1] \in Nat
          BY <4>2, <4>3
        <4>5. CASE j >= k
          BY <3>2, <4>1, <4>3, <4>4, <4>5
        <4>6. CASE j + 1 = k
          BY <4>1, <4>4, <4>6
        <4>7. CASE j + 1 < k
          BY <1>1, <4>1, <4>7
        <4> QED
          BY <1>1, <4>5, <4>6, <4>7
      <3>3. n \in Nat
        BY <1>1
      <3>4. \A j \in 0..n : j \in T
        <4> HIDE DEF T
        <4> QED
          BY <3>1, <3>2, <3>3, InductionTo
      <3>5. n \in 0..n /\ n >= k
        BY <1>1
      <3> QED
        BY <3>4, <3>5
    <2>4. ASSUME NEW k \in S PROVE offset[k] < MaxBlockBytes
      <3>1. offset[k] = f[k] /\ f[k] \in Nat /\ W(k) \in Nat \ {0} /\ p[k] = f[k] + W(k)
        BY <1>2, <1>5, <1>10, <2>2
      <3>2. p[k] <= p[n] /\ p[n] <= MaxBlockBytes /\ p[n] \in Nat /\ MaxBlockBytes \in Nat
        BY <1>1, <1>14, <2>1, <2>3, RetrievalAssumption
      <3> QED
        BY <3>1, <3>2
    <2> QED
      BY <2>4 DEF within
  <1> QED
    BY <1>3, <1>11, <1>13, <1>14 DEF n

Blocks == [chunk : Records \X Nat, count : Nat]
Packs == [used : Nat, truncated : BOOLEAN, blocks : Seq(Blocks)]

(* The words of blocks by the prefixes of their sequence. *)
LEMMA CountsByPrefixes ==
    ASSUME NEW blocks \in Seq(Blocks)
    PROVE  \E p \in [0..Len(blocks) -> Nat] :
             /\ p[0] = 0
             /\ \A k \in 1..Len(blocks) : p[k] = p[k - 1] + blocks[k].count
             /\ CountSum(blocks) = p[Len(blocks)]
  <1> DEFINE n == Len(blocks)
             F == [k \in 1..n |-> [x \in Nat |-> x + blocks[k].count]]
             iter == CHOOSE g : g = [t \in SUBSET (DOMAIN blocks) |->
                       IF t = {} THEN 0 ELSE g[t \ {Max(t)}] + blocks[Max(t)].count]
  <1>0. /\ Len(blocks) \in Nat /\ DOMAIN blocks = 1..Len(blocks) /\ 0 \in Nat
        /\ \A k \in 1..Len(blocks), c \in Nat : c + blocks[k].count \in Nat
    <2>1. Len(blocks) \in Nat /\ DOMAIN blocks = 1..Len(blocks)
      OBVIOUS
    <2>2. \A k \in 1..Len(blocks) : blocks[k] \in Blocks
      OBVIOUS
    <2>3. \A k \in 1..Len(blocks) : blocks[k].count \in Nat
      BY <2>2 DEF Blocks
    <2> QED
      BY <2>1, <2>3
  <1>1. n \in Nat /\ DOMAIN blocks = 1..n /\ StepsIn(Nat, n, 0, F)
    BY <1>0 DEF StepsIn
  <1>2. PICK g, p : IsFold(Nat, n, 0, F, g, p)
    <2> HIDE DEF F, n
    <2> QED
      BY <1>1, FoldPrefixes
  <1>3. \A t \in SUBSET (1..n) : t # {} => g[t] = g[t \ {Max(t)}] + blocks[Max(t)].count
    BY <1>2 DEF IsFold
  <1>4. g = [t \in SUBSET (DOMAIN blocks) |->
               IF t = {} THEN 0 ELSE g[t \ {Max(t)}] + blocks[Max(t)].count]
    BY <1>1, <1>2, <1>3 DEF IsFold
  <1>5. iter = [t \in SUBSET (DOMAIN blocks) |->
                  IF t = {} THEN 0 ELSE iter[t \ {Max(t)}] + blocks[Max(t)].count]
    BY <1>4
  <1>6. CountSum(blocks) = iter[1..n]
    BY <1>1 DEF CountSum, FoldLeft, MapThenFoldSet
  <1> HIDE DEF iter
  <1>7. iter[1..n] = g[1..n]
    <2>1. \A t \in SUBSET (1..n) : t # {} /\ iter[t \ {Max(t)}] = g[t \ {Max(t)}] => iter[t] = g[t]
      BY <1>1, <1>3, <1>5
    <2>2. iter[{}] = g[{}]
      BY <1>1, <1>2, <1>5 DEF IsFold
    <2> HIDE DEF n
    <2> QED
      BY <1>1, <2>1, <2>2, FoldAgrees
  <1>8. \A k \in 1..n : p[k] = p[k - 1] + blocks[k].count
    BY <1>2 DEF IsFold
  <1> QED
    BY <1>2, <1>6, <1>7, <1>8 DEF IsFold

LEMMA CountsEmpty == CountSum(<<>>) = 0
  <1>1. <<>> \in Seq(Blocks) /\ Len(<<>>) = 0
    OBVIOUS
  <1>2. \E p \in [0..Len(<<>>) -> Nat] :
          /\ p[0] = 0
          /\ \A k \in 1..Len(<<>>) : p[k] = p[k - 1] + <<>>[k].count
          /\ CountSum(<<>>) = p[Len(<<>>)]
    BY <1>1, CountsByPrefixes
  <1> QED
    BY <1>1, <1>2

LEMMA CountsAppend ==
    ASSUME NEW s \in Seq(Blocks), NEW b \in Blocks
    PROVE  CountSum(Append(s, b)) = CountSum(s) + b.count /\ CountSum(s) \in Nat
  <1> DEFINE t == Append(s, b)
             n == Len(s)
  <1>1. /\ t \in Seq(Blocks) /\ n \in Nat /\ Len(t) = n + 1
        /\ (\A k \in 1..n : t[k] = s[k]) /\ t[n + 1] = b
    BY AppendAt, AppendType
  <1>2. PICK p \in [0..Len(s) -> Nat] :
          p[0] = 0 /\ (\A k \in 1..Len(s) : p[k] = p[k - 1] + s[k].count) /\ CountSum(s) = p[Len(s)]
    BY CountsByPrefixes
  <1> HIDE DEF t
  <1>3. PICK q \in [0..Len(t) -> Nat] :
          q[0] = 0 /\ (\A k \in 1..Len(t) : q[k] = q[k - 1] + t[k].count) /\ CountSum(t) = q[Len(t)]
    BY <1>1, CountsByPrefixes
  <1> HIDE DEF n
  <1>4. \A k \in 0..n : q[k] = p[k]
    <2> DEFINE T == {k \in 0..n : q[k] = p[k]}
    <2>1. 0 \in T
      BY <1>1, <1>2, <1>3
    <2>2. ASSUME NEW k \in 0..(n - 1), k \in T PROVE k + 1 \in T
      <3>1. k + 1 \in 1..n /\ k + 1 \in 1..(n + 1) /\ (k + 1) - 1 = k /\ k + 1 \in 0..n
        BY <1>1
      <3>2. q[k + 1] = q[k] + s[k + 1].count
        BY <1>1, <1>3, <3>1
      <3>3. p[k + 1] = p[k] + s[k + 1].count
        BY <1>2, <3>1 DEF n
      <3> QED
        BY <2>2, <3>1, <3>2, <3>3
    <2> HIDE DEF T
    <2>3. \A k \in 0..n : k \in T
      BY <1>1, <2>1, <2>2, InductionTo
    <2> QED
      BY <2>3 DEF T
  <1>5. q[n + 1] = q[n] + b.count
    <2>1. n + 1 \in 1..Len(t) /\ (n + 1) - 1 = n
      BY <1>1
    <2> QED
      BY <1>1, <1>3, <2>1
  <1>6. n \in 0..n
    BY <1>1
  <1>7. p[n] \in Nat
    BY <1>2, <1>6 DEF n
  <1> QED
    BY <1>1, <1>2, <1>3, <1>4, <1>5, <1>6, <1>7 DEF t, n

(* What is packed of the first k hits.                                     *)
IsPacked(budget, shown, k, acc) ==
    /\ acc \in Packs /\ acc.used <= budget /\ acc.used = CountSum(acc.blocks)
    /\ Len(acc.blocks) <= k /\ (acc.used < budget => Len(acc.blocks) = k)
    /\ \A i \in 1..Len(acc.blocks) : acc.blocks[i].chunk = shown[i].chunk /\ acc.blocks[i].count > 0
    /\ ~acc.truncated =>
         /\ Len(acc.blocks) = k
         /\ \A i \in 1..k : /\ acc.blocks[i].chunk = shown[i].chunk
                             /\ acc.blocks[i].count = Len(Text(shown[i]))
                             /\ ByteLength(shown[i], Text(shown[i])) <= MaxBlockBytes

LEMMA AddBlockKeeps ==
    ASSUME NEW budget \in Nat, NEW shown \in Seq(AllHits), NEW k \in 1..Len(shown),
           NEW acc, IsPacked(budget, shown, k - 1, acc)
    PROVE  IsPacked(budget, shown, k, AddBlock(budget, acc, shown[k]))
  <1> DEFINE hit == shown[k]
             text == Text(hit)
             selected == First(text, budget - acc.used)
             count == WithinBytes(hit, selected)
             cut == \/ Len(selected) < Len(text)
                    \/ ByteLength(hit, selected) > MaxBlockBytes
             block == [chunk |-> hit.chunk, count |-> count]
             next == AddBlock(budget, acc, hit)
  <1>1. hit \in AllHits /\ k \in Nat \ {0}
    OBVIOUS
  <1>2. /\ acc \in Packs /\ acc.used \in Nat /\ acc.truncated \in BOOLEAN /\ acc.blocks \in Seq(Blocks)
        /\ acc = [used |-> acc.used, truncated |-> acc.truncated, blocks |-> acc.blocks]
        /\ acc.used <= budget /\ acc.used = CountSum(acc.blocks)
        /\ Len(acc.blocks) <= k - 1 /\ (acc.used < budget => Len(acc.blocks) = k - 1)
        /\ \A i \in 1..Len(acc.blocks) : acc.blocks[i].chunk = shown[i].chunk /\ acc.blocks[i].count > 0
    BY DEF IsPacked, Packs
  <1>3. ASSUME ~acc.truncated
        PROVE  /\ Len(acc.blocks) = k - 1
               /\ \A i \in 1..(k - 1) : /\ acc.blocks[i].chunk = shown[i].chunk
                                         /\ acc.blocks[i].count = Len(Text(shown[i]))
                                         /\ ByteLength(shown[i], Text(shown[i])) <= MaxBlockBytes
    BY <1>3 DEF IsPacked
  <1>4. CASE acc.used >= budget
    <2>1. next = [acc EXCEPT !.truncated = TRUE]
      BY <1>4 DEF AddBlock
    <2>2. next = [used |-> acc.used, truncated |-> TRUE, blocks |-> acc.blocks]
      BY <1>2, <2>1
    <2> HIDE DEF next
    <2>3. next \in Packs
      BY <1>2, <2>2 DEF Packs
    <2>4. Len(next.blocks) <= k /\ ~(next.used < budget)
      BY <1>1, <1>2, <1>4, <2>2
    <2>5. IsPacked(budget, shown, k, next)
      BY <1>2, <2>2, <2>3, <2>4 DEF IsPacked
    <2> QED
      BY <2>5 DEF next
  <1>5. CASE ~(acc.used >= budget)
    <2>1. next = [used |-> acc.used + count, truncated |-> acc.truncated \/ cut, blocks |-> Append(acc.blocks, block)]
      BY <1>5 DEF AddBlock
    <2> HIDE DEF hit
    <2>2. text \in Seq(WordsOf(hit.row.body)) /\ Len(text) \in Nat \ {0}
      BY <1>1, TextType
    <2> DEFINE left == budget - acc.used
    <2>3. left \in Nat \ {0}
      BY <1>2, <1>5
    <2> HIDE DEF left, text
    <2>4. /\ First(text, left) \in Seq(WordsOf(hit.row.body)) /\ Len(First(text, left)) \in Nat
          /\ Len(First(text, left)) <= left /\ Len(First(text, left)) <= Len(text)
          /\ Len(First(text, left)) = Smaller(left, Len(text))
          /\ \A i \in 1..Len(First(text, left)) : First(text, left)[i] = text[i]
      BY <2>2, <2>3, FirstType
    <2>5. selected = First(text, left)
      BY DEF left
    <2>6. Len(selected) # 0
      BY <2>2, <2>3, <2>4, <2>5 DEF Smaller
    <2> HIDE DEF selected
    <2>7. count \in 1..Len(selected) /\ (ByteLength(hit, selected) <= MaxBlockBytes => count = Len(selected))
      BY <1>1, <2>4, <2>5, <2>6, WithinBytesType
    <2> HIDE DEF count
    <2>8. count \in Nat /\ count > 0 /\ count <= left
      <3>1. Len(selected) \in Nat /\ Len(selected) <= left
        BY <2>4, <2>5
      <3> QED
        BY <2>3, <2>7, <3>1
    <2>9. acc.used + count <= budget /\ acc.used + count \in Nat
      BY <1>2, <2>8 DEF left
    <2>10. block \in Blocks /\ block.count = count /\ block.chunk = hit.chunk
      BY <1>1, <2>8, HitType DEF AllHits, Blocks
    <2> HIDE DEF block
    <2> DEFINE blocks == Append(acc.blocks, block)
               l == Len(acc.blocks)
    <2>11. /\ blocks \in Seq(Blocks) /\ l \in Nat /\ Len(blocks) = l + 1
           /\ (\A i \in 1..l : blocks[i] = acc.blocks[i]) /\ blocks[l + 1] = block
           /\ \A i \in 1..(l + 1) : i \in 1..l \/ i = l + 1
      BY <1>2, <2>10, AppendAt, AppendType
    <2>12. CountSum(blocks) = acc.used + count
      BY <1>2, <2>10, CountsAppend
    <2> HIDE DEF blocks
    <2>13a. l + 1 = k
      BY <1>1, <1>2, <1>5
    <2>13. \A i \in 1..(l + 1) : blocks[i].chunk = shown[i].chunk /\ blocks[i].count > 0
      <3>1. blocks[l + 1].chunk = shown[k].chunk
        BY <2>10, <2>11 DEF hit
      <3> QED
        BY <1>2, <2>8, <2>10, <2>11, <2>13a, <3>1
    <2>14. ASSUME ~acc.truncated, ~cut
           PROVE  /\ l + 1 = k
                  /\ \A i \in 1..k : /\ blocks[i].chunk = shown[i].chunk
                                      /\ blocks[i].count = Len(Text(shown[i]))
                                      /\ ByteLength(shown[i], Text(shown[i])) <= MaxBlockBytes
      <3>1. l + 1 = k
        BY <1>1, <1>3, <2>14
      <3>2. ~(Len(selected) < Len(text)) /\ ~(ByteLength(hit, selected) > MaxBlockBytes)
        BY <2>14
      <3>3. selected = text
        <4>1. Len(selected) = Len(text)
          BY <2>2, <2>4, <2>5, <3>2
        <4> QED
          BY <2>2, <2>4, <2>5, <4>1, SameSequence
      <3>4. ByteLength(hit, selected) \in Nat
        <4> DEFINE n == Len(selected)
        <4>1. n \in Nat
          BY <2>4, <2>5
        <4>2. PICK p \in [0..n -> Nat] : ByteLength(hit, selected) = p[n]
          BY <1>1, <2>4, <2>5, BytesByPrefixes
        <4> HIDE DEF n
        <4> QED
          BY <4>1, <4>2
      <3>5. ByteLength(hit, text) <= MaxBlockBytes /\ count = Len(text)
        BY <2>7, <3>2, <3>3, <3>4, RetrievalAssumption
      <3>6. blocks[k].chunk = shown[k].chunk /\ blocks[k].count = Len(Text(shown[k]))
            /\ ByteLength(shown[k], Text(shown[k])) <= MaxBlockBytes
        BY <2>10, <2>11, <3>1, <3>5 DEF text, hit
      <3>7. \A i \in 1..(k - 1) : blocks[i] = acc.blocks[i]
        BY <2>11, <3>1
      <3>8. \A i \in 1..k : i \in 1..(k - 1) \/ i = k
        BY <1>1
      <3> QED
        BY <1>3, <2>14, <3>1, <3>6, <3>7, <3>8
    <2>15. acc.truncated \/ cut \in BOOLEAN
      OBVIOUS
    <2> DEFINE cuts == acc.truncated \/ cut
    <2> HIDE DEF next
    <2>16. next = [used |-> acc.used + count, truncated |-> cuts, blocks |-> blocks]
      BY <2>1 DEF blocks
    <2>17. cuts \in BOOLEAN
      OBVIOUS
    <2>18. ~cuts => ~acc.truncated /\ ~cut
      OBVIOUS
    <2> HIDE DEF cuts, cut
    <2>19. next \in Packs
      BY <2>9, <2>11, <2>16, <2>17 DEF Packs
    <2>20. next.used = acc.used + count /\ next.truncated = cuts /\ next.blocks = blocks
      BY <2>16
    <2>21. ~next.truncated => ~acc.truncated /\ ~cut
      BY <2>18, <2>20
    <2>22. IsPacked(budget, shown, k, next)
      BY <1>1, <2>9, <2>11, <2>12, <2>13a, <2>13, <2>14, <2>19, <2>20, <2>21 DEF IsPacked
    <2> QED
      BY <2>22 DEF next, hit
  <1> QED
    BY <1>4, <1>5

LEMMA AddBlockType ==
    ASSUME NEW budget \in Nat, NEW acc \in Packs, NEW hit \in AllHits
    PROVE  AddBlock(budget, acc, hit) \in Packs
  <1> DEFINE text == Text(hit)
             selected == First(text, budget - acc.used)
             count == WithinBytes(hit, selected)
             cuts == \/ acc.truncated
                     \/ Len(selected) < Len(text)
                     \/ ByteLength(hit, selected) > MaxBlockBytes
             block == [chunk |-> hit.chunk, count |-> count]
             next == AddBlock(budget, acc, hit)
  <1>1. /\ acc.used \in Nat /\ acc.truncated \in BOOLEAN /\ acc.blocks \in Seq(Blocks)
        /\ acc = [used |-> acc.used, truncated |-> acc.truncated, blocks |-> acc.blocks]
    BY DEF Packs
  <1>2. CASE acc.used >= budget
    <2>1. next = [acc EXCEPT !.truncated = TRUE]
      BY <1>2 DEF AddBlock
    <2>2. next = [used |-> acc.used, truncated |-> TRUE, blocks |-> acc.blocks]
      BY <1>1, <2>1
    <2> HIDE DEF next
    <2>3. next \in Packs
      BY <1>1, <2>2 DEF Packs
    <2> QED
      BY <2>3 DEF next
  <1>3. CASE ~(acc.used >= budget)
    <2>1. next = [used |-> acc.used + count, truncated |-> cuts, blocks |-> Append(acc.blocks, block)]
      BY <1>3 DEF AddBlock
    <2>2. text \in Seq(WordsOf(hit.row.body)) /\ Len(text) \in Nat \ {0}
      BY TextType
    <2> DEFINE left == budget - acc.used
    <2>3. left \in Nat \ {0}
      BY <1>1, <1>3
    <2> HIDE DEF left, text
    <2>4. selected = First(text, left)
      BY DEF left
    <2>5. selected \in Seq(WordsOf(hit.row.body)) /\ Len(selected) # 0
      BY <2>2, <2>3, <2>4, FirstType DEF Smaller
    <2> HIDE DEF selected
    <2>6. count \in 1..Len(selected)
      BY <2>5, WithinBytesType
    <2> HIDE DEF count
    <2>7. count \in Nat
      BY <2>6
    <2>8. block \in Blocks
      BY <2>7, HitType DEF AllHits, Blocks
    <2> HIDE DEF block
    <2>9. Append(acc.blocks, block) \in Seq(Blocks)
      BY <1>1, <2>8, AppendType
    <2>10. cuts \in BOOLEAN
      OBVIOUS
    <2> HIDE DEF cuts, next
    <2>11. next \in Packs
      BY <1>1, <2>1, <2>7, <2>9, <2>10 DEF Packs
    <2> QED
      BY <2>11 DEF next
  <1> QED
    BY <1>2, <1>3

(* A context by the prefixes of its hits. *)
LEMMA PacksByPrefixes ==
    ASSUME NEW budget \in Nat, NEW shown \in Seq(AllHits)
    PROVE  \E p \in [0..Len(shown) -> Packs] :
             /\ p[0] = Empty
             /\ \A k \in 1..Len(shown) : p[k] = AddBlock(budget, p[k - 1], shown[k])
             /\ Pack(budget, shown) = p[Len(shown)]
  <1> DEFINE n == Len(shown)
             F == [k \in 1..n |-> [x \in Packs |-> AddBlock(budget, x, shown[k])]]
             iter == CHOOSE g : g = [t \in SUBSET (DOMAIN shown) |->
                       IF t = {} THEN Empty ELSE AddBlock(budget, g[t \ {Max(t)}], shown[Max(t)])]
  <1>0. /\ Len(shown) \in Nat /\ DOMAIN shown = 1..Len(shown) /\ Empty \in Packs
        /\ \A k \in 1..Len(shown), c \in Packs : AddBlock(budget, c, shown[k]) \in Packs
    <2>1. Len(shown) \in Nat /\ DOMAIN shown = 1..Len(shown)
      OBVIOUS
    <2>2. \A k \in 1..Len(shown) : shown[k] \in AllHits
      OBVIOUS
    <2>3. Empty \in Packs
      BY DEF Empty, Packs
    <2> QED
      BY <2>1, <2>2, <2>3, AddBlockType
  <1>1. n \in Nat /\ DOMAIN shown = 1..n /\ StepsIn(Packs, n, Empty, F)
    BY <1>0 DEF StepsIn
  <1>2. PICK g, p : IsFold(Packs, n, Empty, F, g, p)
    <2> HIDE DEF F, n
    <2> QED
      BY <1>1, FoldPrefixes
  <1>3. \A t \in SUBSET (1..n) : t # {} => g[t] = AddBlock(budget, g[t \ {Max(t)}], shown[Max(t)])
    BY <1>2 DEF IsFold
  <1>4. g = [t \in SUBSET (DOMAIN shown) |->
               IF t = {} THEN Empty ELSE AddBlock(budget, g[t \ {Max(t)}], shown[Max(t)])]
    BY <1>1, <1>2, <1>3 DEF IsFold
  <1>5. iter = [t \in SUBSET (DOMAIN shown) |->
                  IF t = {} THEN Empty ELSE AddBlock(budget, iter[t \ {Max(t)}], shown[Max(t)])]
    BY <1>4
  <1>6. Pack(budget, shown) = iter[1..n]
    BY <1>1 DEF Pack, FoldLeft, MapThenFoldSet
  <1> HIDE DEF iter
  <1>7. iter[1..n] = g[1..n]
    <2>1. \A t \in SUBSET (1..n) : t # {} /\ iter[t \ {Max(t)}] = g[t \ {Max(t)}] => iter[t] = g[t]
      BY <1>1, <1>3, <1>5
    <2>2. iter[{}] = g[{}]
      BY <1>1, <1>2, <1>5 DEF IsFold
    <2> HIDE DEF n
    <2> QED
      BY <1>1, <2>1, <2>2, FoldAgrees
  <1>8. \A k \in 1..n : p[k] = AddBlock(budget, p[k - 1], shown[k])
    BY <1>2 DEF IsFold
  <1> QED
    BY <1>2, <1>6, <1>7, <1>8 DEF IsFold

(* Whatever is found, a context is within its budget and says what it      *)
(* leaves out.                                                             *)
LEMMA ContextIsHonest ==
    ASSUME NEW budget \in Nat, NEW shown \in Seq(AllHits)
    PROVE  IsPacked(budget, shown, Len(shown), Pack(budget, shown))
  <1> DEFINE n == Len(shown)
  <1>1. n \in Nat
    OBVIOUS
  <1>2. PICK p \in [0..Len(shown) -> Packs] :
          /\ p[0] = Empty
          /\ \A k \in 1..Len(shown) : p[k] = AddBlock(budget, p[k - 1], shown[k])
          /\ Pack(budget, shown) = p[Len(shown)]
    BY PacksByPrefixes
  <1> HIDE DEF n
  <1>3. \A k \in 0..n : IsPacked(budget, shown, k, p[k])
    <2> DEFINE T == {k \in 0..n : IsPacked(budget, shown, k, p[k])}
    <2>1. 0 \in T
      <3>1. Empty = [used |-> 0, truncated |-> FALSE, blocks |-> <<>>]
        BY DEF Empty
      <3>2. Empty \in Packs /\ Empty.used = 0 /\ Empty.blocks = <<>> /\ Len(Empty.blocks) = 0
        BY <3>1 DEF Packs
      <3>3. IsPacked(budget, shown, 0, Empty)
        BY <3>2, CountsEmpty DEF IsPacked
      <3> QED
        BY <1>1, <1>2, <3>3
    <2>2. ASSUME NEW k \in 0..(n - 1), k \in T PROVE k + 1 \in T
      <3> DEFINE m == k + 1
      <3>1. m \in 1..n /\ m - 1 = k /\ m \in 0..n
        BY <1>1
      <3> HIDE DEF m
      <3>2. IsPacked(budget, shown, m - 1, p[k])
        BY <2>2, <3>1
      <3>3. p[m] = AddBlock(budget, p[k], shown[m])
        BY <1>2, <3>1 DEF n
      <3>4. IsPacked(budget, shown, m, AddBlock(budget, p[k], shown[m]))
        BY <3>1, <3>2, AddBlockKeeps DEF n
      <3>5. m \in T
        BY <3>1, <3>3, <3>4
      <3> QED
        BY <3>5 DEF m
    <2> HIDE DEF T
    <2>3. \A k \in 0..n : k \in T
      BY <1>1, <2>1, <2>2, InductionTo
    <2> QED
      BY <2>3 DEF T
  <1>4. n \in 0..n
    BY <1>1
  <1> QED
    BY <1>2, <1>3, <1>4 DEF n


-----------------------------------------------------------------------------
(* What queries and their steps do.                                        *)

LEMMA QueryType ==
    ASSUME NEW q \in RunningQueries
    PROVE  /\ q \in QueryTypes /\ q.limit \in Nat /\ q.budget \in Nat
           /\ q.mode \in {"lexical", "semantic", "hybrid"} /\ q.by \in {"library", "agent", "person"}
           /\ [q EXCEPT !.mode = "lexical"] \in RunningQueries
           /\ [q EXCEPT !.mode = "lexical"].mode = "lexical" /\ [q EXCEPT !.mode = "lexical"].by = q.by
           /\ q.mode = "hybrid" => [q EXCEPT !.mode = "hybrid"] = q
  <1>1. Queries \subseteq QueryTypes
    BY RetrievalAssumption
  <1>2. \A x \in QueryTypes : [x EXCEPT !.mode = "lexical"] \in QueryTypes
    BY DEF QueryTypes
  <1>3. q \in QueryTypes
    BY <1>1, <1>2 DEF RunningQueries
  <1>4. [q EXCEPT !.mode = "lexical"] \in RunningQueries
    <2>1. CASE q \in Queries
      BY <2>1 DEF RunningQueries
    <2>2. CASE \E x \in Queries : q = [x EXCEPT !.mode = "lexical"]
      <3>1. PICK x \in Queries : q = [x EXCEPT !.mode = "lexical"]
        BY <2>2
      <3>2. x \in QueryTypes
        BY <1>1
      <3>3. [q EXCEPT !.mode = "lexical"] = q
        BY <3>1, <3>2 DEF QueryTypes
      <3> QED
        BY <3>3
    <2> QED
      BY <2>1, <2>2 DEF RunningQueries
  <1> QED
    BY <1>3, <1>4 DEF QueryTypes

LEMMA BoundedType ==
    ASSUME NEW limit \in Nat
    PROVE  Bounded(limit) \in Nat \ {0} /\ Bounded(limit) <= MaxLimit
  BY RetrievalAssumption DEF Bounded, Smaller

LEMMA LexicalLimitType ==
    ASSUME NEW q \in RunningQueries
    PROVE  LexicalLimit(q) \in Nat /\ LexicalLimit(q) <= MaxLimit
  <1>1. MaxLimit \in Nat
    BY RetrievalAssumption
  <1>2. q.limit \in Nat
    BY QueryType
  <1>3. Bounded(q.limit) \in Nat /\ Bounded(q.limit) <= MaxLimit
    BY <1>2, BoundedType
  <1> QED
    BY <1>1, <1>3 DEF LexicalLimit

LEMMA SyncedType ==
    ASSUME rows \in Tables, files \in Tables
    PROVE  /\ Synced \in Tables
           /\ \A r \in Records : Synced[r] = IF StoreOf[r] = Stores[at] THEN files[r] ELSE rows[r]
  BY DEF Synced, Tables

LEMMA JoinedHitType ==
    ASSUME rows \in Tables, NEW s, NEW f \in FoundChunks, f.chunk \in ChunkIds(rows, s)
    PROVE  /\ JoinedHit(f) \in SemanticHits /\ JoinedHit(f).chunk = f.chunk
           /\ JoinedHit(f).row = rows[f.chunk[1]] /\ ScopeOf(JoinedHit(f)) = s
  <1> DEFINE hit == JoinedHit(f)
             score == 60 \div (1 + f.distance)
  <1>1. f.distance \in Nat /\ f.chunk \in Records \X Nat
    BY DEF FoundChunks
  <1>2. score \in Nat
    BY <1>1
  <1> HIDE DEF score
  <1>3. hit = [chunk |-> f.chunk, row |-> rows[f.chunk[1]], reason |-> "vector", score |-> score]
    BY DEF JoinedHit, score
  <1>4. rows[f.chunk[1]] \in RowsOf(f.chunk[1]) /\ f.chunk \in ChunksOf(f.chunk[1], rows[f.chunk[1]])
        /\ StoreOf[f.chunk[1]] = s /\ f.chunk[1] \in Records
    BY <1>1, ChunkIdsType
  <1>5. rows[f.chunk[1]] \in Rows
    BY <1>4, RowType
  <1> HIDE DEF hit
  <1>6. hit \in [chunk : Records \X Nat, row : Rows, reason : {"vector"}, score : Nat]
    BY <1>1, <1>2, <1>3, <1>5
  <1>7. hit \in SemanticHits /\ hit.chunk = f.chunk /\ hit.row = rows[f.chunk[1]] /\ ScopeOf(hit) = s
    BY <1>3, <1>4, <1>6 DEF SemanticHits, HitsOf, ScopeOf
  <1> QED
    BY <1>7 DEF hit

(* What goes on beside a query changes nothing of it.                      *)
LEMMA BesideQuery ==
    ASSUME \/ \E line \in Alphabet : WriteLine(line)
           \/ Discard
           \/ \E r \in Records, row \in ChangedRows \cup {NoRow} : Edit(r, row)
           \/ \E r \in Records : Sync(r)
           \/ \E s \in StoreNames : Reindex(s) \/ ReindexWithoutModel(s)
           \/ UNCHANGED vars
    PROVE  /\ running' = running /\ seen \subseteq seen'
           /\ pc = "idle" => seen' = seen
  BY DEF WriteLine, Discard, Edit, Sync, Reindex, ReindexWithoutModel, vars

(* The vectors of a store are absent, or as they should be, or not.        *)
LEMMA CheckSteps ==
    ASSUME CheckFresh \/ CheckRows
    PROVE  /\ pc \in {"fresh", "rows"} /\ UNCHANGED <<draft, files, rows, vectors, changes, match, result, seen>>
           /\ \/ /\ pc = "fresh" /\ NextStore
                 /\ semanticOf' = [semanticOf EXCEPT ![Stores[at]] = "absent"]
                 /\ UNCHANGED <<query, lexical, semantic, found, joined, fallback>>
              \/ /\ \/ pc' = "rows" /\ trusted' = vectors[Stores[at]] /\ trusted' # NoVectors
                    \/ pc = "rows" /\ pc' = "vector" /\ trusted' = trusted
                 /\ UNCHANGED <<query, at, lexical, semantic, found, joined, semanticOf, fallback>>
              \/ FallBack
  <1>1. CASE CheckFresh
    <2>1. CASE vectors[Stores[at]] = NoVectors
      BY <1>1, <2>1 DEF CheckFresh
    <2>2. CASE /\ vectors[Stores[at]] # NoVectors
               /\ InStore(vectors[Stores[at]], Stores[at]) = InStore(files, Stores[at])
      BY <1>1, <2>2 DEF CheckFresh
    <2>3. CASE /\ vectors[Stores[at]] # NoVectors
               /\ InStore(vectors[Stores[at]], Stores[at]) # InStore(files, Stores[at])
      BY <1>1, <2>3 DEF CheckFresh
    <2> QED
      BY <2>1, <2>2, <2>3
  <1>2. CASE CheckRows
    BY <1>2 DEF CheckRows
  <1> QED
    BY <1>1, <1>2

-----------------------------------------------------------------------------
(* Types.                                                                  *)

LEMMA InitTypes ==
    ASSUME Init
    PROVE  TypeInv
  <1>1. files \in Tables /\ rows \in Tables
    <2>1. files \in [Records -> Rows \cup {NoRow}]
      BY RetrievalAssumption DEF Init
    <2>2. \A r \in Records : files[r] \in RowsOf(r) \cup {NoRow}
      BY DEF Init, RowsOf
    <2> QED
      BY <2>1, <2>2 DEF Init, Tables
  <1>2. vectors \in [StoreNames -> Tables \cup {NoVectors}]
    BY <1>1 DEF Init
  <1>3. IsFiniteSet({})
    BY FS_EmptySet
  <1>4. lexical = {} /\ semantic = {} /\ draft = <<>> /\ found = <<>> /\ joined = 0 /\ result = <<>>
        /\ changes = 0 /\ pc = "idle" /\ at = 1 /\ fallback = Unset
    BY DEF Init
  <1>5. MaxLines \in Nat /\ MaxChanges \in Nat
    BY RetrievalAssumption
  <1> QED
    BY <1>1, <1>2, <1>3, <1>4, <1>5 DEF TypeInv, Phases

LEMMA TypesBeside ==
    ASSUME TypeInv, Next \/ UNCHANGED vars, ~Query
    PROVE  TypeInv'
  <1> USE DEF TypeInv
  <1>1. ASSUME NEW line \in Alphabet, WriteLine(line) PROVE TypeInv'
    <2>1. line \in Lines /\ MaxLines \in Nat
      BY RetrievalAssumption
    <2>2. Append(draft, line) \in Seq(Lines) /\ Len(Append(draft, line)) <= MaxLines
      BY <1>1, <2>1 DEF WriteLine
    <2>3. draft' = Append(draft, line)
          /\ UNCHANGED <<files, rows, vectors, changes, pc, at, lexical, semantic, found, joined, result, fallback>>
      BY <1>1 DEF WriteLine, running, gathered
    <2> QED
      BY <2>2, <2>3
  <1>2. ASSUME Discard PROVE TypeInv'
    <2>1. draft' = <<>>
          /\ UNCHANGED <<files, rows, vectors, changes, pc, at, lexical, semantic, found, joined, result, fallback>>
      BY <1>2 DEF Discard, running, gathered
    <2>2. MaxLines \in Nat
      BY RetrievalAssumption
    <2> QED
      BY <2>1, <2>2
  <1>3. ASSUME NEW r \in Records, NEW row \in ChangedRows \cup {NoRow}, Edit(r, row) PROVE TypeInv'
    <2>1. files' = [files EXCEPT ![r] = row] /\ changes' = changes + 1 /\ changes < MaxChanges
          /\ UNCHANGED <<draft, rows, vectors, pc, at, lexical, semantic, found, joined, result, fallback>>
      BY <1>3 DEF Edit, running, gathered
    <2>2. row \in RowsOf(r) \cup {NoRow} /\ row \in Rows \cup {NoRow} /\ MaxChanges \in Nat
      BY RetrievalAssumption DEF RowsOf
    <2>3. files' \in Tables
      BY <2>1, <2>2 DEF Tables
    <2>4. changes' \in 0..MaxChanges
      BY <2>1, <2>2
    <2> QED
      BY <2>1, <2>3, <2>4
  <1>4. ASSUME NEW r \in Records, Sync(r) PROVE TypeInv'
    <2>1. rows' = [rows EXCEPT ![r] = files[r]]
          /\ UNCHANGED <<draft, files, vectors, changes, pc, at, lexical, semantic, found, joined, result, fallback>>
      BY <1>4 DEF Sync, running, gathered
    <2>2. rows' \in Tables
      BY <2>1 DEF Tables
    <2> QED
      BY <2>1, <2>2
  <1>5. ASSUME NEW s \in StoreNames, Reindex(s) \/ ReindexWithoutModel(s) PROVE TypeInv'
    <2>1. vectors' = [vectors EXCEPT ![s] = rows] \/ vectors' = [vectors EXCEPT ![s] = NoVectors]
      BY <1>5 DEF Reindex, ReindexWithoutModel
    <2>2. vectors' \in [StoreNames -> Tables \cup {NoVectors}]
      BY <2>1
    <2>3. UNCHANGED <<draft, files, rows, changes, pc, at, lexical, semantic, found, joined, result, fallback>>
      BY <1>5 DEF Reindex, ReindexWithoutModel, running, gathered
    <2> QED
      BY <2>2, <2>3
  <1>6. ASSUME UNCHANGED vars PROVE TypeInv'
    BY <1>6 DEF vars, running, gathered
  <1> QED
    BY <1>1, <1>2, <1>3, <1>4, <1>5, <1>6 DEF Next

(* The results of a query are the first of the hits it ranks.              *)
LEMMA RankGives ==
    ASSUME TypeInv, QueryInv, DistinctInv, ScoreInv, Rank
    PROVE  /\ result' \in Seq(AllHits) /\ Len(result') \in Nat
           /\ \A i \in 1..Len(result') : \E h \in lexical \cup semantic : h.chunk = result'[i].chunk /\ h.row = result'[i].row
           /\ \A i, j \in 1..Len(result') :
                i < j /\ ScopeOf(result'[i]) = ScopeOf(result'[j]) /\ result'[j].reason \in Naming
                => result'[i].reason \in Naming
  <1>1. Rankable
    <2>1. Cardinality(lexical) <= 200
      <3>1. Cardinality(lexical) \in Nat /\ MaxLimit \in 1..100
        BY RetrievalAssumption, FS_CardinalityType DEF TypeInv
      <3>2. Cardinality(lexical) <= 2 * MaxLimit
        BY DEF ScoreInv
      <3> QED
        BY <3>1, <3>2
    <2> QED
      BY <2>1 DEF TypeInv, DistinctInv, ScoreInv, Rankable
  <1> DEFINE ranked == Ranked
             limit == Bounded(query.limit)
  <1>2. /\ ranked \in Seq(AllHits) /\ Len(ranked) \in Nat
        /\ \A i \in 1..Len(ranked) : \E h \in lexical \cup semantic : h.chunk = ranked[i].chunk /\ h.row = ranked[i].row
        /\ \A i, j \in 1..Len(ranked) :
             i < j /\ ScopeOf(ranked[i]) = ScopeOf(ranked[j]) /\ ranked[j].reason \in Naming
             => ranked[i].reason \in Naming
    BY <1>1, RankedType
  <1>3. result' = First(ranked, limit) \/ result' = ranked
    BY DEF Rank
  <1>4. limit \in Nat
    BY QueryType, BoundedType DEF Rank, QueryInv
  <1> HIDE DEF ranked, limit
  <1>5. CASE result' = ranked
    BY <1>2, <1>5
  <1>6. CASE result' = First(ranked, limit)
    <2> DEFINE f == First(ranked, limit)
    <2>1. /\ f \in Seq(AllHits) /\ Len(f) \in Nat
          /\ \A i \in 1..Len(f) : f[i] = ranked[i] /\ i \in 1..Len(ranked)
      BY <1>2, <1>4, FirstType
    <2> HIDE DEF f
    <2>2. result' = f
      BY <1>6 DEF f
    <2> QED
      BY <1>2, <2>1, <2>2
  <1> QED
    BY <1>3, <1>5, <1>6

LEMMA TypesOfQuery ==
    ASSUME TypeInv, QueryInv, DistinctInv, ScoreInv, Query
    PROVE  TypeInv'
  <1> USE DEF TypeInv
  <1>1. ASSUME NEW q \in Queries, NEW m \in Matches, Begin(q, m) PROVE TypeInv'
    <2>1. /\ UNCHANGED <<draft, files, rows, vectors, changes, at, lexical, semantic, found, joined, result>>
          /\ pc' \in {"sync", "fresh", "lexical"} /\ fallback' \in {Unset, "unavailable"}
      BY <1>1 DEF Begin, gathered
    <2> QED
      BY <2>1 DEF Phases
  <1>2. Synced \in Tables /\ [vectors EXCEPT ![Stores[at]] = Synced] \in [StoreNames -> Tables \cup {NoVectors}]
    BY SyncedType DEF Stores, StoreNames
  <1>3. ASSUME NEW reason, NextPrepared(reason) PROVE at' \in {1, 2} /\ pc' \in Phases /\ fallback' = reason
    BY <1>3 DEF NextPrepared, Phases, Stores
  <1>4. ASSUME NextReconciled PROVE at' \in {1, 2} /\ pc' \in Phases /\ fallback' = fallback
    BY <1>4 DEF NextReconciled, Phases, Stores
  <1>5. ASSUME NextStore PROVE at' \in {1, 2} /\ pc' \in Phases
    BY <1>5 DEF NextStore, Phases, Stores
  <1>6. CASE SyncStore
    <2>1. rows' \in Tables /\ UNCHANGED <<draft, files, vectors, changes, lexical, semantic, found, joined, result>>
      BY <1>2, <1>6 DEF SyncStore, gathered
    <2>2. at' \in {1, 2} /\ pc' \in Phases /\ fallback' = fallback
      BY <1>3, <1>4, <1>6 DEF SyncStore, Phases
    <2> QED
      BY <2>1, <2>2
  <1>7. CASE SyncIsBusy
    <2>1. UNCHANGED <<draft, files, rows, vectors, changes, lexical, semantic, found, joined, result>>
      BY <1>7 DEF SyncIsBusy, gathered
    <2>2. at' \in {1, 2} /\ pc' \in Phases /\ fallback' = "busy"
      BY <1>3, <1>7 DEF SyncIsBusy
    <2> QED
      BY <2>1, <2>2
  <1>8. CASE RebuildVectors
    <2>1. /\ rows' \in Tables /\ vectors' \in [StoreNames -> Tables \cup {NoVectors}]
          /\ UNCHANGED <<draft, files, changes, lexical, semantic, found, joined, result>>
      BY <1>2, <1>8 DEF RebuildVectors, gathered
    <2>2. at' \in {1, 2} /\ pc' \in Phases /\ fallback' = fallback
      BY <1>3, <1>4, <1>8 DEF RebuildVectors
    <2> QED
      BY <2>1, <2>2
  <1>9. CASE RebuildFails
    <2>1. UNCHANGED <<draft, files, rows, vectors, changes, lexical, semantic, found, joined, result>>
      BY <1>9 DEF RebuildFails, gathered
    <2>2. at' \in {1, 2} /\ pc' \in Phases /\ fallback' = "failed"
      BY <1>3, <1>9 DEF RebuildFails
    <2> QED
      BY <2>1, <2>2
  <1>10. CASE PrepareFails
    BY <1>10 DEF PrepareFails, gathered, Phases
  <1>11. CASE SearchLexical
    <2> DEFINE hits == SearchHits(query, Stores[at], LexicalLimit(query))
    <2>1. query \in RunningQueries /\ match \in Matches
      BY <1>11 DEF SearchLexical, QueryInv
    <2>2. IsFiniteSet(hits) /\ hits \subseteq LexicalHits
      BY <2>1, LexicalLimitType, SearchHitsType
    <2> HIDE DEF hits
    <2>3. /\ lexical' = lexical \cup hits
          /\ UNCHANGED <<draft, files, rows, vectors, changes, semantic, found, joined, result, fallback>>
      BY <1>11 DEF SearchLexical, hits
    <2>4. lexical' \in SUBSET LexicalHits /\ IsFiniteSet(lexical')
      BY <2>2, <2>3, FS_Union
    <2>5. at' \in {1, 2} /\ pc' \in Phases
      BY <1>5, <1>11 DEF SearchLexical, Phases
    <2> QED
      BY <2>3, <2>4, <2>5
  <1>12. IsFiniteSet({})
    BY FS_EmptySet
  <1>13. CASE CheckFresh \/ CheckRows
    <2>1. UNCHANGED <<draft, files, rows, vectors, changes, result>>
      BY <1>13, CheckSteps
    <2>2. at' \in {1, 2} /\ pc' \in Phases
      BY <1>5, <1>13, CheckSteps DEF FallBack, Fail, Phases
    <2>3. \/ UNCHANGED <<lexical, semantic, found, joined, fallback>>
          \/ lexical' = {} /\ semantic' = {} /\ found' = <<>> /\ joined' = 0 /\ fallback' = "failed"
      BY <1>13, CheckSteps DEF FallBack, Fail
    <2>4. CASE UNCHANGED <<lexical, semantic, found, joined, fallback>>
      BY <2>1, <2>2, <2>4
    <2>5. CASE lexical' = {} /\ semantic' = {} /\ found' = <<>> /\ joined' = 0 /\ fallback' = "failed"
      <3>1. found' \in Seq(FoundChunks) /\ joined' \in 0..Len(found') /\ lexical' \in SUBSET LexicalHits
            /\ semantic' \in SUBSET SemanticHits
        BY <2>5
      <3> QED
        BY <1>12, <2>1, <2>2, <2>5, <3>1
    <2> QED
      BY <2>3, <2>4, <2>5
  <1>14. CASE SearchVectors
    <2>1. UNCHANGED <<draft, files, rows, vectors, changes, lexical, semantic, result, fallback, at>>
      BY <1>14 DEF SearchVectors, Fail
    <2>2. CASE vectors[Stores[at]] # trusted \/ IsRefused(query, Stores[at])
      BY <1>14, <2>1, <2>2 DEF SearchVectors, Fail, Phases
    <2>3. CASE ~(vectors[Stores[at]] # trusted \/ IsRefused(query, Stores[at]))
      <3>1. found' = VectorSearch(query, Stores[at]) /\ joined' = 0 /\ pc' = "join"
        BY <1>14, <2>3 DEF SearchVectors
      <3>2. query \in RunningQueries /\ match \in Matches /\ trusted \in Tables
        BY <1>14 DEF SearchVectors, QueryInv
      <3>3. query.limit \in Nat
        BY <3>2, QueryType
      <3>4. found' \in Seq(FoundChunks)
        BY <3>1, <3>2, <3>3, VectorSearchFinds
      <3>5. joined' \in 0..Len(found')
        BY <3>1, <3>4
      <3> QED
        BY <2>1, <3>1, <3>4, <3>5 DEF Phases
    <2> QED
      BY <2>2, <2>3
  <1>15. CASE Join
    <2> DEFINE f == found[joined + 1]
    <2>1. UNCHANGED <<draft, files, rows, vectors, changes, pc, at, lexical, found, result, fallback>>
      BY <1>15 DEF Join
    <2>2. joined' = joined + 1 /\ joined' \in 0..Len(found)
      BY <1>15 DEF Join
    <2>3. f \in FoundChunks
      BY <1>15 DEF Join
    <2> HIDE DEF f
    <2>4. semantic' = semantic \/ (semantic' = semantic \cup {JoinedHit(f)} /\ Joinable(f))
      BY <1>15 DEF Join, f
    <2>5. semantic' \in SUBSET SemanticHits /\ IsFiniteSet(semantic')
      <3>1. CASE semantic' = semantic
        BY <3>1
      <3>2. CASE semantic' = semantic \cup {JoinedHit(f)} /\ Joinable(f)
        <4>1. JoinedHit(f) \in SemanticHits
          BY <2>3, <3>2, JoinedHitType DEF Joinable
        <4>2. IsFiniteSet({JoinedHit(f)})
          BY FS_Singleton
        <4> QED
          BY <3>2, <4>1, <4>2, FS_Union
      <3> QED
        BY <2>4, <3>1, <3>2
    <2> QED
      BY <2>1, <2>2, <2>5
  <1>16. CASE EndJoin
    <2>1. UNCHANGED <<draft, files, rows, vectors, changes, lexical, semantic, found, joined, result, fallback>>
      BY <1>16 DEF EndJoin, gathered
    <2>2. at' \in {1, 2} /\ pc' \in Phases
      BY <1>5, <1>16 DEF EndJoin
    <2> QED
      BY <2>1, <2>2
  <1>17. CASE Rank
    <2>1. UNCHANGED <<draft, files, rows, vectors, changes, at, lexical, semantic, found, joined, fallback>>
          /\ pc' = "done"
      BY <1>17 DEF Rank, gathered
    <2>2. result' \in Seq(AllHits)
      BY <1>17, RankGives
    <2> QED
      BY <2>1, <2>2 DEF Phases
  <1>18. CASE Answer \/ Kill
    <2>1. /\ pc' = "idle" /\ at' = 1 /\ fallback' = Unset
          /\ lexical' = {} /\ semantic' = {} /\ found' = <<>> /\ joined' = 0 /\ result' = <<>>
          /\ UNCHANGED <<draft, files, rows, vectors, changes>>
      BY <1>18 DEF Answer, Kill, Forget
    <2>2. /\ found' \in Seq(FoundChunks) /\ joined' \in 0..Len(found') /\ result' \in Seq(AllHits)
          /\ lexical' \in SUBSET LexicalHits /\ semantic' \in SUBSET SemanticHits
      BY <2>1
    <2> QED
      BY <1>12, <2>1, <2>2 DEF Phases
  <1> QED
    BY <1>1, <1>6, <1>7, <1>8, <1>9, <1>10, <1>11, <1>13, <1>14, <1>15, <1>16, <1>17, <1>18 DEF Query


-----------------------------------------------------------------------------
(* The phases of a query.                                                  *)

LEMMA QueryInvBeside ==
    ASSUME QueryInv, Next \/ UNCHANGED vars, ~Query
    PROVE  QueryInv'
  <1>1. running' = running /\ (pc = "idle" => seen' = seen)
    BY BesideQuery DEF Next
  <1> QED
    BY <1>1 DEF QueryInv, running, gathered

(* After the preparation of a store.                                       *)
LEMMA AfterPreparation ==
    ASSUME TypeInv, QueryInv, pc \in {"sync", "rebuild"}, NEW reason,
           \/ NextReconciled /\ query.by = "person" /\ reason = fallback
           \/ /\ NextPrepared(reason) /\ query.by = "agent"
              /\ reason = Unset => fallback = Unset
              /\ reason = fallback \/ reason # Unset
           , UNCHANGED <<match, gathered, result>>
    PROVE  QueryInv'
  <1>1. /\ query \in Queries /\ query \in RunningQueries /\ match \in Matches /\ lexical = {} /\ semantic = {}
        /\ query.by # "library" /\ query.mode # "semantic"
        /\ query.by = "agent" /\ fallback = Unset => query.mode = "hybrid"
        /\ query.by = "agent" /\ query.mode = "lexical" => fallback # Unset
    BY DEF QueryInv, RunningQueries
  <1>2. /\ query.mode = "hybrid" => [query EXCEPT !.mode = "hybrid"] = query
        /\ [query EXCEPT !.mode = "lexical"] \in RunningQueries /\ [query EXCEPT !.mode = "lexical"].mode = "lexical"
        /\ [query EXCEPT !.mode = "lexical"].by = query.by
    BY <1>1, QueryType
  <1>3. match' = match /\ lexical' = {} /\ semantic' = {} /\ found' = found /\ joined' = joined /\ result' = result
        /\ trusted' = trusted
    BY <1>1 DEF gathered
  <1>4. CASE NextReconciled /\ query.by = "person"
    <2>1. query' = query /\ fallback' = fallback /\ pc' \in {"sync", "rebuild", "lexical"}
      BY <1>4 DEF NextReconciled
    <2> QED
      BY <1>1, <1>3, <1>4, <2>1 DEF QueryInv
  <1>5. CASE NextPrepared(reason) /\ query.by = "agent" /\ (reason = Unset => fallback = Unset)
             /\ (reason = fallback \/ reason # Unset)
    <2>1. CASE at < 2
      <3>1. query' = query /\ fallback' = reason /\ pc' = "sync"
        BY <1>5, <2>1 DEF NextPrepared, Stores
      <3> QED
        BY <1>1, <1>3, <1>5, <3>1 DEF QueryInv
    <2>2. CASE ~(at < 2) /\ reason = Unset
      <3>1. query' = query /\ query.mode = "hybrid" /\ fallback' = Unset /\ pc' = "lexical"
        BY <1>1, <1>2, <1>5, <2>2 DEF NextPrepared, Stores
      <3> QED
        BY <1>1, <1>3, <1>5, <3>1 DEF QueryInv
    <2>3. CASE ~(at < 2) /\ reason # Unset
      <3>1. query' = [query EXCEPT !.mode = "lexical"] /\ fallback' = reason /\ pc' = "lexical"
        BY <1>5, <2>3 DEF NextPrepared, Stores
      <3>2. query' \in RunningQueries /\ query'.mode = "lexical" /\ query'.by = "agent"
        BY <1>2, <1>5, <3>1
      <3> HIDE DEF Stores
      <3> QED
        BY <1>1, <1>3, <2>3, <3>1, <3>2 DEF QueryInv
    <2> QED
      BY <2>1, <2>2, <2>3
  <1> QED
    BY <1>4, <1>5

LEMMA QueryInvOfQuery ==
    ASSUME TypeInv, QueryInv, Query
    PROVE  QueryInv'
  <1>0. Unset \notin {"unavailable", "busy", "failed"}
    BY RetrievalAssumption
  <1>1. ASSUME NEW q \in Queries, NEW m \in Matches, Begin(q, m) PROVE QueryInv'
    <2>1. /\ query' = q /\ match' = m
          /\ pc' = CASE q.by # "library" -> "sync" [] q.mode = "semantic" -> "fresh" [] OTHER -> "lexical"
          /\ fallback' = IF q.by = "agent" /\ q.mode = "lexical" THEN "unavailable" ELSE Unset
          /\ lexical' = {} /\ semantic' = {}
      BY <1>1 DEF Begin, gathered, QueryInv
    <2>2. q \in RunningQueries /\ (q.by # "library" => q.mode # "semantic")
      BY RetrievalAssumption DEF RunningQueries
    <2>3. q.mode \in {"lexical", "semantic", "hybrid"}
      BY <2>2, QueryType
    <2>4. CASE q.by # "library"
      BY <1>0, <2>1, <2>2, <2>3, <2>4 DEF QueryInv
    <2>5. CASE q.by = "library"
      BY <2>1, <2>2, <2>3, <2>5 DEF QueryInv
    <2> QED
      BY <2>4, <2>5
  <1>2. pc \in {"sync", "rebuild"} => query.by \in {"agent", "person"}
    BY QueryType DEF QueryInv
  <1>3. CASE SyncStore
    <2>1. pc = "sync" /\ UNCHANGED <<match, gathered, result>>
      BY <1>3 DEF SyncStore
    <2>2. CASE query.by = "person"
      <3>1. NextReconciled
        BY <1>3, <2>2 DEF SyncStore
      <3> QED
        BY <2>1, <2>2, <3>1, AfterPreparation
    <2>3. CASE query.by = "agent" /\ fallback = Unset
      <3>1. pc' = "rebuild" /\ UNCHANGED <<query, at, fallback, match, lexical, semantic>>
        BY <1>3, <2>3 DEF SyncStore, gathered
      <3> QED
        BY <2>1, <2>3, <3>1 DEF QueryInv
    <2>4. CASE query.by = "agent" /\ fallback # Unset
      <3>1. NextPrepared(fallback)
        BY <1>3, <2>4 DEF SyncStore
      <3> QED
        BY <2>1, <2>4, <3>1, AfterPreparation
    <2> QED
      BY <1>2, <2>1, <2>2, <2>3, <2>4
  <1>4. CASE SyncIsBusy
    <2>1. pc = "sync" /\ UNCHANGED <<match, gathered, result>> /\ NextPrepared("busy") /\ query.by = "agent"
      BY <1>4 DEF SyncIsBusy
    <2> QED
      BY <1>0, <2>1, AfterPreparation
  <1>5. CASE RebuildVectors
    <2>1. pc = "rebuild" /\ UNCHANGED <<match, gathered, result>>
      BY <1>5 DEF RebuildVectors
    <2>2. CASE query.by = "person"
      <3>1. NextReconciled
        BY <1>5, <2>2 DEF RebuildVectors
      <3> QED
        BY <2>1, <2>2, <3>1, AfterPreparation
    <2>3. CASE query.by = "agent"
      <3>1. NextPrepared(fallback)
        BY <1>5, <2>3 DEF RebuildVectors
      <3> QED
        BY <2>1, <2>3, <3>1, AfterPreparation
    <2> QED
      BY <1>2, <2>1, <2>2, <2>3
  <1>6. CASE RebuildFails
    <2>1. pc = "rebuild" /\ UNCHANGED <<match, gathered, result>> /\ NextPrepared("failed") /\ query.by = "agent"
      BY <1>6 DEF RebuildFails
    <2> QED
      BY <1>0, <2>1, AfterPreparation
  <1>7. CASE PrepareFails
    BY <1>7 DEF PrepareFails, gathered, QueryInv
  <1>8. ASSUME NextStore, pc \in {"lexical", "fresh", "join"}, UNCHANGED <<query, match, semantic, fallback>>,
               lexical' = {} \/ query.mode # "semantic",
               pc = "lexical" => query.mode = "lexical"
        PROVE  QueryInv'
    <2>1. pc' \in {"rank", "fresh", "lexical"} /\ (pc' = "fresh" => query.mode = "semantic")
          /\ (pc' = "lexical" => query.mode # "semantic")
      BY <1>8 DEF NextStore, TypeInv, Stores
    <2> QED
      BY <1>8, <2>1 DEF QueryInv
  <1>9. CASE SearchLexical
    <2>1. pc = "lexical" /\ UNCHANGED <<query, match, semantic, fallback>> /\ query.mode # "semantic"
      BY <1>9 DEF SearchLexical, QueryInv
    <2>2. CASE query.mode = "lexical"
      <3>1. NextStore
        BY <1>9, <2>2 DEF SearchLexical
      <3> QED
        BY <1>8, <2>1, <2>2, <3>1
    <2>3. CASE query.mode # "lexical"
      <3>1. pc' = "fresh"
        BY <1>9, <2>3 DEF SearchLexical
      <3> QED
        BY <2>1, <2>3, <3>1 DEF QueryInv
    <2> QED
      BY <2>2, <2>3
  <1>10. CASE CheckFresh \/ CheckRows
    <2>1. /\ pc \in {"fresh", "rows"} /\ match' = match /\ query.mode # "lexical"
          /\ query \in RunningQueries /\ match \in Matches
          /\ (query.mode = "semantic" => lexical = {}) /\ (pc = "rows" => trusted \in Tables)
      BY <1>10, CheckSteps DEF QueryInv
    <2>2. CASE pc = "fresh" /\ NextStore /\ UNCHANGED <<query, lexical, semantic, found, joined, fallback>>
      BY <1>8, <2>1, <2>2
    <2>3. CASE /\ \/ pc' = "rows" /\ trusted' = vectors[Stores[at]] /\ trusted' # NoVectors
                  \/ pc = "rows" /\ pc' = "vector" /\ trusted' = trusted
               /\ UNCHANGED <<query, at, lexical, semantic, found, joined, fallback>>
      <3>1. trusted' \in Tables
        BY <2>1, <2>3 DEF TypeInv, Stores, StoreNames
      <3> QED
        BY <2>1, <2>3, <3>1 DEF QueryInv
    <2>4. CASE FallBack /\ query.by = "agent"
      <3>1. query' = [query EXCEPT !.mode = "lexical"] /\ pc' = "lexical" /\ fallback' = "failed"
            /\ lexical' = {} /\ semantic' = {}
        BY <2>4 DEF FallBack
      <3>2. query' \in RunningQueries /\ query'.mode = "lexical" /\ query'.by = "agent"
        BY <2>1, <2>4, <3>1, QueryType
      <3> QED
        BY <1>0, <2>1, <3>1, <3>2 DEF QueryInv
    <2>5. CASE FallBack /\ query.by # "agent"
      BY <2>1, <2>5 DEF FallBack, Fail, QueryInv
    <2> QED
      BY <1>10, <2>2, <2>3, <2>4, <2>5, CheckSteps
  <1>11. CASE SearchVectors
    BY <1>11 DEF SearchVectors, Fail, QueryInv
  <1>12. CASE Join
    <2>1. pc = "join" /\ UNCHANGED <<query, match, pc, at, lexical, trusted, fallback>> /\ query.mode # "lexical"
      BY <1>12 DEF Join, QueryInv
    <2> QED
      BY <2>1 DEF QueryInv
  <1>13. CASE EndJoin
    <2>1. pc = "join" /\ UNCHANGED <<query, match, semantic, lexical, fallback>> /\ NextStore
          /\ (query.mode = "semantic" => lexical = {})
      BY <1>13 DEF EndJoin, gathered, QueryInv
    <2> QED
      BY <1>8, <2>1
  <1>14. CASE Rank
    BY <1>14 DEF Rank, gathered, QueryInv
  <1>15. CASE Answer \/ Kill
    BY <1>15 DEF Answer, Kill, Forget, QueryInv
  <1> QED
    BY <1>1, <1>3, <1>4, <1>5, <1>6, <1>7, <1>9, <1>10, <1>11, <1>12, <1>13, <1>14, <1>15 DEF Query


-----------------------------------------------------------------------------
(* What was seen.                                                          *)

LEMMA StoresType ==
    /\ \A r \in Records : StoreOf[r] \in {"project", "global"}
    /\ Stores[1] = "project" /\ Stores[2] = "global" /\ StoreNames = {"project", "global"} /\ Len(Stores) = 2
  BY RetrievalAssumption DEF Stores, StoreNames

(* What was seen stays seen, and so do the hits.                           *)
LEMMA SameHits ==
    ASSUME SeenInv, seen \subseteq seen', UNCHANGED <<query, lexical, semantic>>
    PROVE  \A h \in (lexical \cup semantic)' :
             <<h.chunk[1], h.row>> \in seen' /\ \E s \in StoreNames : Allowed(query', s, h.chunk[1], h.row)
  BY DEF SeenInv

LEMMA SeenBeside ==
    ASSUME TypeInv, QueryInv, SeenInv, Next \/ UNCHANGED vars, ~Query
    PROVE  SeenInv'
  <1>1. UNCHANGED <<query, pc, at, lexical, semantic>> /\ seen \subseteq seen'
    BY BesideQuery DEF Next, running, gathered
  <1>2. \A h \in (lexical \cup semantic)' :
          <<h.chunk[1], h.row>> \in seen' /\ \E s \in StoreNames : Allowed(query', s, h.chunk[1], h.row)
    BY <1>1, SameHits
  <1> DEFINE Files == query.by # "library" => \A r \in Records : <<r, files[r]>> \in seen
             Indexed == \A r \in Records : StoreOf[r] \in Prepared(pc, at, query.by) => <<r, rows[r]>> \in seen
  <1>3. ASSUME pc \notin {"idle", "failed"} PROVE Files' /\ Indexed'
    <2>1. Files /\ Indexed
      BY <1>3 DEF SeenInv
    <2>2. Prepared(pc', at', query'.by) = Prepared(pc, at, query.by)
      BY <1>1
    <2>3. CASE UNCHANGED <<files, rows>>
      BY <1>1, <2>1, <2>2, <2>3
    <2>4. ASSUME NEW r \in Records, NEW row \in ChangedRows \cup {NoRow}, Edit(r, row) PROVE Files' /\ Indexed'
      <3>1. files' = [files EXCEPT ![r] = row] /\ rows' = rows
            /\ (query.by # "library" => seen' = seen \cup {<<r, row>>})
        BY <1>3, <2>4 DEF Edit
      <3>2. \A x \in Records : files'[x] = IF x = r THEN row ELSE files[x]
        BY <3>1 DEF TypeInv, Tables
      <3> QED
        BY <1>1, <2>1, <2>2, <3>1, <3>2
    <2>5. ASSUME NEW r \in Records, Sync(r) PROVE Files' /\ Indexed'
      <3>1. rows' = [rows EXCEPT ![r] = files[r]] /\ files' = files
            /\ (query.by = "library" => seen' = seen \cup {<<r, files[r]>>})
        BY <1>3, <2>5 DEF Sync
      <3>2. \A x \in Records : rows'[x] = IF x = r THEN files[r] ELSE rows[x]
        BY <3>1 DEF TypeInv, Tables
      <3>3. <<r, files[r]>> \in seen'
        BY <1>1, <2>1, <3>1
      <3> QED
        BY <1>1, <2>1, <2>2, <3>1, <3>2, <3>3
    <2>6. UNCHANGED <<files, rows>> \/ (\E r \in Records, row \in ChangedRows \cup {NoRow} : Edit(r, row))
          \/ (\E r \in Records : Sync(r))
      BY DEF Next, WriteLine, Discard, Reindex, ReindexWithoutModel, vars
    <2> HIDE DEF Files, Indexed
    <2> QED
      BY <2>3, <2>4, <2>5, <2>6
  <1> QED
    BY <1>1, <1>2, <1>3 DEF SeenInv

(* After the preparation of a store, whose rows are in what was seen.      *)
LEMMA SeenPrepared ==
    ASSUME TypeInv, QueryInv, SeenInv, pc \in {"sync", "rebuild"}, query.by \in {"agent", "person"},
           \/ NextReconciled /\ query.by = "person"
           \/ query.by = "agent" /\ \E reason : NextPrepared(reason)
           \/ query.by = "agent" /\ pc = "sync" /\ pc' = "rebuild" /\ UNCHANGED <<query, at>>,
           UNCHANGED <<files, lexical, semantic>>, seen \subseteq seen',
           \A r \in Records : \/ StoreOf[r] = Stores[at] /\ <<r, rows'[r]>> \in seen'
                              \/ StoreOf[r] # Stores[at] /\ rows'[r] = rows[r]
    PROVE  SeenInv'
  <1>1. \A r \in Records : StoreOf[r] = Stores[at] \/ StoreOf[r] \in Prepared(pc, at, query.by) => <<r, rows'[r]>> \in seen'
    BY DEF SeenInv
  <1>2. query'.by = query.by /\ lexical' = {} /\ semantic' = {}
    <2>1. query \in RunningQueries /\ lexical = {} /\ semantic = {}
      BY DEF QueryInv, RunningQueries
    <2>2. query' \in {query, [query EXCEPT !.mode = "hybrid"], [query EXCEPT !.mode = "lexical"]}
      BY DEF NextReconciled, NextPrepared
    <2>3. query \in QueryTypes
      BY <2>1, QueryType
    <2>4. query'.by = query.by
      BY <2>2, <2>3 DEF QueryTypes
    <2> QED
      BY <2>1, <2>4
  <1>3. \A r \in Records : <<r, files'[r]>> \in seen'
    BY DEF SeenInv
  <1>4. \A r \in Records :
          StoreOf[r] \in Prepared(pc', at', query.by) => StoreOf[r] = Stores[at] \/ StoreOf[r] \in Prepared(pc, at, query.by)
    <2>1. at \in {1, 2} /\ Len(Stores) = 2
      BY StoresType DEF TypeInv
    <2>2. CASE NextReconciled /\ query.by = "person"
      <3>1. \/ at = 1 /\ at' = 2 /\ pc' = pc
            \/ at = 2 /\ pc' \in {"rebuild", "lexical"}
        BY <2>1, <2>2 DEF NextReconciled
      <3> HIDE DEF Stores, StoreNames
      <3> QED
        BY <2>1, <2>2, <3>1, StoresType DEF Prepared
    <2>3. CASE query.by = "agent" /\ \E reason : NextPrepared(reason)
      <3>1. \/ at = 1 /\ at' = 2 /\ pc' = "sync"
            \/ at = 2 /\ pc' = "lexical"
        BY <2>1, <2>3 DEF NextPrepared
      <3> QED
        BY <2>1, <2>3, <3>1, StoresType DEF Prepared
    <2>4. CASE query.by = "agent" /\ pc = "sync" /\ pc' = "rebuild" /\ UNCHANGED <<query, at>>
      BY <2>1, <2>4, StoresType DEF Prepared
    <2> QED
      BY <2>2, <2>3, <2>4
  <1> QED
    BY <1>1, <1>2, <1>3, <1>4 DEF SeenInv

LEMMA SeenOfQuery ==
    ASSUME TypeInv, QueryInv, SeenInv, Query
    PROVE  SeenInv'
  <1>1. ASSUME NEW q \in Queries, NEW m \in Matches, Begin(q, m) PROVE SeenInv'
    <2>1. /\ query' = q /\ files' = files /\ rows' = rows /\ at' = 1 /\ lexical' = {} /\ semantic' = {}
          /\ pc' = CASE q.by # "library" -> "sync" [] q.mode = "semantic" -> "fresh" [] OTHER -> "lexical"
          /\ seen' = UNION {Contents(IF q.by = "library" THEN rows ELSE files, s) : s \in StoreNames}
      BY <1>1 DEF Begin, gathered, QueryInv
    <2> DEFINE table == IF q.by = "library" THEN rows ELSE files
    <2>2. \A r \in Records : <<r, table[r]>> \in Contents(table, StoreOf[r])
      BY DEF Contents
    <2>3. \A r \in Records : <<r, table[r]>> \in seen'
      BY <2>1, <2>2, StoresType
    <2>4. CASE q.by # "library"
      <3>1. pc' = "sync"
        BY <2>1, <2>4, RetrievalAssumption
      <3>2. Prepared(pc', at', query'.by) = {}
        BY <2>1, <3>1 DEF Prepared
      <3>3. \A r \in Records : <<r, files'[r]>> \in seen'
        BY <2>1, <2>3, <2>4
      <3>4. (lexical \cup semantic)' = {}
        BY <2>1
      <3> QED
        BY <3>2, <3>3, <3>4 DEF SeenInv
    <2>5. CASE q.by = "library"
      BY <2>1, <2>3, <2>5 DEF SeenInv
    <2> QED
      BY <2>4, <2>5
  <1>2. pc \in {"sync", "rebuild"} => query.by \in {"agent", "person"}
    BY QueryType DEF QueryInv
  <1>3. ASSUME pc \in {"sync", "rebuild"}
        PROVE  \A r \in Records : \/ StoreOf[r] = Stores[at] /\ <<r, Synced[r]>> \in seen
                                  \/ StoreOf[r] # Stores[at] /\ Synced[r] = rows[r]
    <2>1. \A r \in Records : <<r, files[r]>> \in seen
      BY <1>2, <1>3 DEF SeenInv
    <2> QED
      BY <2>1, SyncedType DEF TypeInv
  <1>4. CASE SyncStore
    <2>1. pc = "sync" /\ rows' = Synced /\ UNCHANGED <<files, lexical, semantic, seen>>
      BY <1>4 DEF SyncStore, gathered
    <2>2. \/ NextReconciled /\ query.by = "person"
          \/ query.by = "agent" /\ \E reason : NextPrepared(reason)
          \/ query.by = "agent" /\ pc' = "rebuild" /\ UNCHANGED <<query, at>>
      BY <1>2, <1>4, <2>1 DEF SyncStore
    <2> QED
      BY <1>2, <1>3, <2>1, <2>2, SeenPrepared
  <1>5. CASE SyncIsBusy
    <2>1. pc = "sync" /\ query.by = "agent" /\ NextPrepared("busy") /\ UNCHANGED <<files, rows, lexical, semantic>>
          /\ seen' = seen \cup Contents(rows, Stores[at])
      BY <1>5 DEF SyncIsBusy, gathered
    <2>2. \A r \in Records : StoreOf[r] = Stores[at] => <<r, rows[r]>> \in seen'
      BY <2>1 DEF Contents
    <2> QED
      BY <2>1, <2>2, SeenPrepared
  <1>6. CASE RebuildVectors
    <2>1. pc = "rebuild" /\ rows' = Synced /\ UNCHANGED <<files, lexical, semantic, seen>>
      BY <1>6 DEF RebuildVectors, gathered
    <2>2. \/ NextReconciled /\ query.by = "person"
          \/ query.by = "agent" /\ \E reason : NextPrepared(reason)
      BY <1>2, <1>6, <2>1 DEF RebuildVectors
    <2> QED
      BY <1>2, <1>3, <2>1, <2>2, SeenPrepared
  <1>7. CASE RebuildFails
    <2>1. pc = "rebuild" /\ query.by = "agent" /\ NextPrepared("failed") /\ UNCHANGED <<files, rows, lexical, semantic, seen>>
      BY <1>7 DEF RebuildFails, gathered
    <2>2. \A r \in Records : StoreOf[r] = Stores[at] => <<r, rows[r]>> \in seen
      <3>1. \A r \in Records : StoreOf[r] = Stores[at] => StoreOf[r] \in Prepared("rebuild", at, "agent")
        BY StoresType DEF Prepared, TypeInv
      <3> QED
        BY <2>1, <3>1 DEF SeenInv
    <2> QED
      BY <2>1, <2>2, SeenPrepared
  <1>8. CASE PrepareFails
    <2>1. pc' = "failed" /\ UNCHANGED <<query, lexical, semantic, seen>>
      BY <1>8 DEF PrepareFails, gathered
    <2> QED
      BY <2>1, SameHits DEF SeenInv
  <1> DEFINE Reading == {"lexical", "fresh", "rows", "vector", "join", "rank", "done"}
  <1>9. ASSUME pc \in Reading, pc' \in Reading, UNCHANGED <<files, rows, seen>>, query'.by = query.by,
               \A h \in (lexical \cup semantic)' :
                 <<h.chunk[1], h.row>> \in seen /\ \E s \in StoreNames : Allowed(query', s, h.chunk[1], h.row)
        PROVE  SeenInv'
    <2>1. Prepared(pc', at', query'.by) = Prepared(pc, at, query.by)
      BY <1>9 DEF Prepared
    <2> QED
      BY <1>9, <2>1 DEF SeenInv
  <1>10. ASSUME pc \in Reading, pc' \in Reading \cup {"failed"},
                UNCHANGED <<files, rows, seen, query, lexical, semantic>>
         PROVE  SeenInv'
    <2>1. CASE pc' = "failed"
      BY <1>10, <2>1 DEF SeenInv
    <2>2. CASE pc' \in Reading
      <3>1. \A h \in (lexical \cup semantic)' :
              <<h.chunk[1], h.row>> \in seen /\ \E s \in StoreNames : Allowed(query', s, h.chunk[1], h.row)
        BY <1>10 DEF SeenInv
      <3> QED
        BY <1>9, <1>10, <2>2, <3>1
    <2> QED
      BY <1>10, <2>1, <2>2
  <1>11. ASSUME NextStore PROVE pc' \in Reading
    BY <1>11 DEF NextStore
  <1>12. ASSUME pc \in Reading PROVE \A r \in Records : <<r, rows[r]>> \in seen
    <2>1. Prepared(pc, at, query.by) = StoreNames
      BY <1>12 DEF Prepared
    <2> QED
      BY <1>12, <2>1, StoresType DEF SeenInv
  <1>13. Stores[at] \in StoreNames
    BY StoresType DEF TypeInv
  <1>14. CASE SearchLexical
    <2> DEFINE hits == SearchHits(query, Stores[at], LexicalLimit(query))
    <2>1. query \in RunningQueries /\ match \in Matches /\ rows \in Tables
      BY <1>14 DEF SearchLexical, QueryInv, TypeInv
    <2>2. \A h \in hits : h.row = rows[h.chunk[1]] /\ h.chunk[1] \in Records /\ Allowed(query, Stores[at], h.chunk[1], h.row)
      BY <2>1, LexicalLimitType, SearchHitsType
    <2> HIDE DEF hits
    <2>3. /\ lexical' = lexical \cup hits /\ pc = "lexical" /\ pc' \in Reading
          /\ UNCHANGED <<files, rows, query, semantic, seen>>
      BY <1>11, <1>14 DEF SearchLexical, hits
    <2>4. \A h \in hits : <<h.chunk[1], h.row>> \in seen /\ \E s \in StoreNames : Allowed(query, s, h.chunk[1], h.row)
      BY <1>12, <1>13, <2>2, <2>3
    <2>5. \A h \in (lexical \cup semantic)' :
            <<h.chunk[1], h.row>> \in seen /\ \E s \in StoreNames : Allowed(query', s, h.chunk[1], h.row)
      BY <2>3, <2>4 DEF SeenInv
    <2> QED
      BY <1>9, <2>3, <2>5
  <1>15. CASE CheckFresh \/ CheckRows
    <2>1. pc \in {"fresh", "rows"} /\ UNCHANGED <<files, rows, seen>> /\ query \in RunningQueries
      BY <1>15, CheckSteps DEF QueryInv
    <2>2. CASE FallBack /\ query.by = "agent"
      <3>1. query'.by = query.by /\ lexical' = {} /\ semantic' = {} /\ pc' = "lexical"
        BY <2>1, <2>2, QueryType DEF FallBack
      <3> QED
        BY <1>9, <2>1, <3>1
    <2>3. CASE ~(FallBack /\ query.by = "agent")
      <3>1. pc' \in Reading \cup {"failed"} /\ UNCHANGED <<query, lexical, semantic>>
        BY <1>11, <1>15, <2>3, CheckSteps DEF FallBack, Fail
      <3> QED
        BY <1>10, <2>1, <3>1
    <2> QED
      BY <2>2, <2>3
  <1>16. CASE SearchVectors
    <2>1. pc = "vector" /\ pc' \in {"join", "failed"} /\ UNCHANGED <<files, rows, seen, query, lexical, semantic>>
      BY <1>16 DEF SearchVectors, Fail
    <2> QED
      BY <1>10, <2>1
  <1>17. CASE Join
    <2> DEFINE f == found[joined + 1]
    <2>1. pc = "join" /\ UNCHANGED <<files, rows, seen, query, pc, lexical>> /\ f \in FoundChunks
          /\ (semantic' = semantic \/ (semantic' = semantic \cup {JoinedHit(f)} /\ Joinable(f)))
      BY <1>17 DEF Join, TypeInv
    <2> HIDE DEF f
    <2>2. CASE semantic' = semantic
      BY <1>10, <2>1, <2>2
    <2>3. CASE semantic' = semantic \cup {JoinedHit(f)} /\ Joinable(f)
      <3> DEFINE h == JoinedHit(f)
      <3>1. h.chunk = f.chunk /\ h.row = rows[f.chunk[1]] /\ f.chunk[1] \in Records
            /\ Allowed(query, Stores[at], f.chunk[1], rows[f.chunk[1]])
        BY <2>1, <2>3, JoinedHitType DEF Joinable, TypeInv, FoundChunks
      <3> HIDE DEF h
      <3>2. <<h.chunk[1], h.row>> \in seen /\ \E s \in StoreNames : Allowed(query, s, h.chunk[1], h.row)
        BY <1>12, <1>13, <2>1, <3>1
      <3>3. semantic' = semantic \cup {h}
        BY <2>3 DEF h
      <3>4. \A x \in (lexical \cup semantic)' :
              <<x.chunk[1], x.row>> \in seen /\ \E s \in StoreNames : Allowed(query', s, x.chunk[1], x.row)
        BY <2>1, <3>2, <3>3 DEF SeenInv
      <3> QED
        BY <1>9, <2>1, <3>4
    <2> QED
      BY <2>1, <2>2, <2>3
  <1>18. CASE EndJoin
    <2>1. pc = "join" /\ pc' \in Reading /\ UNCHANGED <<files, rows, seen, query, lexical, semantic>>
      BY <1>11, <1>18 DEF EndJoin, gathered
    <2> QED
      BY <1>10, <2>1
  <1>19. CASE Rank
    <2>1. pc = "rank" /\ pc' = "done" /\ UNCHANGED <<files, rows, seen, query, lexical, semantic>>
      BY <1>19 DEF Rank, gathered
    <2> QED
      BY <1>10, <2>1
  <1>20. CASE Answer \/ Kill
    BY <1>20 DEF Answer, Kill, Forget, SeenInv
  <1> QED
    BY <1>1, <1>4, <1>5, <1>6, <1>7, <1>8, <1>14, <1>15, <1>16, <1>17, <1>18, <1>19, <1>20 DEF Query


-----------------------------------------------------------------------------
(* No chunk is found twice.                                                *)

LEMMA NextStoreFrom ==
    ASSUME TypeInv, NextStore
    PROVE  \/ at = 1 /\ at' = 2 /\ pc' \in {"fresh", "lexical"}
           \/ at = 2 /\ at' = 2 /\ pc' = "rank"
  BY StoresType DEF TypeInv, NextStore

LEMMA DistinctOfQuery ==
    ASSUME TypeInv, QueryInv, DistinctInv, Query
    PROVE  DistinctInv'
  <1>1. at \in {1, 2} /\ Stores[1] = "project" /\ Stores[2] = "global"
    BY StoresType DEF TypeInv
  <1>2. ASSUME lexical' = {}, semantic' = {}, pc' # "join" PROVE DistinctInv'
    BY <1>2 DEF DistinctInv, Unrepeated
  <1>3. ASSUME lexical' = lexical, semantic' = semantic,
               pc' \notin {"lexical", "fresh", "rows", "vector", "join"}
        PROVE  DistinctInv'
    BY <1>3 DEF DistinctInv, Unrepeated
  <1>4. ASSUME NEW q \in Queries, NEW m \in Matches, Begin(q, m) PROVE DistinctInv'
    <2>1. lexical' = {} /\ semantic' = {} /\ pc' # "join"
      BY <1>4 DEF Begin, gathered, QueryInv
    <2> QED
      BY <1>2, <2>1
  <1>5. CASE SyncStore \/ SyncIsBusy \/ RebuildVectors \/ RebuildFails \/ PrepareFails
    <2>1. lexical' = {} /\ semantic' = {}
      BY <1>5 DEF SyncStore, SyncIsBusy, RebuildVectors, RebuildFails, PrepareFails, gathered, QueryInv
    <2>2. pc' # "join"
      BY <1>5 DEF SyncStore, SyncIsBusy, RebuildVectors, RebuildFails, PrepareFails, NextPrepared, NextReconciled
    <2> QED
      BY <1>2, <2>1, <2>2
  <1>6. CASE SearchLexical
    <2> DEFINE hits == SearchHits(query, Stores[at], LexicalLimit(query))
    <2>1. query \in RunningQueries /\ match \in Matches /\ rows \in Tables
      BY <1>6 DEF SearchLexical, QueryInv, TypeInv
    <2>2. Unrepeated(hits) /\ \A h \in hits : ScopeOf(h) = Stores[at]
      BY <2>1, LexicalLimitType, SearchHitsType
    <2> HIDE DEF hits
    <2>3. /\ lexical' = lexical \cup hits /\ pc = "lexical" /\ semantic' = semantic
          /\ (pc' = "fresh" /\ at' = at) \/ NextStore
      BY <1>6 DEF SearchLexical, hits
    <2>4. Unrepeated(lexical') /\ Unrepeated(semantic')
      <3>1. ASSUME NEW a \in lexical, NEW b \in hits PROVE a.chunk # b.chunk
        <4>1. ScopeOf(a) = "project" /\ ScopeOf(b) = "global"
          BY <1>1, <2>2, <2>3 DEF DistinctInv, Earlier
        <4> QED
          BY <4>1 DEF ScopeOf
      <3>2. Unrepeated(lexical) /\ Unrepeated(semantic)
        BY DEF DistinctInv
      <3> QED
        BY <2>2, <2>3, <3>1, <3>2 DEF Unrepeated
    <2>5. at = 1 => \A h \in lexical' : ScopeOf(h) = "project"
      <3>1. at = 1 => lexical = {}
        BY <2>3 DEF DistinctInv, Earlier
      <3> QED
        BY <1>1, <2>2, <2>3, <3>1
    <2>6. \A h \in semantic : Earlier(h)
      BY <2>3 DEF DistinctInv
    <2>7. CASE pc' = "fresh" /\ at' = at
      BY <2>3, <2>4, <2>5, <2>6, <2>7 DEF DistinctInv, Earlier
    <2>8. CASE NextStore
      BY <2>3, <2>4, <2>5, <2>6, <2>8, NextStoreFrom DEF DistinctInv, Earlier
    <2> QED
      BY <2>3, <2>7, <2>8
  <1>7. CASE CheckFresh \/ CheckRows
    <2>1. /\ pc \in {"fresh", "rows"} /\ \A h \in semantic : Earlier(h)
          /\ (at = 1 => \A h \in lexical : ScopeOf(h) = "project")
          /\ Unrepeated(lexical) /\ Unrepeated(semantic)
      BY <1>7, CheckSteps DEF DistinctInv
    <2>2. CASE NextStore /\ UNCHANGED <<lexical, semantic>>
      BY <2>1, <2>2, NextStoreFrom DEF DistinctInv, Earlier
    <2>3. CASE pc' \in {"rows", "vector"} /\ UNCHANGED <<at, lexical, semantic>>
      BY <2>1, <2>3 DEF DistinctInv, Earlier
    <2>4. CASE FallBack /\ query.by = "agent"
      <3>1. lexical' = {} /\ semantic' = {} /\ pc' # "join"
        BY <2>4 DEF FallBack
      <3> QED
        BY <1>2, <3>1
    <2>5. CASE FallBack /\ query.by # "agent"
      <3>1. lexical' = lexical /\ semantic' = semantic /\ pc' = "failed"
        BY <2>5 DEF FallBack, Fail
      <3> QED
        BY <1>3, <3>1
    <2> QED
      BY <1>7, <2>2, <2>3, <2>4, <2>5, CheckSteps
  <1>8. CASE SearchVectors
    <2>1. CASE Fail
      <3>1. lexical' = lexical /\ semantic' = semantic /\ pc' = "failed"
        BY <2>1 DEF Fail
      <3> QED
        BY <1>3, <3>1
    <2>2. CASE ~Fail
      <3> DEFINE s == Stores[at]
                 f == VectorSearch(query, s)
      <3>1. /\ found' = f /\ joined' = 0 /\ pc' = "join" /\ pc = "vector" /\ UNCHANGED <<at, lexical, semantic>>
            /\ query \in RunningQueries /\ match \in Matches /\ trusted \in Tables
        BY <1>8, <2>2 DEF SearchVectors, QueryInv
      <3>2. query.limit \in Nat
        BY <3>1, QueryType
      <3>3. /\ \A i \in 1..Len(f) : f[i].chunk \in Admitted(query, s)
            /\ \A i, j \in 1..Len(f) : f[i].chunk = f[j].chunk => i = j
        BY <3>1, <3>2, VectorSearchFinds
      <3> HIDE DEF f
      <3>4. \A i \in 1..Len(f) : StoreOf[f[i].chunk[1]] = s
        BY <3>1, <3>3, ChunkIdsType DEF Admitted
      <3> QED
        BY <3>1, <3>3, <3>4 DEF DistinctInv, Earlier
    <2> QED
      BY <2>1, <2>2
  <1>9. CASE Join
    <2> DEFINE f == found[joined + 1]
    <2>1. /\ pc = "join" /\ UNCHANGED <<pc, at, lexical, found>> /\ joined' = joined + 1
          /\ joined \in Nat /\ joined + 1 \in 1..Len(found) /\ f \in FoundChunks
          /\ (semantic' = semantic \/ (semantic' = semantic \cup {JoinedHit(f)} /\ Joinable(f)))
      BY <1>9 DEF Join, TypeInv
    <2>2. /\ \A i \in 1..Len(found) : StoreOf[found[i].chunk[1]] = Stores[at]
          /\ \A i, j \in 1..Len(found) : found[i].chunk = found[j].chunk => i = j
          /\ \A h \in semantic : Earlier(h) \/ \E i \in 1..joined : h.chunk = found[i].chunk
          /\ Unrepeated(lexical) /\ Unrepeated(semantic)
          /\ (at = 1 => \A h \in lexical : ScopeOf(h) = "project")
      BY <2>1 DEF DistinctInv
    <2>3. \A h \in semantic : Earlier(h) \/ \E i \in 1..(joined + 1) : h.chunk = found[i].chunk
      BY <2>1, <2>2
    <2>4. \A h \in semantic : h.chunk # f.chunk
      <3>1. ASSUME NEW h \in semantic, h.chunk = f.chunk PROVE FALSE
        <4>1. StoreOf[f.chunk[1]] = Stores[at]
          BY <2>1, <2>2
        <4>2. ~Earlier(h)
          BY <1>1, <3>1, <4>1 DEF Earlier, ScopeOf
        <4>3. PICK i \in 1..joined : h.chunk = found[i].chunk
          BY <2>2, <4>2
        <4>4. i \in 1..Len(found) /\ i # joined + 1
          BY <2>1, <4>3
        <4> QED
          BY <2>1, <2>2, <3>1, <4>3, <4>4
      <3> QED
        BY <3>1
    <2>5. CASE semantic' = semantic
      BY <2>1, <2>2, <2>3, <2>5 DEF DistinctInv, Earlier
    <2>6. CASE semantic' = semantic \cup {JoinedHit(f)} /\ Joinable(f)
      <3> DEFINE h == JoinedHit(f)
      <3>1. h.chunk = f.chunk
        BY <2>1, <2>6, JoinedHitType DEF Joinable, TypeInv
      <3> HIDE DEF h
      <3>2. semantic' = semantic \cup {h} /\ joined + 1 \in 1..(joined + 1)
        BY <2>1, <2>6 DEF h
      <3>3. Unrepeated(semantic')
        BY <2>2, <2>4, <3>1, <3>2 DEF Unrepeated
      <3>4. \A x \in semantic' : Earlier(x) \/ \E i \in 1..(joined + 1) : x.chunk = found[i].chunk
        BY <2>3, <3>1, <3>2
      <3> HIDE DEF f
      <3> QED
        BY <2>1, <2>2, <3>3, <3>4 DEF DistinctInv, Earlier
    <2> QED
      BY <2>1, <2>5, <2>6
  <1>10. CASE EndJoin
    <2>1. /\ pc = "join" /\ NextStore /\ UNCHANGED <<lexical, semantic>> /\ joined = Len(found)
          /\ (at = 1 => \A h \in lexical : ScopeOf(h) = "project")
          /\ Unrepeated(lexical) /\ Unrepeated(semantic)
          /\ \A i \in 1..Len(found) : StoreOf[found[i].chunk[1]] = Stores[at]
          /\ \A h \in semantic : Earlier(h) \/ \E i \in 1..joined : h.chunk = found[i].chunk
      BY <1>10 DEF EndJoin, gathered, DistinctInv
    <2>2. at = 1 => \A h \in semantic : ScopeOf(h) = "project"
      <3>1. ASSUME at = 1, NEW h \in semantic PROVE ScopeOf(h) = "project"
        <4>1. PICK i \in 1..Len(found) : h.chunk = found[i].chunk
          BY <2>1, <3>1 DEF Earlier
        <4> QED
          BY <1>1, <2>1, <3>1, <4>1 DEF ScopeOf
      <3> QED
        BY <3>1
    <2> QED
      BY <2>1, <2>2, NextStoreFrom DEF DistinctInv, Earlier
  <1>11. CASE Rank
    <2>1. lexical' = lexical /\ semantic' = semantic /\ pc' = "done"
      BY <1>11 DEF Rank, gathered
    <2> QED
      BY <1>3, <2>1
  <1>12. CASE Answer \/ Kill
    <2>1. lexical' = {} /\ semantic' = {} /\ pc' # "join"
      BY <1>12 DEF Answer, Kill, Forget
    <2> QED
      BY <1>2, <2>1
  <1> QED
    BY <1>4, <1>5, <1>6, <1>7, <1>8, <1>9, <1>10, <1>11, <1>12 DEF Query

LEMMA ScoresOfQuery ==
    ASSUME TypeInv, QueryInv, DistinctInv, ScoreInv, Query
    PROVE  ScoreInv'
  <1>1. at \in {1, 2} /\ MaxLimit \in Nat /\ IsFiniteSet(lexical) /\ Cardinality(lexical) \in Nat
    BY RetrievalAssumption, FS_CardinalityType DEF TypeInv
  <1>2. ASSUME lexical' = {} PROVE ScoreInv'
    BY <1>1, <1>2, FS_EmptySet DEF ScoreInv
  <1>3. ASSUME lexical' = lexical, pc' \notin {"lexical", "fresh", "rows", "vector", "join"} PROVE ScoreInv'
    BY <1>3 DEF ScoreInv
  <1>4. ASSUME NEW q \in Queries, NEW m \in Matches, Begin(q, m) PROVE ScoreInv'
    <2>1. lexical' = {}
      BY <1>4 DEF Begin, gathered, QueryInv
    <2> QED
      BY <1>2, <2>1
  <1>5. CASE SyncStore \/ SyncIsBusy \/ RebuildVectors \/ RebuildFails \/ PrepareFails
    <2>1. lexical' = {}
      BY <1>5 DEF SyncStore, SyncIsBusy, RebuildVectors, RebuildFails, PrepareFails, gathered, QueryInv
    <2> QED
      BY <1>2, <2>1
  <1>6. CASE SearchLexical
    <2> DEFINE hits == SearchHits(query, Stores[at], LexicalLimit(query))
    <2>1. query \in RunningQueries /\ match \in Matches /\ rows \in Tables
      BY <1>6 DEF SearchLexical, QueryInv, TypeInv
    <2> DEFINE limit == LexicalLimit(query)
    <2>2. limit \in Nat /\ limit <= MaxLimit
      BY <2>1, LexicalLimitType
    <2>3. /\ IsFiniteSet(hits) /\ Cardinality(hits) <= limit /\ Cardinality(hits) \in Nat
          /\ \A h \in hits : IF h.reason \in Naming THEN h.score >= 120 ELSE h.score <= 90
      BY <2>1, <2>2, SearchHitsType
    <2>4. /\ lexical' = lexical \cup hits /\ pc = "lexical"
          /\ (pc' = "fresh" /\ at' = at) \/ NextStore
      BY <1>6 DEF SearchLexical
    <2> HIDE DEF hits, limit
    <2>5. Cardinality(lexical') <= Cardinality(lexical) + Cardinality(hits)
      <3> DEFINE both == lexical \cap hits
      <3>1. Cardinality(both) \in Nat
        BY <1>1, FS_Intersection, FS_CardinalityType
      <3>2. Cardinality(lexical \cup hits) = Cardinality(lexical) + Cardinality(hits) - Cardinality(both)
        BY <1>1, <2>3, FS_Union
      <3> HIDE DEF both
      <3> QED
        BY <1>1, <2>3, <2>4, <3>1, <3>2
    <2>6. Cardinality(lexical') \in Nat
      BY <1>1, <2>3, <2>4, FS_Union, FS_CardinalityType
    <2>7. Cardinality(lexical) <= MaxLimit /\ (at = 1 => Cardinality(lexical) = 0)
      <3>1. at = 1 => lexical = {}
        BY <2>4 DEF DistinctInv, Earlier
      <3> QED
        BY <2>4, <3>1, FS_EmptySet DEF ScoreInv
    <2>8. \A h \in lexical' : IF h.reason \in Naming THEN h.score >= 120 ELSE h.score <= 90
      BY <2>3, <2>4 DEF ScoreInv
    <2>9. Cardinality(lexical') <= 2 * MaxLimit /\ (at = 1 => Cardinality(lexical') <= MaxLimit)
      BY <1>1, <2>2, <2>3, <2>5, <2>6, <2>7
    <2>10. pc' = "rank" \/ at = 1 \/ (pc' = "fresh" /\ at' = at)
      BY <1>1, <2>4, NextStoreFrom
    <2> QED
      BY <1>1, <2>8, <2>9, <2>10 DEF ScoreInv
  <1>7. ASSUME NextStore, lexical' = lexical, pc \in {"fresh", "join"} PROVE ScoreInv'
    BY <1>7, NextStoreFrom DEF ScoreInv
  <1>8. CASE CheckFresh \/ CheckRows
    <2>1. pc \in {"fresh", "rows"}
      BY <1>8, CheckSteps
    <2>2. CASE pc = "fresh" /\ NextStore /\ lexical' = lexical
      BY <1>7, <2>1, <2>2
    <2>3. CASE pc' \in {"rows", "vector"} /\ UNCHANGED <<at, lexical>>
      BY <2>1, <2>3 DEF ScoreInv
    <2>4. CASE FallBack
      <3>1. lexical' = {} \/ (lexical' = lexical /\ pc' = "failed")
        BY <2>4 DEF FallBack, Fail
      <3> QED
        BY <1>2, <1>3, <3>1
    <2> QED
      BY <1>8, <2>2, <2>3, <2>4, CheckSteps
  <1>9. CASE SearchVectors
    <2>1. lexical' = lexical /\ pc = "vector" /\ (pc' = "failed" \/ (pc' = "join" /\ at' = at))
      BY <1>9 DEF SearchVectors, Fail
    <2> QED
      BY <2>1 DEF ScoreInv
  <1>10. CASE Join
    BY <1>10 DEF Join, ScoreInv
  <1>11. CASE EndJoin
    <2>1. NextStore /\ lexical' = lexical /\ pc = "join"
      BY <1>11 DEF EndJoin, gathered
    <2> QED
      BY <1>7, <2>1
  <1>12. CASE Rank
    <2>1. lexical' = lexical /\ pc' = "done"
      BY <1>12 DEF Rank, gathered
    <2> QED
      BY <1>3, <2>1
  <1>13. CASE Answer \/ Kill
    <2>1. lexical' = {}
      BY <1>13 DEF Answer, Kill, Forget
    <2> QED
      BY <1>2, <2>1
  <1> QED
    BY <1>4, <1>5, <1>6, <1>8, <1>9, <1>10, <1>11, <1>12, <1>13 DEF Query

-----------------------------------------------------------------------------
(* What became of the vector searches.                                     *)

LEMMA PartOfQuery ==
    ASSUME TypeInv, QueryInv, PartInv, Query
    PROVE  PartInv'
  <1>1. at \in {1, 2} /\ Stores[1] = "project" /\ Stores[2] = "global" /\ StoreNames = {"project", "global"}
    BY StoresType DEF TypeInv
  <1>2. Unread \in [StoreNames -> {"unread", "searched", "absent"}]
    BY DEF Unread
  <1>3. ASSUME semanticOf' = Unread, pc' \in {"idle", "sync", "rebuild", "lexical", "fresh", "failed"},
               pc' \in {"lexical", "fresh"} => query'.mode = "lexical" \/ at' = 1
        PROVE  PartInv'
    BY <1>2, <1>3 DEF PartInv
  <1>4. ASSUME NEW q \in Queries, NEW m \in Matches, Begin(q, m) PROVE PartInv'
    <2>1. semanticOf' = Unread /\ at' = 1
          /\ pc' = CASE q.by # "library" -> "sync" [] q.mode = "semantic" -> "fresh" [] OTHER -> "lexical"
      BY <1>4 DEF Begin, gathered, QueryInv, PartInv
    <2> QED
      BY <1>3, <2>1
  <1>5. ASSUME NEW reason, NextPrepared(reason)
        PROVE  \/ pc' = "sync"
               \/ pc' = "lexical" /\ at' = 1
    BY <1>5 DEF NextPrepared
  <1>6. ASSUME NextReconciled, pc \in {"sync", "rebuild"}
        PROVE  \/ pc' \in {"sync", "rebuild"}
               \/ pc' = "lexical" /\ at' = 1
    BY <1>1, <1>6 DEF NextReconciled, Stores
  <1>7. CASE SyncStore \/ SyncIsBusy \/ RebuildVectors \/ RebuildFails \/ PrepareFails
    <2>1. pc \in {"sync", "rebuild"} /\ semanticOf' = Unread
      BY <1>7 DEF SyncStore, SyncIsBusy, RebuildVectors, RebuildFails, PrepareFails, gathered, PartInv
    <2>2. pc' \in {"sync", "rebuild", "failed"} \/ (pc' = "lexical" /\ at' = 1)
      BY <1>5, <1>6, <1>7, <2>1 DEF SyncStore, SyncIsBusy, RebuildVectors, RebuildFails, PrepareFails
    <2> QED
      BY <1>3, <2>1, <2>2
  <1>8. ASSUME NextStore, query' = query, pc \in {"lexical", "fresh", "join"},
               semanticOf' \in [StoreNames -> {"unread", "searched", "absent"}],
               query.mode = "lexical" => semanticOf' = Unread,
               query.mode # "lexical" => semanticOf'[Stores[at]] # "unread"
                                         /\ (at = 2 => semanticOf'["project"] # "unread")
        PROVE  PartInv'
    <2>1. \/ at = 1 /\ at' = 2 /\ pc' \in {"fresh", "lexical"}
          \/ at = 2 /\ at' = 2 /\ pc' = "rank"
      BY <1>8, NextStoreFrom
    <2>2. CASE query.mode = "lexical"
      BY <1>8, <2>1, <2>2 DEF PartInv
    <2>3. CASE query.mode # "lexical"
      <3>1. semanticOf'["project"] # "unread" /\ (at = 2 => semanticOf'["global"] # "unread")
        BY <1>1, <1>8, <2>3
      <3> QED
        BY <1>1, <1>8, <2>1, <2>3, <3>1 DEF PartInv
    <2> QED
      BY <2>2, <2>3
  <1>9. CASE SearchLexical
    <2>1. pc = "lexical" /\ query' = query /\ semanticOf' = semanticOf
          /\ IF query.mode = "lexical" THEN NextStore ELSE pc' = "fresh" /\ at' = at
      BY <1>9 DEF SearchLexical
    <2>2. CASE query.mode = "lexical"
      BY <1>8, <2>1, <2>2 DEF PartInv
    <2>3. CASE query.mode # "lexical"
      BY <2>1, <2>3 DEF PartInv
    <2> QED
      BY <2>2, <2>3
  <1>10. CASE CheckFresh \/ CheckRows
    <2>1. pc \in {"fresh", "rows"} /\ query.mode # "lexical" /\ query \in RunningQueries
      BY <1>10, CheckSteps DEF QueryInv
    <2>2. CASE /\ pc = "fresh" /\ NextStore /\ query' = query
               /\ semanticOf' = [semanticOf EXCEPT ![Stores[at]] = "absent"]
      <3>1. /\ semanticOf' \in [StoreNames -> {"unread", "searched", "absent"}]
            /\ semanticOf'[Stores[at]] # "unread"
            /\ (at = 2 => semanticOf'["project"] # "unread")
        BY <1>1, <2>1, <2>2 DEF PartInv
      <3> QED
        BY <1>8, <2>1, <2>2, <3>1
    <2>3. CASE pc' \in {"rows", "vector"} /\ UNCHANGED <<query, at, semanticOf>>
      BY <2>1, <2>3 DEF PartInv
    <2>4. CASE FallBack /\ query.by = "agent"
      <3>1. query' = [query EXCEPT !.mode = "lexical"] /\ pc' = "lexical" /\ at' = 1 /\ semanticOf' = Unread
        BY <2>4 DEF FallBack
      <3> QED
        BY <1>3, <3>1
    <2>5. CASE FallBack /\ query.by # "agent"
      <3>1. pc' = "failed" /\ semanticOf' = semanticOf
        BY <2>5 DEF FallBack, Fail
      <3> QED
        BY <3>1 DEF PartInv
    <2> QED
      BY <1>10, <2>2, <2>3, <2>4, <2>5, CheckSteps
  <1>11. CASE SearchVectors
    <2>1. pc = "vector" /\ query' = query /\ at' = at /\ query.mode # "lexical"
          /\ \/ pc' = "failed" /\ semanticOf' = semanticOf
             \/ pc' = "join" /\ semanticOf' = [semanticOf EXCEPT ![Stores[at]] = "searched"]
      BY <1>11 DEF SearchVectors, Fail, QueryInv
    <2>2. CASE pc' = "failed" /\ semanticOf' = semanticOf
      BY <2>2 DEF PartInv
    <2>3. CASE pc' = "join" /\ semanticOf' = [semanticOf EXCEPT ![Stores[at]] = "searched"]
      <3>1. /\ semanticOf' \in [StoreNames -> {"unread", "searched", "absent"}]
            /\ semanticOf'[Stores[at]] # "unread"
            /\ (at = 2 => semanticOf'["project"] # "unread")
        BY <1>1, <2>1, <2>3 DEF PartInv
      <3> QED
        BY <2>1, <2>3, <3>1 DEF PartInv
    <2> QED
      BY <2>1, <2>2, <2>3
  <1>12. CASE Join
    BY <1>12 DEF Join, PartInv
  <1>13. CASE EndJoin
    <2>1. pc = "join" /\ NextStore /\ query' = query /\ semanticOf' = semanticOf /\ query.mode # "lexical"
      BY <1>13 DEF EndJoin, gathered, QueryInv
    <2> QED
      BY <1>8, <2>1 DEF PartInv
  <1>14. CASE Rank
    <2>1. pc = "rank" /\ pc' = "done" /\ UNCHANGED <<query, at, semanticOf>>
      BY <1>14 DEF Rank, gathered
    <2> QED
      BY <2>1 DEF PartInv
  <1>15. CASE Answer \/ Kill
    BY <1>3, <1>15 DEF Answer, Kill, Forget
  <1> QED
    BY <1>4, <1>7, <1>9, <1>10, <1>11, <1>12, <1>13, <1>14, <1>15 DEF Query


-----------------------------------------------------------------------------
(* The inductive invariant.                                                *)

LEMMA Initially ==
    ASSUME Init
    PROVE  IInv
  <1>1. TypeInv
    BY InitTypes
  <1>2. pc = "idle" /\ at = 1 /\ query = NoQuery /\ match = NoQuery /\ lexical = {} /\ semantic = {}
        /\ found = <<>> /\ joined = 0 /\ result = <<>> /\ fallback = Unset /\ seen = {}
    BY DEF Init
  <1>3. QueryInv /\ SeenInv
    BY <1>2 DEF QueryInv, SeenInv
  <1>4. DistinctInv
    BY <1>2 DEF DistinctInv, Unrepeated
  <1>5. ScoreInv
    <2>1. Cardinality(lexical) = 0 /\ MaxLimit \in Nat
      BY <1>2, FS_EmptySet, RetrievalAssumption
    <2> QED
      BY <1>2, <2>1 DEF ScoreInv
  <1>6. PartInv
    BY <1>2 DEF Init, PartInv, Unread
  <1> QED
    BY <1>1, <1>3, <1>4, <1>5, <1>6 DEF IInv

LEMMA Stepwise ==
    ASSUME IInv, [Next]_vars
    PROVE  IInv'
  <1> USE DEF IInv
  <1>1. CASE Query
    BY <1>1, TypesOfQuery, QueryInvOfQuery, SeenOfQuery, DistinctOfQuery, ScoresOfQuery,
       PartOfQuery
  <1>2. CASE ~Query
    <2>1. running' = running
      BY <1>2, BesideQuery DEF Next
    <2>2. UNCHANGED <<query, pc, at, lexical, semantic, found, joined, semanticOf>>
      BY <2>1 DEF running, gathered
    <2>3. DistinctInv' /\ ScoreInv' /\ PartInv'
      BY <2>2 DEF DistinctInv, ScoreInv, PartInv, Unrepeated, Earlier
    <2> QED
      BY <1>2, <2>3, TypesBeside, QueryInvBeside, SeenBeside
  <1> QED
    BY <1>1, <1>2

(* Every behaviour of a query keeps the invariant: what its variables hold,*)
(* that its stores are prepared before anything is found, that all it found*)
(* had been seen, that no chunk is found twice, and what a match is worth. *)
THEOREM InductiveInvariant == Spec => []IInv
  <1>1. Init => IInv
    BY Initially
  <1>2. IInv /\ [Next]_vars => IInv'
    BY Stepwise
  <1> QED
    BY <1>1, <1>2, PTL DEF Spec

(* The variables of Retrieval have their types: at most MaxLines lines are *)
(* drafted, a hit is a chunk of a row its record may have.                 *)
THEOREM TypeCorrect == Spec => []TypeOK
  <1>1. IInv => TypeOK
    <2> SUFFICES ASSUME IInv PROVE TypeOK
      OBVIOUS
    <2>1. TypeInv /\ QueryInv /\ semanticOf \in [StoreNames -> {"unread", "searched", "absent"}]
      BY DEF IInv, PartInv
    <2>2. \A r \in Records : files[r] \in RowsOf(r) \cup {NoRow} /\ rows[r] \in RowsOf(r) \cup {NoRow}
      BY <2>1 DEF TypeInv, Tables
    <2>3. query \in RunningQueries \cup {NoQuery} /\ match \in Matches \cup {NoQuery}
      BY <2>1 DEF QueryInv
    <2>4. at \in 1..Len(Stores)
      BY <2>1 DEF TypeInv, Stores
    <2>5. \A h \in lexical \cup semantic :
            h.chunk[1] \in Records /\ h.row \in RowsOf(h.chunk[1]) /\ h.chunk \in ChunksOf(h.chunk[1], h.row)
      BY <2>1, HitType DEF TypeInv, LexicalHits, SemanticHits
    <2> QED
      BY <2>1, <2>2, <2>3, <2>4, <2>5 DEF TypeOK, TypeInv, RunningQueries, Phases
  <1> QED
    BY <1>1, InductiveInvariant, PTL

-----------------------------------------------------------------------------
(* Results.                                                                *)

LEMMA OnlyRankEnds ==
    ASSUME IInv, Query, pc' = "done"
    PROVE  Rank
  <1>1. ASSUME NEW q \in Queries, NEW m \in Matches, Begin(q, m) PROVE FALSE
    BY <1>1 DEF Begin
  <1>2. ASSUME SyncStore \/ SyncIsBusy \/ RebuildVectors \/ RebuildFails \/ PrepareFails PROVE FALSE
    BY <1>2 DEF SyncStore, SyncIsBusy, RebuildVectors, RebuildFails, PrepareFails, NextPrepared, NextReconciled
  <1>3. ASSUME SearchLexical \/ CheckFresh \/ CheckRows \/ SearchVectors \/ Join \/ EndJoin PROVE FALSE
    BY <1>3, CheckSteps DEF SearchLexical, SearchVectors, Join, EndJoin, NextStore, FallBack, Fail
  <1>4. ASSUME Answer \/ Kill PROVE FALSE
    BY <1>4 DEF Answer, Kill, Forget
  <1> QED
    BY <1>1, <1>2, <1>3, <1>4 DEF Query

(* However a note grows, all it says outside its headings is in one of its *)
(* chunks, in order and under its headings, no fenced block is divided,    *)
(* and the pieces of a chunk that are embedded hold all of it.             *)
THEOREM ChunksFaithful == Spec => []ChunksAreFaithful
  <1>1. IInv => ChunksAreFaithful
    BY ChunksAreKept, PiecesFitAlways DEF IInv, TypeInv, ChunksAreFaithful
  <1> QED
    BY <1>1, InductiveInvariant, PTL

(* Whatever edits, sync and reindex do between its statements, a query of  *)
(* retrieval.rs returns only hits whose rows were there while it ran and   *)
(* that its status, access and scope filter admits.                        *)
THEOREM ResultsAllowed == Spec => []ResultsAreAllowed
  <1>1. Init => ResultsAreAllowed
    BY DEF Init, ResultsAreAllowed
  <1>2. IInv /\ ResultsAreAllowed /\ [Next]_vars => ResultsAreAllowed'
    <2> SUFFICES ASSUME IInv, ResultsAreAllowed, [Next]_vars, pc' = "done" PROVE ResultsAreAllowed'
      BY DEF ResultsAreAllowed
    <2>1. CASE Query
      <3>1. Rank
        BY <2>1, OnlyRankEnds
      <3>2. /\ result' \in Seq(AllHits)
            /\ \A i \in 1..Len(result') : \E h \in lexical \cup semantic : h.chunk = result'[i].chunk /\ h.row = result'[i].row
        BY <3>1, RankGives DEF IInv
      <3>3. seen' = seen /\ query' = query
        BY <3>1 DEF Rank
      <3>4. \A h \in lexical \cup semantic :
              <<h.chunk[1], h.row>> \in seen /\ \E s \in StoreNames : Allowed(query, s, h.chunk[1], h.row)
        BY DEF IInv, SeenInv
      <3>5. DOMAIN result' = 1..Len(result')
        BY <3>2
      <3>6. ASSUME NEW i \in DOMAIN result'
            PROVE  /\ <<result'[i].chunk[1], result'[i].row>> \in seen'
                   /\ \E s \in StoreNames : Allowed(query', s, result'[i].chunk[1], result'[i].row)
        <4>1. PICK h \in lexical \cup semantic : h.chunk = result'[i].chunk /\ h.row = result'[i].row
          BY <3>2, <3>5, <3>6
        <4> QED
          BY <3>3, <3>4, <4>1
      <3> QED
        BY <3>6 DEF ResultsAreAllowed
    <2>2. CASE ~Query
      <3>1. running' = running /\ seen \subseteq seen'
        BY <2>2, BesideQuery DEF Next
      <3>2. UNCHANGED <<pc, query, result>>
        BY <3>1 DEF running
      <3> QED
        BY <3>1, <3>2 DEF ResultsAreAllowed
    <2> QED
      BY <2>1, <2>2
  <1> QED
    BY <1>1, <1>2, InductiveInvariant, PTL DEF Spec

(* Within a scope, the records a query names come first, whatever their    *)
(* ranks and distances, as long as no query may ask for more than 100 hits.*)
THEOREM NamedFirst == Spec => []NamedRecordsFirst
  <1>1. Init => NamedRecordsFirst
    BY DEF Init, NamedRecordsFirst
  <1>2. IInv /\ NamedRecordsFirst /\ [Next]_vars => NamedRecordsFirst'
    <2> SUFFICES ASSUME IInv, NamedRecordsFirst, [Next]_vars, pc' = "done" PROVE NamedRecordsFirst'
      BY DEF NamedRecordsFirst
    <2>1. CASE Query
      <3>1. Rank
        BY <2>1, OnlyRankEnds
      <3>2. /\ result' \in Seq(AllHits)
            /\ \A i, j \in 1..Len(result') :
                 i < j /\ ScopeOf(result'[i]) = ScopeOf(result'[j]) /\ result'[j].reason \in Naming
                 => result'[i].reason \in Naming
        BY <3>1, RankGives DEF IInv
      <3>3. DOMAIN result' = 1..Len(result')
        BY <3>2
      <3> QED
        BY <3>2, <3>3 DEF NamedRecordsFirst, ScopeOf
    <2>2. CASE ~Query
      <3>1. UNCHANGED <<pc, query, result>>
        BY <2>2, BesideQuery DEF Next, running
      <3> QED
        BY <3>1 DEF NamedRecordsFirst, ScopeOf
    <2> QED
      BY <2>1, <2>2
  <1> QED
    BY <1>1, <1>2, InductiveInvariant, PTL DEF Spec

(* The search of a vector index, whose window of documents grows until it  *)
(* holds enough, finds the nearest chunks that the filter admits: as many  *)
(* as are asked for, or all there are.  One whose window is refused fails. *)
THEOREM VectorSearchComplete == Spec => []VectorSearchIsComplete
  <1>1. Init => VectorSearchIsComplete
    BY DEF Init, VectorSearchIsComplete
  <1>2. IInv /\ VectorSearchIsComplete /\ [Next]_vars => VectorSearchIsComplete'
    <2> SUFFICES ASSUME IInv, VectorSearchIsComplete, [Next]_vars, pc' = "join", joined' = 0
                 PROVE  VectorSearchIsComplete'
      BY DEF VectorSearchIsComplete
    <2>1. CASE SearchVectors
      <3>1. /\ query \in RunningQueries /\ match \in Matches /\ trusted \in Tables
            /\ found' = VectorSearch(query, Stores[at]) /\ UNCHANGED <<query, match, at, trusted>>
        BY <2>1 DEF SearchVectors, Fail, IInv, QueryInv
      <3>2. query.limit \in Nat
        BY <3>1, QueryType
      <3>3. VectorSearch(query, Stores[at]) = NearestAdmitted(query, Stores[at])
        BY <3>1, <3>2, VectorSearchFinds
      <3>4. NearestAdmitted(query, Stores[at])' = NearestAdmitted(query, Stores[at])
        BY <3>1 DEF NearestAdmitted
      <3> QED
        BY <3>1, <3>3, <3>4 DEF VectorSearchIsComplete
    <2>2. CASE Query /\ ~SearchVectors
      <3>1. joined \in Nat
        BY DEF IInv, TypeInv
      <3>2. ASSUME NEW q \in Queries, NEW m \in Matches, Begin(q, m) PROVE FALSE
        BY <3>2 DEF Begin
      <3>3. ASSUME SyncStore \/ SyncIsBusy \/ RebuildVectors \/ RebuildFails \/ PrepareFails PROVE FALSE
        BY <3>3 DEF SyncStore, SyncIsBusy, RebuildVectors, RebuildFails, PrepareFails, NextPrepared, NextReconciled
      <3>4. ASSUME SearchLexical \/ CheckFresh \/ CheckRows \/ EndJoin \/ Rank PROVE FALSE
        BY <3>4, CheckSteps DEF SearchLexical, EndJoin, Rank, NextStore, FallBack, Fail
      <3>5. ASSUME Join PROVE FALSE
        BY <3>1, <3>5 DEF Join
      <3>6. ASSUME Answer \/ Kill PROVE FALSE
        BY <3>6 DEF Answer, Kill, Forget
      <3> QED
        BY <2>2, <3>2, <3>3, <3>4, <3>5, <3>6 DEF Query
    <2>3. CASE ~Query
      <3>1. UNCHANGED <<pc, query, match, at, trusted, found, joined>>
        BY <2>3, BesideQuery DEF Next, running, gathered
      <3>2. NearestAdmitted(query, Stores[at])' = NearestAdmitted(query, Stores[at])
        BY <3>1 DEF NearestAdmitted
      <3> QED
        BY <3>1, <3>2 DEF VectorSearchIsComplete
    <2> QED
      BY <2>1, <2>2, <2>3
  <1> QED
    BY <1>1, <1>2, InductiveInvariant, PTL DEF Spec

(* Every context is within its budget; its blocks are the best of the hits *)
(* and the others are counted; what is cut within the limit is said to be; *)
(* a reason is named exactly in a lexical answer, of which no vectors are a*)
(* part, and in another every store's vectors were searched or it had none.*)
THEOREM ReceiptHonest == Spec => []ReceiptIsHonest
  <1>1. IInv => ReceiptIsHonest
    <2> SUFFICES ASSUME IInv, pc = "done", query.kind = "context" PROVE ReceiptIsHonest
      BY DEF ReceiptIsHonest
    <2> DEFINE limit == Bounded(query.limit)
               shown == First(result, limit)
               packed == Pack(query.budget, shown)
    <2>1. query \in RunningQueries /\ result \in Seq(AllHits)
          /\ (query.by = "agent" => (query.mode = "lexical" <=> fallback # Unset))
      BY DEF IInv, QueryInv, TypeInv
    <2>2. query.budget \in Nat /\ query.limit \in Nat
      BY <2>1, QueryType
    <2>3. limit \in Nat
      BY <2>2, BoundedType
    <2> HIDE DEF limit
    <2>4. /\ shown \in Seq(AllHits) /\ Len(shown) \in Nat /\ Len(shown) <= Len(result)
          /\ \A i \in 1..Len(shown) : shown[i] = result[i]
      BY <2>1, <2>3, FirstType
    <2> HIDE DEF shown
    <2>5. IsPacked(query.budget, shown, Len(shown), packed)
      BY <2>2, <2>4, ContextIsHonest
    <2>6. /\ Context.blocks = packed.blocks /\ Context.used = packed.used
          /\ Context.truncated = packed.truncated
          /\ Context.omitted = (Len(result) - Len(shown)) + (Len(shown) - Len(packed.blocks))
      BY DEF Context, shown, limit
    <2> HIDE DEF packed
    <2> DEFINE c == Context
    <2>7. /\ c.used <= query.budget /\ c.used = CountSum(c.blocks) /\ c.blocks \in Seq(Blocks)
          /\ Len(c.blocks) <= Len(shown)
          /\ \A i \in 1..Len(c.blocks) : c.blocks[i].chunk = shown[i].chunk /\ c.blocks[i].count > 0
          /\ ~c.truncated =>
               /\ Len(c.blocks) = Len(shown)
               /\ \A i \in 1..Len(shown) : /\ c.blocks[i].count = Len(Text(shown[i]))
                                           /\ ByteLength(shown[i], Text(shown[i])) <= MaxBlockBytes
      BY <2>5, <2>6 DEF IsPacked, Packs
    <2>8. /\ DOMAIN c.blocks = 1..Len(c.blocks) /\ DOMAIN shown = 1..Len(shown)
          /\ Len(c.blocks) \in Nat /\ Len(result) \in Nat
      BY <2>1, <2>4, <2>7
    <2>9. c.omitted = Len(result) - Len(c.blocks)
      BY <2>4, <2>6, <2>8
    <2> HIDE DEF c
    <2>10. \A i \in DOMAIN c.blocks : c.blocks[i].chunk = result[i].chunk /\ c.blocks[i].count > 0
      BY <2>4, <2>7, <2>8
    <2>11. \A s \in StoreNames : IF query.mode = "lexical" THEN semanticOf[s] = "unread"
                                 ELSE semanticOf[s] \in {"searched", "absent"}
      BY DEF IInv, PartInv, Unread
    <2>12. ~c.truncated =>
             /\ Len(c.blocks) = Len(shown)
             /\ \A i \in DOMAIN shown : c.blocks[i].count = Len(Text(shown[i]))
                                        /\ ByteLength(shown[i], Text(shown[i])) <= MaxBlockBytes
      BY <2>7, <2>8
    <2> QED
      BY <2>1, <2>7, <2>9, <2>10, <2>11, <2>12 DEF ReceiptIsHonest, c, shown, limit
  <1> QED
    BY <1>1, InductiveInvariant, PTL

=============================================================================
