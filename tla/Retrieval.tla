------------------------------ MODULE Retrieval ------------------------------
(***************************************************************************)
(* Search and context (crates/core/src/index/retrieval.rs, with search_hits*)
(* and vector_hits in projection.rs and the nearest-neighbour search in    *)
(* vector.rs).  A query reads the indexes of a project view, the project's *)
(* store and then the global one, in statements of its own while edits,    *)
(* sync and reindex go on; it ranks the hits, and a context query packs    *)
(* their text into a budget.  An agent's query (invoke.rs: the protocol of *)
(* the CLI and of MCP) first brings the indexes of its stores up to date,  *)
(* and goes on with lexical retrieval where the semantic part fails.  A    *)
(* person's query (`sbuf search`, `sbuf context` and the HTTP server) does *)
(* so too, and fails where the agent's goes on.                            *)
(*                                                                         *)
(* Abstractions.  A query's text is what it does: how well bm25 finds each *)
(* chunk, how each record's title or text matches, how far each embedded   *)
(* piece is.  Scores are in sixtieths before fusion and in millionths      *)
(* after it.  Kinds are filtered like access and left out.  Sources go     *)
(* with their record.  A fingerprint is what it hashes.  The statements of *)
(* one lexical search read one snapshot; a reindex is one step here, and   *)
(* Projection says when it may run.  One that replaces the database leaves *)
(* a query that has it open with the old file: it comes before or after.   *)
(***************************************************************************)
EXTENDS Chunking

CONSTANTS
    Records,        \* numbered in the order of their ids
    StoreOf,        \* the store, and so the scope, of a record
    InitialRows,    \* the rows at the start
    ChangedRows,    \* what an edit makes of a file
    MaxChanges,     \* bound: edits
    Alphabet,       \* the lines of the note that is being written
    MaxLines,       \* bound: its lines
    Queries, Matches, \* the queries, and what their texts match
    Overfetch,      \* 10: rows read for each hit asked for
    NearestFactor,  \* 4: the first window of the nearest-neighbour search
    MaxNearest,     \* 4096: the widest window that sqlite-vec takes
    MaxLimit,       \* MAX_SEARCH_LIMIT
    MaxBlockBytes,  \* MAX_CONTEXT_BLOCK_BYTES
    NoRow, NoVectors, NoQuery, Unset

VARIABLES
    draft,      \* the body of a note that is being written
    files,      \* the canonical records
    rows,       \* the lexical rows
    vectors,    \* for each store the rows its active vector index was built from
    changes,    \* edits so far
    query,      \* the query that runs
    match,      \* what its text matches
    pc,
    at,         \* the store it reads, by its place
    lexical, semantic,  \* the hits so far
    trusted,    \* the vector index whose fingerprints were compared
    found,      \* the chunks its search found
    joined,     \* how many of them are joined with their rows
    semanticOf, \* observation: what became of the vector search of each store
    result,     \* the hits in the order of their ranks
    fallback,   \* why an agent's query has no semantic part
    seen        \* what its results may be: rows, or files, since it began

gathered == <<lexical, semantic, trusted, found, joined, semanticOf>>
running == <<query, match, pc, at, gathered, result, fallback>>
vars == <<draft, files, rows, vectors, changes, running, seen>>

Stores == <<"project", "global">>
StoreNames == {"project", "global"}
Statuses == {"active", "archived"}
AccessValues == {"human", "agent"}
Reasons == {"exact_title", "exact_filename", "exact_alias", "phrase", "prefix", "term"}

Rows == [status : Statuses, access : AccessValues, body : Seq(Lines)]
QueryTypes ==
    [kind : {"search", "context"}, mode : {"lexical", "semantic", "hybrid"}, limit : Nat,
     budget : Nat, scopes : {Unset} \cup SUBSET StoreNames, access : {Unset} \cup SUBSET AccessValues,
     inactive : BOOLEAN, current : {Unset} \cup StoreNames, by : {"library", "agent", "person"}]

(* The chunks of a record by one of its rows, and the pieces of these.     *)
ChunksOf(r, row) == {<<r, n>> : n \in 1..Len(Chunks(row.body))}
PieceCount(row, n) == Len(Pieces(Characters(row.body, Chunks(row.body)[n].text)))
PiecesOf(r, row) ==
    UNION {{<<r, n, k>> : k \in 1..PieceCount(row, n)} : n \in 1..Len(Chunks(row.body))}

(* The rows a record may ever have. *)
RowsOf(r) == (ChangedRows \cup {table[r] : table \in InitialRows}) \ {NoRow}

ASSUME RetrievalAssumption ==
    /\ Records \subseteq Nat /\ IsFiniteSet(Records)
    /\ StoreOf \in [Records -> StoreNames]
    /\ InitialRows \subseteq [Records -> Rows \cup {NoRow}] /\ ChangedRows \subseteq Rows
    /\ Alphabet \subseteq Lines
    /\ Queries \subseteq QueryTypes
    /\ \A q \in Queries : q.by # "library" => q.mode # "semantic"
    /\ Unset \notin {"unavailable", "busy", "failed"}
    /\ MaxChanges \in Nat /\ MaxLines \in Nat
    /\ Overfetch \in Nat \ {0} /\ NearestFactor \in Nat \ {0} /\ MaxBlockBytes \in Nat \ {0}
    /\ MaxNearest \in Nat
    /\ MaxLimit \in 1..100

(* Ranks are natural numbers, 0 for a chunk without a match.  No two pieces*)
(* are equally far: a distance stands for a place in the order in which    *)
(* sqlite-vec returns them.                                                *)
ASSUME MatchAssumption ==
    \A m \in Matches :
      /\ m.reason \in [Records -> Reasons]
      /\ \A r \in Records : \A row \in RowsOf(r) :
           /\ \A c \in ChunksOf(r, row) : m.rank[c] \in Nat
           /\ \A d \in PiecesOf(r, row) :
                /\ m.distance[d] \in Nat
                /\ \A p \in Records : \A other \in RowsOf(p) : \A e \in PiecesOf(p, other) :
                     m.distance[d] = m.distance[e] => d = e

Unread == [s \in StoreNames |-> "unread"]

Init ==
    /\ draft = <<>>
    /\ files \in InitialRows
    /\ rows = files
    /\ vectors \in [StoreNames -> {NoVectors, rows}]
    /\ changes = 0
    /\ query = NoQuery /\ match = NoQuery
    /\ pc = "idle"
    /\ at = 1
    /\ lexical = {} /\ semantic = {} /\ trusted = NoVectors /\ found = <<>> /\ joined = 0
    /\ semanticOf = Unread
    /\ result = <<>>
    /\ fallback = Unset
    /\ seen = {}

-----------------------------------------------------------------------------
(* What goes on beside a query.                                            *)

(* Bound: a note is written while nothing else happens, beside stores      *)
(* without vectors.                                                        *)
WriteLine(line) ==
    /\ pc = "idle" /\ changes = 0 /\ Len(draft) < MaxLines
    /\ \A s \in StoreNames : vectors[s] = NoVectors
    /\ draft' = Append(draft, line)
    /\ UNCHANGED <<files, rows, vectors, changes, running, seen>>

Discard ==
    /\ draft # <<>>
    /\ draft' = <<>>
    /\ UNCHANGED <<files, rows, vectors, changes, running, seen>>

Edit(r, row) ==
    /\ draft = <<>> /\ pc # "done" /\ changes < MaxChanges /\ files[r] # row
    /\ files' = [files EXCEPT ![r] = row]
    /\ changes' = changes + 1
    /\ seen' = IF pc # "idle" /\ query.by # "library" THEN seen \cup {<<r, row>>} ELSE seen
    /\ UNCHANGED <<draft, rows, vectors, running>>

(* sync commits the rows of one file. *)
Sync(r) ==
    /\ files[r] # rows[r]
    /\ rows' = [rows EXCEPT ![r] = files[r]]
    /\ seen' = IF pc # "idle" /\ query.by = "library" THEN seen \cup {<<r, files[r]>>} ELSE seen
    /\ UNCHANGED <<draft, files, vectors, changes, running>>

InStore(table, s) == [r \in {q \in Records : StoreOf[q] = s} |-> table[r]]

(* What the records of a store hold, by a table. *)
Contents(table, s) == {<<r, table[r]>> : r \in {q \in Records : StoreOf[q] = s}}

(* Bounds: a reindex follows an edit, and makes a difference. *)
MayReindex(s) ==
    /\ draft = <<>> /\ pc # "done" /\ changes > 0
    /\ InStore(rows, s) = InStore(files, s)

(* The vectors are built from synced rows, and the old table is dropped.   *)
Reindex(s) ==
    /\ MayReindex(s)
    /\ vectors[s] # NoVectors => InStore(vectors[s], s) # InStore(rows, s)
    /\ vectors' = [vectors EXCEPT ![s] = rows]
    /\ UNCHANGED <<draft, files, rows, changes, running, seen>>

(* A query has the database of a store open until it has its vector hits.  *)
HasOpen(s) ==
    /\ Stores[at] = s
    /\ pc \in {"rows", "vector", "join"} \/ (pc = "fresh" /\ query.mode = "hybrid")

(* `sbuf reindex` without a model replaces the database by one without a   *)
(* vector index.                                                           *)
ReindexWithoutModel(s) ==
    /\ MayReindex(s) /\ ~HasOpen(s)
    /\ vectors[s] # NoVectors
    /\ vectors' = [vectors EXCEPT ![s] = NoVectors]
    /\ UNCHANGED <<draft, files, rows, changes, running, seen>>

-----------------------------------------------------------------------------
(* Filters, scores and orders.                                             *)

Smaller(a, b) == IF a < b THEN a ELSE b
Bounded(limit) == Smaller(IF limit = 0 THEN 1 ELSE limit, MaxLimit)

(* SearchOptions::for_store. *)
ForStore(s) == {s} \cup (IF s = "project" THEN {"global"} ELSE {})

(* normalize_context_options: the scopes of all stores of the view.        *)
ScopesFor(q, s) ==
    CASE q.scopes # Unset -> q.scopes
      [] q.scopes = Unset /\ q.kind = "context" -> UNION {ForStore(t) : t \in StoreNames}
      [] OTHER -> ForStore(s)

Allowed(q, s, r, row) ==
    /\ row # NoRow
    /\ q.inactive \/ row.status = "active"
    /\ q.access = Unset \/ row.access \in q.access
    /\ StoreOf[r] \in ScopesFor(q, s)

ScopeRank(scope, current) ==
    CASE scope = current -> 2 [] scope # current /\ scope = "global" -> 1 [] OTHER -> 0

(* Within one store of a search without a current scope it is the store's, *)
(* and over the stores of a search the first one's; a context has none.    *)
CurrentIn(q, default) == IF q.current = Unset THEN default ELSE q.current

Boost(reason) ==
    CASE reason = "exact_title" -> 180 [] reason = "exact_filename" -> 150
      [] reason = "exact_alias" -> 120 [] reason = "phrase" -> 60
      [] reason = "prefix" -> 30 [] OTHER -> 0

ScopeOf(hit) == StoreOf[hit.chunk[1]]

(* A set in the order of a strict total order on it; SetToSortSeq tries    *)
(* every sequence of its members.                                          *)
Ordered(S, before(_, _)) ==
    [i \in 1..Cardinality(S) |-> CHOOSE a \in S : Cardinality({b \in S : before(b, a)}) = i - 1]

IdsBefore(a, b) ==
    \/ a.chunk[1] < b.chunk[1]
    \/ a.chunk[1] = b.chunk[1] /\ a.chunk[2] < b.chunk[2]

(* sort_hits. *)
Before(current, a, b) ==
    LET ra == ScopeRank(ScopeOf(a), current)
        rb == ScopeRank(ScopeOf(b), current)
    IN \/ ra > rb
       \/ ra = rb /\ a.score > b.score
       \/ ra = rb /\ a.score = b.score /\ IdsBefore(a, b)

SortHits(S, current) == Ordered(S, LAMBDA a, b : Before(current, a, b))

First(seq, n) == SubSeq(seq, 1, Smaller(n, Len(seq)))

Present(table, s) == {r \in Records : StoreOf[r] = s /\ table[r] # NoRow}

ChunkIds(table, s) == UNION {ChunksOf(r, table[r]) : r \in Present(table, s)}

-----------------------------------------------------------------------------
(* The lexical search of a store.                                          *)

(* The SELECT: what bm25 finds and the filter admits, the best first.      *)
Matching(q, s) == {c \in ChunkIds(rows, s) : match.rank[c] > 0 /\ Allowed(q, s, c[1], rows[c[1]])}

Better(a, b) ==
    \/ match.rank[a] > match.rank[b]
    \/ match.rank[a] = match.rank[b] /\ (a[1] < b[1] \/ (a[1] = b[1] /\ a[2] < b[2]))

Selected(q, s, limit) == ToSet(First(Ordered(Matching(q, s), Better), Overfetch * limit))

(* rank is bm25's value, which is negative, without its sign.              *)
LexicalHit(c) ==
    [chunk |-> c, row |-> rows[c[1]], reason |-> match.reason[c[1]],
     score |-> 60 \div (1 + match.rank[c]) + Boost(match.reason[c[1]])]

SearchHits(q, s, limit) ==
    LET ranked == SortHits({LexicalHit(c) : c \in Selected(q, s, limit)}, CurrentIn(q, s))
    IN ToSet(First(ranked, limit))

(* A query with an embedder asks the lexical search for all it may have.   *)
LexicalLimit(q) == IF q.mode = "lexical" THEN Bounded(q.limit) ELSE MaxLimit

-----------------------------------------------------------------------------
(* The vector search of a store: its documents are the pieces of chunks.   *)

Documents(table, s) == UNION {PiecesOf(r, table[r]) : r \in Present(table, s)}

ByDistance(S, distance) == Ordered(S, LAMBDA a, b : distance[a] < distance[b])

Nearest(table, s) == ByDistance(Documents(table, s), match.distance)

(* The distinct chunks of a window that the filter admits, nearest first.  *)
AddDistinct(q, s, acc, d) ==
    IF \/ ~Allowed(q, s, d[1], trusted[d[1]])
       \/ \E i \in DOMAIN acc : acc[i].chunk = <<d[1], d[2]>>
    THEN acc
    ELSE Append(acc, [chunk |-> <<d[1], d[2]>>, distance |-> match.distance[d]])

DistinctIn(q, s, window) == FoldLeft(LAMBDA acc, d : AddDistinct(q, s, acc, d), <<>>, window)

(* Mutant of VectorSearch: one window is all that is looked at.            *)
FirstWindow(q, s) ==
    LET near == Nearest(trusted, s)
        requested == Bounded(q.limit)
        window == Smaller(NearestFactor * requested, Len(near))
    IN First(DistinctIn(q, s, First(near, window)), requested)

(* SqliteVectorIndex::search: the window grows until it holds enough.      *)
VectorSearch(q, s) ==
    LET near == Nearest(trusted, s)
        total == Len(near)
        requested == Bounded(q.limit)
        search[window \in 0..total] ==
            LET hitsIn == DistinctIn(q, s, First(near, window))
            IN IF Len(hitsIn) >= requested \/ window = total THEN First(hitsIn, requested)
               ELSE search[Smaller(2 * window, total)]
    IN search[Smaller(NearestFactor * requested, total)]

(* The windows that it may ask for, and whether it comes to ask for one    *)
(* that sqlite-vec refuses; a filter that admits nothing asks for none.    *)
Windows(q, total) == {Smaller(NearestFactor * Bounded(q.limit) * 2^i, total) : i \in 0..total}

IsRefused(q, s) ==
    LET near == Nearest(trusted, s)
        windows == Windows(q, Len(near))
    IN /\ ScopesFor(q, s) # {} /\ q.access # {}
       /\ \E w \in windows :
            /\ w > MaxNearest
            /\ \A v \in windows : v < w => Len(DistinctIn(q, s, First(near, v))) < Bounded(q.limit)

-----------------------------------------------------------------------------
(* A query.                                                                *)

Begin(q, m) ==
    /\ pc = "idle" /\ draft = <<>>
    /\ query' = q /\ match' = m
    /\ pc' = CASE q.by # "library" -> "sync" [] q.mode = "semantic" -> "fresh" [] OTHER -> "lexical"
    /\ fallback' = IF q.by = "agent" /\ q.mode = "lexical" THEN "unavailable" ELSE Unset
    /\ seen' = UNION {Contents(IF q.by = "library" THEN rows ELSE files, s) : s \in StoreNames}
    /\ UNCHANGED <<draft, files, rows, vectors, changes, at, gathered, result>>

(* invocation_stores has prepared a store; after the last one the query    *)
(* runs, without its semantic part if there is a reason.                   *)
NextPrepared(reason) ==
    /\ fallback' = reason
    /\ IF at < Len(Stores) THEN /\ at' = at + 1 /\ pc' = "sync" /\ query' = query
       ELSE /\ at' = 1 /\ pc' = "lexical"
            /\ query' = [query EXCEPT !.mode = IF reason = Unset THEN "hybrid" ELSE "lexical"]

(* prepare_retrieval_stores syncs every store before it builds an index.   *)
NextReconciled ==
    /\ at' = IF at < Len(Stores) THEN at + 1 ELSE 1
    /\ pc' = CASE at < Len(Stores) -> pc
               [] at = Len(Stores) /\ pc = "sync" /\ query.mode = "hybrid" -> "rebuild"
               [] OTHER -> "lexical"
    /\ UNCHANGED <<query, fallback>>

(* The rows of the store at hand are what its files are. *)
Synced == [r \in Records |-> IF StoreOf[r] = Stores[at] THEN files[r] ELSE rows[r]]

(* Mutant of SyncStore: an embedder that failed ends the synchronization.  *)
SyncFirstStore ==
    /\ pc = "sync"
    /\ rows' = IF fallback = Unset THEN Synced ELSE rows
    /\ CASE query.by = "person" -> NextReconciled
         [] query.by = "agent" /\ fallback = Unset -> pc' = "rebuild" /\ UNCHANGED <<query, at, fallback>>
         [] OTHER -> NextPrepared(fallback)
    /\ UNCHANGED <<draft, files, vectors, changes, match, gathered, result, seen>>

SyncStore ==
    /\ pc = "sync"
    /\ rows' = Synced
    /\ CASE query.by = "person" -> NextReconciled
         [] query.by = "agent" /\ fallback = Unset -> pc' = "rebuild" /\ UNCHANGED <<query, at, fallback>>
         [] OTHER -> NextPrepared(fallback)
    /\ UNCHANGED <<draft, files, vectors, changes, match, gathered, result, seen>>

(* Another process has the projection: an agent gets the rows as they are. *)
SyncIsBusy ==
    /\ pc = "sync" /\ query.by = "agent"
    /\ NextPrepared("busy")
    /\ seen' = seen \cup Contents(rows, Stores[at])
    /\ UNCHANGED <<draft, files, rows, vectors, changes, match, gathered, result>>

(* rebuild_vector_index synchronizes once more. *)
RebuildVectors ==
    /\ pc = "rebuild"
    /\ rows' = Synced
    /\ vectors' = [vectors EXCEPT ![Stores[at]] = Synced]
    /\ IF query.by = "person" THEN NextReconciled ELSE NextPrepared(fallback)
    /\ UNCHANGED <<draft, files, changes, match, gathered, result, seen>>

(* The model fails, or the projection is busy or cannot be opened. *)
RebuildFails ==
    /\ pc = "rebuild" /\ query.by = "agent"
    /\ NextPrepared("failed")
    /\ UNCHANGED <<draft, files, rows, vectors, changes, match, gathered, result, seen>>

(* An invalid record, or another error; for a person, any error. *)
PrepareFails ==
    /\ pc \in {"sync", "rebuild"}
    /\ pc' = "failed"
    /\ UNCHANGED <<draft, files, rows, vectors, changes, query, match, at, gathered, result,
                   fallback, seen>>

NextStore ==
    /\ at' = IF at < Len(Stores) THEN at + 1 ELSE at
    /\ pc' = CASE at = Len(Stores) -> "rank"
               [] at < Len(Stores) /\ query.mode = "semantic" -> "fresh"
               [] OTHER -> "lexical"

SearchLexical ==
    /\ pc = "lexical"
    /\ lexical' = lexical \cup SearchHits(query, Stores[at], LexicalLimit(query))
    /\ IF query.mode = "lexical" THEN NextStore ELSE pc' = "fresh" /\ at' = at
    /\ UNCHANGED <<draft, files, rows, vectors, changes, query, match, semantic, trusted,
                   found, joined, semanticOf, result, fallback, seen>>

Fail ==
    /\ pc' = "failed"
    /\ UNCHANGED <<query, at, lexical, semantic, found, joined, semanticOf, fallback>>

(* An embedding error: an agent's query is run again, lexically. *)
FallBack ==
    IF query.by = "agent"
    THEN /\ query' = [query EXCEPT !.mode = "lexical"]
         /\ pc' = "lexical" /\ at' = 1
         /\ lexical' = {} /\ semantic' = {} /\ found' = <<>> /\ joined' = 0
         /\ semanticOf' = Unread
         /\ fallback' = "failed"
    ELSE Fail

(* vector_hits: without an active index there are no hits, and no error.   *)
(* The files and the rows must still be what was embedded.                 *)
CheckFresh ==
    /\ pc = "fresh"
    /\ trusted' = vectors[Stores[at]]
    /\ CASE vectors[Stores[at]] = NoVectors ->
              /\ NextStore
              /\ semanticOf' = [semanticOf EXCEPT ![Stores[at]] = "absent"]
              /\ UNCHANGED <<query, lexical, semantic, found, joined, fallback>>
         [] /\ vectors[Stores[at]] # NoVectors
            /\ InStore(vectors[Stores[at]], Stores[at]) = InStore(files, Stores[at]) ->
              /\ pc' = "rows"
              /\ UNCHANGED <<query, at, lexical, semantic, found, joined, semanticOf, fallback>>
         [] OTHER -> FallBack
    /\ UNCHANGED <<draft, files, rows, vectors, changes, match, result, seen>>

(* The rows are read later than the files, and the model may fail. *)
CheckRows ==
    /\ pc = "rows"
    /\ \/ /\ InStore(trusted, Stores[at]) = InStore(rows, Stores[at])
          /\ pc' = "vector"
          /\ UNCHANGED <<query, at, lexical, semantic, found, joined, semanticOf, fallback>>
       \/ FallBack
    /\ UNCHANGED <<draft, files, rows, vectors, changes, match, trusted, result, seen>>

(* A table that a reindex has dropped cannot be read, and a window may be  *)
(* refused: that is no embedding error, and no fallback either.            *)
SearchVectors ==
    /\ pc = "vector"
    /\ IF vectors[Stores[at]] # trusted \/ IsRefused(query, Stores[at]) THEN Fail
       ELSE /\ found' = VectorSearch(query, Stores[at])
            /\ joined' = 0
            /\ pc' = "join"
            /\ semanticOf' = [semanticOf EXCEPT ![Stores[at]] = "searched"]
            /\ UNCHANGED <<query, at, lexical, semantic, fallback>>
    /\ UNCHANGED <<draft, files, rows, vectors, changes, match, trusted, result, seen>>

JoinedHit(f) ==
    [chunk |-> f.chunk, row |-> rows[f.chunk[1]], reason |-> "vector",
     score |-> 60 \div (1 + f.distance)]

(* Mutant of Joinable: the record is joined, whatever became of its chunk. *)
JoinsRecord(f) == Allowed(query, Stores[at], f.chunk[1], rows[f.chunk[1]])

(* The chunk still has its row, and the row passes the filter.             *)
Joinable(f) ==
    /\ f.chunk \in ChunkIds(rows, Stores[at])
    /\ Allowed(query, Stores[at], f.chunk[1], rows[f.chunk[1]])

Join ==
    /\ pc = "join" /\ joined < Len(found)
    /\ joined' = joined + 1
    /\ semantic' = IF Joinable(found[joined + 1]) THEN semantic \cup {JoinedHit(found[joined + 1])}
                   ELSE semantic
    /\ UNCHANGED <<draft, files, rows, vectors, changes, query, match, pc, at, lexical, trusted,
                   found, semanticOf, result, fallback, seen>>

EndJoin ==
    /\ pc = "join" /\ joined = Len(found)
    /\ NextStore
    /\ UNCHANGED <<draft, files, rows, vectors, changes, query, match, gathered, result, fallback, seen>>

-----------------------------------------------------------------------------
(* Fusion: one hit for a record, by its best rank in each list.            *)

CurrentOf(q) == IF q.kind = "search" THEN CurrentIn(q, Stores[1]) ELSE q.current

SortSemantic(S, current) ==
    LET before(a, b) ==
            \/ a.score > b.score
            \/ a.score = b.score /\ ScopeRank(ScopeOf(a), current) > ScopeRank(ScopeOf(b), current)
            \/ a.score = b.score /\ ScopeRank(ScopeOf(a), current) = ScopeRank(ScopeOf(b), current)
               /\ IdsBefore(a, b)
    IN Ordered(S, before)

RankOf(r, seq) == Min({i \in DOMAIN seq : seq[i].chunk[1] = r})

Reciprocal(rank) == 1000000 \div (60 + rank)

(* Mutant of FusedBoost: an exact title counts as little as a scope.       *)
FlatBoost(hit, current) ==
    (IF ScopeOf(hit) = current THEN 10000 ELSE 0)
    + (IF hit.reason \in {"exact_title", "exact_alias", "exact_filename"} THEN 10000 ELSE 0)

(* deterministic_boost. *)
FusedBoost(hit, current) ==
    (IF ScopeOf(hit) = current THEN 10000 ELSE 0)
    + (CASE hit.reason = "exact_title" -> 40000
         [] hit.reason \in {"exact_alias", "exact_filename"} -> 30000
         [] OTHER -> 0)

(* A record's semantic hit takes the place of its lexical one when its     *)
(* score, of another scale, is not smaller.                                *)
FusedHit(r, lex, sem, current) ==
    LET inLex == \E i \in DOMAIN lex : lex[i].chunk[1] = r
        inSem == \E i \in DOMAIN sem : sem[i].chunk[1] = r
        hit == CASE inLex /\ inSem ->
                      LET l == lex[RankOf(r, lex)]
                          v == sem[RankOf(r, sem)]
                      IN IF v.score >= l.score THEN v ELSE l
                 [] inLex /\ ~inSem -> lex[RankOf(r, lex)]
                 [] OTHER -> sem[RankOf(r, sem)]
        score == (IF inLex THEN Reciprocal(RankOf(r, lex)) ELSE 0)
                 + (IF inSem THEN Reciprocal(RankOf(r, sem)) ELSE 0)
    IN [hit EXCEPT !.score = score + FusedBoost(hit, current)]

FuseHits(current) ==
    LET lex == SortHits(lexical, current)
        sem == SortSemantic(semantic, current)
    IN SortHits({FusedHit(r, lex, sem, current) : r \in {h.chunk[1] : h \in lexical \cup semantic}},
                current)

Ranked ==
    IF query.mode = "lexical" THEN SortHits(lexical, CurrentOf(query)) ELSE FuseHits(CurrentOf(query))

(* search_stores and search_stores_with_embedder truncate; a context keeps *)
(* the rest for its receipt.                                               *)
Rank ==
    /\ pc = "rank"
    /\ result' = IF query.kind = "search" THEN First(Ranked, Bounded(query.limit)) ELSE Ranked
    /\ pc' = "done"
    /\ UNCHANGED <<draft, files, rows, vectors, changes, query, match, at, gathered, fallback, seen>>

-----------------------------------------------------------------------------
(* context_from_hits.                                                      *)

Text(hit) == Chunks(hit.row.body)[hit.chunk[2]].text
WordLength(hit, w) == hit.row.body[w[1]].words[w[2]]

(* The words of a text that begin within the bytes a block may have.       *)
WithinBytes(hit, text) ==
    LET offset[k \in 1..Len(text)] ==
            IF k = 1 THEN 0 ELSE offset[k - 1] + WordLength(hit, text[k - 1]) + 1
    IN Cardinality({k \in 1..Len(text) : offset[k] < MaxBlockBytes})

ByteLength(hit, text) ==
    FoldLeft(LAMBDA n, w : n + WordLength(hit, w) + (IF n = 0 THEN 0 ELSE 1), 0, text)

Empty == [used |-> 0, truncated |-> FALSE, blocks |-> <<>>]

(* Mutant of AddBlock: a cut at the bytes of a block is not recorded.      *)
CutInSilence(budget, acc, hit) ==
    LET text == Text(hit)
        selected == First(text, budget - acc.used)
        count == WithinBytes(hit, selected)
    IN IF acc.used >= budget THEN [acc EXCEPT !.truncated = TRUE]
       ELSE [used |-> acc.used + count,
             truncated |-> acc.truncated \/ Len(selected) < Len(text),
             blocks |-> Append(acc.blocks, [chunk |-> hit.chunk, count |-> count])]

AddBlock(budget, acc, hit) ==
    LET text == Text(hit)
        selected == First(text, budget - acc.used)
        count == WithinBytes(hit, selected)
    IN IF acc.used >= budget THEN [acc EXCEPT !.truncated = TRUE]
       ELSE [used |-> acc.used + count,
             truncated |-> \/ acc.truncated
                           \/ Len(selected) < Len(text)
                           \/ ByteLength(hit, selected) > MaxBlockBytes,
             blocks |-> Append(acc.blocks, [chunk |-> hit.chunk, count |-> count])]

Pack(budget, shown) == FoldLeft(LAMBDA acc, hit : AddBlock(budget, acc, hit), Empty, shown)

(* What the caller gets.                                                   *)
Context ==
    LET shown == First(result, Bounded(query.limit))
        packed == Pack(query.budget, shown)
    IN [blocks |-> packed.blocks, used |-> packed.used, truncated |-> packed.truncated,
        omitted |-> (Len(result) - Len(shown)) + (Len(shown) - Len(packed.blocks))]

Forget ==
    /\ query' = NoQuery /\ match' = NoQuery
    /\ pc' = "idle" /\ at' = 1
    /\ lexical' = {} /\ semantic' = {} /\ trusted' = NoVectors /\ found' = <<>> /\ joined' = 0
    /\ semanticOf' = Unread /\ result' = <<>> /\ fallback' = Unset /\ seen' = {}
    /\ UNCHANGED <<draft, files, rows, vectors, changes>>

(* The caller has its answer or its error.                                 *)
Answer == pc \in {"done", "failed"} /\ Forget

(* The hook that waits for an agent's context kills the process. *)
Kill == pc \notin {"idle", "done", "failed"} /\ query.by = "agent" /\ query.kind = "context" /\ Forget

Query ==
    \/ \E q \in Queries, m \in Matches : Begin(q, m)
    \/ SyncStore \/ SyncIsBusy \/ RebuildVectors \/ RebuildFails \/ PrepareFails
    \/ SearchLexical \/ CheckFresh \/ CheckRows \/ SearchVectors \/ Join \/ EndJoin \/ Rank \/ Answer \/ Kill

Next ==
    \/ \E line \in Alphabet : WriteLine(line)
    \/ Discard
    \/ \E r \in Records, row \in ChangedRows \cup {NoRow} : Edit(r, row)
    \/ \E r \in Records : Sync(r)
    \/ \E s \in StoreNames : Reindex(s) \/ ReindexWithoutModel(s)
    \/ Query

Spec == Init /\ [][Next]_vars

-----------------------------------------------------------------------------
(* Types and values.                                                       *)

TypeOK ==
    /\ Len(draft) <= MaxLines
    /\ \A r \in Records : files[r] \in RowsOf(r) \cup {NoRow} /\ rows[r] \in RowsOf(r) \cup {NoRow}
    /\ changes \in 0..MaxChanges
    /\ query \in Queries \cup {[q EXCEPT !.mode = "lexical"] : q \in Queries} \cup {NoQuery}
    /\ match \in Matches \cup {NoQuery}
    /\ pc \in {"idle", "sync", "rebuild", "lexical", "fresh", "rows", "vector", "join", "rank", "done",
               "failed"}
    /\ semanticOf \in [StoreNames -> {"unread", "searched", "absent"}]
    /\ at \in 1..Len(Stores)
    /\ joined \in 0..Len(found)
    /\ fallback \in {Unset, "unavailable", "busy", "failed"}
    /\ \A h \in lexical \cup semantic :
         h.chunk[1] \in Records /\ h.row \in RowsOf(h.chunk[1]) /\ h.chunk \in ChunksOf(h.chunk[1], h.row)

-----------------------------------------------------------------------------
(* Chunks.                                                                 *)

(* A note's chunks and pieces are faithful to it, as it grows.             *)
ChunksAreFaithful == WordsKept(draft) /\ BlocksKept(draft) /\ PiecesFit(draft)

-----------------------------------------------------------------------------
(* Results.                                                                *)

(* What a query returns was a row of the index while it ran, and its       *)
(* status, access and scope are what the caller asked for, whatever sync   *)
(* and reindex do between its statements (the join of vector_hits).  What  *)
(* an agent or a person gets was in the files while the query ran, unless  *)
(* an agent's found the projection busy (invocation_stores).               *)
ResultsAreAllowed ==
    pc = "done" =>
      \A i \in DOMAIN result :
        LET h == result[i] IN
        /\ <<h.chunk[1], h.row>> \in seen
        /\ \E s \in StoreNames : Allowed(query, s, h.chunk[1], h.row)

(* The nearest chunks of a vector index that the filter admits, as many as *)
(* a query asks for or all there are, each as far as its nearest piece.    *)
NearestAdmitted(q, s) ==
    LET admitted == {c \in ChunkIds(trusted, s) : Allowed(q, s, c[1], trusted[c[1]])}
        distance == [c \in admitted |->
                       Min({match.distance[d] : d \in {e \in Documents(trusted, s) : <<e[1], e[2]>> = c}})]
        nearest == ByDistance(admitted, distance)
    IN [i \in 1..Smaller(Bounded(q.limit), Cardinality(admitted)) |->
          [chunk |-> nearest[i], distance |-> distance[nearest[i]]]]

(* The search of a vector index finds the nearest chunks that the filter   *)
(* admits, as many as were asked for or all there are, however many other  *)
(* documents are nearer (vector.rs:255-299); or it fails, where sqlite-vec *)
(* refuses its window.                                                     *)
VectorSearchIsComplete ==
    pc = "join" /\ joined = 0 => found = NearestAdmitted(query, Stores[at])

(* Within a scope, the records that the query names (by title, alias or    *)
(* file name) come before the others whatever bm25 and the vectors say     *)
(* ("Exact title, alias, filename ... boosts are deterministic",           *)
(* cli/reference.md): the boosts of search_hits and deterministic_boost    *)
(* outweigh two first ranks, as long as the limit is 100.                  *)
Naming == {"exact_title", "exact_filename", "exact_alias"}

NamedRecordsFirst ==
    pc = "done" /\ query.mode # "semantic" =>
      \A i, j \in DOMAIN result :
        i < j /\ ScopeOf(result[i]) = ScopeOf(result[j]) /\ result[j].reason \in Naming
          => result[i].reason \in Naming

CountSum(blocks) == FoldLeft(LAMBDA n, b : n + b.count, 0, blocks)

(* A receipt says what there is to say (context_from_hits and              *)
(* invoke_context).  The blocks are the first of the hits, in their order  *)
(* and within the budget, and the hits that are no block are counted as    *)
(* omitted; unless it says truncated, every hit within the limit is there  *)
(* in full.  An agent's receipt names a reason exactly when its mode is    *)
(* lexical, and in that mode no store's vectors were used, not even those  *)
(* that were searched before a later store's failed; in another mode every *)
(* store's vectors were searched, with one exception that the receipt says *)
(* nothing of: a store without an active vector index.                     *)
ReceiptIsHonest ==
    pc = "done" /\ query.kind = "context" =>
      LET c == Context
          shown == First(result, Bounded(query.limit))
      IN /\ c.used <= query.budget
         /\ c.used = CountSum(c.blocks)
         /\ Len(c.blocks) <= Len(shown) /\ c.omitted = Len(result) - Len(c.blocks)
         /\ \A i \in DOMAIN c.blocks : c.blocks[i].chunk = result[i].chunk /\ c.blocks[i].count > 0
         /\ ~c.truncated =>
              /\ Len(c.blocks) = Len(shown)
              /\ \A i \in DOMAIN shown : c.blocks[i].count = Len(Text(shown[i]))
                                         /\ ByteLength(shown[i], Text(shown[i])) <= MaxBlockBytes
         /\ query.by = "agent" => (query.mode = "lexical" <=> fallback # Unset)
         /\ \A s \in StoreNames : IF query.mode = "lexical" THEN semanticOf[s] = "unread"
                                  ELSE semanticOf[s] \in {"searched", "absent"}

(* Of two lexical hits of a scope that match alike, the one bm25 finds     *)
(* better comes first.  The code says the contrary: see the README.        *)
BetterMatchFirst ==
    pc = "done" /\ query.mode = "lexical" =>
      \A i, j \in DOMAIN result :
        i < j /\ ScopeOf(result[i]) = ScopeOf(result[j]) /\ result[i].reason = result[j].reason
          => match.rank[result[i].chunk] >= match.rank[result[j].chunk]

=============================================================================
