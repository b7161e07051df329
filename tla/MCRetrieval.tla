----------------------------- MODULE MCRetrieval -----------------------------
(* A project's store with two records, the first of two chunks, and a      *)
(* global store with one; see Retrieval.                                   *)
EXTENDS Retrieval

Line(kind, words) == [kind |-> kind, words |-> words, mark |-> "backtick", level |-> 1, name |-> "-"]
Heading(level, name) == [Line("heading", <<1, 1>>) EXCEPT !.level = level, !.name = name]
Fence(mark) == [Line("fence", <<3>>) EXCEPT !.mark = mark]

MCAlphabet ==
    {Line("text", <<1, 2>>), Line("text", <<5>>), Line("list", <<1, 2>>), Line("blank", <<>>),
     Fence("backtick"), Fence("tilde"), Heading(1, "a"), Heading(2, "b")}

MCStoreOf == [r \in Records |-> IF r = 3 THEN "global" ELSE "project"]

OneChunk == <<Line("text", <<1>>)>>
TwoChunks == <<Line("text", <<1, 4>>), Heading(1, "a"), Line("text", <<1, 1>>)>>
Row(status, access, body) == [status |-> status, access |-> access, body |-> body]

MCInitialRows ==
    {[r \in Records |-> IF r = 1 THEN Row("active", "agent", TwoChunks)
                        ELSE Row(status, "agent", OneChunk)] : status \in {"active", "archived"}}

MCChangedRows ==
    {Row("archived", "agent", TwoChunks), Row("active", "human", TwoChunks),
     Row("active", "agent", OneChunk)}

Q(kind, mode, limit, budget, scopes, access, inactive, current) ==
    [kind |-> kind, mode |-> mode, limit |-> limit, budget |-> budget, scopes |-> scopes,
     access |-> access, inactive |-> inactive, current |-> current, by |-> "library"]
AgentAsks(kind, mode, limit, budget) ==
    [Q(kind, mode, limit, budget, StoreNames, {"agent"}, FALSE, "project") EXCEPT !.by = "agent"]
PersonAsks(kind, mode, limit, budget) ==
    [Q(kind, mode, limit, budget, StoreNames, Unset, kind = "search", "project") EXCEPT !.by = "person"]

MCQueries ==
    {Q("search", "semantic", 1, 0, Unset, {"agent"}, FALSE, Unset),
          Q("search", "hybrid", 2, 0, {"project"}, Unset, TRUE, "project"),
          Q("search", "lexical", 3, 0, {"project"}, Unset, FALSE, "project"),
          Q("context", "lexical", 2, 2, Unset, {"agent"}, FALSE, "project"),
          AgentAsks("search", "lexical", 2, 0),
          AgentAsks("context", "hybrid", 3, 3),
          PersonAsks("search", "lexical", 2, 0),
          PersonAsks("context", "hybrid", 2, 3),
          Q("context", "semantic", 2, 9, Unset, Unset, FALSE, Unset)}

(* What is matched: the ranks of the chunks, a record that is named, and   *)
(* the pieces by their distances.                                          *)
RankBy(a, b, d) ==
    [c \in Records \X {1, 2} |-> CASE c = <<1, 1>> -> a [] c = <<1, 2>> -> b [] c = <<2, 1>> -> d [] OTHER -> 1]
Named(record, reason) == [r \in Records |-> IF r = record THEN reason ELSE "term"]

Piece == Records \X {1, 2} \X (1..3)
Place(p) == 10 * p[1] + 3 * p[2] + p[3] - 14
Forwards == [p \in Piece |-> Place(p)]
Backwards == [p \in Piece |-> Place(<<3, 2, 3>>) - Place(p)]

MCMatches ==
    {[rank |-> m[1], reason |-> m[2], distance |-> m[3]] :
        m \in {<<RankBy(0, 1, 2), Named(2, "exact_title"), Forwards>>,
               <<RankBy(3, 1, 1), Named(2, "exact_alias"), Forwards>>,
               <<RankBy(1, 2, 0), Named(1, "prefix"), Backwards>>,
               <<RankBy(3, 1, 1), Named(1, "prefix"), Backwards>>}}

=============================================================================
