------------------------------ MODULE Chunking ------------------------------
(***************************************************************************)
(* How a record's Markdown body is cut into the chunks that are indexed    *)
(* (chunk_record in crates/core/src/index/chunking.rs), and a chunk into   *)
(* the pieces that are embedded (split_embedding_text).                    *)
(*                                                                         *)
(* Abstractions.  A line is its kind and the lengths of its words, and a   *)
(* word is known by its line and its place there.  A text is the sequence  *)
(* of its words.  A fence line closes the fence that its own mark opened.  *)
(* A token is a character that is not a space: the count of a longer text  *)
(* is not smaller, which is what the code's binary search needs.           *)
(***************************************************************************)
EXTENDS Naturals, FiniteSets, SequencesExt

CONSTANTS
    MaxWords,       \* MAX_CHUNK_WORDS
    MaxTokens,      \* the model's limit
    CharsPerToken   \* how far one probe of the tokenizer looks

ASSUME ChunkingAssumption ==
    MaxWords \in Nat \ {0} /\ MaxTokens \in Nat \ {0} /\ CharsPerToken \in Nat \ {0}

Kinds == {"text", "list", "fence", "heading", "blank"}

(* A line: mark is the fence's character, level and name are the heading's.*)
(* A blank line has no words, any other has some.                          *)
Lines ==
    {line \in [kind : Kinds, words : Seq(Nat \ {0}), mark : {"backtick", "tilde"}, level : 1..6, name : STRING] :
       line.words = <<>> <=> line.kind = "blank"}

Words(body, l) == [k \in 1..Len(body[l].words) |-> <<l, k>>]

-----------------------------------------------------------------------------
(* The first pass of chunk_record: sections.                               *)

NoFence == "none"

Scan == [sections |-> <<>>, stack |-> <<>>, text |-> <<>>, open |-> FALSE,
         atomic |-> FALSE, fence |-> NoFence]

HeadingPath(stack) == [i \in DOMAIN stack |-> stack[i].name]

(* flush_section; a section is open once it has a line.                    *)
Flush(s) ==
    IF ~s.open THEN s
    ELSE [s EXCEPT !.sections = Append(@, [heading |-> HeadingPath(s.stack), text |-> s.text,
                                           atomic |-> s.atomic]),
                   !.text = <<>>, !.open = FALSE, !.atomic = FALSE]

AddLine(body, s, l) == [s EXCEPT !.text = @ \o Words(body, l), !.open = TRUE]

(* A heading pops the headings of its level and below from the stack.      *)
Under(stack, line) ==
    Append(SubSeq(stack, 1, Max({0} \cup {i \in 1..Len(stack) : stack[i].level < line.level})), line)

(* Mutant of InFence: a blank line ends the fence.                         *)
EndsAtBlank(body, s, l) ==
    IF body[l].kind = "blank" THEN [Flush(s) EXCEPT !.fence = NoFence]
    ELSE [AddLine(body, s, l) EXCEPT
            !.fence = IF body[l].kind = "fence" /\ body[l].mark = @ THEN NoFence ELSE @]

(* A line of a fence, whatever it looks like.  The fence's end leaves its  *)
(* section open: what follows up to the next flush stays with it.          *)
InFence(body, s, l) ==
    [AddLine(body, s, l) EXCEPT
       !.fence = IF body[l].kind = "fence" /\ body[l].mark = @ THEN NoFence ELSE @]

(* One turn of the loop over the lines.                                    *)
ScanLine(body, s, l) ==
    LET line == body[l] IN
    IF s.fence # NoFence THEN InFence(body, s, l)
    ELSE CASE line.kind = "fence" ->
                [AddLine(body, Flush(s), l) EXCEPT !.atomic = TRUE, !.fence = line.mark]
           [] line.kind = "heading" -> [Flush(s) EXCEPT !.stack = Under(@, line)]
           [] line.kind = "blank" -> Flush(s)
           [] line.kind = "list" /\ ~s.atomic ->
                [AddLine(body, Flush(s), l) EXCEPT !.atomic = TRUE]
           [] OTHER -> AddLine(body, s, l)

(* A body without a section gives one empty section, which no chunk is     *)
(* made of: a record of headings only has no chunk.                        *)
Sections(body) ==
    Flush(FoldLeft(LAMBDA s, l : ScanLine(body, s, l), Scan, [l \in 1..Len(body) |-> l])).sections

-----------------------------------------------------------------------------
(* The second pass: chunks.                                                *)

Gather == [chunks |-> <<>>, heading |-> <<>>, text |-> <<>>, words |-> 0]

(* push_chunk. *)
Push(g) ==
    IF g.text = <<>> THEN g
    ELSE [g EXCEPT !.chunks = Append(@, [heading |-> g.heading, text |-> g.text, words |-> g.words]),
                   !.text = <<>>, !.words = 0]

(* words.chunks(MAX_CHUNK_WORDS). *)
Slices(section) ==
    LET n == Len(section.text) IN
    [i \in 1..((n + MaxWords - 1) \div MaxWords) |->
       LET last == IF i * MaxWords < n THEN i * MaxWords ELSE n
           slice == SubSeq(section.text, (i - 1) * MaxWords + 1, last)
       IN [heading |-> section.heading, text |-> slice, words |-> Len(slice)]]

(* A section joins the text before it under the same heading if both fit;  *)
(* the blank line between them is counted as a word.                       *)
AddSection(g, section) ==
    LET n == Len(section.text)
        joined == g.words + (IF g.text = <<>> THEN 0 ELSE 1) + n
        kept == IF g.heading # section.heading \/ joined > MaxWords
                THEN [Push(g) EXCEPT !.heading = section.heading] ELSE g
        own == [Push(g) EXCEPT !.heading = section.heading, !.text = section.text, !.words = n]
    IN CASE section.atomic -> Push(own)
         [] ~section.atomic /\ n > MaxWords ->
              [Push(g) EXCEPT !.chunks = @ \o Slices(section)]
         [] OTHER -> [kept EXCEPT !.words = @ + (IF kept.text = <<>> THEN 0 ELSE 1) + n,
                                  !.text = @ \o section.text]

(* chunk_record.  The nth chunk's id is the record's and n - 1.            *)
Chunks(body) == Push(FoldLeft(AddSection, Gather, Sections(body))).chunks

-----------------------------------------------------------------------------
(* split_embedding_text.                                                   *)

(* The characters of a chunk's text, TRUE for one that is not white space. *)
AddWord(body, chars, w) ==
    (IF chars = <<>> THEN chars ELSE Append(chars, FALSE))
    \o [i \in 1..body[w[1]].words[w[2]] |-> TRUE]

Characters(body, text) ==
    FoldLeft(LAMBDA chars, w : AddWord(body, chars, w), <<>>, text)

TokenCount(chars) == Cardinality({i \in 1..Len(chars) : chars[i]})

(* The longest prefix of a candidate that fits, by binary search; 0 if not *)
(* even one character does.                                                *)
Fitting(candidate) ==
    LET n == Len(candidate)
        search[range \in (1..(n + 1)) \X (0..n)] ==
            LET low == range[1]
                high == range[2]
                middle == low + (high - low) \div 2
            IN IF low > high THEN low - 1
               ELSE IF TokenCount(SubSeq(candidate, 1, middle)) <= MaxTokens
               THEN search[<<middle + 1, high>>]
               ELSE search[<<low, middle - 1>>]
    IN search[<<1, n>>]

(* Where the piece that starts at a character ends, and where the rest     *)
(* starts: after the last white space of the longest prefix that fits, or  *)
(* else after that prefix.                                                 *)
PieceEnd(chars, from) ==
    LET reach == from + CharsPerToken * MaxTokens - 1
        candidate == SubSeq(chars, from, IF reach < Len(chars) THEN reach ELSE Len(chars))
        maximum == from + Fitting(candidate) - 1
        spaces == {i \in from..maximum : ~chars[i]}
        end == IF spaces = {} THEN maximum ELSE Max(spaces)
    IN <<end, end + 1>>

(* The characters of each piece, by their places; the pieces and what is   *)
(* left of the text are trimmed.                                           *)
Pieces(chars) ==
    LET n == Len(chars)
        Solid(S) == {i \in S : chars[i]}
        Trimmed(from, end) == IF Solid(from..end) = {} THEN {}
                              ELSE Min(Solid(from..end))..Max(Solid(from..end))
        cut[from \in 1..(n + 1)] ==
            IF Solid(from..n) = {} THEN <<>>
            ELSE LET start == Min(Solid(from..n))
                     piece == PieceEnd(chars, start)
                 IN <<Trimmed(start, piece[1])>> \o cut[piece[2]]
    IN IF TokenCount(chars) <= MaxTokens THEN <<1..n>> ELSE cut[1]

-----------------------------------------------------------------------------
(* Reference definitions, which look at whole bodies and not at scans.     *)

FenceAt(body) ==
    LET fence[l \in 0..Len(body)] ==
            IF l = 0 THEN NoFence
            ELSE CASE body[l].kind = "fence" /\ fence[l - 1] = NoFence -> body[l].mark
                   [] body[l].kind = "fence" /\ fence[l - 1] = body[l].mark -> NoFence
                   [] OTHER -> fence[l - 1]
    IN fence

IsHeading(body, l) == body[l].kind = "heading" /\ FenceAt(body)[l - 1] = NoFence

(* The headings a line is under: those above it that no later one of their *)
(* level or above has closed, outermost first.                             *)
Open(body, l) ==
    LET above == {h \in 1..l : IsHeading(body, h)}
    IN {h \in above : \A g \in above : g > h => body[g].level > body[h].level}

HeadingsOf(body, l) ==
    [i \in 1..Cardinality(Open(body, l)) |->
       body[CHOOSE h \in Open(body, l) : Cardinality({g \in Open(body, l) : g < h}) = i - 1].name]

(* What a body says outside its headings, and what its chunks say.         *)
Said(body, l) == IF IsHeading(body, l) THEN <<>> ELSE Words(body, l)
BodyText(body) == FlattenSeq([l \in 1..Len(body) |-> Said(body, l)])
TextOf(chunks) == FlattenSeq([n \in DOMAIN chunks |-> chunks[n].text])

(* Every word of a body outside its headings is in one chunk, in its       *)
(* order, under the headings it is under, so that no text is lost to       *)
(* search and no excerpt is attributed to another section (chunk_record).  *)
WordsKept(body) ==
    /\ TextOf(Chunks(body)) = BodyText(body)
    /\ \A n \in DOMAIN Chunks(body) :
         \A w \in ToSet(Chunks(body)[n].text) : Chunks(body)[n].heading = HeadingsOf(body, w[1])

(* Two lines of one fenced block, the first above the second.              *)
SameBlock(body, a, b) == a < b /\ \A l \in a..(b - 1) : FenceAt(body)[l] # NoFence

(* A fenced block is never divided: a chunk has all words of two of its    *)
(* lines or none.  A chunk without a fence or a list is within the limit,  *)
(* the separators it was joined with counted (chunking.rs:88-127).         *)
BlocksKept(body) ==
    \A n \in DOMAIN Chunks(body) :
      LET chunk == Chunks(body)[n]
          said == ToSet(chunk.text)
          OfLine(l) == ToSet(Words(body, l))
      IN /\ \A a, b \in 1..Len(body) :
              SameBlock(body, a, b) =>
                OfLine(a) \cup OfLine(b) \subseteq said \/ (OfLine(a) \cup OfLine(b)) \cap said = {}
         /\ chunk.words > MaxWords => \E w \in said : body[w[1]].kind \in {"list", "fence"}
         /\ chunk.words >= Len(chunk.text)

(* The pieces of a chunk that are embedded hold each of its characters     *)
(* once, in order, and each fits the model ("This keeps every embedding    *)
(* input within the model's declared token limit", cli/reference.md).      *)
PiecesFit(body) ==
    \A n \in DOMAIN Chunks(body) :
      LET chars == Characters(body, Chunks(body)[n].text)
          pieces == Pieces(chars)
      IN /\ \A i \in 1..Len(chars) :
              chars[i] => Cardinality({k \in DOMAIN pieces : i \in pieces[k]}) = 1
         /\ \A k \in DOMAIN pieces :
              /\ Cardinality({i \in pieces[k] : chars[i]}) \in 1..MaxTokens
              /\ \A j \in 1..(k - 1) : Max(pieces[j]) < Min(pieces[k])

=============================================================================
