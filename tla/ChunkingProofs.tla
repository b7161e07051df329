--------------------------- MODULE ChunkingProofs ---------------------------
(***************************************************************************)
(* What Chunking computes, for every body: first the facts about finite    *)
(* sets of numbers, folds and orders that this needs, stated for sets and  *)
(* functions; then the types of sections, chunks and pieces; then that the *)
(* chunks of a body keep its text, headings and blocks, and the pieces of  *)
(* a chunk its characters.                                                 *)
(***************************************************************************)
EXTENDS Chunking, Integers, FiniteSets, FiniteSetTheorems, FunctionTheorems, WellFoundedInduction,
        SequenceTheorems, TLAPS

Below(n) == 0..n

LEMMA LeastNumber ==
    ASSUME NEW S, S \subseteq Nat, S # {}
    PROVE  \E n \in S : \A m \in S : n <= m
  <1> DEFINE T == {Below(n) : n \in S}
  <1>2. T \subseteq FiniteSubsetsOf(Nat)
    <2> SUFFICES ASSUME NEW n \in S PROVE Below(n) \in FiniteSubsetsOf(Nat)
      OBVIOUS
    <2>1. IsFiniteSet(0..n)
      BY FS_Interval
    <2> QED
      BY <2>1 DEF FiniteSubsetsOf, Below
  <1>3. PICK x \in T : \A y \in T : ~ (<<y, x>> \in StrictSubsetOrdering(Nat))
    <2>1. T # {}
      OBVIOUS
    <2> HIDE DEF T
    <2> QED
      BY <1>2, <2>1, FS_StrictSubsetOrderingWellFounded, WFMin
  <1>4. PICK n \in S : x = Below(n)
    BY <1>3
  <1>5. \A m \in S : n <= m
    <2> SUFFICES ASSUME NEW m \in S, m < n PROVE FALSE
      OBVIOUS
    <2>1. Below(m) \subseteq Below(n) /\ Below(m) # Below(n) /\ Below(n) \subseteq Nat
      BY DEF Below
    <2>2. <<Below(m), Below(n)>> \in StrictSubsetOrdering(Nat)
      BY <2>1 DEF StrictSubsetOrdering
    <2> QED
      BY <1>3, <1>4, <2>2
  <1> QED
    BY <1>5

(* Mathematical induction, for a set of numbers. *)
LEMMA InductionTo ==
    ASSUME NEW n \in Nat, NEW T, 0 \in T, \A k \in 0..(n - 1) : k \in T => k + 1 \in T
    PROVE  \A k \in 0..n : k \in T
  <1> DEFINE Bad == {k \in 0..n : k \notin T}
  <1>1. Bad \subseteq Nat
    OBVIOUS
  <1>2. ASSUME Bad # {} PROVE FALSE
    <2>1. PICK k \in Bad : \A m \in Bad : k <= m
      <3> HIDE DEF Bad
      <3> QED
        BY <1>1, <1>2, LeastNumber
    <2>2. k \in 1..n /\ k \notin T
      OBVIOUS
    <2>3. k - 1 \in 0..(n - 1) /\ k - 1 \notin Bad
      BY <2>1, <2>2
    <2> QED
      BY <2>2, <2>3
  <1> QED
    BY <1>2

LEMMA MaxOf ==
    ASSUME NEW n \in Nat, NEW S, S \subseteq 1..n, S # {}
    PROVE  Max(S) \in S /\ \A x \in S : x <= Max(S)
  <1> DEFINE T == {n - x : x \in S}
  <1>1. T \subseteq Nat
    <2> SUFFICES ASSUME NEW x \in S PROVE n - x \in Nat
      OBVIOUS
    <2> x \in 1..n
      OBVIOUS
    <2> QED
      OBVIOUS
  <1>2. T # {}
    OBVIOUS
  <1>3. PICK k \in T : \A m \in T : k <= m
    <2> HIDE DEF T
    <2> QED
      BY <1>1, <1>2, LeastNumber
  <1>4. PICK x \in S : k = n - x
    OBVIOUS
  <1>5. ASSUME NEW y \in S PROVE y <= x
    <2>1. n - x <= n - y
      BY <1>3, <1>4
    <2> x \in 1..n /\ y \in 1..n
      OBVIOUS
    <2> QED
      BY <2>1
  <1>6. \A y \in S : x >= y
    <2> SUFFICES ASSUME NEW y \in S PROVE x >= y
      OBVIOUS
    <2> x \in 1..n /\ y \in 1..n
      OBVIOUS
    <2> QED
      BY <1>5
  <1>7. Max(S) \in S /\ \A y \in S : Max(S) >= y
    BY <1>6 DEF Max
  <1> QED
    <2> SUFFICES ASSUME NEW y \in S PROVE y <= Max(S)
      BY <1>7
    <2> y \in 1..n /\ Max(S) \in 1..n
      BY <1>7
    <2> QED
      BY <1>7

LEMMA MaxTo ==
    ASSUME NEW k \in Nat \ {0}
    PROVE  Max(1..k) = k
  <1>1. 1..k # {} /\ 1..k \subseteq 1..k /\ k \in Nat /\ k \in 1..k
    OBVIOUS
  <1>2. Max(1..k) \in 1..k /\ \A x \in 1..k : x <= Max(1..k)
    BY <1>1, MaxOf
  <1> QED
    BY <1>1, <1>2

LEMMA WithoutMax ==
    ASSUME NEW k \in Nat, NEW s, s \subseteq 1..(k + 1), s # {}
    PROVE  Max(s) \in s /\ s \ {Max(s)} \subseteq 1..k /\ (k + 1 \in s => Max(s) = k + 1)
  <1>1. Max(s) \in s /\ \A x \in s : x <= Max(s)
    BY MaxOf, k + 1 \in Nat
  <1>2. Max(s) \in 1..(k + 1)
    BY <1>1
  <1>3. ASSUME NEW x \in s, x # Max(s) PROVE x \in 1..k
    <2>1. x \in 1..(k + 1) /\ x <= Max(s)
      BY <1>1
    <2> QED
      BY <1>2, <1>3, <2>1
  <1>4. k + 1 \in s => Max(s) = k + 1
    BY <1>1, <1>2
  <1> QED
    BY <1>1, <1>3, <1>4

(* A fold steps over the sets of places, and so the places in their order. *)
Folds(g, n, base, F) ==
    \A s \in SUBSET (1..n) : g[s] = IF s = {} THEN base ELSE F[Max(s)][g[s \ {Max(s)}]]

LEMMA FoldExists ==
    ASSUME NEW A, NEW n \in Nat, NEW base \in A, NEW F \in [1..n -> [A -> A]]
    PROVE  \E g \in [SUBSET (1..n) -> A] : Folds(g, n, base, F)
  <1> DEFINE T == {k \in 0..n : \E g \in [SUBSET (1..k) -> A] : Folds(g, k, base, F)}
  <1>1. 0 \in T
    <2> DEFINE g == [s \in SUBSET (1..0) |-> base]
    <2>1. g \in [SUBSET (1..0) -> A] /\ Folds(g, 0, base, F)
      BY DEF Folds
    <2> QED
      BY <2>1
  <1>2. ASSUME NEW k \in 0..(n - 1), k \in T PROVE k + 1 \in T
    <2>1. PICK g \in [SUBSET (1..k) -> A] : Folds(g, k, base, F)
      BY <1>2
    <2> DEFINE h == [s \in SUBSET (1..(k + 1)) |-> IF k + 1 \in s THEN F[k + 1][g[s \ {k + 1}]] ELSE g[s]]
    <2>2. \A s \in SUBSET (1..(k + 1)) : k + 1 \notin s => s \in SUBSET (1..k)
      OBVIOUS
    <2>3. \A s \in SUBSET (1..(k + 1)) : s \ {k + 1} \in SUBSET (1..k)
      OBVIOUS
    <2>4. h \in [SUBSET (1..(k + 1)) -> A]
      BY <2>2, <2>3
    <2>5. ASSUME NEW s \in SUBSET (1..(k + 1)) PROVE h[s] = IF s = {} THEN base ELSE F[Max(s)][h[s \ {Max(s)}]]
      <3>1. CASE k + 1 \in s
        <4>1. Max(s) = k + 1
          <5>1. k \in Nat /\ s \subseteq 1..(k + 1) /\ s # {}
            BY <3>1
          <5> QED
            BY <3>1, <5>1, WithoutMax
        <4>2. h[s \ {k + 1}] = g[s \ {k + 1}]
          BY <2>3
        <4> QED
          BY <3>1, <4>1, <4>2
      <3>2. CASE k + 1 \notin s
        <4>1. s \in SUBSET (1..k)
          BY <2>2, <3>2
        <4>2. s # {} => h[s \ {Max(s)}] = g[s \ {Max(s)}]
          <5>1. s \ {Max(s)} \in SUBSET (1..(k + 1)) /\ k + 1 \notin s \ {Max(s)}
            BY <3>2
          <5> QED
            BY <5>1
        <4>3. g[s] = IF s = {} THEN base ELSE F[Max(s)][g[s \ {Max(s)}]]
          BY <4>1, <2>1 DEF Folds
        <4> QED
          BY <3>2, <4>2, <4>3
      <3> QED
        BY <3>1, <3>2
    <2> HIDE DEF h
    <2>6. Folds(h, k + 1, base, F)
      BY <2>5 DEF Folds
    <2> QED
      BY <2>4, <2>6
  <1>3. n \in T
    <2> HIDE DEF T
    <2>1. \A k \in 0..n : k \in T
      BY <1>1, <1>2, InductionTo
    <2> QED
      BY <2>1, n \in 0..n
  <1> QED
    BY <1>3


(* Two functions that take the same steps agree. *)
LEMMA FoldAgrees ==
    ASSUME NEW n \in Nat, NEW g, NEW h, h[{}] = g[{}],
           \A s \in SUBSET (1..n) : s # {} /\ h[s \ {Max(s)}] = g[s \ {Max(s)}] => h[s] = g[s]
    PROVE  h[1..n] = g[1..n]
  <1> DEFINE T == {k \in 0..n : \A s \in SUBSET (1..k) : h[s] = g[s]}
  <1>1. 0 \in T
    <2>1. ASSUME NEW s \in SUBSET (1..0) PROVE h[s] = g[s]
      <3>1. s = {}
        OBVIOUS
      <3> QED
        BY <3>1
    <2> QED
      BY <2>1
  <1>2. ASSUME NEW k \in 0..(n - 1), k \in T PROVE k + 1 \in T
    <2> SUFFICES ASSUME NEW s \in SUBSET (1..(k + 1)) PROVE h[s] = g[s]
      <3>1. k + 1 \in 0..n
        OBVIOUS
      <3> QED
        BY <3>1
    <2>1. CASE s = {}
      BY <2>1
    <2>2. CASE s # {}
      <3>1. s \ {Max(s)} \in SUBSET (1..k)
        <4>1. k \in Nat /\ s \subseteq 1..(k + 1)
          OBVIOUS
        <4> QED
          BY <2>2, <4>1, WithoutMax
      <3>2. s \in SUBSET (1..n)
        OBVIOUS
      <3> QED
        BY <1>2, <2>2, <3>1, <3>2
    <2> QED
      BY <2>1, <2>2
  <1>3. n \in T
    <2> HIDE DEF T
    <2>1. \A k \in 0..n : k \in T
      BY <1>1, <1>2, InductionTo
    <2> QED
      BY <2>1, n \in 0..n
  <1> QED
    BY <1>3

(* What is needed of a fold's step, and what a fold then is: by sets of    *)
(* places, and by prefixes.                                                *)
StepsIn(A, n, base, F) == n \in Nat /\ base \in A /\ F \in [1..n -> [A -> A]]

IsFold(A, n, base, F, g, p) ==
    /\ g \in [SUBSET (1..n) -> A]
    /\ g[{}] = base
    /\ \A s \in SUBSET (1..n) : s # {} =>
         Max(s) \in 1..n /\ g[s \ {Max(s)}] \in A /\ g[s] = F[Max(s)][g[s \ {Max(s)}]]
    /\ p \in [0..n -> A]
    /\ p[0] = base
    /\ \A k \in 1..n : p[k - 1] \in A /\ p[k] = F[k][p[k - 1]]
    /\ p[n] = g[1..n]

LEMMA FoldPrefixes ==
    ASSUME NEW A, NEW n, NEW base, NEW F, StepsIn(A, n, base, F)
    PROVE  \E g, p : IsFold(A, n, base, F, g, p)
  <1>0. n \in Nat /\ base \in A /\ F \in [1..n -> [A -> A]]
    BY DEF StepsIn
  <1>1. PICK g \in [SUBSET (1..n) -> A] : Folds(g, n, base, F)
    BY <1>0, FoldExists
  <1> DEFINE p == [k \in 0..n |-> g[1..k]]
  <1>2. p \in [0..n -> A] /\ p[n] = g[1..n]
    BY <1>0
  <1>3. g[{}] = base
    BY <1>0, <1>1, {} \in SUBSET (1..n) DEF Folds
  <1>4. p[0] = base
    <2>1. 1..0 = {}
      OBVIOUS
    <2>2. p[0] = g[1..0]
      BY <1>0
    <2> QED
      BY <1>3, <2>1, <2>2
  <1>5. ASSUME NEW k \in 1..n PROVE p[k - 1] \in A /\ p[k] = F[k][p[k - 1]]
    <2>0. k \in Nat \ {0}
      BY <1>0
    <2>1. Max(1..k) = k
      BY <2>0, MaxTo
    <2>2. (1..k) \ {k} = 1..(k - 1)
      BY <2>0
    <2>3. 1..k # {} /\ 1..k \in SUBSET (1..n)
      <3>1. k \in 1..k /\ k <= n
        BY <1>0, <2>0
      <3>2. \A i \in 1..k : i \in 1..n
        BY <1>0, <2>0, <3>1
      <3> QED
        BY <3>1, <3>2
    <2>4. g[1..k] = F[k][g[1..(k - 1)]]
      BY <1>1, <2>1, <2>2, <2>3 DEF Folds
    <2> QED
      BY <1>0, <1>2, <2>4
  <1>6. ASSUME NEW s \in SUBSET (1..n), s # {}
        PROVE  Max(s) \in 1..n /\ g[s \ {Max(s)}] \in A /\ g[s] = F[Max(s)][g[s \ {Max(s)}]]
    <2>1. Max(s) \in s
      BY <1>0, <1>6, MaxOf
    <2> QED
      BY <1>1, <1>6, <2>1 DEF Folds
  <1> HIDE DEF p
  <1>7. IsFold(A, n, base, F, g, p)
    BY <1>2, <1>3, <1>4, <1>5, <1>6 DEF IsFold
  <1> QED
    BY <1>7

(* Induction over a set by a measure of its members. *)
LEMMA MeasureInduction ==
    ASSUME NEW S, NEW measure \in [S -> Nat], NEW T,
           \A x \in S : (\A y \in S : measure[y] < measure[x] => y \in T) => x \in T
    PROVE  S \subseteq T
  <1> DEFINE M == {measure[x] : x \in S \ T}
  <1>1. M \subseteq Nat
    OBVIOUS
  <1>2. ASSUME M # {} PROVE FALSE
    <2>1. PICK k \in M : \A m \in M : k <= m
      <3> HIDE DEF M
      <3> QED
        BY <1>1, <1>2, LeastNumber
    <2>2. PICK x \in S \ T : measure[x] = k
      BY <2>1
    <2>3. ASSUME NEW y \in S, measure[y] < measure[x], y \notin T PROVE FALSE
      <3>1. measure[y] \in M
        BY <2>3
      <3>2. measure[x] <= measure[y]
        BY <2>1, <2>2, <3>1
      <3> QED
        BY <2>3, <3>2
    <2> QED
      BY <2>2, <2>3
  <1> QED
    BY <1>2

-----------------------------------------------------------------------------
(* Finite sets in an order.                                                *)

LEMMA IsSequence ==
    ASSUME NEW S, NEW n \in Nat, NEW f \in [1..n -> S]
    PROVE  f \in Seq(S) /\ Len(f) = n /\ DOMAIN f = 1..n
  OBVIOUS

(* The image of a finite set is finite, and so is what a finite number of  *)
(* finite sets holds.                                                      *)
LEMMA FiniteImage ==
    ASSUME NEW S, IsFiniteSet(S), NEW f, NEW I, \A t \in I : \E x \in S : t = f[x]
    PROVE  IsFiniteSet(I)
  <1> DEFINE J == {f[x] : x \in S}
             g == [x \in S |-> f[x]]
  <1>1. g \in [S -> J] /\ \A t \in J : \E x \in S : g[x] = t
    OBVIOUS
  <1>2. I \in SUBSET J
    OBVIOUS
  <1> HIDE DEF J, g
  <1>3. g \in Surjection(S, J)
    BY <1>1, Fun_IsSurj
  <1>4. IsFiniteSet(J)
    BY <1>3, FS_Surjection
  <1> QED
    BY <1>2, <1>4, FS_Subset

LEMMA FiniteUnion ==
    ASSUME NEW S, IsFiniteSet(S), NEW f, \A x \in S : IsFiniteSet(f[x]),
           NEW U, \A u \in U : \E x \in S : u \in f[x]
    PROVE  IsFiniteSet(U)
  <1> DEFINE I == {f[x] : x \in S}
  <1>1. \A t \in I : \E x \in S : t = f[x]
    OBVIOUS
  <1>2. \A t \in I : IsFiniteSet(t)
    OBVIOUS
  <1>3. U \in SUBSET (UNION I)
    OBVIOUS
  <1> HIDE DEF I
  <1>4. IsFiniteSet(I)
    BY <1>1, FiniteImage
  <1>5. IsFiniteSet(UNION I)
    BY <1>2, <1>4, FS_UNION
  <1> QED
    BY <1>3, <1>5, FS_Subset

(* A strict total order on a set, the members before one, and the set in   *)
(* its order.                                                              *)
IsOrder(S, R) ==
    /\ \A a \in S : <<a, a>> \notin R
    /\ \A a, b, c \in S : <<a, b>> \in R /\ <<b, c>> \in R => <<a, c>> \in R
    /\ \A a, b \in S : a # b => <<a, b>> \in R \/ <<b, a>> \in R

Preceding(S, R, a) == {b \in S : <<b, a>> \in R}

InOrder(S, R, f) ==
    /\ f \in Seq(S) /\ Len(f) = Cardinality(S) /\ Cardinality(S) \in Nat
    /\ DOMAIN f = 1..Cardinality(S)
    /\ \A i \in 1..Cardinality(S) : f[i] \in S
    /\ \A a \in S : \E i \in 1..Cardinality(S) : f[i] = a
    /\ \A i, j \in 1..Cardinality(S) : i < j <=> <<f[i], f[j]>> \in R

LEMMA PlacesDiffer ==
    ASSUME NEW S, IsFiniteSet(S), NEW R, IsOrder(S, R)
    PROVE  /\ \A a \in S : Cardinality(Preceding(S, R, a)) \in 0..(Cardinality(S) - 1)
           /\ \A a, b \in S : <<a, b>> \in R =>
                Cardinality(Preceding(S, R, a)) < Cardinality(Preceding(S, R, b))
  <1>1. ASSUME NEW a \in S PROVE IsFiniteSet(Preceding(S, R, a)) /\ Cardinality(Preceding(S, R, a)) \in Nat
    BY FS_Subset, FS_CardinalityType DEF Preceding
  <1>2. ASSUME NEW a \in S PROVE Cardinality(Preceding(S, R, a)) \in 0..(Cardinality(S) - 1)
    <2>1. Preceding(S, R, a) \in SUBSET (S \ {a})
      BY DEF Preceding, IsOrder
    <2>2. IsFiniteSet(S \ {a}) /\ Cardinality(S \ {a}) = Cardinality(S) - 1 /\ Cardinality(S) \in Nat
      BY FS_RemoveElement, FS_CardinalityType
    <2>3. Cardinality(Preceding(S, R, a)) <= Cardinality(S \ {a})
      BY <2>1, <2>2, FS_Subset
    <2> QED
      BY <1>1, <2>2, <2>3
  <1>3. ASSUME NEW a \in S, NEW b \in S, <<a, b>> \in R
        PROVE  Cardinality(Preceding(S, R, a)) < Cardinality(Preceding(S, R, b))
    <2>1. a \in Preceding(S, R, b) /\ Preceding(S, R, a) \in SUBSET (Preceding(S, R, b) \ {a})
      BY <1>3 DEF Preceding, IsOrder
    <2>2. /\ IsFiniteSet(Preceding(S, R, b) \ {a})
          /\ Cardinality(Preceding(S, R, b) \ {a}) = Cardinality(Preceding(S, R, b)) - 1
      BY <1>1, <2>1, FS_RemoveElement
    <2>3. Cardinality(Preceding(S, R, a)) <= Cardinality(Preceding(S, R, b) \ {a})
      BY <2>1, <2>2, FS_Subset
    <2> QED
      BY <1>1, <2>2, <2>3
  <1> QED
    BY <1>2, <1>3

(* Each member of a finite set has a place of its own, so to choose the    *)
(* member at each place puts the set in order.                             *)
LEMMA ChosenIsSorted ==
    ASSUME NEW S, IsFiniteSet(S), NEW R, IsOrder(S, R), NEW f,
           f = [i \in 1..Cardinality(S) |->
                  CHOOSE a \in S : Cardinality(Preceding(S, R, a)) = i - 1]
    PROVE  InOrder(S, R, f)
  <1> DEFINE n == Cardinality(S)
             place == [a \in S |-> Cardinality(Preceding(S, R, a))]
  <1>1. n \in Nat
    BY FS_CardinalityType
  <1>2. place \in [S -> 0..(n - 1)] /\ \A a, b \in S : <<a, b>> \in R => place[a] < place[b]
    BY PlacesDiffer
  <1>3. \A a, b \in S : place[a] = place[b] => a = b
    <2> SUFFICES ASSUME NEW a \in S, NEW b \in S, a # b PROVE place[a] # place[b]
      OBVIOUS
    <2> HIDE DEF place
    <2>1. <<a, b>> \in R \/ <<b, a>> \in R
      BY DEF IsOrder
    <2>2. place[a] \in Int /\ place[b] \in Int
      BY <1>1, <1>2
    <2> QED
      BY <1>2, <2>1, <2>2
  <1>4. IsFiniteSet(0..(n - 1)) /\ Cardinality(0..(n - 1)) = n
    <2>1. n - 1 \in Int /\ (0 > n - 1 <=> n = 0) /\ (n - 1) - 0 + 1 = n
      BY <1>1
    <2> HIDE DEF n
    <2> QED
      BY <2>1, FS_Interval
  <1>5. \A k \in 0..(n - 1) : \E a \in S : place[a] = k
    <2> HIDE DEF place
    <2>1. place \in Injection(S, 0..(n - 1))
      BY <1>2, <1>3, Fun_IsInj
    <2>2. place \in Surjection(S, 0..(n - 1))
      BY <1>4, <2>1, FS_Injection
    <2> QED
      BY <2>2 DEF Surjection
  <1>6. ASSUME NEW i \in 1..n PROVE f[i] \in S /\ place[f[i]] = i - 1
    <2>1. i - 1 \in 0..(n - 1)
      BY <1>1
    <2>2. PICK a \in S : place[a] = i - 1
      BY <1>5, <2>1
    <2>3. f[i] = CHOOSE b \in S : Cardinality(Preceding(S, R, b)) = i - 1
      OBVIOUS
    <2>4. f[i] \in S /\ Cardinality(Preceding(S, R, f[i])) = i - 1
      BY <2>2, <2>3
    <2> QED
      BY <2>4
  <1>7. f \in Seq(S) /\ Len(f) = n /\ DOMAIN f = 1..n
    <2> HIDE DEF n
    <2>1. f \in [1..n -> S]
      BY <1>6 DEF n
    <2> QED
      BY <1>1, <2>1, IsSequence
  <1>8. ASSUME NEW a \in S PROVE \E i \in 1..n : f[i] = a
    <2>1. place[a] + 1 \in 1..n
      BY <1>1, <1>2
    <2>2. f[place[a] + 1] \in S /\ place[f[place[a] + 1]] = place[a]
      BY <1>1, <1>2, <1>6, <2>1
    <2> HIDE DEF place
    <2> QED
      BY <1>3, <2>1, <2>2
  <1>9. ASSUME NEW i \in 1..n, NEW j \in 1..n PROVE i < j <=> <<f[i], f[j]>> \in R
    <2> HIDE DEF place, n
    <2>1. f[i] \in S /\ f[j] \in S /\ place[f[i]] = i - 1 /\ place[f[j]] = j - 1
      BY <1>6
    <2>2. i \in Nat /\ j \in Nat
      BY <1>1
    <2>3. CASE f[i] = f[j]
      <3>1. i = j
        BY <2>1, <2>2, <2>3
      <3>2. <<f[i], f[j]>> \notin R
        BY <2>1, <2>3 DEF IsOrder
      <3> QED
        BY <2>2, <3>1, <3>2
    <2>4. CASE f[i] # f[j]
      <3>1. <<f[i], f[j]>> \in R \/ <<f[j], f[i]>> \in R
        BY <2>1, <2>4 DEF IsOrder
      <3>2. <<f[i], f[j]>> \in R => i < j
        <4>1. <<f[i], f[j]>> \in R => place[f[i]] < place[f[j]]
          BY <1>2, <2>1
        <4> QED
          BY <2>1, <2>2, <4>1
      <3>3. <<f[j], f[i]>> \in R => j < i
        <4>1. <<f[j], f[i]>> \in R => place[f[j]] < place[f[i]]
          BY <1>2, <2>1
        <4> QED
          BY <2>1, <2>2, <4>1
      <3> QED
        BY <2>2, <3>1, <3>2, <3>3
    <2> QED
      BY <2>3, <2>4
  <1> HIDE DEF place
  <1> QED
    BY <1>1, <1>6, <1>7, <1>8, <1>9 DEF InOrder

LEMMA SameSequence ==
    ASSUME NEW S, NEW s \in Seq(S), NEW t \in Seq(S), Len(s) = Len(t),
           \A i \in 1..Len(s) : s[i] = t[i]
    PROVE  s = t
  OBVIOUS

(* A set has one order. *)
LEMMA OneOrder ==
    ASSUME NEW S, NEW R, NEW f, NEW g, InOrder(S, R, f), InOrder(S, R, g)
    PROVE  f = g
  <1> DEFINE n == Cardinality(S)
             T == {i \in 1..n : f[i] = g[i]}
             measure == [i \in 1..n |-> i]
  <1>1. /\ n \in Nat /\ f \in Seq(S) /\ g \in Seq(S) /\ Len(f) = n /\ Len(g) = n
        /\ \A i \in 1..n : f[i] \in S /\ g[i] \in S
        /\ \A a \in S : (\E i \in 1..n : f[i] = a) /\ (\E i \in 1..n : g[i] = a)
        /\ \A i, j \in 1..n : (i < j <=> <<f[i], f[j]>> \in R) /\ (i < j <=> <<g[i], g[j]>> \in R)
    BY DEF InOrder
  <1> HIDE DEF n
  <1>2. ASSUME NEW i \in 1..n, \A j \in 1..n : j < i => f[j] = g[j]
        PROVE  f[i] = g[i]
    <2>1. PICK m \in 1..n : g[m] = f[i]
      BY <1>1
    <2>2. PICK k \in 1..n : f[k] = g[i]
      BY <1>1
    <2>3. ~(m < i)
      <3>1. SUFFICES ASSUME m < i PROVE FALSE
        OBVIOUS
      <3>2. f[m] = f[i]
        BY <1>2, <2>1, <3>1
      <3>3. <<f[m], f[i]>> \in R
        BY <1>1, <3>1
      <3>4. <<f[i], f[i]>> \notin R
        <4>1. ~(i < i)
          OBVIOUS
        <4>2. i < i <=> <<f[i], f[i]>> \in R
          BY <1>1, Zenon
        <4> QED
          BY <4>1, <4>2
      <3> QED
        BY <3>2, <3>3, <3>4
    <2>4. ~(k < i)
      <3>1. SUFFICES ASSUME k < i PROVE FALSE
        OBVIOUS
      <3>2. g[k] = g[i]
        BY <1>2, <2>2, <3>1
      <3>3. <<g[k], g[i]>> \in R
        BY <1>1, <3>1
      <3>4. <<g[i], g[i]>> \notin R
        <4>1. ~(i < i)
          OBVIOUS
        <4>2. i < i <=> <<g[i], g[i]>> \in R
          BY <1>1, Zenon
        <4> QED
          BY <4>1, <4>2
      <3> QED
        BY <3>2, <3>3, <3>4
    <2>5. ~(i < m)
      <3>1. SUFFICES ASSUME i < m PROVE FALSE
        OBVIOUS
      <3>2. <<g[i], g[m]>> \in R
        BY <1>1, <3>1
      <3>3. <<f[k], f[i]>> \in R
        BY <2>1, <2>2, <3>2
      <3> QED
        BY <1>1, <2>4, <3>3
    <2> QED
      BY <2>1, <2>3, <2>5
  <1>3. 1..n \subseteq T
    <2> DEFINE N == 1..n
    <2>1. measure \in [N -> Nat]
      OBVIOUS
    <2>2. \A i \in N : (\A j \in N : measure[j] < measure[i] => j \in T) => i \in T
      BY <1>2
    <2>3. N \subseteq T
      <3> HIDE DEF T, measure, N
      <3> QED
        BY <2>1, <2>2, MeasureInduction
    <2> QED
      BY <2>3
  <1> QED
    BY <1>1, <1>3, SameSequence

LEMMA AppendAt ==
    ASSUME NEW S, NEW s \in Seq(S), NEW x \in S
    PROVE  /\ Len(s) \in Nat /\ Len(Append(s, x)) = Len(s) + 1
           /\ \A i \in 1..Len(s) : Append(s, x)[i] = s[i]
           /\ Append(s, x)[Len(s) + 1] = x
  OBVIOUS

-----------------------------------------------------------------------------
(* Recursive functions.                                                    *)

(* A recursion with one call, by a bounded measure. *)
Recursion(S, A, stop, base, next, F, f) ==
    f \in [S -> A] /\ \A x \in S : f[x] = IF x \in stop THEN base[x] ELSE F[x][f[next[x]]]

LEMMA RecursionExists ==
    ASSUME NEW S, NEW A, NEW n \in Nat, NEW measure \in [S -> 0..n], NEW stop,
           NEW base \in [S -> A], NEW next \in [S -> S], NEW F \in [S -> [A -> A]],
           \A x \in S \ stop : measure[next[x]] < measure[x]
    PROVE  \E f : Recursion(S, A, stop, base, next, F, f)
  <1> DEFINE Step(f, x) == IF x \in stop THEN base[x] ELSE F[x][f[next[x]]]
             Upto(f, k) == \A x \in S : measure[x] <= k => f[x] = Step(f, x)
             T == {k \in 0..n : \E f \in [S -> A] : Upto(f, k)}
  <1>1. 0 \in T
    <2>1. Upto(base, 0)
      <3> SUFFICES ASSUME NEW x \in S, measure[x] <= 0 PROVE x \in stop
        OBVIOUS
      <3>1. next[x] \in S /\ measure[next[x]] \in 0..n /\ measure[x] \in 0..n
        OBVIOUS
      <3> QED
        BY <3>1
    <2> QED
      BY <2>1
  <1>2. ASSUME NEW k \in 0..(n - 1), k \in T PROVE k + 1 \in T
    <2>1. PICK f \in [S -> A] : Upto(f, k)
      BY <1>2
    <2> DEFINE h == [x \in S |-> IF measure[x] <= k THEN f[x] ELSE Step(f, x)]
    <2>2. h \in [S -> A]
      OBVIOUS
    <2>3. ASSUME NEW x \in S, measure[x] <= k + 1 PROVE h[x] = Step(h, x)
      <3>1. next[x] \in S /\ measure[next[x]] \in 0..n /\ measure[x] \in 0..n
        OBVIOUS
      <3>2. CASE x \in stop
        BY <2>1, <3>2
      <3>3. CASE x \notin stop
        <4>1. measure[next[x]] <= k
          <5>1. measure[next[x]] < measure[x]
            BY <3>3
          <5> QED
            BY <2>3, <3>1, <5>1
        <4>2. h[next[x]] = f[next[x]]
          BY <3>1, <4>1
        <4>3. h[x] = Step(f, x)
          BY <2>1
        <4> QED
          BY <3>3, <4>2, <4>3
      <3> QED
        BY <3>2, <3>3
    <2> HIDE DEF h
    <2>4. Upto(h, k + 1)
      BY <2>3
    <2>5. k + 1 \in 0..n
      OBVIOUS
    <2> QED
      BY <2>2, <2>4, <2>5
  <1>3. n \in T
    <2> HIDE DEF T
    <2>1. \A k \in 0..n : k \in T
      BY <1>1, <1>2, InductionTo
    <2> QED
      BY <2>1, n \in 0..n
  <1>4. PICK f \in [S -> A] : Upto(f, n)
    BY <1>3
  <1>5. ASSUME NEW x \in S PROVE f[x] = Step(f, x)
    <2>1. measure[x] <= n
      OBVIOUS
    <2> QED
      BY <1>4, <2>1
  <1>6. Recursion(S, A, stop, base, next, F, f)
    BY <1>5 DEF Recursion
  <1> QED
    BY <1>6

-----------------------------------------------------------------------------
(* The types of sections, chunks and pieces.                               *)

(* The words of a body, and the states of the two passes over it. *)
WordsOf(body) == UNION {{<<l, k>> : k \in 1..Len(body[l].words)} : l \in 1..Len(body)}

SectionsOf(W) == [heading : Seq(STRING), text : Seq(W), atomic : BOOLEAN]
ScansOf(W) ==
    [sections : Seq(SectionsOf(W)), stack : Seq(Lines), text : Seq(W), open : BOOLEAN,
     atomic : BOOLEAN, fence : {NoFence, "backtick", "tilde"}]
ChunksIn(W) == [heading : Seq(STRING), text : Seq(W) \ {<<>>}, words : Nat]
GathersOf(W) == [chunks : Seq(ChunksIn(W)), heading : Seq(STRING), text : Seq(W), words : Nat]

LEMMA FlushType ==
    ASSUME NEW W, NEW s \in ScansOf(W)
    PROVE  Flush(s) \in ScansOf(W)
  <1>1. HeadingPath(s.stack) \in Seq(STRING)
    <2>1. s.stack \in Seq(Lines)
      BY DEF ScansOf
    <2>2. Len(s.stack) \in Nat /\ \A i \in 1..Len(s.stack) : s.stack[i].name \in STRING
      <3>1. \A i \in 1..Len(s.stack) : s.stack[i] \in Lines
        BY <2>1
      <3>2. \A h \in Lines : h.name \in STRING
        BY DEF Lines
      <3> QED
        BY <2>1, <3>1, <3>2
    <2> DEFINE names == [i \in 1..Len(s.stack) |-> s.stack[i].name]
    <2>3. names \in [1..Len(s.stack) -> STRING]
      BY <2>2
    <2>4. names \in Seq(STRING)
      BY <2>2, <2>3, IsSequence
    <2> QED
      BY <2>1, <2>4 DEF HeadingPath
  <1> DEFINE section == [heading |-> HeadingPath(s.stack), text |-> s.text, atomic |-> s.atomic]
  <1>2. section \in SectionsOf(W)
    BY <1>1 DEF ScansOf, SectionsOf
  <1>3. s.sections \in Seq(SectionsOf(W))
    BY DEF ScansOf
  <1> HIDE DEF section
  <1>4. Append(s.sections, section) \in Seq(SectionsOf(W))
    BY <1>2, <1>3
  <1>5. Flush(s) = IF ~s.open THEN s
                   ELSE [s EXCEPT !.sections = Append(s.sections, section), !.text = <<>>,
                                  !.open = FALSE, !.atomic = FALSE]
    BY DEF Flush, section
  <1>6. <<>> \in Seq(W)
    OBVIOUS
  <1> QED
    BY <1>4, <1>5, <1>6 DEF ScansOf

LEMMA WordsType ==
    ASSUME NEW body \in Seq(Lines), NEW l \in 1..Len(body)
    PROVE  body[l] \in Lines /\ Words(body, l) \in Seq(WordsOf(body))
  <1>1. body[l] \in Lines
    OBVIOUS
  <1>2. Len(body[l].words) \in Nat
    BY <1>1 DEF Lines
  <1>3. \A k \in 1..Len(body[l].words) : <<l, k>> \in WordsOf(body)
    BY DEF WordsOf
  <1>4. Words(body, l) \in [1..Len(body[l].words) -> WordsOf(body)]
    BY <1>3 DEF Words
  <1> QED
    BY <1>1, <1>2, <1>4, IsSequence

LEMMA AddLineType ==
    ASSUME NEW body \in Seq(Lines), NEW l \in 1..Len(body), NEW s \in ScansOf(WordsOf(body))
    PROVE  AddLine(body, s, l) \in ScansOf(WordsOf(body))
  <1>1. Words(body, l) \in Seq(WordsOf(body)) /\ s.text \in Seq(WordsOf(body))
    BY WordsType DEF ScansOf
  <1>2. s.text \o Words(body, l) \in Seq(WordsOf(body))
    BY <1>1
  <1> QED
    BY <1>2 DEF AddLine, ScansOf

LEMMA UnderType ==
    ASSUME NEW stack \in Seq(Lines), NEW line \in Lines
    PROVE  Under(stack, line) \in Seq(Lines)
  <1> DEFINE K == {0} \cup {i \in 1..Len(stack) : stack[i].level < line.level}
  <1>1. Max(K) \in 0..Len(stack)
    <2>1. K \subseteq 0..Len(stack) /\ K # {} /\ Len(stack) \in Nat
      OBVIOUS
    <2>2. \E m \in K : \A x \in K : m >= x
      <3>1. CASE K = {0}
        BY <3>1
      <3>2. CASE K # {0}
        <4> DEFINE P == K \ {0}
        <4>1. P \subseteq 1..Len(stack) /\ P # {}
          BY <3>2
        <4>2. Max(P) \in P /\ \A x \in P : x <= Max(P)
          <5> HIDE DEF P
          <5> QED
            BY <2>1, <4>1, MaxOf
        <4>3. Max(P) \in K /\ Max(P) \in Nat
          BY <4>1, <4>2
        <4>4. \A x \in K : Max(P) >= x
          <5> SUFFICES ASSUME NEW x \in K PROVE Max(P) >= x
            OBVIOUS
          <5>1. x \in P => x <= Max(P) /\ x \in Nat
            BY <4>1, <4>2
          <5>2. x \notin P => x = 0
            OBVIOUS
          <5> HIDE DEF P, K
          <5> QED
            BY <4>3, <5>1, <5>2
        <4> QED
          BY <4>3, <4>4
      <3> QED
        BY <3>1, <3>2
    <2> HIDE DEF K
    <2>3. Max(K) \in K
      BY <2>2 DEF Max
    <2> QED
      BY <2>1, <2>3
  <1>2. SubSeq(stack, 1, Max(K)) \in Seq(Lines)
    <2> HIDE DEF K
    <2> QED
      BY <1>1
  <1> QED
    BY <1>2 DEF Under

LEMMA ScanLineType ==
    ASSUME NEW body \in Seq(Lines), NEW l \in 1..Len(body), NEW s \in ScansOf(WordsOf(body))
    PROVE  ScanLine(body, s, l) \in ScansOf(WordsOf(body))
  <1> DEFINE W == WordsOf(body)
             line == body[l]
  <1>1. line \in Lines
    BY WordsType
  <1>2. line.mark \in {"backtick", "tilde"} /\ line.kind \in Kinds
    BY <1>1 DEF Lines
  <1>3. Flush(s) \in ScansOf(W)
    BY FlushType
  <1>4. AddLine(body, s, l) \in ScansOf(W) /\ AddLine(body, Flush(s), l) \in ScansOf(W)
    BY <1>3, AddLineType
  <1> HIDE DEF W, line
  <1>5. CASE s.fence # NoFence
    <2>1. InFence(body, s, l) \in ScansOf(W)
      BY <1>4 DEF InFence, ScansOf, NoFence
    <2> QED
      BY <1>5, <2>1 DEF ScanLine, W
  <1>6. CASE s.fence = NoFence /\ line.kind = "fence"
    <2>1. [AddLine(body, Flush(s), l) EXCEPT !.atomic = TRUE, !.fence = line.mark] \in ScansOf(W)
      BY <1>2, <1>4 DEF ScansOf
    <2> QED
      BY <1>6, <2>1 DEF ScanLine, W, line
  <1>7. CASE s.fence = NoFence /\ line.kind = "heading"
    <2>1. Under(Flush(s).stack, line) \in Seq(Lines)
      BY <1>1, <1>3, UnderType DEF ScansOf
    <2>2. [Flush(s) EXCEPT !.stack = Under(Flush(s).stack, line)] \in ScansOf(W)
      BY <1>3, <2>1 DEF ScansOf
    <2> QED
      BY <1>7, <2>2 DEF ScanLine, W, line
  <1>8. CASE s.fence = NoFence /\ line.kind = "blank"
    BY <1>3, <1>8 DEF ScanLine, W, line
  <1>9. CASE s.fence = NoFence /\ line.kind = "list" /\ ~s.atomic
    <2>1. [AddLine(body, Flush(s), l) EXCEPT !.atomic = TRUE] \in ScansOf(W)
      BY <1>4 DEF ScansOf
    <2> QED
      BY <1>9, <2>1 DEF ScanLine, W, line
  <1>10. CASE s.fence = NoFence /\ (line.kind = "text" \/ (line.kind = "list" /\ s.atomic))
    BY <1>4, <1>10 DEF ScanLine, W, line
  <1>11. \/ s.fence # NoFence
         \/ s.fence = NoFence /\ line.kind = "fence"
         \/ s.fence = NoFence /\ line.kind = "heading"
         \/ s.fence = NoFence /\ line.kind = "blank"
         \/ s.fence = NoFence /\ line.kind = "list" /\ ~s.atomic
         \/ s.fence = NoFence /\ (line.kind = "text" \/ (line.kind = "list" /\ s.atomic))
    BY <1>2 DEF Kinds
  <1> QED
    BY <1>5, <1>6, <1>7, <1>8, <1>9, <1>10, <1>11

(* The lines of a body in their order, which Sections folds over. *)
Order(body) == [l \in 1..Len(body) |-> l]

(* The first pass by its prefixes. *)
LEMMA ScanByPrefixes ==
    ASSUME NEW body \in Seq(Lines)
    PROVE  \E p \in [0..Len(Order(body)) -> ScansOf(WordsOf(body))] :
             /\ p[0] = Scan
             /\ \A k \in 1..Len(Order(body)) : p[k] = ScanLine(body, p[k - 1], Order(body)[k])
             /\ FoldLeft(LAMBDA s, l : ScanLine(body, s, l), Scan, Order(body)) = p[Len(Order(body))]
  <1> DEFINE n == Len(Order(body))
             F == [k \in 1..n |-> [x \in ScansOf(WordsOf(body)) |-> ScanLine(body, x, Order(body)[k])]]
             iter == CHOOSE g : g = [t \in SUBSET (DOMAIN Order(body)) |->
                       IF t = {} THEN Scan ELSE ScanLine(body, g[t \ {Max(t)}], Order(body)[Max(t)])]
  <1>0. /\ Len(body) \in Nat /\ Order(body) = [l \in 1..Len(body) |-> l] /\ Len(Order(body)) = Len(body)
        /\ Scan \in ScansOf(WordsOf(body))
        /\ \A k \in 1..Len(body), s \in ScansOf(WordsOf(body)) :
             ScanLine(body, s, Order(body)[k]) \in ScansOf(WordsOf(body))
    <2>1. Order(body) \in [1..Len(body) -> Nat]
      BY DEF Order
    <2>2. Len(Order(body)) = Len(body)
      BY <2>1, IsSequence
    <2> QED
      BY <2>2, ScanLineType DEF Order, Scan, ScansOf, NoFence
  <1>1. n \in Nat /\ DOMAIN Order(body) = 1..n /\ StepsIn(ScansOf(WordsOf(body)), n, Scan, F)
    BY <1>0 DEF StepsIn
  <1>2. PICK g, p : IsFold(ScansOf(WordsOf(body)), n, Scan, F, g, p)
    <2> HIDE DEF F, n
    <2> QED
      BY <1>1, FoldPrefixes
  <1>3. \A t \in SUBSET (1..n) : t # {} => g[t] = ScanLine(body, g[t \ {Max(t)}], Order(body)[Max(t)])
    BY <1>2 DEF IsFold
  <1>4. g = [t \in SUBSET (DOMAIN Order(body)) |->
               IF t = {} THEN Scan ELSE ScanLine(body, g[t \ {Max(t)}], Order(body)[Max(t)])]
    BY <1>1, <1>2, <1>3 DEF IsFold
  <1>5. iter = [t \in SUBSET (DOMAIN Order(body)) |->
                  IF t = {} THEN Scan ELSE ScanLine(body, iter[t \ {Max(t)}], Order(body)[Max(t)])]
    BY <1>4
  <1>6. FoldLeft(LAMBDA s, l : ScanLine(body, s, l), Scan, Order(body)) = iter[1..n]
    BY <1>1 DEF FoldLeft, MapThenFoldSet
  <1> HIDE DEF iter
  <1>7. iter[1..n] = g[1..n]
    <2>1. \A t \in SUBSET (1..n) : t # {} /\ iter[t \ {Max(t)}] = g[t \ {Max(t)}] => iter[t] = g[t]
      BY <1>1, <1>3, <1>5
    <2>2. iter[{}] = g[{}]
      BY <1>1, <1>2, <1>5 DEF IsFold
    <2> HIDE DEF n
    <2> QED
      BY <1>1, <2>1, <2>2, FoldAgrees
  <1>8. \A k \in 1..n : p[k] = ScanLine(body, p[k - 1], Order(body)[k])
    BY <1>2 DEF IsFold
  <1> QED
    BY <1>2, <1>6, <1>7, <1>8 DEF IsFold

LEMMA SectionsType ==
    ASSUME NEW body \in Seq(Lines)
    PROVE  Sections(body) \in Seq(SectionsOf(WordsOf(body)))
  <1> DEFINE W == WordsOf(body)
             n == Len(Order(body))
  <1>1. n \in Nat
    <2>1. Order(body) \in [1..Len(body) -> Nat] /\ Len(body) \in Nat
      BY DEF Order
    <2> QED
      BY <2>1, IsSequence
  <1>2. PICK p \in [0..n -> ScansOf(W)] :
          FoldLeft(LAMBDA s, l : ScanLine(body, s, l), Scan, Order(body)) = p[n]
    BY ScanByPrefixes
  <1>3. p[n] \in ScansOf(W)
    <2> HIDE DEF n
    <2> QED
      BY <1>1
  <1>4. Sections(body) = Flush(p[n]).sections
    BY <1>2 DEF Sections, Order
  <1> HIDE DEF W, n
  <1>5. Flush(p[n]) \in ScansOf(W)
    BY <1>3, FlushType
  <1> QED
    BY <1>4, <1>5 DEF ScansOf, W

LEMMA PushType ==
    ASSUME NEW W, NEW g \in GathersOf(W)
    PROVE  Push(g) \in GathersOf(W) /\ Push(g).text = <<>> /\ Push(g).heading = g.heading
  <1> DEFINE chunk == [heading |-> g.heading, text |-> g.text, words |-> g.words]
             chunks == Append(g.chunks, chunk)
  <1>1. CASE g.text = <<>>
    BY <1>1 DEF Push
  <1>2. CASE g.text # <<>>
    <2>1. chunk \in ChunksIn(W) /\ g.chunks \in Seq(ChunksIn(W))
      BY <1>2 DEF GathersOf, ChunksIn
    <2>2. Push(g) = [g EXCEPT !.chunks = chunks, !.text = <<>>, !.words = 0]
      BY <1>2 DEF Push
    <2> HIDE DEF chunk
    <2>3. chunks \in Seq(ChunksIn(W)) /\ <<>> \in Seq(W)
      BY <2>1
    <2> HIDE DEF chunks
    <2>4. g.heading \in Seq(STRING) /\ Push(g) = [chunks |-> chunks, heading |-> g.heading, text |-> <<>>, words |-> 0]
      BY <2>2 DEF GathersOf
    <2>5. Push(g) \in GathersOf(W)
      BY <2>3, <2>4 DEF GathersOf
    <2> QED
      BY <2>4, <2>5
  <1> QED
    BY <1>1, <1>2

LEMMA SliceType ==
    ASSUME NEW W, NEW text \in Seq(W), NEW a \in Nat, NEW b \in Nat, a <= b, b < Len(text)
    PROVE  SubSeq(text, a + 1, b + 1) \in Seq(W) /\ Len(SubSeq(text, a + 1, b + 1)) = b + 1 - a
  OBVIOUS

(* Every slice has a word, and the words of a slice are counted.           *)
LEMMA SlicesType ==
    ASSUME NEW W, NEW section \in SectionsOf(W)
    PROVE  Slices(section) \in Seq(ChunksIn(W))
  <1> DEFINE n == Len(section.text)
             m == (n + MaxWords - 1) \div MaxWords
             last(i) == IF i * MaxWords < n THEN i * MaxWords ELSE n
             slice(i) == SubSeq(section.text, (i - 1) * MaxWords + 1, last(i))
             chunk(i) == [heading |-> section.heading, text |-> slice(i), words |-> Len(slice(i))]
  <1>1. section.text \in Seq(W) /\ section.heading \in Seq(STRING) /\ n \in Nat
    BY DEF SectionsOf
  <1>2. MaxWords \in Nat \ {0}
    BY ChunkingAssumption
  <1>3. m \in Nat /\ m * MaxWords <= n + MaxWords - 1
    <2> HIDE DEF n
    <2> QED
      BY <1>1, <1>2
  <1>4. ASSUME NEW i \in 1..m PROVE chunk(i) \in ChunksIn(W)
    <2> DEFINE a == (i - 1) * MaxWords
               b == last(i) - 1
    <2>1. a \in Nat /\ b \in Nat /\ a <= b /\ b < n
      <3>0. i \in Nat \ {0} /\ i <= m
        BY <1>3
      <3>1. i * MaxWords <= m * MaxWords /\ i * MaxWords \in Nat /\ m * MaxWords \in Nat
        <4> HIDE DEF m
        <4>1. \A x, y, z \in Nat : x <= y => x * z <= y * z /\ x * z \in Nat /\ y * z \in Nat
          OBVIOUS
        <4> QED
          BY <1>2, <1>3, <3>0, <4>1
      <3>2. a = i * MaxWords - MaxWords /\ a \in Nat
        BY <1>2, <3>0
      <3> DEFINE e == i * MaxWords
      <3>3. a = e - MaxWords /\ e \in Nat /\ e <= n + MaxWords - 1 /\ b = (IF e < n THEN e ELSE n) - 1
        <4> HIDE DEF m, n
        <4> QED
          BY <1>1, <1>2, <1>3, <3>1, <3>2
      <3> HIDE DEF a, b, e, n
      <3> QED
        BY <1>1, <1>2, <3>2, <3>3
    <2>2. slice(i) = SubSeq(section.text, a + 1, b + 1)
      <3>1. last(i) = b + 1
        BY <1>1, <1>2, <1>3
      <3> HIDE DEF last, b
      <3> QED
        BY <3>1
    <2> HIDE DEF a, b
    <2> HIDE DEF slice
    <2>3. slice(i) \in Seq(W) /\ Len(slice(i)) \in Nat /\ Len(slice(i)) > 0
      <3>1. SubSeq(section.text, a + 1, b + 1) \in Seq(W) /\ Len(SubSeq(section.text, a + 1, b + 1)) = b + 1 - a
        BY <1>1, <2>1, SliceType
      <3> QED
        BY <2>1, <2>2, <3>1
    <2>4. slice(i) \in Seq(W) \ {<<>>}
      BY <2>3
    <2> QED
      BY <1>1, <2>3, <2>4 DEF ChunksIn
  <1>5. Slices(section) = [i \in 1..m |-> chunk(i)]
    BY DEF Slices
  <1> HIDE DEF m, chunk
  <1>6. Slices(section) \in [1..m -> ChunksIn(W)]
    BY <1>4, <1>5
  <1> QED
    BY <1>3, <1>6, IsSequence

LEMMA AddSectionType ==
    ASSUME NEW W, NEW g \in GathersOf(W), NEW section \in SectionsOf(W)
    PROVE  AddSection(g, section) \in GathersOf(W)
  <1> DEFINE n == Len(section.text)
             own == [Push(g) EXCEPT !.heading = section.heading, !.text = section.text, !.words = n]
             joined == g.words + (IF g.text = <<>> THEN 0 ELSE 1) + n
             kept == IF g.heading # section.heading \/ joined > MaxWords
                     THEN [Push(g) EXCEPT !.heading = section.heading] ELSE g
  <1>1. section.text \in Seq(W) /\ section.heading \in Seq(STRING) /\ n \in Nat
    BY DEF SectionsOf
  <1>2. Push(g) \in GathersOf(W)
    BY PushType
  <1>3. own \in GathersOf(W)
    BY <1>1, <1>2 DEF GathersOf
  <1>4. kept \in GathersOf(W)
    BY <1>1, <1>2 DEF GathersOf
  <1> HIDE DEF own, n
  <1>5. Push(own) \in GathersOf(W)
    BY <1>3, PushType
  <1>6. [Push(g) EXCEPT !.chunks = Push(g).chunks \o Slices(section)] \in GathersOf(W)
    <2>1. Push(g).chunks \in Seq(ChunksIn(W)) /\ Slices(section) \in Seq(ChunksIn(W))
      BY <1>2, SlicesType DEF GathersOf
    <2>2. Push(g).chunks \o Slices(section) \in Seq(ChunksIn(W))
      BY <2>1
    <2> QED
      BY <1>2, <2>2 DEF GathersOf
  <1>7. [kept EXCEPT !.words = kept.words + (IF kept.text = <<>> THEN 0 ELSE 1) + n,
                     !.text = kept.text \o section.text] \in GathersOf(W)
    <2> HIDE DEF kept
    <2>1. kept.text \in Seq(W) /\ kept.words \in Nat
      BY <1>4 DEF GathersOf
    <2>2. kept.text \o section.text \in Seq(W) /\ kept.words + (IF kept.text = <<>> THEN 0 ELSE 1) + n \in Nat
      BY <1>1, <2>1
    <2> QED
      BY <1>4, <2>2 DEF GathersOf
  <1>8. \/ AddSection(g, section) = Push(own)
        \/ AddSection(g, section) = [Push(g) EXCEPT !.chunks = Push(g).chunks \o Slices(section)]
        \/ AddSection(g, section) =
             [kept EXCEPT !.words = kept.words + (IF kept.text = <<>> THEN 0 ELSE 1) + n,
                          !.text = kept.text \o section.text]
    <2>1. section.atomic \in BOOLEAN
      BY DEF SectionsOf
    <2>2. CASE section.atomic
      BY <2>2 DEF AddSection, own, n
    <2>3. CASE ~section.atomic /\ n > MaxWords
      BY <2>3 DEF AddSection, n
    <2>4. CASE ~section.atomic /\ ~(n > MaxWords)
      BY <2>4 DEF AddSection, n
    <2> QED
      BY <2>2, <2>3, <2>4
  <1> QED
    BY <1>5, <1>6, <1>7, <1>8

(* The second pass by its prefixes. *)
LEMMA ChunksByPrefixes ==
    ASSUME NEW W, NEW sections \in Seq(SectionsOf(W))
    PROVE  \E p \in [0..Len(sections) -> GathersOf(W)] :
             /\ p[0] = Gather
             /\ \A k \in 1..Len(sections) : p[k] = AddSection(p[k - 1], sections[k])
             /\ FoldLeft(AddSection, Gather, sections) = p[Len(sections)]
  <1> DEFINE n == Len(sections)
             F == [k \in 1..n |-> [x \in GathersOf(W) |-> AddSection(x, sections[k])]]
             iter == CHOOSE g : g = [t \in SUBSET (DOMAIN sections) |->
                       IF t = {} THEN Gather ELSE AddSection(g[t \ {Max(t)}], sections[Max(t)])]
  <1>0. /\ Len(sections) \in Nat /\ DOMAIN sections = 1..Len(sections) /\ Gather \in GathersOf(W)
        /\ \A k \in 1..Len(sections), g \in GathersOf(W) : AddSection(g, sections[k]) \in GathersOf(W)
    <2>1. Gather \in GathersOf(W)
      BY DEF Gather, GathersOf
    <2> QED
      BY <2>1, AddSectionType
  <1>1. n \in Nat /\ DOMAIN sections = 1..n /\ StepsIn(GathersOf(W), n, Gather, F)
    BY <1>0 DEF StepsIn
  <1>2. PICK g, p : IsFold(GathersOf(W), n, Gather, F, g, p)
    <2> HIDE DEF F, n
    <2> QED
      BY <1>1, FoldPrefixes
  <1>3. \A t \in SUBSET (1..n) : t # {} => g[t] = AddSection(g[t \ {Max(t)}], sections[Max(t)])
    BY <1>2 DEF IsFold
  <1>4. g = [t \in SUBSET (DOMAIN sections) |->
               IF t = {} THEN Gather ELSE AddSection(g[t \ {Max(t)}], sections[Max(t)])]
    BY <1>1, <1>2, <1>3 DEF IsFold
  <1>5. iter = [t \in SUBSET (DOMAIN sections) |->
                  IF t = {} THEN Gather ELSE AddSection(iter[t \ {Max(t)}], sections[Max(t)])]
    BY <1>4
  <1>6. FoldLeft(AddSection, Gather, sections) = iter[1..n]
    BY <1>1 DEF FoldLeft, MapThenFoldSet
  <1> HIDE DEF iter
  <1>7. iter[1..n] = g[1..n]
    <2>1. \A t \in SUBSET (1..n) : t # {} /\ iter[t \ {Max(t)}] = g[t \ {Max(t)}] => iter[t] = g[t]
      BY <1>1, <1>3, <1>5
    <2>2. iter[{}] = g[{}]
      BY <1>1, <1>2, <1>5 DEF IsFold
    <2> HIDE DEF n
    <2> QED
      BY <1>1, <2>1, <2>2, FoldAgrees
  <1>8. \A k \in 1..n : p[k] = AddSection(p[k - 1], sections[k])
    BY <1>2 DEF IsFold
  <1> QED
    BY <1>2, <1>6, <1>7, <1>8 DEF IsFold

(* The chunks of a body have words of that body.                           *)
LEMMA ChunksType ==
    ASSUME NEW body \in Seq(Lines)
    PROVE  /\ Chunks(body) \in Seq(ChunksIn(WordsOf(body)))
           /\ Len(Chunks(body)) \in Nat
           /\ \A n \in 1..Len(Chunks(body)) : Chunks(body)[n].text \in Seq(WordsOf(body)) \ {<<>>}
  <1> DEFINE W == WordsOf(body)
             n == Len(Sections(body))
  <1>1. Sections(body) \in Seq(SectionsOf(W)) /\ n \in Nat
    BY SectionsType
  <1> HIDE DEF W
  <1>2. PICK p \in [0..n -> GathersOf(W)] : FoldLeft(AddSection, Gather, Sections(body)) = p[n]
    BY <1>1, ChunksByPrefixes
  <1>3. p[n] \in GathersOf(W)
    <2> HIDE DEF n
    <2> QED
      BY <1>1
  <1>4. Chunks(body) = Push(p[n]).chunks
    BY <1>2 DEF Chunks
  <1> HIDE DEF n
  <1>5. Push(p[n]) \in GathersOf(W)
    BY <1>3, PushType
  <1>6. Chunks(body) \in Seq(ChunksIn(W))
    BY <1>4, <1>5 DEF GathersOf
  <1>7. \A c \in ChunksIn(W) : c.text \in Seq(W) \ {<<>>}
    BY DEF ChunksIn
  <1> QED
    BY <1>6, <1>7 DEF W

LEMMA AppendType ==
    ASSUME NEW S, NEW s \in Seq(S), NEW x \in S
    PROVE  Append(s, x) \in Seq(S) /\ Len(Append(s, x)) = Len(s) + 1
  OBVIOUS

LEMMA BooleansConcat ==
    ASSUME NEW s \in Seq(BOOLEAN), NEW t \in Seq(BOOLEAN)
    PROVE  /\ Len(s \o t) = Len(s) + Len(t) /\ Len(s) \in Nat /\ Len(t) \in Nat
           /\ \A i \in 1..Len(t) : (s \o t)[Len(s) + i] = t[i]
  <1>1. Len(s \o t) = Len(s) + Len(t) /\ Len(s) \in Nat /\ Len(t) \in Nat
    OBVIOUS
  <1>2. \A i \in 1..Len(t) : (s \o t)[Len(s) + i] = t[i]
    OBVIOUS
  <1> QED
    BY <1>1, <1>2

LEMMA AddWordType ==
    ASSUME NEW body \in Seq(Lines), NEW chars \in Seq(BOOLEAN), NEW w \in WordsOf(body)
    PROVE  AddWord(body, chars, w) \in Seq(BOOLEAN)
  <1> DEFINE m == body[w[1]].words[w[2]]
             solid == [i \in 1..m |-> TRUE]
             before == IF chars = <<>> THEN chars ELSE Append(chars, FALSE)
  <1>1. m \in Nat
    <2>1. PICK l \in 1..Len(body) : \E k \in 1..Len(body[l].words) : w = <<l, k>>
      BY DEF WordsOf
    <2>2. PICK k \in 1..Len(body[l].words) : w = <<l, k>>
      BY <2>1
    <2>3. body[l] \in Lines
      OBVIOUS
    <2>4. body[l].words \in Seq(Nat \ {0})
      BY <2>3 DEF Lines
    <2>5. body[l].words[k] \in Nat \ {0}
      BY <2>4
    <2>6. w[1] = l /\ w[2] = k
      BY <2>2
    <2> QED
      BY <2>5, <2>6
  <1>2. solid \in Seq(BOOLEAN)
    <2> HIDE DEF m
    <2>1. solid \in [1..m -> BOOLEAN]
      OBVIOUS
    <2> HIDE DEF solid
    <2> QED
      BY <1>1, <2>1, IsSequence
  <1>3. before \in Seq(BOOLEAN)
    <2>1. FALSE \in BOOLEAN
      OBVIOUS
    <2>2. Append(chars, FALSE) \in Seq(BOOLEAN)
      BY <2>1, AppendType, Zenon
    <2> QED
      BY <2>2
  <1>4. AddWord(body, chars, w) = before \o solid
    BY DEF AddWord
  <1> HIDE DEF before, solid
  <1> QED
    BY <1>2, <1>3, <1>4

(* The characters of a text by its prefixes. *)
LEMMA CharactersByPrefixes ==
    ASSUME NEW body \in Seq(Lines), NEW text \in Seq(WordsOf(body))
    PROVE  \E p \in [0..Len(text) -> Seq(BOOLEAN)] :
             /\ p[0] = <<>>
             /\ \A k \in 1..Len(text) : p[k] = AddWord(body, p[k - 1], text[k])
             /\ Characters(body, text) = p[Len(text)]
  <1> DEFINE n == Len(text)
             F == [k \in 1..n |-> [x \in Seq(BOOLEAN) |-> AddWord(body, x, text[k])]]
             iter == CHOOSE g : g = [t \in SUBSET (DOMAIN text) |->
                       IF t = {} THEN <<>> ELSE AddWord(body, g[t \ {Max(t)}], text[Max(t)])]
  <1>0. /\ Len(text) \in Nat /\ DOMAIN text = 1..Len(text) /\ <<>> \in Seq(BOOLEAN)
        /\ \A k \in 1..Len(text), c \in Seq(BOOLEAN) : AddWord(body, c, text[k]) \in Seq(BOOLEAN)
    <2>1. Len(text) \in Nat /\ DOMAIN text = 1..Len(text) /\ <<>> \in Seq(BOOLEAN)
      OBVIOUS
    <2>2. \A k \in 1..Len(text) : text[k] \in WordsOf(body)
      OBVIOUS
    <2> QED
      BY <2>1, <2>2, AddWordType
  <1>1. n \in Nat /\ DOMAIN text = 1..n /\ StepsIn(Seq(BOOLEAN), n, <<>>, F)
    BY <1>0 DEF StepsIn
  <1>2. PICK g, p : IsFold(Seq(BOOLEAN), n, <<>>, F, g, p)
    <2> HIDE DEF F, n
    <2> QED
      BY <1>1, FoldPrefixes
  <1>3. \A t \in SUBSET (1..n) : t # {} => g[t] = AddWord(body, g[t \ {Max(t)}], text[Max(t)])
    BY <1>2 DEF IsFold
  <1>4. g = [t \in SUBSET (DOMAIN text) |->
               IF t = {} THEN <<>> ELSE AddWord(body, g[t \ {Max(t)}], text[Max(t)])]
    BY <1>1, <1>2, <1>3 DEF IsFold
  <1>5. iter = [t \in SUBSET (DOMAIN text) |->
                  IF t = {} THEN <<>> ELSE AddWord(body, iter[t \ {Max(t)}], text[Max(t)])]
    BY <1>4
  <1>6. Characters(body, text) = iter[1..n]
    BY <1>1 DEF Characters, FoldLeft, MapThenFoldSet
  <1> HIDE DEF iter
  <1>7. iter[1..n] = g[1..n]
    <2>1. \A t \in SUBSET (1..n) : t # {} /\ iter[t \ {Max(t)}] = g[t \ {Max(t)}] => iter[t] = g[t]
      BY <1>1, <1>3, <1>5
    <2>2. iter[{}] = g[{}]
      BY <1>1, <1>2, <1>5 DEF IsFold
    <2> HIDE DEF n
    <2> QED
      BY <1>1, <2>1, <2>2, FoldAgrees
  <1>8. \A k \in 1..n : p[k] = AddWord(body, p[k - 1], text[k])
    BY <1>2 DEF IsFold
  <1> QED
    BY <1>2, <1>6, <1>7, <1>8 DEF IsFold

LEMMA CharactersType ==
    ASSUME NEW body \in Seq(Lines), NEW text \in Seq(WordsOf(body))
    PROVE  Characters(body, text) \in Seq(BOOLEAN)
  <1> DEFINE n == Len(text)
  <1>1. n \in Nat
    OBVIOUS
  <1>2. PICK p \in [0..n -> Seq(BOOLEAN)] : Characters(body, text) = p[n]
    BY CharactersByPrefixes
  <1> HIDE DEF n
  <1> QED
    BY <1>1, <1>2

LEMMA TokenCountType ==
    ASSUME NEW chars \in Seq(BOOLEAN)
    PROVE  TokenCount(chars) \in 0..Len(chars)
  <1> DEFINE I == {i \in 1..Len(chars) : chars[i]}
  <1>1. Len(chars) \in Nat /\ IsFiniteSet(1..Len(chars)) /\ Cardinality(1..Len(chars)) = Len(chars)
    <2>1. Len(chars) \in Nat
      OBVIOUS
    <2> QED
      BY <2>1, FS_Interval
  <1>2. IsFiniteSet(I) /\ Cardinality(I) <= Len(chars) /\ Cardinality(I) \in Nat
    <2>1. I \in SUBSET (1..Len(chars))
      OBVIOUS
    <2> HIDE DEF I
    <2> QED
      BY <1>1, <2>1, FS_Subset, FS_CardinalityType
  <1> QED
    BY <1>1, <1>2 DEF TokenCount

LEMMA MinOf ==
    ASSUME NEW S, S \subseteq Nat, S # {}
    PROVE  Min(S) \in S /\ \A x \in S : Min(S) <= x
  BY LeastNumber DEF Min

(* The binary search finds a prefix that fits, and at least one character  *)
(* always does.                                                            *)
LEMMA FittingType ==
    ASSUME NEW candidate \in Seq(BOOLEAN), candidate # <<>>
    PROVE  /\ Fitting(candidate) \in 1..Len(candidate)
           /\ TokenCount(SubSeq(candidate, 1, Fitting(candidate))) <= MaxTokens
  <1> DEFINE n == Len(candidate)
             fits(k) == TokenCount(SubSeq(candidate, 1, k)) <= MaxTokens
             middle(x) == x[1] + (x[2] - x[1]) \div 2
             S == (1..(n + 1)) \X (0..n)
             stop == {x \in S : x[1] > x[2]}
             base == [x \in S |-> x[1] - 1]
             next == [x \in S |-> IF x[1] > x[2] THEN x
                                  ELSE IF fits(middle(x)) THEN <<middle(x) + 1, x[2]>>
                                  ELSE <<x[1], middle(x) - 1>>]
             F == [x \in S |-> [a \in 0..n |-> a]]
             measure == [x \in S |-> IF x[1] > x[2] THEN 0 ELSE x[2] - x[1] + 1]
             search == CHOOSE f : f =
               [range \in S |->
                 IF range[1] > range[2] THEN range[1] - 1
                 ELSE IF fits(middle(range)) THEN f[<<middle(range) + 1, range[2]>>]
                 ELSE f[<<range[1], middle(range) - 1>>]]
  <1>1. n \in Nat \ {0} /\ MaxTokens \in Nat \ {0}
    BY ChunkingAssumption
  <1>2. \A x \in S : x[1] \in 1..(n + 1) /\ x[2] \in 0..n /\ x = <<x[1], x[2]>>
    OBVIOUS
  <1>3. fits(0) /\ fits(1)
    <2>1. SubSeq(candidate, 1, 0) \in Seq(BOOLEAN) /\ Len(SubSeq(candidate, 1, 0)) = 0
      BY <1>1
    <2>2. SubSeq(candidate, 1, 1) \in Seq(BOOLEAN) /\ Len(SubSeq(candidate, 1, 1)) = 1
      BY <1>1
    <2>3. TokenCount(SubSeq(candidate, 1, 0)) \in 0..0 /\ TokenCount(SubSeq(candidate, 1, 1)) \in 0..1
      BY <2>1, <2>2, TokenCountType
    <2> QED
      BY <1>1, <2>3
  <1> HIDE DEF n, fits
  <1>4. ASSUME NEW x \in S, ~(x[1] > x[2])
        PROVE  middle(x) \in x[1]..x[2] /\ middle(x) \in 1..n /\ x[1] \in 1..n /\ x[2] \in 1..n
    BY <1>1, <1>2, <1>4
  <1>5. Fitting(candidate) = search[<<1, n>>]
    BY DEF Fitting, fits, n
  <1>6. /\ base \in [S -> 0..n] /\ F \in [S -> [0..n -> 0..n]] /\ measure \in [S -> 0..n] /\ next \in [S -> S]
        /\ \A x \in S \ stop : measure[next[x]] < measure[x]
    <2>1. ASSUME NEW x \in S
          PROVE  /\ x[1] - 1 \in 0..n /\ measure[x] \in 0..n /\ next[x] \in S
                 /\ x \notin stop => measure[next[x]] < measure[x]
      <3>1. CASE x[1] > x[2]
        BY <1>1, <1>2, <3>1
      <3>2. CASE ~(x[1] > x[2])
        <4> DEFINE a == x[1]
                   b == x[2]
                   m == middle(x)
        <4>1. a \in 1..n /\ b \in 1..n /\ m \in 1..n /\ a <= m /\ m <= b /\ a <= b
          BY <1>1, <1>2, <1>4, <3>2
        <4>2. measure[x] = b - a + 1
          BY <3>2
        <4>3. CASE fits(m)
          <5>1. next[x] = <<m + 1, b>>
            BY <3>2, <4>3
          <5> HIDE DEF a, b, m
          <5>2. <<m + 1, b>> \in S /\ measure[<<m + 1, b>>] = IF m + 1 > b THEN 0 ELSE b - (m + 1) + 1
            BY <1>1, <4>1
          <5> HIDE DEF measure, next, S
          <5>3. a - 1 \in 0..n /\ b - a + 1 \in 0..n /\ measure[<<m + 1, b>>] < b - a + 1
            BY <1>1, <4>1, <5>2
          <5> QED
            BY <4>2, <5>1, <5>2, <5>3 DEF a
        <4>4. CASE ~fits(m)
          <5>1. next[x] = <<a, m - 1>>
            BY <3>2, <4>4
          <5> HIDE DEF a, b, m
          <5>2. <<a, m - 1>> \in S /\ measure[<<a, m - 1>>] = IF a > m - 1 THEN 0 ELSE m - 1 - a + 1
            BY <1>1, <4>1
          <5> HIDE DEF measure, next, S
          <5>3. a - 1 \in 0..n /\ b - a + 1 \in 0..n /\ measure[<<a, m - 1>>] < b - a + 1
            BY <1>1, <4>1, <5>2
          <5> QED
            BY <4>2, <5>1, <5>2, <5>3 DEF a
        <4> QED
          BY <4>3, <4>4
      <3> QED
        BY <3>1, <3>2
    <2> QED
      BY <2>1
  <1> HIDE DEF search
  <1>7. PICK f : Recursion(S, 0..n, stop, base, next, F, f)
    <2> HIDE DEF S, stop, base, next, F, measure
    <2> QED
      BY <1>1, <1>6, RecursionExists
  <1>8. f \in [S -> 0..n] /\ \A x \in S : f[x] = IF x \in stop THEN base[x] ELSE f[next[x]]
    BY <1>6, <1>7 DEF Recursion
  <1>9. ASSUME NEW x \in S
        PROVE  f[x] = IF x[1] > x[2] THEN x[1] - 1
                      ELSE IF fits(middle(x)) THEN f[<<middle(x) + 1, x[2]>>] ELSE f[<<x[1], middle(x) - 1>>]
    BY <1>8
  <1>10. \A x \in S : search[x] = IF x[1] > x[2] THEN x[1] - 1
                      ELSE IF fits(middle(x)) THEN search[<<middle(x) + 1, x[2]>>] ELSE search[<<x[1], middle(x) - 1>>]
    <2>1. f = [range \in S |->
                 IF range[1] > range[2] THEN range[1] - 1
                 ELSE IF fits(middle(range)) THEN f[<<middle(range) + 1, range[2]>>]
                 ELSE f[<<range[1], middle(range) - 1>>]]
      BY <1>8, <1>9
    <2>2. search = [range \in S |->
                 IF range[1] > range[2] THEN range[1] - 1
                 ELSE IF fits(middle(range)) THEN search[<<middle(range) + 1, range[2]>>]
                 ELSE search[<<range[1], middle(range) - 1>>]]
      BY <2>1 DEF search
    <2> QED
      BY <2>2
  <1> DEFINE Good(x) == x[1] <= x[2] + 1 /\ fits(x[1] - 1) =>
                          /\ search[x] \in (x[1] - 1)..x[2] /\ fits(search[x])
                          /\ x[2] >= 1 => search[x] >= 1
             T == {x \in S : Good(x)}
  <1>11. ASSUME NEW x \in S, \A y \in S : measure[y] < measure[x] => y \in T PROVE x \in T
    <2> SUFFICES ASSUME x[1] <= x[2] + 1, fits(x[1] - 1)
                 PROVE  /\ search[x] \in (x[1] - 1)..x[2] /\ fits(search[x])
                        /\ x[2] >= 1 => search[x] >= 1
      OBVIOUS
    <2>1. CASE x[1] > x[2]
      <3>1. search[x] = x[1] - 1
        BY <1>10, <2>1
      <3> QED
        BY <1>1, <1>2, <2>1, <3>1
    <2>2. CASE ~(x[1] > x[2])
      <3> DEFINE a == x[1]
                 b == x[2]
                 m == middle(x)
      <3>1. a \in 1..n /\ b \in 1..n /\ m \in 1..n /\ a <= m /\ m <= b /\ a <= b
        BY <1>1, <1>2, <1>4, <2>2
      <3>2. next[x] \in T
        <4>1. x \notin stop
          BY <2>2
        <4> HIDE DEF next, measure, T, stop
        <4> QED
          BY <1>6, <1>11, <4>1
      <3>3. CASE fits(m)
        <4>1. next[x] = <<m + 1, b>> /\ search[x] = search[<<m + 1, b>>]
          BY <1>10, <2>2, <3>3
        <4> HIDE DEF a, b, m
        <4>2. m + 1 <= b + 1 /\ m + 1 - 1 = m
          BY <3>1
        <4>3. search[x] \in m..b /\ fits(search[x]) /\ search[x] >= 1
          <5> DEFINE y == <<m + 1, b>>
          <5>1. y[1] = m + 1 /\ y[2] = b /\ y[1] - 1 = m
            BY <3>1
          <5>2. Good(y)
            BY <3>2, <4>1
          <5> HIDE DEF y
          <5>3. search[y] \in (y[1] - 1)..y[2] /\ fits(search[y]) /\ (y[2] >= 1 => search[y] >= 1)
            BY <3>3, <4>2, <5>1, <5>2
          <5> QED
            BY <3>1, <4>1, <5>1, <5>3 DEF y
        <4>4. search[x] \in (a - 1)..b
          BY <3>1, <4>3
        <4> QED
          BY <4>3, <4>4 DEF a, b
      <3>4. CASE ~fits(m)
        <4>1. next[x] = <<a, m - 1>> /\ search[x] = search[<<a, m - 1>>]
          BY <1>10, <2>2, <3>4
        <4>2. fits(a - 1)
          OBVIOUS
        <4> HIDE DEF a, b, m
        <4>3. m - 1 >= 1 /\ a <= m - 1 + 1
          BY <1>3, <3>1, <3>4
        <4>4. search[x] \in (a - 1)..(m - 1) /\ fits(search[x]) /\ search[x] >= 1
          <5> DEFINE y == <<a, m - 1>>
          <5>1. y[1] = a /\ y[2] = m - 1
            OBVIOUS
          <5>2. Good(y)
            BY <3>2, <4>1
          <5> HIDE DEF y
          <5>3. search[y] \in (y[1] - 1)..y[2] /\ fits(search[y]) /\ (y[2] >= 1 => search[y] >= 1)
            BY <4>2, <4>3, <5>1, <5>2
          <5> QED
            BY <4>1, <4>3, <5>1, <5>3 DEF y
        <4>5. search[x] \in (a - 1)..b
          BY <3>1, <4>4
        <4> QED
          BY <4>4, <4>5 DEF a, b
      <3> QED
        BY <3>3, <3>4
    <2> QED
      BY <2>1, <2>2
  <1>12. <<1, n>> \in S /\ <<1, n>> \in T
    <2>1. <<1, n>> \in S
      BY <1>1
    <2>2. measure \in [S -> Nat]
      BY <1>6
    <2> HIDE DEF S, T, measure
    <2>3. S \subseteq T
      BY <1>11, <2>2, MeasureInduction
    <2> QED
      BY <2>1, <2>3
  <1>13. search[<<1, n>>] \in 1..n /\ fits(search[<<1, n>>])
    BY <1>1, <1>3, <1>12
  <1> QED
    BY <1>5, <1>13 DEF n, fits

(* The characters that are no white space, among some places. *)
Solids(chars, S) == {i \in S : chars[i]}

(* To count in a part of a text is to count in its places. *)
LEMMA CountWithin ==
    ASSUME NEW chars \in Seq(BOOLEAN), NEW a \in 1..Len(chars), NEW b \in a..Len(chars)
    PROVE  /\ SubSeq(chars, a, b) \in Seq(BOOLEAN) /\ Len(SubSeq(chars, a, b)) = b - a + 1
           /\ IsFiniteSet(Solids(chars, a..b))
           /\ TokenCount(SubSeq(chars, a, b)) = Cardinality(Solids(chars, a..b))
  <1> DEFINE sub == SubSeq(chars, a, b)
             I == {i \in 1..Len(sub) : sub[i]}
             J == Solids(chars, a..b)
             f == [j \in J |-> j - a + 1]
  <1>1. a \in Nat \ {0} /\ b \in Nat /\ a <= b /\ b <= Len(chars) /\ Len(chars) \in Nat
    OBVIOUS
  <1>2. sub \in Seq(BOOLEAN) /\ Len(sub) = b - a + 1 /\ \A i \in 1..(b - a + 1) : sub[i] = chars[a + i - 1]
    BY <1>1
  <1>3. IsFiniteSet(J)
    <2>1. IsFiniteSet(a..b) /\ J \in SUBSET (a..b)
      BY <1>1, FS_Interval DEF Solids
    <2> HIDE DEF J
    <2> QED
      BY <2>1, FS_Subset
  <1>4. f \in [J -> I]
    <2> SUFFICES ASSUME NEW j \in J PROVE j - a + 1 \in I
      OBVIOUS
    <2>1. j \in a..b /\ chars[j]
      BY DEF Solids
    <2>2. j - a + 1 \in 1..(b - a + 1) /\ a + (j - a + 1) - 1 = j
      BY <1>1, <2>1
    <2>3. sub[j - a + 1] = chars[j]
      BY <1>2, <2>2
    <2> HIDE DEF sub
    <2> QED
      BY <1>2, <2>1, <2>2, <2>3
  <1>5. \A x, y \in J : f[x] = f[y] => x = y
    <2> SUFFICES ASSUME NEW x \in J, NEW y \in J, x - a + 1 = y - a + 1 PROVE x = y
      OBVIOUS
    <2>1. x \in Int /\ y \in Int
      BY DEF Solids
    <2> QED
      BY <1>1, <2>1
  <1>6. \A i \in I : \E j \in J : f[j] = i
    <2> SUFFICES ASSUME NEW i \in I PROVE \E j \in J : f[j] = i
      OBVIOUS
    <2>1. i \in 1..(b - a + 1) /\ sub[i]
      BY <1>2
    <2>2. sub[i] = chars[a + i - 1]
      BY <1>2, <2>1
    <2>3. a + i - 1 \in a..b /\ (a + i - 1) - a + 1 = i
      BY <1>1, <2>1
    <2>4. a + i - 1 \in J
      <3> HIDE DEF sub
      <3> QED
        BY <2>1, <2>2, <2>3 DEF Solids
    <2> QED
      BY <2>3, <2>4
  <1> HIDE DEF I, J, f
  <1>7. ExistsBijection(J, I)
    <2>1. f \in Bijection(J, I)
      BY <1>4, <1>5, <1>6, Fun_IsBij
    <2> QED
      BY <2>1 DEF ExistsBijection
  <1>8. Cardinality(I) = Cardinality(J)
    BY <1>3, <1>7, FS_Bijection
  <1>9. TokenCount(sub) = Cardinality(I)
    BY DEF TokenCount, I
  <1> HIDE DEF sub
  <1> QED
    BY <1>2, <1>3, <1>8, <1>9 DEF J, sub

(* A piece is not empty and ends within the text, and it fits.             *)
LEMMA PieceEndType ==
    ASSUME NEW chars \in Seq(BOOLEAN), NEW from \in 1..Len(chars)
    PROVE  /\ PieceEnd(chars, from)[1] \in from..Len(chars)
           /\ PieceEnd(chars, from)[2] = PieceEnd(chars, from)[1] + 1
           /\ IsFiniteSet(Solids(chars, from..PieceEnd(chars, from)[1]))
           /\ Cardinality(Solids(chars, from..PieceEnd(chars, from)[1])) <= MaxTokens
  <1> DEFINE n == Len(chars)
             reach == from + CharsPerToken * MaxTokens - 1
             last == IF reach < n THEN reach ELSE n
             candidate == SubSeq(chars, from, last)
             fitting == Fitting(candidate)
             maximum == from + fitting - 1
             spaces == {i \in from..maximum : ~chars[i]}
             end == IF spaces = {} THEN maximum ELSE Max(spaces)
  <1>1. n \in Nat /\ from \in Nat \ {0} /\ from <= n
    OBVIOUS
  <1>2. CharsPerToken * MaxTokens \in Nat \ {0}
    <2>1. \A x, y \in Nat \ {0} : x * y \in Nat \ {0}
      OBVIOUS
    <2> QED
      BY <2>1, ChunkingAssumption
  <1>3. last \in from..n
    <2> HIDE DEF n
    <2> QED
      BY <1>1, <1>2
  <1> HIDE DEF last, reach
  <1>4. candidate \in Seq(BOOLEAN) /\ Len(candidate) = last - from + 1
    BY <1>3, CountWithin
  <1>5. fitting \in 1..(last - from + 1) /\ TokenCount(SubSeq(candidate, 1, fitting)) <= MaxTokens
    <2>1. Len(candidate) \in Nat \ {0}
      BY <1>1, <1>3, <1>4
    <2> HIDE DEF candidate
    <2>2. candidate # <<>>
      BY <2>1
    <2> QED
      BY <1>4, <2>2, FittingType
  <1> HIDE DEF fitting
  <1>6. maximum \in from..last /\ maximum \in from..n
    BY <1>1, <1>3, <1>5
  <1>7. SubSeq(candidate, 1, fitting) = SubSeq(chars, from, maximum)
    <2>1. \A i \in 1..fitting : candidate[i] = chars[from + i - 1]
      BY <1>1, <1>3, <1>5
    <2>2. /\ SubSeq(candidate, 1, fitting) \in Seq(BOOLEAN) /\ SubSeq(chars, from, maximum) \in Seq(BOOLEAN)
          /\ Len(SubSeq(candidate, 1, fitting)) = fitting /\ Len(SubSeq(chars, from, maximum)) = fitting
      BY <1>1, <1>3, <1>4, <1>5, <1>6
    <2>3. \A i \in 1..fitting : SubSeq(candidate, 1, fitting)[i] = SubSeq(chars, from, maximum)[i]
      <3> SUFFICES ASSUME NEW i \in 1..fitting
                   PROVE  SubSeq(candidate, 1, fitting)[i] = SubSeq(chars, from, maximum)[i]
        OBVIOUS
      <3>1. SubSeq(candidate, 1, fitting)[i] = candidate[i]
        <4> HIDE DEF candidate
        <4> QED
          BY <1>1, <1>3, <1>4, <1>5
      <3>2. SubSeq(chars, from, maximum)[i] = chars[from + i - 1]
        BY <1>1, <1>3, <1>5, <1>6
      <3> QED
        BY <2>1, <3>1, <3>2
    <2> HIDE DEF candidate, maximum
    <2> QED
      BY <2>2, <2>3, SeqEqual
  <1>8. IsFiniteSet(Solids(chars, from..maximum)) /\ Cardinality(Solids(chars, from..maximum)) <= MaxTokens
    BY <1>5, <1>6, <1>7, CountWithin
  <1> HIDE DEF maximum, candidate
  <1>9. end \in from..maximum
    <2>1. spaces \subseteq 1..n
      BY <1>1, <1>6
    <2>2. spaces # {} => Max(spaces) \in spaces
      <3> HIDE DEF spaces, n
      <3> QED
        BY <1>1, <2>1, MaxOf
    <2> QED
      BY <1>1, <1>6, <2>2
  <1> HIDE DEF end
  <1>10. Solids(chars, from..end) \in SUBSET Solids(chars, from..maximum)
    BY <1>1, <1>6, <1>9 DEF Solids
  <1>11. /\ IsFiniteSet(Solids(chars, from..end))
         /\ Cardinality(Solids(chars, from..end)) <= Cardinality(Solids(chars, from..maximum))
    BY <1>8, <1>10, FS_Subset
  <1>12. Cardinality(Solids(chars, from..end)) <= MaxTokens
    <2>1. Cardinality(Solids(chars, from..end)) \in Nat /\ Cardinality(Solids(chars, from..maximum)) \in Nat
      BY <1>8, <1>11, FS_CardinalityType
    <2> QED
      BY <1>8, <1>11, <2>1, ChunkingAssumption
  <1>13. PieceEnd(chars, from) = <<end, end + 1>>
    BY DEF PieceEnd, end, spaces, maximum, fitting, candidate, last, reach, n
  <1> QED
    BY <1>1, <1>6, <1>9, <1>11, <1>12, <1>13

(* A division of the places from one on: in order, without a loss, and     *)
(* each piece with a character and no more than the limit.                 *)
PlacesIn(chars) == 1..Len(chars)

IsCut(chars, from, ps) ==
    /\ ps \in Seq(SUBSET PlacesIn(chars))
    /\ \A k \in 1..Len(ps) :
         /\ ps[k] # {} /\ \A i \in ps[k] : i >= from
         /\ Cardinality(Solids(chars, ps[k])) \in 1..MaxTokens
    /\ \A i \in PlacesIn(chars) : i >= from /\ chars[i] => \E k \in 1..Len(ps) : i \in ps[k]
    /\ \A j, k \in 1..Len(ps) : j < k => \A x \in ps[j], y \in ps[k] : x < y

LEMMA ConsType ==
    ASSUME NEW S, NEW s \in Seq(S), NEW x \in S
    PROVE  /\ <<x>> \o s \in Seq(S) /\ Len(<<x>> \o s) = Len(s) + 1 /\ Len(s) \in Nat
           /\ (<<x>> \o s)[1] = x
           /\ \A k \in 2..(Len(s) + 1) : (<<x>> \o s)[k] = s[k - 1] /\ k - 1 \in 1..Len(s)
  OBVIOUS

LEMMA ConsCut ==
    ASSUME NEW chars \in Seq(BOOLEAN), NEW from \in Nat, NEW end \in Nat, NEW P \in SUBSET PlacesIn(chars),
           P # {}, \A i \in P : i >= from /\ i <= end, from <= end,
           Cardinality(Solids(chars, P)) \in 1..MaxTokens,
           \A i \in PlacesIn(chars) : i >= from /\ i <= end /\ chars[i] => i \in P,
           NEW rest, IsCut(chars, end + 1, rest)
    PROVE  IsCut(chars, from, <<P>> \o rest)
  <1> DEFINE ps == <<P>> \o rest
  <1>1. rest \in Seq(SUBSET PlacesIn(chars))
    BY DEF IsCut
  <1>2. /\ ps \in Seq(SUBSET PlacesIn(chars)) /\ Len(ps) = Len(rest) + 1 /\ Len(rest) \in Nat /\ ps[1] = P
        /\ \A k \in 2..(Len(rest) + 1) : ps[k] = rest[k - 1] /\ k - 1 \in 1..Len(rest)
    BY <1>1, ConsType
  <1> HIDE DEF ps
  <1>3. PlacesIn(chars) \subseteq Nat
    BY DEF PlacesIn
  <1>4. ASSUME NEW k \in 1..Len(ps)
        PROVE  /\ ps[k] # {} /\ \A i \in ps[k] : i >= from
               /\ Cardinality(Solids(chars, ps[k])) \in 1..MaxTokens
    <2>1. CASE k = 1
      BY <1>2, <2>1
    <2>2. CASE k # 1
      <3>1. k \in 2..(Len(rest) + 1)
        BY <1>2, <2>2
      <3>2. ps[k] = rest[k - 1] /\ k - 1 \in 1..Len(rest)
        BY <1>2, <3>1
      <3>3. /\ ps[k] # {} /\ \A i \in ps[k] : i >= end + 1
            /\ Cardinality(Solids(chars, ps[k])) \in 1..MaxTokens
        BY <3>2 DEF IsCut
      <3>4. \A i \in ps[k] : i \in Nat
        BY <1>2, <1>3, <3>2
      <3>5. \A i \in ps[k] : i >= from
        BY <3>3, <3>4
      <3> QED
        BY <3>3, <3>5
    <2> QED
      BY <2>1, <2>2
  <1>5. ASSUME NEW i \in PlacesIn(chars), i >= from, chars[i] PROVE \E k \in 1..Len(ps) : i \in ps[k]
    <2>0. i \in Nat
      BY <1>3
    <2>1. CASE i <= end
      <3>1. i \in ps[1] /\ 1 \in 1..Len(ps)
        BY <1>2, <1>5, <2>1
      <3> QED
        BY <3>1
    <2>2. CASE ~(i <= end)
      <3>1. i >= end + 1
        BY <2>0, <2>2
      <3>2. PICK k \in 1..Len(rest) : i \in rest[k]
        BY <1>5, <3>1 DEF IsCut
      <3>3. k + 1 \in 2..(Len(rest) + 1) /\ k + 1 - 1 = k /\ k + 1 \in 1..Len(ps)
        BY <1>2
      <3>4. ps[k + 1] = rest[k]
        BY <1>2, <3>3
      <3> QED
        BY <3>2, <3>3, <3>4
    <2> QED
      BY <2>1, <2>2
  <1>6. ASSUME NEW j \in 1..Len(ps), NEW k \in 1..Len(ps), j < k, NEW x \in ps[j], NEW y \in ps[k]
        PROVE  x < y
    <2>1. k \in 2..(Len(rest) + 1)
      BY <1>2, <1>6
    <2>2. ps[k] = rest[k - 1] /\ k - 1 \in 1..Len(rest)
      BY <1>2, <2>1
    <2>3. x \in Nat /\ y \in Nat
      BY <1>2, <1>3
    <2>4. y >= end + 1
      BY <2>2 DEF IsCut
    <2>5. CASE j = 1
      <3>1. x <= end
        BY <1>2, <2>5
      <3> QED
        BY <2>3, <2>4, <3>1
    <2>6. CASE j # 1
      <3>1. j \in 2..(Len(rest) + 1) /\ j - 1 < k - 1
        BY <1>2, <1>6, <2>6
      <3>2. ps[j] = rest[j - 1] /\ j - 1 \in 1..Len(rest)
        BY <1>2, <3>1
      <3> QED
        BY <2>2, <3>1, <3>2 DEF IsCut
    <2> QED
      BY <2>5, <2>6
  <1>7. IsCut(chars, from, ps)
    BY <1>2, <1>4, <1>5, <1>6 DEF IsCut
  <1> QED
    BY <1>7 DEF ps

(* Every text is divided well. *)
LEMMA PiecesDivide ==
    ASSUME NEW chars \in Seq(BOOLEAN), \E i \in PlacesIn(chars) : chars[i]
    PROVE  IsCut(chars, 1, Pieces(chars))
  <1> DEFINE n == Len(chars)
             S == 1..(n + 1)
             A == Seq(SUBSET PlacesIn(chars))
             Solid(X) == {i \in X : chars[i]}
             Trimmed(from, end) == IF Solid(from..end) = {} THEN {}
                                   ELSE Min(Solid(from..end))..Max(Solid(from..end))
             start(from) == Min(Solid(from..n))
             piece(from) == PieceEnd(chars, start(from))
             trim(from) == Trimmed(start(from), piece(from)[1])
             stop == {x \in S : Solid(x..n) = {}}
             base == [x \in S |-> <<>>]
             next == [x \in S |-> IF x \in stop THEN x ELSE piece(x)[2]]
             F == [x \in S |-> [a \in A |-> IF x \in stop THEN a ELSE <<trim(x)>> \o a]]
             measure == [x \in S |-> n + 1 - x]
             cut == CHOOSE f : f =
               [from \in S |-> IF Solid(from..n) = {} THEN <<>>
                               ELSE <<trim(from)>> \o f[piece(from)[2]]]
  <1>1. n \in Nat /\ MaxTokens \in Nat \ {0}
    BY ChunkingAssumption
  <1>2. Pieces(chars) = IF TokenCount(chars) <= MaxTokens THEN <<1..n>> ELSE cut[1]
    BY DEF Pieces
  <1>3. ASSUME NEW x \in S, x \notin stop
        PROVE  /\ start(x) \in x..n /\ piece(x)[1] \in start(x)..n /\ piece(x)[2] = piece(x)[1] + 1
               /\ piece(x)[2] \in S /\ piece(x)[2] > x
               /\ trim(x) \in SUBSET PlacesIn(chars) /\ trim(x) # {}
               /\ \A i \in trim(x) : i >= x /\ i <= piece(x)[1]
               /\ Cardinality(Solids(chars, trim(x))) \in 1..MaxTokens
               /\ \A i \in PlacesIn(chars) : i >= x /\ i <= piece(x)[1] /\ chars[i] => i \in trim(x)
    <2> DEFINE a == start(x)
               e == piece(x)[1]
    <2>1. Solid(x..n) # {} /\ Solid(x..n) \subseteq Nat
      BY <1>3
    <2>2. a \in Solid(x..n) /\ \A i \in Solid(x..n) : a <= i
      <3> HIDE DEF n, Solid
      <3> QED
        BY <2>1, MinOf
    <2>3. a \in x..n /\ a \in 1..n /\ chars[a] /\ a \in Nat \ {0} /\ x \in Nat \ {0}
      BY <1>1, <2>2
    <2> HIDE DEF a
    <2>4. /\ e \in a..n /\ piece(x)[2] = e + 1
          /\ IsFiniteSet(Solids(chars, a..e)) /\ Cardinality(Solids(chars, a..e)) <= MaxTokens
      BY <2>3, PieceEndType DEF a
    <2> HIDE DEF e
    <2>5. e \in Nat /\ e <= n /\ a <= e /\ e \in 1..n
      BY <1>1, <2>3, <2>4
    <2> DEFINE X == Solid(a..e)
    <2>6. X = Solids(chars, a..e) /\ X \subseteq 1..n /\ X # {} /\ a \in X /\ X \subseteq Nat
      BY <1>1, <2>3, <2>5 DEF Solids
    <2>7. trim(x) = Min(X)..Max(X)
      BY <2>6 DEF a, e
    <2>8. Min(X) \in X /\ Max(X) \in X /\ \A i \in X : Min(X) <= i /\ i <= Max(X)
      <3> HIDE DEF X, n
      <3> QED
        BY <1>1, <2>6, MinOf, MaxOf
    <2>9. /\ Min(X) \in Nat \ {0} /\ Min(X) >= a /\ Max(X) \in Nat /\ Max(X) <= e
          /\ Min(X) <= Max(X) /\ Min(X) >= x
      BY <2>3, <2>5, <2>8
    <2>10. Solids(chars, Min(X)..Max(X)) = X
      <3>1. ASSUME NEW i \in X PROVE i \in Min(X)..Max(X)
        <4>1. i \in Nat /\ Min(X) <= i /\ i <= Max(X)
          BY <2>6, <2>8
        <4> HIDE DEF X
        <4> QED
          BY <2>9, <4>1
      <3>2. ASSUME NEW i \in Min(X)..Max(X) PROVE i \in a..e
        <4> HIDE DEF X
        <4> QED
          BY <2>3, <2>5, <2>9
      <3> QED
        BY <3>1, <3>2 DEF Solids
    <2>11. Cardinality(X) \in 1..MaxTokens
      <3>1. Cardinality(X) \in Nat /\ Cardinality(X) # 0
        <4> HIDE DEF X
        <4> QED
          BY <2>4, <2>6, FS_CardinalityType, FS_EmptySet
      <3>2. Cardinality(X) <= MaxTokens
        <4> HIDE DEF X
        <4> QED
          BY <2>4, <2>6
      <3> HIDE DEF X
      <3> QED
        BY <1>1, <3>1, <3>2
    <2>12. \A i \in Min(X)..Max(X) : i \in PlacesIn(chars) /\ i >= x /\ i <= e
      <3> HIDE DEF X
      <3> QED
        BY <1>1, <2>3, <2>5, <2>9 DEF PlacesIn
    <2>13. Min(X)..Max(X) # {}
      <3> HIDE DEF X
      <3>1. Min(X) \in Min(X)..Max(X)
        BY <2>9
      <3> QED
        BY <3>1
    <2>14. ASSUME NEW i \in PlacesIn(chars), i >= x, i <= e, chars[i] PROVE i \in Min(X)..Max(X)
      <3>1. i \in Nat /\ i \in Solid(x..n)
        BY <1>1, <2>3, <2>5, <2>14 DEF PlacesIn
      <3>2. a <= i
        BY <2>2, <3>1 DEF a
      <3>3. i \in X
        BY <2>3, <2>5, <2>14, <3>1, <3>2
      <3>4. Min(X) <= i /\ i <= Max(X)
        BY <2>8, <3>3
      <3> HIDE DEF X
      <3> QED
        BY <2>9, <3>1, <3>4
    <2>15. e + 1 \in S /\ e + 1 > x
      BY <1>1, <2>3, <2>5
    <2> HIDE DEF X, S, trim, piece, start
    <2> QED
      BY <2>3, <2>4, <2>7, <2>10, <2>11, <2>12, <2>13, <2>14, <2>15 DEF a, e
  <1> HIDE DEF trim, piece
  <1>4. /\ base \in [S -> A] /\ next \in [S -> S] /\ measure \in [S -> 0..n] /\ F \in [S -> [A -> A]]
        /\ \A x \in S \ stop : measure[next[x]] < measure[x]
    <2>1. <<>> \in A
      OBVIOUS
    <2>2. ASSUME NEW x \in S, NEW s \in A PROVE F[x][s] \in A
      <3>1. CASE x \in stop
        BY <3>1
      <3>2. CASE x \notin stop
        <4>1. trim(x) \in SUBSET PlacesIn(chars)
          BY <1>3, <3>2
        <4>2. <<trim(x)>> \o s \in A
          <5> HIDE DEF stop, S
          <5> QED
            BY <4>1, ConsType
        <4> HIDE DEF A
        <4> QED
          BY <3>2, <4>2
      <3> QED
        BY <3>1, <3>2
    <2>3. F \in [S -> [A -> A]]
      <3>1. \A x \in S : F[x] = [a \in A |-> F[x][a]]
        OBVIOUS
      <3>2. DOMAIN F = S /\ F = [x \in S |-> F[x]]
        OBVIOUS
      <3> HIDE DEF F, A, S
      <3> QED
        BY <2>2, <3>1, <3>2
    <2>4. ASSUME NEW x \in S PROVE next[x] \in S /\ (x \notin stop => next[x] = piece(x)[2] /\ next[x] > x)
      <3>1. CASE x \in stop
        BY <3>1
      <3>2. CASE x \notin stop
        BY <1>3, <3>2
      <3> QED
        BY <3>1, <3>2
    <2>5. next \in [S -> S]
      BY <2>4
    <2>6. measure \in [S -> 0..n] /\ \A x \in S : measure[x] = n + 1 - x
      BY <1>1
    <2>7. \A x \in S \ stop : measure[next[x]] < measure[x]
      <3> SUFFICES ASSUME NEW x \in S, x \notin stop PROVE measure[next[x]] < measure[x]
        OBVIOUS
      <3>1. next[x] \in S /\ next[x] > x
        BY <2>4
      <3> HIDE DEF measure, next, stop
      <3> QED
        BY <1>1, <2>6, <3>1
    <2> QED
      BY <2>1, <2>3, <2>5, <2>6, <2>7
  <1> HIDE DEF cut
  <1>5. PICK f : Recursion(S, A, stop, base, next, F, f)
    <2> HIDE DEF S, A, stop, base, next, F, measure, n
    <2> QED
      BY <1>1, <1>4, RecursionExists
  <1>6. \A x \in S : cut[x] = IF x \in stop THEN <<>> ELSE <<trim(x)>> \o cut[piece(x)[2]]
    <2>1. f \in [S -> A] /\ \A x \in S : f[x] = IF x \in stop THEN base[x] ELSE F[x][f[next[x]]]
      <3> HIDE DEF S, A, stop, base, next, F
      <3> QED
        BY <1>5 DEF Recursion
    <2>2. ASSUME NEW x \in S PROVE f[x] = IF x \in stop THEN <<>> ELSE <<trim(x)>> \o f[piece(x)[2]]
      <3>1. CASE x \in stop
        BY <2>1, <3>1
      <3>2. CASE x \notin stop
        <4>1. next[x] = piece(x)[2] /\ next[x] \in S
          BY <1>3, <3>2
        <4>2. f[next[x]] \in A
          <5> HIDE DEF A, S, next, stop
          <5> QED
            BY <2>1, <4>1
        <4>3. F[x][f[next[x]]] = <<trim(x)>> \o f[next[x]]
          <5> HIDE DEF A, next
          <5> QED
            BY <3>2, <4>2
        <4>4. f[x] = F[x][f[next[x]]]
          <5> HIDE DEF F, next, stop
          <5> QED
            BY <2>1, <3>2
        <4> QED
          BY <3>2, <4>1, <4>3, <4>4
      <3> QED
        BY <3>1, <3>2
    <2>3. f = [from \in S |-> IF Solid(from..n) = {} THEN <<>> ELSE <<trim(from)>> \o f[piece(from)[2]]]
      <3>1. \A x \in S : x \in stop <=> Solid(x..n) = {}
        OBVIOUS
      <3> HIDE DEF S, A, stop, Solid
      <3> QED
        BY <2>1, <2>2, <3>1
    <2>4. cut = [from \in S |-> IF Solid(from..n) = {} THEN <<>> ELSE <<trim(from)>> \o cut[piece(from)[2]]]
      BY <2>3 DEF cut, trim, piece
    <2> QED
      BY <2>4
  <1> DEFINE T == {x \in S : IsCut(chars, x, cut[x])}
  <1>7. ASSUME NEW x \in S, \A y \in S : measure[y] < measure[x] => y \in T PROVE x \in T
    <2>1. CASE x \in stop
      <3>1. cut[x] = <<>>
        BY <1>6, <2>1
      <3>2. ASSUME NEW i \in PlacesIn(chars), i >= x, chars[i] PROVE FALSE
        <4>1. i \in Solid(x..n)
          BY <1>1, <3>2 DEF PlacesIn
        <4> QED
          BY <2>1, <4>1
      <3>3. <<>> \in Seq(SUBSET PlacesIn(chars)) /\ Len(<<>>) = 0
        OBVIOUS
      <3>4. IsCut(chars, x, <<>>)
        BY <3>2, <3>3 DEF IsCut
      <3> QED
        BY <3>1, <3>4
    <2>2. CASE x \notin stop
      <3> DEFINE y == piece(x)[2]
      <3>1. y \in S /\ next[x] = y /\ y = piece(x)[1] + 1
        BY <1>3, <2>2
      <3>2. y \in T
        <4>1. measure[next[x]] < measure[x]
          <5> HIDE DEF measure, next, stop
          <5> QED
            BY <1>4, <2>2
        <4> HIDE DEF measure, next, stop, S, T, y
        <4> QED
          BY <1>7, <3>1, <4>1
      <3>3. IsCut(chars, piece(x)[1] + 1, cut[y])
        BY <3>1, <3>2
      <3>4. cut[x] = <<trim(x)>> \o cut[y]
        BY <1>6, <2>2
      <3>5. /\ x \in Nat /\ piece(x)[1] \in Nat /\ x <= piece(x)[1]
        <4>1. start(x) \in x..n /\ piece(x)[1] \in start(x)..n
          BY <1>3, <2>2
        <4>2. x \in Nat
          OBVIOUS
        <4> HIDE DEF start, n, S
        <4> QED
          BY <1>1, <4>1, <4>2
      <3>6. /\ trim(x) \in SUBSET PlacesIn(chars) /\ trim(x) # {}
            /\ \A i \in trim(x) : i >= x /\ i <= piece(x)[1]
            /\ Cardinality(Solids(chars, trim(x))) \in 1..MaxTokens
            /\ \A i \in PlacesIn(chars) : i >= x /\ i <= piece(x)[1] /\ chars[i] => i \in trim(x)
        BY <1>3, <2>2
      <3> HIDE DEF y
      <3>7. IsCut(chars, x, <<trim(x)>> \o cut[y])
        BY <3>3, <3>5, <3>6, ConsCut
      <3> QED
        BY <3>4, <3>7
    <2> QED
      BY <2>1, <2>2
  <1>8. IsCut(chars, 1, cut[1])
    <2>1. 1 \in S /\ measure \in [S -> Nat]
      BY <1>1
    <2>2. S \subseteq T
      <3> HIDE DEF S, T, measure
      <3> QED
        BY <1>7, <2>1, MeasureInduction
    <2> QED
      BY <2>1, <2>2
  <1>9. ASSUME TokenCount(chars) <= MaxTokens PROVE IsCut(chars, 1, <<1..n>>)
    <2> DEFINE ps == <<1..n>>
    <2>1. ps \in Seq(SUBSET PlacesIn(chars)) /\ Len(ps) = 1 /\ ps[1] = PlacesIn(chars)
      BY DEF PlacesIn
    <2>2. PlacesIn(chars) # {} /\ \A i \in PlacesIn(chars) : i \in Nat /\ i >= 1
      BY DEF PlacesIn
    <2>3. Cardinality(Solids(chars, PlacesIn(chars))) = TokenCount(chars)
      BY DEF Solids, PlacesIn, TokenCount
    <2>4. TokenCount(chars) \in 1..MaxTokens
      <3>1. Solids(chars, PlacesIn(chars)) # {}
        BY DEF Solids
      <3>2. IsFiniteSet(Solids(chars, PlacesIn(chars)))
        <4>1. IsFiniteSet(PlacesIn(chars)) /\ Solids(chars, PlacesIn(chars)) \in SUBSET PlacesIn(chars)
          BY <1>1, FS_Interval DEF PlacesIn, Solids
        <4> QED
          BY <4>1, FS_Subset
      <3>3. Cardinality(Solids(chars, PlacesIn(chars))) \in Nat \ {0}
        BY <3>1, <3>2, FS_CardinalityType, FS_EmptySet
      <3> QED
        BY <1>1, <1>9, <2>3, <3>3
    <2> HIDE DEF ps
    <2>5. IsCut(chars, 1, ps)
      <3>1. \A k \in 1..Len(ps) : k = 1 /\ ps[k] = PlacesIn(chars)
        BY <2>1
      <3>2. 1 \in 1..Len(ps)
        BY <2>1
      <3> QED
        BY <2>1, <2>2, <2>3, <2>4, <3>1, <3>2 DEF IsCut
    <2> QED
      BY <2>5 DEF ps
  <1> QED
    BY <1>2, <1>8, <1>9

(* A text that is not empty has a character: its last word has one.        *)
LEMMA CharactersSolid ==
    ASSUME NEW body \in Seq(Lines), NEW text \in Seq(WordsOf(body)), text # <<>>
    PROVE  \E i \in PlacesIn(Characters(body, text)) : Characters(body, text)[i]
  <1> DEFINE n == Len(text)
             w == text[n]
             m == body[w[1]].words[w[2]]
  <1>1. n \in Nat \ {0} /\ w \in WordsOf(body)
    OBVIOUS
  <1>2. m \in Nat \ {0}
    <2> HIDE DEF w
    <2>1. PICK l \in 1..Len(body) : \E k \in 1..Len(body[l].words) : w = <<l, k>>
      BY <1>1 DEF WordsOf
    <2>2. PICK k \in 1..Len(body[l].words) : w = <<l, k>>
      BY <2>1
    <2>3. body[l] \in Lines
      OBVIOUS
    <2>4. body[l].words \in Seq(Nat \ {0})
      BY <2>3 DEF Lines
    <2>5. body[l].words[k] \in Nat \ {0}
      BY <2>4
    <2>6. w[1] = l /\ w[2] = k
      BY <2>2
    <2> QED
      BY <2>5, <2>6
  <1>3. PICK p \in [0..n -> Seq(BOOLEAN)] :
          /\ \A k \in 1..n : p[k] = AddWord(body, p[k - 1], text[k])
          /\ Characters(body, text) = p[n]
    BY CharactersByPrefixes
  <1> HIDE DEF n
  <1>4. p[n - 1] \in Seq(BOOLEAN) /\ p[n] = AddWord(body, p[n - 1], w)
    BY <1>1, <1>3
  <1> DEFINE before == IF p[n - 1] = <<>> THEN p[n - 1] ELSE Append(p[n - 1], FALSE)
             solid == [i \in 1..m |-> TRUE]
  <1>5. Characters(body, text) = before \o solid
    BY <1>3, <1>4 DEF AddWord
  <1>6. before \in Seq(BOOLEAN)
    <2>1. FALSE \in BOOLEAN
      OBVIOUS
    <2>2. Append(p[n - 1], FALSE) \in Seq(BOOLEAN)
      BY <1>4, <2>1, AppendType, Zenon
    <2> QED
      BY <1>4, <2>2
  <1> HIDE DEF before, w, m
  <1>7. solid \in Seq(BOOLEAN) /\ Len(solid) = m /\ solid[1] = TRUE
    <2>1. solid \in [1..m -> BOOLEAN] /\ solid[1] = TRUE
      BY <1>2
    <2> HIDE DEF solid
    <2> QED
      BY <1>2, <2>1, IsSequence
  <1> HIDE DEF solid
  <1>8. Len(before \o solid) = Len(before) + m /\ (before \o solid)[Len(before) + 1] = solid[1]
    <2>1. /\ Len(before \o solid) = Len(before) + Len(solid)
          /\ \A i \in 1..Len(solid) : (before \o solid)[Len(before) + i] = solid[i]
      BY <1>6, <1>7, BooleansConcat
    <2>2. 1 \in 1..Len(solid)
      BY <1>2, <1>7
    <2> QED
      BY <1>7, <2>1, <2>2
  <1>9. Len(before) + 1 \in 1..Len(before \o solid)
    BY <1>2, <1>6, <1>8
  <1>10. (before \o solid)[Len(before) + 1]
    BY <1>7, <1>8
  <1> QED
    BY <1>5, <1>9, <1>10 DEF PlacesIn

(* The pieces of every chunk of every body: in order, all of its text, and *)
(* none too long for the model.                                            *)
LEMMA ChunkDivides ==
    ASSUME NEW body \in Seq(Lines), NEW n \in 1..Len(Chunks(body)), NEW chars,
           chars = Characters(body, Chunks(body)[n].text)
    PROVE  /\ chars \in Seq(BOOLEAN)
           /\ IsCut(chars, 1, Pieces(chars))
           /\ Len(Pieces(chars)) \in Nat \ {0}
  <1> DEFINE text == Chunks(body)[n].text
  <1>1. text \in Seq(WordsOf(body)) /\ text # <<>>
    BY ChunksType
  <1> HIDE DEF text
  <1>2. chars \in Seq(BOOLEAN) /\ \E i \in PlacesIn(chars) : chars[i]
    BY <1>1, CharactersType, CharactersSolid DEF text
  <1>3. IsCut(chars, 1, Pieces(chars))
    BY <1>2, PiecesDivide
  <1>4. Pieces(chars) \in Seq(SUBSET PlacesIn(chars))
    BY <1>3 DEF IsCut
  <1>5. PICK i \in PlacesIn(chars) : chars[i]
    BY <1>2
  <1>6. PICK k \in 1..Len(Pieces(chars)) : i \in Pieces(chars)[k]
    <2>1. i >= 1
      BY <1>2 DEF PlacesIn
    <2> QED
      BY <1>3, <1>5, <2>1 DEF IsCut
  <1> QED
    BY <1>2, <1>3, <1>4, <1>6

-----------------------------------------------------------------------------
(* Flattened sequences, and the words of a sequence of texts.              *)

IsFlat(W, ss, p) ==
    /\ p \in [0..Len(ss) -> Seq(W)]
    /\ p[0] = <<>>
    /\ \A k \in 1..Len(ss) : p[k] = p[k - 1] \o ss[k]
    /\ FlattenSeq(ss) = p[Len(ss)]

LEMMA FlattenByPrefixes ==
    ASSUME NEW W, NEW ss \in Seq(Seq(W))
    PROVE  \E p : IsFlat(W, ss, p)
  <1> DEFINE n == Len(ss)
             F == [k \in 1..n |-> [x \in Seq(W) |-> x \o ss[k]]]
             flatten == CHOOSE f : f = [i \in 1..n |-> IF i = 1 THEN ss[i] ELSE f[i - 1] \o ss[i]]
  <1>0. n \in Nat /\ \A k \in 1..n : ss[k] \in Seq(W)
    OBVIOUS
  <1>1. <<>> \in Seq(W) /\ \A k \in 1..n, x \in Seq(W) : x \o ss[k] \in Seq(W)
    BY <1>0, ConcatProperties
  <1>2. StepsIn(Seq(W), n, <<>>, F)
    BY <1>0, <1>1 DEF StepsIn
  <1>3. PICK g, p : IsFold(Seq(W), n, <<>>, F, g, p)
    <2> HIDE DEF F, n
    <2> QED
      BY <1>2, FoldPrefixes
  <1>4. /\ p \in [0..n -> Seq(W)] /\ p[0] = <<>>
        /\ \A k \in 1..n : p[k - 1] \in Seq(W) /\ p[k] = p[k - 1] \o ss[k]
    BY <1>3 DEF IsFold
  <1>5. ASSUME n # 0 PROVE FlattenSeq(ss) = p[n]
    <2> DEFINE f == [i \in 1..n |-> p[i]]
    <2>1. \A i \in 1..n : f[i] = IF i = 1 THEN ss[i] ELSE f[i - 1] \o ss[i]
      <3> SUFFICES ASSUME NEW i \in 1..n PROVE f[i] = IF i = 1 THEN ss[i] ELSE f[i - 1] \o ss[i]
        OBVIOUS
      <3>1. CASE i = 1
        <4>1. p[1] = p[0] \o ss[1]
          <5>1. 1 \in 1..n /\ 1 - 1 = 0
            BY <3>1
          <5> QED
            BY <1>4, <5>1
        <4>2. <<>> \o ss[1] = ss[1]
          BY <1>0, <3>1, ConcatEmptySeq
        <4> QED
          BY <1>4, <3>1, <4>1, <4>2
      <3>2. CASE i # 1
        <4>1. i - 1 \in 1..n
          BY <1>0, <3>2
        <4> QED
          BY <1>4, <3>2, <4>1
      <3> QED
        BY <3>1, <3>2
    <2>2. f = [i \in 1..n |-> IF i = 1 THEN ss[i] ELSE f[i - 1] \o ss[i]]
      BY <2>1
    <2>3. flatten = [i \in 1..n |-> IF i = 1 THEN ss[i] ELSE flatten[i - 1] \o ss[i]]
      BY <2>2
    <2>4. FlattenSeq(ss) = flatten[n]
      BY <1>5 DEF FlattenSeq
    <2> HIDE DEF flatten
    <2> DEFINE T == {k \in 0..(n - 1) : flatten[k + 1] = p[k + 1]}
               m == n - 1
    <2>5. 0 \in T
      <3>1. 1 \in 1..n
        BY <1>0, <1>5
      <3>2. flatten[1] = ss[1]
        BY <2>3, <3>1
      <3>3. f[1] = ss[1]
        BY <2>1, <3>1
      <3> QED
        BY <1>0, <1>5, <3>1, <3>2, <3>3
    <2>6. ASSUME NEW k \in 0..(m - 1), k \in T PROVE k + 1 \in T
      <3>1. k + 2 \in 1..n /\ (k + 2) - 1 = k + 1 /\ k + 2 # 1 /\ (k + 1) + 1 = k + 2
        BY <1>0
      <3>2. flatten[k + 2] = flatten[k + 1] \o ss[k + 2]
        BY <2>3, <3>1
      <3>3. p[k + 2] = p[k + 1] \o ss[k + 2]
        BY <1>4, <3>1
      <3>4. flatten[k + 1] = p[k + 1]
        BY <2>6
      <3>5. flatten[k + 2] = p[k + 2]
        BY <3>2, <3>3, <3>4, Zenon
      <3>6. k + 1 \in 0..(n - 1)
        BY <1>0
      <3> HIDE DEF f
      <3> QED
        BY <3>1, <3>5, <3>6
    <2>7. m \in T
      <3> HIDE DEF T
      <3>1. m \in Nat
        BY <1>0, <1>5
      <3>2. \A k \in 0..m : k \in T
        <4> HIDE DEF m
        <4> QED
          BY <2>5, <2>6, <3>1, InductionTo
      <3> QED
        BY <3>1, <3>2, m \in 0..m
    <2> QED
      BY <1>0, <2>4, <2>7
  <1>6. ASSUME n = 0 PROVE FlattenSeq(ss) = p[n]
    <2>1. ss = <<>>
      BY <1>6, EmptySeq
    <2> QED
      BY <1>4, <1>6, <2>1 DEF FlattenSeq
  <1> HIDE DEF n
  <1>7. IsFlat(W, ss, p)
    BY <1>4, <1>5, <1>6 DEF IsFlat, n
  <1> QED
    BY <1>7

(* What the prefixes of a flattened sequence have in common.               *)
LEMMA FlatPrefixesAgree ==
    ASSUME NEW W, NEW ss, NEW tt, NEW p, NEW q, IsFlat(W, ss, p), IsFlat(W, tt, q),
           NEW n \in Nat, n <= Len(ss), n <= Len(tt), Len(ss) \in Nat, Len(tt) \in Nat,
           \A k \in 1..n : ss[k] = tt[k]
    PROVE  p[n] = q[n]
  <1> DEFINE T == {k \in 0..n : p[k] = q[k]}
  <1>1. 0 \in T
    BY DEF IsFlat
  <1>2. ASSUME NEW k \in 0..(n - 1), k \in T PROVE k + 1 \in T
    <2>1. k + 1 \in 1..n /\ k + 1 \in 1..Len(ss) /\ k + 1 \in 1..Len(tt) /\ (k + 1) - 1 = k
      OBVIOUS
    <2>2. p[k + 1] = p[k] \o ss[k + 1] /\ q[k + 1] = q[k] \o tt[k + 1]
      BY <2>1 DEF IsFlat
    <2>3. p[k] = q[k]
      BY <1>2
    <2>4. ss[k + 1] = tt[k + 1]
      BY <2>1
    <2>5. p[k + 1] = q[k + 1]
      BY <2>2, <2>3, <2>4, Zenon
    <2>6. k + 1 \in 0..n
      BY <2>1
    <2> QED
      BY <2>5, <2>6
  <1>3. \A k \in 0..n : k \in T
    <2> HIDE DEF T
    <2> QED
      BY <1>1, <1>2, InductionTo
  <1> QED
    BY <1>3, n \in 0..n

LEMMA FlattenAppend ==
    ASSUME NEW W, NEW ss \in Seq(Seq(W)), NEW t \in Seq(W)
    PROVE  FlattenSeq(ss) \in Seq(W) /\ FlattenSeq(Append(ss, t)) = FlattenSeq(ss) \o t
  <1> DEFINE tt == Append(ss, t)
             n == Len(ss)
  <1>1. /\ n \in Nat /\ tt \in Seq(Seq(W)) /\ Len(tt) = n + 1 /\ tt[n + 1] = t
        /\ \A k \in 1..n : ss[k] = tt[k]
    BY AppendAt, AppendType
  <1>2. PICK p : IsFlat(W, ss, p)
    BY FlattenByPrefixes
  <1> HIDE DEF tt
  <1>3. PICK q : IsFlat(W, tt, q)
    BY <1>1, FlattenByPrefixes
  <1>4. p[n] = q[n]
    <2>1. n <= Len(tt) /\ n <= Len(ss) /\ Len(tt) \in Nat /\ Len(ss) \in Nat
      BY <1>1
    <2>2. \A k \in 1..n : ss[k] = tt[k]
      BY <1>1
    <2>3. n \in Nat /\ IsFlat(W, ss, p) /\ IsFlat(W, tt, q)
      BY <1>1, <1>2, <1>3
    <2> HIDE DEF n
    <2> QED
      BY <2>1, <2>2, <2>3, FlatPrefixesAgree
  <1>5. q[n + 1] = q[n] \o t
    <2>1. n + 1 \in 1..Len(tt) /\ (n + 1) - 1 = n
      BY <1>1
    <2> QED
      BY <1>1, <1>3, <2>1 DEF IsFlat
  <1>6. p[n] \in Seq(W)
    <2>1. p \in [0..n -> Seq(W)]
      BY <1>2 DEF IsFlat
    <2> QED
      BY <1>1, <2>1, n \in 0..n
  <1> QED
    BY <1>1, <1>2, <1>3, <1>4, <1>5, <1>6 DEF IsFlat, tt

(* A text added to texts that are kept one after the other.                *)
Extended(W, cs, n, ds) ==
    /\ n \in Nat /\ DOMAIN cs = 1..n /\ \A k \in 1..n : cs[k].text \in Seq(W)
    /\ DOMAIN ds = 1..(n + 1) /\ \A k \in 1..n : ds[k] = cs[k]
    /\ ds[n + 1].text \in Seq(W)

LongerText(W, cs, n, ds) == TextOf(cs) \in Seq(W) /\ TextOf(ds) = TextOf(cs) \o ds[n + 1].text

LEMMA TextOfAppend ==
    ASSUME NEW W, NEW cs, NEW n, NEW ds, Extended(W, cs, n, ds)
    PROVE  LongerText(W, cs, n, ds)
  <1> DEFINE c == ds[n + 1]
  <1>0. /\ n \in Nat /\ DOMAIN cs = 1..n /\ \A k \in 1..n : cs[k].text \in Seq(W)
        /\ DOMAIN ds = 1..(n + 1) /\ (\A k \in 1..n : ds[k] = cs[k]) /\ ds[n + 1] = c
        /\ c.text \in Seq(W)
    BY DEF Extended
  <1> HIDE DEF c
  <1> DEFINE ss == [k \in DOMAIN cs |-> cs[k].text]
             tt == [k \in DOMAIN ds |-> ds[k].text]
  <1>1. ss \in Seq(Seq(W)) /\ Len(ss) = n
    <2>1. ss \in [1..n -> Seq(W)]
      BY <1>0
    <2> HIDE DEF ss
    <2> QED
      BY <1>0, <2>1, IsSequence
  <1>2. tt \in Seq(Seq(W)) /\ Len(tt) = n + 1 /\ tt[n + 1] = c.text /\ \A k \in 1..n : tt[k] = ss[k]
    <2>1. n + 1 \in Nat /\ n + 1 \in 1..(n + 1) /\ \A k \in 1..(n + 1) : k \in 1..n \/ k = n + 1
      BY <1>0
    <2>2. \A k \in 1..n : k \in 1..(n + 1)
      BY <1>0
    <2>3. tt \in [1..(n + 1) -> Seq(W)] /\ tt[n + 1] = c.text /\ \A k \in 1..n : tt[k] = ss[k]
      BY <1>0, <2>1, <2>2
    <2> HIDE DEF tt
    <2> QED
      BY <2>1, <2>3, IsSequence
  <1>3. tt = Append(ss, c.text)
    <2> HIDE DEF ss, tt
    <2> DEFINE uu == Append(ss, c.text)
    <2>1. uu \in Seq(Seq(W)) /\ Len(uu) = n + 1 /\ uu[n + 1] = c.text /\ \A k \in 1..n : uu[k] = ss[k]
      BY <1>0, <1>1, AppendAt, AppendType
    <2> HIDE DEF uu
    <2>2. \A k \in 1..(n + 1) : tt[k] = uu[k]
      <3>1. \A k \in 1..(n + 1) : k \in 1..n \/ k = n + 1
        BY <1>0
      <3> QED
        BY <1>2, <2>1, <3>1
    <2>3. tt = uu
      BY <1>2, <2>1, <2>2, SeqEqual
    <2> QED
      BY <2>3 DEF uu
  <1> HIDE DEF ss, tt
  <1>4. FlattenSeq(ss) \in Seq(W) /\ FlattenSeq(Append(ss, c.text)) = FlattenSeq(ss) \o c.text
    BY <1>0, <1>1, FlattenAppend
  <1> QED
    BY <1>3, <1>4 DEF LongerText, TextOf, ss, tt, c

LEMMA TextOfNone == TextOf(<<>>) = <<>>
  <1> DEFINE ss == [k \in DOMAIN <<>> |-> <<>>[k].text]
  <1>1. ss = <<>>
    OBVIOUS
  <1> QED
    BY <1>1 DEF TextOf, FlattenSeq

-----------------------------------------------------------------------------
(* Fences.                                                                 *)

Fences == {NoFence, "backtick", "tilde"}

NextFence(before, line) ==
    CASE line.kind = "fence" /\ before = NoFence -> line.mark
      [] line.kind = "fence" /\ before = line.mark -> NoFence
      [] OTHER -> before

LEMMA NextFenceIs ==
    ASSUME NEW before \in Fences, NEW line \in Lines
    PROVE  /\ NextFence(before, line) \in Fences
           /\ line.kind # "fence" => NextFence(before, line) = before
           /\ line.kind = "fence" /\ before = NoFence =>
                NextFence(before, line) = line.mark /\ line.mark # NoFence
           /\ line.kind = "fence" /\ before # NoFence =>
                NextFence(before, line) = IF line.mark = before THEN NoFence ELSE before
  <1>1. line.mark \in {"backtick", "tilde"}
    BY DEF Lines
  <1> QED
    BY <1>1 DEF NextFence, Fences, NoFence

LEMMA FenceIs ==
    ASSUME NEW body \in Seq(Lines)
    PROVE  /\ Len(body) \in Nat
           /\ FenceAt(body) \in [0..Len(body) -> Fences]
           /\ FenceAt(body)[0] = NoFence
           /\ \A l \in 1..Len(body) :
                FenceAt(body)[l - 1] \in Fences /\ FenceAt(body)[l] = NextFence(FenceAt(body)[l - 1], body[l])
  <1> DEFINE n == Len(body)
             F == [k \in 1..n |-> [x \in Fences |-> NextFence(x, body[k])]]
             fence == CHOOSE f : f = [l \in 0..n |->
                        IF l = 0 THEN NoFence
                        ELSE CASE body[l].kind = "fence" /\ f[l - 1] = NoFence -> body[l].mark
                               [] body[l].kind = "fence" /\ f[l - 1] = body[l].mark -> NoFence
                               [] OTHER -> f[l - 1]]
  <1>0. n \in Nat /\ \A k \in 1..n : body[k] \in Lines
    OBVIOUS
  <1>1. StepsIn(Fences, n, NoFence, F)
    <2>1. \A k \in 1..n, x \in Fences : NextFence(x, body[k]) \in Fences
      BY <1>0, NextFenceIs
    <2> QED
      BY <1>0, <2>1 DEF StepsIn, Fences
  <1>2. PICK g, p : IsFold(Fences, n, NoFence, F, g, p)
    <2> HIDE DEF F, n
    <2> QED
      BY <1>1, FoldPrefixes
  <1>3. p \in [0..n -> Fences] /\ p[0] = NoFence
    BY <1>2 DEF IsFold
  <1>4. ASSUME NEW k \in 1..n PROVE p[k - 1] \in Fences /\ p[k] = NextFence(p[k - 1], body[k])
    BY <1>2 DEF IsFold
  <1>5. p = [l \in 0..n |->
               IF l = 0 THEN NoFence
               ELSE CASE body[l].kind = "fence" /\ p[l - 1] = NoFence -> body[l].mark
                      [] body[l].kind = "fence" /\ p[l - 1] = body[l].mark -> NoFence
                      [] OTHER -> p[l - 1]]
    <2>1. ASSUME NEW l \in 0..n
          PROVE  p[l] = IF l = 0 THEN NoFence
                        ELSE CASE body[l].kind = "fence" /\ p[l - 1] = NoFence -> body[l].mark
                               [] body[l].kind = "fence" /\ p[l - 1] = body[l].mark -> NoFence
                               [] OTHER -> p[l - 1]
      <3>1. CASE l = 0
        BY <1>3, <3>1
      <3>2. CASE l # 0
        <4>1. l \in 1..n
          BY <1>0, <3>2
        <4> QED
          BY <1>4, <3>2, <4>1 DEF NextFence
      <3> QED
        BY <3>1, <3>2
    <2> QED
      BY <1>3, <2>1
  <1>6. fence = [l \in 0..n |->
                   IF l = 0 THEN NoFence
                   ELSE CASE body[l].kind = "fence" /\ fence[l - 1] = NoFence -> body[l].mark
                          [] body[l].kind = "fence" /\ fence[l - 1] = body[l].mark -> NoFence
                          [] OTHER -> fence[l - 1]]
    BY <1>5
  <1>7. FenceAt(body) = fence
    BY DEF FenceAt
  <1> HIDE DEF fence
  <1>8. fence[0] = NoFence
    BY <1>0, <1>6, 0 \in 0..n
  <1>9. ASSUME NEW l \in 1..n PROVE fence[l] = NextFence(fence[l - 1], body[l])
    <2>1. l \in 0..n /\ l # 0
      BY <1>0
    <2> QED
      BY <1>6, <2>1 DEF NextFence
  <1>10. \A k \in 0..n : fence[k] = p[k]
    <2> DEFINE T == {k \in 0..n : fence[k] = p[k]}
    <2>1. 0 \in T
      BY <1>0, <1>3, <1>8
    <2>2. ASSUME NEW k \in 0..(n - 1), k \in T PROVE k + 1 \in T
      <3>1. k + 1 \in 1..n /\ (k + 1) - 1 = k /\ k + 1 \in 0..n
        BY <1>0
      <3>2. fence[k + 1] = NextFence(fence[k], body[k + 1])
        BY <1>9, <3>1
      <3>3. p[k + 1] = NextFence(p[k], body[k + 1])
        BY <1>4, <3>1
      <3>4. fence[k] = p[k]
        BY <2>2
      <3>5. fence[k + 1] = p[k + 1]
        BY <3>2, <3>3, <3>4
      <3> QED
        BY <3>1, <3>5
    <2>3. \A k \in 0..n : k \in T
      <3> HIDE DEF T, n
      <3> QED
        BY <1>0, <2>1, <2>2, InductionTo DEF n
    <2> QED
      BY <2>3
  <1>11. fence = [k \in 0..n |-> p[k]]
    BY <1>6, <1>10
  <1>12. fence = p
    BY <1>3, <1>11
  <1> QED
    BY <1>0, <1>3, <1>4, <1>7, <1>12

-----------------------------------------------------------------------------
(* The pieces of a chunk, in the words of PiecesFit.                       *)

LEMMA PiecesFitAlways ==
    ASSUME NEW body \in Seq(Lines)
    PROVE  PiecesFit(body)
  <1> SUFFICES
        ASSUME NEW n \in DOMAIN Chunks(body), NEW chars, NEW pieces,
               chars = Characters(body, Chunks(body)[n].text), pieces = Pieces(chars)
        PROVE  /\ \A i \in 1..Len(chars) :
                    chars[i] => Cardinality({k \in DOMAIN pieces : i \in pieces[k]}) = 1
               /\ \A k \in DOMAIN pieces :
                    /\ Cardinality({i \in pieces[k] : chars[i]}) \in 1..MaxTokens
                    /\ \A j \in 1..(k - 1) : Max(pieces[j]) < Min(pieces[k])
    BY DEF PiecesFit
  <1>1. n \in 1..Len(Chunks(body))
    BY ChunksType
  <1>2. chars \in Seq(BOOLEAN) /\ IsCut(chars, 1, pieces) /\ Len(pieces) \in Nat
    BY <1>1, ChunkDivides
  <1>3. /\ pieces \in Seq(SUBSET PlacesIn(chars)) /\ DOMAIN pieces = 1..Len(pieces)
        /\ \A k \in 1..Len(pieces) :
             /\ pieces[k] # {} /\ pieces[k] \in SUBSET PlacesIn(chars)
             /\ Cardinality(Solids(chars, pieces[k])) \in 1..MaxTokens
        /\ \A i \in PlacesIn(chars) : i >= 1 /\ chars[i] => \E k \in 1..Len(pieces) : i \in pieces[k]
        /\ \A j, k \in 1..Len(pieces) : j < k => \A x \in pieces[j], y \in pieces[k] : x < y
    BY <1>2 DEF IsCut
  <1>4. ASSUME NEW i \in 1..Len(chars), chars[i]
        PROVE  Cardinality({k \in DOMAIN pieces : i \in pieces[k]}) = 1
    <2>1. PICK k \in 1..Len(pieces) : i \in pieces[k]
      <3>1. i \in PlacesIn(chars) /\ i >= 1
        BY DEF PlacesIn
      <3> QED
        BY <1>3, <1>4, <3>1
    <2>2. ASSUME NEW j \in 1..Len(pieces), i \in pieces[j] PROVE j = k
      <3>1. ~(i < i)
        OBVIOUS
      <3>2. ~(j < k) /\ ~(k < j)
        BY <1>3, <2>1, <2>2, <3>1
      <3> QED
        BY <1>2, <3>2
    <2>3. {j \in DOMAIN pieces : i \in pieces[j]} = {k}
      BY <1>3, <2>1, <2>2
    <2> QED
      BY <2>3, FS_Singleton
  <1>5. ASSUME NEW k \in DOMAIN pieces PROVE Cardinality({i \in pieces[k] : chars[i]}) \in 1..MaxTokens
    <2>1. Solids(chars, pieces[k]) = {i \in pieces[k] : chars[i]}
      BY DEF Solids
    <2> QED
      BY <1>3, <2>1
  <1>6. ASSUME NEW k \in DOMAIN pieces, NEW j \in 1..(k - 1)
        PROVE  Max(pieces[j]) < Min(pieces[k])
    <2>1. j \in 1..Len(pieces) /\ k \in 1..Len(pieces) /\ j < k
      BY <1>2, <1>3
    <2>2. Len(chars) \in Nat
      BY <1>2
    <2>3. Max(pieces[j]) \in pieces[j]
      BY <1>3, <2>1, <2>2, MaxOf DEF PlacesIn
    <2>4. Min(pieces[k]) \in pieces[k]
      <3>1. pieces[k] # {} /\ pieces[k] \subseteq Nat
        BY <1>3, <2>1, <2>2 DEF PlacesIn
      <3> QED
        BY <3>1, MinOf
    <2> QED
      BY <1>3, <2>1, <2>3, <2>4
  <1> QED
    BY <1>4, <1>5, <1>6

-----------------------------------------------------------------------------
(* The headings a line is under.                                           *)

Upward(S) == {p \in S \X S : p[1] < p[2]}

LEMMA EarlierIs ==
    ASSUME NEW S, S \subseteq Nat
    PROVE  /\ \A a, b \in S : <<a, b>> \in Upward(S) <=> a < b
           /\ IsOrder(S, Upward(S))
  <1>1. \A a, b \in S : <<a, b>> \in Upward(S) <=> a < b
    BY DEF Upward
  <1> QED
    BY <1>1 DEF IsOrder

(* Numbers chosen by how many are smaller are in their order, and so are   *)
(* numbers that increase.                                                  *)
LEMMA ChosenIncrease ==
    ASSUME NEW S, S \subseteq Nat, IsFiniteSet(S), NEW f,
           f = [i \in 1..Cardinality(S) |-> CHOOSE a \in S : Cardinality({b \in S : b < a}) = i - 1]
    PROVE  InOrder(S, Upward(S), f)
  <1>1. \A a \in S : Preceding(S, Upward(S), a) = {b \in S : b < a}
    BY EarlierIs DEF Preceding
  <1>2. \A k : (CHOOSE a \in S : Cardinality({b \in S : b < a}) = k)
               = (CHOOSE a \in S : Cardinality(Preceding(S, Upward(S), a)) = k)
    BY <1>1
  <1> DEFINE A(k) == CHOOSE a \in S : Cardinality({b \in S : b < a}) = k
             B(k) == CHOOSE a \in S : Cardinality(Preceding(S, Upward(S), a)) = k
  <1>3. f = [i \in 1..Cardinality(S) |->
               CHOOSE a \in S : Cardinality(Preceding(S, Upward(S), a)) = i - 1]
    <2>1. f = [i \in 1..Cardinality(S) |-> A(i - 1)]
      OBVIOUS
    <2>2. \A k : A(k) = B(k)
      BY <1>2
    <2>3. f = [i \in 1..Cardinality(S) |-> B(i - 1)]
      <3> HIDE DEF A, B
      <3> QED
        BY <2>1, <2>2
    <2> QED
      BY <2>3
  <1>4. IsOrder(S, Upward(S))
    BY EarlierIs
  <1> QED
    BY <1>3, <1>4, ChosenIsSorted

LEMMA IncreasingIsInOrder ==
    ASSUME NEW S, S \subseteq Nat, NEW m \in Nat, NEW g \in [1..m -> S],
           \A a \in S : \E i \in 1..m : g[i] = a,
           \A i, j \in 1..m : i < j => g[i] < g[j]
    PROVE  InOrder(S, Upward(S), g)
  <1>1. \A i, j \in 1..m : i < j <=> g[i] < g[j]
    <2> SUFFICES ASSUME NEW i \in 1..m, NEW j \in 1..m, g[i] < g[j] PROVE i < j
      OBVIOUS
    <2>1. g[i] \in Nat /\ g[j] \in Nat /\ i \in Nat /\ j \in Nat
      <3>1. g[i] \in S /\ g[j] \in S
        OBVIOUS
      <3>2. \A a \in S : a \in Nat
        OBVIOUS
      <3>3. g[i] \in Nat /\ g[j] \in Nat
        BY <3>1, <3>2, Zenon
      <3> QED
        BY <3>3
    <2>2. ~(j < i)
      <3>1. j < i => g[j] < g[i]
        OBVIOUS
      <3> QED
        BY <2>1, <3>1
    <2>3. i # j
      BY <2>1
    <2> QED
      BY <2>1, <2>2, <2>3
  <1>2. g \in Bijection(1..m, S)
    <2>1. \A i, j \in 1..m : g[i] = g[j] => i = j
      <3> SUFFICES ASSUME NEW i \in 1..m, NEW j \in 1..m, g[i] = g[j] PROVE i = j
        OBVIOUS
      <3>1. g[i] \in Nat /\ ~(g[i] < g[j]) /\ ~(g[j] < g[i]) /\ i \in Nat /\ j \in Nat
        <4>1. g[i] \in S /\ \A a \in S : a \in Nat
          OBVIOUS
        <4>2. g[i] \in Nat
          BY <4>1, Zenon
        <4> QED
          BY <4>2
      <3> QED
        BY <1>1, <3>1
    <2> QED
      BY <2>1, Fun_IsBij
  <1>3. IsFiniteSet(S) /\ Cardinality(S) = m
    <2>1. ExistsBijection(1..m, S)
      BY <1>2 DEF ExistsBijection
    <2> QED
      BY <2>1, FS_NatBijection, FS_CountingElements
  <1>4. g \in Seq(S) /\ Len(g) = m /\ DOMAIN g = 1..m
    BY IsSequence
  <1>5. \A i, j \in 1..m : i < j <=> <<g[i], g[j]>> \in Upward(S)
    <2>1. \A i \in 1..m : g[i] \in S
      OBVIOUS
    <2> QED
      BY <1>1, <2>1, EarlierIs
  <1> QED
    BY <1>3, <1>4, <1>5 DEF InOrder

(* The largest of some numbers, 0 if there are none. *)
LEMMA MaxOrZero ==
    ASSUME NEW n \in Nat, NEW K, K \subseteq 1..n
    PROVE  Max({0} \cup K) \in 0..n /\ Max({0} \cup K) \in {0} \cup K /\ \A x \in K : x <= Max({0} \cup K)
  <1>1. \E m \in {0} \cup K : \A x \in {0} \cup K : m >= x
    <2>1. CASE K = {}
      BY <2>1
    <2>2. CASE K # {}
      <3>1. Max(K) \in K /\ \A x \in K : x <= Max(K)
        BY <2>2, MaxOf
      <3>2. \A x \in K : x \in Nat
        OBVIOUS
      <3>3. Max(K) \in Nat
        BY <3>1, <3>2, Zenon
      <3>4. \A x \in K : Max(K) >= x
        BY <3>1, <3>2, <3>3
      <3>5. Max(K) >= 0
        BY <3>3
      <3>6. \A x \in {0} \cup K : Max(K) >= x
        BY <3>4, <3>5
      <3> QED
        BY <3>1, <3>6
    <2> QED
      BY <2>1, <2>2
  <1> DEFINE M == {0} \cup K
  <1>2. Max(M) \in M /\ \A x \in M : Max(M) >= x
    <2>1. \E m \in M : \A x \in M : m >= x
      BY <1>1
    <2> HIDE DEF M
    <2> QED
      BY <2>1 DEF Max
  <1>3. (\A x \in M : x \in 0..n) /\ (\A x \in K : x \in M /\ x \in Nat)
    OBVIOUS
  <1> HIDE DEF M
  <1>4. Max(M) \in 0..n /\ \A x \in K : Max(M) >= x
    BY <1>2, <1>3, Zenon
  <1>5. Max(M) \in 0..n /\ Max(M) \in M /\ \A x \in K : x <= Max(M)
    BY <1>2, <1>3, <1>4
  <1> QED
    BY <1>5 DEF M

Places(body, l) ==
    [i \in 1..Cardinality(Open(body, l)) |->
       CHOOSE h \in Open(body, l) : Cardinality({g \in Open(body, l) : g < h}) = i - 1]

Stack(body, l) == [i \in 1..Cardinality(Open(body, l)) |-> body[Places(body, l)[i]]]

LEMMA PlacesInOrder ==
    ASSUME NEW body, NEW l \in Nat
    PROVE  /\ Open(body, l) \subseteq 1..l /\ Cardinality(Open(body, l)) \in Nat
           /\ InOrder(Open(body, l), Upward(Open(body, l)), Places(body, l))
  <1>1. Open(body, l) \subseteq 1..l
    BY DEF Open
  <1>2. IsFiniteSet(Open(body, l)) /\ Open(body, l) \subseteq Nat
    <2>1. IsFiniteSet(1..l)
      BY FS_Interval
    <2> QED
      BY <1>1, <2>1, FS_Subset
  <1> QED
    BY <1>1, <1>2, ChosenIncrease, FS_CardinalityType DEF Places

LEMMA StackPath ==
    ASSUME NEW body, NEW l
    PROVE  HeadingPath(Stack(body, l)) = HeadingsOf(body, l)
  BY DEF HeadingPath, Stack, Places, HeadingsOf

LEMMA StackEmpty ==
    ASSUME NEW body
    PROVE  Stack(body, 0) = <<>>
  <1>1. Open(body, 0) = {}
    BY DEF Open
  <1>2. Cardinality(Open(body, 0)) = 0
    BY <1>1, FS_EmptySet
  <1> QED
    BY <1>2 DEF Stack

(* Only a heading changes what a line is under. *)
LEMMA StackStays ==
    ASSUME NEW body, NEW l \in Nat \ {0}, ~IsHeading(body, l)
    PROVE  Stack(body, l) = Stack(body, l - 1) /\ HeadingsOf(body, l) = HeadingsOf(body, l - 1)
  <1>1. {h \in 1..l : IsHeading(body, h)} = {h \in 1..(l - 1) : IsHeading(body, h)}
    <2>1. \A h : h \in 1..l <=> h \in 1..(l - 1) \/ h = l
      OBVIOUS
    <2> QED
      BY <2>1
  <1>2. Open(body, l) = Open(body, l - 1)
    BY <1>1 DEF Open
  <1> QED
    BY <1>2 DEF Stack, Places, HeadingsOf

LEMMA OpenAtHeading ==
    ASSUME NEW body \in Seq(Lines), NEW l \in 1..Len(body), IsHeading(body, l)
    PROVE  Open(body, l) = {h \in Open(body, l - 1) : body[h].level < body[l].level} \cup {l}
  <1> DEFINE above == {h \in 1..l : IsHeading(body, h)}
             before == {h \in 1..(l - 1) : IsHeading(body, h)}
  <1>1. above = before \cup {l} /\ before \subseteq 1..(l - 1) /\ l \in Nat \ {0}
    <2>1. \A h : h \in 1..l <=> h \in 1..(l - 1) \/ h = l
      OBVIOUS
    <2> QED
      BY <2>1
  <1>2. /\ Open(body, l) = {h \in above : \A g \in above : g > h => body[g].level > body[h].level}
        /\ Open(body, l - 1) = {h \in before : \A g \in before : g > h => body[g].level > body[h].level}
    BY DEF Open
  <1>3. \A h \in above : body[h].level \in Nat
    <2> SUFFICES ASSUME NEW h \in above PROVE body[h].level \in Nat
      OBVIOUS
    <2>1. h \in 1..Len(body)
      OBVIOUS
    <2>2. body[h] \in Lines
      BY <2>1
    <2> QED
      BY <2>2 DEF Lines
  <1> HIDE DEF above, before
  <1>4. \A h \in before : h \in Nat /\ l > h /\ ~(h > l)
    BY <1>1
  <1>5. ~(l > l)
    BY <1>1
  <1>6. \A h \in before : body[l].level > body[h].level <=> body[h].level < body[l].level
    BY <1>1, <1>3
  <1> DEFINE S == Open(body, l - 1)
             level == [h \in above |-> body[h].level]
  <1>7. \A h \in before : h \in S <=> \A g \in before : g > h => level[g] > level[h]
    BY <1>1, <1>2
  <1>8. \A h \in above : h \in Open(body, l) <=> \A g \in above : g > h => level[g] > level[h]
    BY <1>2
  <1>9. \A h \in before : level[l] > level[h] <=> body[h].level < body[l].level
    BY <1>1, <1>6
  <1>10. S \subseteq before /\ Open(body, l) \subseteq above /\ l \in above
    BY <1>1, <1>2
  <1> HIDE DEF S, level
  <1>11. \A h \in before : h \in Open(body, l) <=> h \in S /\ body[h].level < body[l].level
    BY <1>1, <1>4, <1>7, <1>8, <1>9
  <1>12. l \in Open(body, l)
    BY <1>1, <1>4, <1>5, <1>8, <1>10
  <1>13. Open(body, l) = {h \in S : body[h].level < body[l].level} \cup {l}
    BY <1>1, <1>10, <1>11, <1>12
  <1> QED
    BY <1>13 DEF S

(* A heading's turn of the loop. *)
LEMMA StackAtHeading ==
    ASSUME NEW body \in Seq(Lines), NEW l \in 1..Len(body), IsHeading(body, l)
    PROVE  Under(Stack(body, l - 1), body[l]) = Stack(body, l)
  <1> DEFINE S == Open(body, l - 1)
             f == Places(body, l - 1)
             c == Cardinality(S)
             stack == Stack(body, l - 1)
             K == {i \in 1..Len(stack) : stack[i].level < body[l].level}
             J == Max({0} \cup K)
             m == J + 1
             g == [i \in 1..m |-> IF i <= J THEN f[i] ELSE l]
             S1 == Open(body, l)
  <1>1. /\ l \in Nat /\ l - 1 \in Nat /\ S \subseteq 1..(l - 1) /\ c \in Nat
        /\ f \in Seq(S) /\ DOMAIN f = 1..c
        /\ \A i \in 1..c : f[i] \in S /\ f[i] \in 1..(l - 1) /\ f[i] \in 1..l
        /\ \A a \in S : \E i \in 1..c : f[i] = a
        /\ \A i, j \in 1..c : i < j <=> f[i] < f[j]
    <2>1. l \in Nat /\ l - 1 \in Nat
      OBVIOUS
    <2>2. S \subseteq 1..(l - 1) /\ c \in Nat /\ InOrder(S, Upward(S), f)
      BY <2>1, PlacesInOrder
    <2>3. S \subseteq Nat
      BY <2>1, <2>2
    <2> HIDE DEF S, f
    <2>4. /\ f \in Seq(S) /\ DOMAIN f = 1..c
          /\ \A i \in 1..c : f[i] \in S
          /\ \A a \in S : \E i \in 1..c : f[i] = a
          /\ \A i, j \in 1..c : i < j <=> <<f[i], f[j]>> \in Upward(S)
      BY <2>2 DEF InOrder
    <2>5. \A i \in 1..c : f[i] \in 1..(l - 1) /\ f[i] \in 1..l
      <3>1. \A a \in S : a \in 1..(l - 1) /\ a \in 1..l
        BY <2>1, <2>2
      <3> QED
        BY <2>4, <3>1, Zenon
    <2> QED
      BY <2>1, <2>2, <2>3, <2>4, <2>5, EarlierIs
  <1> HIDE DEF S, f, c
  <1>2. ASSUME NEW h \in 1..l PROVE body[h] \in Lines /\ body[h].level \in Nat
    <2>1. h \in 1..Len(body)
      OBVIOUS
    <2>2. body[h] \in Lines
      BY <2>1
    <2> QED
      BY <2>2 DEF Lines
  <1>3. stack \in Seq(Lines) /\ Len(stack) = c /\ \A i \in 1..c : stack[i] = body[f[i]]
    <2>1. stack = [i \in 1..c |-> body[f[i]]]
      BY DEF Stack, c, f, S
    <2>2. \A i \in 1..c : body[f[i]] \in Lines
      BY <1>1, <1>2
    <2> HIDE DEF stack
    <2>3. stack \in [1..c -> Lines]
      BY <2>1, <2>2
    <2> QED
      BY <1>1, <2>1, <2>3, IsSequence
  <1>4. ASSUME NEW i \in 1..c, NEW j \in 1..c, i < j PROVE body[f[i]].level < body[f[j]].level
    <2>1. f[i] < f[j] /\ f[i] \in S /\ f[j] \in S
      BY <1>1, <1>4
    <2>2. f[i] \in 1..l /\ f[j] \in 1..l
      BY <1>1, <2>1
    <2>3. f[j] > f[i] /\ body[f[i]].level \in Nat /\ body[f[j]].level \in Nat
      BY <1>2, <2>1, <2>2
    <2>4. body[f[j]].level > body[f[i]].level
      BY <2>1, <2>3 DEF Open, S
    <2> QED
      BY <2>3, <2>4
  <1>5. J \in 0..c /\ \A i \in 1..c : body[f[i]].level < body[l].level <=> i <= J
    <2>1. K \subseteq 1..c
      BY <1>3
    <2>2. J \in 0..c /\ J \in {0} \cup K /\ \A x \in K : x <= J
      <3> HIDE DEF K
      <3> QED
        BY <1>1, <2>1, MaxOrZero
    <2>3. \A i \in 1..c : i \in K <=> body[f[i]].level < body[l].level
      BY <1>3
    <2> HIDE DEF J, K
    <2>4. ASSUME NEW i \in 1..c, i <= J PROVE body[f[i]].level < body[l].level
      <3>1. J \in 1..c /\ J \in K
        BY <1>1, <2>2, <2>4
      <3>2. CASE i = J
        BY <2>3, <3>1, <3>2
      <3>3. CASE i # J
        <4>1. i < J
          BY <1>1, <2>2, <2>4, <3>3
        <4>2. body[f[i]].level < body[f[J]].level /\ body[f[J]].level < body[l].level
          BY <1>4, <2>3, <3>1, <4>1
        <4>3. f[i] \in 1..l /\ f[J] \in 1..l /\ l \in 1..l
          BY <1>1, <3>1
        <4> QED
          BY <1>2, <4>2, <4>3
      <3> QED
        BY <3>2, <3>3
    <2> QED
      BY <2>2, <2>3, <2>4
  <1>6. S1 = {h \in S : body[h].level < body[l].level} \cup {l}
    BY OpenAtHeading DEF S
  <1> HIDE DEF J, stack, S1
  <1>7. m \in Nat /\ m = J + 1 /\ J \in Nat
    BY <1>1, <1>5
  <1>8. \A i \in 1..J : i \in 1..c
    BY <1>1, <1>5
  <1>9. ASSUME NEW i \in 1..m PROVE (i \in 1..J /\ i <= J) \/ (i = m /\ ~(i <= J))
    BY <1>7
  <1>10. g \in [1..m -> S1]
    <2>1. ASSUME NEW i \in 1..m PROVE (IF i <= J THEN f[i] ELSE l) \in S1
      <3>1. CASE i <= J
        <4>1. i \in 1..c
          BY <1>8, <1>9, <3>1
        <4> QED
          BY <1>1, <1>5, <1>6, <3>1, <4>1
      <3>2. CASE ~(i <= J)
        BY <1>6, <3>2
      <3> QED
        BY <3>1, <3>2
    <2> QED
      BY <2>1
  <1>11. \A a \in S1 : \E i \in 1..m : g[i] = a
    <2> SUFFICES ASSUME NEW a \in S1 PROVE \E i \in 1..m : g[i] = a
      OBVIOUS
    <2>1. CASE a = l
      <3>1. m \in 1..m /\ ~(m <= J)
        BY <1>7
      <3> QED
        BY <2>1, <3>1
    <2>2. CASE a # l
      <3>1. a \in S /\ body[a].level < body[l].level
        BY <1>6, <2>2
      <3>2. PICK i \in 1..c : f[i] = a
        BY <1>1, <3>1
      <3>3. i <= J
        BY <1>5, <3>1, <3>2
      <3>4. i \in 1..m
        BY <1>1, <1>7, <3>3
      <3> QED
        BY <3>2, <3>3, <3>4
    <2> QED
      BY <2>1, <2>2
  <1>12. ASSUME NEW i \in 1..m, NEW j \in 1..m, i < j PROVE g[i] < g[j]
    <2>1. i \in 1..J /\ i <= J
      BY <1>7, <1>9, <1>12
    <2>2. i \in 1..c /\ f[i] \in S
      BY <1>1, <1>8, <2>1
    <2>3. CASE j <= J
      <3>1. j \in 1..c
        BY <1>8, <1>9, <2>3
      <3> QED
        BY <1>1, <1>12, <2>1, <2>2, <2>3, <3>1
    <2>4. CASE ~(j <= J)
      <3>1. f[i] < l
        BY <1>1, <2>2
      <3> QED
        BY <2>1, <2>4, <3>1
    <2> QED
      BY <2>3, <2>4
  <1>13. S1 \subseteq Nat
    <2>1. \A a \in S : a \in Nat
      BY <1>1
    <2>2. \A a \in S1 : a \in Nat
      BY <1>1, <1>6, <2>1
    <2> QED
      BY <2>2
  <1>14. InOrder(S1, Upward(S1), g)
    <2> HIDE DEF g, m
    <2> QED
      BY <1>7, <1>10, <1>11, <1>12, <1>13, IncreasingIsInOrder
  <1>15. InOrder(S1, Upward(S1), Places(body, l))
    BY <1>1, PlacesInOrder DEF S1
  <1>16. g = Places(body, l) /\ Cardinality(S1) = m
    <2>1. g = Places(body, l)
      <3> HIDE DEF g
      <3> QED
        BY <1>14, <1>15, OneOrder
    <2>2. DOMAIN g = 1..m /\ DOMAIN g = 1..Cardinality(S1) /\ Cardinality(S1) \in Nat
      BY <1>14 DEF InOrder
    <2>3. Len(g) = m /\ Len(g) = Cardinality(S1)
      <3> HIDE DEF g
      <3>1. Len(g) = Cardinality(S1)
        BY <1>14 DEF InOrder
      <3>2. Len(g) = m
        BY <1>7, <1>10, IsSequence
      <3> QED
        BY <3>1, <3>2
    <2> QED
      BY <2>1, <2>3
  <1>17. Stack(body, l) = [i \in 1..m |-> body[g[i]]]
    BY <1>16 DEF Stack, S1
  <1> DEFINE cut == SubSeq(stack, 1, J)
  <1>18. cut \in Seq(Lines) /\ Len(cut) = J /\ \A i \in 1..J : cut[i] = stack[i]
    <2>1. \A i \in 1..J : stack[i] \in Lines
      BY <1>3, <1>8
    <2>2. J - 1 + 1 = J /\ \A i \in 1..J : 1 + i - 1 = i
      BY <1>7
    <2>3. J \in Int /\ 1 \in Int /\ (IF 1 <= J THEN J - 1 + 1 ELSE 0) = J
      BY <1>7
    <2> HIDE DEF cut
    <2>4. /\ cut \in Seq(Lines) /\ Len(cut) = IF 1 <= J THEN J - 1 + 1 ELSE 0
          /\ \A i \in 1..(J - 1 + 1) : cut[i] = stack[1 + i - 1]
      BY <2>1, <2>3, SubSeqProperties DEF cut
    <2> QED
      BY <2>2, <2>3, <2>4
  <1> HIDE DEF cut, g, m
  <1>19. body[l] \in Lines
    OBVIOUS
  <1> DEFINE new == Append(cut, body[l])
  <1>20. new \in Seq(Lines) /\ Len(new) = m /\ new[m] = body[l] /\ \A i \in 1..J : new[i] = cut[i]
    BY <1>7, <1>18, <1>19, AppendAt, AppendType
  <1> HIDE DEF new
  <1>21. DOMAIN new = 1..m
    BY <1>20
  <1>22. ASSUME NEW i \in 1..m PROVE new[i] = body[g[i]]
    <2>1. CASE i <= J
      <3>1. new[i] = body[f[i]]
        BY <1>3, <1>8, <1>9, <1>18, <1>20, <2>1
      <3>2. g[i] = f[i]
        BY <2>1 DEF g
      <3> QED
        BY <3>1, <3>2
    <2>2. CASE ~(i <= J)
      <3>1. g[i] = l /\ i = m
        BY <1>9, <2>2 DEF g
      <3> QED
        BY <1>20, <3>1
    <2> QED
      BY <2>1, <2>2
  <1>23. new = [i \in 1..m |-> body[g[i]]]
    <2>1. new = [i \in 1..m |-> new[i]]
      BY <1>20, <1>21
    <2> QED
      BY <1>22, <2>1
  <1>24. Under(stack, body[l]) = new
    BY DEF Under, new, cut, J
  <1> QED
    BY <1>17, <1>23, <1>24 DEF stack

-----------------------------------------------------------------------------
(* The words of a line, and of a text.                                     *)

LEMMA ToSetIs ==
    ASSUME NEW W, NEW s \in Seq(W)
    PROVE  /\ ToSet(s) \subseteq W
           /\ \A w : w \in ToSet(s) <=> \E i \in 1..Len(s) : s[i] = w
  <1>1. DOMAIN s = 1..Len(s) /\ \A i \in 1..Len(s) : s[i] \in W
    OBVIOUS
  <1>2. ToSet(s) = {s[i] : i \in 1..Len(s)}
    BY <1>1 DEF ToSet
  <1> QED
    BY <1>1, <1>2

LEMMA ToSetEmpty == ToSet(<<>>) = {}
  <1>1. DOMAIN <<>> = {}
    OBVIOUS
  <1> QED
    BY <1>1 DEF ToSet

LEMMA ToSetConcat ==
    ASSUME NEW W, NEW s \in Seq(W), NEW t \in Seq(W)
    PROVE  s \o t \in Seq(W) /\ ToSet(s \o t) = ToSet(s) \cup ToSet(t)
  <1> DEFINE u == s \o t
  <1>1. /\ u \in Seq(W) /\ Len(u) = Len(s) + Len(t) /\ Len(s) \in Nat /\ Len(t) \in Nat
        /\ \A i \in 1..(Len(s) + Len(t)) : u[i] = IF i <= Len(s) THEN s[i] ELSE t[i - Len(s)]
    BY ConcatProperties, LenProperties
  <1> HIDE DEF u
  <1>2. ASSUME NEW w \in ToSet(u) PROVE w \in ToSet(s) \cup ToSet(t)
    <2>1. PICK i \in 1..(Len(s) + Len(t)) : u[i] = w
      BY <1>1, <1>2, ToSetIs
    <2>2. CASE i <= Len(s)
      <3>1. i \in 1..Len(s) /\ s[i] = w
        BY <1>1, <2>1, <2>2
      <3> QED
        BY <3>1, ToSetIs
    <2>3. CASE ~(i <= Len(s))
      <3>1. i - Len(s) \in 1..Len(t) /\ t[i - Len(s)] = w
        BY <1>1, <2>1, <2>3
      <3> QED
        BY <3>1, ToSetIs
    <2> QED
      BY <2>2, <2>3
  <1>3. ASSUME NEW w \in ToSet(s) PROVE w \in ToSet(u)
    <2>1. PICK i \in 1..Len(s) : s[i] = w
      BY <1>3, ToSetIs
    <2>2. i \in 1..Len(u) /\ u[i] = w
      BY <1>1, <2>1
    <2> QED
      BY <1>1, <2>2, ToSetIs
  <1>4. ASSUME NEW w \in ToSet(t) PROVE w \in ToSet(u)
    <2>1. PICK i \in 1..Len(t) : t[i] = w
      BY <1>4, ToSetIs
    <2>2. Len(s) + i \in 1..Len(u) /\ ~(Len(s) + i <= Len(s)) /\ (Len(s) + i) - Len(s) = i
      BY <1>1, <2>1
    <2>3. u[Len(s) + i] = w
      BY <1>1, <2>1, <2>2
    <2> QED
      BY <1>1, <2>2, <2>3, ToSetIs
  <1>5. ToSet(u) = ToSet(s) \cup ToSet(t)
    BY <1>2, <1>3, <1>4
  <1> QED
    BY <1>1, <1>5 DEF u

Associates(x, y, z) == (x \o y) \o z = x \o (y \o z)

LEMMA Associative ==
    ASSUME NEW W, NEW x \in Seq(W), NEW y \in Seq(W), NEW z \in Seq(W)
    PROVE  Associates(x, y, z)
  BY ConcatAssociative DEF Associates

OfLine(body, l) == ToSet(Words(body, l))

LEMMA OfLineIs ==
    ASSUME NEW body \in Seq(Lines), NEW l \in 1..Len(body)
    PROVE  /\ Words(body, l) \in Seq(WordsOf(body)) /\ OfLine(body, l) \subseteq WordsOf(body)
           /\ \A w \in OfLine(body, l) : w[1] = l
           /\ body[l].kind # "blank" => OfLine(body, l) # {}
           /\ body[l].kind = "blank" => Words(body, l) = <<>>
           /\ body[l].kind \in Kinds
  <1>1. Words(body, l) \in Seq(WordsOf(body)) /\ body[l] \in Lines
    BY WordsType
  <1>2. OfLine(body, l) \subseteq WordsOf(body)
    BY <1>1, ToSetIs DEF OfLine
  <1> DEFINE n == Len(body[l].words)
  <1>3. /\ n \in Nat /\ body[l].words \in Seq(Nat \ {0}) /\ body[l].kind \in Kinds
        /\ body[l].words = <<>> <=> body[l].kind = "blank"
    BY <1>1 DEF Lines
  <1>4. Words(body, l) = [k \in 1..n |-> <<l, k>>]
    BY DEF Words
  <1>5. OfLine(body, l) = {<<l, k>> : k \in 1..n}
    BY <1>4 DEF OfLine, ToSet
  <1>6. \A w \in OfLine(body, l) : w[1] = l
    BY <1>5
  <1>7. ASSUME body[l].kind # "blank" PROVE OfLine(body, l) # {}
    <2>1. n # 0
      BY <1>3, <1>7, EmptySeq
    <2>2. <<l, 1>> \in OfLine(body, l)
      BY <1>3, <1>5, <2>1
    <2> QED
      BY <2>2
  <1>8. ASSUME body[l].kind = "blank" PROVE Words(body, l) = <<>>
    <2>1. n = 0
      BY <1>3, <1>8
    <2> QED
      BY <1>4, <2>1
  <1> QED
    BY <1>1, <1>2, <1>3, <1>6, <1>7, <1>8

-----------------------------------------------------------------------------
(* The first pass keeps every word, and the lines of a fence together.     *)

Together(body, a, b, said) ==
    OfLine(body, a) \cup OfLine(body, b) \subseteq said \/ (OfLine(body, a) \cup OfLine(body, b)) \cap said = {}

Whole(body, l, said) == \A a, b \in 1..l : SameBlock(body, a, b) => Together(body, a, b, said)

Fenced(body, w) == FenceAt(body)[w[1]] # NoFence \/ FenceAt(body)[w[1] - 1] # NoFence

HasBlock(body, said) == \E w \in said : body[w[1]].kind \in {"list", "fence"}

(* What the words of a section are like when a number of lines are scanned.*)
Faithful(body, l, heading, said, atomic) ==
    /\ \A w \in said : w[1] \in 1..l /\ HeadingsOf(body, w[1]) = heading
    /\ Whole(body, l, said)
    /\ \A w \in said : Fenced(body, w) => atomic
    /\ atomic => HasBlock(body, said)

(* The lines that one fence holds up to a line. *)
StillOpen(body, a, l) == \A k \in a..l : FenceAt(body)[k] # NoFence

LEMMA SameBlockIs ==
    ASSUME NEW body, NEW a \in Nat, NEW b \in Nat, SameBlock(body, a, b)
    PROVE  /\ a < b /\ StillOpen(body, a, b - 1)
           /\ FenceAt(body)[a] # NoFence /\ FenceAt(body)[b - 1] # NoFence
  <1>1. a < b /\ a \in a..(b - 1) /\ b - 1 \in a..(b - 1)
    BY DEF SameBlock
  <1> QED
    BY <1>1 DEF SameBlock, StillOpen

LEMMA FaithfulEmpty ==
    ASSUME NEW body, NEW l, NEW heading
    PROVE  Faithful(body, l, heading, {}, FALSE)
  BY DEF Faithful, Whole, Together

(* A line that does not belong to the section. *)
LEMMA FaithfulStays ==
    ASSUME NEW body \in Seq(Lines), NEW l \in 1..Len(body), NEW heading, NEW said, NEW atomic,
           Faithful(body, l - 1, heading, said, atomic),
           \A a \in 1..(l - 1) : StillOpen(body, a, l - 1) => OfLine(body, a) \cap said = {}
    PROVE  Faithful(body, l, heading, said, atomic)
  <1>1. l \in Nat \ {0} /\ \A a \in 1..l : a \in 1..(l - 1) \/ a = l
    OBVIOUS
  <1>2. \A w \in said : w[1] \in 1..(l - 1)
    BY DEF Faithful
  <1>3. \A w \in said : w[1] \in 1..l /\ w[1] # l
    BY <1>1, <1>2
  <1>4. OfLine(body, l) \cap said = {}
    BY <1>3, OfLineIs
  <1>5. ASSUME NEW a \in 1..l, NEW b \in 1..l, SameBlock(body, a, b) PROVE Together(body, a, b, said)
    <2>0. a \in Nat /\ b \in Nat
      BY <1>1
    <2>1. a < b /\ StillOpen(body, a, b - 1)
      BY <1>5, <2>0, SameBlockIs
    <2>2. a \in 1..(l - 1)
      BY <1>1, <2>1
    <2>3. CASE b = l
      BY <1>4, <2>1, <2>2, <2>3 DEF Together
    <2>4. CASE b # l
      <3>1. b \in 1..(l - 1)
        BY <1>1, <2>4
      <3> QED
        BY <1>5, <2>2, <3>1 DEF Faithful, Whole
    <2> QED
      BY <2>3, <2>4
  <1> QED
    BY <1>3, <1>5 DEF Faithful, Whole

(* A line that is added to the section. *)
LEMMA FaithfulGrows ==
    ASSUME NEW body \in Seq(Lines), NEW l \in 1..Len(body), NEW heading, NEW said, NEW atomic, NEW block,
           Faithful(body, l - 1, heading, said, atomic), HeadingsOf(body, l) = heading,
           atomic => block, block => atomic \/ body[l].kind \in {"list", "fence"},
           Fenced(body, <<l, 1>>) => block,
           \A a \in 1..(l - 1) : StillOpen(body, a, l - 1) => OfLine(body, a) \subseteq said
    PROVE  Faithful(body, l, heading, said \cup OfLine(body, l), block)
  <1> DEFINE now == said \cup OfLine(body, l)
  <1>1. l \in Nat \ {0} /\ \A a \in 1..l : a \in 1..(l - 1) \/ a = l
    OBVIOUS
  <1>2. \A w \in said : w[1] \in 1..(l - 1) /\ HeadingsOf(body, w[1]) = heading
    BY DEF Faithful
  <1>3. \A w \in OfLine(body, l) : w[1] = l
    BY OfLineIs
  <1>4. \A w \in now : w[1] \in 1..l /\ HeadingsOf(body, w[1]) = heading
    BY <1>1, <1>2, <1>3
  <1>5. ASSUME NEW a \in 1..l, NEW b \in 1..l, SameBlock(body, a, b) PROVE Together(body, a, b, now)
    <2>0. a \in Nat /\ b \in Nat
      BY <1>1
    <2>1. a < b /\ StillOpen(body, a, b - 1)
      BY <1>5, <2>0, SameBlockIs
    <2>2. a \in 1..(l - 1) /\ a # l
      BY <1>1, <2>1
    <2>3. CASE b = l
      BY <2>1, <2>2, <2>3 DEF Together
    <2>4. CASE b # l
      <3>1. b \in 1..(l - 1)
        BY <1>1, <2>4
      <3>2. Together(body, a, b, said)
        BY <1>5, <2>2, <3>1 DEF Faithful, Whole
      <3>3. OfLine(body, a) \cap OfLine(body, l) = {} /\ OfLine(body, b) \cap OfLine(body, l) = {}
        <4>1. a \in 1..Len(body) /\ b \in 1..Len(body)
          BY <1>1
        <4>2. \A w \in OfLine(body, a) : w[1] = a
          BY <4>1, OfLineIs
        <4>3. \A w \in OfLine(body, b) : w[1] = b
          BY <4>1, OfLineIs
        <4> QED
          BY <1>3, <2>2, <2>4, <4>2, <4>3
      <3> QED
        BY <3>2, <3>3 DEF Together
    <2> QED
      BY <2>3, <2>4
  <1>6. ASSUME NEW w \in now, Fenced(body, w) PROVE block
    <2>1. CASE w \in said
      BY <1>6, <2>1 DEF Faithful
    <2>2. CASE w \in OfLine(body, l)
      <3>1. w[1] = l /\ <<l, 1>>[1] = l
        BY <1>3, <2>2
      <3> QED
        BY <1>6, <3>1 DEF Fenced
    <2> QED
      BY <2>1, <2>2
  <1>7. ASSUME block PROVE HasBlock(body, now)
    <2>1. CASE atomic
      BY <2>1 DEF Faithful, HasBlock
    <2>2. CASE ~atomic
      <3>1. body[l].kind \in {"list", "fence"}
        BY <1>7, <2>2
      <3>2. PICK w : w \in OfLine(body, l)
        BY <3>1, OfLineIs
      <3>3. w \in now /\ w[1] = l
        BY <1>3, <3>2
      <3> QED
        BY <3>1, <3>3 DEF HasBlock
    <2> QED
      BY <2>1, <2>2
  <1> QED
    BY <1>4, <1>5, <1>6, <1>7 DEF Faithful, Whole

(* The state of the first pass after a number of lines, q what they say.   *)
ScanInv(body, l, s, q) ==
    /\ s \in ScansOf(WordsOf(body))
    /\ s.stack = Stack(body, l)
    /\ s.fence = FenceAt(body)[l]
    /\ ~s.open => s.text = <<>> /\ s.atomic = FALSE
    /\ s.fence # NoFence => s.open /\ s.atomic
    /\ TextOf(s.sections) \o s.text = q
    /\ Faithful(body, l, HeadingsOf(body, l), ToSet(s.text), s.atomic)
    /\ \A k \in 1..Len(s.sections) :
         Faithful(body, l, s.sections[k].heading, ToSet(s.sections[k].text), s.sections[k].atomic)
    /\ \A a \in 1..l : StillOpen(body, a, l) =>
         /\ OfLine(body, a) \subseteq ToSet(s.text)
         /\ \A k \in 1..Len(s.sections) : OfLine(body, a) \cap ToSet(s.sections[k].text) = {}

LEMMA TextOfSections ==
    ASSUME NEW W, NEW sections \in Seq(SectionsOf(W))
    PROVE  TextOf(sections) \in Seq(W)
  <1> DEFINE ss == [k \in DOMAIN sections |-> sections[k].text]
  <1>1. ss \in Seq(Seq(W))
    <2>1. Len(sections) \in Nat /\ DOMAIN sections = 1..Len(sections)
          /\ \A k \in 1..Len(sections) : sections[k] \in SectionsOf(W)
      OBVIOUS
    <2>2. \A c \in SectionsOf(W) : c.text \in Seq(W)
      BY DEF SectionsOf
    <2>3. ss \in [1..Len(sections) -> Seq(W)]
      BY <2>1, <2>2
    <2> HIDE DEF ss
    <2> QED
      BY <2>1, <2>3, IsSequence
  <1> HIDE DEF ss
  <1>2. <<>> \in Seq(W)
    OBVIOUS
  <1>3. FlattenSeq(ss) \in Seq(W)
    BY <1>1, <1>2, FlattenAppend
  <1> QED
    BY <1>3 DEF TextOf, ss

(* A flush, of the section that is open. *)
LEMMA FlushOpen ==
    ASSUME NEW W, NEW s \in ScansOf(W), s.open
    PROVE  LET section == [heading |-> HeadingPath(s.stack), text |-> s.text, atomic |-> s.atomic] IN
           /\ Flush(s) \in ScansOf(W) /\ Flush(s).stack = s.stack /\ Flush(s).fence = s.fence
           /\ Flush(s).open = FALSE /\ Flush(s).atomic = FALSE /\ Flush(s).text = <<>>
           /\ Len(s.sections) \in Nat /\ Len(Flush(s).sections) = Len(s.sections) + 1
           /\ \A k \in 1..Len(s.sections) : Flush(s).sections[k] = s.sections[k]
           /\ Flush(s).sections[Len(s.sections) + 1] = section
           /\ TextOf(Flush(s).sections) = TextOf(s.sections) \o s.text
  <1> DEFINE section == [heading |-> HeadingPath(s.stack), text |-> s.text, atomic |-> s.atomic]
             new == Append(s.sections, section)
  <1>1. Flush(s) = [s EXCEPT !.sections = new, !.text = <<>>, !.open = FALSE, !.atomic = FALSE]
    BY DEF Flush
  <1>2. Flush(s) \in ScansOf(W)
    BY FlushType
  <1>3. /\ s.sections \in Seq(SectionsOf(W)) /\ s.text \in Seq(W)
        /\ s = [sections |-> s.sections, stack |-> s.stack, text |-> s.text, open |-> s.open,
                atomic |-> s.atomic, fence |-> s.fence]
    BY DEF ScansOf
  <1> HIDE DEF new, section
  <1>4. /\ Flush(s).stack = s.stack /\ Flush(s).fence = s.fence /\ Flush(s).sections = new
        /\ Flush(s).open = FALSE /\ Flush(s).atomic = FALSE /\ Flush(s).text = <<>>
    BY <1>1, <1>3
  <1>5. new \in Seq(SectionsOf(W))
    BY <1>2, <1>4 DEF ScansOf
  <1> DEFINE n == Len(s.sections)
  <1>6. n \in Nat /\ DOMAIN s.sections = 1..n /\ \A k \in 1..n : s.sections[k] \in SectionsOf(W)
    BY <1>3
  <1>7. Len(new) = n + 1 /\ new[n + 1] = section /\ \A k \in 1..n : new[k] = s.sections[k]
    <2> DEFINE A == SectionsOf(W) \cup {section}
    <2>1. s.sections \in Seq(A) /\ section \in A
      BY <1>3, SeqMonotonic
    <2> HIDE DEF A
    <2> QED
      BY <2>1, AppendAt DEF new
  <1>8. DOMAIN new = 1..(n + 1)
    BY <1>5, <1>7
  <1>9. section.text = s.text /\ section.text \in Seq(W)
    BY <1>3 DEF section
  <1>10. \A k \in 1..n : s.sections[k].text \in Seq(W)
    <2>1. \A c \in SectionsOf(W) : c.text \in Seq(W)
      BY DEF SectionsOf
    <2> QED
      BY <1>6, <2>1
  <1>11. TextOf(new) = TextOf(s.sections) \o section.text
    <2>1. Extended(W, s.sections, n, new)
      BY <1>6, <1>7, <1>8, <1>9, <1>10 DEF Extended
    <2> HIDE DEF n
    <2>2. LongerText(W, s.sections, n, new)
      BY <2>1, TextOfAppend, Zenon
    <2> QED
      BY <1>7, <2>2 DEF LongerText
  <1> QED
    BY <1>2, <1>4, <1>6, <1>7, <1>9, <1>11 DEF section

(* A flush keeps what the sections are known to be, and if no fence is     *)
(* open, all that is known of the pass.                                    *)
LEMMA FlushKeeps ==
    ASSUME NEW body \in Seq(Lines), NEW l \in 0..Len(body), NEW s, NEW q, ScanInv(body, l, s, q)
    PROVE  /\ Flush(s) \in ScansOf(WordsOf(body))
           /\ TextOf(Flush(s).sections) = q
           /\ \A k \in 1..Len(Flush(s).sections) :
                Faithful(body, l, Flush(s).sections[k].heading, ToSet(Flush(s).sections[k].text),
                         Flush(s).sections[k].atomic)
           /\ Flush(s).open = FALSE /\ Flush(s).atomic = FALSE /\ Flush(s).text = <<>>
           /\ s.fence = NoFence => ScanInv(body, l, Flush(s), q)
  <1> DEFINE W == WordsOf(body)
             f == Flush(s)
  <1>1. s \in ScansOf(W) /\ s.sections \in Seq(SectionsOf(W)) /\ s.open \in BOOLEAN
    BY DEF ScanInv, ScansOf
  <1>2. f \in ScansOf(W)
    BY <1>1, FlushType
  <1> HIDE DEF f, W
  <1>3. TextOf(s.sections) \in Seq(W)
    BY <1>1, TextOfSections
  <1>4. TextOf(s.sections) \o <<>> = TextOf(s.sections)
    BY <1>3, ConcatEmptySeq
  <1>5. CASE ~s.open
    <2>1. f = s
      BY <1>5 DEF Flush, f
    <2>2. s.text = <<>> /\ s.atomic = FALSE /\ TextOf(s.sections) = q
      BY <1>4, <1>5 DEF ScanInv
    <2>3. s.open = FALSE
      BY <1>1, <1>5
    <2> QED
      BY <1>2, <2>1, <2>2, <2>3 DEF ScanInv, f, W
  <1>6. CASE s.open
    <2> DEFINE n == Len(s.sections)
               section == [heading |-> HeadingPath(s.stack), text |-> s.text, atomic |-> s.atomic]
    <2>1. /\ f.stack = s.stack /\ f.fence = s.fence
          /\ f.open = FALSE /\ f.atomic = FALSE /\ f.text = <<>>
          /\ n \in Nat /\ Len(f.sections) = n + 1
          /\ \A k \in 1..n : f.sections[k] = s.sections[k]
          /\ f.sections[n + 1] = section
          /\ TextOf(f.sections) = TextOf(s.sections) \o s.text
      BY <1>1, <1>6, FlushOpen DEF f
    <2>2. section.heading = HeadingsOf(body, l) /\ section.text = s.text /\ section.atomic = s.atomic
      BY StackPath DEF ScanInv
    <2> HIDE DEF section, n
    <2>3. TextOf(f.sections) = q
      BY <2>1 DEF ScanInv
    <2>4. ASSUME NEW k \in 1..(n + 1)
          PROVE  Faithful(body, l, f.sections[k].heading, ToSet(f.sections[k].text), f.sections[k].atomic)
      <3>1. CASE k = n + 1
        BY <2>1, <2>2, <3>1 DEF ScanInv
      <3>2. CASE k # n + 1
        <4>1. k \in 1..n
          BY <2>1, <3>2
        <4> QED
          BY <2>1, <4>1 DEF ScanInv, n
      <3> QED
        BY <3>1, <3>2
    <2>5. ASSUME s.fence = NoFence PROVE ScanInv(body, l, f, q)
      <3>1. l \in Nat /\ FenceAt(body)[l] = NoFence
        BY <2>5, FenceIs DEF ScanInv
      <3>2. \A a \in 1..l : ~StillOpen(body, a, l)
        <4>1. \A a \in 1..l : l \in a..l
          BY <3>1
        <4> QED
          BY <3>1, <4>1 DEF StillOpen
      <3>3. TextOf(f.sections) \o f.text = q
        <4>1. TextOf(f.sections) \in Seq(W)
          BY <1>2, TextOfSections DEF ScansOf
        <4> QED
          BY <2>1, <2>3, <4>1, ConcatEmptySeq
      <3>4. Faithful(body, l, HeadingsOf(body, l), ToSet(f.text), f.atomic)
        BY <2>1, ToSetEmpty, FaithfulEmpty
      <3>5. f.stack = Stack(body, l) /\ f.fence = FenceAt(body)[l]
        BY <2>1 DEF ScanInv
      <3> QED
        BY <1>2, <2>1, <2>4, <2>5, <3>2, <3>3, <3>4, <3>5 DEF ScanInv, W
    <2> QED
      BY <1>2, <2>1, <2>3, <2>4, <2>5 DEF W, f
  <1> QED
    BY <1>1, <1>5, <1>6

(* A line that is added to the open section: what the turn changes. *)
AddsLine(body, l, s, t) ==
    /\ t \in ScansOf(WordsOf(body))
    /\ t.sections = s.sections /\ t.stack = s.stack /\ t.text = s.text \o Words(body, l)
    /\ t.open = TRUE /\ t.fence = FenceAt(body)[l]
    /\ s.atomic => t.atomic
    /\ t.atomic => s.atomic \/ body[l].kind \in {"list", "fence"}
    /\ FenceAt(body)[l] # NoFence \/ FenceAt(body)[l - 1] # NoFence => t.atomic

LEMMA LineAdded ==
    ASSUME NEW body \in Seq(Lines), NEW l \in 1..Len(body), NEW s, NEW q, ScanInv(body, l - 1, s, q),
           ~IsHeading(body, l), NEW t, AddsLine(body, l, s, t)
    PROVE  ScanInv(body, l, t, q \o Said(body, l))
  <1> DEFINE W == WordsOf(body)
  <1>1. /\ l \in Nat \ {0} /\ l - 1 \in Nat /\ Len(body) \in Nat
        /\ \A a \in 1..l : a \in Nat /\ a \in 1..Len(body) /\ (a \in 1..(l - 1) \/ a = l)
    OBVIOUS
  <1>2. /\ s \in ScansOf(W) /\ s.sections \in Seq(SectionsOf(W)) /\ s.text \in Seq(W)
        /\ Words(body, l) \in Seq(W)
    BY OfLineIs DEF ScanInv, ScansOf
  <1>3. t.stack = Stack(body, l) /\ HeadingsOf(body, l) = HeadingsOf(body, l - 1)
    BY <1>1, StackStays DEF ScanInv, AddsLine
  <1>4. TextOf(t.sections) \o t.text = q \o Said(body, l)
    <2>1. TextOf(s.sections) \in Seq(W)
      BY <1>2, TextOfSections
    <2>2. (TextOf(s.sections) \o s.text) \o Words(body, l) = TextOf(s.sections) \o (s.text \o Words(body, l))
      <3> DEFINE x == TextOf(s.sections)
                 y == s.text
                 z == Words(body, l)
      <3>1. x \in Seq(W) /\ y \in Seq(W) /\ z \in Seq(W)
        BY <1>2, <2>1
      <3> HIDE DEF x, y, z, W
      <3>2. Associates(x, y, z)
        BY <3>1, Associative
      <3> QED
        BY <3>2 DEF Associates, x, y, z
    <2>3. TextOf(s.sections) \o s.text = q /\ t.sections = s.sections /\ t.text = s.text \o Words(body, l)
      BY DEF ScanInv, AddsLine
    <2>4. Said(body, l) = Words(body, l)
      BY DEF Said
    <2> QED
      BY <2>2, <2>3, <2>4, Zenon
  <1>5. ToSet(t.text) = ToSet(s.text) \cup OfLine(body, l)
    BY <1>2, ToSetConcat DEF AddsLine, OfLine
  <1>6. \A a \in 1..(l - 1) : StillOpen(body, a, l - 1) =>
          /\ OfLine(body, a) \subseteq ToSet(s.text)
          /\ \A k \in 1..Len(s.sections) : OfLine(body, a) \cap ToSet(s.sections[k].text) = {}
    BY DEF ScanInv
  <1>7. Faithful(body, l, HeadingsOf(body, l), ToSet(t.text), t.atomic)
    <2>1. Faithful(body, l - 1, HeadingsOf(body, l), ToSet(s.text), s.atomic)
      BY <1>3 DEF ScanInv
    <2>2. Fenced(body, <<l, 1>>) => t.atomic
      <3>1. <<l, 1>>[1] = l
        OBVIOUS
      <3> QED
        BY <3>1 DEF Fenced, AddsLine
    <2>3. \A a \in 1..(l - 1) : StillOpen(body, a, l - 1) => OfLine(body, a) \subseteq ToSet(s.text)
      BY <1>6
    <2>4. (s.atomic => t.atomic) /\ (t.atomic => s.atomic \/ body[l].kind \in {"list", "fence"})
      BY DEF AddsLine
    <2>5. Faithful(body, l, HeadingsOf(body, l), ToSet(s.text) \cup OfLine(body, l), t.atomic)
      BY <2>1, <2>2, <2>3, <2>4, FaithfulGrows
    <2> QED
      BY <1>5, <2>5
  <1>8. ASSUME NEW k \in 1..Len(s.sections)
        PROVE  /\ Faithful(body, l, s.sections[k].heading, ToSet(s.sections[k].text), s.sections[k].atomic)
               /\ OfLine(body, l) \cap ToSet(s.sections[k].text) = {}
    <2> DEFINE section == s.sections[k]
    <2>1. Faithful(body, l - 1, section.heading, ToSet(section.text), section.atomic)
      BY DEF ScanInv
    <2>2. \A a \in 1..(l - 1) : StillOpen(body, a, l - 1) => OfLine(body, a) \cap ToSet(section.text) = {}
      BY <1>6
    <2> HIDE DEF section
    <2>3. Faithful(body, l, section.heading, ToSet(section.text), section.atomic)
      BY <2>1, <2>2, FaithfulStays
    <2>4. \A w \in ToSet(section.text) : w[1] # l
      <3>1. \A w \in ToSet(section.text) : w[1] \in 1..(l - 1)
        BY <2>1 DEF Faithful
      <3> QED
        BY <1>1, <3>1
    <2>5. OfLine(body, l) \cap ToSet(section.text) = {}
      BY <2>4, OfLineIs
    <2> QED
      BY <2>3, <2>5 DEF section
  <1>9. ASSUME NEW a \in 1..l, StillOpen(body, a, l)
        PROVE  /\ OfLine(body, a) \subseteq ToSet(t.text)
               /\ \A k \in 1..Len(t.sections) : OfLine(body, a) \cap ToSet(t.sections[k].text) = {}
    <2>1. t.sections = s.sections
      BY DEF AddsLine
    <2>2. CASE a = l
      BY <1>5, <1>8, <2>1, <2>2
    <2>3. CASE a # l
      <3>1. a \in 1..(l - 1)
        BY <1>1, <2>3
      <3>2. StillOpen(body, a, l - 1)
        <4>1. \A k \in a..(l - 1) : k \in a..l
          BY <1>1
        <4> QED
          BY <1>9, <4>1 DEF StillOpen
      <3> QED
        BY <1>5, <1>6, <2>1, <3>1, <3>2
    <2> QED
      BY <2>2, <2>3
  <1>10. /\ t \in ScansOf(W) /\ t.fence = FenceAt(body)[l] /\ t.open = TRUE /\ t.sections = s.sections
         /\ t.fence # NoFence => t.atomic
    BY DEF AddsLine
  <1> QED
    BY <1>3, <1>4, <1>7, <1>8, <1>9, <1>10 DEF ScanInv

(* A line outside a fence that says nothing: a blank line or a heading.    *)
SkipsLine(body, l, s, t) ==
    /\ t \in ScansOf(WordsOf(body))
    /\ t.sections = s.sections /\ t.stack = Stack(body, l) /\ t.text = <<>> /\ t.open = FALSE
    /\ t.atomic = FALSE /\ t.fence = NoFence
    /\ FenceAt(body)[l] = NoFence /\ FenceAt(body)[l - 1] = NoFence
    /\ Said(body, l) = <<>>

LEMMA LineSkipped ==
    ASSUME NEW body \in Seq(Lines), NEW l \in 1..Len(body), NEW s, NEW q, ScanInv(body, l - 1, s, q),
           s.text = <<>>, NEW t, SkipsLine(body, l, s, t)
    PROVE  ScanInv(body, l, t, q \o Said(body, l))
  <1> DEFINE W == WordsOf(body)
  <1>1. l \in Nat \ {0} /\ l - 1 \in Nat /\ \A a \in 1..l : l \in a..l
    OBVIOUS
  <1>2. \A a \in 1..(l - 1) : ~StillOpen(body, a, l - 1)
    <2>1. \A a \in 1..(l - 1) : l - 1 \in a..(l - 1)
      BY <1>1
    <2> QED
      BY <2>1 DEF StillOpen, SkipsLine
  <1>3. \A a \in 1..l : ~StillOpen(body, a, l)
    BY <1>1 DEF StillOpen, SkipsLine
  <1>4. TextOf(t.sections) \o t.text = q \o Said(body, l)
    <2>1. s.sections \in Seq(SectionsOf(W))
      BY DEF ScanInv, ScansOf
    <2>2. TextOf(s.sections) \in Seq(W)
      BY <2>1, TextOfSections
    <2>3. TextOf(s.sections) \o <<>> = TextOf(s.sections)
      BY <2>2, ConcatEmptySeq
    <2>4. TextOf(s.sections) \o s.text = q /\ t.sections = s.sections /\ t.text = <<>> /\ Said(body, l) = <<>>
      BY DEF ScanInv, SkipsLine
    <2> QED
      BY <2>3, <2>4
  <1>5. Faithful(body, l, HeadingsOf(body, l), ToSet(t.text), t.atomic)
    BY ToSetEmpty, FaithfulEmpty DEF SkipsLine
  <1>6. ASSUME NEW k \in 1..Len(s.sections)
        PROVE  Faithful(body, l, s.sections[k].heading, ToSet(s.sections[k].text), s.sections[k].atomic)
    <2> DEFINE section == s.sections[k]
    <2>1. Faithful(body, l - 1, section.heading, ToSet(section.text), section.atomic)
      BY DEF ScanInv
    <2> HIDE DEF section
    <2>2. Faithful(body, l, section.heading, ToSet(section.text), section.atomic)
      BY <1>2, <2>1, FaithfulStays
    <2> QED
      BY <2>2 DEF section
  <1> QED
    BY <1>3, <1>4, <1>5, <1>6 DEF ScanInv, SkipsLine

(* One turn of the loop. *)
LEMMA ScanKeeps ==
    ASSUME NEW body \in Seq(Lines), NEW l \in 1..Len(body), NEW s, NEW q, ScanInv(body, l - 1, s, q)
    PROVE  ScanInv(body, l, ScanLine(body, s, l), q \o Said(body, l))
  <1> DEFINE W == WordsOf(body)
             line == body[l]
             f == Flush(s)
             t == ScanLine(body, s, l)
             was == FenceAt(body)[l - 1]
             is == FenceAt(body)[l]
  <1>1. /\ l - 1 \in 0..Len(body) /\ l \in Nat \ {0}
        /\ s \in ScansOf(W) /\ t \in ScansOf(W) /\ line \in Lines /\ line.kind \in Kinds
    BY ScanLineType, OfLineIs, WordsType DEF ScanInv
  <1>2. s.fence = was /\ was \in Fences /\ is = NextFence(was, line)
    BY FenceIs DEF ScanInv
  <1>3. /\ is \in Fences
        /\ line.kind # "fence" => is = was
        /\ line.kind = "fence" /\ was = NoFence => is = line.mark /\ line.mark # NoFence
        /\ line.kind = "fence" /\ was # NoFence => is = IF line.mark = was THEN NoFence ELSE was
    BY <1>1, <1>2, NextFenceIs
  <1>4. /\ f \in ScansOf(W) /\ f.open = FALSE /\ f.atomic = FALSE /\ f.text = <<>>
        /\ was = NoFence => ScanInv(body, l - 1, f, q)
    BY <1>1, <1>2, FlushKeeps
  <1>5. IsHeading(body, l) <=> line.kind = "heading" /\ was = NoFence
    BY DEF IsHeading
  <1>6. /\ AddLine(body, s, l) = [s EXCEPT !.text = s.text \o Words(body, l), !.open = TRUE]
        /\ AddLine(body, f, l) = [f EXCEPT !.text = f.text \o Words(body, l), !.open = TRUE]
    BY DEF AddLine
  <1>7. /\ was # NoFence => s.atomic
        /\ was = NoFence => f.fence = NoFence /\ f.stack = Stack(body, l - 1)
    <2>1. was = NoFence => f.fence = NoFence /\ f.stack = Stack(body, l - 1)
      BY <1>4 DEF ScanInv
    <2> QED
      BY <1>2, <2>1 DEF ScanInv
  <1> DEFINE lines == Words(body, l)
  <1> HIDE DEF W, f, was, is, lines
  <1>8. CASE was # NoFence
    <2>1. t = [AddLine(body, s, l) EXCEPT !.fence = is]
      <3>1. t = InFence(body, s, l)
        BY <1>2, <1>8 DEF ScanLine
      <3>2. (IF line.kind = "fence" /\ line.mark = was THEN NoFence ELSE was) = is
        BY <1>3, <1>8
      <3>3. AddLine(body, s, l).fence = was
        BY <1>1, <1>2, <1>6 DEF ScansOf
      <3> QED
        BY <3>1, <3>2, <3>3 DEF InFence
    <2>2. /\ t.sections = s.sections /\ t.stack = s.stack /\ t.text = s.text \o Words(body, l)
          /\ t.open = TRUE /\ t.fence = is /\ t.atomic = s.atomic
      <3> HIDE DEF t, line
      <3> QED
        BY <1>1, <1>6, <2>1 DEF ScansOf
    <2>3. AddsLine(body, l, s, t)
      BY <1>1, <1>7, <1>8, <2>2 DEF AddsLine, W, is
    <2> QED
      BY <1>5, <1>8, <2>3, LineAdded
  <1>9. CASE was = NoFence /\ line.kind = "fence"
    <2>1. t = [AddLine(body, f, l) EXCEPT !.atomic = TRUE, !.fence = line.mark]
      BY <1>2, <1>9 DEF ScanLine, f
    <2>2. /\ t.sections = f.sections /\ t.stack = f.stack /\ t.text = f.text \o Words(body, l)
          /\ t.open = TRUE /\ t.fence = is /\ t.atomic = TRUE
      <3>1. is = line.mark
        BY <1>3, <1>9
      <3> HIDE DEF t, line
      <3> QED
        BY <1>4, <1>6, <2>1, <3>1 DEF ScansOf
    <2>3. AddsLine(body, l, f, t)
      BY <1>1, <1>9, <2>2 DEF AddsLine, W, is
    <2>4. ScanInv(body, l - 1, f, q) /\ ~IsHeading(body, l)
      BY <1>4, <1>5, <1>9
    <2> QED
      BY <2>3, <2>4, LineAdded
  <1>10. CASE was = NoFence /\ line.kind = "heading"
    <2>1. t = [f EXCEPT !.stack = Under(f.stack, line)]
      BY <1>2, <1>10 DEF ScanLine, f
    <2>2. Under(f.stack, line) = Stack(body, l)
      BY <1>5, <1>7, <1>10, StackAtHeading
    <2>3. /\ t.sections = f.sections /\ t.stack = Stack(body, l) /\ t.text = <<>>
          /\ t.open = FALSE /\ t.fence = NoFence /\ t.atomic = FALSE
      <3> HIDE DEF t, line
      <3> QED
        BY <1>4, <1>7, <1>10, <2>1, <2>2 DEF ScansOf
    <2>4. is = NoFence /\ Said(body, l) = <<>>
      BY <1>3, <1>5, <1>10 DEF Said
    <2>5. SkipsLine(body, l, f, t)
      BY <1>1, <1>10, <2>3, <2>4 DEF SkipsLine, W, is, was
    <2>6. ScanInv(body, l - 1, f, q)
      BY <1>4, <1>10
    <2> QED
      BY <1>4, <2>5, <2>6, LineSkipped
  <1>11. CASE was = NoFence /\ line.kind = "blank"
    <2>1. t = f
      BY <1>2, <1>11 DEF ScanLine, f
    <2>2. Stack(body, l) = Stack(body, l - 1)
      BY <1>1, <1>5, <1>11, StackStays
    <2>3. is = NoFence /\ Said(body, l) = <<>>
      BY <1>3, <1>5, <1>11, OfLineIs DEF Said
    <2>4. SkipsLine(body, l, f, t)
      <3> HIDE DEF t, line
      <3> QED
        BY <1>1, <1>4, <1>7, <1>11, <2>1, <2>2, <2>3 DEF SkipsLine, W, is, was
    <2>5. ScanInv(body, l - 1, f, q)
      BY <1>4, <1>11
    <2> QED
      BY <1>4, <2>4, <2>5, LineSkipped
  <1>12. CASE was = NoFence /\ line.kind = "list" /\ ~s.atomic
    <2>1. t = [AddLine(body, f, l) EXCEPT !.atomic = TRUE]
      BY <1>2, <1>12 DEF ScanLine, f
    <2>2. is = NoFence
      BY <1>3, <1>12
    <2>3. /\ t.sections = f.sections /\ t.stack = f.stack /\ t.text = f.text \o Words(body, l)
          /\ t.open = TRUE /\ t.fence = is /\ t.atomic = TRUE
      <3> HIDE DEF t, line
      <3> QED
        BY <1>4, <1>6, <1>7, <1>12, <2>1, <2>2 DEF ScansOf
    <2>4. AddsLine(body, l, f, t)
      BY <1>1, <1>12, <2>3 DEF AddsLine, W, is
    <2>5. ScanInv(body, l - 1, f, q) /\ ~IsHeading(body, l)
      BY <1>4, <1>5, <1>12
    <2> QED
      BY <2>4, <2>5, LineAdded
  <1>13. CASE was = NoFence /\ (line.kind = "text" \/ (line.kind = "list" /\ s.atomic))
    <2>1. t = AddLine(body, s, l)
      BY <1>2, <1>13 DEF ScanLine
    <2>2. is = NoFence
      BY <1>3, <1>13
    <2>3. /\ t.sections = s.sections /\ t.stack = s.stack /\ t.text = s.text \o Words(body, l)
          /\ t.open = TRUE /\ t.fence = is /\ t.atomic = s.atomic
      <3> HIDE DEF t, line
      <3> QED
        BY <1>1, <1>2, <1>6, <1>13, <2>1, <2>2 DEF ScansOf
    <2>4. AddsLine(body, l, s, t)
      BY <1>1, <1>13, <2>2, <2>3 DEF AddsLine, W, is, was
    <2> QED
      BY <1>5, <1>13, <2>4, LineAdded
  <1>14. \/ was # NoFence
         \/ was = NoFence /\ line.kind = "fence"
         \/ was = NoFence /\ line.kind = "heading"
         \/ was = NoFence /\ line.kind = "blank"
         \/ was = NoFence /\ line.kind = "list" /\ ~s.atomic
         \/ was = NoFence /\ (line.kind = "text" \/ (line.kind = "list" /\ s.atomic))
    BY <1>1 DEF Kinds
  <1> QED
    BY <1>8, <1>9, <1>10, <1>11, <1>12, <1>13, <1>14

(* The sections of a body: all its words, and each section as it should be.*)
LEMMA SectionsFaithful ==
    ASSUME NEW body \in Seq(Lines)
    PROVE  /\ TextOf(Sections(body)) = BodyText(body)
           /\ \A k \in 1..Len(Sections(body)) :
                Faithful(body, Len(body), Sections(body)[k].heading, ToSet(Sections(body)[k].text),
                         Sections(body)[k].atomic)
  <1> DEFINE W == WordsOf(body)
             n == Len(body)
             said == [l \in 1..n |-> Said(body, l)]
  <1>1. n \in Nat /\ Len(Order(body)) = n /\ \A k \in 1..n : Order(body)[k] = k
    <2>1. Order(body) \in [1..n -> Nat]
      BY DEF Order
    <2>2. n \in Nat /\ Len(Order(body)) = n
      BY <2>1, IsSequence
    <2> QED
      BY <2>2 DEF Order
  <1>2. PICK p \in [0..Len(Order(body)) -> ScansOf(W)] :
          /\ p[0] = Scan
          /\ \A k \in 1..Len(Order(body)) : p[k] = ScanLine(body, p[k - 1], Order(body)[k])
          /\ FoldLeft(LAMBDA s, l : ScanLine(body, s, l), Scan, Order(body)) = p[Len(Order(body))]
    BY ScanByPrefixes
  <1>3. Sections(body) = Flush(p[n]).sections
    BY <1>1, <1>2 DEF Sections, Order
  <1>4. p[0] = Scan /\ \A k \in 1..n : p[k] = ScanLine(body, p[k - 1], k)
    BY <1>1, <1>2
  <1>5. said \in Seq(Seq(W)) /\ Len(said) = n
    <2>1. \A l \in 1..n : Said(body, l) \in Seq(W)
      <3>1. <<>> \in Seq(W)
        OBVIOUS
      <3>2. \A l \in 1..n : Words(body, l) \in Seq(W)
        BY OfLineIs
      <3> QED
        BY <3>1, <3>2 DEF Said
    <2>2. said \in [1..n -> Seq(W)]
      BY <2>1
    <2> HIDE DEF said
    <2> QED
      BY <1>1, <2>2, IsSequence
  <1>6. BodyText(body) = FlattenSeq(said)
    BY DEF BodyText
  <1>7. \A l \in 1..n : said[l] = Said(body, l)
    OBVIOUS
  <1> HIDE DEF said
  <1>8. PICK q : IsFlat(W, said, q)
    BY <1>5, FlattenByPrefixes
  <1>9. q[0] = <<>> /\ BodyText(body) = q[n] /\ \A l \in 1..n : q[l] = q[l - 1] \o Said(body, l)
    BY <1>5, <1>6, <1>7, <1>8 DEF IsFlat
  <1>10. ScanInv(body, 0, Scan, <<>>)
    <2>1. Scan \in ScansOf(W)
      BY DEF Scan, ScansOf, NoFence
    <2>2. Scan.stack = Stack(body, 0) /\ Scan.fence = FenceAt(body)[0] /\ Scan.fence = NoFence
      BY StackEmpty, FenceIs DEF Scan
    <2>3. TextOf(Scan.sections) \o Scan.text = <<>>
      BY TextOfNone DEF Scan
    <2>4. Faithful(body, 0, HeadingsOf(body, 0), ToSet(Scan.text), Scan.atomic)
      BY ToSetEmpty, FaithfulEmpty DEF Scan
    <2>5. Len(Scan.sections) = 0 /\ Scan.open = FALSE /\ Scan.text = <<>> /\ Scan.atomic = FALSE
      BY DEF Scan
    <2>6. 1..0 = {}
      OBVIOUS
    <2> QED
      BY <2>1, <2>2, <2>3, <2>4, <2>5, <2>6 DEF ScanInv
  <1> DEFINE T == {l \in 0..n : ScanInv(body, l, p[l], q[l])}
  <1>11. 0 \in T
    BY <1>1, <1>4, <1>9, <1>10
  <1>12. ASSUME NEW l \in 0..(n - 1), l \in T PROVE l + 1 \in T
    <2>1. l + 1 \in 1..Len(body) /\ (l + 1) - 1 = l /\ l + 1 \in 0..n
      BY <1>1
    <2>2. ScanInv(body, (l + 1) - 1, p[l], q[l])
      BY <1>12, <2>1
    <2>3. ScanInv(body, l + 1, ScanLine(body, p[l], l + 1), q[l] \o Said(body, l + 1))
      BY <2>1, <2>2, ScanKeeps
    <2>4. p[l + 1] = ScanLine(body, p[l], l + 1) /\ q[l + 1] = q[l] \o Said(body, l + 1)
      BY <1>4, <1>9, <2>1
    <2>5. ScanInv(body, l + 1, p[l + 1], q[l + 1])
      BY <2>3, <2>4
    <2> QED
      BY <2>1, <2>5
  <1>13. \A l \in 0..n : l \in T
    <2> HIDE DEF T, n
    <2> QED
      BY <1>1, <1>11, <1>12, InductionTo
  <1>14. ScanInv(body, n, p[n], q[n])
    BY <1>1, <1>13
  <1>15. n \in 0..Len(body)
    BY <1>1
  <1> QED
    BY <1>3, <1>9, <1>14, <1>15, FlushKeeps

-----------------------------------------------------------------------------
(* The slices of a long section.                                           *)

(* Where a slice ends. *)
SliceEnd(n, i) == IF i * MaxWords < n THEN i * MaxWords ELSE n
SliceCount(n) == (n + MaxWords - 1) \div MaxWords

LEMMA SliceEnds ==
    ASSUME NEW n \in Nat
    PROVE  /\ SliceCount(n) \in Nat
           /\ SliceEnd(n, 0) = 0 /\ SliceEnd(n, SliceCount(n)) = n
           /\ \A i \in 1..SliceCount(n) :
                /\ SliceEnd(n, i - 1) = (i - 1) * MaxWords /\ SliceEnd(n, i - 1) \in Nat
                /\ SliceEnd(n, i) \in Nat /\ SliceEnd(n, i - 1) < SliceEnd(n, i) /\ SliceEnd(n, i) <= n
                /\ SliceEnd(n, i) - SliceEnd(n, i - 1) <= MaxWords
  <1> DEFINE m == (n + MaxWords - 1) \div MaxWords
  <1>1. MaxWords \in Nat \ {0}
    BY ChunkingAssumption
  <1>2. m \in Nat /\ m * MaxWords <= n + MaxWords - 1 /\ m * MaxWords >= n /\ m * MaxWords \in Nat
    BY <1>1
  <1>3. SliceCount(n) = m
    BY DEF SliceCount
  <1> HIDE DEF m
  <1>4. 0 * MaxWords = 0
    BY <1>1
  <1>5. SliceEnd(n, 0) = 0 /\ SliceEnd(n, m) = n
    BY <1>1, <1>2, <1>4 DEF SliceEnd
  <1>6. ASSUME NEW i \in 1..m
        PROVE  /\ SliceEnd(n, i - 1) = (i - 1) * MaxWords /\ SliceEnd(n, i - 1) \in Nat
               /\ SliceEnd(n, i) \in Nat /\ SliceEnd(n, i - 1) < SliceEnd(n, i) /\ SliceEnd(n, i) <= n
               /\ SliceEnd(n, i) - SliceEnd(n, i - 1) <= MaxWords
    <2>1. i \in Nat /\ i <= m /\ i - 1 \in Nat
      BY <1>2
    <2> DEFINE e == i * MaxWords
               d == (i - 1) * MaxWords
    <2>2. e \in Nat /\ d \in Nat /\ d = e - MaxWords
      BY <1>1, <2>1
    <2>3. e <= m * MaxWords
      <3>1. \A x, y, z \in Nat : x <= y => x * z <= y * z
        OBVIOUS
      <3> QED
        BY <1>1, <1>2, <2>1, <3>1
    <2>4. SliceEnd(n, i) = (IF e < n THEN e ELSE n) /\ SliceEnd(n, i - 1) = IF d < n THEN d ELSE n
      BY DEF SliceEnd
    <2>5. e <= n + MaxWords - 1
      <3> HIDE DEF e, d
      <3> QED
        BY <1>1, <1>2, <2>2, <2>3
    <2> HIDE DEF e, d
    <2>6. /\ SliceEnd(n, i - 1) = d /\ SliceEnd(n, i - 1) \in Nat
          /\ SliceEnd(n, i) \in Nat /\ SliceEnd(n, i - 1) < SliceEnd(n, i) /\ SliceEnd(n, i) <= n
          /\ SliceEnd(n, i) - SliceEnd(n, i - 1) <= MaxWords
      BY <1>1, <2>2, <2>4, <2>5
    <2> QED
      BY <2>6 DEF d
  <1> QED
    BY <1>2, <1>3, <1>5, <1>6

LEMMA SlicesAre ==
    ASSUME NEW W, NEW section \in SectionsOf(W)
    PROVE  LET n == Len(section.text) IN
           /\ n \in Nat /\ section.text \in Seq(W)
           /\ Slices(section) \in Seq(ChunksIn(W)) /\ Len(Slices(section)) = SliceCount(n)
           /\ \A i \in 1..SliceCount(n) :
                /\ Slices(section)[i].text = SubSeq(section.text, SliceEnd(n, i - 1) + 1, SliceEnd(n, i))
                /\ Slices(section)[i].heading = section.heading
                /\ Slices(section)[i].words = Len(Slices(section)[i].text)
                /\ Slices(section)[i].words <= MaxWords
                /\ ToSet(Slices(section)[i].text) \subseteq ToSet(section.text)
  <1> DEFINE n == Len(section.text)
             m == SliceCount(n)
  <1>1. section.text \in Seq(W) /\ n \in Nat
    BY DEF SectionsOf
  <1>2. m \in Nat
    BY <1>1, SliceEnds
  <1>3. ASSUME NEW i \in 1..m
        PROVE  /\ SliceEnd(n, i - 1) = (i - 1) * MaxWords /\ SliceEnd(n, i - 1) \in Nat
               /\ SliceEnd(n, i) \in Nat /\ SliceEnd(n, i - 1) < SliceEnd(n, i) /\ SliceEnd(n, i) <= n
               /\ SliceEnd(n, i) - SliceEnd(n, i - 1) <= MaxWords
    <2> HIDE DEF n
    <2> QED
      BY <1>1, SliceEnds
  <1>4. Slices(section) \in Seq(ChunksIn(W))
    BY SlicesType
  <1> DEFINE old(i) == SubSeq(section.text, (i - 1) * MaxWords + 1, SliceEnd(n, i))
  <1>5. Slices(section) =
          [i \in 1..m |-> [heading |-> section.heading, text |-> old(i), words |-> Len(old(i))]]
    BY DEF Slices, SliceEnd, SliceCount
  <1>6. Len(Slices(section)) = m
    <2> HIDE DEF old, m
    <2>1. DOMAIN Slices(section) = 1..m
      BY <1>5
    <2> QED
      BY <1>2, <1>4, <2>1
  <1>7. ASSUME NEW i \in 1..m
        PROVE  /\ Slices(section)[i].text = SubSeq(section.text, SliceEnd(n, i - 1) + 1, SliceEnd(n, i))
               /\ Slices(section)[i].heading = section.heading
               /\ Slices(section)[i].words = Len(Slices(section)[i].text)
               /\ Slices(section)[i].words <= MaxWords
               /\ ToSet(Slices(section)[i].text) \subseteq ToSet(section.text)
    <2> DEFINE a == SliceEnd(n, i - 1)
               b == SliceEnd(n, i)
               slice == SubSeq(section.text, a + 1, b)
    <2>1. old(i) = slice
      BY <1>3
    <2>2. Slices(section)[i] = [heading |-> section.heading, text |-> slice, words |-> Len(slice)]
      <3> HIDE DEF old, slice, m
      <3> QED
        BY <1>5, <2>1
    <2>3. a \in Nat /\ b \in Nat /\ a < b /\ b <= n /\ b - a <= MaxWords
      BY <1>3
    <2> HIDE DEF a, b, slice, n
    <2>4. \A k \in (a + 1)..b : section.text[k] \in W
      BY <1>1, <2>3 DEF n
    <2>5. a + 1 \in Int /\ b \in Int /\ (IF a + 1 <= b THEN b - (a + 1) + 1 ELSE 0) = b - a
      BY <2>3
    <2>6. /\ slice \in Seq(W) /\ Len(slice) = IF a + 1 <= b THEN b - (a + 1) + 1 ELSE 0
          /\ \A k \in 1..(b - (a + 1) + 1) : slice[k] = section.text[(a + 1) + k - 1]
      BY <2>4, <2>5, SubSeqProperties DEF slice
    <2>7. Len(slice) = b - a
      BY <2>5, <2>6
    <2>8. ASSUME NEW w \in ToSet(slice) PROVE w \in ToSet(section.text)
      <3>1. PICK k \in 1..(b - a) : slice[k] = w
        BY <2>6, <2>7, <2>8, ToSetIs
      <3>2. k \in 1..(b - (a + 1) + 1) /\ (a + 1) + k - 1 \in 1..n
        BY <1>1, <2>3
      <3>3. section.text[(a + 1) + k - 1] = w
        BY <2>6, <3>1, <3>2
      <3> QED
        BY <1>1, <3>2, <3>3, ToSetIs DEF n
    <2>9. Len(slice) <= MaxWords
      BY <2>3, <2>7
    <2>10. /\ Slices(section)[i].text = slice
           /\ Slices(section)[i].heading = section.heading
           /\ Slices(section)[i].words = Len(slice)
      BY <2>2
    <2>11. ToSet(slice) \subseteq ToSet(section.text)
      BY <2>8
    <2>12. slice = SubSeq(section.text, SliceEnd(n, i - 1) + 1, SliceEnd(n, i))
      BY DEF slice, a, b
    <2> QED
      BY <2>9, <2>10, <2>11, <2>12, Zenon
  <1> QED
    BY <1>1, <1>4, <1>6, <1>7

(* The slices say what the section says. *)
LEMMA SlicesText ==
    ASSUME NEW W, NEW chunks \in Seq(ChunksIn(W)), NEW section \in SectionsOf(W)
    PROVE  /\ TextOf(chunks) \in Seq(W)
           /\ TextOf(chunks \o Slices(section)) = TextOf(chunks) \o section.text
  <1> DEFINE slices == Slices(section)
             text == section.text
             n == Len(text)
             m == SliceCount(n)
             c == Len(chunks)
             all == chunks \o slices
             ss == [k \in DOMAIN chunks |-> chunks[k].text]
             tt == [k \in DOMAIN all |-> all[k].text]
  <1>1. /\ n \in Nat /\ text \in Seq(W) /\ slices \in Seq(ChunksIn(W)) /\ Len(slices) = m
        /\ \A i \in 1..m : slices[i].text = SubSeq(text, SliceEnd(n, i - 1) + 1, SliceEnd(n, i))
    BY SlicesAre
  <1>2. /\ m \in Nat /\ SliceEnd(n, 0) = 0 /\ SliceEnd(n, m) = n
        /\ \A i \in 1..m :
             /\ SliceEnd(n, i - 1) \in Nat /\ SliceEnd(n, i) \in Nat
             /\ SliceEnd(n, i - 1) < SliceEnd(n, i) /\ SliceEnd(n, i) <= n
    <2> HIDE DEF n
    <2> QED
      BY <1>1, SliceEnds
  <1> HIDE DEF slices, n, m
  <1>3. c \in Nat /\ DOMAIN chunks = 1..c /\ \A k \in 1..c : chunks[k] \in ChunksIn(W)
    OBVIOUS
  <1>4. /\ all \in Seq(ChunksIn(W)) /\ Len(all) = c + m
        /\ (\A k \in 1..c : all[k] = chunks[k]) /\ \A i \in 1..m : all[c + i] = slices[i]
    <2>1. /\ all \in Seq(ChunksIn(W)) /\ Len(all) = c + m
          /\ \A k \in 1..(c + m) : all[k] = IF k <= c THEN chunks[k] ELSE slices[k - c]
      BY <1>1, ConcatProperties
    <2> HIDE DEF all, c
    <2>2. \A k \in 1..c : k \in 1..(c + m) /\ k <= c
      BY <1>2, <1>3
    <2>3. \A i \in 1..m : c + i \in 1..(c + m) /\ ~(c + i <= c) /\ (c + i) - c = i
      BY <1>2, <1>3
    <2> QED
      BY <2>1, <2>2, <2>3
  <1>5. DOMAIN all = 1..(c + m)
    BY <1>4
  <1>6. \A x \in ChunksIn(W) : x.text \in Seq(W)
    BY DEF ChunksIn
  <1> HIDE DEF all
  <1>7. ss \in Seq(Seq(W)) /\ Len(ss) = c /\ \A k \in 1..c : ss[k] = chunks[k].text
    <2>1. ss \in [1..c -> Seq(W)] /\ \A k \in 1..c : ss[k] = chunks[k].text
      BY <1>3, <1>6
    <2> HIDE DEF ss
    <2> QED
      BY <1>3, <2>1, IsSequence
  <1>8. tt \in Seq(Seq(W)) /\ Len(tt) = c + m /\ \A k \in 1..(c + m) : tt[k] = all[k].text
    <2>1. \A k \in 1..(c + m) : all[k] \in ChunksIn(W)
      BY <1>4
    <2>2. tt \in [1..(c + m) -> Seq(W)] /\ \A k \in 1..(c + m) : tt[k] = all[k].text
      BY <1>5, <1>6, <2>1
    <2> HIDE DEF tt
    <2>3. c + m \in Nat
      BY <1>2, <1>3
    <2> QED
      BY <2>2, <2>3, IsSequence
  <1>9. TextOf(chunks) = FlattenSeq(ss) /\ TextOf(all) = FlattenSeq(tt)
    BY DEF TextOf
  <1> HIDE DEF ss, tt, c
  <1>10. PICK p : IsFlat(W, ss, p)
    BY <1>7, FlattenByPrefixes
  <1>11. PICK q : IsFlat(W, tt, q)
    BY <1>8, FlattenByPrefixes
  <1>12. p[c] = q[c]
    <2>1. /\ c \in Nat /\ c <= Len(ss) /\ c <= Len(tt) /\ Len(ss) \in Nat /\ Len(tt) \in Nat
          /\ \A k \in 1..c : k \in 1..(c + m)
      BY <1>2, <1>3, <1>7, <1>8
    <2>2. \A k \in 1..c : ss[k] = tt[k]
      BY <1>4, <1>7, <1>8, <2>1
    <2> QED
      BY <1>10, <1>11, <2>1, <2>2, FlatPrefixesAgree
  <1>13. TextOf(chunks) = q[c] /\ TextOf(all) = q[c + m]
    BY <1>7, <1>8, <1>9, <1>10, <1>11, <1>12 DEF IsFlat
  <1>14. q \in [0..(c + m) -> Seq(W)] /\ \A i \in 1..m : q[c + i] = q[c + i - 1] \o slices[i].text
    <2>1. \A i \in 1..m : c + i \in 1..(c + m)
      BY <1>2, <1>3
    <2>2. q \in [0..(c + m) -> Seq(W)] /\ \A k \in 1..(c + m) : q[k] = q[k - 1] \o tt[k]
      BY <1>8, <1>11 DEF IsFlat
    <2>3. \A i \in 1..m : tt[c + i] = slices[i].text
      BY <1>4, <1>8, <2>1
    <2>4. ASSUME NEW i \in 1..m PROVE q[c + i] = q[c + i - 1] \o slices[i].text
      <3> DEFINE here == c + i
      <3>0. here \in 1..(c + m) /\ here = c + i
        BY <2>1
      <3> HIDE DEF here
      <3>3. q[here] = q[here - 1] \o tt[here]
        BY <2>2, <3>0
      <3>4. q[here] = q[c + i] /\ q[here - 1] = q[c + i - 1] /\ tt[here] = tt[c + i]
        <4>1. here - 1 = c + i - 1 /\ here = c + i
          BY <1>2, <1>3, <3>0
        <4> QED
          BY <4>1, Zenon
      <3>1. q[c + i] = q[c + i - 1] \o tt[c + i]
        BY <3>3, <3>4, Zenon
      <3>2. tt[c + i] = slices[i].text
        BY <2>3
      <3> QED
        BY <3>1, <3>2, Zenon
    <2> QED
      BY <2>2, <2>4
  <1>15. q[c] \in Seq(W)
    <2>1. c \in 0..(c + m)
      BY <1>2, <1>3
    <2> QED
      BY <1>14, <2>1
  <1> DEFINE upto(i) == SubSeq(text, 1, SliceEnd(n, i))
             T == {i \in 0..m : q[c + i] = q[c] \o upto(i)}
  <1>16. 0 \in T
    <2>1. upto(0) = <<>>
      BY <1>2, SubSeqEmpty
    <2>2. q[c] \o <<>> = q[c]
      BY <1>15, ConcatEmptySeq
    <2>3. c + 0 = c /\ 0 \in 0..m
      BY <1>2, <1>3
    <2> QED
      BY <2>1, <2>2, <2>3
  <1>17. ASSUME NEW i \in 0..(m - 1), i \in T PROVE i + 1 \in T
    <2> DEFINE a == SliceEnd(n, i)
               b == SliceEnd(n, i + 1)
               x == SubSeq(text, 1, a)
               y == SubSeq(text, a + 1, b)
    <2>1. i + 1 \in 1..m /\ (i + 1) - 1 = i /\ c + (i + 1) - 1 = c + i /\ i + 1 \in 0..m
      BY <1>2, <1>3
    <2>2. a \in Nat /\ b \in Nat /\ a < b /\ b <= n
      BY <1>2, <2>1
    <2>3. slices[i + 1].text = y
      BY <1>1, <2>1
    <2>4. q[c + (i + 1)] = q[c + i] \o y
      BY <1>14, <2>1, <2>3
    <2> HIDE DEF a, b
    <2>5. x \o y = SubSeq(text, 1, b)
      <3>1. 1 \in 1..(Len(text) + 1) /\ a \in (1 - 1)..Len(text) /\ b \in a..Len(text)
        BY <1>1, <2>2 DEF n
      <3> HIDE DEF text
      <3> QED
        BY <1>1, <3>1, ConcatAdjacentSubSeq
    <2>6. x \in Seq(W) /\ y \in Seq(W)
      <3>1. /\ \A k \in 1..a : text[k] \in W
            /\ \A k \in (a + 1)..b : text[k] \in W
            /\ 1 \in Int /\ a \in Int /\ b \in Int /\ a + 1 \in Int
        BY <1>1, <2>2 DEF n
      <3> HIDE DEF text
      <3> QED
        BY <3>1, SubSeqProperties
    <2>7. q[c + i] = q[c] \o x
      BY <1>17 DEF a
    <2> HIDE DEF x, y
    <2>8. Associates(q[c], x, y)
      BY <1>15, <2>6, Associative
    <2>9. q[c + (i + 1)] = q[c] \o (x \o y)
      BY <2>4, <2>7, <2>8, Zenon DEF Associates
    <2>10. q[c + (i + 1)] = q[c] \o upto(i + 1)
      BY <2>5, <2>9, Zenon DEF b
    <2> QED
      BY <2>1, <2>10
  <1>18. m \in T
    <2> HIDE DEF T
    <2>1. \A i \in 0..m : i \in T
      BY <1>2, <1>16, <1>17, InductionTo
    <2> QED
      BY <1>2, <2>1, m \in 0..m
  <1>19. upto(m) = text
    <2>1. SubSeq(text, 1, Len(text)) = text
      BY <1>1, SubSeqFull
    <2> QED
      BY <1>2, <2>1 DEF n
  <1>20. TextOf(all) = TextOf(chunks) \o text
    BY <1>13, <1>18, <1>19
  <1> QED
    BY <1>13, <1>15, <1>20 DEF all, slices

-----------------------------------------------------------------------------
(* The second pass keeps what the sections say.                            *)

GoodChunk(body, c) ==
    /\ \A w \in ToSet(c.text) : HeadingsOf(body, w[1]) = c.heading
    /\ Whole(body, Len(body), ToSet(c.text))
    /\ c.words > MaxWords => HasBlock(body, ToSet(c.text))
    /\ c.words >= Len(c.text)

Pending(g) == [heading |-> g.heading, text |-> g.text, words |-> g.words]

(* What is known of the second pass at any time, r what has been read. *)
Gathered(body, g, r) ==
    /\ g \in GathersOf(WordsOf(body))
    /\ TextOf(g.chunks) \o g.text = r
    /\ \A k \in 1..Len(g.chunks) : GoodChunk(body, g.chunks[k])
    /\ g.text = <<>> => g.words = 0

(* ... and between two sections. *)
GatherInv(body, g, r) ==
    /\ Gathered(body, g, r)
    /\ g.words >= Len(g.text) /\ g.words <= MaxWords
    /\ \A w \in ToSet(g.text) :
         w[1] \in 1..Len(body) /\ HeadingsOf(body, w[1]) = g.heading /\ ~Fenced(body, w)

(* Text without a line of a fence divides none. *)
LEMMA UnfencedWhole ==
    ASSUME NEW body \in Seq(Lines), NEW said, \A w \in said : ~Fenced(body, w)
    PROVE  Whole(body, Len(body), said)
  <1> SUFFICES ASSUME NEW a \in 1..Len(body), NEW b \in 1..Len(body), SameBlock(body, a, b)
               PROVE  Together(body, a, b, said)
    BY DEF Whole
  <1>1. a \in Nat /\ b \in Nat
    OBVIOUS
  <1>2. FenceAt(body)[a] # NoFence /\ FenceAt(body)[b - 1] # NoFence
    BY <1>1, SameBlockIs
  <1>3. \A w \in OfLine(body, a) : w[1] = a
    BY OfLineIs
  <1>4. \A w \in OfLine(body, b) : w[1] = b
    BY OfLineIs
  <1>5. \A w \in OfLine(body, a) \cup OfLine(body, b) : Fenced(body, w)
    BY <1>2, <1>3, <1>4 DEF Fenced
  <1> QED
    BY <1>5 DEF Together

LEMMA PendingIsGood ==
    ASSUME NEW body \in Seq(Lines), NEW g, NEW r, GatherInv(body, g, r)
    PROVE  GoodChunk(body, Pending(g))
  <1>1. Pending(g).text = g.text /\ Pending(g).heading = g.heading /\ Pending(g).words = g.words
    BY DEF Pending
  <1>2. Whole(body, Len(body), ToSet(g.text))
    BY UnfencedWhole DEF GatherInv
  <1>3. g.words \in Nat /\ MaxWords \in Nat
    BY ChunkingAssumption DEF GatherInv, Gathered, GathersOf
  <1>4. ~(g.words > MaxWords)
    BY <1>3 DEF GatherInv
  <1> QED
    BY <1>1, <1>2, <1>4 DEF GoodChunk, GatherInv

LEMMA TextOfChunks ==
    ASSUME NEW W, NEW chunks \in Seq(ChunksIn(W))
    PROVE  TextOf(chunks) \in Seq(W) /\ TextOf(chunks) \o <<>> = TextOf(chunks)
  <1>1. [heading |-> <<>>, text |-> <<>>, atomic |-> FALSE] \in SectionsOf(W)
    BY DEF SectionsOf
  <1>2. TextOf(chunks) \in Seq(W)
    BY <1>1, SlicesText
  <1> QED
    BY <1>2, ConcatEmptySeq

(* A chunk that is pushed is added to good ones. *)
LEMMA PushKeeps ==
    ASSUME NEW body \in Seq(Lines), NEW g, NEW r, Gathered(body, g, r), GoodChunk(body, Pending(g))
    PROVE  /\ Gathered(body, Push(g), r) /\ GatherInv(body, Push(g), r)
           /\ TextOf(Push(g).chunks) = r
           /\ Push(g).text = <<>> /\ Push(g).words = 0 /\ Push(g).heading = g.heading
  <1> DEFINE W == WordsOf(body)
             h == Push(g)
  <1>1. g \in GathersOf(W) /\ g.chunks \in Seq(ChunksIn(W)) /\ g.text \in Seq(W)
    BY DEF Gathered, GathersOf
  <1>2. h \in GathersOf(W) /\ h.text = <<>> /\ h.heading = g.heading
    BY <1>1, PushType
  <1> HIDE DEF h, W
  <1>3. TextOf(h.chunks) = r /\ h.words = 0 /\ \A k \in 1..Len(h.chunks) : GoodChunk(body, h.chunks[k])
    <2>1. CASE g.text = <<>>
      <3>1. h = g
        BY <2>1 DEF Push, h
      <3>2. TextOf(g.chunks) \o <<>> = TextOf(g.chunks)
        BY <1>1, TextOfChunks
      <3> QED
        BY <2>1, <3>1, <3>2 DEF Gathered
    <2>2. CASE g.text # <<>>
      <3> DEFINE c == Pending(g)
                 new == Append(g.chunks, c)
                 n == Len(g.chunks)
      <3>1. c \in ChunksIn(W) /\ c.text = g.text /\ c.text \in Seq(W)
        <4>1. c = [heading |-> g.heading, text |-> g.text, words |-> g.words]
          BY DEF Pending
        <4> QED
          BY <1>1, <2>2, <4>1 DEF ChunksIn, GathersOf
      <3>2. h = [g EXCEPT !.chunks = new, !.text = <<>>, !.words = 0]
        BY <2>2 DEF Push, h, Pending
      <3> HIDE DEF c
      <3>3. new \in Seq(ChunksIn(W)) /\ Len(new) = n + 1 /\ n \in Nat /\ new[n + 1] = c
            /\ \A k \in 1..n : new[k] = g.chunks[k]
        BY <1>1, <3>1, AppendAt, AppendType
      <3> HIDE DEF new
      <3>4. h.chunks = new /\ h.words = 0
        BY <1>1, <3>2 DEF GathersOf
      <3>5. /\ DOMAIN g.chunks = 1..n /\ DOMAIN new = 1..(n + 1)
            /\ \A k \in 1..n : g.chunks[k].text \in Seq(W)
        <4>1. \A k \in 1..n : g.chunks[k] \in ChunksIn(W)
          BY <1>1
        <4>2. \A x \in ChunksIn(W) : x.text \in Seq(W)
          BY DEF ChunksIn
        <4> QED
          BY <1>1, <3>3, <4>1, <4>2
      <3>6. Extended(W, g.chunks, n, new)
        BY <3>1, <3>3, <3>5 DEF Extended
      <3>7. LongerText(W, g.chunks, n, new)
        <4> HIDE DEF n
        <4> QED
          BY <3>6, TextOfAppend, Zenon
      <3>8. TextOf(new) = TextOf(g.chunks) \o g.text
        BY <3>1, <3>3, <3>7 DEF LongerText
      <3>9. ASSUME NEW k \in 1..(n + 1) PROVE GoodChunk(body, new[k])
        <4>1. CASE k = n + 1
          BY <3>3, <4>1 DEF c
        <4>2. CASE k # n + 1
          <5>1. k \in 1..n
            BY <3>3, <4>2
          <5> QED
            BY <3>3, <5>1 DEF Gathered
        <4> QED
          BY <4>1, <4>2
      <3> QED
        BY <3>3, <3>4, <3>8, <3>9 DEF Gathered
    <2> QED
      BY <2>1, <2>2
  <1>4. TextOf(h.chunks) \o h.text = r
    <2>1. h.chunks \in Seq(ChunksIn(W))
      BY <1>2 DEF GathersOf
    <2>2. TextOf(h.chunks) \o <<>> = TextOf(h.chunks)
      BY <2>1, TextOfChunks
    <2> QED
      BY <1>2, <1>3, <2>2
  <1>5. Gathered(body, h, r)
    BY <1>2, <1>3, <1>4 DEF Gathered, W
  <1>6. GatherInv(body, h, r)
    <2>1. ToSet(h.text) = {} /\ Len(h.text) = 0 /\ h.words = 0 /\ MaxWords \in Nat
      BY <1>2, <1>3, ToSetEmpty, ChunkingAssumption
    <2> QED
      BY <1>5, <2>1 DEF GatherInv
  <1> QED
    BY <1>2, <1>3, <1>5, <1>6 DEF h

(* One section is read: its text is put after what has been read. *)
Follows(body, g, section, r) ==
    /\ GatherInv(body, g, r)
    /\ section \in SectionsOf(WordsOf(body))
    /\ Faithful(body, Len(body), section.heading, ToSet(section.text), section.atomic)

(* A section with a fence or a list is a chunk of its own. *)
LEMMA AtomicKept ==
    ASSUME NEW body \in Seq(Lines), NEW g, NEW section, NEW r, Follows(body, g, section, r),
           section.atomic
    PROVE  GatherInv(body, AddSection(g, section), r \o section.text)
  <1> DEFINE W == WordsOf(body)
             n == Len(section.text)
             h == Push(g)
             own == [h EXCEPT !.heading = section.heading, !.text = section.text, !.words = n]
             after == r \o section.text
  <1>1. section.text \in Seq(W) /\ section.heading \in Seq(STRING) /\ n \in Nat
    BY DEF Follows, SectionsOf
  <1>2. /\ Gathered(body, h, r) /\ TextOf(h.chunks) = r
    BY PendingIsGood, PushKeeps DEF Follows, GatherInv
  <1>3. h \in GathersOf(W) /\ \A k \in 1..Len(h.chunks) : GoodChunk(body, h.chunks[k])
    BY <1>2 DEF Gathered
  <1>4. AddSection(g, section) = Push(own)
    BY DEF AddSection
  <1> HIDE DEF h, W
  <1>5. /\ own \in GathersOf(W) /\ own.chunks = h.chunks /\ own.heading = section.heading
        /\ own.text = section.text /\ own.words = n
    BY <1>1, <1>3 DEF GathersOf
  <1> HIDE DEF own
  <1>6. own.text # <<>>
    <2>1. HasBlock(body, ToSet(section.text))
      BY DEF Follows, Faithful
    <2>2. ToSet(section.text) # {}
      BY <2>1 DEF HasBlock
    <2> QED
      BY <1>5, <2>2, ToSetEmpty
  <1>7. Gathered(body, own, after)
    <2>1. TextOf(own.chunks) \o own.text = after
      BY <1>2, <1>5
    <2> HIDE DEF after
    <2> QED
      BY <1>3, <1>5, <1>6, <2>1 DEF Gathered, W
  <1> HIDE DEF after
  <1>8. GoodChunk(body, Pending(own))
    <2>1. /\ Pending(own).heading = section.heading /\ Pending(own).text = section.text
          /\ Pending(own).words = n
      BY <1>5 DEF Pending
    <2>2. /\ \A w \in ToSet(section.text) : HeadingsOf(body, w[1]) = section.heading
          /\ Whole(body, Len(body), ToSet(section.text)) /\ HasBlock(body, ToSet(section.text))
      BY DEF Follows, Faithful
    <2>3. n >= Len(section.text)
      BY <1>1
    <2> QED
      BY <2>1, <2>2, <2>3 DEF GoodChunk
  <1>9. GatherInv(body, Push(own), after)
    BY <1>7, <1>8, PushKeeps
  <1> QED
    BY <1>4, <1>9 DEF after

(* A section above the limit is cut, after the pending text is pushed. *)
LEMMA CutKept ==
    ASSUME NEW body \in Seq(Lines), NEW g, NEW section, NEW r, Follows(body, g, section, r),
           ~section.atomic, Len(section.text) > MaxWords
    PROVE  GatherInv(body, AddSection(g, section), r \o section.text)
  <1> DEFINE W == WordsOf(body)
             h == Push(g)
             slices == Slices(section)
             all == h.chunks \o slices
             i == [h EXCEPT !.chunks = all]
             after == r \o section.text
             c == Len(h.chunks)
             m == Len(slices)
  <1>1. section \in SectionsOf(W) /\ section.text \in Seq(W)
    BY DEF Follows, SectionsOf
  <1>2. /\ Gathered(body, h, r) /\ TextOf(h.chunks) = r /\ h.text = <<>> /\ h.words = 0
    BY PendingIsGood, PushKeeps DEF Follows, GatherInv
  <1>3. /\ h \in GathersOf(W) /\ h.chunks \in Seq(ChunksIn(W))
        /\ \A k \in 1..c : GoodChunk(body, h.chunks[k])
    BY <1>2 DEF Gathered, GathersOf
  <1>4. AddSection(g, section) = i
    BY DEF AddSection
  <1>5. /\ m \in Nat /\ slices \in Seq(ChunksIn(W))
        /\ \A k \in 1..m : /\ slices[k].heading = section.heading
                           /\ slices[k].words = Len(slices[k].text) /\ slices[k].words <= MaxWords
                           /\ ToSet(slices[k].text) \subseteq ToSet(section.text)
    <2> HIDE DEF W
    <2>1. slices \in Seq(ChunksIn(W)) /\ m = SliceCount(Len(section.text))
      BY <1>1, SlicesAre
    <2>2. m \in Nat
      BY <2>1
    <2> QED
      BY <1>1, <2>1, <2>2, SlicesAre
  <1> HIDE DEF slices, h, W
  <1>6. /\ all \in Seq(ChunksIn(W)) /\ Len(all) = c + m /\ c \in Nat
        /\ \A k \in 1..(c + m) : all[k] = IF k <= c THEN h.chunks[k] ELSE slices[k - c]
    BY <1>3, <1>5, ConcatProperties, LenProperties
  <1>7. TextOf(all) = after
    <2>1. TextOf(h.chunks \o Slices(section)) = TextOf(h.chunks) \o section.text
      BY <1>1, <1>3, SlicesText
    <2> QED
      BY <1>2, <2>1 DEF slices
  <1> HIDE DEF all, after
  <1>8. /\ i \in GathersOf(W) /\ i.chunks = all /\ i.text = <<>> /\ i.words = 0
    BY <1>2, <1>3, <1>6 DEF GathersOf
  <1> HIDE DEF i
  <1>9. ASSUME NEW k \in 1..m PROVE GoodChunk(body, slices[k])
    <2>1. \A w \in ToSet(section.text) :
            w[1] \in 1..Len(body) /\ HeadingsOf(body, w[1]) = section.heading /\ ~Fenced(body, w)
      BY DEF Follows, Faithful
    <2>2. \A w \in ToSet(slices[k].text) :
            w[1] \in 1..Len(body) /\ HeadingsOf(body, w[1]) = section.heading /\ ~Fenced(body, w)
      BY <1>5, <2>1
    <2>3. Whole(body, Len(body), ToSet(slices[k].text))
      BY <2>2, UnfencedWhole
    <2>4. slices[k].words \in Nat /\ MaxWords \in Nat
      <3>1. slices[k] \in ChunksIn(W)
        BY <1>5
      <3> QED
        BY <3>1, ChunkingAssumption DEF ChunksIn
    <2>5. ~(slices[k].words > MaxWords) /\ slices[k].words >= Len(slices[k].text)
      BY <1>5, <2>4
    <2> QED
      BY <1>5, <2>2, <2>3, <2>5 DEF GoodChunk
  <1>10. ASSUME NEW k \in 1..Len(i.chunks) PROVE GoodChunk(body, i.chunks[k])
    <2>1. k \in 1..(c + m)
      BY <1>6, <1>8
    <2>2. CASE k <= c
      <3>1. k \in 1..c /\ all[k] = h.chunks[k]
        BY <1>6, <2>1, <2>2
      <3> QED
        BY <1>3, <1>8, <3>1
    <2>3. CASE ~(k <= c)
      <3>1. k - c \in 1..m /\ all[k] = slices[k - c]
        BY <1>5, <1>6, <2>1, <2>3
      <3> QED
        BY <1>8, <1>9, <3>1
    <2> QED
      BY <2>2, <2>3
  <1>11. TextOf(i.chunks) \o i.text = after
    <2>1. TextOf(all) \o <<>> = TextOf(all)
      BY <1>6, TextOfChunks
    <2> QED
      BY <1>7, <1>8, <2>1
  <1>12. Gathered(body, i, after)
    BY <1>8, <1>10, <1>11 DEF Gathered, W
  <1>13. ToSet(i.text) = {} /\ Len(i.text) = 0 /\ i.words = 0 /\ MaxWords \in Nat
    BY <1>8, ToSetEmpty, ChunkingAssumption
  <1>14. GatherInv(body, i, after)
    BY <1>12, <1>13 DEF GatherInv
  <1> QED
    BY <1>4, <1>14 DEF after

(* Any other section joins the pending text, or the pending text is pushed *)
(* before it.                                                              *)
LEMMA JoinKept ==
    ASSUME NEW body \in Seq(Lines), NEW g, NEW section, NEW r, Follows(body, g, section, r),
           ~section.atomic, ~(Len(section.text) > MaxWords)
    PROVE  GatherInv(body, AddSection(g, section), r \o section.text)
  <1> DEFINE W == WordsOf(body)
             n == Len(section.text)
             h == Push(g)
             joined == g.words + (IF g.text = <<>> THEN 0 ELSE 1) + n
             new == [h EXCEPT !.heading = section.heading]
             kept == IF g.heading # section.heading \/ joined > MaxWords THEN new ELSE g
             words == kept.words + (IF kept.text = <<>> THEN 0 ELSE 1) + n
             text == kept.text \o section.text
             i == [kept EXCEPT !.words = words, !.text = text]
             after == r \o section.text
  <1>1. section.text \in Seq(W) /\ section.heading \in Seq(STRING) /\ n \in Nat /\ MaxWords \in Nat
    BY ChunkingAssumption DEF Follows, SectionsOf
  <1>2. \A w \in ToSet(section.text) :
          w[1] \in 1..Len(body) /\ HeadingsOf(body, w[1]) = section.heading /\ ~Fenced(body, w)
    BY DEF Follows, Faithful
  <1>3. GatherInv(body, g, r)
    BY DEF Follows
  <1>4. GatherInv(body, h, r) /\ h.text = <<>> /\ h.words = 0
    BY <1>3, PendingIsGood, PushKeeps DEF GatherInv
  <1>5. AddSection(g, section) = i
    BY DEF AddSection
  <1> HIDE DEF h
  <1>6. GatherInv(body, new, r) /\ new.heading = section.heading /\ new.text = <<>> /\ new.words = 0
    <2>1. h \in GathersOf(W)
      BY <1>4 DEF GatherInv, Gathered
    <2>2. /\ new \in GathersOf(W) /\ new.chunks = h.chunks /\ new.heading = section.heading
          /\ new.text = h.text /\ new.words = h.words
      BY <1>1, <2>1 DEF GathersOf
    <2> HIDE DEF new
    <2>3. Gathered(body, new, r)
      BY <1>4, <2>2 DEF GatherInv, Gathered
    <2>4. ToSet(new.text) = {} /\ Len(new.text) = 0 /\ new.words = 0
      BY <1>4, <2>2, ToSetEmpty
    <2> QED
      BY <1>1, <1>4, <2>2, <2>3, <2>4 DEF GatherInv
  <1> HIDE DEF new
  <1>7. /\ GatherInv(body, kept, r) /\ kept.heading = section.heading
        /\ kept.words + (IF kept.text = <<>> THEN 0 ELSE 1) + n <= MaxWords
    <2>1. CASE g.heading # section.heading \/ joined > MaxWords
      <3>1. kept = new
        BY <2>1
      <3> HIDE DEF kept
      <3> QED
        BY <1>1, <1>6, <3>1
    <2>2. CASE ~(g.heading # section.heading \/ joined > MaxWords)
      <3>1. kept = g /\ g.heading = section.heading /\ ~(joined > MaxWords)
        BY <2>2
      <3>2. g.words \in Nat
        BY <1>3 DEF GatherInv, Gathered, GathersOf
      <3>3. joined <= MaxWords
        BY <1>1, <3>1, <3>2
      <3> HIDE DEF kept
      <3> QED
        BY <1>3, <3>1, <3>3
    <2> QED
      BY <2>1, <2>2
  <1> HIDE DEF kept, W, n
  <1>8. /\ kept \in GathersOf(W) /\ kept.text \in Seq(W) /\ kept.words \in Nat
        /\ kept.chunks \in Seq(ChunksIn(W)) /\ kept.words >= Len(kept.text)
        /\ kept.text = <<>> => kept.words = 0
    BY <1>7 DEF GatherInv, Gathered, GathersOf, W
  <1>9. text \in Seq(W) /\ ToSet(text) = ToSet(kept.text) \cup ToSet(section.text)
    <2>1. section.text \in Seq(W)
      BY <1>1
    <2> QED
      BY <1>8, <2>1, ToSetConcat
  <1>10. Len(text) = Len(kept.text) + n /\ Len(kept.text) \in Nat
    BY <1>1, <1>8 DEF n
  <1>11. TextOf(kept.chunks) \o text = after
    <2>1. TextOf(kept.chunks) \in Seq(W) /\ section.text \in Seq(W)
      BY <1>1, <1>8, TextOfChunks
    <2>2. Associates(TextOf(kept.chunks), kept.text, section.text)
      BY <1>8, <2>1, Associative
    <2>3. TextOf(kept.chunks) \o kept.text = r
      BY <1>7 DEF GatherInv, Gathered
    <2> QED
      BY <2>2, <2>3, Zenon DEF Associates
  <1>12. text = <<>> => words = 0
    <2>1. ASSUME text = <<>> PROVE n = 0 /\ kept.text = <<>>
      <3> HIDE DEF text
      <3>1. Len(text) = 0
        BY <2>1
      <3> DEFINE a == Len(kept.text)
      <3>3. a + n = 0 /\ a \in Nat /\ n \in Nat
        BY <1>1, <1>10, <3>1
      <3> HIDE DEF a
      <3>4. n = 0 /\ a = 0
        BY <3>3
      <3>2. n = 0 /\ Len(kept.text) = 0
        BY <3>4 DEF a
      <3> QED
        BY <1>8, <3>2
    <2> QED
      BY <1>8, <2>1
  <1>13. words \in Nat /\ words >= Len(text) /\ words <= MaxWords
    <2> DEFINE a == Len(kept.text)
               b == Len(text)
               between == IF kept.text = <<>> THEN 0 ELSE 1
    <2>1. b = a + n /\ a \in Nat /\ n \in Nat /\ MaxWords \in Nat /\ kept.words \in Nat
          /\ kept.words >= a /\ between \in Nat
      BY <1>1, <1>8, <1>10
    <2>2. kept.words + between + n <= MaxWords
      BY <1>7
    <2> HIDE DEF a, b, between
    <2>3. /\ kept.words + between + n \in Nat /\ kept.words + between + n >= b
          /\ kept.words + between + n <= MaxWords
      BY <2>1, <2>2
    <2> QED
      BY <2>3 DEF b, between
  <1> HIDE DEF text, words, after
  <1>14. /\ i \in GathersOf(W) /\ i.chunks = kept.chunks /\ i.heading = kept.heading
         /\ i.text = text /\ i.words = words
    BY <1>8, <1>9, <1>13 DEF GathersOf
  <1> HIDE DEF i
  <1>15. Gathered(body, i, after)
    BY <1>7, <1>11, <1>12, <1>14 DEF GatherInv, Gathered, W
  <1>16. ASSUME NEW w \in ToSet(i.text)
         PROVE  w[1] \in 1..Len(body) /\ HeadingsOf(body, w[1]) = i.heading /\ ~Fenced(body, w)
    <2>1. CASE w \in ToSet(kept.text)
      BY <1>7, <1>14, <2>1 DEF GatherInv
    <2>2. CASE w \in ToSet(section.text)
      BY <1>2, <1>7, <1>14, <2>2
    <2> QED
      BY <1>9, <1>14, <1>16, <2>1, <2>2
  <1>17. GatherInv(body, i, after)
    BY <1>13, <1>14, <1>15, <1>16 DEF GatherInv
  <1> QED
    BY <1>5, <1>17 DEF after

LEMMA GatherKeeps ==
    ASSUME NEW body \in Seq(Lines), NEW g, NEW section, NEW r, Follows(body, g, section, r)
    PROVE  GatherInv(body, AddSection(g, section), r \o section.text)
  BY AtomicKept, CutKept, JoinKept

-----------------------------------------------------------------------------
(* What a body's chunks keep.                                              *)

LEMMA ChunksKeep ==
    ASSUME NEW body \in Seq(Lines)
    PROVE  /\ TextOf(Chunks(body)) = BodyText(body)
           /\ \A k \in 1..Len(Chunks(body)) : GoodChunk(body, Chunks(body)[k])
  <1> DEFINE W == WordsOf(body)
             sections == Sections(body)
             n == Len(sections)
             tt == [k \in DOMAIN sections |-> sections[k].text]
  <1>1. sections \in Seq(SectionsOf(W)) /\ n \in Nat
    BY SectionsType
  <1>2. /\ TextOf(sections) = BodyText(body)
        /\ \A k \in 1..n :
             Faithful(body, Len(body), sections[k].heading, ToSet(sections[k].text), sections[k].atomic)
    BY SectionsFaithful
  <1>3. Chunks(body) = Push(FoldLeft(AddSection, Gather, sections)).chunks
    BY DEF Chunks
  <1> HIDE DEF sections, W
  <1>4. PICK p : /\ p[0] = Gather
                 /\ \A k \in 1..n : p[k] = AddSection(p[k - 1], sections[k])
                 /\ FoldLeft(AddSection, Gather, sections) = p[n]
    BY <1>1, ChunksByPrefixes
  <1>5. \A x \in SectionsOf(W) : x.text \in Seq(W)
    BY DEF SectionsOf
  <1>6. /\ tt \in Seq(Seq(W)) /\ Len(tt) = n /\ \A k \in 1..n : tt[k] = sections[k].text
    <2>1. \A k \in 1..n : sections[k] \in SectionsOf(W)
      BY <1>1
    <2>2. tt \in [1..n -> Seq(W)] /\ \A k \in 1..n : tt[k] = sections[k].text
      BY <1>1, <1>5, <2>1
    <2> HIDE DEF tt
    <2> QED
      BY <1>1, <2>2, IsSequence
  <1>7. TextOf(sections) = FlattenSeq(tt)
    BY DEF TextOf
  <1> HIDE DEF tt, n
  <1>8. PICK q : IsFlat(W, tt, q)
    BY <1>6, FlattenByPrefixes
  <1>9. /\ q[0] = <<>> /\ q[n] = BodyText(body)
        /\ \A k \in 1..n : q[k] = q[k - 1] \o sections[k].text
    BY <1>2, <1>6, <1>7, <1>8 DEF IsFlat
  <1> DEFINE T == {k \in 0..n : GatherInv(body, p[k], q[k])}
  <1>10. 0 \in T
    <2>1. 0 \in 0..n
      BY <1>1
    <2>2. GatherInv(body, Gather, <<>>)
      <3>1. /\ Gather \in GathersOf(W) /\ Gather.chunks = <<>> /\ Gather.text = <<>>
            /\ Gather.words = 0
        BY DEF Gather, GathersOf
      <3>2. /\ ToSet(Gather.text) = {} /\ Len(Gather.text) = 0 /\ Len(Gather.chunks) = 0
            /\ MaxWords \in Nat
        BY <3>1, ToSetEmpty, ChunkingAssumption
      <3>3. TextOf(Gather.chunks) \o Gather.text = <<>>
        <4>1. <<>> \in Seq(W) /\ TextOf(<<>>) = <<>>
          BY TextOfNone
        <4>2. <<>> \o <<>> = <<>>
          BY <4>1, ConcatEmptySeq
        <4> QED
          BY <3>1, <4>1, <4>2
      <3>4. Gathered(body, Gather, <<>>)
        BY <3>1, <3>2, <3>3 DEF Gathered, W
      <3> QED
        BY <3>1, <3>2, <3>4 DEF GatherInv
    <2>3. GatherInv(body, p[0], q[0])
      BY <1>4, <1>9, <2>2, Zenon
    <2> QED
      BY <2>1, <2>3
  <1>11. ASSUME NEW k \in 0..(n - 1), k \in T PROVE k + 1 \in T
    <2> DEFINE j == k + 1
    <2>1. j \in 1..n /\ j \in 0..n /\ j - 1 = k
      BY <1>1
    <2> HIDE DEF j
    <2>2. p[j] = AddSection(p[k], sections[j]) /\ q[j] = q[k] \o sections[j].text
      BY <1>4, <1>9, <2>1
    <2>3. GatherInv(body, p[k], q[k])
      BY <1>11
    <2>4. sections[j] \in SectionsOf(W)
      BY <1>1, <2>1 DEF n
    <2>5. Faithful(body, Len(body), sections[j].heading, ToSet(sections[j].text), sections[j].atomic)
      BY <1>2, <2>1
    <2>6. Follows(body, p[k], sections[j], q[k])
      BY <2>3, <2>4, <2>5 DEF Follows, W
    <2>7. GatherInv(body, AddSection(p[k], sections[j]), q[k] \o sections[j].text)
      BY <2>6, GatherKeeps
    <2>8. GatherInv(body, p[j], q[j])
      BY <2>2, <2>7, Zenon
    <2>9. j \in T
      BY <2>1, <2>8
    <2> QED
      BY <2>9 DEF j
  <1>12. GatherInv(body, p[n], q[n])
    <2> HIDE DEF T
    <2>1. \A k \in 0..n : k \in T
      BY <1>1, <1>10, <1>11, InductionTo
    <2>2. n \in T
      BY <1>1, <2>1, n \in 0..n DEF n
    <2> QED
      BY <2>2 DEF T
  <1>13. /\ Gathered(body, Push(p[n]), q[n]) /\ TextOf(Push(p[n]).chunks) = q[n]
    BY <1>12, PendingIsGood, PushKeeps DEF GatherInv
  <1>14. Chunks(body) = Push(p[n]).chunks
    BY <1>3, <1>4
  <1> QED
    BY <1>9, <1>13, <1>14 DEF Gathered

(* Every body's chunks hold its text and divide no block.                  *)
LEMMA ChunksAreKept ==
    ASSUME NEW body \in Seq(Lines)
    PROVE  WordsKept(body) /\ BlocksKept(body)
  <1>1. /\ Chunks(body) \in Seq(ChunksIn(WordsOf(body)))
        /\ DOMAIN Chunks(body) = 1..Len(Chunks(body))
    BY ChunksType
  <1>2. /\ TextOf(Chunks(body)) = BodyText(body)
        /\ \A k \in DOMAIN Chunks(body) : GoodChunk(body, Chunks(body)[k])
    BY <1>1, ChunksKeep
  <1>3. WordsKept(body)
    BY <1>2 DEF WordsKept, GoodChunk
  <1>4. BlocksKept(body)
    BY <1>2 DEF BlocksKept, GoodChunk, Whole, Together, OfLine, HasBlock
  <1> QED
    BY <1>3, <1>4

=============================================================================
