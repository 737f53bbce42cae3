---------------------------- MODULE AnalysisProofs ----------------------------
(***************************************************************************)
(* Theorems about one analysis of a tender, for every document, corpus,    *)
(* ranking, answer and number of queries, agents and retries: what an      *)
(* agent reads (Retrieval), what the worker stores of its answers          *)
(* (Extraction), and how the documents are cut into chunks (Chunking).     *)
(*                                                                         *)
(* The chunks of a context and the positions of kept assessments are       *)
(* sequences CHOSEN for their order.  That there is such a sequence is     *)
(* OrderExists: each element of a finite set, strictly ordered, goes to    *)
(* the place after as many as come before it.                              *)
(***************************************************************************)
EXTENDS Retrieval, Extraction, Chunking, SumProofs, SequenceTheorems

\* Finite sets in a strict order.

\* R orders the set S strictly and totally.
StrictOrder(S, R) ==
    /\ \A x \in S : <<x, x>> \notin R
    /\ \A x, y, z \in S : <<x, y>> \in R /\ <<y, z>> \in R => <<x, z>> \in R
    /\ \A x, y \in S : x # y => <<x, y>> \in R \/ <<y, x>> \in R

\* s runs through S along R.
Along(s, R) == \A i, j \in DOMAIN s : i < j => <<s[i], s[j]>> \in R

\* An enumeration of a finite set meets every element at one place.
LEMMA Enumerated ==
    ASSUME NEW S, IsFiniteSet(S), NEW s \in SetToSeqs(S)
    PROVE  /\ Cardinality(S) \in Nat /\ s \in [1 .. Cardinality(S) -> S]
           /\ DOMAIN s = 1 .. Cardinality(S) /\ s \in Seq(S) /\ Len(s) = Cardinality(S)
           /\ \A i, j \in DOMAIN s : s[i] = s[j] => i = j
           /\ \A i \in DOMAIN s : s[i] \in S
           /\ \A x \in S : \E i \in DOMAIN s : s[i] = x
<1> DEFINE n == Cardinality(S)
<1>1. n \in Nat
  BY FS_CardinalityType
<1>2. s \in [1 .. n -> S] /\ \A i, j \in 1 .. n : i # j => s[i] # s[j]
  BY DEF SetToSeqs
<1>3. s \in Injection(1 .. n, S)
  BY <1>2 DEF Injection, IsInjective
<1>4. Cardinality(1 .. n) = n
  BY <1>1, FS_Interval
<1>5. s \in Surjection(1 .. n, S)
  BY <1>3, <1>4, FS_Injection
<1>6. \A x \in S : \E i \in 1 .. n : s[i] = x
  BY <1>5 DEF Surjection
<1>7. s \in Seq(S) /\ Len(s) = n
  BY <1>1, <1>2
<1> QED
  BY <1>1, <1>2, <1>6, <1>7

\* A finite set can be enumerated along each strict order of it: every element stands
\* behind as many as come before it.
LEMMA OrderExists ==
    ASSUME NEW S, IsFiniteSet(S), NEW R, StrictOrder(S, R)
    PROVE  \E s \in SetToSeqs(S) : Along(s, R)
<1> DEFINE n == Cardinality(S)
           Lower(x) == {y \in S : <<y, x>> \in R}
           rank == [x \in S |-> Cardinality(Lower(x)) + 1]
<1>1. n \in Nat
  BY FS_CardinalityType
<1>2. ASSUME NEW x \in S PROVE IsFiniteSet(Lower(x)) /\ rank[x] \in 1 .. n
  <2>1. Lower(x) \subseteq S \ {x}
    BY DEF StrictOrder
  <2>2. IsFiniteSet(S \ {x}) /\ Cardinality(S \ {x}) = n - 1
    BY FS_RemoveElement
  <2> DEFINE A == Lower(x)
             B == S \ {x}
  <2> HIDE DEF A, B
  <2>3. IsFiniteSet(A) /\ Cardinality(A) <= Cardinality(B)
    <3>1. IsFiniteSet(B) /\ A \in SUBSET B
      BY <2>1, <2>2 DEF A, B
    <3> QED
      BY ONLY <3>1, FS_Subset
  <2>4. Cardinality(A) \in Nat
    BY <2>3, FS_CardinalityType
  <2> QED
    BY <2>2, <2>3, <2>4, <1>1 DEF A, B
<1>3. ASSUME NEW x \in S, NEW y \in S, <<x, y>> \in R PROVE rank[x] < rank[y]
  <2>1. x \notin Lower(x) /\ Lower(x) \cup {x} \subseteq Lower(y)
    BY <1>3 DEF StrictOrder
  <2>2. IsFiniteSet(Lower(x)) /\ IsFiniteSet(Lower(y))
    BY <1>2
  <2> DEFINE A == Lower(x)
             B == Lower(y)
  <2> HIDE DEF A, B
  <2>3. IsFiniteSet(A \cup {x}) /\ Cardinality(A \cup {x}) = Cardinality(A) + 1
    BY <2>1, <2>2, FS_AddElement DEF A
  <2>4. Cardinality(A) + 1 <= Cardinality(B)
    <3>1. IsFiniteSet(B) /\ (A \cup {x}) \in SUBSET B
      BY <2>1, <2>2 DEF A, B
    <3>2. Cardinality(A \cup {x}) <= Cardinality(B)
      BY ONLY <3>1, FS_Subset
    <3> QED
      BY <2>3, <3>2
  <2>5. Cardinality(A) \in Nat /\ Cardinality(B) \in Nat
    BY <2>2, FS_CardinalityType DEF A, B
  <2> QED
    BY <2>4, <2>5 DEF A, B
<1> HIDE DEF rank
<1>4. rank \in [S -> 1 .. n]
  BY <1>2 DEF rank
<1>5. \A x, y \in S : rank[x] = rank[y] => x = y
  <2> SUFFICES ASSUME NEW x \in S, NEW y \in S, rank[x] = rank[y], x # y PROVE FALSE
    OBVIOUS
  <2>1. rank[x] < rank[y] \/ rank[y] < rank[x]
    BY <1>3 DEF StrictOrder
  <2>2. rank[x] \in Nat /\ rank[y] \in Nat
    BY <1>1, <1>4
  <2> QED
    BY <2>1, <2>2
<1>6. rank \in Surjection(S, 1 .. n)
  <2>1. rank \in Injection(S, 1 .. n)
    BY <1>4, <1>5 DEF Injection, IsInjective
  <2>2. IsFiniteSet(1 .. n) /\ Cardinality(1 .. n) = n
    BY <1>1, FS_Interval
  <2> QED
    BY <2>1, <2>2, FS_Injection
<1> DEFINE s == [k \in 1 .. n |-> CHOOSE x \in S : rank[x] = k]
<1>7. \A k \in 1 .. n : s[k] \in S /\ rank[s[k]] = k
  <2> SUFFICES ASSUME NEW k \in 1 .. n PROVE s[k] \in S /\ rank[s[k]] = k
    OBVIOUS
  <2>1. \E x \in S : rank[x] = k
    BY <1>6 DEF Surjection
  <2> QED
    BY <2>1
<1>8. s \in SetToSeqs(S)
  <2>1. DOMAIN s = 1 .. n /\ s \in [1 .. n -> S]
    BY <1>7
  <2> HIDE DEF s
  <2> QED
    BY <1>7, <2>1 DEF SetToSeqs
<1>9. DOMAIN s = 1 .. n
  OBVIOUS
<1> HIDE DEF s
<1>10. ASSUME NEW i \in 1 .. n, NEW j \in 1 .. n, i < j PROVE <<s[i], s[j]>> \in R
  <2>1. s[i] # s[j] /\ s[i] \in S /\ s[j] \in S
    BY <1>7, <1>10, <1>1
  <2>2. CASE <<s[j], s[i]>> \in R
    BY <1>3, <2>1, <2>2, <1>7, <1>10, <1>1
  <2> QED
    BY <2>1, <2>2 DEF StrictOrder
<1> QED
  BY <1>8, <1>9, <1>10 DEF Along

-----------------------------------------------------------------------------
(***************************************************************************)
(* Retrieval: ContextIsBest.  The scores of the last query alone say       *)
(* nothing of the context, so the invariant is about best: it holds for    *)
(* each chunk the greatest score of any hit so far (BestFound).  A chunk   *)
(* ranked lower in both indexes gets less for each (HigherScoresMore,      *)
(* since Unit is a multiple of every divisor), so fusion puts it behind.   *)
(***************************************************************************)

\* The greatest of finitely many numbers.
LEMMA GreatestExists ==
    ASSUME NEW S, IsFiniteSet(S), S \subseteq Int, S # {}
    PROVE  \E x \in S : \A y \in S : x >= y
<1> DEFINE R == {p \in S \X S : p[1] > p[2]}
<1>1. \A x, y \in S : <<x, y>> \in R <=> x > y
  OBVIOUS
<1> HIDE DEF R
<1>2. StrictOrder(S, R)
  BY <1>1 DEF StrictOrder
<1>3. PICK s \in SetToSeqs(S) : Along(s, R)
  BY <1>2, OrderExists
<1>4. /\ DOMAIN s = 1 .. Cardinality(S) /\ Cardinality(S) \in Nat
      /\ \A i \in DOMAIN s : s[i] \in S
      /\ \A x \in S : \E i \in DOMAIN s : s[i] = x
  BY Enumerated
<1>5. 1 \in DOMAIN s
  <2>1. PICK x \in S : TRUE
    OBVIOUS
  <2>2. PICK i \in DOMAIN s : s[i] = x
    BY <1>4
  <2>3. i \in 1 .. Cardinality(S) /\ Cardinality(S) \in Nat
    BY <1>4
  <2>4. 1 \in 1 .. Cardinality(S)
    BY <2>3
  <2> QED
    BY <1>4, <2>4
<1>6. ASSUME NEW y \in S PROVE s[1] >= y
  <2>1. PICK i \in DOMAIN s : s[i] = y
    BY <1>4
  <2>2. i = 1 \/ 1 < i
    BY <1>4
  <2>3. s[1] \in S /\ s[i] \in S
    BY <1>4, <1>5
  <2>4. CASE 1 < i
    <3>1. <<s[1], s[i]>> \in R
      BY <1>3, <1>5, <2>4 DEF Along
    <3> QED
      <4>1. s[1] > s[i]
        BY <1>1, <2>3, <3>1
      <4>2. s[1] \in Int /\ s[i] \in Int
        BY <2>3
      <4> QED
        BY <2>1, <4>1, <4>2
  <2> QED
    BY <2>1, <2>2, <2>3, <2>4
<1>7. s[1] \in S
  BY <1>4, <1>5
<1> QED
  BY <1>6, <1>7

-----------------------------------------------------------------------------
\* Scores of chunks, and the chunks in their order.
Scores(f) == DOMAIN f \subseteq Corpus /\ \A c \in DOMAIN f : f[c] \in Int

LEMMA OrderedSound ==
    ASSUME NEW f, Scores(f)
    PROVE  /\ IsFiniteSet(DOMAIN f) /\ Cardinality(DOMAIN f) \in Nat
           /\ Ordered(f) \in Seq(DOMAIN f) /\ Len(Ordered(f)) = Cardinality(DOMAIN f)
           /\ DOMAIN Ordered(f) = 1 .. Len(Ordered(f))
           /\ \A i \in 1 .. Len(Ordered(f)) : Ordered(f)[i] \in DOMAIN f
           /\ \A i, j \in 1 .. Len(Ordered(f)) : Ordered(f)[i] = Ordered(f)[j] => i = j
           /\ \A c \in DOMAIN f : \E i \in 1 .. Len(Ordered(f)) : Ordered(f)[i] = c
           /\ \A i, j \in 1 .. Len(Ordered(f)) : i < j => Before(f, Ordered(f)[i], Ordered(f)[j])
<1> DEFINE D == DOMAIN f
           R == {p \in D \X D : Before(f, p[1], p[2])}
<1>1. \A x, y \in D : <<x, y>> \in R <=> Before(f, x, y)
  OBVIOUS
<1>2. D \subseteq Nat /\ \A c \in D : f[c] \in Int
  BY RetrievalAssumption DEF Scores
<1>3. IsFiniteSet(D)
  BY RetrievalAssumption, FS_Subset DEF Scores
<1> HIDE DEF R, D
<1>4. StrictOrder(D, R)
  <2>1. \A x \in D : ~Before(f, x, x)
    BY <1>2 DEF Before
  <2>2. \A x, y, z \in D : Before(f, x, y) /\ Before(f, y, z) => Before(f, x, z)
    BY <1>2 DEF Before
  <2>3. \A x, y \in D : x # y => Before(f, x, y) \/ Before(f, y, x)
    BY <1>2 DEF Before
  <2> QED
    BY <1>1, <2>1, <2>2, <2>3 DEF StrictOrder
<1>5. PICK s \in SetToSeqs(D) : Along(s, R)
  BY <1>3, <1>4, OrderExists
<1>6. \A i \in DOMAIN s : s[i] \in D
  BY <1>3, Enumerated
<1>7. \A i, j \in DOMAIN s : i < j => Before(f, s[i], s[j])
  BY <1>1, <1>5, <1>6 DEF Along
<1> DEFINE t == Ordered(f)
<1>8. t \in SetToSeqs(D) /\ \A i, j \in DOMAIN t : i < j => Before(f, t[i], t[j])
  BY <1>5, <1>7 DEF Ordered, D
<1> HIDE DEF t
<1>9. /\ Cardinality(D) \in Nat /\ DOMAIN t = 1 .. Cardinality(D) /\ t \in Seq(D) /\ Len(t) = Cardinality(D)
      /\ \A i, j \in DOMAIN t : t[i] = t[j] => i = j
      /\ \A i \in DOMAIN t : t[i] \in D
      /\ \A x \in D : \E i \in DOMAIN t : t[i] = x
  BY <1>3, <1>8, Enumerated
<1> QED
  BY <1>3, <1>8, <1>9 DEF t, D

\* The first n of a sequence.
LEMMA TopSound ==
    ASSUME NEW n \in Nat, NEW S, NEW s \in Seq(S)
    PROVE  /\ Top(n, s) \in Seq(S) /\ Len(s) \in Nat
           /\ Len(Top(n, s)) = (IF n < Len(s) THEN n ELSE Len(s))
           /\ DOMAIN Top(n, s) = 1 .. Len(Top(n, s))
           /\ \A i \in 1 .. Len(Top(n, s)) : i \in 1 .. Len(s) /\ Top(n, s)[i] = s[i]
<1> DEFINE m == IF n < Len(s) THEN n ELSE Len(s)
<1>1. Len(s) \in Nat /\ m \in 0 .. Len(s) /\ m \in Nat
  OBVIOUS
<1>2. Top(n, s) = SubSeq(s, 1, m)
  BY DEF Top
<1> HIDE DEF m
<1>3. Top(n, s) \in Seq(S) /\ Len(Top(n, s)) = m /\ \A i \in 1 .. m : Top(n, s)[i] = s[i]
  BY <1>1, <1>2
<1> QED
  BY <1>1, <1>3 DEF m

-----------------------------------------------------------------------------
\* Fusion: a chunk higher in a ranking gets more for it.
LEMMA Divides ==
    ASSUME NEW u \in Nat \ {0}, NEW a \in Nat \ {0}, u % a = 0
    PROVE  u \div a \in Nat \ {0} /\ u = a * (u \div a)
OBVIOUS

LEMMA Divided ==
    ASSUME NEW u \in Nat \ {0}, NEW a \in Nat \ {0}, NEW b \in Nat \ {0}, u % a = 0, u % b = 0, a < b
    PROVE  u \div a > u \div b
<1> DEFINE p == u \div a
           q == u \div b
<1>1. p \in Nat \ {0} /\ q \in Nat \ {0} /\ u = a * p /\ u = b * q
  BY Divides
<1> HIDE DEF p, q
<1>2. CASE p <= q
  <2>1. a * p <= a * q
    BY <1>1, <1>2
  <2>2. a * q < b * q
    BY <1>1
  <2> QED
    BY <1>1, <2>1, <2>2
<1>3. p > q
  BY <1>1, <1>2
<1> QED
  BY <1>3 DEF p, q

\* What an index has returned: different chunks of the corpus, not too many.
Ranking(r) ==
    \E n \in 0 .. RankDepth : r \in [1 .. n -> Corpus] /\ \A i, j \in 1 .. n : r[i] = r[j] => i = j

LEMMA RankingsRank == (\A r \in Rankings : Ranking(r)) /\ Ranking(<<>>)
<1>1. ASSUME NEW r \in Rankings PROVE Ranking(r)
  <2>1. PICK n \in 0 .. RankDepth : r \in [1 .. n -> Corpus]
    BY DEF Rankings
  <2>2. \A i, j \in 1 .. n : r[i] = r[j] => i = j
    BY <2>1 DEF Rankings, IsInjective
  <2> QED
    BY <2>1, <2>2 DEF Ranking
<1>2. Ranking(<<>>)
  <2>1. 0 \in 0 .. RankDepth /\ <<>> \in [1 .. 0 -> Corpus]
    BY RetrievalAssumption
  <2> QED
    BY <2>1 DEF Ranking
<1> QED
  BY <1>1, <1>2

LEMMA RankShape ==
    ASSUME NEW r, Ranking(r)
    PROVE  /\ \A i \in DOMAIN r : i \in 1 .. RankDepth /\ r[i] \in Corpus
           /\ \A i, j \in DOMAIN r : r[i] = r[j] => i = j
           /\ ToSet(r) \subseteq Corpus
<1>1. PICK n \in 0 .. RankDepth : r \in [1 .. n -> Corpus] /\ \A i, j \in 1 .. n : r[i] = r[j] => i = j
  BY DEF Ranking
<1>2. RankDepth \in Nat
  BY RetrievalAssumption
<1> QED
  BY <1>1, <1>2 DEF ToSet

LEMMA RankScored ==
    ASSUME NEW r, Ranking(r), NEW i \in DOMAIN r
    PROVE  RankScore(r, r[i]) = Unit \div (RrfK + i) /\ RankScore(r, r[i]) \in Nat \ {0}
<1>1. i \in 1 .. RankDepth /\ \A j \in DOMAIN r : r[j] = r[i] => j = i
  BY RankShape
<1>2. (CHOOSE k \in DOMAIN r : r[k] = r[i]) = i
  BY <1>1
<1>3. r[i] \in ToSet(r)
  BY DEF ToSet
<1>4. RankScore(r, r[i]) = Unit \div (RrfK + i)
  BY <1>2, <1>3 DEF RankScore
<1>5. Unit \in Nat \ {0} /\ RrfK + i \in Nat \ {0} /\ Unit % (RrfK + i) = 0
  BY <1>1, RetrievalAssumption
<1> QED
  BY <1>4, <1>5, Divides

LEMMA RankScoreType ==
    ASSUME NEW r, Ranking(r), NEW c
    PROVE  RankScore(r, c) \in Nat /\ (c \notin ToSet(r) => RankScore(r, c) = 0)
<1>1. CASE c \in ToSet(r)
  <2>1. PICK i \in DOMAIN r : r[i] = c
    BY <1>1 DEF ToSet
  <2> QED
    BY <1>1, <2>1, RankScored
<1>2. CASE c \notin ToSet(r)
  BY <1>2 DEF RankScore
<1> QED
  BY <1>1, <1>2

LEMMA HigherScoresMore ==
    ASSUME NEW r, Ranking(r), NEW c, NEW d, c # d, NotBehind(r, c, d)
    PROVE  /\ RankScore(r, c) >= RankScore(r, d)
           /\ d \in ToSet(r) => RankScore(r, c) > RankScore(r, d)
<1>1. RankScore(r, c) \in Nat /\ RankScore(r, d) \in Nat
  BY RankScoreType
<1>2. CASE d \notin ToSet(r)
  BY <1>1, <1>2, RankScoreType
<1>3. CASE d \in ToSet(r)
  <2>1. PICK i \in DOMAIN r, j \in DOMAIN r : r[i] = c /\ r[j] = d /\ i <= j
    BY <1>3 DEF NotBehind
  <2>2. i \in 1 .. RankDepth /\ j \in 1 .. RankDepth /\ i < j
    BY <2>1, RankShape, RetrievalAssumption
  <2>3. /\ Unit \in Nat \ {0} /\ RrfK \in Nat \ {0} /\ RankDepth \in Nat
        /\ Unit % (RrfK + i) = 0 /\ Unit % (RrfK + j) = 0
    BY <2>2, RetrievalAssumption
  <2>6. i \in Nat /\ j \in Nat
    BY <2>2, <2>3
  <2>7. RrfK + i \in Nat \ {0} /\ RrfK + j \in Nat \ {0} /\ RrfK + i < RrfK + j
    BY <2>2, <2>3, <2>6
  <2>4. Unit \div (RrfK + i) > Unit \div (RrfK + j)
    BY <2>3, <2>7, Divided
  <2>5. RankScore(r, c) = Unit \div (RrfK + i) /\ RankScore(r, d) = Unit \div (RrfK + j)
    BY <2>1, RankScored
  <2> QED
    BY <1>1, <2>4, <2>5
<1> QED
  BY <1>2, <1>3

LEMMA FusedScores ==
    ASSUME NEW s, NEW k, Ranking(s), Ranking(k)
    PROVE  /\ DOMAIN Fused(s, k) = ToSet(s) \cup ToSet(k) /\ Scores(Fused(s, k))
           /\ \A c \in ToSet(s) \cup ToSet(k) : Fused(s, k)[c] = RankScore(s, c) + RankScore(k, c)
<1>1. ToSet(s) \cup ToSet(k) \subseteq Corpus
  BY RankShape
<1>2. \A c : RankScore(s, c) \in Nat /\ RankScore(k, c) \in Nat
  BY RankScoreType
<1> QED
  BY <1>1, <1>2 DEF Fused, Scores

\* What is ranked at least as high in both indexes comes before in the fusion.
LEMMA FusionRespects ==
    ASSUME NEW s, NEW k, Ranking(s), Ranking(k),
           NEW c \in ToSet(s) \cup ToSet(k), NEW d \in ToSet(s) \cup ToSet(k), c # d,
           NotBehind(s, c, d), NotBehind(k, c, d)
    PROVE  Before(Fused(s, k), c, d)
<1>1. /\ RankScore(s, c) >= RankScore(s, d) /\ (d \in ToSet(s) => RankScore(s, c) > RankScore(s, d))
      /\ RankScore(k, c) >= RankScore(k, d) /\ (d \in ToSet(k) => RankScore(k, c) > RankScore(k, d))
  BY HigherScoresMore
<1>2. {RankScore(s, c), RankScore(s, d), RankScore(k, c), RankScore(k, d)} \subseteq Nat
  BY RankScoreType
<1>3. RankScore(s, c) + RankScore(k, c) > RankScore(s, d) + RankScore(k, d)
  BY <1>1, <1>2
<1> QED
  BY <1>3, FusedScores DEF Before

-----------------------------------------------------------------------------
\* A query without a reranker keeps the order of the indexes.
Fair(s, k, hits) ==
    LET shown == [i \in DOMAIN hits |-> hits[i].chunk] IN
    \A d \in ToSet(shown) : \A c \in (ToSet(s) \cup ToSet(k)) \ {d} :
        NotBehind(s, c, d) /\ NotBehind(k, c, d) =>
            \E i, j \in DOMAIN shown : i < j /\ shown[i] = c /\ shown[j] = d

Hit == [chunk : Corpus, score : Int]

LEMMA HitsSound ==
    ASSUME NEW f, Scores(f)
    PROVE  LET hits == Scored(Top(TopN, Ordered(f)), f) IN
           /\ \E n \in Nat : DOMAIN hits = 1 .. n /\ n <= Len(Ordered(f))
           /\ \A i \in DOMAIN hits : hits[i] \in Hit /\ i \in 1 .. Len(Ordered(f)) /\ hits[i].chunk = Ordered(f)[i]
<1> DEFINE o == Ordered(f)
           t == Top(TopN, o)
           hits == Scored(t, f)
<1>1. /\ o \in Seq(DOMAIN f) /\ DOMAIN o = 1 .. Len(o) /\ \A i \in 1 .. Len(o) : o[i] \in DOMAIN f
  BY OrderedSound
<1>2. TopN \in Nat
  BY RetrievalAssumption
<1> HIDE DEF o
<1>3. /\ Len(t) = (IF TopN < Len(o) THEN TopN ELSE Len(o)) /\ Len(o) \in Nat
      /\ DOMAIN t = 1 .. Len(t) /\ \A i \in 1 .. Len(t) : i \in 1 .. Len(o) /\ t[i] = o[i]
  BY <1>1, <1>2, TopSound
<1> HIDE DEF t
<1>4. Len(t) \in Nat /\ Len(t) <= Len(o)
  BY <1>2, <1>3
<1>5. DOMAIN hits = 1 .. Len(t) /\ \A i \in 1 .. Len(t) : hits[i] = [chunk |-> t[i], score |-> f[t[i]]]
  BY <1>3 DEF Scored
<1> HIDE DEF hits
<1>6. ASSUME NEW i \in 1 .. Len(t)
      PROVE  hits[i] \in Hit /\ i \in 1 .. Len(o) /\ hits[i].chunk = o[i]
  <2>1. t[i] \in DOMAIN f /\ t[i] = o[i] /\ i \in 1 .. Len(o)
    BY <1>1, <1>3
  <2>2. t[i] \in Corpus /\ f[t[i]] \in Int
    BY <2>1 DEF Scores
  <2> QED
    BY <1>5, <2>1, <2>2 DEF Hit
<1> QED
  BY <1>4, <1>5, <1>6 DEF hits, t, o

LEMMA QueryFair ==
    ASSUME NEW s, NEW k, Ranking(s), Ranking(k)
    PROVE  Fair(s, k, Scored(Top(TopN, Ordered(Fused(s, k))), Fused(s, k)))
<1> DEFINE f == Fused(s, k)
           o == Ordered(f)
           hits == Scored(Top(TopN, o), f)
           shown == [i \in DOMAIN hits |-> hits[i].chunk]
<1>1. Scores(f) /\ DOMAIN f = ToSet(s) \cup ToSet(k)
  BY FusedScores
<1>2. \A c, d \in ToSet(s) \cup ToSet(k) : c # d /\ NotBehind(s, c, d) /\ NotBehind(k, c, d) => Before(f, c, d)
  BY FusionRespects
<1>3. \A c \in DOMAIN f : f[c] \in Int /\ c \in Nat
  BY <1>1, RetrievalAssumption DEF Scores
<1> HIDE DEF f
<1>4. /\ Len(o) \in Nat /\ \A i \in 1 .. Len(o) : o[i] \in DOMAIN f
      /\ \A c \in DOMAIN f : \E i \in 1 .. Len(o) : o[i] = c
      /\ \A i, j \in 1 .. Len(o) : i < j => Before(f, o[i], o[j])
  BY <1>1, OrderedSound
<1>5. /\ \E n \in Nat : DOMAIN hits = 1 .. n /\ n <= Len(o)
      /\ \A i \in DOMAIN hits : i \in 1 .. Len(o) /\ hits[i].chunk = o[i]
  BY <1>1, HitsSound
<1> HIDE DEF o, hits
<1>6. PICK n \in Nat : DOMAIN hits = 1 .. n /\ n <= Len(o)
  BY <1>5
<1>7. ASSUME NEW d \in ToSet(shown), NEW c \in (ToSet(s) \cup ToSet(k)) \ {d}, NotBehind(s, c, d), NotBehind(k, c, d)
      PROVE  \E i, j \in DOMAIN shown : i < j /\ shown[i] = c /\ shown[j] = d
  <2>1. PICK j \in 1 .. n : shown[j] = d
    BY <1>6 DEF ToSet
  <2>2. j \in 1 .. Len(o) /\ o[j] = d /\ d \in DOMAIN f
    BY <1>4, <1>5, <1>6, <2>1
  <2>3. PICK i \in 1 .. Len(o) : o[i] = c
    BY <1>1, <1>4
  <2>4. Before(f, c, d)
    BY <1>1, <1>2, <1>7, <2>2
  <2>5. i < j
    <3>1. CASE i = j
      BY <1>7, <2>2, <2>3, <3>1
    <3>2. CASE j < i
      <4>1. Before(f, d, c)
        BY <1>4, <2>2, <2>3, <3>2
      <4> QED
        BY <1>1, <1>3, <2>2, <2>4, <4>1 DEF Before
    <3> QED
      BY <2>2, <2>3, <3>1, <3>2
  <2>6. i \in 1 .. n
    BY <1>6, <2>1, <2>3, <2>5
  <2>7. shown[i] = c
    BY <1>5, <1>6, <2>3, <2>6
  <2> QED
    BY <1>6, <2>1, <2>5, <2>6, <2>7
<1>8. Fair(s, k, hits)
  BY <1>7 DEF Fair
<1> QED
  BY <1>8 DEF hits, o, f

-----------------------------------------------------------------------------
(***************************************************************************)
(* What is known of the search at every moment: best holds, for each chunk *)
(* found, the greatest of the scores it was found with.                    *)
(***************************************************************************)
SearchTypes ==
    /\ search \in [pc : {"query", "done"}, queries : 0 .. MaxQueries, reranks : BOOLEAN, current : BOOLEAN]
    /\ found \subseteq Hit

BestFound ==
    /\ DOMAIN best = {h.chunk : h \in found}
    /\ \A c \in DOMAIN best :
          /\ \E h \in found : h.chunk = c /\ h.score = best[c]
          /\ \A h \in found : h.chunk = c => best[c] >= h.score

RetrievalIInv ==
    /\ SearchTypes /\ BestFound
    /\ search.pc = "done" => context = Top(ContextLimit, Ordered(best))
    /\ ~search.reranks => Fair(answer.semantic, answer.keyword, answer.hits)

LEMMA BestScores == ASSUME SearchTypes, BestFound PROVE Scores(best)
<1>1. DOMAIN best \subseteq Corpus
  BY DEF SearchTypes, BestFound, Hit
<1>2. ASSUME NEW c \in DOMAIN best PROVE best[c] \in Int
  BY DEF SearchTypes, BestFound, Hit
<1> QED
  BY <1>1, <1>2 DEF Scores

\* A query's hits are a finite list of chunks with scores.
HitList(hits) == \E n \in Nat : DOMAIN hits = 1 .. n /\ \A i \in 1 .. n : hits[i] \in Hit

LEMMA FiniteScores ==
    ASSUME NEW hits, HitList(hits), NEW c
    PROVE  LET T == {h.score : h \in {g \in ToSet(hits) : g.chunk = c}}
           IN  IsFiniteSet(T) /\ T \subseteq Int
<1> DEFINE T == {h.score : h \in {g \in ToSet(hits) : g.chunk = c}}
<1>1. PICK n \in Nat : DOMAIN hits = 1 .. n /\ \A i \in 1 .. n : hits[i] \in Hit
  BY DEF HitList
<1> DEFINE I == {i \in 1 .. n : hits[i].chunk = c}
           f == [i \in I |-> hits[i].score]
<1>2. IsFiniteSet(I)
  <2>1. IsFiniteSet(1 .. n)
    BY FS_Interval
  <2>2. I \in SUBSET (1 .. n)
    OBVIOUS
  <2> HIDE DEF I
  <2> QED
    BY ONLY <2>1, <2>2, FS_Subset
<1>3. \A i \in I : hits[i] \in ToSet(hits) /\ hits[i].chunk = c /\ f[i] = hits[i].score /\ f[i] \in T
  BY <1>1 DEF ToSet
<1>4. ASSUME NEW x \in T PROVE x \in Int /\ \E i \in I : f[i] = x
  <2>1. PICK g \in ToSet(hits) : g.chunk = c /\ x = g.score
    OBVIOUS
  <2>2. PICK i \in 1 .. n : hits[i] = g
    BY <1>1, <2>1 DEF ToSet
  <2>3. i \in I /\ f[i] = x
    BY <2>1, <2>2
  <2>4. x \in Int
    BY <1>1, <2>1, <2>2 DEF Hit
  <2> QED
    BY <2>3, <2>4
<1>5. f \in [I -> T]
  BY <1>3
<1> HIDE DEF f, T, I
<1>6. f \in Surjection(I, T)
  BY <1>4, <1>5 DEF Surjection
<1>7. IsFiniteSet(T)
  BY <1>2, <1>6, FS_Surjection
<1> QED
  BY <1>4, <1>7 DEF T

\* Merging the hits of a query into the best scores.
LEMMA MergedBest ==
    ASSUME SearchTypes, BestFound, NEW hits, HitList(hits),
           best' = Merged(hits), found' = found \cup ToSet(hits)
    PROVE  BestFound' /\ found' \subseteq Hit
<1> DEFINE T(c) == {h.score : h \in {g \in ToSet(hits) : g.chunk = c}}
           S(c) == T(c) \cup (IF c \in DOMAIN best THEN {best[c]} ELSE {})
           D == DOMAIN best \cup {h.chunk : h \in ToSet(hits)}
<1>1. ToSet(hits) \subseteq Hit
  BY DEF HitList, ToSet
<1>2. DOMAIN best' = D /\ \A c \in D : best'[c] = Max(S(c))
  BY DEF Merged
<1>3. D = {h.chunk : h \in found'}
  BY DEF BestFound
<1>4. ASSUME NEW c \in D
      PROVE  best'[c] \in S(c) /\ best'[c] \in Int /\ \A x \in S(c) : best'[c] >= x
  <2>1. IsFiniteSet(T(c)) /\ T(c) \subseteq Int
    BY FiniteScores
  <2>2. c \in DOMAIN best => best[c] \in Int
    BY BestScores DEF Scores
  <2>3. T(c) # {} \/ c \in DOMAIN best
    <3>1. CASE c \notin DOMAIN best
      <4>1. PICK h \in ToSet(hits) : h.chunk = c
        BY <3>1
      <4> QED
        BY <4>1
    <3> QED
      BY <3>1
  <2> DEFINE A == T(c)
             M == S(c)
  <2>4. IsFiniteSet(M) /\ M \subseteq Int /\ M # {}
    <3> HIDE DEF A, T
    <3>1. CASE c \in DOMAIN best
      <4>1. M = T(c) \cup {best[c]}
        BY <3>1
      <4>2. IsFiniteSet(T(c) \cup {best[c]})
        BY <2>1, FS_AddElement
      <4> QED
        BY <2>1, <2>2, <3>1, <4>1, <4>2
    <3>2. CASE c \notin DOMAIN best
      <4>1. M = T(c)
        BY <3>2
      <4> QED
        BY <2>1, <2>3, <3>2, <4>1
    <3> QED
      BY <3>1, <3>2
  <2>5. best'[c] = Max(M)
    BY <1>2
  <2> HIDE DEF M
  <2>6. \E x \in M : \A y \in M : x >= y
    BY <2>4, GreatestExists
  <2>7. Max(M) \in M /\ \A y \in M : Max(M) >= y
    BY <2>6 DEF Max
  <2> QED
    BY <2>4, <2>5, <2>7 DEF M
<1>5. ASSUME NEW c \in D PROVE \E h \in found' : h.chunk = c /\ h.score = best'[c]
  <2>1. CASE best'[c] \in T(c)
    BY <2>1
  <2>2. CASE c \in DOMAIN best /\ best'[c] = best[c]
    BY <2>2 DEF BestFound
  <2> HIDE DEF T
  <2>3. best'[c] \in T(c) \/ (c \in DOMAIN best /\ best'[c] = best[c])
    BY <1>4
  <2> QED
    BY <2>1, <2>2, <2>3
<1>6. ASSUME NEW c \in D, NEW h \in found', h.chunk = c PROVE best'[c] >= h.score
  <2>1. CASE h \in ToSet(hits)
    <3>1. h.score \in T(c)
      BY <1>6, <2>1
    <3> HIDE DEF T
    <3> QED
      BY <1>4, <3>1
  <2>2. CASE h \in found
    <3>1. c \in DOMAIN best /\ best[c] >= h.score /\ h.score \in Int /\ best[c] \in Int
      BY <1>6, <2>2, BestScores DEF BestFound, Scores, SearchTypes, Hit
    <3>2. best'[c] >= best[c]
      BY <1>4, <3>1
    <3>3. best'[c] \in Int
      BY <1>4
    <3> QED
      BY <3>1, <3>2, <3>3
  <2> QED
    BY <2>1, <2>2
<1> HIDE DEF D
<1>7. BestFound'
  BY <1>2, <1>3, <1>5, <1>6 DEF BestFound
<1> QED
  BY <1>1, <1>7 DEF SearchTypes

LEMMA RetrievalBegins == RetrievalInit => RetrievalIInv
<1> SUFFICES ASSUME RetrievalInit PROVE RetrievalIInv
  OBVIOUS
<1>1. MaxQueries \in Nat
  BY RetrievalAssumption
<1>2. SearchTypes /\ search.pc = "query"
  <2>1. PICK b \in BOOLEAN : search = [pc |-> "query", queries |-> 0, reranks |-> b, current |-> TRUE]
    BY DEF RetrievalInit
  <2>2. 0 \in 0 .. MaxQueries /\ found = {}
    BY <1>1 DEF RetrievalInit
  <2> QED
    BY <2>1, <2>2 DEF SearchTypes
<1>3. BestFound
  BY DEF RetrievalInit, BestFound
<1>4. Fair(answer.semantic, answer.keyword, answer.hits)
  BY DEF RetrievalInit, NoAnswer, Fair, ToSet
<1> QED
  BY <1>2, <1>3, <1>4 DEF RetrievalIInv

\* What the retriever answers is a list of hits.
LEMMA HitsListed ==
    ASSUME NEW f, Scores(f)
    PROVE  HitList(Scored(Top(TopN, Ordered(f)), f))
<1> DEFINE hits == Scored(Top(TopN, Ordered(f)), f)
<1>1. /\ \E n \in Nat : DOMAIN hits = 1 .. n /\ n <= Len(Ordered(f))
      /\ \A i \in DOMAIN hits : hits[i] \in Hit
  BY HitsSound
<1> HIDE DEF hits
<1>2. HitList(hits)
  BY <1>1 DEF HitList
<1> QED
  BY <1>2 DEF hits

LEMMA AnsweredKeeps ==
    ASSUME RetrievalIInv, Asks, NEW s, NEW k, NEW hits, HitList(hits), Answered(s, k, hits),
           ~search.reranks => Fair(s, k, hits)
    PROVE  RetrievalIInv'
<1>1. SearchTypes /\ BestFound /\ MaxQueries \in Nat
  BY RetrievalAssumption DEF RetrievalIInv
<1>2. BestFound' /\ found' \subseteq Hit
  BY <1>1, MergedBest DEF Answered
<1>3. /\ search.queries + 1 \in 0 .. MaxQueries
      /\ search' = [search EXCEPT !.queries = @ + 1]
  BY <1>1 DEF Answered, Asks, SearchTypes
<1>4. SearchTypes' /\ search'.pc = "query" /\ search'.reranks = search.reranks
  BY <1>1, <1>2, <1>3 DEF SearchTypes, Asks
<1>5. answer'.semantic = s /\ answer'.keyword = k /\ answer'.hits = hits
  BY DEF Answered
<1>6. ~search'.reranks => Fair(answer.semantic, answer.keyword, answer.hits)'
  BY <1>4, <1>5 DEF Fair
<1> QED
  BY <1>2, <1>4, <1>6 DEF RetrievalIInv

LEMMA InCorpusRanks == ASSUME NEW s \in Rankings PROVE Ranking(InCorpus(s))
  BY RankingsRank DEF InCorpus

LEMMA QueryKeeps ==
    ASSUME RetrievalIInv, NEW s \in Rankings, NEW k \in Rankings, Query(s, k)
    PROVE  RetrievalIInv'
<1> DEFINE r == InCorpus(s)
           hits == Scored(Top(TopN, Ordered(Fused(r, k))), Fused(r, k))
<1>1. Ranking(r) /\ Ranking(k)
  BY InCorpusRanks, RankingsRank
<1>2. Asks /\ Answered(r, k, hits)
  BY DEF Query
<1> HIDE DEF r
<1>3. HitList(hits)
  BY <1>1, FusedScores, HitsListed
<1>4. Fair(r, k, hits)
  BY <1>1, QueryFair
<1> HIDE DEF hits
<1> QED
  BY <1>2, <1>3, <1>4, AnsweredKeeps

LEMMA RerankedQueryKeeps ==
    ASSUME RetrievalIInv, NEW s \in Rankings, NEW k \in Rankings, RerankedQuery(s, k)
    PROVE  RetrievalIInv'
<1> DEFINE r == InCorpus(s)
           f == Fused(r, k)
           o == Ordered(f)
           n == IF TopN > RerankCandidates THEN TopN ELSE RerankCandidates
           candidates == Candidates(f)
<1>1. Ranking(r) /\ Ranking(k)
  BY InCorpusRanks, RankingsRank
<1>2. Asks /\ search.reranks
  BY DEF RerankedQuery
<1>3. PICK scores \in [ToSet(candidates) -> RerankScores] :
          Answered(r, k, Scored(Top(TopN, Ordered(scores)), scores))
  BY DEF RerankedQuery
<1> HIDE DEF r
<1>4. Scores(f)
  BY <1>1, FusedScores
<1>5. candidates = Top(n, o)
  BY DEF Candidates
<1>6. n \in Nat
  BY RetrievalAssumption
<1> HIDE DEF f, n
<1>7. o \in Seq(DOMAIN f) /\ DOMAIN f \subseteq Corpus
  BY <1>4, OrderedSound DEF Scores
<1> HIDE DEF o, candidates
<1>8. candidates \in Seq(DOMAIN f)
  BY <1>5, <1>6, <1>7, TopSound
<1>9. ToSet(candidates) \subseteq Corpus
  BY <1>7, <1>8 DEF ToSet
<1>10. Scores(scores)
  BY <1>3, <1>9, RetrievalAssumption DEF Scores
<1> DEFINE hits == Scored(Top(TopN, Ordered(scores)), scores)
<1>11. HitList(hits) /\ Answered(r, k, hits)
  BY <1>3, <1>10, HitsListed
<1> HIDE DEF hits
<1> QED
  BY <1>2, <1>11, AnsweredKeeps

LEMMA ReindexKeeps == ASSUME RetrievalIInv, Reindex PROVE RetrievalIInv'
<1>1. SearchTypes' /\ search'.pc = "query" /\ search'.reranks = search.reranks
  BY DEF RetrievalIInv, SearchTypes, Reindex
<1>2. BestFound' /\ answer' = answer
  BY DEF RetrievalIInv, BestFound, Reindex
<1> QED
  BY <1>1, <1>2 DEF RetrievalIInv, Fair

LEMMA CollectKeeps == ASSUME RetrievalIInv, Collect PROVE RetrievalIInv'
<1>1. SearchTypes' /\ search'.reranks = search.reranks
  BY DEF RetrievalIInv, SearchTypes, Collect
<1>2. BestFound' /\ answer' = answer /\ best' = best
  BY DEF RetrievalIInv, BestFound, Collect
<1>3. context' = Top(ContextLimit, Ordered(best'))
  BY <1>2 DEF Collect
<1>4. (Top(ContextLimit, Ordered(best)))' = Top(ContextLimit, Ordered(best'))
  BY DEF Top, Ordered, Before
<1> QED
  BY <1>1, <1>2, <1>3, <1>4 DEF RetrievalIInv, Fair

LEMMA RetrievalKeeps == RetrievalIInv /\ [RetrievalNext]_retrievalVars => RetrievalIInv'
<1> SUFFICES ASSUME RetrievalIInv, [RetrievalNext]_retrievalVars PROVE RetrievalIInv'
  OBVIOUS
<1>1. CASE \E s, k \in Rankings : Query(s, k) \/ RerankedQuery(s, k)
  BY <1>1, QueryKeeps, RerankedQueryKeeps
<1>2. CASE Reindex
  BY <1>2, ReindexKeeps
<1>3. CASE Collect
  BY <1>3, CollectKeeps
<1>4. CASE UNCHANGED retrievalVars
  <2>1. search' = search /\ answer' = answer /\ best' = best /\ context' = context /\ found' = found
    BY <1>4 DEF retrievalVars
  <2>2. SearchTypes' /\ BestFound'
    BY <2>1 DEF RetrievalIInv, SearchTypes, BestFound
  <2>3. (Top(ContextLimit, Ordered(best)))' = Top(ContextLimit, Ordered(best))
    BY <2>1 DEF Top, Ordered, Before
  <2>4. ~search'.reranks => Fair(answer.semantic, answer.keyword, answer.hits)'
    <3>1. Fair(answer.semantic, answer.keyword, answer.hits)' = Fair(answer.semantic, answer.keyword, answer.hits)
      BY <2>1 DEF Fair
    <3>2. ~search.reranks => Fair(answer.semantic, answer.keyword, answer.hits)
      BY DEF RetrievalIInv
    <3> QED
      BY <2>1, <3>1, <3>2
  <2>5. search'.pc = "done" => context' = (Top(ContextLimit, Ordered(best)))'
    BY <2>1, <2>3 DEF RetrievalIInv
  <2> QED
    BY <2>2, <2>4, <2>5 DEF RetrievalIInv
<1> QED
  BY <1>1, <1>2, <1>3, <1>4 DEF RetrievalNext

\* The first chunks of the order of the best scores are what ContextIsBest asks for.
LEMMA BestOnes ==
    ASSUME RetrievalIInv, search.pc = "done"
    PROVE  LET among == {h.chunk : h \in found}
               score == [c \in among |-> Max({h.score : h \in {g \in found : g.chunk = c}})]
           IN  /\ IsInjective(context) /\ ToSet(context) \subseteq among
               /\ Len(context) = IF ContextLimit < Cardinality(among) THEN ContextLimit ELSE Cardinality(among)
               /\ \A i \in DOMAIN context : \A d \in among :
                     Before(score, d, context[i]) => \E j \in 1 .. i - 1 : context[j] = d
<1> DEFINE among == {h.chunk : h \in found}
           score == [c \in among |-> Max({h.score : h \in {g \in found : g.chunk = c}})]
           o == Ordered(best)
<1>1. SearchTypes /\ BestFound /\ context = Top(ContextLimit, o)
  BY DEF RetrievalIInv
<1>2. Scores(best) /\ DOMAIN best = among
  BY <1>1, BestScores DEF BestFound
<1>3. ASSUME NEW c \in among PROVE score[c] = best[c]
  <2> DEFINE S == {h.score : h \in {g \in found : g.chunk = c}}
  <2>1. S \subseteq Int
    BY <1>1 DEF SearchTypes, Hit
  <2>2. best[c] \in S /\ \A x \in S : best[c] >= x
    BY <1>1, <1>2 DEF BestFound
  <2>3. score[c] = Max(S)
    OBVIOUS
  <2> HIDE DEF S
  <2>4. Max(S) = best[c]
    BY <2>1, <2>2 DEF Max
  <2> QED
    BY <2>3, <2>4
<1> HIDE DEF score, among
<1>4. \A c \in among : c \in Nat /\ best[c] \in Int
  BY <1>2, RetrievalAssumption DEF Scores
<1>5. \A c, d \in among : Before(score, c, d) <=> Before(best, c, d)
  BY <1>3 DEF Before
<1>6. /\ o \in Seq(among) /\ Len(o) = Cardinality(among)
      /\ \A i \in 1 .. Len(o) : o[i] \in among
      /\ \A i, j \in 1 .. Len(o) : o[i] = o[j] => i = j
      /\ \A c \in among : \E i \in 1 .. Len(o) : o[i] = c
      /\ \A i, j \in 1 .. Len(o) : i < j => Before(best, o[i], o[j])
  BY <1>2, OrderedSound
<1> HIDE DEF o
<1>7. ContextLimit \in Nat
  BY RetrievalAssumption
<1> DEFINE t == Top(ContextLimit, o)
<1>8. /\ Len(o) \in Nat
      /\ Len(t) = (IF ContextLimit < Len(o) THEN ContextLimit ELSE Len(o))
      /\ DOMAIN t = 1 .. Len(t)
      /\ \A i \in 1 .. Len(t) : i \in 1 .. Len(o) /\ t[i] = o[i]
  BY ONLY <1>6, <1>7, TopSound
<1>9. context = t
  BY <1>1
<1> HIDE DEF t
<1>10. /\ Len(o) \in Nat
       /\ Len(context) = (IF ContextLimit < Len(o) THEN ContextLimit ELSE Len(o))
       /\ DOMAIN context = 1 .. Len(context)
       /\ \A i \in 1 .. Len(context) : i \in 1 .. Len(o) /\ context[i] = o[i]
  BY <1>8, <1>9
<1>11. IsInjective(context)
  BY <1>6, <1>10 DEF IsInjective
<1>12. ToSet(context) \subseteq among
  BY <1>6, <1>10 DEF ToSet
<1>13. ASSUME NEW i \in DOMAIN context, NEW d \in among, Before(score, d, context[i])
       PROVE  \E j \in 1 .. i - 1 : context[j] = d
  <2>1. i \in 1 .. Len(o) /\ context[i] = o[i] /\ o[i] \in among
    BY <1>6, <1>10
  <2>2. Before(best, d, o[i])
    BY <1>5, <1>13, <2>1
  <2>3. PICK j \in 1 .. Len(o) : o[j] = d
    BY <1>6
  <2>4. CASE j = i
    BY <1>4, <2>1, <2>2, <2>3, <2>4 DEF Before
  <2>5. CASE i < j
    <3>1. Before(best, o[i], d)
      BY <1>6, <2>1, <2>3, <2>5
    <3> QED
      BY <1>4, <2>1, <2>2, <3>1 DEF Before
  <2>6. CASE j < i
    <3>1. j \in 1 .. i - 1 /\ j \in 1 .. Len(context)
      BY <1>10, <2>1, <2>3, <2>6
    <3> QED
      BY <1>10, <2>3, <3>1
  <2> QED
    BY <1>10, <2>1, <2>3, <2>4, <2>5, <2>6
<1>14. Len(context) = IF ContextLimit < Cardinality(among) THEN ContextLimit ELSE Cardinality(among)
  BY <1>6, <1>10
<1> QED
  BY <1>11, <1>12, <1>13, <1>14 DEF score, among

LEMMA RetrievalInvariance == RetrievalSpec => []RetrievalIInv
  BY RetrievalBegins, RetrievalKeeps, PTL DEF RetrievalSpec

(***************************************************************************)
(* Whatever the indexes return, the reranker answers and another run       *)
(* indexes meanwhile: the context is the chunks with the best scores any   *)
(* query gave them, in order and none twice, and a query without a         *)
(* reranker never puts a chunk behind one that both indexes ranked lower   *)
(* (HybridRetriever.retrieve_for_queries, reciprocal_rank_fusion).         *)
(***************************************************************************)
THEOREM ContextSound == RetrievalSpec => []ContextIsBest
<1>1. RetrievalIInv => ContextIsBest
  <2> SUFFICES ASSUME RetrievalIInv PROVE ContextIsBest
    OBVIOUS
  <2>1. ~search.reranks => Fair(answer.semantic, answer.keyword, answer.hits)
    BY DEF RetrievalIInv
  <2> QED
    BY <2>1, BestOnes DEF ContextIsBest, Fair
<1> QED
  BY <1>1, RetrievalInvariance, PTL

\* A query answers with no more hits than were asked for.
LEMMA HitsFew ==
    ASSUME NEW f, Scores(f)
    PROVE  Len(Scored(Top(TopN, Ordered(f)), f)) <= TopN
<1> DEFINE o == Ordered(f)
           t == Top(TopN, o)
           hits == Scored(t, f)
<1>1. o \in Seq(DOMAIN f) /\ TopN \in Nat
  BY OrderedSound, RetrievalAssumption
<1> HIDE DEF o
<1>2. Len(t) \in Nat /\ DOMAIN t = 1 .. Len(t) /\ Len(t) <= TopN
  BY <1>1, TopSound
<1> HIDE DEF t
<1>3. hits = [i \in 1 .. Len(t) |-> [chunk |-> t[i], score |-> f[t[i]]]]
  BY <1>2 DEF Scored
<1>4. Len(hits) = Len(t)
  BY <1>2, <1>3
<1> HIDE DEF hits
<1>5. Len(hits) <= TopN
  BY <1>2, <1>4
<1> QED
  BY <1>5 DEF hits, t, o

\* The answer's length, and a context only when all queries are made.
AnswerTypes == Len(answer.hits) <= TopN /\ (search.pc = "query" => context = <<>>)

LEMMA AnswerKeeps == RetrievalIInv /\ AnswerTypes /\ [RetrievalNext]_retrievalVars => AnswerTypes'
<1> SUFFICES ASSUME RetrievalIInv, AnswerTypes, [RetrievalNext]_retrievalVars
             PROVE  AnswerTypes'
  OBVIOUS
<1>1. ASSUME NEW s, NEW k, NEW f, Scores(f), search.pc = "query",
             Answered(s, k, Scored(Top(TopN, Ordered(f)), f))
      PROVE  AnswerTypes'
  <2>1. answer'.hits = Scored(Top(TopN, Ordered(f)), f) /\ context' = context
    BY <1>1 DEF Answered
  <2> QED
    BY <1>1, <2>1, HitsFew DEF AnswerTypes
<1>2. ASSUME NEW s \in Rankings, NEW k \in Rankings, Query(s, k) PROVE AnswerTypes'
  <2>1. Ranking(InCorpus(s)) /\ Ranking(k)
    BY InCorpusRanks, RankingsRank
  <2>2. Scores(Fused(InCorpus(s), k))
    BY <2>1, FusedScores
  <2> QED
    BY <1>1, <1>2, <2>2 DEF Query, Asks
<1>3. ASSUME NEW s \in Rankings, NEW k \in Rankings, RerankedQuery(s, k) PROVE AnswerTypes'
  <2>1. Ranking(InCorpus(s)) /\ Ranking(k)
    BY InCorpusRanks, RankingsRank
  <2> DEFINE f == Fused(InCorpus(s), k)
             o == Ordered(f)
             n == IF TopN > RerankCandidates THEN TopN ELSE RerankCandidates
             candidates == Candidates(f)
  <2>2. Scores(f)
    BY <2>1, FusedScores
  <2>3. PICK scores \in [ToSet(candidates) -> RerankScores] :
            Answered(InCorpus(s), k, Scored(Top(TopN, Ordered(scores)), scores))
    BY <1>3 DEF RerankedQuery
  <2>4. candidates = Top(n, o) /\ n \in Nat
    BY RetrievalAssumption DEF Candidates
  <2> HIDE DEF f, n
  <2>5. o \in Seq(DOMAIN f) /\ DOMAIN f \subseteq Corpus
    BY <2>2, OrderedSound DEF Scores
  <2> HIDE DEF o, candidates
  <2>6. ToSet(candidates) \subseteq Corpus
    BY <2>4, <2>5, TopSound DEF ToSet
  <2>7. Scores(scores)
    BY <2>3, <2>6, RetrievalAssumption DEF Scores
  <2> QED
    BY <1>1, <1>3, <2>3, <2>7 DEF RerankedQuery, Asks
<1>4. CASE Reindex
  BY <1>4 DEF Reindex, AnswerTypes
<1>5. CASE Collect
  <2>1. search'.pc = "done" /\ answer' = answer
    BY <1>5 DEF Collect, RetrievalIInv, SearchTypes
  <2> QED
    BY <2>1 DEF AnswerTypes
<1>6. CASE UNCHANGED retrievalVars
  BY <1>6 DEF retrievalVars, AnswerTypes
<1> QED
  BY <1>2, <1>3, <1>4, <1>5, <1>6 DEF RetrievalNext

\* The search, the answers and the context keep their types: nothing but chunks of the
\* corpus, and of one query no more than were asked for.
THEOREM RetrievalTypeCorrect == RetrievalSpec => []RetrievalTypeOK
<1>1. RetrievalInit => AnswerTypes
  <2> SUFFICES ASSUME RetrievalInit PROVE AnswerTypes
    OBVIOUS
  <2>1. Len(answer.hits) = 0 /\ context = <<>>
    BY DEF RetrievalInit, NoAnswer
  <2> QED
    BY <2>1, RetrievalAssumption DEF AnswerTypes
<1>2. RetrievalIInv /\ AnswerTypes => RetrievalTypeOK
  <2> SUFFICES ASSUME RetrievalIInv, AnswerTypes PROVE RetrievalTypeOK
    OBVIOUS
  <2>1. SearchTypes /\ BestFound
    BY DEF RetrievalIInv
  <2>2. {h.chunk : h \in found} \subseteq Corpus
    BY <2>1 DEF SearchTypes, Hit
  <2>3. DOMAIN best \subseteq Corpus
    BY <2>1, <2>2 DEF BestFound
  <2>4. ToSet(context) \subseteq Corpus
    <3>1. CASE search.pc = "query"
      BY <3>1 DEF AnswerTypes, ToSet
    <3>2. CASE search.pc = "done"
      BY <2>2, <3>2, BestOnes
    <3> QED
      BY <2>1, <3>1, <3>2 DEF SearchTypes
  <2> QED
    BY <2>1, <2>3, <2>4 DEF RetrievalTypeOK, SearchTypes, AnswerTypes
<1> QED
  BY <1>1, <1>2, RetrievalBegins, RetrievalKeeps, AnswerKeeps, PTL DEF RetrievalSpec

-----------------------------------------------------------------------------
(***************************************************************************)
(* Extraction: AnalysisWhole. It is inductive once the types say where the *)
(* element number of a finding came from (Grounded, CitedRows) and, while  *)
(* the requirements are assessed, the stored rows are what the agents have *)
(* just found: the assessments are made from the agents' items, and the    *)
(* property speaks of the rows.                                            *)
(***************************************************************************)

\* Numbers in ascending order, and the least of them.
LEMMA InOrderAscends ==
    ASSUME NEW S, IsFiniteSet(S), S \subseteq Int
    PROVE  /\ InOrder(S) \in SetToSeqs(S)
           /\ \A i, j \in DOMAIN InOrder(S) : i < j => InOrder(S)[i] < InOrder(S)[j]
<1> DEFINE R == {p \in S \X S : p[1] < p[2]}
<1>1. \A x, y \in S : <<x, y>> \in R <=> x < y
  OBVIOUS
<1> HIDE DEF R
<1>2. StrictOrder(S, R)
  BY <1>1 DEF StrictOrder
<1>3. PICK s \in SetToSeqs(S) : Along(s, R)
  BY <1>2, OrderExists
<1>4. \A i \in DOMAIN s : s[i] \in S
  BY Enumerated
<1>5. \A i, j \in DOMAIN s : i < j => s[i] < s[j]
  BY <1>1, <1>3, <1>4 DEF Along
<1> QED
  BY <1>3, <1>5 DEF InOrder

LEMMA InOrderCovers ==
    ASSUME NEW S, IsFiniteSet(S), S \subseteq Int
    PROVE  /\ InOrder(S) \in Seq(S) /\ Len(InOrder(S)) = Cardinality(S) /\ Cardinality(S) \in Nat
           /\ DOMAIN InOrder(S) = 1 .. Cardinality(S)
           /\ \A i, j \in DOMAIN InOrder(S) : InOrder(S)[i] = InOrder(S)[j] => i = j
           /\ \A i \in DOMAIN InOrder(S) : InOrder(S)[i] \in S
           /\ \A x \in S : \E i \in DOMAIN InOrder(S) : InOrder(S)[i] = x
<1> DEFINE s == InOrder(S)
<1>1. s \in SetToSeqs(S)
  BY InOrderAscends
<1> HIDE DEF s
<1>2. QED
  BY <1>1, Enumerated DEF s

LEMMA FromOne == ASSUME NEW n \in Nat PROVE IsFiniteSet(1 .. n)
<1>1. 1 \in Int /\ n \in Int
  OBVIOUS
<1>2. QED
  BY ONLY <1>1, FS_Interval

\* Some of the numbers from 1 to n, in order.
LEMMA PositionsInOrder ==
    ASSUME NEW n \in Nat, NEW S \in SUBSET (1 .. n)
    PROVE  /\ Len(InOrder(S)) \in Nat /\ DOMAIN InOrder(S) = 1 .. Len(InOrder(S))
           /\ \A i \in 1 .. Len(InOrder(S)) : InOrder(S)[i] \in S
           /\ \A i, j \in 1 .. Len(InOrder(S)) : InOrder(S)[i] = InOrder(S)[j] => i = j
<1>1. IsFiniteSet(S) /\ S \subseteq Int
  <2> DEFINE T == 1 .. n
  <2>1. IsFiniteSet(T) /\ S \in SUBSET T
    BY FromOne
  <2>2. IsFiniteSet(S)
    BY ONLY <2>1, FS_Subset
  <2> QED
    BY <2>2
<1> DEFINE s == InOrder(S)
<1>2. /\ s \in Seq(S) /\ Len(s) = Cardinality(S) /\ Cardinality(S) \in Nat
      /\ DOMAIN s = 1 .. Cardinality(S) /\ \A i \in DOMAIN s : s[i] \in S
      /\ \A i, j \in DOMAIN s : s[i] = s[j] => i = j
  BY <1>1, InOrderCovers
<1> HIDE DEF s
<1>3. QED
  BY <1>2 DEF s

LEMMA LeastExists ==
    ASSUME NEW S, IsFiniteSet(S), S \subseteq Int, S # {}
    PROVE  First(S) \in S /\ \A y \in S : First(S) <= y
<1> DEFINE s == InOrder(S)
<1>1. /\ s \in Seq(S) /\ DOMAIN s = 1 .. Cardinality(S) /\ Cardinality(S) \in Nat
      /\ \A x \in S : \E i \in DOMAIN s : s[i] = x
      /\ \A i \in DOMAIN s : s[i] \in S
      /\ \A i, j \in DOMAIN s : i < j => s[i] < s[j]
  BY InOrderAscends, InOrderCovers
<1> HIDE DEF s
<1>2. 1 \in DOMAIN s
  <2>1. PICK x \in S : TRUE
    OBVIOUS
  <2>2. PICK i \in DOMAIN s : s[i] = x
    BY <1>1
  <2>3. i \in 1 .. Cardinality(S) /\ Cardinality(S) \in Nat
    BY <1>1
  <2>4. 1 \in 1 .. Cardinality(S)
    BY <2>3
  <2> QED
    BY <1>1, <2>4
<1>3. \A y \in S : s[1] <= y
  <2> SUFFICES ASSUME NEW y \in S PROVE s[1] <= y
    OBVIOUS
  <2>1. PICK i \in DOMAIN s : s[i] = y
    BY <1>1
  <2>2. i = 1 \/ 1 < i
    BY <1>1
  <2>3. s[1] \in Int /\ s[i] \in Int /\ (1 < i => s[1] < s[i])
    BY <1>1, <1>2
  <2> QED
    BY <2>1, <2>2, <2>3
<1>4. s[1] \in S
  BY <1>1, <1>2
<1> QED
  BY <1>3, <1>4 DEF First

-----------------------------------------------------------------------------
\* What the agents find and what the worker stores of it.
Items == UNION {ToSet(s) : s \in Answers}
Grounded == {f \in [item : Items, element : Nat] : f.element = GroundItem(f.item)}
CitedRows == {f \in [item : Items, element : Nat] : f.element = Source(GroundItem(f.item))}

Node == [st : {"ready", "found", "failed"}, tries : 0 .. NodeAttempts, asked : 0 .. SchemaAttempts - 1,
         items : Seq(Grounded)]
Row(f) == [f EXCEPT !.element = Source(@)]
Rows(run) == [a \in Agents |->
    [run |-> run, items |-> [i \in 1 .. Len(agents[a].items) |-> Row(agents[a].items[i])]]]

AnalysisTypes ==
    /\ phase \in [pc : {"idle", "agents", "assess", "done", "failed"}, run : 0 .. MaxPhases, profile : BOOLEAN]
    /\ agents \in [Agents -> Node]
    /\ \A a \in Agents : agents[a].st = "ready" => agents[a].tries < NodeAttempts
    /\ stored \in [Agents -> [run : 0 .. MaxPhases, items : Seq(CitedRows)]]

\* The rows of all agents are of one run, and while the requirements are assessed they
\* are those that the agents have just found.
AnalysisIInv ==
    /\ AnalysisTypes /\ AnalysisWhole
    /\ phase.pc = "assess" => stored = Rows(phase.run)

LEMMA AnswerItems == ASSUME NEW s \in Answers \cup Assessments PROVE s \in Seq(ToSet(s)) /\ Len(s) \in Nat
BY ExtractionAssumption

\* An item is grounded in an element of its block's range that holds its quote, or in
\* the first of the range when the block holds it, or nowhere.
LEMMA GroundSound ==
    ASSUME NEW item
    PROVE  /\ GroundItem(item) \in Nat
           /\ GroundItem(item) # Ungrounded => Proves(item, GroundItem(item))
<1>1. CASE item.quote \in LongQuotes /\ item.index \in 1 .. Len(Contexts)
  <2> DEFINE c == Contexts[item.index]
             H == HoldingElements(c, item.quote)
  <2>1. GroundItem(item) = GroundIn(c, item.quote)
    BY <1>1 DEF GroundItem
  <2>2. c.from \in Nat \ {0} /\ c.to \in Nat \ {0} /\ c.from <= c.to
    BY <1>1, ExtractionAssumption
  <2>3. H \subseteq c.from .. c.to /\ \A e \in H : item.quote \in Elements[e]
    BY DEF HoldingElements
  <2>4. CASE H # {}
    <3>1. IsFiniteSet(c.from .. c.to)
      <4>1. c.from \in Int /\ c.to \in Int
      BY <2>2
    <4> QED
      BY ONLY <4>1, FS_Interval
    <3>2. IsFiniteSet(H) /\ H \subseteq Int
      BY <2>2, <2>3, <3>1, FS_Subset
    <3>3. First(H) \in H
      BY <2>4, <3>2, LeastExists
    <3>4. GroundIn(c, item.quote) = First(H)
      BY <2>4 DEF GroundIn
    <3> QED
      BY <1>1, <2>1, <2>2, <2>3, <3>3, <3>4 DEF Proves
  <2>5. CASE H = {} /\ item.quote \in c.holds
    <3>1. GroundIn(c, item.quote) = c.from
      BY <2>5 DEF GroundIn
    <3> QED
      BY <1>1, <2>1, <2>2, <2>5, <3>1 DEF Proves
  <2>6. CASE H = {} /\ item.quote \notin c.holds
    BY <2>1, <2>6 DEF GroundIn, Ungrounded
  <2> QED
    BY <2>4, <2>5, <2>6
<1>2. CASE ~(item.quote \in LongQuotes /\ item.index \in 1 .. Len(Contexts))
  BY <1>2 DEF GroundItem, Ungrounded
<1> QED
  BY <1>1, <1>2

LEMMA SourceSound ==
    ASSUME NEW e \in Nat
    PROVE  Source(e) \in Nat /\ (Source(e) # Ungrounded => Source(e) = e)
BY DEF Source, Ungrounded

LEMMA RowCited == ASSUME NEW f \in Grounded PROVE Row(f) \in CitedRows /\ Row(f).item = f.item /\ Row(f).element = Source(f.element)
<1>1. f = [item |-> f.item, element |-> f.element] /\ f.item \in Items /\ f.element \in Nat
      /\ f.element = GroundItem(f.item)
  BY DEF Grounded
<1>2. Row(f) = [item |-> f.item, element |-> Source(f.element)]
  BY <1>1 DEF Row
<1> QED
  BY <1>1, <1>2, SourceSound DEF CitedRows

\* The findings of an answer, each with its source.
LEMMA FindingsGrounded ==
    ASSUME NEW items \in Answers
    PROVE  Findings(items) \in Seq(Grounded)
<1>1. items \in Seq(ToSet(items)) /\ Len(items) \in Nat
  BY AnswerItems
<1>2. ASSUME NEW i \in 1 .. Len(items)
      PROVE [item |-> items[i], element |-> GroundItem(items[i])] \in Grounded
  <2>1. items[i] \in Items
    BY <1>1 DEF Items, ToSet
  <2> QED
    BY <2>1, GroundSound DEF Grounded
<1> QED
  BY <1>1, <1>2 DEF Findings

LEMMA InitAnalysis == ExtractionInit => AnalysisIInv
<1> SUFFICES ASSUME ExtractionInit PROVE AnalysisIInv
  OBVIOUS
<1>1. NodeAttempts \in Nat \ {0} /\ SchemaAttempts \in Nat \ {0} /\ MaxPhases \in Nat
  BY ExtractionAssumption
<1>2. FreshNode \in Node /\ FreshNode.tries < NodeAttempts
  BY <1>1 DEF FreshNode, Node
<1>3. /\ phase = [pc |-> "idle", run |-> 0, profile |-> FALSE]
      /\ agents = [a \in Agents |-> FreshNode]
      /\ stored = [a \in Agents |-> [run |-> 0, items |-> <<>>]]
  BY DEF ExtractionInit
<1>4. AnalysisTypes
  BY <1>1, <1>2, <1>3 DEF AnalysisTypes
<1>5. AnalysisWhole
  BY <1>3 DEF AnalysisWhole
<1> QED
  BY <1>3, <1>4, <1>5 DEF AnalysisIInv

\* The rows stay, and the phase neither begins to assess nor succeeds.
LEMMA RowsStay ==
    ASSUME AnalysisIInv, AnalysisTypes', stored' = stored, assessed' = assessed,
           phase'.pc \notin {"assess", "done"}
    PROVE  AnalysisIInv'
<1>1. AnalysisWhole'
  BY DEF AnalysisIInv, AnalysisWhole, Proves
<1> QED
  BY <1>1 DEF AnalysisIInv

LEMMA BeginAnalysis == ASSUME AnalysisIInv, NEW profile \in BOOLEAN, BeginPhase(profile) PROVE AnalysisIInv'
<1>1. NodeAttempts \in Nat \ {0} /\ SchemaAttempts \in Nat \ {0} /\ MaxPhases \in Nat
  BY ExtractionAssumption
<1>2. FreshNode \in Node /\ FreshNode.tries < NodeAttempts
  BY <1>1 DEF FreshNode, Node
<1>3. phase' = [pc |-> "agents", run |-> phase.run + 1, profile |-> profile]
      /\ agents' = [a \in Agents |-> FreshNode] /\ phase.run < MaxPhases /\ phase.run \in 0 .. MaxPhases
      /\ stored' = stored /\ assessed' = assessed
  BY DEF BeginPhase, AnalysisIInv, AnalysisTypes
<1>4. AnalysisTypes'
  BY <1>1, <1>2, <1>3 DEF AnalysisIInv, AnalysisTypes
<1> QED
  BY <1>3, <1>4, RowsStay

LEMMA FailAnalysis == ASSUME AnalysisIInv, NoContext \/ GraphFails \/ PhaseLost PROVE AnalysisIInv'
<1>1. phase' = [phase EXCEPT !.pc = "failed"] /\ UNCHANGED <<agents, stored, assessed>>
  BY DEF NoContext, GraphFails, PhaseLost
<1>2. AnalysisTypes' /\ phase'.pc = "failed"
  BY <1>1 DEF AnalysisIInv, AnalysisTypes
<1> QED
  BY <1>1, <1>2, RowsStay

\* Only the agents move.
LEMMA AgentsMove ==
    ASSUME AnalysisIInv, UNCHANGED <<phase, stored, assessed>>, phase.pc = "agents",
           agents' \in [Agents -> Node],
           \A a \in Agents : agents'[a].st = "ready" => agents'[a].tries < NodeAttempts
    PROVE  AnalysisIInv'
<1>1. AnalysisTypes' /\ phase'.pc = "agents"
  BY DEF AnalysisIInv, AnalysisTypes
<1> QED
  BY <1>1, RowsStay

LEMMA AnswersAnalysis ==
    ASSUME AnalysisIInv, NEW a \in Agents, NEW items \in Answers, AgentAnswers(a, items)
    PROVE  AnalysisIInv'
<1>1. agents \in [Agents -> Node] /\ \A b \in Agents : agents[b].st = "ready" => agents[b].tries < NodeAttempts
  BY DEF AnalysisIInv, AnalysisTypes
<1> DEFINE n == [agents[a] EXCEPT !.st = "found", !.items = Findings(items)]
<1>2. agents' = [agents EXCEPT ![a] = n] /\ UNCHANGED <<phase, stored, assessed>> /\ phase.pc = "agents"
  BY DEF AgentAnswers, Asking
<1>3. n \in Node /\ n.st = "found"
  BY <1>1, FindingsGrounded DEF Node
<1> HIDE DEF n
<1>4. agents' \in [Agents -> Node] /\ \A b \in Agents : agents'[b] = IF b = a THEN n ELSE agents[b]
  BY <1>1, <1>2, <1>3
<1>5. \A b \in Agents : agents'[b].st = "ready" => agents'[b].tries < NodeAttempts
  BY <1>1, <1>3, <1>4
<1> QED
  BY <1>2, <1>4, <1>5, AgentsMove

LEMMA RaisedNodes ==
    ASSUME AnalysisIInv, NEW a \in Agents, agents[a].st = "ready"
    PROVE  /\ NodeRaised(a) \in [Agents -> Node]
           /\ \A b \in Agents : NodeRaised(a)[b].st = "ready" => NodeRaised(a)[b].tries < NodeAttempts
<1>1. agents \in [Agents -> Node] /\ \A b \in Agents : agents[b].st = "ready" => agents[b].tries < NodeAttempts
  BY DEF AnalysisIInv, AnalysisTypes
<1>2. NodeAttempts \in Nat \ {0} /\ SchemaAttempts \in Nat \ {0}
  BY ExtractionAssumption
<1> DEFINE again == [agents[a] EXCEPT !.tries = agents[a].tries + 1, !.asked = 0]
           out == [agents[a] EXCEPT !.st = "failed", !.tries = agents[a].tries + 1]
<1>3. agents[a] \in Node /\ agents[a].tries \in 0 .. NodeAttempts /\ agents[a].tries < NodeAttempts
  BY <1>1 DEF Node
<1> DEFINE m == agents[a].tries + 1
<1>6. m \in 0 .. NodeAttempts /\ 0 \in 0 .. SchemaAttempts - 1
  BY <1>2, <1>3
<1> HIDE DEF m
<1>4. CASE agents[a].tries + 1 < NodeAttempts
  <2>1. NodeRaised(a) = [agents EXCEPT ![a] = again]
    BY <1>1, <1>4 DEF NodeRaised
  <2>2. again \in Node /\ again.tries = m
    <3>1. again = [agents[a] EXCEPT !.tries = m, !.asked = 0]
      BY DEF m
    <3> QED
      BY <1>3, <1>6, <3>1 DEF Node
  <2> HIDE DEF again
  <2>3. NodeRaised(a) \in [Agents -> Node] /\ \A b \in Agents : NodeRaised(a)[b] = IF b = a THEN again ELSE agents[b]
    BY <1>1, <2>1, <2>2
  <2> QED
    BY <1>1, <1>4, <2>2, <2>3 DEF m
<1>5. CASE ~(agents[a].tries + 1 < NodeAttempts)
  <2>1. NodeRaised(a) = [agents EXCEPT ![a] = out]
    BY <1>1, <1>5 DEF NodeRaised
  <2>2. out \in Node /\ out.st = "failed"
    <3>1. out = [agents[a] EXCEPT !.st = "failed", !.tries = m]
      BY DEF m
    <3> QED
      BY <1>3, <1>6, <3>1 DEF Node
  <2> HIDE DEF out
  <2>3. NodeRaised(a) \in [Agents -> Node] /\ \A b \in Agents : NodeRaised(a)[b] = IF b = a THEN out ELSE agents[b]
    BY <1>1, <2>1, <2>2
  <2> QED
    BY <1>1, <2>2, <2>3
<1> QED
  BY <1>4, <1>5

LEMMA RaisesAnalysis ==
    ASSUME AnalysisIInv, NEW a \in Agents, SchemaViolated(a) \/ CallRaised(a)
    PROVE  AnalysisIInv'
<1>1. agents \in [Agents -> Node] /\ \A b \in Agents : agents[b].st = "ready" => agents[b].tries < NodeAttempts
  BY DEF AnalysisIInv, AnalysisTypes
<1>2. UNCHANGED <<phase, stored, assessed>> /\ phase.pc = "agents" /\ agents[a].st = "ready"
  BY DEF SchemaViolated, CallRaised, Asking
<1>3. CASE agents' = NodeRaised(a)
  BY <1>2, <1>3, RaisedNodes, AgentsMove
<1> DEFINE n == [agents[a] EXCEPT !.asked = @ + 1]
<1>4. CASE agents' # NodeRaised(a)
  <2>1. agents[a].asked + 1 < SchemaAttempts /\ agents' = [agents EXCEPT ![a] = n]
    BY <1>1, <1>4 DEF SchemaViolated, CallRaised
  <2>2. agents[a] \in Node /\ agents[a].asked \in 0 .. SchemaAttempts - 1 /\ SchemaAttempts \in Nat
    BY <1>1, ExtractionAssumption DEF Node
  <2>3. n \in Node /\ n.st = agents[a].st /\ n.tries = agents[a].tries
    BY <2>1, <2>2 DEF Node
  <2> HIDE DEF n
  <2>4. agents' \in [Agents -> Node] /\ \A b \in Agents : agents'[b] = IF b = a THEN n ELSE agents[b]
    BY <1>1, <2>1, <2>3
  <2>5. \A b \in Agents : agents'[b].st = "ready" => agents'[b].tries < NodeAttempts
    BY <1>1, <2>3, <2>4
  <2> QED
    BY <1>2, <2>4, <2>5, AgentsMove
<1> QED
  BY <1>3, <1>4

\* A stored finding with a source has the quote where it says.
LEMMA CitedProved ==
    ASSUME NEW f \in CitedRows, f.element # Ungrounded
    PROVE  Proves(f.item, f.element)
<1>1. f.element = Source(GroundItem(f.item)) /\ GroundItem(f.item) \in Nat
  BY GroundSound DEF CitedRows
<1>2. f.element = GroundItem(f.item)
  BY <1>1, SourceSound
<1> QED
  BY <1>2, GroundSound

LEMMA RowsTyped ==
    ASSUME AnalysisTypes, NEW run \in 0 .. MaxPhases
    PROVE  /\ Rows(run) \in [Agents -> [run : 0 .. MaxPhases, items : Seq(CitedRows)]]
           /\ \A a \in Agents :
                 /\ Rows(run)[a].run = run
                 /\ Len(agents[a].items) \in Nat
                 /\ Len(Rows(run)[a].items) = Len(agents[a].items)
                 /\ \A i \in 1 .. Len(agents[a].items) :
                       agents[a].items[i] \in Grounded /\ Rows(run)[a].items[i] = Row(agents[a].items[i])
<1>1. ASSUME NEW a \in Agents
      PROVE /\ Rows(run)[a] \in [run : 0 .. MaxPhases, items : Seq(CitedRows)]
            /\ Rows(run)[a].run = run
            /\ Len(agents[a].items) \in Nat
            /\ Len(Rows(run)[a].items) = Len(agents[a].items)
            /\ \A i \in 1 .. Len(agents[a].items) :
                  agents[a].items[i] \in Grounded /\ Rows(run)[a].items[i] = Row(agents[a].items[i])
  <2>1. agents[a].items \in Seq(Grounded)
    BY DEF AnalysisTypes, Node
  <2> DEFINE had == agents[a].items
             rows == [i \in 1 .. Len(had) |-> Row(had[i])]
  <2>2. Len(had) \in Nat /\ \A i \in 1 .. Len(had) : had[i] \in Grounded
    BY <2>1
  <2>3. Rows(run)[a] = [run |-> run, items |-> rows]
    BY DEF Rows
  <2> HIDE DEF had
  <2>4. rows \in Seq(CitedRows) /\ Len(rows) = Len(had) /\ \A i \in 1 .. Len(had) : rows[i] = Row(had[i])
    BY <2>2, RowCited
  <2> HIDE DEF rows
  <2> QED
    BY <2>2, <2>3, <2>4 DEF had
<1> QED
  BY <1>1 DEF Rows

LEMMA WriteAnalysis == ASSUME AnalysisIInv, WriteRows PROVE AnalysisIInv'
<1>1. /\ stored' = Rows(phase.run) /\ UNCHANGED <<agents, assessed>>
      /\ phase' = [phase EXCEPT !.pc = "assess"]
  BY DEF WriteRows, Rows, Row
<1>2. phase.run \in 0 .. MaxPhases /\ AnalysisTypes
  BY DEF AnalysisIInv, AnalysisTypes
<1>3. /\ phase' \in [pc : {"idle", "agents", "assess", "done", "failed"}, run : 0 .. MaxPhases, profile : BOOLEAN]
      /\ phase'.pc = "assess" /\ phase'.run = phase.run
  BY <1>1, <1>2 DEF AnalysisTypes
<1>4. AnalysisTypes'
  BY <1>1, <1>2, <1>3, RowsTyped DEF AnalysisTypes
<1>5. stored' = Rows(phase.run)'
  BY <1>1, <1>3 DEF Rows
<1>6. \A a \in Agents : stored'[a].run = phase.run
  BY <1>1, <1>2, RowsTyped
<1>7. ASSUME NEW a \in Agents, NEW i \in 1 .. Len(stored'[a].items), stored'[a].items[i].element # Ungrounded
      PROVE  Proves(stored'[a].items[i].item, stored'[a].items[i].element)
  <2>1. stored'[a].items \in Seq(CitedRows)
    BY <1>4 DEF AnalysisTypes
  <2>2. stored'[a].items[i] \in CitedRows
    BY <2>1
  <2> QED
    BY <1>7, <2>2, CitedProved
<1>8. AnalysisWhole'
  BY <1>3, <1>6, <1>7 DEF AnalysisWhole, Proves
<1> QED
  BY <1>3, <1>4, <1>5, <1>8 DEF AnalysisIInv

\* What is left of the numbers is in range and different.
LEMMA KeptSound ==
    ASSUME NEW numbers \in Assessments, NEW n \in Nat
    PROVE  /\ Len(Kept(numbers, n)) \in Nat
           /\ \A k \in 1 .. Len(Kept(numbers, n)) : Kept(numbers, n)[k] \in 1 .. n
           /\ \A j, k \in 1 .. Len(Kept(numbers, n)) : Kept(numbers, n)[j] = Kept(numbers, n)[k] => j = k
<1> DEFINE F == Firsts(numbers, n)
           s == InOrder(F)
           kept == [k \in 1 .. Len(s) |-> numbers[s[k]]]
<1>1. Len(numbers) \in Nat
  BY AnswerItems
<1>2. F \subseteq 1 .. Len(numbers) /\ F \subseteq Int
  BY <1>1 DEF Firsts
<1>4. \A i \in F : numbers[i] \in 1 .. n /\ \A j \in 1 .. i - 1 : numbers[j] # numbers[i]
  BY DEF Firsts
<1> HIDE DEF F
<1>5. /\ Len(s) \in Nat /\ DOMAIN s = 1 .. Len(s) /\ \A i \in 1 .. Len(s) : s[i] \in F
      /\ \A i, j \in 1 .. Len(s) : s[i] = s[j] => i = j
  BY <1>1, <1>2, PositionsInOrder
<1> HIDE DEF s
<1>6. Kept(numbers, n) = kept /\ Len(kept) = Len(s) /\ \A k \in 1 .. Len(s) : kept[k] = numbers[s[k]]
  BY <1>5 DEF Kept, F, s
<1> HIDE DEF kept
<1>7. ASSUME NEW j \in 1 .. Len(s), NEW k \in 1 .. Len(s), numbers[s[j]] = numbers[s[k]] PROVE j = k
  <2>1. s[j] \in F /\ s[k] \in F /\ s[j] \in 1 .. Len(numbers) /\ s[k] \in 1 .. Len(numbers)
    BY <1>2, <1>5
  <2>2. CASE s[j] < s[k]
    <3>1. s[j] \in 1 .. s[k] - 1
      BY <1>1, <2>1, <2>2
    <3> QED
      BY <1>4, <1>7, <2>1, <3>1
  <2>3. CASE s[k] < s[j]
    <3>1. s[k] \in 1 .. s[j] - 1
      BY <1>1, <2>1, <2>3
    <3> QED
      BY <1>4, <1>7, <2>1, <3>1
  <2>4. CASE s[j] = s[k]
    BY <1>5, <2>4
  <2>5. s[j] < s[k] \/ s[k] < s[j] \/ s[j] = s[k]
    BY <1>1, <2>1
  <2> QED
    BY <2>2, <2>3, <2>4, <2>5
<1> QED
  BY <1>4, <1>5, <1>6, <1>7

LEMMA AssessAnalysis == ASSUME AnalysisIInv, NEW numbers \in Assessments, Assess(numbers) PROVE AnalysisIInv'
<1> DEFINE A == agents[Requirements].items
           P == {i \in 1 .. Len(A) : A[i].element # Ungrounded}
           positions == InOrder(P)
           kept == IF phase.profile THEN Kept(numbers, Len(positions)) ELSE <<>>
           row(k) == [run |-> phase.run, requirement |-> positions[kept[k]],
                      element |-> Source(A[positions[kept[k]]].element)]
           Req == stored[Requirements]
<1>1. /\ phase.pc = "assess" /\ UNCHANGED <<agents, stored>>
      /\ phase' = [phase EXCEPT !.pc = "done"]
      /\ assessed' = [k \in 1 .. Len(kept) |-> row(k)]
  BY DEF Assess, Assessable
<1>2. AnalysisTypes /\ Requirements \in Agents /\ phase.run \in 0 .. MaxPhases /\ stored = Rows(phase.run)
  BY <1>1, ExtractionAssumption DEF AnalysisIInv, AnalysisTypes, Requirements
<1>3. AnalysisTypes' /\ phase'.pc = "done" /\ phase'.run = phase.run
  BY <1>1, <1>2 DEF AnalysisTypes
<1>4. /\ Req.run = phase.run /\ Len(A) \in Nat /\ Len(Req.items) = Len(A)
      /\ \A i \in 1 .. Len(A) : A[i] \in Grounded /\ Req.items[i] = Row(A[i])
  BY <1>2, RowsTyped
<1>5. P \subseteq 1 .. Len(A) /\ P \subseteq Int /\ \A i \in P : A[i].element # Ungrounded
  BY <1>4
<1> HIDE DEF P
<1>7. /\ Len(positions) \in Nat /\ \A i \in 1 .. Len(positions) : positions[i] \in P
      /\ \A i, j \in 1 .. Len(positions) : positions[i] = positions[j] => i = j
  BY <1>4, <1>5, PositionsInOrder
<1> HIDE DEF positions
<1>8. /\ Len(kept) \in Nat /\ \A k \in 1 .. Len(kept) : kept[k] \in 1 .. Len(positions)
      /\ \A j, k \in 1 .. Len(kept) : kept[j] = kept[k] => j = k
  <2>1. CASE phase.profile
    BY <1>7, <2>1, KeptSound
  <2>2. CASE ~phase.profile
    BY <2>2
  <2> QED
    BY <2>1, <2>2
<1> HIDE DEF kept, A, Req
<1> HIDE DEF row
<1>9. Len(assessed') = Len(kept) /\ \A k \in 1 .. Len(kept) : assessed'[k] = row(k)
  BY <1>1, <1>8
<1>12. \A k : /\ row(k).run = phase.run /\ row(k).requirement = positions[kept[k]]
              /\ row(k).element = Source(A[positions[kept[k]]].element)
  BY DEF row
<1>10. ASSUME NEW k \in 1 .. Len(assessed')
       PROVE  LET c == assessed'[k] IN
              /\ c.run = Req.run /\ Req.run = phase'.run
              /\ c.requirement \in 1 .. Len(Req.items)
              /\ c.element = Req.items[c.requirement].element
              /\ GroundItem(Req.items[c.requirement].item) # Ungrounded
              /\ \A j \in 1 .. Len(assessed') : assessed'[j].requirement = c.requirement => j = k
  <2> DEFINE p == positions[kept[k]]
  <2>1. /\ assessed'[k].run = phase.run /\ assessed'[k].requirement = p
        /\ assessed'[k].element = Source(A[p].element)
    BY <1>9, <1>12
  <2>2. p \in P /\ p \in 1 .. Len(A) /\ A[p].element # Ungrounded
    BY <1>5, <1>7, <1>8, <1>9
  <2>3. A[p] \in Grounded /\ Req.items[p] = Row(A[p])
    BY <1>4, <2>2
  <2>4. /\ Req.items[p].element = Source(A[p].element) /\ Req.items[p].item = A[p].item
        /\ GroundItem(A[p].item) = A[p].element
    BY <2>3, RowCited DEF Grounded
  <2>5. \A j \in 1 .. Len(assessed') : assessed'[j].requirement = p => j = k
    <3> SUFFICES ASSUME NEW j \in 1 .. Len(assessed'), assessed'[j].requirement = p PROVE j = k
      OBVIOUS
    <3>1. j \in 1 .. Len(kept) /\ k \in 1 .. Len(kept)
      BY <1>9
    <3>2. assessed'[j].requirement = positions[kept[j]]
      BY <1>9, <1>12, <3>1
    <3>3. kept[j] = kept[k]
      BY <1>7, <1>8, <3>1, <3>2
    <3> QED
      BY <1>8, <3>1, <3>3
  <2> HIDE DEF p
  <2> QED
    BY <1>3, <1>4, <2>1, <2>2, <2>4, <2>5
<1>11. AnalysisWhole'
  <2>1. \A a, b \in Agents : stored'[a].run = stored'[b].run
    BY <1>1 DEF AnalysisIInv, AnalysisWhole
  <2>2. \A a \in Agents : \A i \in 1 .. Len(stored'[a].items) :
          stored'[a].items[i].element # Ungrounded => Proves(stored'[a].items[i].item, stored'[a].items[i].element)
    BY <1>1 DEF AnalysisIInv, AnalysisWhole
  <2>3. stored'[Requirements] = Req
    BY <1>1 DEF Req
  <2> QED
    BY <1>10, <2>1, <2>2, <2>3 DEF AnalysisWhole, Proves
<1> QED
  BY <1>3, <1>11 DEF AnalysisIInv

LEMMA NextAnalysis == AnalysisIInv /\ [ExtractionNext]_extractionVars => AnalysisIInv'
<1> SUFFICES ASSUME AnalysisIInv, [ExtractionNext]_extractionVars PROVE AnalysisIInv'
  OBVIOUS
<1>1. CASE UNCHANGED extractionVars
  <2>1. UNCHANGED <<phase, agents, stored, assessed>>
    BY <1>1 DEF extractionVars
  <2>2. AnalysisTypes'
    BY <2>1 DEF AnalysisIInv, AnalysisTypes
  <2>3. AnalysisWhole'
    <3>1. AnalysisWhole
      BY DEF AnalysisIInv
    <3> QED
      BY <2>1, <3>1 DEF AnalysisWhole, Proves
  <2>4. Rows(phase.run)' = Rows(phase.run)
    BY <2>1 DEF Rows
  <2> QED
    BY <2>1, <2>2, <2>3, <2>4 DEF AnalysisIInv
<1>2. ASSUME NEW profile \in BOOLEAN, BeginPhase(profile) PROVE AnalysisIInv'
  BY <1>2, BeginAnalysis
<1>3. CASE NoContext \/ GraphFails \/ PhaseLost
  BY <1>3, FailAnalysis
<1>4. CASE WriteRows
  BY <1>4, WriteAnalysis
<1>5. ASSUME NEW a \in Agents, NEW items \in Answers, AgentAnswers(a, items) PROVE AnalysisIInv'
  BY <1>5, AnswersAnalysis
<1>6. ASSUME NEW a \in Agents, SchemaViolated(a) \/ CallRaised(a) PROVE AnalysisIInv'
  BY <1>6, RaisesAnalysis
<1>7. ASSUME NEW numbers \in Assessments, Assess(numbers) PROVE AnalysisIInv'
  BY <1>7, AssessAnalysis
<1> QED
  BY <1>1, <1>2, <1>3, <1>4, <1>5, <1>6, <1>7 DEF ExtractionNext

(***************************************************************************)
(* Whatever an agent answers and whichever step fails: what the worker     *)
(* stored is of one run, each source holds its quote, and a finished phase *)
(* has assessed requirements of that run, each once (ground_item,          *)
(* _write_findings, ComplianceChecker.check, _run_compliance).             *)
(***************************************************************************)
THEOREM AnalysisIsWhole == ExtractionSpec => []AnalysisWhole
<1>1. AnalysisIInv => AnalysisWhole
  BY DEF AnalysisIInv
<1> QED
  BY <1>1, InitAnalysis, NextAnalysis, PTL DEF ExtractionSpec

\* The phase, the agents and the rows keep their types, however often an agent is asked.
THEOREM ExtractionTypeCorrect == ExtractionSpec => []ExtractionTypeOK
<1>1. AnalysisIInv => ExtractionTypeOK
  BY DEF AnalysisIInv, AnalysisTypes, Node, ExtractionTypeOK
<1> QED
  BY <1>1, InitAnalysis, NextAnalysis, PTL DEF ExtractionSpec

-----------------------------------------------------------------------------
(***************************************************************************)
(* Chunking: ChunksSound.  The text of an element is as parsing wrote it,  *)
(* of any length; what is said of it is only that strip() leaves it        *)
(* something that begins with a letter (Stripped) and that a cut is in its *)
(* window, behind the window's start (CutInside).  So a piece is never     *)
(* empty and none is longer than MaxChars, and the first of an element is  *)
(* not blank: an element that is cut is in some chunk even where all its   *)
(* other pieces are of blanks.                                             *)
(*                                                                         *)
(* The invariant adds to ChunksSound what is open: the chunk that is being *)
(* gathered is as sound as if it were emitted now (GatheredOK), it begins  *)
(* where the emitted ones end (EmittedOK), and of the element that is      *)
(* being cut every character before start is in a piece (AllCovered).      *)
(* That a piece begins no earlier than the overlap allows is about the     *)
(* next piece, which may not be there yet: each piece knows where its next *)
(* one begins, which is start or a piece that was taken (Followed).        *)
(***************************************************************************)

ChunkRecords == [from : Nat, to : Nat, chars : Int]

\* A chunk that may be emitted.
ChunkOK(c) ==
    /\ c \in ChunkRecords
    /\ c.from \in 1 .. Len(elements) /\ c.to \in c.from .. Len(elements)
    /\ c.chars > MaxChars => elements[c.from].kind = "heading" /\ c.from = c.to
    /\ \A i \in c.from .. c.to :
          \/ IsBlank(elements[i].text)
          \/ /\ elements[i].kind = "table" => c.from = c.to
             /\ elements[i].kind = "heading" => i = c.from

\* Sound chunks in reading order, none with an element behind limit.
ChunkList(s, limit) ==
    /\ s \in Seq(ChunkRecords)
    /\ \A k \in 1 .. Len(s) :
          ChunkOK(s[k]) /\ s[k].to <= limit /\ (k > 1 => s[k - 1].to <= s[k].from)

\* The chunk that flush would emit.
OpenChunk == [from |-> gathered.from, to |-> gathered.to, chars |-> Size(gathered.from, gathered.to)]

\* The variables' types, and where the open chunk may be.
ChunkTypes ==
    /\ elements \in Seq([kind : Kinds, text : Seq(Characters)])
    /\ index \in 1 .. Len(elements) + 1 /\ start \in Nat
    /\ gathered \in [from : Nat, to : Nat]
    /\ gathered = NoChunk \/ (1 <= gathered.from /\ gathered.from <= gathered.to /\ gathered.to < index)
    /\ cuts \subseteq [element : Nat, from : Nat, cut : Nat]

\* What is cut is one element with text that may be cut, and no chunk is open.
CutsOne ==
    start > 0 =>
        /\ index <= Len(elements) /\ ~IsBlank(elements[index].text) /\ gathered = NoChunk
        /\ elements[index].kind = "table" \/ Oversized
        /\ start <= Len(Text(index))

\* The open chunk is sound, has no table, and reaches up to the loop.
GatheredOK ==
    gathered # NoChunk =>
        /\ ChunkOK(OpenChunk)
        /\ \A i \in gathered.from .. gathered.to : ~IsBlank(elements[i].text) => elements[i].kind # "table"
        /\ \A i \in gathered.to + 1 .. index - 1 : IsBlank(elements[i].text)

\* The emitted chunks are sound, and end where the open one begins.
EmittedOK == ChunkList(chunks, IF gathered = NoChunk THEN index ELSE gathered.from)

\* No element with text is lost.
AllCited ==
    /\ \A i \in 1 .. index - 1 :
          ~IsBlank(elements[i].text) => Cited(i) \/ i \in gathered.from .. gathered.to
    /\ start > 1 => Cited(index)

\* A piece has characters and a place of its own in its element.
PieceOK(c) ==
    /\ c.element \in 1 .. index /\ c.element <= Len(elements)
    /\ c.element = index => c.from < start
    /\ 1 <= c.from /\ c.from <= Len(Text(c.element)) /\ c.from < c.cut
    /\ \A d \in Pieces(c.element) : d.from = c.from => d = c

\* The piece after c begins at n, or will.
Follows(c, n) ==
    /\ \A e \in Pieces(c.element) : e.from > c.from => e.from >= n
    /\ (c.element = index /\ start = n) \/ \E e \in Pieces(c.element) : e.from = n

Followed(c) ==
    c.cut <= Len(Text(c.element)) =>
        Follows(c, NextStart(c.from, c.cut, Overlap(elements[c.element].kind)))

CutsOK == \A c \in cuts : PieceOK(c) /\ Followed(c)

\* Character p of element i is in a piece.
InPiece(i, p) == \E c \in Pieces(i) : p \in c.from .. c.cut - 1

AllCovered ==
    /\ \A i \in 1 .. index - 1 : Pieces(i) # {} => \A p \in 1 .. Len(Text(i)) : InPiece(i, p)
    /\ start > 0 => \A p \in 1 .. start - 1 : InPiece(index, p)

ChunkingIInv ==
    ChunkTypes /\ CutsOne /\ GatheredOK /\ EmittedOK /\ AllCited /\ CutsOK /\ AllCovered

\* Of some of the positions of a sequence, one is the first and one the last.
LEMMA EndsExist ==
    ASSUME NEW n \in Nat, NEW S \in SUBSET (1 .. n), S # {}
    PROVE  /\ \E x \in S : \A y \in S : x <= y
           /\ \E x \in S : \A y \in S : x >= y
<1>1. IsFiniteSet(S) /\ S \subseteq Int
  <2> DEFINE T == 1 .. n
  <2>1. IsFiniteSet(T) /\ S \in SUBSET T
    BY FromOne
  <2>2. IsFiniteSet(S)
    BY ONLY <2>1, FS_Subset
  <2> QED
    BY <2>2
<1> QED
  BY <1>1, LeastExists, GreatestExists

\* What strip() keeps of a text begins with a character that is not white.
LEMMA InkAt ==
    ASSUME NEW t \in Seq(Characters)
    PROVE  /\ IsBlank(t) <=> \A p \in 1 .. Len(t) : t[p] \in White
           /\ FirstInk(t) \in Nat /\ LastInk(t) \in Nat
           /\ ~IsBlank(t) => /\ FirstInk(t) \in 1 .. Len(t) /\ LastInk(t) \in 1 .. Len(t)
                             /\ t[FirstInk(t)] \notin White /\ FirstInk(t) <= LastInk(t)
<1> DEFINE I == {p \in 1 .. Len(t) : t[p] \notin White}
<1>1. /\ FirstInk(t) = IF I # {} THEN CHOOSE x \in I : \A y \in I : x <= y ELSE 0
      /\ LastInk(t) = IF I # {} THEN CHOOSE x \in I : \A y \in I : x >= y ELSE 0
  BY DEF FirstInk, LastInk, SelectInSeq, SelectLastInSeq, NotWhite, Min, Max
<1>2. Len(t) \in Nat /\ I \in SUBSET (1 .. Len(t))
  OBVIOUS
<1>3. CASE I = {}
  <2>1. \A p \in 1 .. Len(t) : t[p] \in White
    BY <1>3
  <2> HIDE DEF I
  <2> QED
    BY <1>1, <1>3, <2>1 DEF IsBlank
<1>4. CASE I # {}
  <2>1. /\ FirstInk(t) \in I /\ \A y \in I : FirstInk(t) <= y
        /\ LastInk(t) \in I /\ \A y \in I : LastInk(t) >= y
    <3> HIDE DEF I
    <3>1. (\E x \in I : \A y \in I : x <= y) /\ (\E x \in I : \A y \in I : x >= y)
      BY <1>2, <1>4, EndsExist
    <3> QED
      BY <1>1, <1>4, <3>1
  <2>2. FirstInk(t) \in 1 .. Len(t) /\ LastInk(t) \in 1 .. Len(t) /\ t[FirstInk(t)] \notin White
    BY <2>1
  <2>3. FirstInk(t) <= LastInk(t)
    BY <2>1
  <2>4. ~IsBlank(t) /\ ~ \A p \in 1 .. Len(t) : t[p] \in White
    BY <2>2 DEF IsBlank
  <2>5. FirstInk(t) \in Nat /\ LastInk(t) \in Nat
    BY <2>2
  <2> QED
    BY <2>2, <2>3, <2>4, <2>5
<1> QED
  BY <1>3, <1>4

\* What strip() leaves of a text that is not blank.
LEMMA Stripped ==
    ASSUME NEW t \in Seq(Characters), ~IsBlank(t)
    PROVE  /\ Strip(t) \in Seq(Characters) /\ Len(Strip(t)) \in 1 .. Len(t)
           /\ Strip(t)[1] \notin White
<1>1. /\ FirstInk(t) \in 1 .. Len(t) /\ LastInk(t) \in 1 .. Len(t)
      /\ t[FirstInk(t)] \notin White /\ FirstInk(t) <= LastInk(t)
  BY InkAt
<1> DEFINE a == FirstInk(t)
           b == LastInk(t)
<1> HIDE DEF a, b
<1>2. a \in 1 .. Len(t) /\ b \in 1 .. Len(t) /\ a <= b /\ t[a] \notin White /\ Len(t) \in Nat
  BY <1>1 DEF a, b
<1>3. SubSeq(t, a, b) \in Seq(Characters)
  BY <1>2
<1>4. Len(SubSeq(t, a, b)) = b - a + 1
  BY <1>2
<1>5. SubSeq(t, a, b)[1] = t[a]
  BY <1>2
<1> QED
  BY <1>2, <1>3, <1>4, <1>5 DEF a, b, Strip

\* A part of a text that begins with a letter is not blank.
LEMMA LetterFirst ==
    ASSUME NEW t \in Seq(Characters), Len(t) >= 1, t[1] \notin White
    PROVE  ~IsBlank(t)
BY InkAt

\* The cut of a window is in it, after its first position.
LEMMA CutInside ==
    ASSUME NEW t \in Seq(Characters), NEW from \in 1 .. Len(t), NEW to \in from .. Len(t)
    PROVE  FindCut(t, from, to) \in from + 1 .. to + 1
<1> DEFINE kinds == {k \in DOMAIN Markers : Breaks(t, from, to, k) # {}}
           k == CHOOSE k \in kinds : \A j \in kinds : k <= j
           p == CHOOSE p \in Breaks(t, from, to, k) : \A x \in Breaks(t, from, to, k) : x <= p
<1>1. FindCut(t, from, to) = IF kinds = {} THEN to + 1 ELSE p + AfterBreak(k)
  BY Zenon DEF FindCut
<1>2. CASE kinds # {}
  <2>1. k \in kinds
    <3>1. 6 \in Nat /\ kinds \in SUBSET (1 .. 6)
      BY DEF Markers
    <3> HIDE DEF kinds
    <3>2. \E x \in kinds : \A y \in kinds : x <= y
      BY <1>2, <3>1, EndsExist
    <3> QED
      BY <3>2
  <2>2. k \in DOMAIN Markers /\ Breaks(t, from, to, k) # {}
    BY <2>1
  <2> HIDE DEF k, kinds
  <2> DEFINE B == Breaks(t, from, to, k)
  <2>3. Len(t) \in Nat /\ B \in SUBSET (1 .. Len(t)) /\ B # {}
    BY <2>2 DEF Breaks
  <2>4. p \in B
    <3> HIDE DEF B
    <3>1. \E x \in B : \A y \in B : x >= y
      BY <2>3, EndsExist
    <3>2. \E x \in B : \A y \in B : y <= x
      BY <2>3, <3>1
    <3> QED
      BY <3>2 DEF B
  <2> HIDE DEF p
  <2>5. p \in from + 1 .. to /\ (Markers[k] \in SentenceEnds => p < to)
    BY <2>4, <2>2 DEF Breaks
  <2>6. p + AfterBreak(k) \in from + 1 .. to + 1
    BY <2>2, <2>5 DEF AfterBreak
  <2> QED
    BY <1>1, <1>2, <2>6
<1> QED
  BY <1>1, <1>2

\* What an element's text is, and what it counts for.
LEMMA ElementOf ==
    ASSUME ChunkTypes, NEW i \in 1 .. Len(elements)
    PROVE  /\ elements[i].kind \in Kinds /\ elements[i].text \in Seq(Characters)
           /\ PartSize[i] \in Int
           /\ IsBlank(elements[i].text) => PartSize[i] = 0
           /\ ~IsBlank(elements[i].text) =>
                /\ PartSize[i] = Len(Text(i)) + 1
                /\ Text(i) \in Seq(Characters) /\ Len(Text(i)) \in Nat
                /\ 1 <= Len(Text(i)) /\ Text(i)[1] \notin White
<1>1. elements[i] \in [kind : Kinds, text : Seq(Characters)] /\ i \in DOMAIN elements
  <2> DEFINE R == [kind : Kinds, text : Seq(Characters)]
  <2>1. elements \in Seq(R)
    BY DEF ChunkTypes
  <2> HIDE DEF R
  <2>2. elements[i] \in R /\ i \in DOMAIN elements
    BY <2>1
  <2> QED
    BY <2>2 DEF R
<1>2. elements[i].kind \in Kinds /\ elements[i].text \in Seq(Characters)
  BY <1>1
<1>3. PartSize[i] = IF IsBlank(elements[i].text) THEN 0 ELSE Len(Text(i)) + 1
  BY <1>1 DEF PartSize
<1>4. ASSUME ~IsBlank(elements[i].text)
      PROVE  /\ Text(i) \in Seq(Characters) /\ Len(Text(i)) \in Nat
             /\ 1 <= Len(Text(i)) /\ Text(i)[1] \notin White
  <2>1. /\ Text(i) \in Seq(Characters) /\ Len(Text(i)) \in 1 .. Len(elements[i].text)
        /\ Text(i)[1] \notin White
    BY <1>2, <1>4, Stripped DEF Text
  <2> QED
    BY <2>1
<1> QED
  BY <1>2, <1>3, <1>4

\* An interval is finite.
LEMMA IntervalFinite == ASSUME NEW a \in Int, NEW b \in Int PROVE IsFiniteSet(a .. b)
BY ONLY FS_Interval

\* The characters of a chunk of one element are those of its text.
LEMMA SizeOne ==
    ASSUME ChunkTypes, NEW i \in 1 .. Len(elements), ~IsBlank(elements[i].text)
    PROVE  Size(i, i) = Len(Text(i))
<1>1. PartSize[i] = Len(Text(i)) + 1 /\ Len(Text(i)) \in Nat
  BY ElementOf
<1>2. i .. i = {} \cup {i}
  BY DEF ChunkTypes
<1>3. IsFiniteSet({})
  BY FS_EmptySet
<1>4. SumFunctionOnSet(PartSize, {} \cup {i}) = PartSize[i] + SumFunctionOnSet(PartSize, {})
  <2> DEFINE f == PartSize
             B == {}
  <2>1. IsFiniteSet(B) /\ i \notin B /\ \A j \in B \cup {i} : f[j] \in Int
    BY <1>1, <1>3
  <2> HIDE DEF f, B
  <2>2. SumFunctionOnSet(f, B \cup {i}) = f[i] + SumFunctionOnSet(f, B)
    BY <2>1, SumAdd
  <2> QED
    BY <2>2 DEF f, B
<1>5. SumFunctionOnSet(PartSize, i .. i) = Len(Text(i)) + 1
  BY <1>1, <1>2, <1>4, SumEmpty
<1> QED
  BY <1>1, <1>5 DEF Size

\* One more element adds its characters and the one between.
LEMMA SizeMore ==
    ASSUME ChunkTypes, NEW n \in 1 .. Len(elements), NEW to \in 1 .. n - 1, NEW from \in 1 .. to,
           ~IsBlank(elements[n].text), \A i \in to + 1 .. n - 1 : IsBlank(elements[i].text)
    PROVE  /\ Size(from, to) \in Int
           /\ Size(from, n) = Size(from, to) + 1 + Len(Text(n))
<1>1. Len(elements) \in Nat /\ n \in Nat /\ to \in Nat /\ from \in Nat
  BY DEF ChunkTypes
<1>2. \A i \in from .. n : PartSize[i] \in Int
  <2> SUFFICES ASSUME NEW i \in from .. n PROVE PartSize[i] \in Int
    OBVIOUS
  <2>1. i \in 1 .. Len(elements)
    BY <1>1
  <2> QED
    BY <2>1, ElementOf
<1>3. \A i \in (from .. n - 1) \ (from .. to) : PartSize[i] = 0
  <2> SUFFICES ASSUME NEW i \in (from .. n - 1) \ (from .. to) PROVE PartSize[i] = 0
    OBVIOUS
  <2>1. i \in 1 .. Len(elements) /\ i \in to + 1 .. n - 1
    BY <1>1
  <2> QED
    BY <2>1, ElementOf
<1> DEFINE A == from .. to
           B == from .. n - 1
           f == PartSize
<1>4. /\ IsFiniteSet(A) /\ IsFiniteSet(B) /\ A \subseteq B /\ n \notin B /\ from .. n = B \cup {n}
      /\ \A i \in B \cup {n} : f[i] \in Int
      /\ \A i \in B \ A : f[i] = 0
  <2>1. A \subseteq B /\ n \notin B /\ from .. n = B \cup {n}
    BY <1>1
  <2>2. n - 1 \in Int /\ from \in Int /\ to \in Int
    BY <1>1
  <2>3. IsFiniteSet(A) /\ IsFiniteSet(B)
    BY <2>2, IntervalFinite
  <2> QED
    BY <1>2, <1>3, <2>1, <2>3
<1> HIDE DEF A, B, f
<1>5. SumFunctionOnSet(f, B \cup {n}) = f[n] + SumFunctionOnSet(f, B)
  BY <1>4, SumAdd
<1>6. SumFunctionOnSet(f, B) = SumFunctionOnSet(f, A)
  BY <1>4, SumSupport
<1>7. SumFunctionOnSet(f, A) \in Int
  BY <1>4, SumType
<1>8. f[n] = Len(Text(n)) + 1 /\ Len(Text(n)) \in Nat
  BY ElementOf DEF f
<1>9. Size(from, n) = SumFunctionOnSet(f, A) + f[n] - 1 /\ Size(from, to) = SumFunctionOnSet(f, A) - 1
  <2>1. Size(from, n) = SumFunctionOnSet(f, B \cup {n}) - 1
    <3>1. Size(from, n) = SumFunctionOnSet(PartSize, from .. n) - 1
      BY DEF Size
    <3> QED
      BY <1>4, <3>1 DEF f
  <2>2. Size(from, to) = SumFunctionOnSet(f, A) - 1
    BY DEF Size, A, f
  <2>3. f[n] \in Int
    BY <1>8
  <2> QED
    BY <1>5, <1>6, <1>7, <2>1, <2>2, <2>3
<1> QED
  BY <1>7, <1>8, <1>9

-----------------------------------------------------------------------------
\* Chunks, one after the other.

\* A list of sound chunks may be read with a later limit.
LEMMA ListLater ==
    ASSUME NEW s, NEW m \in Int, NEW n \in Int, m <= n, ChunkList(s, m)
    PROVE  ChunkList(s, n)
<1>1. s \in Seq(ChunkRecords) /\ Len(s) \in Nat
  BY DEF ChunkList
<1>2. ASSUME NEW k \in 1 .. Len(s) PROVE s[k].to <= n
  <2>1. s[k] \in ChunkRecords /\ s[k].to <= m
    BY <1>1 DEF ChunkList
  <2> QED
    BY <2>1 DEF ChunkRecords
<1> QED
  BY <1>2 DEF ChunkList

\* One more sound chunk behind the others keeps the list sound.
LEMMA ListAppend ==
    ASSUME NEW s, NEW m \in Int, NEW n \in Int, ChunkList(s, m),
           NEW c, ChunkOK(c), m <= c.from, c.to <= n
    PROVE  ChunkList(Append(s, c), n)
<1>1. s \in Seq(ChunkRecords) /\ Len(s) \in Nat /\ c \in ChunkRecords /\ c.from <= c.to
  BY DEF ChunkList, ChunkOK, ChunkRecords
<1>2. Append(s, c) \in Seq(ChunkRecords) /\ Len(Append(s, c)) = Len(s) + 1
  BY <1>1
<1>3. \A k \in 1 .. Len(s) : Append(s, c)[k] = s[k]
  BY <1>1
<1>4. Append(s, c)[Len(s) + 1] = c
  BY <1>1
<1>5. ASSUME NEW k \in 1 .. Len(s) + 1
      PROVE  LET a == Append(s, c) IN ChunkOK(a[k]) /\ a[k].to <= n /\ (k > 1 => a[k - 1].to <= a[k].from)
  <2>1. \A j \in 1 .. Len(s) : s[j] \in ChunkRecords /\ s[j].to \in Nat /\ s[j].to <= m
    <3>1. \A j \in 1 .. Len(s) : s[j] \in ChunkRecords /\ s[j].to <= m
      BY <1>1 DEF ChunkList
    <3> QED
      BY <3>1 DEF ChunkRecords
  <2>2. c.from \in Nat /\ c.to \in Nat
    BY <1>1 DEF ChunkRecords
  <2>3. CASE k \in 1 .. Len(s)
    <3>1. ChunkOK(s[k]) /\ s[k].to <= n
      BY <2>1, <2>2, <2>3, <1>1 DEF ChunkList
    <3>2. k > 1 => s[k - 1].to <= s[k].from /\ k - 1 \in 1 .. Len(s)
      BY <2>3, <1>1 DEF ChunkList
    <3> QED
      BY <3>1, <3>2, <1>3, <2>3
  <2>4. CASE k = Len(s) + 1
    <3>1. k > 1 => k - 1 \in 1 .. Len(s) /\ s[k - 1].to <= c.from
      BY <2>1, <2>2, <2>4, <1>1
    <3> QED
      BY <3>1, <1>3, <1>4, <2>4
  <2> QED
    BY <2>3, <2>4, <1>1
<1> QED
  BY <1>2, <1>5 DEF ChunkList

\* s has a chunk with element i in it.
Holds(s, i) == \E k \in 1 .. Len(s) : i \in s[k].from .. s[k].to

\* One more chunk holds its elements, and the others hold what they held.
LEMMA HoldsMore ==
    ASSUME NEW s \in Seq(ChunkRecords), NEW c \in ChunkRecords
    PROVE  /\ \A i : Holds(s, i) => Holds(Append(s, c), i)
           /\ \A i \in c.from .. c.to : Holds(Append(s, c), i)
<1>1. Len(s) \in Nat /\ Len(Append(s, c)) = Len(s) + 1 /\ Append(s, c)[Len(s) + 1] = c
      /\ \A k \in 1 .. Len(s) : Append(s, c)[k] = s[k]
  OBVIOUS
<1>2. ASSUME NEW i, Holds(s, i) PROVE Holds(Append(s, c), i)
  <2>1. PICK k \in 1 .. Len(s) : i \in s[k].from .. s[k].to
    BY <1>2 DEF Holds
  <2>2. k \in 1 .. Len(Append(s, c)) /\ Append(s, c)[k] = s[k]
    BY <1>1
  <2> QED
    BY <2>1, <2>2 DEF Holds
<1>3. ASSUME NEW i \in c.from .. c.to PROVE Holds(Append(s, c), i)
  <2>1. Len(s) + 1 \in 1 .. Len(Append(s, c))
    BY <1>1
  <2> QED
    BY <1>1, <2>1 DEF Holds
<1> QED
  BY <1>2, <1>3

\* flush keeps the list sound and puts what was gathered into it.
LEMMA FlushedSound ==
    ASSUME ChunkingIInv
    PROVE  /\ ChunkList(Flushed, index)
           /\ \A i : Holds(chunks, i) => Holds(Flushed, i)
           /\ gathered # NoChunk => \A i \in gathered.from .. gathered.to : Holds(Flushed, i)
<1>1. index \in Int
  BY DEF ChunkingIInv, ChunkTypes
<1>2. CASE gathered = NoChunk
  BY <1>1, <1>2 DEF ChunkingIInv, EmittedOK, Flushed
<1>3. CASE gathered # NoChunk
  <2>1. /\ gathered \in [from : Nat, to : Nat] /\ gathered.to < index
        /\ ChunkOK(OpenChunk) /\ ChunkList(chunks, gathered.from)
    BY <1>3 DEF ChunkingIInv, ChunkTypes, GatheredOK, EmittedOK
  <2>2. Flushed = Append(chunks, OpenChunk)
    BY <1>3 DEF Flushed, OpenChunk
  <2>3. OpenChunk.from = gathered.from /\ OpenChunk.to = gathered.to
    BY DEF OpenChunk
  <2>4. gathered.from \in Int /\ gathered.to \in Int /\ gathered.to <= index
    BY <1>1, <2>1
  <2> DEFINE g == OpenChunk
  <2> HIDE DEF g
  <2>5. ChunkList(Append(chunks, g), index)
    BY <1>1, <2>1, <2>3, <2>4, ListAppend DEF g
  <2>6. chunks \in Seq(ChunkRecords) /\ g \in ChunkRecords
    BY <2>1 DEF ChunkList, ChunkOK, g
  <2> QED
    BY <1>3, <2>2, <2>3, <2>5, <2>6, HoldsMore DEF g
<1> QED
  BY <1>2, <1>3

\* Where the loop is without an open chunk, or behind it.
LEMMA ListNow ==
    ASSUME ChunkingIInv
    PROVE  ChunkList(chunks, index)
<1>1. index \in Int
  BY DEF ChunkingIInv, ChunkTypes
<1>2. CASE gathered = NoChunk
  BY <1>2 DEF ChunkingIInv, EmittedOK
<1>3. CASE gathered # NoChunk
  <2>1. gathered.from \in Int /\ gathered.from <= index /\ ChunkList(chunks, gathered.from)
    BY <1>3 DEF ChunkingIInv, ChunkTypes, EmittedOK
  <2> QED
    BY <1>1, <2>1, ListLater
<1> QED
  BY <1>2, <1>3

\* Before the next index are the positions before this one, and this one if it moved.
LEMMA UpToNext ==
    ASSUME NEW m \in Nat, NEW n \in Nat, n = m \/ n = m + 1, NEW i \in 1 .. n - 1
    PROVE  i \in 1 .. m - 1 \/ (i = m /\ n = m + 1)
OBVIOUS

\* Nothing is before the first position.
LEMMA NothingBefore == ASSUME NEW n, n = 0 \/ n = 1 PROVE \A p \in 1 .. n - 1 : FALSE
OBVIOUS

\* An element is cited when a chunk holds it.
LEMMA CitedIsHeld ==
    /\ \A i : Cited(i) <=> Holds(chunks, i)
    /\ \A i : Cited(i)' <=> Holds(chunks', i)
BY DEF Cited, Holds

\* The document stays as it is, so what is said of it does.
LEMMA DocumentKept ==
    ASSUME elements' = elements
    PROVE  /\ PartSize' = PartSize
           /\ \A i : Text(i)' = Text(i)
           /\ \A a, b : Size(a, b)' = Size(a, b)
           /\ \A c : ChunkOK(c)' <=> ChunkOK(c)
           /\ \A s, limit : ChunkList(s, limit)' <=> ChunkList(s, limit)
<1>1. PartSize' = PartSize
  BY Zenon DEF PartSize, Text
<1>2. \A i : Text(i)' = Text(i)
  BY Zenon DEF Text
<1>3. \A a, b : Size(a, b)' = Size(a, b)
  BY <1>1, Zenon DEF Size
<1>4. \A c : ChunkOK(c)' <=> ChunkOK(c)
  BY Zenon DEF ChunkOK
<1>5. \A s, limit : ChunkList(s, limit)' <=> ChunkList(s, limit)
  BY <1>4, Zenon DEF ChunkList
<1> QED
  BY <1>1, <1>2, <1>3, <1>4, <1>5

\* The emitted chunks after a step.
LEMMA EmittedNow ==
    ASSUME elements' = elements, NEW limit, ChunkList(chunks', limit),
           limit = IF gathered' = NoChunk THEN index' ELSE gathered'.from
    PROVE  EmittedOK'
<1>1. ChunkList(chunks, IF gathered = NoChunk THEN index ELSE gathered.from)'
      <=> ChunkList(chunks', IF gathered' = NoChunk THEN index' ELSE gathered'.from)
  BY Zenon DEF ChunkList, ChunkOK
<1> QED
  BY <1>1 DEF EmittedOK

\* The open chunk after a step.
LEMMA GatheredNow ==
    ASSUME elements' = elements, NEW a, NEW b, gathered' = [from |-> a, to |-> b],
           ChunkOK([from |-> a, to |-> b, chars |-> Size(a, b)]),
           \A i \in a .. b : ~IsBlank(elements[i].text) => elements[i].kind # "table",
           \A i \in b + 1 .. index' - 1 : IsBlank(elements[i].text)
    PROVE  GatheredOK'
<1>1. gathered'.from = a /\ gathered'.to = b
  OBVIOUS
<1>2. Size(gathered.from, gathered.to)' = Size(a, b)
  <2>1. PartSize' = PartSize
    BY DocumentKept
  <2> QED
    BY <1>1, <2>1 DEF Size
<1>3. OpenChunk' = [from |-> a, to |-> b, chars |-> Size(a, b)]
  BY <1>1, <1>2 DEF OpenChunk
<1>4. ChunkOK(OpenChunk)' <=> ChunkOK(OpenChunk')
  BY Zenon DEF ChunkOK
<1>5. ChunkOK(OpenChunk)'
  BY <1>3, <1>4
<1> QED
  BY <1>1, <1>5 DEF GatheredOK

\* Nothing is being cut, so no piece is of the element the loop is at.
LEMMA NoPieceHere ==
    ASSUME ChunkingIInv, start = 0
    PROVE  /\ \A c \in cuts : c.element < index
           /\ Pieces(index) = {}
<1>1. ASSUME NEW c \in cuts PROVE c.element < index
  <2>1. PieceOK(c) /\ c \in [element : Nat, from : Nat, cut : Nat]
    BY DEF ChunkingIInv, CutsOK, ChunkTypes
  <2>2. c.element \in 1 .. index /\ (c.element = index => c.from < 0) /\ c.from \in Nat /\ index \in Int
    BY <2>1 DEF PieceOK, ChunkingIInv, ChunkTypes
  <2> QED
    BY <2>2
<1>2. index \in Int
  BY DEF ChunkingIInv, ChunkTypes
<1> QED
  BY <1>1, <1>2 DEF Pieces

\* While nothing is being cut, the pieces stay as they are.
LEMMA CutsKept ==
    ASSUME ChunkingIInv, elements' = elements, cuts' = cuts, start = 0, start' = 0 \/ start' = 1,
           index' = index \/ index' = index + 1, start' = 0 \/ index' = index
    PROVE  CutsOK' /\ AllCovered'
<1>1. /\ index \in Nat /\ Len(elements) \in Nat /\ start' \in Nat /\ start' <= 1
      /\ index' \in Nat /\ (index' = index \/ index' = index + 1)
  BY DEF ChunkingIInv, ChunkTypes
<1>2. \A i : Pieces(i)' = Pieces(i) /\ Text(i)' = Text(i)
  BY Zenon DEF Pieces, Text
<1>3. ASSUME NEW c \in cuts PROVE PieceOK(c)' /\ Followed(c)'
  <2>1. PieceOK(c) /\ Followed(c) /\ c.element < index
    BY NoPieceHere DEF ChunkingIInv, CutsOK
  <2>2. c.element \in 1 .. index' /\ c.element # index'
    BY <1>1, <2>1 DEF PieceOK
  <2>3. PieceOK(c)'
    <3>1. Pieces(c.element)' = Pieces(c.element) /\ Text(c.element)' = Text(c.element)
      BY <1>2
    <3> QED
      BY <2>1, <2>2, <3>1 DEF PieceOK
  <2>4. Followed(c)'
    <3>1. Pieces(c.element)' = Pieces(c.element) /\ Text(c.element)' = Text(c.element)
      BY <1>2
    <3>2. c.element # index
      BY <2>1, <1>1 DEF PieceOK
    <3> DEFINE n == NextStart(c.from, c.cut, Overlap(elements[c.element].kind))
    <3>3. (Follows(c, NextStart(c.from, c.cut, Overlap(elements[c.element].kind))))' <=> Follows(c, n)'
      BY Zenon
    <3>4. Follows(c, n) => Follows(c, n)'
      BY <2>2, <3>1, <3>2 DEF Follows
    <3> QED
      BY <2>1, <3>1, <3>3, <3>4 DEF Followed
  <2> QED
    BY <2>3, <2>4
<1>4. CutsOK'
  BY <1>3 DEF CutsOK
<1>5. \A i, p : InPiece(i, p)' <=> InPiece(i, p)
  BY <1>2 DEF InPiece
<1>6. AllCovered'
  <2>1. ASSUME NEW i \in 1 .. index' - 1, Pieces(i)' # {}, NEW p \in 1 .. Len(Text(i)') PROVE InPiece(i, p)'
    <3>1. Pieces(i) # {} /\ p \in 1 .. Len(Text(i))
      BY <1>2, <2>1
    <3>2. i # index
      BY <3>1, NoPieceHere
    <3>3. i \in 1 .. index - 1
      BY <1>1, <3>2, UpToNext
    <3> QED
      BY <1>5, <3>1, <3>3 DEF ChunkingIInv, AllCovered
  <2>2. \A p \in 1 .. start' - 1 : InPiece(index, p)'
    <3>1. \A p \in 1 .. start' - 1 : FALSE
      BY NothingBefore
    <3> QED
      BY <3>1
  <2> QED
    BY <2>1, <2>2 DEF AllCovered
<1> QED
  BY <1>4, <1>6

\* Nothing that was in a chunk or gathered is forgotten.
LEMMA CitedNow ==
    ASSUME ChunkingIInv, elements' = elements, start' = 0 \/ start' = 1, 
           index' = index \/ index' = index + 1,
           \A i : Holds(chunks, i) => Holds(chunks', i),
           gathered # NoChunk =>
               \A i \in gathered.from .. gathered.to : Holds(chunks', i) \/ i \in gathered'.from .. gathered'.to,
           index' = index + 1 =>
               IsBlank(elements[index].text) \/ Holds(chunks', index) \/ index \in gathered'.from .. gathered'.to
    PROVE  AllCited'
<1>1. index \in Nat /\ start' \in Nat /\ index' \in Nat /\ (index' = index \/ index' = index + 1)
  BY DEF ChunkingIInv, ChunkTypes
<1>2. ASSUME NEW i \in 1 .. index' - 1, ~IsBlank(elements[i].text)
      PROVE  Holds(chunks', i) \/ i \in gathered'.from .. gathered'.to
  <2>1. CASE i \in 1 .. index - 1
    <3>1. Holds(chunks, i) \/ i \in gathered.from .. gathered.to
      BY <1>2, <2>1, CitedIsHeld DEF ChunkingIInv, AllCited
    <3>2. i \in gathered.from .. gathered.to => gathered # NoChunk
      BY <2>1 DEF NoChunk
    <3> QED
      BY <3>1, <3>2
  <2>2. CASE i = index /\ index' = index + 1
    <3> QED
      BY <1>2, <2>2
  <2>3. i \in 1 .. index - 1 \/ (i = index /\ index' = index + 1)
    BY <1>1, UpToNext
  <2> QED
    BY <2>1, <2>2, <2>3
<1>3. ~(start' > 1)
  OBVIOUS
<1> QED
  BY <1>2, <1>3, CitedIsHeld DEF AllCited

\* The element the loop is at.
LEMMA AtElementFacts ==
    ASSUME ChunkingIInv, AtElement
    PROVE  /\ index \in 1 .. Len(elements) /\ Len(elements) \in Nat /\ index \in Nat /\ start = 0
           /\ elements[index].kind \in Kinds
           /\ ~IsBlank(elements[index].text) =>
                 1 <= Len(Text(index)) /\ Len(Text(index)) \in Nat /\ Size(index, index) = Len(Text(index))
<1>1. ChunkTypes /\ index \in 1 .. Len(elements) /\ Len(elements) \in Nat /\ index \in Nat /\ start = 0
  BY DEF ChunkingIInv, ChunkTypes, AtElement
<1> QED
  BY <1>1, ElementOf, SizeOne

\* A chunk opened at the loop's element, with nothing else in it.
LEMMA AloneSound ==
    ASSUME ChunkingIInv, AtElement, ~IsBlank(elements[index].text),
           elements[index].kind # "heading" => Len(Text(index)) <= MaxChars
    PROVE  ChunkOK([from |-> index, to |-> index, chars |-> Size(index, index)])
<1> DEFINE c == [from |-> index, to |-> index, chars |-> Size(index, index)]
<1>1. /\ index \in 1 .. Len(elements) /\ Len(elements) \in Nat /\ index \in Nat
      /\ Len(Text(index)) \in Nat /\ Size(index, index) = Len(Text(index))
  BY AtElementFacts
<1>2. c \in ChunkRecords /\ c.from = index /\ c.to = index /\ c.chars = Len(Text(index))
  BY <1>1 DEF ChunkRecords
<1> HIDE DEF c
<1>3. MaxChars \in Nat
  BY ChunkingAssumption
<1>4. c.from \in 1 .. Len(elements) /\ c.to \in c.from .. Len(elements)
  BY <1>1, <1>2
<1>5. c.chars > MaxChars => elements[c.from].kind = "heading" /\ c.from = c.to
  BY <1>1, <1>2, <1>3
<1>6. \A i \in c.from .. c.to : i = c.from
  BY <1>1, <1>2
<1>7. ChunkOK(c)
  BY <1>2, <1>4, <1>5, <1>6 DEF ChunkOK
<1> QED
  BY <1>7 DEF c

-----------------------------------------------------------------------------
\* Every action keeps the invariant.

LEMMA SkipBlankKeeps == ASSUME ChunkingIInv, SkipBlank PROVE ChunkingIInv'
<1>1. /\ elements' = elements /\ cuts' = cuts /\ chunks' = chunks /\ gathered' = gathered
      /\ index' = index + 1 /\ start = 0 /\ start' = 0 /\ AtElement /\ IsBlank(elements[index].text)
  BY DEF SkipBlank, AtElement
<1>2. index \in 1 .. Len(elements) /\ Len(elements) \in Nat /\ index \in Nat
  BY <1>1, AtElementFacts
<1>3. ChunkTypes'
  BY <1>1, <1>2 DEF ChunkingIInv, ChunkTypes, NoChunk
<1>4. CutsOne'
  BY <1>1 DEF CutsOne
<1>5. GatheredOK'
  <2>1. CASE gathered = NoChunk
    BY <1>1, <2>1 DEF GatheredOK, NoChunk
  <2>2. CASE gathered # NoChunk
    <3>1. gathered \in [from : Nat, to : Nat] /\ GatheredOK /\ gathered.to < index
      BY <2>2 DEF ChunkingIInv, ChunkTypes
    <3>2. gathered' = [from |-> gathered.from, to |-> gathered.to] /\ gathered.to \in Nat
      BY <1>1, <3>1
    <3>3. \A i \in gathered.to + 1 .. index' - 1 : i \in gathered.to + 1 .. index - 1 \/ i = index
      BY <1>1, <1>2, <3>2
    <3>4. \A i \in gathered.to + 1 .. index' - 1 : IsBlank(elements[i].text)
      BY <1>1, <2>2, <3>1, <3>3 DEF GatheredOK
    <3> QED
      BY <1>1, <2>2, <3>1, <3>2, <3>4, GatheredNow DEF GatheredOK, OpenChunk
  <2> QED
    BY <2>1, <2>2
<1>6. EmittedOK'
  <2>1. CASE gathered = NoChunk
    <3>1. ChunkList(chunks, index)
      BY ListNow
    <3>2. ChunkList(chunks, index + 1)
      BY <1>2, <3>1, ListLater
    <3> QED
      BY <1>1, <2>1, <3>2, EmittedNow
  <2>2. CASE gathered # NoChunk
    <3>1. ChunkList(chunks, gathered.from)
      BY <2>2 DEF ChunkingIInv, EmittedOK
    <3> QED
      BY <1>1, <2>2, <3>1, EmittedNow DEF NoChunk
  <2> QED
    BY <2>1, <2>2
<1>7. AllCited'
  BY <1>1, CitedNow
<1>8. CutsOK' /\ AllCovered'
  BY <1>1, CutsKept
<1> QED
  BY <1>3, <1>4, <1>5, <1>6, <1>7, <1>8 DEF ChunkingIInv

\* The loop goes on with a chunk of its element alone.
LEMMA AloneKeeps ==
    ASSUME ChunkingIInv, AtElement, ~IsBlank(elements[index].text),
           elements[index].kind # "table",
           elements[index].kind # "heading" => Len(Text(index)) <= MaxChars,
           elements' = elements, cuts' = cuts, start' = start, index' = index + 1,
           gathered' = [from |-> index, to |-> index],
           chunks' = Flushed \/ (gathered = NoChunk /\ chunks' = chunks)
    PROVE  ChunkingIInv'
<1>1. index \in 1 .. Len(elements) /\ Len(elements) \in Nat /\ index \in Nat /\ start = 0
  BY AtElementFacts
<1>2. gathered'.from = index /\ gathered'.to = index /\ gathered' \in [from : Nat, to : Nat]
      /\ gathered' # NoChunk
  BY <1>1 DEF NoChunk
<1>3. ChunkTypes'
  <2>1. index' \in 1 .. Len(elements) + 1
    BY <1>1
  <2>2. 1 <= gathered'.from /\ gathered'.from <= gathered'.to /\ gathered'.to < index'
    BY <1>1, <1>2
  <2> QED
    BY <1>2, <2>1, <2>2 DEF ChunkingIInv, ChunkTypes
<1>4. CutsOne'
  BY <1>1 DEF CutsOne
<1>5. GatheredOK'
  <2>1. \A i \in index .. index : i = index
    BY <1>1
  <2>2. \A i \in index + 1 .. index' - 1 : FALSE
    BY <1>1
  <2> QED
    BY <2>1, <2>2, AloneSound, GatheredNow
<1>6. /\ ChunkList(chunks', index)
      /\ \A i : Holds(chunks, i) => Holds(chunks', i)
      /\ gathered # NoChunk => \A i \in gathered.from .. gathered.to : Holds(chunks', i)
  <2>1. CASE chunks' = Flushed
    BY <2>1, FlushedSound
  <2>2. CASE gathered = NoChunk /\ chunks' = chunks
    BY <2>2, ListNow
  <2> QED
    BY <2>1, <2>2
<1>7. EmittedOK'
  BY <1>2, <1>6, EmittedNow
<1>8. AllCited'
  <2>1. index \in gathered'.from .. gathered'.to
    BY <1>1, <1>2
  <2> QED
    BY <1>1, <1>6, <2>1, CitedNow
<1>9. CutsOK' /\ AllCovered'
  BY <1>1, CutsKept
<1> QED
  BY <1>3, <1>4, <1>5, <1>7, <1>8, <1>9 DEF ChunkingIInv

LEMMA OpenHeadingKeeps == ASSUME ChunkingIInv, OpenHeading PROVE ChunkingIInv'
BY AloneKeeps DEF OpenHeading, AtElement

LEMMA OpenSplitKeeps == ASSUME ChunkingIInv, OpenSplit PROVE ChunkingIInv'
<1>1. /\ elements' = elements /\ cuts' = cuts /\ chunks' = Flushed /\ gathered' = NoChunk
      /\ index' = index /\ start = 0 /\ start' = 1 /\ AtElement /\ ~IsBlank(elements[index].text)
      /\ elements[index].kind = "table" \/ Oversized
  BY DEF OpenSplit, AtElement
<1>2. /\ index \in 1 .. Len(elements) /\ Len(elements) \in Nat /\ index \in Nat
      /\ 1 <= Len(Text(index))
  BY <1>1, AtElementFacts
<1>3. ChunkTypes'
  <2>1. NoChunk \in [from : Nat, to : Nat]
    BY DEF NoChunk
  <2> QED
    BY <1>1, <1>2, <2>1 DEF ChunkingIInv, ChunkTypes
<1>4. CutsOne'
  <2>1. Text(index)' = Text(index)
    BY <1>1 DEF Text
  <2>2. elements'[index'].kind = "table" \/ Oversized'
    BY <1>1, <2>1 DEF Oversized
  <2> QED
    BY <1>1, <1>2, <2>1, <2>2 DEF CutsOne
<1>5. GatheredOK'
  BY <1>1 DEF GatheredOK, NoChunk
<1>6. EmittedOK'
  BY <1>1, FlushedSound, EmittedNow
<1>7. AllCited'
  <2>1. index' # index + 1
    BY <1>1, <1>2
  <2> QED
    BY <1>1, <2>1, FlushedSound, CitedNow
<1>8. CutsOK' /\ AllCovered'
  BY <1>1, CutsKept
<1> QED
  BY <1>3, <1>4, <1>5, <1>6, <1>7, <1>8 DEF ChunkingIInv

LEMMA FlushLastKeeps == ASSUME ChunkingIInv, FlushLast PROVE ChunkingIInv'
<1>1. /\ elements' = elements /\ cuts' = cuts /\ chunks' = Flushed /\ gathered' = NoChunk
      /\ index' = index /\ start' = start /\ index = Len(elements) + 1
  BY DEF FlushLast
<1>2. index \in Nat /\ Len(elements) \in Nat /\ start = 0
  BY <1>1 DEF ChunkingIInv, ChunkTypes, CutsOne
<1>3. ChunkTypes'
  <2>1. NoChunk \in [from : Nat, to : Nat]
    BY DEF NoChunk
  <2> QED
    BY <1>1, <1>2, <2>1 DEF ChunkingIInv, ChunkTypes
<1>4. CutsOne'
  BY <1>1, <1>2 DEF CutsOne
<1>5. GatheredOK'
  BY <1>1 DEF GatheredOK, NoChunk
<1>6. EmittedOK'
  BY <1>1, FlushedSound, EmittedNow
<1>7. AllCited'
  <2>1. index' # index + 1
    BY <1>1, <1>2
  <2> QED
    BY <1>1, <1>2, <2>1, FlushedSound, CitedNow
<1>8. CutsOK' /\ AllCovered'
  BY <1>1, <1>2, CutsKept
<1> QED
  BY <1>3, <1>4, <1>5, <1>6, <1>7, <1>8 DEF ChunkingIInv

LEMMA GatherKeeps == ASSUME ChunkingIInv, Gather PROVE ChunkingIInv'
<1> DEFINE full == gathered # NoChunk /\ Size(gathered.from, gathered.to) + 1 + Len(Text(index)) > MaxChars
<1>1. /\ elements' = elements /\ cuts' = cuts /\ index' = index + 1 /\ start' = start
      /\ AtElement /\ ~IsBlank(elements[index].text) /\ elements[index].kind = "text" /\ ~Oversized
      /\ chunks' = IF full THEN Flushed ELSE chunks
      /\ gathered' = IF full \/ gathered = NoChunk THEN [from |-> index, to |-> index]
                     ELSE [gathered EXCEPT !.to = index]
  BY DEF Gather
<1>2. MaxChars \in Nat
  BY ChunkingAssumption
<1>3. /\ index \in 1 .. Len(elements) /\ Len(elements) \in Nat /\ index \in Nat /\ start = 0
      /\ 1 <= Len(Text(index)) /\ Len(Text(index)) \in Nat
  BY <1>1, AtElementFacts
<1>4. Len(Text(index)) <= MaxChars
  BY <1>1, <1>2, <1>3 DEF Oversized
<1>5. CASE full \/ gathered = NoChunk
  <2>1. gathered' = [from |-> index, to |-> index] /\ (chunks' = Flushed \/ (gathered = NoChunk /\ chunks' = chunks))
    BY <1>1, <1>5
  <2> HIDE DEF full
  <2> QED
    BY <1>1, <1>4, <2>1, AloneKeeps
<1>6. CASE gathered # NoChunk /\ ~full
  <2> DEFINE a == gathered.from
             b == gathered.to
  <2>1. /\ chunks' = chunks /\ gathered \in [from : Nat, to : Nat] /\ a \in Nat /\ b \in Nat
        /\ 1 <= a /\ a <= b /\ b < index /\ GatheredOK
    BY <1>1, <1>6 DEF ChunkingIInv, ChunkTypes
  <2>2. gathered' = [from |-> a, to |-> index]
    BY <1>1, <1>6, <2>1
  <2>3. gathered'.from = a /\ gathered'.to = index /\ gathered' \in [from : Nat, to : Nat]
        /\ gathered' # NoChunk
    BY <1>3, <2>1, <2>2 DEF NoChunk
  <2>4. Size(a, b) + 1 + Len(Text(index)) <= MaxChars /\ Size(a, b) \in Int
        /\ Size(a, index) = Size(a, b) + 1 + Len(Text(index))
    <3>1. Size(a, b) \in Int /\ Size(a, index) = Size(a, b) + 1 + Len(Text(index))
      <4>1. ChunkTypes /\ b \in 1 .. index - 1 /\ a \in 1 .. b
        BY <1>3, <2>1 DEF ChunkingIInv
      <4>2. \A i \in b + 1 .. index - 1 : IsBlank(elements[i].text)
        BY <1>6, <2>1 DEF GatheredOK
      <4> QED
        BY <1>1, <1>3, <4>1, <4>2, SizeMore
    <3>2. ~ (Size(a, b) + 1 + Len(Text(index)) > MaxChars)
      BY <1>6
    <3> QED
      BY <1>2, <1>3, <3>1, <3>2
  <2> HIDE DEF full
  <2>5. ASSUME NEW i \in a .. index
        PROVE  /\ ~IsBlank(elements[i].text) => elements[i].kind # "table"
               /\ ~IsBlank(elements[i].text) /\ elements[i].kind = "heading" => i = a
    <3>1. i \in a .. b \/ i \in b + 1 .. index - 1 \/ i = index
      BY <1>3, <2>1
    <3>2. CASE i \in a .. b
      <4>1. ~IsBlank(elements[i].text) => elements[i].kind # "table"
        BY <1>6, <2>1, <3>2 DEF GatheredOK
      <4>2. ChunkOK(OpenChunk) /\ OpenChunk.from = a /\ OpenChunk.to = b
        BY <1>6, <2>1 DEF GatheredOK, OpenChunk
      <4> QED
        BY <3>2, <4>1, <4>2 DEF ChunkOK
    <3>3. CASE i \in b + 1 .. index - 1
      BY <1>6, <2>1, <3>3 DEF GatheredOK
    <3> QED
      BY <1>1, <3>1, <3>2, <3>3
  <2>6. ChunkOK([from |-> a, to |-> index, chars |-> Size(a, index)])
    <3> DEFINE c == [from |-> a, to |-> index, chars |-> Size(a, index)]
    <3>1. c \in ChunkRecords /\ c.from = a /\ c.to = index /\ c.chars = Size(a, index)
      BY <1>3, <2>1, <2>4 DEF ChunkRecords
    <3> HIDE DEF c
    <3>2. c.from \in 1 .. Len(elements) /\ c.to \in c.from .. Len(elements)
      BY <1>3, <2>1, <3>1
    <3>3. ~(c.chars > MaxChars)
      BY <1>2, <1>3, <2>4, <3>1
    <3>4. ChunkOK(c)
      BY <2>5, <3>1, <3>2, <3>3 DEF ChunkOK
    <3> QED
      BY <3>4 DEF c
  <2>7. ChunkTypes'
    <3>1. index' \in 1 .. Len(elements) + 1
      BY <1>1, <1>3
    <3>2. 1 <= gathered'.from /\ gathered'.from <= gathered'.to /\ gathered'.to < index'
      BY <1>1, <1>3, <2>1, <2>3
    <3> QED
      BY <1>1, <2>3, <3>1, <3>2 DEF ChunkingIInv, ChunkTypes
  <2>8. GatheredOK'
    <3>1. \A i \in index + 1 .. index' - 1 : FALSE
      BY <1>1, <1>3
    <3> HIDE DEF a, b
    <3> QED
      BY <1>1, <2>2, <2>5, <2>6, <3>1, GatheredNow
  <2>9. EmittedOK'
    <3>1. ChunkList(chunks, a)
      BY <1>6 DEF ChunkingIInv, EmittedOK
    <3> QED
      BY <1>1, <2>1, <2>3, <3>1, EmittedNow
  <2>10. AllCited'
    <3>1. index \in gathered'.from .. gathered'.to /\ \A i \in a .. b : i \in gathered'.from .. gathered'.to
      BY <1>3, <2>1, <2>3
    <3> QED
      BY <1>1, <1>3, <2>1, <3>1, CitedNow
  <2>11. CutsOK' /\ AllCovered'
    BY <1>1, <1>3, CutsKept
  <2>12. CutsOne'
    BY <1>1, <1>3 DEF CutsOne
  <2> QED
    BY <2>7, <2>8, <2>9, <2>10, <2>11, <2>12 DEF ChunkingIInv
<1> QED
  BY <1>5, <1>6

\* The next piece begins behind the start of this one, not behind its cut.
LEMMA NextInside ==
    ASSUME NEW at \in Nat, NEW cut \in Nat, at < cut, NEW kind
    PROVE  /\ NextStart(at, cut, Overlap(kind)) \in at + 1 .. cut
           /\ NextStart(at, cut, Overlap(kind)) >= cut - Overlap(kind)
<1>1. Overlap(kind) \in Nat
  BY ChunkingAssumption DEF Overlap
<1> DEFINE o == Overlap(kind)
<1> HIDE DEF o
<1>2. NextStart(at, cut, o) \in at + 1 .. cut /\ NextStart(at, cut, o) >= cut - o
  BY <1>1 DEF NextStart, o
<1> QED
  BY <1>2 DEF o

\* A piece has at most as many characters as it is long.
LEMMA PieceOf ==
    ASSUME NEW t \in Seq(Characters), NEW at \in 1 .. Len(t), NEW cut \in at + 1 .. Len(t) + 1
    PROVE  LET piece == SubSeq(t, at, cut - 1) IN
           /\ ~IsBlank(piece) => Len(Strip(piece)) \in 1 .. cut - at
           /\ t[at] \notin White => ~IsBlank(piece)
<1> DEFINE piece == SubSeq(t, at, cut - 1)
<1>1. piece \in Seq(Characters) /\ Len(piece) = cut - at /\ piece[1] = t[at]
  BY SubSeqProperties
<1>2. Len(piece) >= 1
  BY <1>1
<1> HIDE DEF piece
<1>3. ~IsBlank(piece) => Len(Strip(piece)) \in 1 .. cut - at
  BY <1>1, Stripped
<1>4. t[at] \notin White => ~IsBlank(piece)
  BY <1>1, <1>2, LetterFirst
<1> QED
  BY <1>3, <1>4 DEF piece

LEMMA SplitPieceKeeps == ASSUME ChunkingIInv, SplitPiece PROVE ChunkingIInv'
<1> DEFINE t == Text(index)
           last == IF start + MaxChars - 1 < Len(t) THEN start + MaxChars - 1 ELSE Len(t)
           cut == IF last < Len(t) THEN FindCut(t, start, last) ELSE last + 1
           piece == SubSeq(t, start, cut - 1)
           c == [from |-> index, to |-> index, chars |-> Len(Strip(piece))]
           taken == [element |-> index, from |-> start, cut |-> cut]
           kind == elements[index].kind
<1>1. /\ start > 0 /\ elements' = elements /\ gathered' = gathered
      /\ chunks' = IF IsBlank(piece) THEN chunks ELSE Append(chunks, c)
      /\ cuts' = cuts \cup {taken}
      /\ IF cut > Len(t) THEN start' = 0 /\ index' = index + 1
         ELSE start' = NextStart(start, cut, Overlap(kind)) /\ index' = index
  BY Zenon DEF SplitPiece
<1>2. /\ index \in 1 .. Len(elements) /\ Len(elements) \in Nat /\ index \in Nat
      /\ start \in Nat /\ 1 <= start /\ start <= Len(t) /\ gathered = NoChunk
      /\ ~IsBlank(elements[index].text)
      /\ kind = "table" \/ Oversized
  <2>1. start \in Nat /\ 1 <= start
    BY <1>1 DEF ChunkingIInv, ChunkTypes
  <2> QED
    BY <1>1, <2>1 DEF ChunkingIInv, ChunkTypes, CutsOne
<1>3. t \in Seq(Characters) /\ Len(t) \in Nat /\ t[1] \notin White
  <2>1. ChunkTypes
    BY DEF ChunkingIInv
  <2>2. Text(index) \in Seq(Characters) /\ Len(Text(index)) \in Nat /\ Text(index)[1] \notin White
    BY <1>2, <2>1, ElementOf
  <2> QED
    BY <2>2
<1>4. MaxChars \in Nat \ {0}
  BY ChunkingAssumption
<1> HIDE DEF t, c, taken, kind
<1>5. last \in start .. Len(t) /\ last + 1 - start <= MaxChars
  BY <1>2, <1>3, <1>4
<1> HIDE DEF last
<1>6. cut \in start + 1 .. Len(t) + 1 /\ cut <= last + 1
  <2>1. CASE last < Len(t)
    <3>1. start \in 1 .. Len(t)
      BY <1>2, <1>3
    <3>2. FindCut(t, start, last) \in start + 1 .. last + 1
      BY <1>3, <1>5, <3>1, CutInside
    <3> QED
      BY <1>2, <1>3, <1>5, <2>1, <3>2
  <2>2. CASE ~(last < Len(t))
    BY <1>2, <1>3, <1>5, <2>2
  <2> QED
    BY <2>1, <2>2
<1>7. cut \in Nat /\ start < cut /\ cut <= Len(t) + 1 /\ cut - start <= MaxChars
  <2> HIDE DEF cut
  <2> QED
    BY <1>2, <1>3, <1>4, <1>5, <1>6
<1> HIDE DEF cut
<1>8. /\ ~IsBlank(piece) => Len(Strip(piece)) \in 1 .. cut - start
      /\ start = 1 => ~IsBlank(piece)
  <2>1. start \in 1 .. Len(t)
    BY <1>2, <1>3
  <2> QED
    BY <1>3, <1>6, <2>1, PieceOf
<1>9. cut <= Len(t) => start' \in start + 1 .. cut /\ index' = index
                      /\ start' = NextStart(start, cut, Overlap(kind))
  <2> SUFFICES ASSUME cut <= Len(t) PROVE start' = NextStart(start, cut, Overlap(kind)) /\ index' = index
    BY <1>2, <1>7, NextInside
  <2>1. ~(cut > Len(t))
    BY <1>3, <1>7
  <2> QED
    BY <1>1, <2>1
<1>10. ~(cut <= Len(t)) => start' = 0 /\ index' = index + 1 /\ cut = Len(t) + 1
  <2> SUFFICES ASSUME ~(cut <= Len(t)) PROVE cut > Len(t) /\ cut = Len(t) + 1
    BY <1>1
  <2> QED
    BY <1>3, <1>7
<1> HIDE DEF piece
\* Every piece of this element begins before start, every other element's is as it was.
<1>0. PICK d : d = taken
  OBVIOUS
<1>11. /\ d = [element |-> index, from |-> start, cut |-> cut]
       /\ d.element = index /\ d.from = start /\ d.cut = cut /\ cuts' = cuts \cup {d}
       /\ \A i : i # index => Pieces(i)' = Pieces(i)
       /\ \A i : i = index => Pieces(i)' = Pieces(i) \cup {d}
  <2>1. d = [element |-> index, from |-> start, cut |-> cut] /\ cuts' = cuts \cup {d}
    BY <1>0, <1>1 DEF taken
  <2>2. d.element = index /\ d.from = start /\ d.cut = cut
    BY <2>1
  <2> QED
    BY <2>1, <2>2 DEF Pieces
<1>12. \A e \in Pieces(index) : e.from < start /\ e.from \in Nat /\ e \in cuts
  <2> SUFFICES ASSUME NEW e \in Pieces(index) PROVE e.from < start /\ e.from \in Nat /\ e \in cuts
    OBVIOUS
  <2>1. e \in cuts /\ e.element = index
    BY DEF Pieces
  <2>2. PieceOK(e) /\ e \in [element : Nat, from : Nat, cut : Nat]
    BY <2>1 DEF ChunkingIInv, CutsOK, ChunkTypes
  <2> QED
    BY <2>1, <2>2 DEF PieceOK
<1>13. \A i : Text(i)' = Text(i)
  BY <1>1, DocumentKept
<1>14. start' \in Nat /\ index' \in Nat
  BY <1>2, <1>7, <1>9, <1>10
<1>15. ChunkTypes'
  <2>1. index' \in 1 .. Len(elements) + 1
    BY <1>2, <1>9, <1>10
  <2>2. d \in [element : Nat, from : Nat, cut : Nat]
    BY <1>2, <1>7, <1>11
  <2>3. cuts' \subseteq [element : Nat, from : Nat, cut : Nat]
    BY <1>11, <2>2 DEF ChunkingIInv, ChunkTypes
  <2> QED
    BY <1>1, <1>2, <1>14, <2>1, <2>3 DEF ChunkingIInv, ChunkTypes
<1>16. CutsOne'
  <2>1. CASE cut <= Len(t)
    <3>1. index' = index /\ start' <= Len(t)
      BY <1>3, <1>7, <1>9, <2>1
    <3>2. Text(index)' = Text(index)
      BY <1>1, <3>1 DEF Text
    <3>3. elements'[index'].kind = "table" \/ Oversized'
      BY <1>1, <1>2, <3>1, <3>2 DEF Oversized, kind
    <3>4. index <= Len(elements) /\ start' <= Len(Text(index))
      BY <1>2, <3>1 DEF t
    <3>5. index' <= Len(elements') /\ ~IsBlank(elements'[index'].text) /\ gathered' = NoChunk
      BY <1>1, <1>2, <3>1, <3>4
    <3> QED
      BY <3>1, <3>2, <3>3, <3>4, <3>5 DEF CutsOne
  <2>2. CASE ~(cut <= Len(t))
    BY <1>10, <2>2 DEF CutsOne
  <2> QED
    BY <2>1, <2>2
<1>17. GatheredOK'
  BY <1>1, <1>2 DEF GatheredOK, NoChunk
<1>18. ChunkList(chunks', index) /\ Holds(chunks', index) /\ \A i : Holds(chunks, i) => Holds(chunks', i)
  <2>1. ChunkList(chunks, index) /\ chunks \in Seq(ChunkRecords)
    BY ListNow DEF ChunkList
  <2>2. CASE IsBlank(piece)
    <3>1. start > 1
      BY <1>2, <1>8, <2>2
    <3>2. Holds(chunks, index)
      BY <3>1, CitedIsHeld DEF ChunkingIInv, AllCited
    <3> QED
      BY <1>1, <2>1, <2>2, <3>2
  <2>3. CASE ~IsBlank(piece)
    <3>1. c \in ChunkRecords /\ c.from = index /\ c.to = index /\ c.chars = Len(Strip(piece))
      BY <1>2, <1>7, <1>8, <2>3 DEF ChunkRecords, c
    <3>2. c.from \in 1 .. Len(elements) /\ c.to \in c.from .. Len(elements)
      BY <1>2, <3>1
    <3>3. ~(c.chars > MaxChars)
      BY <1>2, <1>4, <1>7, <1>8, <2>3, <3>1
    <3>4. \A i \in c.from .. c.to : i = c.from
      BY <1>2, <3>1
    <3>5. ChunkOK(c)
      BY <3>1, <3>2, <3>3, <3>4 DEF ChunkOK
    <3>6. ChunkList(Append(chunks, c), index)
      BY <1>2, <2>1, <3>1, <3>5, ListAppend
    <3>7. index \in c.from .. c.to
      BY <1>2, <3>1
    <3> QED
      BY <1>1, <2>1, <2>3, <3>1, <3>6, <3>7, HoldsMore
  <2> QED
    BY <2>2, <2>3
<1>19. EmittedOK'
  <2>1. index' = index \/ index' = index + 1
    BY <1>9, <1>10
  <2>2. ChunkList(chunks', index + 1)
    BY <1>2, <1>18, ListLater
  <2>3. ChunkList(chunks', index')
    BY <1>18, <2>1, <2>2
  <2> QED
    BY <1>1, <1>2, <2>3, EmittedNow
<1>20. AllCited'
  <2>1. \A i \in 1 .. index' - 1 : i \in 1 .. index - 1 \/ i = index
    BY <1>2, <1>9, <1>10, <1>14, UpToNext
  <2>2. ASSUME NEW i \in 1 .. index' - 1, ~IsBlank(elements[i].text) PROVE Holds(chunks', i)
    <3>1. CASE i \in 1 .. index - 1
      <4>1. Cited(i) \/ i \in gathered.from .. gathered.to
        BY <2>2, <3>1 DEF ChunkingIInv, AllCited
      <4>2. i \notin gathered.from .. gathered.to
        BY <1>2, <3>1 DEF NoChunk
      <4> QED
        BY <1>18, <4>1, <4>2, CitedIsHeld
    <3> QED
      BY <1>18, <2>1, <3>1
  <2>3. start' > 1 => index' = index
    BY <1>9, <1>10
  <2> QED
    BY <1>1, <1>18, <2>2, <2>3, CitedIsHeld DEF AllCited
<1>21. ASSUME NEW e \in cuts, e.element # index PROVE PieceOK(e)' /\ Followed(e)'
  <2>1. PieceOK(e) /\ Followed(e) /\ e \in [element : Nat, from : Nat, cut : Nat]
    BY DEF ChunkingIInv, CutsOK, ChunkTypes
  <2>2. e.element \in 1 .. index' /\ e.element # index'
    BY <1>2, <1>9, <1>10, <1>21, <2>1 DEF PieceOK
  <2>3. Pieces(e.element)' = Pieces(e.element) /\ Text(e.element)' = Text(e.element)
    BY <1>11, <1>13, <1>21
  <2>4. PieceOK(e)'
    BY <1>1, <2>1, <2>2, <2>3 DEF PieceOK
  <2>5. Followed(e)'
    <3>0. PICK n : n = NextStart(e.from, e.cut, Overlap(elements[e.element].kind))
      OBVIOUS
    <3>1. Followed(e)' <=> (e.cut <= Len(Text(e.element)') => Follows(e, n)')
      BY <1>1, <3>0 DEF Followed, Follows
    <3>2. Follows(e, n) => Follows(e, n)'
      BY <1>21, <2>2, <2>3 DEF Follows
    <3> QED
      BY <2>1, <2>3, <3>0, <3>1, <3>2 DEF Followed
  <2> QED
    BY <2>4, <2>5
<1>22. ASSUME NEW e \in cuts, e.element = index PROVE PieceOK(e)' /\ Followed(e)'
  <2>1. PieceOK(e) /\ Followed(e) /\ e \in [element : Nat, from : Nat, cut : Nat] /\ e \in Pieces(index)
    BY <1>22 DEF ChunkingIInv, CutsOK, ChunkTypes, Pieces
  <2>2. e.element \in 1 .. index' /\ (e.element = index' => e.from < start')
    <3>1. e.from < start /\ e.from \in Nat
      BY <1>12, <2>1
    <3> QED
      BY <1>2, <1>7, <1>9, <1>10, <1>22, <3>1
  <2>3. Pieces(e.element)' = Pieces(e.element) \cup {d} /\ Text(e.element)' = Text(e.element)
    BY <1>11, <1>13, <1>22
  <2>4. PieceOK(e)'
    <3>1. d.from # e.from
      BY <1>2, <1>11, <1>12, <2>1
    <3> QED
      BY <1>1, <2>1, <2>2, <2>3, <3>1 DEF PieceOK
  <2>5. Followed(e)'
    <3>0. PICK n : n = NextStart(e.from, e.cut, Overlap(elements[e.element].kind))
      OBVIOUS
    <3>1. Followed(e)' <=> (e.cut <= Len(Text(e.element)') => Follows(e, n)')
      BY <1>1, <3>0 DEF Followed, Follows
    <3>2. ASSUME Follows(e, n) PROVE Follows(e, n)'
      <4>1. start = n \/ \E x \in Pieces(index) : x.from = n
        BY <1>22, <3>2 DEF Follows
      <4>2. start >= n
        BY <1>2, <1>12, <4>1
      <4>3. \A x \in Pieces(e.element)' : x.from > e.from => x.from >= n
        BY <1>11, <2>3, <3>2, <4>2 DEF Follows
      <4>4. \E x \in Pieces(e.element)' : x.from = n
        BY <1>11, <1>22, <2>3, <4>1
      <4> QED
        BY <4>3, <4>4 DEF Follows
    <3> QED
      BY <2>1, <2>3, <3>0, <3>1, <3>2 DEF Followed
  <2> QED
    BY <2>4, <2>5
<1>23. PieceOK(d)' /\ Followed(d)'
  <2>1. Pieces(d.element)' = Pieces(index) \cup {d} /\ Text(d.element)' = t
    BY <1>11, <1>13 DEF t
  <2>2. PieceOK(d)'
    <3>1. d.element \in 1 .. index' /\ d.element <= Len(elements) /\ (d.element = index' => d.from < start')
      BY <1>2, <1>7, <1>9, <1>10, <1>11
    <3>2. \A x \in Pieces(index) : x.from # d.from
      BY <1>2, <1>11, <1>12
    <3> QED
      BY <1>1, <1>2, <1>7, <1>11, <2>1, <3>1, <3>2 DEF PieceOK
  <2>3. PICK n : n = NextStart(d.from, d.cut, Overlap(elements[d.element].kind))
    OBVIOUS
  <2>4. Followed(d)'
    <3>1. ASSUME d.cut <= Len(t) PROVE Follows(d, n)'
      <4>1. index' = index /\ start' = n
        BY <1>9, <1>11, <2>3, <3>1 DEF kind
      <4>2. \A x \in Pieces(d.element)' : ~(x.from > d.from)
        BY <1>2, <1>11, <1>12, <2>1
      <4> QED
        BY <1>11, <4>1, <4>2 DEF Follows
    <3>2. Followed(d)' <=> (d.cut <= Len(Text(d.element)') => Follows(d, n)')
      BY <1>1, <2>3 DEF Followed, Follows
    <3> QED
      BY <2>1, <3>1, <3>2
  <2> QED
    BY <2>2, <2>4
<1>24. CutsOK'
  BY <1>11, <1>21, <1>22, <1>23 DEF CutsOK
<1>25. /\ \A i, p : InPiece(i, p) => InPiece(i, p)'
       /\ \A i : i = index => \A p \in start .. cut - 1 : InPiece(i, p)'
  <2>1. ASSUME NEW i, NEW p, InPiece(i, p) PROVE InPiece(i, p)'
    <3>1. i = index \/ i # index
      OBVIOUS
    <3>2. Pieces(i) \subseteq Pieces(i)'
      BY <1>11, <3>1
    <3> QED
      BY <2>1, <3>2 DEF InPiece
  <2>2. ASSUME NEW i, i = index, NEW p \in start .. cut - 1 PROVE InPiece(i, p)'
    <3>1. d \in Pieces(i)' /\ p \in d.from .. d.cut - 1
      BY <1>11, <2>2
    <3> QED
      BY <3>1 DEF InPiece
  <2> QED
    BY <2>1, <2>2
\* Up to the cut every character of this element is in a piece.
<1>26. \A i : i = index => \A p \in 1 .. cut - 1 : InPiece(i, p)'
  <2> SUFFICES ASSUME NEW i, i = index, NEW p \in 1 .. cut - 1 PROVE InPiece(i, p)'
    OBVIOUS
  <2>1. p \in 1 .. start - 1 \/ p \in start .. cut - 1
    BY <1>2, <1>7
  <2>2. CASE p \in 1 .. start - 1
    <3>1. InPiece(i, p)
      BY <1>1, <2>2 DEF ChunkingIInv, AllCovered
    <3> QED
      BY <1>25, <3>1
  <2> QED
    BY <1>25, <2>1, <2>2
<1>27. ASSUME NEW i \in 1 .. index' - 1, Pieces(i)' # {}, NEW p \in 1 .. Len(Text(i)') PROVE InPiece(i, p)'
  <2>1. p \in 1 .. Len(Text(i))
    BY <1>13
  <2>2. i \in 1 .. index - 1 \/ (i = index /\ index' = index + 1)
    BY <1>2, <1>9, <1>10, <1>14, UpToNext
  <2>3. CASE i \in 1 .. index - 1
    <3>1. i # index
      BY <1>2, <2>3
    <3>2. Pieces(i) # {}
      BY <1>11, <1>27, <3>1
    <3>3. InPiece(i, p)
      BY <2>1, <2>3, <3>2 DEF ChunkingIInv, AllCovered
    <3> QED
      BY <1>25, <3>3
  <2>4. CASE i = index /\ index' = index + 1
    <3>1. cut = Len(t) + 1
      BY <1>2, <1>9, <1>10, <2>4
    <3>2. p \in 1 .. cut - 1
      BY <1>3, <2>1, <2>4, <3>1 DEF t
    <3> QED
      BY <1>26, <2>4, <3>2
  <2> QED
    BY <2>2, <2>3, <2>4
<1>28. ASSUME start' > 0 PROVE \A p \in 1 .. start' - 1 : InPiece(index, p)'
  <2>1. index' = index /\ start' \in start + 1 .. cut
    BY <1>9, <1>10, <1>28
  <2>2. PICK m : m = start'
    OBVIOUS
  <2>3. \A p \in 1 .. m - 1 : p \in 1 .. cut - 1
    <3>1. m \in Nat /\ m <= cut
      BY <1>2, <1>7, <2>1, <2>2
    <3> QED
      BY ONLY <1>7, <3>1
  <2>4. \A p \in 1 .. m - 1 : \A i : i = index' => InPiece(i, p)'
    BY <1>26, <2>1, <2>3
  <2>5. \A p \in 1 .. m - 1 : InPiece(index, p)'
    BY <2>4 DEF InPiece, Pieces
  <2> QED
    BY <2>2, <2>5
<1>29. AllCovered'
  BY <1>27, <1>28 DEF AllCovered
<1> QED
  BY <1>15, <1>16, <1>17, <1>19, <1>20, <1>24, <1>29 DEF ChunkingIInv

LEMMA ChunkingKeeps ==
    ChunkingIInv /\ [ChunkingNext]_chunkingVars => ChunkingIInv'
<1> SUFFICES ASSUME ChunkingIInv, [ChunkingNext]_chunkingVars PROVE ChunkingIInv'
  OBVIOUS
<1>1. CASE UNCHANGED chunkingVars
  <2>1. /\ elements' = elements /\ index' = index /\ start' = start /\ gathered' = gathered
        /\ chunks' = chunks /\ cuts' = cuts
    BY <1>1 DEF chunkingVars
  <2>2. ChunkTypes' /\ CutsOne'
    BY <2>1 DEF ChunkingIInv, ChunkTypes, CutsOne, Oversized, Text
  <2>3. GatheredOK'
    <3>1. GatheredOK
      BY DEF ChunkingIInv
    <3>2. ChunkOK(OpenChunk)' <=> ChunkOK(OpenChunk)
      BY <2>1, Zenon DEF OpenChunk, ChunkOK, Size, PartSize, Text
    <3> QED
      BY <2>1, <3>1, <3>2 DEF GatheredOK
  <2>4. EmittedOK'
    <3>1. ChunkList(chunks, IF gathered = NoChunk THEN index ELSE gathered.from)
      BY DEF ChunkingIInv, EmittedOK
    <3> QED
      BY <2>1, <3>1, EmittedNow
  <2>5. AllCited'
    BY <2>1 DEF ChunkingIInv, AllCited, Cited
  <2>6. CutsOK'
    <3>1. \A c \in cuts : PieceOK(c)' <=> PieceOK(c)
      BY <2>1, Zenon DEF PieceOK, Pieces, Text
    <3>2. \A c \in cuts : Followed(c)' <=> Followed(c)
      BY <2>1, Zenon DEF Followed, Follows, Pieces, Text
    <3> QED
      BY <2>1, <3>1, <3>2 DEF ChunkingIInv, CutsOK
  <2>7. AllCovered'
    BY <2>1, Zenon DEF ChunkingIInv, AllCovered, InPiece, Pieces, Text
  <2> QED
    BY <2>2, <2>3, <2>4, <2>5, <2>6, <2>7 DEF ChunkingIInv
<1>2. CASE ChunkingNext
  BY <1>2, SkipBlankKeeps, OpenHeadingKeeps, OpenSplitKeeps, SplitPieceKeeps, GatherKeeps,
     FlushLastKeeps DEF ChunkingNext
<1> QED
  BY <1>1, <1>2

LEMMA ChunkingStart == ChunkingInit => ChunkingIInv
<1> SUFFICES ASSUME ChunkingInit PROVE ChunkingIInv
  OBVIOUS
<1>1. /\ elements \in Seq([kind : Kinds, text : Seq(Characters)])
      /\ index = 1 /\ start = 0 /\ gathered = NoChunk /\ chunks = <<>> /\ cuts = {}
  BY ChunkingAssumption DEF ChunkingInit
<1>2. Len(elements) \in Nat /\ NoChunk \in [from : Nat, to : Nat]
  BY <1>1 DEF NoChunk
<1>3. ChunkTypes
  BY <1>1, <1>2 DEF ChunkTypes
<1>4. CutsOne /\ GatheredOK /\ AllCited
  BY <1>1 DEF CutsOne, GatheredOK, AllCited
<1>5. EmittedOK
  BY <1>1 DEF EmittedOK, ChunkList
<1>6. CutsOK /\ AllCovered
  BY <1>1 DEF CutsOK, AllCovered
<1> QED
  BY <1>3, <1>4, <1>5, <1>6 DEF ChunkingIInv

LEMMA ChunkingGives == ChunkingIInv => ChunksSound /\ ChunkingTypeOK
<1> SUFFICES ASSUME ChunkingIInv PROVE ChunksSound /\ ChunkingTypeOK
  OBVIOUS
<1>1. index \in Nat /\ Len(elements) \in Nat /\ cuts \subseteq [element : Nat, from : Nat, cut : Nat]
  BY DEF ChunkingIInv, ChunkTypes
<1>2. ChunkList(chunks, index)
  BY ListNow
<1>3. ChunkingTypeOK
  <2>1. \A k \in 1 .. Len(chunks) : chunks[k].from \in 1 .. Len(elements) /\ chunks[k].to \in chunks[k].from .. Len(elements)
    BY <1>2 DEF ChunkList, ChunkOK
  <2>2. gathered.from \in 0 .. Len(elements) /\ gathered.to \in gathered.from .. Len(elements)
    <3>1. CASE gathered = NoChunk
      BY <1>1, <3>1 DEF NoChunk
    <3>2. CASE gathered # NoChunk
      BY <1>1, <3>2 DEF ChunkingIInv, ChunkTypes
    <3> QED
      BY <3>1, <3>2
  <2> QED
    BY <2>1, <2>2 DEF ChunkingTypeOK, ChunkingIInv, ChunkTypes
<1>4. \A k \in 1 .. Len(chunks) :
          /\ k > 1 => chunks[k - 1].to <= chunks[k].from
          /\ chunks[k].chars > MaxChars =>
                elements[chunks[k].from].kind = "heading" /\ chunks[k].from = chunks[k].to
          /\ \A i \in chunks[k].from .. chunks[k].to :
                \/ IsBlank(elements[i].text)
                \/ /\ elements[i].kind = "table" => chunks[k].from = chunks[k].to
                   /\ elements[i].kind = "heading" => i = chunks[k].from
  BY <1>2 DEF ChunkList, ChunkOK
<1>5. \A i \in 1 .. index - 1 :
          Pieces(i) # {} => \A p \in 1 .. Len(Text(i)) : \E c \in Pieces(i) : p \in c.from .. c.cut - 1
  BY DEF ChunkingIInv, AllCovered, InPiece
<1>6. \A i \in 1 .. index - 1 :
          ~IsBlank(elements[i].text) => Cited(i) \/ i \in gathered.from .. gathered.to
  BY DEF ChunkingIInv, AllCited
<1>7. ASSUME NEW c \in cuts
      PROVE  /\ c.from \in 1 .. Len(Text(c.element)) /\ c.from < c.cut
             /\ \A d \in Pieces(c.element) : d.from = c.from => d = c
             /\ c.cut <= Len(Text(c.element)) =>
                   \A d \in Pieces(c.element) :
                       d.from > c.from /\ (\A e \in Pieces(c.element) : e.from > c.from => d.from <= e.from) =>
                           d.from >= c.cut - Overlap(elements[c.element].kind)
  <2>1. PieceOK(c) /\ Followed(c) /\ c \in [element : Nat, from : Nat, cut : Nat]
    BY <1>1 DEF ChunkingIInv, CutsOK
  <2>2. c.from < c.cut /\ (\A d \in Pieces(c.element) : d.from = c.from => d = c)
        /\ 1 <= c.from /\ c.from <= Len(Text(c.element)) /\ c.from \in Nat /\ c.cut \in Nat
        /\ c.element \in 1 .. Len(elements)
    BY <1>1, <2>1 DEF PieceOK
  <2>3. c.from \in 1 .. Len(Text(c.element))
    BY <2>2
  <2> DEFINE o == Overlap(elements[c.element].kind)
             n == NextStart(c.from, c.cut, o)
  <2>4. n >= c.cut - o /\ n \in Nat /\ o \in Nat
    <3>1. n \in c.from + 1 .. c.cut /\ n >= c.cut - o
      BY <2>2, NextInside
    <3>2. o \in Nat
      BY ChunkingAssumption DEF Overlap
    <3> QED
      BY <2>2, <3>1, <3>2
  <2>5. ASSUME c.cut <= Len(Text(c.element)), NEW d \in Pieces(c.element), d.from > c.from
        PROVE  d.from >= c.cut - o
    <3>1. d.from >= n
      BY <2>1, <2>5 DEF Followed, Follows
    <3>2. d.from \in Nat
      BY <1>1 DEF Pieces
    <3> HIDE DEF o, n
    <3> QED
      BY <2>2, <2>4, <3>1, <3>2
  <2> QED
    BY <2>2, <2>3, <2>5
<1>8. ChunksSound
  BY <1>4, <1>5, <1>6, <1>7 DEF ChunksSound
<1> QED
  BY <1>3, <1>8

\* Nothing of a document is lost, no chunk but a heading's is too long, tables stand
\* alone, and the pieces of an element go forward with no more than the overlap
\* (indexing/chunking.py, chunk_elements and _split_text), for every document and every
\* chunk size greater than its overlap.
THEOREM ChunksAreSound == ChunkingSpec => []ChunksSound
BY ChunkingStart, ChunkingKeeps, ChunkingGives, PTL DEF ChunkingSpec

\* The chunker's variables keep their types: the loop never leaves the document and each
\* chunk is of elements that are there (indexing/chunking.py, chunk_elements).
THEOREM ChunkingTypeCorrect == ChunkingSpec => []ChunkingTypeOK
BY ChunkingStart, ChunkingKeeps, ChunkingGives, PTL DEF ChunkingSpec
=============================================================================
