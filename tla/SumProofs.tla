------------------------------- MODULE SumProofs -------------------------------
(***************************************************************************)
(* Sums over finite sets: what the budget, the quotas and the mails are    *)
(* counted with.                                                           *)
(*                                                                         *)
(* SumFunctionOnSet of the community module Functions is a recursive       *)
(* function on the subsets of a set.  The induction theorems of the        *)
(* library take an operator as a parameter, so an induction over the set   *)
(* is done here as the argument of a smallest counterexample: the subsets  *)
(* of a finite set are well founded under inclusion, so of the subsets for *)
(* which a statement is false one has no smaller one (Smallest), and       *)
(* taking an element away from that one yields a contradiction.            *)
(***************************************************************************)
EXTENDS Functions, FiniteSetTheorems, TLAPS

\* The element that the sum of S takes first.
Some(S) == CHOOSE x \in S : TRUE

\* h is the recursive sum of f over the subsets of S.
Adds(h, f, S) ==
    h = [s \in SUBSET S |-> IF s = {} THEN 0 ELSE f[Some(s)] + h[s \ {Some(s)}]]

\* The library's sum, unfolded.
LEMMA SumIsChosen ==
    ASSUME NEW f, NEW S
    PROVE  SumFunctionOnSet(f, S) = (CHOOSE h : Adds(h, f, S))[S]
BY DEF SumFunctionOnSet, FoldFunctionOnSet, MapThenFoldSet, Adds, Some

\* Of the subsets of a finite set with a property, one has no smaller one.
LEMMA Smallest ==
    ASSUME NEW S, IsFiniteSet(S), NEW B, B \subseteq SUBSET S, B # {}
    PROVE  \E T \in B : \A U \in B : U \subseteq T => U = T
<1>1. IsWellFoundedOn(StrictSubsetOrdering(S), SUBSET S)
  BY FS_StrictSubsetOrderingWellFounded, FS_FiniteSubsetsOfFinite
<1>2. PICK T \in B : \A U \in B : ~ (<<U, T>> \in StrictSubsetOrdering(S))
  BY <1>1, WFMin
<1>3. ASSUME NEW U \in B, U \subseteq T PROVE U = T
  <2>1. U \in SUBSET S /\ T \in SUBSET S
    OBVIOUS
  <2>2. <<U, T>> \in (SUBSET S) \X (SUBSET S) /\ <<U, T>>[1] = U /\ <<U, T>>[2] = T
    BY <2>1
  <2> QED
    BY <1>2, <1>3, <2>2 DEF StrictSubsetOrdering
<1> QED
  BY <1>2, <1>3

\* A set that is not empty has an element.
LEMMA SomeIn == ASSUME NEW S, S # {} PROVE Some(S) \in S
BY DEF Some

\* Two functions that add f agree where both are defined.
LEMMA AddsUnique ==
    ASSUME NEW f, NEW S, IsFiniteSet(S), NEW T \in SUBSET S, NEW g, NEW h,
           Adds(g, f, S), Adds(h, f, T)
    PROVE  g[T] = h[T]
<1> SUFFICES ASSUME g[T] # h[T] PROVE FALSE
  OBVIOUS
<1> DEFINE B == {s \in SUBSET T : g[s] # h[s]}
<1>1. /\ \A s \in SUBSET S : g[s] = IF s = {} THEN 0 ELSE f[Some(s)] + g[s \ {Some(s)}]
      /\ \A s \in SUBSET T : h[s] = IF s = {} THEN 0 ELSE f[Some(s)] + h[s \ {Some(s)}]
  BY Zenon DEF Adds
<1>2. IsFiniteSet(T) /\ B \subseteq SUBSET T /\ T \in B
  BY FS_Subset
<1>3. PICK s \in B : \A u \in B : u \subseteq s => u = s
  <2> HIDE DEF B
  <2> QED
    BY <1>2, Smallest
<1>4. s # {}
  BY <1>1, <1>3
<1>5. Some(s) \in s
  BY <1>4, SomeIn
<1>6. s \ {Some(s)} \notin B
  BY <1>3, <1>5
<1>7. g[s \ {Some(s)}] = h[s \ {Some(s)}]
  BY <1>3, <1>6
<1> QED
  BY <1>1, <1>3, <1>4, <1>7

\* Such a function exists for every finite set.
LEMMA AddsExists ==
    ASSUME NEW f, NEW S, IsFiniteSet(S)
    PROVE  \E h : Adds(h, f, S)
<1> DEFINE B == {s \in SUBSET S : ~ \E h : Adds(h, f, s)}
<1> SUFFICES ASSUME B # {} PROVE FALSE
  OBVIOUS
<1>1. PICK T \in B : \A u \in B : u \subseteq T => u = T
  <2>1. B \subseteq SUBSET S
    OBVIOUS
  <2> HIDE DEF B
  <2> QED
    BY <2>1, Smallest
<1> DEFINE sum(s) == SumFunctionOnSet(f, s)
           less(s) == s \ {Some(s)}
           h == [s \in SUBSET T |-> IF s = {} THEN 0 ELSE f[Some(s)] + sum(less(s))]
<1>2. ASSUME NEW s \in SUBSET T, s # T PROVE \E g : Adds(g, f, s) /\ sum(s) = g[s]
  <2>1. \E g : Adds(g, f, s)
    BY <1>1, <1>2
  <2>2. Adds(CHOOSE g : Adds(g, f, s), f, s)
    BY <2>1
  <2> QED
    BY <2>2, SumIsChosen
<1>3. ASSUME NEW s \in SUBSET T, s # T
      PROVE  sum(s) = h[s]
  <2>1. PICK g : Adds(g, f, s) /\ sum(s) = g[s]
    BY <1>2, <1>3
  <2>2. g[s] = IF s = {} THEN 0 ELSE f[Some(s)] + g[less(s)]
    BY <2>1, Zenon DEF Adds
  <2>3. CASE s = {}
    BY <2>1, <2>2, <2>3
  <2>4. CASE s # {}
    <3>1. less(s) \in SUBSET s /\ less(s) \in SUBSET T /\ less(s) # T
      BY <2>4, SomeIn
    <3>2. PICK k : Adds(k, f, less(s)) /\ sum(less(s)) = k[less(s)]
      BY <1>2, <3>1
    <3>3. IsFiniteSet(s)
      BY <1>1, FS_Subset
    <3>4. g[less(s)] = k[less(s)]
      <4> HIDE DEF less
      <4> QED BY <2>1, <3>1, <3>2, <3>3, AddsUnique
    <3> QED
      BY <2>1, <2>2, <2>4, <3>2, <3>4
  <2> QED
    BY <2>3, <2>4
<1>4. ASSUME NEW s \in SUBSET T, s # {} PROVE h[less(s)] = sum(less(s))
  <2>1. less(s) \in SUBSET T /\ less(s) # T
    BY <1>4, SomeIn
  <2> HIDE DEF less, h, sum
  <2> QED
    BY <1>3, <2>1
<1>5. Adds(h, f, T)
  <2>1. ASSUME NEW s \in SUBSET T
        PROVE  (IF s = {} THEN 0 ELSE f[Some(s)] + sum(less(s)))
               = (IF s = {} THEN 0 ELSE f[Some(s)] + h[less(s)])
    BY <1>4
  <2> QED
    BY <2>1, Zenon DEF Adds
<1> QED
  BY <1>1, <1>5

\* The sum of a set is a first value and the sum of what remains.
LEMMA SumEquation ==
    ASSUME NEW f, NEW S, IsFiniteSet(S)
    PROVE  SumFunctionOnSet(f, S) =
             IF S = {} THEN 0 ELSE f[Some(S)] + SumFunctionOnSet(f, S \ {Some(S)})
<1> DEFINE rest == S \ {Some(S)}
           g == CHOOSE h : Adds(h, f, S)
           k == CHOOSE h : Adds(h, f, rest)
<1>1. IsFiniteSet(rest) /\ rest \in SUBSET S
  BY FS_Subset
<1>2. Adds(g, f, S) /\ Adds(k, f, rest)
  BY <1>1, AddsExists
<1>3. SumFunctionOnSet(f, S) = g[S] /\ SumFunctionOnSet(f, rest) = k[rest]
  BY SumIsChosen
<1>4. g[S] = IF S = {} THEN 0 ELSE f[Some(S)] + g[rest]
  <2> HIDE DEF g
  <2> QED
    BY <1>2, Zenon DEF Adds
<1>5. g[rest] = k[rest]
  <2> HIDE DEF g, k, rest
  <2> QED
    BY <1>1, <1>2, AddsUnique
<1> QED
  BY <1>3, <1>4, <1>5

-----------------------------------------------------------------------------
(* What the proofs about sums need.                                         *)

\* Nothing adds up to nothing.
LEMMA SumEmpty == ASSUME NEW f PROVE SumFunctionOnSet(f, {}) = 0
BY SumEquation, FS_EmptySet

\* A sum of integers is an integer.
LEMMA SumType ==
    ASSUME NEW f, NEW S, IsFiniteSet(S), \A x \in S : f[x] \in Int
    PROVE  SumFunctionOnSet(f, S) \in Int
<1> DEFINE B == {s \in SUBSET S : SumFunctionOnSet(f, s) \notin Int}
<1> SUFFICES ASSUME B # {} PROVE FALSE
  OBVIOUS
<1>1. PICK T \in B : \A u \in B : u \subseteq T => u = T
  <2>1. B \subseteq SUBSET S
    OBVIOUS
  <2> HIDE DEF B
  <2> QED
    BY <2>1, Smallest
<1>2. T # {} /\ T \in SUBSET S
  BY SumEmpty
<1>3. Some(T) \in T
  BY <1>2, SomeIn
<1>4. SumFunctionOnSet(f, T \ {Some(T)}) \in Int
  BY <1>1, <1>3
<1>5. SumFunctionOnSet(f, T) = f[Some(T)] + SumFunctionOnSet(f, T \ {Some(T)})
  BY <1>2, SumEquation, FS_Subset
<1> QED
  BY <1>1, <1>2, <1>3, <1>4, <1>5

\* It does not matter in which order a sum is taken.
LEMMA SumRemove ==
    ASSUME NEW f, NEW S, IsFiniteSet(S), NEW x \in S, \A y \in S : f[y] \in Int
    PROVE  SumFunctionOnSet(f, S) = f[x] + SumFunctionOnSet(f, S \ {x})
<1> DEFINE sum(s) == SumFunctionOnSet(f, s)
           B == {s \in SUBSET S : \E y \in s : sum(s) # f[y] + sum(s \ {y})}
<1> SUFFICES ASSUME B # {} PROVE FALSE
  OBVIOUS
<1>1. PICK T \in B : \A u \in B : u \subseteq T => u = T
  <2>1. B \subseteq SUBSET S
    OBVIOUS
  <2> HIDE DEF B
  <2> QED
    BY <2>1, Smallest
<1>2. PICK y \in T : sum(T) # f[y] + sum(T \ {y})
  BY <1>1
<1> DEFINE c == Some(T)
<1>3. c \in T /\ T \in SUBSET S
  BY SomeIn
<1>4. \A s \in SUBSET S : IsFiniteSet(s) /\ sum(s) \in Int
  BY FS_Subset, SumType
<1>5. sum(T) = f[c] + sum(T \ {c})
  BY <1>3, <1>4, SumEquation
<1>6. c # y
  BY <1>2, <1>5
<1>7. T \ {c} \notin B /\ T \ {y} \notin B
  BY <1>1, <1>3
<1> HIDE DEF sum, c
<1>8. /\ sum(T \ {c}) = f[y] + sum((T \ {c}) \ {y})
      /\ sum(T \ {y}) = f[c] + sum((T \ {y}) \ {c})
  BY <1>3, <1>6, <1>7
<1>9. (T \ {c}) \ {y} = (T \ {y}) \ {c}
  OBVIOUS
<1>10. /\ f[c] \in Int /\ f[y] \in Int
       /\ sum((T \ {y}) \ {c}) \in Int
  BY <1>3, <1>4
<1> HIDE DEF B
<1>11. \A a, b, r \in Int : a + (b + r) = b + (a + r)
  OBVIOUS
<1>12. sum(T) = f[c] + (f[y] + sum((T \ {y}) \ {c}))
  BY <1>5, <1>8, <1>9
<1>13. f[y] + sum(T \ {y}) = f[y] + (f[c] + sum((T \ {y}) \ {c}))
  BY <1>8
<1> QED
  BY <1>2, <1>10, <1>11, <1>12, <1>13

\* The sum of a set and one element more.
LEMMA SumAdd ==
    ASSUME NEW f, NEW S, IsFiniteSet(S), NEW x, x \notin S,
           \A y \in S \cup {x} : f[y] \in Int
    PROVE  SumFunctionOnSet(f, S \cup {x}) = f[x] + SumFunctionOnSet(f, S)
<1>1. IsFiniteSet(S \cup {x}) /\ (S \cup {x}) \ {x} = S
  BY FS_AddElement
<1> QED
  BY <1>1, SumRemove

\* The sum depends on nothing but the values.
LEMMA SumSame ==
    ASSUME NEW f, NEW g, NEW S, IsFiniteSet(S), \A x \in S : f[x] = g[x]
    PROVE  SumFunctionOnSet(f, S) = SumFunctionOnSet(g, S)
<1> DEFINE B == {s \in SUBSET S : SumFunctionOnSet(f, s) # SumFunctionOnSet(g, s)}
<1> SUFFICES ASSUME B # {} PROVE FALSE
  OBVIOUS
<1>1. PICK T \in B : \A u \in B : u \subseteq T => u = T
  <2>1. B \subseteq SUBSET S
    OBVIOUS
  <2> HIDE DEF B
  <2> QED
    BY <2>1, Smallest
<1>2. T # {} /\ T \in SUBSET S
  BY SumEmpty
<1>3. Some(T) \in T
  BY <1>2, SomeIn
<1>4. SumFunctionOnSet(f, T \ {Some(T)}) = SumFunctionOnSet(g, T \ {Some(T)})
  BY <1>1, <1>3
<1>5. /\ SumFunctionOnSet(f, T) = f[Some(T)] + SumFunctionOnSet(f, T \ {Some(T)})
      /\ SumFunctionOnSet(g, T) = g[Some(T)] + SumFunctionOnSet(g, T \ {Some(T)})
  BY <1>2, SumEquation, FS_Subset
<1> QED
  BY <1>1, <1>2, <1>3, <1>4, <1>5

\* Where no value gets smaller and nothing leaves the set, the sum gets no smaller.
LEMMA SumMonotone ==
    ASSUME NEW f, NEW g, NEW T, IsFiniteSet(T), NEW S \in SUBSET T,
           \A x \in T : g[x] \in Nat,
           \A x \in S : f[x] \in Nat /\ f[x] <= g[x]
    PROVE  SumFunctionOnSet(f, S) <= SumFunctionOnSet(g, T)
<1> DEFINE Ss(s) == s \cap S
           B == {s \in SUBSET T : ~ (SumFunctionOnSet(f, Ss(s)) <= SumFunctionOnSet(g, s))}
<1> SUFFICES ASSUME B # {} PROVE FALSE
  <2>1. T \notin B
    OBVIOUS
  <2>2. Ss(T) = S
    OBVIOUS
  <2> QED
    BY <2>1, <2>2
<1>1. PICK U \in B : \A u \in B : u \subseteq U => u = U
  <2>1. B \subseteq SUBSET T
    OBVIOUS
  <2> HIDE DEF B
  <2> QED
    BY <2>1, Smallest
<1>2. U # {} /\ U \in SUBSET T
  <2>1. Ss({}) = {}
    OBVIOUS
  <2> QED
    BY <2>1, SumEmpty
<1> DEFINE c == Some(U)
<1>3. c \in U
  BY <1>2, SomeIn
<1>4. U \ {c} \notin B /\ U \ {c} \in SUBSET T
  BY <1>1, <1>3
<1>5. IsFiniteSet(U) /\ IsFiniteSet(Ss(U)) /\ IsFiniteSet(U \ {c}) /\ IsFiniteSet(Ss(U \ {c}))
  BY <1>2, FS_Subset
<1>6. /\ SumFunctionOnSet(g, U) = g[c] + SumFunctionOnSet(g, U \ {c})
      /\ SumFunctionOnSet(g, U \ {c}) \in Int
      /\ SumFunctionOnSet(f, Ss(U \ {c})) \in Int
      /\ SumFunctionOnSet(f, Ss(U \ {c})) <= SumFunctionOnSet(g, U \ {c})
  <2>1. SumFunctionOnSet(f, Ss(U \ {c})) <= SumFunctionOnSet(g, U \ {c})
    BY <1>4
  <2> HIDE DEF c
  <2>2. \A x \in U : g[x] \in Int
    BY <1>2
  <2>3. \A x \in Ss(U \ {c}) : f[x] \in Int
    OBVIOUS
  <2>4. SumFunctionOnSet(f, Ss(U \ {c})) \in Int
    <3> HIDE DEF Ss
    <3> QED BY <1>5, <2>3, SumType
  <2> QED
    BY <1>3, <1>5, <2>1, <2>2, <2>4, SumRemove, SumType
<1>7. CASE c \in S
  <2> HIDE DEF c
  <2>1. Ss(U) \ {c} = Ss(U \ {c}) /\ c \in Ss(U)
    BY <1>3, <1>7
  <2>2. \A x \in Ss(U) : f[x] \in Int
    OBVIOUS
  <2>3. SumFunctionOnSet(f, Ss(U)) = f[c] + SumFunctionOnSet(f, Ss(U) \ {c})
    <3> HIDE DEF Ss
    <3> QED BY <1>5, <2>1, <2>2, SumRemove
  <2>4. f[c] \in Nat /\ g[c] \in Nat /\ f[c] <= g[c]
    BY <1>2, <1>3, <1>7
  <2>5. SumFunctionOnSet(f, Ss(U)) <= SumFunctionOnSet(g, U)
    <3>1. \A a, b \in Nat, m, n \in Int : a <= b /\ m <= n => a + m <= b + n
      OBVIOUS
    <3> HIDE DEF Ss, B
    <3>2. SumFunctionOnSet(f, Ss(U)) = f[c] + SumFunctionOnSet(f, Ss(U \ {c}))
      BY <2>1, <2>3
    <3> QED
      BY <1>6, <2>4, <3>1, <3>2
  <2> QED
    BY <1>1, <2>5
<1>8. CASE c \notin S
  <2> HIDE DEF c
  <2>1. Ss(U) = Ss(U \ {c})
    BY <1>8
  <2>2. g[c] \in Nat
    BY <1>2, <1>3
  <2>3. SumFunctionOnSet(f, Ss(U)) <= SumFunctionOnSet(g, U)
    <3> HIDE DEF Ss
    <3> QED BY <1>6, <2>1, <2>2
  <2> QED
    BY <1>1, <2>3
<1> QED
  BY <1>7, <1>8

\* The sum over a set of which one value changes.
LEMMA SumChange ==
    ASSUME NEW f, NEW g, NEW S, IsFiniteSet(S), NEW x \in S,
           \A y \in S : f[y] \in Int, g[x] \in Int,
           \A y \in S \ {x} : g[y] = f[y]
    PROVE  /\ SumFunctionOnSet(f, S) \in Int
           /\ SumFunctionOnSet(g, S) = SumFunctionOnSet(f, S) - f[x] + g[x]
<1> DEFINE rest == SumFunctionOnSet(f, S \ {x})
<1>1. IsFiniteSet(S \ {x}) /\ \A y \in S : g[y] \in Int
  BY FS_Subset
<1>2. rest \in Int
  BY <1>1, SumType
<1>3. SumFunctionOnSet(f, S) = f[x] + rest
  BY SumRemove
<1>4. SumFunctionOnSet(g, S) = g[x] + SumFunctionOnSet(g, S \ {x})
  BY <1>1, SumRemove
<1>5. SumFunctionOnSet(g, S \ {x}) = rest
  BY <1>1, SumSame
<1> HIDE DEF rest
<1> QED
  BY <1>2, <1>3, <1>4, <1>5

\* A sum of zeros.
LEMMA SumZero ==
    ASSUME NEW f, NEW S, IsFiniteSet(S), \A x \in S : f[x] = 0
    PROVE  SumFunctionOnSet(f, S) = 0
<1> DEFINE B == {s \in SUBSET S : SumFunctionOnSet(f, s) # 0}
<1> SUFFICES ASSUME B # {} PROVE FALSE
  OBVIOUS
<1>1. PICK T \in B : \A u \in B : u \subseteq T => u = T
  <2>1. B \subseteq SUBSET S
    OBVIOUS
  <2> HIDE DEF B
  <2> QED
    BY <2>1, Smallest
<1>2. T # {} /\ T \in SUBSET S
  BY SumEmpty
<1>3. Some(T) \in T
  BY <1>2, SomeIn
<1>4. SumFunctionOnSet(f, T \ {Some(T)}) = 0
  BY <1>1, <1>3
<1>5. SumFunctionOnSet(f, T) = f[Some(T)] + SumFunctionOnSet(f, T \ {Some(T)})
  BY <1>2, SumEquation, FS_Subset
<1> QED
  BY <1>1, <1>2, <1>3, <1>4, <1>5

\* Zeros do not count.
LEMMA SumSupport ==
    ASSUME NEW f, NEW T, IsFiniteSet(T), NEW S \in SUBSET T,
           \A x \in T : f[x] \in Int, \A x \in T \ S : f[x] = 0
    PROVE  SumFunctionOnSet(f, T) = SumFunctionOnSet(f, S)
<1> DEFINE B == {s \in SUBSET T : SumFunctionOnSet(f, s) # SumFunctionOnSet(f, s \cap S)}
<1> SUFFICES ASSUME B # {} PROVE FALSE
  <2>1. T \notin B /\ T \cap S = S
    OBVIOUS
  <2> QED
    BY <2>1
<1>1. PICK U \in B : \A u \in B : u \subseteq U => u = U
  <2>1. B \subseteq SUBSET T
    OBVIOUS
  <2> HIDE DEF B
  <2> QED
    BY <2>1, Smallest
<1>2. U # {} /\ U \in SUBSET T
  BY <1>1
<1> DEFINE c == Some(U)
           V == U \ {c}
<1>3. c \in U /\ V \in SUBSET T /\ V \notin B
  BY <1>1, <1>2, SomeIn
<1>4. SumFunctionOnSet(f, V) = SumFunctionOnSet(f, V \cap S)
  BY <1>3
<1>5. IsFiniteSet(U) /\ IsFiniteSet(U \cap S)
  BY <1>2, FS_Subset
<1> HIDE DEF c
<1>6. SumFunctionOnSet(f, U) = f[c] + SumFunctionOnSet(f, V)
  BY <1>2, <1>3, <1>5, SumRemove
<1>7. SumFunctionOnSet(f, V \cap S) \in Int
  BY <1>2, <1>5, FS_Subset, SumType
<1>8. SumFunctionOnSet(f, U \cap S) = f[c] + SumFunctionOnSet(f, V \cap S)
  <2>1. CASE c \in S
    <3>1. c \in U \cap S /\ (U \cap S) \ {c} = V \cap S /\ \A x \in U \cap S : f[x] \in Int
      BY <1>2, <1>3, <2>1
    <3> HIDE DEF V
    <3> QED
      BY <1>5, <3>1, SumRemove
  <2>2. CASE c \notin S
    <3>1. U \cap S = V \cap S /\ f[c] = 0
      BY <1>2, <1>3, <2>2
    <3>2. \A a \in Int : a = 0 + a
      OBVIOUS
    <3>3. SumFunctionOnSet(f, V \cap S) = 0 + SumFunctionOnSet(f, V \cap S)
      BY <1>7, <3>2
    <3> HIDE DEF V
    <3> QED
      BY <3>1, <3>3
  <2> QED
    BY <2>1, <2>2
<1> QED
  BY <1>1, <1>4, <1>6, <1>8

\* A sum over things of which each stands for another one of its own is no larger than
\* the sum over those.
LEMMA SumInjection ==
    ASSUME NEW f, NEW g, NEW S, IsFiniteSet(S), NEW T, IsFiniteSet(T), NEW m,
           \A x \in S : m[x] \in T /\ f[x] \in Int /\ f[x] <= g[m[x]],
           \A x, y \in S : m[x] = m[y] => x = y,
           \A y \in T : g[y] \in Nat
    PROVE  SumFunctionOnSet(f, S) <= SumFunctionOnSet(g, T)
<1> DEFINE Im(s) == {m[x] : x \in s}
           B == {s \in SUBSET S : ~ (SumFunctionOnSet(f, s) <= SumFunctionOnSet(g, Im(s)))}
<1>1. ASSUME NEW s \in SUBSET S
      PROVE  IsFiniteSet(s) /\ Im(s) \in SUBSET T /\ IsFiniteSet(Im(s))
  BY FS_Subset
<1>2. ASSUME NEW s \in SUBSET S
      PROVE  SumFunctionOnSet(f, s) \in Int /\ SumFunctionOnSet(g, Im(s)) \in Int
  <2> HIDE DEF Im
  <2>1. \A y \in Im(s) : g[y] \in Int
    BY <1>1
  <2> QED
    BY <1>1, <2>1, SumType
<1>3. B = {}
  <2> SUFFICES ASSUME B # {} PROVE FALSE
    OBVIOUS
  <2>1. PICK U \in B : \A u \in B : u \subseteq U => u = U
    <3>1. B \subseteq SUBSET S
      OBVIOUS
    <3> HIDE DEF B
    <3> QED
      BY <3>1, Smallest
  <2>2. U # {} /\ U \in SUBSET S
    <3>1. Im({}) = {}
      OBVIOUS
    <3>2. SumFunctionOnSet(f, {}) = 0 /\ SumFunctionOnSet(g, Im({})) = 0
      BY <3>1, SumEmpty
    <3>3. {} \notin B
      BY <3>2
    <3> QED
      BY <2>1, <3>3
  <2> DEFINE c == Some(U)
             V == U \ {c}
  <2>3. c \in U /\ V \in SUBSET S
    BY <2>2, SomeIn
  <2>4. SumFunctionOnSet(f, V) <= SumFunctionOnSet(g, Im(V))
    BY <2>1, <2>3
  <2>5. m[c] \in Im(U) /\ Im(U) \ {m[c]} = Im(V)
    BY <2>2, <2>3
  <2>6. SumFunctionOnSet(f, U) = f[c] + SumFunctionOnSet(f, V)
    <3>1. \A y \in U : f[y] \in Int
      BY <2>2
    <3> HIDE DEF c, Im
    <3> QED
      BY <1>1, <2>2, <2>3, <3>1, SumRemove
  <2>7. SumFunctionOnSet(g, Im(U)) = g[m[c]] + SumFunctionOnSet(g, Im(V))
    <3> HIDE DEF c, Im, V
    <3>1. \A y \in Im(U) : g[y] \in Int
      BY <1>1, <2>2
    <3> QED
      BY <1>1, <2>2, <2>5, <3>1, SumRemove
  <2>8. f[c] \in Int /\ g[m[c]] \in Int /\ f[c] <= g[m[c]]
    BY <2>2, <2>3
  <2>9. ~ (SumFunctionOnSet(f, U) <= SumFunctionOnSet(g, Im(U)))
    BY <2>1
  <2>10. /\ SumFunctionOnSet(f, V) \in Int /\ SumFunctionOnSet(g, Im(V)) \in Int
    BY <1>2, <2>3
  <2> HIDE DEF B, V, c, Im
  <2> QED
    BY <2>4, <2>6, <2>7, <2>8, <2>9, <2>10
<1>4. SumFunctionOnSet(f, S) <= SumFunctionOnSet(g, Im(S))
  BY <1>3
<1>5. SumFunctionOnSet(g, Im(S)) <= SumFunctionOnSet(g, T)
  <2>1. Im(S) \in SUBSET T
    BY <1>1
  <2> HIDE DEF Im
  <2>2. \A x \in Im(S) : g[x] \in Nat /\ g[x] <= g[x]
    BY <2>1
  <2> QED
    BY <2>1, <2>2, SumMonotone
<1>6. SumFunctionOnSet(g, T) \in Int
  BY SumType
<1> HIDE DEF Im, B
<1> QED
  BY <1>2, <1>4, <1>5, <1>6
================================================================================
