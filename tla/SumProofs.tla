------------------------------ MODULE SumProofs ------------------------------
(***************************************************************************)
(* Sums over finite sets, as MapThenSumSet of FiniteSetsExt computes them: *)
(* that the recursive function behind it exists, and that the sum does not *)
(* depend on the order in which it takes the elements.                     *)
(*                                                                         *)
(* There is no induction here with a property as a parameter.  A statement *)
(* about every finite set is proved by contradiction: of the subsets for   *)
(* which it fails one is minimal (MinimalSet), and without one of its      *)
(* elements it would hold.                                                 *)
(***************************************************************************)
EXTENDS Integers, FiniteSets, FiniteSetsExt, FiniteSetTheorems, WellFoundedInduction, TLAPS

\* The sum of f over S.
SumOver(f, S) == MapThenSumSet(LAMBDA x : f[x], S)

\* The element that is added last.
Any(T) == CHOOSE x \in T : TRUE

\* The function by which MapThenSumSet is defined, on the subsets of S that D holds.
Sums(g, f, D) == g = [T \in D |-> IF T = {} THEN 0 ELSE f[Any(T)] + g[T \ {Any(T)}]]

UpTo(S, n) == {T \in SUBSET S : Cardinality(T) <= n}

LEMMA AnyIn == ASSUME NEW T, T # {} PROVE Any(T) \in T
BY DEF Any

\* What it means for the sizes to leave one element out.
LEMMA OneLess ==
  ASSUME NEW S, IsFiniteSet(S), NEW T \in SUBSET S, NEW x \in T
  PROVE  /\ IsFiniteSet(T) /\ IsFiniteSet(T \ {x}) /\ T \ {x} \in SUBSET S
         /\ Cardinality(T) \in Nat /\ Cardinality(T \ {x}) \in Nat
         /\ Cardinality(T \ {x}) = Cardinality(T) - 1
<1>1. IsFiniteSet(T) BY FS_Subset
<1>2. QED BY <1>1, FS_RemoveElement, FS_CardinalityType

-----------------------------------------------------------------------------
(* Least members                                                            *)

\* A set of naturals has a least one.
LEMMA Least ==
  ASSUME NEW N \in SUBSET Nat, N # {}
  PROVE  \E n \in N : \A m \in N : n <= m
<1> DEFINE R == {p \in Nat \X Nat : p[1] < p[2]}
<1>1. IsWellFoundedOn(R, Nat) BY NatLessThanWellFounded DEF OpToRel
<1>2. \A m, n \in Nat : m < n => <<m, n>> \in R OBVIOUS
<1> HIDE DEF R
<1>3. PICK n \in N : \A m \in N : <<m, n>> \notin R BY <1>1, WFMin
<1>4. \A m \in N : ~(m < n) BY <1>2, <1>3
<1> QED BY <1>4

\* A set of subsets of S has a member of which nothing can be left out.
LEMMA MinimalSet ==
  ASSUME NEW S, IsFiniteSet(S), NEW B \in SUBSET SUBSET S, B # {}
  PROVE  \E T \in B : \A x \in T : T \ {x} \notin B
<1> DEFINE N == {Cardinality(T) : T \in B}
<1>1. \A T \in B : Cardinality(T) \in Nat BY FS_Subset, FS_CardinalityType
<1>2. N \in SUBSET Nat /\ N # {} BY <1>1
<1>3. \E n \in N : \A m \in N : n <= m
  <2> HIDE DEF N
  <2> QED BY <1>2, Least
<1>4. PICK T \in B : \A R \in B : Cardinality(T) <= Cardinality(R) BY <1>3
<1>5. ASSUME NEW x \in T, T \ {x} \in B PROVE FALSE
  <2>1. Cardinality(T \ {x}) = Cardinality(T) - 1 /\ Cardinality(T) \in Nat BY OneLess
  <2>2. Cardinality(T) <= Cardinality(T \ {x}) BY <1>4, <1>5
  <2> QED BY <2>1, <2>2
<1> QED BY <1>5

LEMMA EmptyHasNone ==
  ASSUME NEW S, IsFiniteSet(S), NEW T \in SUBSET S, Cardinality(T) <= 0
  PROVE  T = {}
<1> SUFFICES ASSUME NEW x \in T PROVE FALSE OBVIOUS
<1>1. /\ Cardinality(T) \in Nat /\ Cardinality(T \ {x}) \in Nat
      /\ Cardinality(T \ {x}) = Cardinality(T) - 1
  BY OneLess
<1> QED BY <1>1

-----------------------------------------------------------------------------
(* The recursive function exists                                            *)

\* For subsets of up to n elements; the function for n is made from the one for n - 1.
LEMMA SumsExist ==
  ASSUME NEW f, NEW S, IsFiniteSet(S)
  PROVE  \A n \in Nat : \E g : Sums(g, f, UpTo(S, n))
<1> DEFINE Bad == {n \in Nat : ~ \E g : Sums(g, f, UpTo(S, n))}
<1> SUFFICES ASSUME Bad # {} PROVE FALSE OBVIOUS
<1>0. Bad \in SUBSET Nat OBVIOUS
<1>1. PICK n \in Bad : \A m \in Bad : n <= m
  <2> HIDE DEF Bad
  <2> QED BY <1>0, Least
<1>2. CASE n = 0
  <2> DEFINE g == [T \in UpTo(S, 0) |-> 0]
  <2>1. \A T \in UpTo(S, 0) : T = {} BY EmptyHasNone DEF UpTo
  <2>2. Sums(g, f, UpTo(S, 0)) BY <2>1 DEF Sums
  <2> QED BY <1>2, <2>2
<1>3. CASE n # 0
  <2>1. n - 1 \in Nat /\ n - 1 \notin Bad BY <1>1, <1>3
  <2>2. PICK g : Sums(g, f, UpTo(S, n - 1)) BY <2>1
  <2> DEFINE h == [T \in UpTo(S, n) |-> IF T = {} THEN 0 ELSE f[Any(T)] + g[T \ {Any(T)}]]
  <2>3. \A T \in UpTo(S, n - 1) : h[T] = g[T]
    <3> TAKE T \in UpTo(S, n - 1)
    <3>1. T \in UpTo(S, n)
      <4>1. Cardinality(T) \in Nat BY FS_Subset, FS_CardinalityType DEF UpTo
      <4> QED BY <4>1, <1>1 DEF UpTo
    <3>2. g[T] = IF T = {} THEN 0 ELSE f[Any(T)] + g[T \ {Any(T)}] BY <2>2 DEF Sums
    <3> QED BY <3>1, <3>2
  <2>4. \A T \in UpTo(S, n) : T # {} => T \ {Any(T)} \in UpTo(S, n - 1)
    <3> SUFFICES ASSUME NEW T \in UpTo(S, n), T # {} PROVE T \ {Any(T)} \in UpTo(S, n - 1)
      OBVIOUS
    <3>1. Any(T) \in T BY AnyIn
    <3>2. T \in SUBSET S BY DEF UpTo
    <3>3. Cardinality(T) <= n BY DEF UpTo
    <3>5. n \in Nat OBVIOUS
    <3>4. /\ Cardinality(T) \in Nat /\ T \ {Any(T)} \in SUBSET S
          /\ Cardinality(T \ {Any(T)}) = Cardinality(T) - 1
      BY <3>1, <3>2, OneLess
    <3>6. Cardinality(T \ {Any(T)}) <= n - 1 BY <3>3, <3>4, <3>5
    <3> QED BY <3>4, <3>6 DEF UpTo
  <2>5. h = [T \in UpTo(S, n) |-> IF T = {} THEN 0 ELSE f[Any(T)] + h[T \ {Any(T)}]]
    BY <2>3, <2>4
  <2>6. Sums(h, f, UpTo(S, n)) BY <2>5 DEF Sums
  <2> QED BY <2>6, <1>1
<1>4. QED BY <1>2, <1>3

\* For every subset of a finite set.
LEMMA SumsAll ==
  ASSUME NEW f, NEW S, IsFiniteSet(S)
  PROVE  \E g : Sums(g, f, SUBSET S)
<1>1. PICK g : Sums(g, f, UpTo(S, Cardinality(S))) BY SumsExist, FS_CardinalityType
<1>2. SUBSET S = UpTo(S, Cardinality(S)) BY FS_Subset DEF UpTo
<1> QED BY <1>1, <1>2

\* MapThenSumSet chooses such a function on SUBSET T; one on SUBSET S agrees with it.
LEMMA SumOverIs ==
  ASSUME NEW f, NEW S, IsFiniteSet(S), NEW g, Sums(g, f, SUBSET S), NEW T \in SUBSET S
  PROVE  SumOver(f, T) = g[T]
<1> DEFINE h == CHOOSE s : Sums(s, f, SUBSET T)
<1>1. IsFiniteSet(T) BY FS_Subset
<1>2. Sums(h, f, SUBSET T) BY <1>1, SumsAll
<1>3. SumOver(f, T) = h[T] BY DEF SumOver, MapThenSumSet, MapThenFoldSet, Sums, Any
<1> HIDE DEF h
<1> DEFINE Bad == {R \in SUBSET T : g[R] # h[R]}
<1>4. ASSUME Bad # {} PROVE FALSE
  <2>1. Bad \in SUBSET SUBSET T OBVIOUS
  <2>2. PICK R \in Bad : \A x \in R : R \ {x} \notin Bad
    <3> HIDE DEF Bad
    <3> QED BY <1>1, <1>4, <2>1, MinimalSet
  <2>3. /\ g[R] = IF R = {} THEN 0 ELSE f[Any(R)] + g[R \ {Any(R)}]
        /\ h[R] = IF R = {} THEN 0 ELSE f[Any(R)] + h[R \ {Any(R)}]
    <3>1. R \in SUBSET S /\ R \in SUBSET T OBVIOUS
    <3> QED BY <1>2, <3>1 DEF Sums
  <2>4. R # {} /\ g[R \ {Any(R)}] # h[R \ {Any(R)}] BY <2>3
  <2>5. Any(R) \in R BY <2>4, AnyIn
  <2>6. R \ {Any(R)} \in Bad BY <2>4
  <2> QED BY <2>2, <2>5, <2>6
<1>5. g[T] = h[T] BY <1>4
<1> QED BY <1>3, <1>5

-----------------------------------------------------------------------------
(* What sums are                                                            *)

LEMMA SumOfNone == ASSUME NEW f PROVE SumOver(f, {}) = 0
<1> DEFINE E == {}
<1>1. IsFiniteSet(E) BY FS_EmptySet
<1>2. PICK g : Sums(g, f, SUBSET E) BY <1>1, SumsAll
<1>3. g[E] = 0 BY <1>2 DEF Sums
<1>4. E \in SUBSET E OBVIOUS
<1>5. SumOver(f, E) = g[E]
  <2> HIDE DEF E
  <2> QED BY <1>1, <1>2, <1>4, SumOverIs
<1> QED BY <1>3, <1>5

LEMMA SumStep ==
  ASSUME NEW f, NEW S, IsFiniteSet(S), S # {}
  PROVE  SumOver(f, S) = f[Any(S)] + SumOver(f, S \ {Any(S)})
<1>1. PICK g : Sums(g, f, SUBSET S) BY SumsAll
<1>2. g[S] = f[Any(S)] + g[S \ {Any(S)}] BY <1>1 DEF Sums
<1>3. S \in SUBSET S /\ S \ {Any(S)} \in SUBSET S OBVIOUS
<1> QED BY <1>1, <1>2, <1>3, SumOverIs

LEMMA SumIsInt ==
  ASSUME NEW S, IsFiniteSet(S), NEW f, \A x \in S : f[x] \in Int
  PROVE  SumOver(f, S) \in Int
<1> DEFINE Bad == {T \in SUBSET S : SumOver(f, T) \notin Int}
<1> SUFFICES ASSUME Bad # {} PROVE FALSE OBVIOUS
<1>1. Bad \in SUBSET SUBSET S OBVIOUS
<1>2. PICK T \in Bad : \A x \in T : T \ {x} \notin Bad
  <2> HIDE DEF Bad
  <2> QED BY <1>1, MinimalSet
<1>3. T # {} BY SumOfNone
<1>4. Any(T) \in T /\ IsFiniteSet(T) BY <1>3, AnyIn, FS_Subset
<1>5. SumOver(f, T) = f[Any(T)] + SumOver(f, T \ {Any(T)}) BY <1>3, <1>4, SumStep
<1>6. SumOver(f, T \ {Any(T)}) \in Int BY <1>2, <1>4
<1> QED BY <1>4, <1>5, <1>6

LEMMA SumIsNat ==
  ASSUME NEW S, IsFiniteSet(S), NEW f, \A x \in S : f[x] \in Nat
  PROVE  SumOver(f, S) \in Nat
<1> DEFINE Bad == {T \in SUBSET S : SumOver(f, T) \notin Nat}
<1> SUFFICES ASSUME Bad # {} PROVE FALSE OBVIOUS
<1>1. Bad \in SUBSET SUBSET S OBVIOUS
<1>2. PICK T \in Bad : \A x \in T : T \ {x} \notin Bad
  <2> HIDE DEF Bad
  <2> QED BY <1>1, MinimalSet
<1>3. T # {} BY SumOfNone
<1>4. Any(T) \in T /\ IsFiniteSet(T) BY <1>3, AnyIn, FS_Subset
<1>5. SumOver(f, T) = f[Any(T)] + SumOver(f, T \ {Any(T)}) BY <1>3, <1>4, SumStep
<1>6. SumOver(f, T \ {Any(T)}) \in Nat BY <1>2, <1>4
<1> QED BY <1>4, <1>5, <1>6

\* Which element is added last does not matter.
LEMMA SumSplits ==
  ASSUME NEW S, IsFiniteSet(S), NEW f, \A x \in S : f[x] \in Int
  PROVE  \A x \in S : SumOver(f, S) = f[x] + SumOver(f, S \ {x})
<1> DEFINE Bad == {T \in SUBSET S : \E x \in T : SumOver(f, T) # f[x] + SumOver(f, T \ {x})}
<1> SUFFICES ASSUME Bad # {} PROVE FALSE OBVIOUS
<1>1. Bad \in SUBSET SUBSET S OBVIOUS
<1>2. PICK T \in Bad : \A z \in T : T \ {z} \notin Bad
  <2> HIDE DEF Bad
  <2> QED BY <1>1, MinimalSet
<1>3. PICK x \in T : SumOver(f, T) # f[x] + SumOver(f, T \ {x}) OBVIOUS
<1> DEFINE a == Any(T)
<1>4. a \in T /\ IsFiniteSet(T) BY <1>3, AnyIn, FS_Subset
<1>5. SumOver(f, T) = f[a] + SumOver(f, T \ {a}) BY <1>3, <1>4, SumStep
<1> HIDE DEF a
<1>6. a # x BY <1>3, <1>5
<1>7. SumOver(f, T \ {a}) = f[x] + SumOver(f, (T \ {a}) \ {x})
  <2>1. T \ {a} \notin Bad /\ T \ {a} \in SUBSET S /\ x \in T \ {a} BY <1>2, <1>4, <1>6
  <2> QED BY <2>1
<1>8. SumOver(f, T \ {x}) = f[a] + SumOver(f, (T \ {x}) \ {a})
  <2>1. T \ {x} \notin Bad /\ T \ {x} \in SUBSET S /\ a \in T \ {x} BY <1>2, <1>4, <1>6
  <2> QED BY <2>1
<1>9. (T \ {a}) \ {x} = (T \ {x}) \ {a} OBVIOUS
<1> DEFINE U == (T \ {x}) \ {a}
<1>10. SumOver(f, U) \in Int
  <2>1. IsFiniteSet(U) /\ \A y \in U : f[y] \in Int BY <1>4, FS_Subset
  <2> HIDE DEF U
  <2> QED BY <2>1, SumIsInt
<1>11. f[a] \in Int /\ f[x] \in Int BY <1>4
<1>12. f[x] + (f[a] + SumOver(f, U)) = f[a] + (f[x] + SumOver(f, U))
  <2> HIDE DEF U
  <2> QED BY <1>10, <1>11
<1> QED BY <1>12, <1>3, <1>5, <1>7, <1>8, <1>9, <1>10, <1>11

LEMMA SumLeft ==
  ASSUME NEW S, IsFiniteSet(S), NEW f, \A y \in S : f[y] \in Int, NEW x \in S
  PROVE  /\ SumOver(f, S \ {x}) = SumOver(f, S) - f[x]
         /\ SumOver(f, S \ {x}) \in Int /\ SumOver(f, S) \in Int
<1>1. IsFiniteSet(S \ {x}) BY FS_Subset
<1>2. SumOver(f, S) = f[x] + SumOver(f, S \ {x}) BY SumSplits
<1>3. SumOver(f, S \ {x}) \in Int /\ SumOver(f, S) \in Int BY <1>1, SumIsInt
<1> QED BY <1>2, <1>3

LEMMA SumMore ==
  ASSUME NEW S, IsFiniteSet(S), NEW x, x \notin S,
         NEW f, \A y \in S \cup {x} : f[y] \in Int
  PROVE  /\ SumOver(f, S \cup {x}) = SumOver(f, S) + f[x]
         /\ SumOver(f, S) \in Int
<1>1. IsFiniteSet(S \cup {x}) BY FS_AddElement
<1>2. (S \cup {x}) \ {x} = S OBVIOUS
<1>3. SumOver(f, S \cup {x}) = f[x] + SumOver(f, (S \cup {x}) \ {x}) BY <1>1, SumSplits
<1>4. SumOver(f, S) \in Int BY SumIsInt
<1>5. f[x] \in Int OBVIOUS
<1>6. SumOver(f, S \cup {x}) = f[x] + SumOver(f, S) BY <1>2, <1>3
<1> QED BY <1>4, <1>5, <1>6

\* A part of a sum of naturals is at most the whole.
LEMMA SumOfPart ==
  ASSUME NEW S, IsFiniteSet(S), NEW f, \A x \in S : f[x] \in Nat, NEW T \in SUBSET S
  PROVE  /\ SumOver(f, T) <= SumOver(f, S)
         /\ SumOver(f, T) \in Nat /\ SumOver(f, S) \in Nat
<1> DEFINE Bad == {R \in SUBSET S : T \subseteq R /\ ~(SumOver(f, T) <= SumOver(f, R))}
<1>0. /\ S \in SUBSET S /\ T \subseteq S /\ IsFiniteSet(T)
      /\ SumOver(f, T) \in Nat /\ SumOver(f, S) \in Nat
  <2>1. IsFiniteSet(T) /\ \A x \in T : f[x] \in Nat BY FS_Subset
  <2> QED BY <2>1, SumIsNat
<1> SUFFICES ASSUME Bad # {} PROVE FALSE BY <1>0
<1>1. Bad \in SUBSET SUBSET S OBVIOUS
<1>2. PICK R \in Bad : \A z \in R : R \ {z} \notin Bad
  <2> HIDE DEF Bad
  <2> QED BY <1>1, MinimalSet
<1>3. PICK x \in R : x \notin T BY <1>0
<1>4. IsFiniteSet(R) BY FS_Subset
<1>5. SumOver(f, R) = f[x] + SumOver(f, R \ {x}) /\ f[x] \in Nat BY <1>4, SumSplits
<1>6. SumOver(f, R \ {x}) \in Nat
  <2>1. IsFiniteSet(R \ {x}) BY <1>4, FS_Subset
  <2> QED BY <2>1, SumIsNat
<1>7. ~(SumOver(f, T) <= SumOver(f, R \ {x})) BY <1>0, <1>5, <1>6
<1>8. R \ {x} \in Bad BY <1>3, <1>7
<1> QED BY <1>2, <1>8
=============================================================================
