----------------------------- MODULE Induction -----------------------------
(***************************************************************************)
(* Induction and recursion stated about sets instead of predicates.  The   *)
(* induction theorems of the library are about an operator P(_), and a     *)
(* prover of first-order logic cannot choose one; it can choose the set G  *)
(* of what has been shown.  All of it rests on the well-foundedness of the *)
(* strict subsets of a finite set.                                         *)
(***************************************************************************)
EXTENDS FiniteSetTheorems, TLAPS

(* A set of sets that has every finite set whose smaller sets it has.      *)
LEMMA SubsetInduction ==
  ASSUME NEW S, IsFiniteSet(S), NEW G,
         \A T \in SUBSET S : (\A x \in T : T \ {x} \in G) => T \in G
  PROVE  S \in G
<1> DEFINE Bad == {T \in SUBSET S : T \notin G}
<1>1. \A U, T \in SUBSET S : U \subseteq T /\ U # T => <<U, T>> \in StrictSubsetOrdering(S)
  BY DEF StrictSubsetOrdering
<1>2. ASSUME Bad # {} PROVE FALSE
  <2>1. IsWellFoundedOn(StrictSubsetOrdering(S), SUBSET S)
    BY FS_StrictSubsetOrderingWellFounded, FS_FiniteSubsetsOfFinite
  <2>2. Bad \subseteq SUBSET S
    OBVIOUS
  <2>3. PICK T \in Bad : \A U \in Bad : ~(<<U, T>> \in StrictSubsetOrdering(S))
    BY <1>2, <2>1, <2>2, WFMin
  <2>4. ASSUME NEW x \in T PROVE T \ {x} \in G
    <3>1. T \ {x} \in SUBSET S /\ T \ {x} # T
      OBVIOUS
    <3>2. T \ {x} \notin Bad
      BY <1>1, <2>3, <3>1
    <3>3. QED
      BY <3>1, <3>2
  <2>5. QED
    BY <2>4
<1>3. QED
  BY <1>2

(* Mathematical induction, from the sizes of the subsets of 1 .. n.        *)
LEMMA NatInductionOnSet ==
  ASSUME NEW G, 0 \in G, \A n \in Nat : n \in G => n + 1 \in G
  PROVE  \A n \in Nat : n \in G
<1> SUFFICES ASSUME NEW n \in Nat PROVE n \in G
  OBVIOUS
<1> DEFINE H == {T \in SUBSET (1 .. n) : Cardinality(T) \in G}
<1>1. IsFiniteSet(1 .. n) /\ Cardinality(1 .. n) = n
  BY FS_Interval
<1>2. ASSUME NEW T \in SUBSET (1 .. n), \A x \in T : T \ {x} \in H
      PROVE  T \in H
  <2>1. IsFiniteSet(T) /\ Cardinality(T) \in Nat
    BY <1>1, FS_Subset, FS_CardinalityType
  <2>2. CASE T = {}
    BY <2>2, FS_EmptySet
  <2>3. ASSUME NEW x \in T PROVE T \in H
    <3>1. Cardinality(T \ {x}) = Cardinality(T) - 1 /\ Cardinality(T \ {x}) \in Nat
      BY <2>1, <2>3, FS_RemoveElement, FS_CardinalityType
    <3>2. (Cardinality(T) - 1) + 1 = Cardinality(T)
      BY <2>1
    <3>3. QED
      BY <1>2, <3>1, <3>2
  <2>4. QED
    BY <2>2, <2>3
<1>3. (1 .. n) \in H
  <2> HIDE DEF H
  <2>1. QED
    BY <1>1, <1>2, SubsetInduction
<1>4. QED
  BY <1>1, <1>3

(* A set of natural numbers with a member has a least one,                 *)
LEMMA LeastExists ==
  ASSUME NEW S \in SUBSET Nat, S # {}
  PROVE  \E m \in S : \A x \in S : m <= x
<1> SUFFICES ASSUME \A m \in S : \E x \in S : ~(m <= x) PROVE FALSE
  OBVIOUS
<1> DEFINE G == {n \in Nat : \A x \in S : n <= x}
<1>1. 0 \in G
  OBVIOUS
<1>2. ASSUME NEW n \in Nat, n \in G PROVE n + 1 \in G
  <2>1. n \notin S
    BY <1>2
  <2>2. \A x \in S : n <= x /\ x # n /\ x \in Nat
    BY <1>2, <2>1
  <2>3. QED
    BY <2>2
<1>3. \A n \in Nat : n \in G
  <2> HIDE DEF G
  <2>1. QED
    BY <1>1, <1>2, NatInductionOnSet
<1>4. PICK x \in S : TRUE
  OBVIOUS
<1>5. x + 1 \in G
  BY <1>3
<1>6. QED
  BY <1>4, <1>5

(* and a greatest one if it is bounded.                                    *)
LEMMA GreatestExists ==
  ASSUME NEW S \in SUBSET Nat, S # {}, NEW n \in Nat, \A x \in S : x <= n
  PROVE  \E m \in S : \A x \in S : m >= x
<1> DEFINE T == {k \in Nat : \A x \in S : x <= k}
<1>1. T \in SUBSET Nat /\ T # {}
  OBVIOUS
<1>2. PICK k \in T : \A j \in T : k <= j
  <2> HIDE DEF T
  <2>1. QED
    BY <1>1, LeastExists
<1>3. k \in Nat /\ \A x \in S : x <= k
  OBVIOUS
<1>4. ASSUME k \notin S PROVE FALSE
  <2>1. PICK x \in S : TRUE
    OBVIOUS
  <2>2. k - 1 \in Nat
    BY <1>3, <1>4, <2>1
  <2>3. \A y \in S : y <= k /\ y # k /\ y \in Nat
    BY <1>3, <1>4
  <2>4. k - 1 \in T
    BY <2>2, <2>3
  <2>5. k <= k - 1
    <3> HIDE DEF T
    <3>1. QED
      BY <1>2, <2>4
  <2>6. QED
    BY <1>3, <2>5
<1>5. QED
  BY <1>3, <1>4

(* The function that starts with base and goes on by step.                 *)
IsIteration(f, V, base, step) ==
  f \in [Nat -> V] /\ f[0] = base /\ \A n \in Nat : f[n + 1] = step[f[n]]

(* A function on the natural numbers may be defined by recursion.          *)
LEMMA NatRecursion ==
  ASSUME NEW V, NEW base \in V, NEW step \in [V -> V]
  PROVE  \E f : IsIteration(f, V, base, step)
<1> DEFINE Fits(n, g) == /\ g \in [0 .. n -> V]
                         /\ g[0] = base
                         /\ \A i \in 0 .. n : i < n => g[i + 1] = step[g[i]]
           G == {n \in Nat : \E g : Fits(n, g)}
           f == [n \in Nat |-> (CHOOSE g : Fits(n, g))[n]]
<1>1. 0 \in G
  <2>1. Fits(0, [i \in 0 .. 0 |-> base])
    OBVIOUS
  <2>2. QED
    BY <2>1
<1>2. ASSUME NEW n \in Nat, NEW g, Fits(n, g)
      PROVE  Fits(n + 1, [i \in 0 .. n + 1 |-> IF i <= n THEN g[i] ELSE step[g[n]]])
  <2> DEFINE h == [i \in 0 .. n + 1 |-> IF i <= n THEN g[i] ELSE step[g[n]]]
  <2>1. \A i \in 0 .. n + 1 : i <= n => i \in 0 .. n
    OBVIOUS
  <2>2. n \in 0 .. n /\ 0 \in 0 .. n + 1 /\ 0 <= n
    OBVIOUS
  <2>3. h \in [0 .. n + 1 -> V]
    BY <1>2, <2>1, <2>2
  <2>4. h[0] = base
    BY <1>2, <2>2
  <2>5. ASSUME NEW i \in 0 .. n + 1, i < n + 1 PROVE h[i + 1] = step[h[i]]
    <3>1. i \in 0 .. n /\ i <= n /\ i + 1 \in 0 .. n + 1
      BY <2>5
    <3>2. h[i] = g[i]
      BY <3>1
    <3>3. CASE i < n
      <4>1. i + 1 <= n
        BY <3>1, <3>3
      <4>2. h[i + 1] = g[i + 1]
        BY <3>1, <4>1
      <4>3. QED
        BY <1>2, <3>1, <3>2, <3>3, <4>2
    <3>4. CASE ~(i < n)
      <4>1. i = n /\ ~(i + 1 <= n)
        BY <3>1, <3>4
      <4>2. QED
        BY <3>1, <3>2, <4>1
    <3>5. QED
      BY <3>3, <3>4
  <2>6. QED
    BY <2>3, <2>4, <2>5
<1>3. \A n \in Nat : n \in G
  <2>1. ASSUME NEW n \in Nat, n \in G PROVE n + 1 \in G
    <3>1. PICK g : Fits(n, g)
      BY <2>1
    <3> DEFINE k == [i \in 0 .. n + 1 |-> IF i <= n THEN g[i] ELSE step[g[n]]]
    <3>2. Fits(n + 1, k)
      <4> HIDE DEF Fits
      <4>1. QED
        BY <1>2, <3>1
    <3> HIDE DEF Fits, k
    <3>3. QED
      BY <3>2
  <2>2. QED
    <3> HIDE DEF G
    <3>1. QED
      BY <1>1, <2>1, NatInductionOnSet
<1>4. ASSUME NEW n \in Nat, NEW g, Fits(n, g), NEW m \in Nat, n <= m, NEW h, Fits(m, h)
      PROVE  \A i \in Nat : i <= n => g[i] = h[i]
  <2> DEFINE E == {i \in Nat : i <= n => g[i] = h[i]}
  <2>1. 0 \in E
    BY <1>4
  <2>2. ASSUME NEW i \in Nat, i \in E PROVE i + 1 \in E
    <3> SUFFICES ASSUME i + 1 <= n PROVE g[i + 1] = h[i + 1]
      OBVIOUS
    <3>1. i \in 0 .. n /\ i < n /\ i \in 0 .. m /\ i < m /\ i <= n
      BY <1>4
    <3>2. g[i] = h[i]
      BY <2>2, <3>1
    <3>3. QED
      BY <1>4, <3>1, <3>2
  <2>3. \A i \in Nat : i \in E
    <3> HIDE DEF E
    <3>1. QED
      BY <2>1, <2>2, NatInductionOnSet
  <2>4. QED
    BY <2>3
<1>5. \A n \in Nat : Fits(n, CHOOSE g : Fits(n, g))
  <2> HIDE DEF Fits
  <2>1. QED
    BY <1>3
<1>6. f \in [Nat -> V]
  <2>1. ASSUME NEW n \in Nat PROVE f[n] \in V
    <3>1. (CHOOSE g : Fits(n, g)) \in [0 .. n -> V]
      BY <1>5
    <3>2. n \in 0 .. n
      OBVIOUS
    <3> HIDE DEF Fits
    <3>3. QED
      BY <3>1, <3>2
  <2>2. QED
    BY <2>1
<1>7. f[0] = base
  BY <1>5
<1>8. ASSUME NEW n \in Nat PROVE f[n + 1] = step[f[n]]
  <2> DEFINE g == CHOOSE k : Fits(n, k)
             h == CHOOSE k : Fits(n + 1, k)
  <2>1. Fits(n, g) /\ Fits(n + 1, h) /\ n + 1 \in Nat /\ n <= n + 1
    <3> HIDE DEF Fits
    <3>1. n + 1 \in Nat /\ n <= n + 1
      OBVIOUS
    <3>2. QED
      BY <1>5, <3>1
  <2>2. f[n] = g[n] /\ f[n + 1] = h[n + 1]
    <3> HIDE DEF Fits
    <3>1. QED
      BY <2>1
  <2> HIDE DEF g, h, f
  <2>3. g[n] = h[n]
    <3>1. \A i \in Nat : i <= n => g[i] = h[i]
      <4> HIDE DEF Fits
      <4>1. QED
        BY <1>4, <2>1
    <3>2. QED
      BY <3>1
  <2>4. n \in 0 .. n + 1 /\ n < n + 1
    OBVIOUS
  <2>5. QED
    BY <2>1, <2>2, <2>3, <2>4
<1>9. QED
  <2> HIDE DEF f
  <2>1. QED
    BY <1>6, <1>7, <1>8 DEF IsIteration

(* The function on D that is base at the members of B, and elsewhere goes  *)
(* back to a smaller argument.                                             *)
IsRecursion(f, D, V, B, base, back, step) ==
  /\ f \in [D -> V]
  /\ \A n \in D : f[n] = IF n \in B THEN base ELSE step[n][f[back[n]]]

(* A function of natural numbers may be defined by recursion on any        *)
(* smaller argument: what the first n rounds of filling it in give is      *)
(* final below n.                                                          *)
LEMMA Recursion ==
  ASSUME NEW D \in SUBSET Nat, NEW V, NEW B, NEW base \in V, NEW back, NEW step,
         \A n \in D \ B : back[n] \in D /\ back[n] < n /\ step[n] \in [V -> V]
  PROVE  \E f : IsRecursion(f, D, V, B, base, back, step)
<1> DEFINE start == [n \in D |-> base]
           round == [g \in [D -> V] |->
                       [n \in D |-> IF n \in B THEN base ELSE step[n][g[back[n]]]]]
<1>1. start \in [D -> V] /\ round \in [[D -> V] -> [D -> V]]
  OBVIOUS
<1>2. PICK F : IsIteration(F, [D -> V], start, round)
  <2> HIDE DEF start, round
  <2>1. QED
    BY <1>1, NatRecursion
<1>3. /\ \A k \in Nat : F[k] \in [D -> V]
      /\ \A k \in Nat : \A n \in D :
           F[k + 1][n] = IF n \in B THEN base ELSE step[n][F[k][back[n]]]
  <2>1. F \in [Nat -> [D -> V]] /\ \A k \in Nat : F[k + 1] = round[F[k]]
    <3> HIDE DEF start, round
    <3>1. QED
      BY <1>2 DEF IsIteration
  <2>2. ASSUME NEW k \in Nat
        PROVE  F[k + 1] = [n \in D |-> IF n \in B THEN base ELSE step[n][F[k][back[n]]]]
    <3>1. F[k] \in [D -> V] /\ F[k + 1] = round[F[k]]
      BY <2>1
    <3>2. QED
      BY <3>1
  <2> HIDE DEF start, round
  <2>3. ASSUME NEW k \in Nat, NEW n \in D
        PROVE  F[k + 1][n] = IF n \in B THEN base ELSE step[n][F[k][back[n]]]
    <3>1. F[k + 1] = [m \in D |-> IF m \in B THEN base ELSE step[m][F[k][back[m]]]]
      BY <2>2
    <3>2. QED
      BY <3>1
  <2>4. QED
    BY <2>1, <2>3
<1> HIDE DEF start, round
<1>0. \A n \in D : n \in Nat /\ ~(n < 0)
  <2>1. \A n \in D : n \in Nat
    OBVIOUS
  <2>2. \A n \in Nat : ~(n < 0)
    OBVIOUS
  <2>3. QED
    BY <2>1, <2>2
<1> DEFINE Final == {k \in Nat : \A n \in D : n < k => F[k + 1][n] = F[k][n]}
           Settled == {k \in Nat : \A n \in D : n < k => F[k][n] = F[n + 1][n]}
           f == [n \in D |-> F[n + 1][n]]
<1>4. \A k \in Nat : k \in Final
  <2>1. 0 \in Final
    BY <1>0
  <2>2. ASSUME NEW k \in Nat, k \in Final PROVE k + 1 \in Final
    <3> SUFFICES ASSUME NEW n \in D, n < k + 1 PROVE F[(k + 1) + 1][n] = F[k + 1][n]
      OBVIOUS
    <3>0. k + 1 \in Nat
      OBVIOUS
    <3>1. CASE n \in B
      BY <1>3, <3>0, <3>1
    <3>2. CASE n \notin B
      <4>1. back[n] \in D /\ back[n] < k
        <5>1. back[n] \in D /\ back[n] < n
          BY <3>2
        <5>2. back[n] \in Nat /\ n \in Nat
          BY <1>0, <5>1
        <5>3. QED
          BY <5>1, <5>2
      <4>2. F[k + 1][back[n]] = F[k][back[n]]
        BY <2>2, <4>1
      <4>3. QED
        BY <1>3, <3>0, <3>2, <4>2
    <3>3. QED
      BY <3>1, <3>2
  <2> HIDE DEF Final
  <2>3. QED
    BY <2>1, <2>2, NatInductionOnSet
<1>5. \A k \in Nat : k \in Settled
  <2>1. 0 \in Settled
    BY <1>0
  <2>2. ASSUME NEW k \in Nat, k \in Settled PROVE k + 1 \in Settled
    <3> SUFFICES ASSUME NEW n \in D, n < k + 1 PROVE F[k + 1][n] = F[n + 1][n]
      OBVIOUS
    <3>1. n = k \/ n < k
      BY <1>0
    <3>2. ASSUME n < k PROVE F[k + 1][n] = F[k][n]
      BY <1>4, <3>2
    <3>3. QED
      BY <2>2, <3>1, <3>2
  <2> HIDE DEF Settled
  <2>3. QED
    BY <2>1, <2>2, NatInductionOnSet
<1>6. f \in [D -> V]
  BY <1>3
<1>7. ASSUME NEW n \in D PROVE f[n] = IF n \in B THEN base ELSE step[n][f[back[n]]]
  <2>1. f[n] = IF n \in B THEN base ELSE step[n][F[n][back[n]]]
    BY <1>3
  <2>2. ASSUME n \notin B PROVE F[n][back[n]] = f[back[n]]
    BY <1>5, <2>2
  <2> HIDE DEF f
  <2>3. QED
    BY <2>1, <2>2
<1>8. QED
  <2> HIDE DEF f
  <2>1. QED
    BY <1>6, <1>7 DEF IsRecursion

(* The function on the subsets of S that starts with base at {} and takes  *)
(* the elements in the order pick says.                                    *)
IsFold(g, S, base, pick, step) ==
  g = [T \in SUBSET S |-> IF T = {} THEN base ELSE step[pick[T]][g[T \ {pick[T]}]]]

(* A function on the subsets of a finite set may be defined by recursion   *)
(* on one element less: the folds of the community modules are.            *)
LEMMA SubsetRecursion ==
  ASSUME NEW S, IsFiniteSet(S), NEW base, NEW pick, NEW step,
         \A T \in SUBSET S : T # {} => pick[T] \in T
  PROVE  \E g : IsFold(g, S, base, pick, step)
<1> DEFINE Small(n) == {T \in SUBSET S : Cardinality(T) <= n}
           Step(g, T) == IF T = {} THEN base ELSE step[pick[T]][g[T \ {pick[T]}]]
           Exists(n) == \E g : g = [T \in Small(n) |-> Step(g, T)]
           Good == {n \in Nat : Exists(n)}
<1>0. \A T \in SUBSET S : IsFiniteSet(T) /\ Cardinality(T) \in Nat /\ Cardinality(T) <= Cardinality(S)
  BY FS_Subset, FS_CardinalityType
<1>1. 0 \in Good
  <2> DEFINE g == [T \in Small(0) |-> base]
  <2>1. \A T \in Small(0) : T = {}
    BY <1>0, FS_EmptySet
  <2>2. g = [T \in Small(0) |-> Step(g, T)]
    BY <2>1
  <2>3. QED
    BY <2>2
<1>2. ASSUME NEW n \in Nat, n \in Good PROVE n + 1 \in Good
  <2>1. PICK g : g = [T \in Small(n) |-> Step(g, T)]
    BY <1>2
  <2> DEFINE h == [T \in Small(n + 1) |-> Step(g, T)]
  <2>2. \A T \in Small(n) : T \in Small(n + 1)
    BY <1>0
  <2>3. ASSUME NEW T \in Small(n + 1), T # {} PROVE T \ {pick[T]} \in Small(n)
    <3>1. pick[T] \in T
      BY <2>3
    <3>2. Cardinality(T \ {pick[T]}) = Cardinality(T) - 1
      BY <1>0, <3>1, FS_RemoveElement
    <3>3. QED
      BY <1>0, <3>2
  <2>4. \A T \in Small(n) : h[T] = g[T]
    BY <2>1, <2>2
  <2>5. ASSUME NEW T \in Small(n + 1) PROVE h[T] = Step(h, T)
    BY <2>3, <2>4
  <2>6. h = [T \in Small(n + 1) |-> Step(h, T)]
    BY <2>5
  <2>7. Exists(n + 1)
    <3> HIDE DEF h, Small
    <3>1. QED
      BY <2>6
  <2>8. QED
    <3> HIDE DEF Exists
    <3>1. QED
      BY <2>7
<1>3. Cardinality(S) \in Good
  <2>1. Cardinality(S) \in Nat
    BY FS_CardinalityType
  <2> HIDE DEF Good
  <2>2. QED
    BY <1>1, <1>2, <2>1, NatInductionOnSet
<1>4. Small(Cardinality(S)) = SUBSET S
  BY <1>0
<1>5. QED
  BY <1>3, <1>4 DEF IsFold
=============================================================================
