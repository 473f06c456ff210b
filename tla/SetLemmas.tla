----------------------------- MODULE SetLemmas -----------------------------
(***************************************************************************)
(* Facts on sets of numbers that the proofs of several modules need: least *)
(* and greatest elements, finite images, and recursive functions over      *)
(* 1..n.  The induction theorems of the library take an operator; those    *)
(* below take a set or a function, on which the provers instantiate them.  *)
(***************************************************************************)
EXTENDS Integers, Sequences, FiniteSetsExt, FiniteSetTheorems, WellFoundedInduction, TLAPS

(* Every nonempty set of natural numbers has a least element.              *)
LEMMA LeastElement ==
  ASSUME NEW S, S \subseteq Nat, S # {}
  PROVE  \E n \in S : \A m \in S : n <= m
<1> DEFINE R == {p \in Nat \X Nat : p[1] < p[2]}
<1>1. IsWellFoundedOn(R, Nat)
  <2>1. OpToRel(<, Nat) = R
    BY DEF OpToRel
  <2> HIDE DEF R
  <2> QED
    BY <2>1, NatLessThanWellFounded
<1>2. \A x, y \in Nat : x < y => <<x, y>> \in R
  OBVIOUS
<1> HIDE DEF R
<1>3. PICK x \in S : \A y \in S : ~ (<<y, x>> \in R)
  BY <1>1, WFMin, Zenon
<1>4. \A y \in S : y \in Nat /\ x \in Nat
  BY <1>3
<1>5. \A y \in S : ~ (y < x)
  BY <1>2, <1>3, <1>4
<1>6. \A y \in S : x <= y
  BY <1>4, <1>5
<1> QED
  BY <1>3, <1>6

(* Induction, with the set of the numbers that have the property.          *)
LEMMA SetInduction ==
  ASSUME NEW S, 0 \in S, \A n \in Nat : n \in S => n + 1 \in S
  PROVE  Nat \subseteq S
<1> DEFINE T == {n \in Nat : n \notin S}
<1> SUFFICES ASSUME T # {} PROVE FALSE
  OBVIOUS
<1>1. PICK n \in T : \A m \in T : n <= m
  <2>1. T \subseteq Nat
    OBVIOUS
  <2> HIDE DEF T
  <2> QED
    BY <2>1, LeastElement
<1>2. n \in Nat /\ n # 0
  BY <1>1
<1>3. n - 1 \in Nat /\ n - 1 \notin T
  BY <1>1, <1>2
<1>4. (n - 1) + 1 \in S
  BY <1>3
<1> QED
  BY <1>1, <1>2, <1>4

(* Course-of-values induction up to a bound.                               *)
LEMMA IntervalInduction ==
  ASSUME NEW k \in Nat, NEW S,
         \A n \in 1..k : (\A m \in 1..(n - 1) : m \in S) => n \in S
  PROVE  1..k \subseteq S
<1> DEFINE T == {n \in 1..k : n \notin S}
<1> SUFFICES ASSUME T # {} PROVE FALSE
  OBVIOUS
<1>1. PICK n \in T : \A m \in T : n <= m
  <2>1. T \subseteq Nat
    OBVIOUS
  <2> HIDE DEF T
  <2> QED
    BY <2>1, LeastElement
<1>2. \A m \in 1..(n - 1) : m \in S
  BY <1>1
<1> QED
  BY <1>1, <1>2

(* The same from k downward.                                               *)
LEMMA DownwardInduction ==
  ASSUME NEW k \in Nat, NEW S,
         \A n \in 1..k : (\A m \in (n + 1)..k : m \in S) => n \in S
  PROVE  1..k \subseteq S
<1> DEFINE T == {k - n : n \in {n \in 1..k : n \notin S}}
<1> SUFFICES ASSUME NEW a \in 1..k, a \notin S PROVE FALSE
  OBVIOUS
<1>1. PICK d \in T : \A m \in T : d <= m
  <2>1. T \subseteq Nat
    OBVIOUS
  <2>2. k - a \in T
    OBVIOUS
  <2> HIDE DEF T
  <2> QED
    BY <2>1, <2>2, LeastElement
<1>2. PICK n \in 1..k : n \notin S /\ d = k - n
  BY <1>1
<1>3. ASSUME NEW m \in (n + 1)..k, m \notin S PROVE FALSE
  <2>1. k - m \in T
    BY <1>2, <1>3
  <2>2. d <= k - m
    BY <1>1, <2>1
  <2> QED
    BY <1>2, <1>3, <2>2
<1> QED
  BY <1>2, <1>3

(* Greatest and least elements.                                            *)
LEMMA FiniteSetHasGreatest ==
  ASSUME NEW S \in SUBSET Int, IsFiniteSet(S), S # {}
  PROVE  \E x \in S : \A y \in S : x >= y
<1> DEFINE R == StrictSubsetOrdering(S)
           HasGreatest(A) == \E x \in A : \A y \in A : x >= y
           T == {A \in FiniteSubsetsOf(S) : A # {} /\ ~ HasGreatest(A)}
<1> SUFFICES ASSUME ~ HasGreatest(S) PROVE FALSE
  OBVIOUS
<1>1. IsWellFoundedOn(R, FiniteSubsetsOf(S))
  BY FS_StrictSubsetOrderingWellFounded
<1>2. S \in T
  BY DEF FiniteSubsetsOf
<1> HIDE DEF R
<1>3. PICK A \in T : \A B \in T : ~ (<<B, A>> \in R)
  <2>1. T \subseteq FiniteSubsetsOf(S) /\ T # {}
    BY <1>2
  <2> HIDE DEF T
  <2> QED
    BY <1>1, <2>1, WFMin
<1>4. A \subseteq S /\ IsFiniteSet(A) /\ A # {} /\ ~ HasGreatest(A)
  BY <1>3 DEF FiniteSubsetsOf
<1>5. PICK a \in A : TRUE
  BY <1>4
<1>6. A \ {a} # {}
  BY <1>4, <1>5
<1>7. A \ {a} \in FiniteSubsetsOf(S)
  BY <1>4, FS_RemoveElement DEF FiniteSubsetsOf
<1>8. <<A \ {a}, A>> \in R
  BY <1>4, <1>5, <1>7 DEF R, StrictSubsetOrdering
<1>9. PICK b \in A \ {a} : \A y \in A \ {a} : b >= y
  BY <1>3, <1>6, <1>7, <1>8
<1>10. a \in Int /\ b \in Int /\ \A y \in A : y \in Int
  BY <1>4, <1>5, <1>9
<1>11. CASE a >= b
  BY <1>4, <1>5, <1>9, <1>10, <1>11
<1>12. CASE b >= a
  BY <1>4, <1>5, <1>9, <1>10, <1>12
<1> QED
  BY <1>10, <1>11, <1>12

(* The image of a finite set.                                             *)
LEMMA ImagesAreFinite ==
  ASSUME NEW S, IsFiniteSet(S), NEW f, DOMAIN f = S
  PROVE  IsFiniteSet({f[x] : x \in S})
<1> DEFINE T == {f[x] : x \in S}
           g == [x \in S |-> f[x]]
<1>1. g \in Surjection(S, T)
  BY DEF Surjection
<1> QED
  BY <1>1, FS_Surjection

(* What Max and Min choose.                                                *)
LEMMA MaxOfSet ==
  ASSUME NEW S \in SUBSET Int, IsFiniteSet(S), S # {}
  PROVE  Max(S) \in S /\ \A y \in S : Max(S) >= y
BY FiniteSetHasGreatest DEF Max

(* The least element of a finite set of integers.                          *)
LEMMA MinOfSet ==
  ASSUME NEW S \in SUBSET Int, IsFiniteSet(S), S # {}
  PROVE  Min(S) \in S /\ \A y \in S : Min(S) <= y
<1> DEFINE f == [x \in S |-> -x]
           T == {f[x] : x \in S}
<1>1. IsFiniteSet(T) /\ T \subseteq Int /\ T # {}
  <2>1. DOMAIN f = S
    OBVIOUS
  <2>2. T \subseteq Int /\ T # {}
    <3>1. \A x \in S : f[x] \in Int
      OBVIOUS
    <3> HIDE DEF f
    <3> QED
      BY <3>1
  <2> HIDE DEF f
  <2> QED
    BY <2>1, <2>2, ImagesAreFinite
<1>2. PICK z \in T : \A y \in T : z >= y
  BY <1>1, FiniteSetHasGreatest
<1>3. PICK x \in S : z = -x
  BY <1>2
<1>4. \A y \in S : x <= y
  <2> SUFFICES ASSUME NEW y \in S PROVE x <= y
    OBVIOUS
  <2>1. -y \in T /\ x \in Int /\ y \in Int
    BY <1>3
  <2>2. z >= -y
    BY <1>2, <2>1
  <2> QED
    BY <1>3, <2>1, <2>2
<1> QED
  BY <1>4 DEF Min

(* The greater of two integers.                                            *)
LEMMA MaxOfTwo ==
  ASSUME NEW a \in Int, NEW b \in Int
  PROVE  Max({a, b}) \in {a, b} /\ Max({a, b}) >= a /\ Max({a, b}) >= b
<1>1. IsFiniteSet({b} \cup {a})
  BY FS_Singleton, FS_AddElement
<1>2. {b} \cup {a} = {a, b}
  OBVIOUS
<1> QED
  BY <1>1, <1>2, MaxOfSet

(* The lesser of two integers.                                             *)
LEMMA MinOfTwo ==
  ASSUME NEW a \in Int, NEW b \in Int
  PROVE  Min({a, b}) \in {a, b} /\ Min({a, b}) <= a /\ Min({a, b}) <= b
<1>1. IsFiniteSet({b} \cup {a})
  BY FS_Singleton, FS_AddElement
<1>2. {b} \cup {a} = {a, b}
  OBVIOUS
<1> QED
  BY <1>1, <1>2, MinOfSet

(* A function on 1..n is a sequence.                                       *)
LEMMA FunctionIsSequence ==
  ASSUME NEW S, NEW k \in Nat, NEW f, f = [i \in 1..k |-> f[i]],
         \A i \in 1..k : f[i] \in S
  PROVE  f \in Seq(S) /\ Len(f) = k
OBVIOUS

(* A step G on the functions from 1..k to T, whose value at n depends on   *)
(* the values of lower rank only, has a fixed point.                       *)
IsStep(G, k, T) == k \in Nat /\ T # {} /\ G \in [[1..k -> T] -> [1..k -> T]]
HasFixedPoint(G, k, T) == \E f \in [1..k -> T] : f = G[f]
DependsOnLower(G, rank, k, T) ==
  \A f, g \in [1..k -> T] : \A n \in 1..k :
    (\A m \in 1..k : rank[m] < rank[n] => f[m] = g[m]) => G[f][n] = G[g][n]

(* A recursive function on the natural numbers exists.                     *)
LEMMA Recursion ==
  ASSUME NEW k, NEW T, NEW G, IsStep(G, k, T),
         NEW rank \in [1..k -> 0..k], DependsOnLower(G, rank, k, T)
  PROVE  HasFixedPoint(G, k, T)
<1> USE DEF IsStep, HasFixedPoint, DependsOnLower
<1> DEFINE D == 1..k
           Fixed(f, r) == \A n \in D : rank[n] < r => f[n] = G[f][n]
           Good == {r \in Nat : \E f \in [D -> T] : Fixed(f, r)}
<1>1. 0 \in Good
  <2>1. PICK x \in T : TRUE
    OBVIOUS
  <2>2. [n \in D |-> x] \in [D -> T]
    OBVIOUS
  <2>3. Fixed([n \in D |-> x], 0)
    OBVIOUS
  <2> HIDE DEF Fixed
  <2> QED
    BY <2>2, <2>3
<1>2. ASSUME NEW r \in Nat, r \in Good PROVE r + 1 \in Good
  <2>1. PICK f \in [D -> T] : Fixed(f, r)
    BY <1>2
  <2>2. G[f] \in [D -> T]
    BY <2>1
  <2>3. ASSUME NEW n \in D, rank[n] < r + 1 PROVE G[f][n] = G[G[f]][n]
    <3>1. \A m \in D : rank[m] < rank[n] => f[m] = G[f][m]
      BY <2>1, <2>3
    <3> QED
      BY <2>1, <2>2, <3>1
  <2>4. Fixed(G[f], r + 1)
    BY <2>3
  <2> HIDE DEF Fixed
  <2> QED
    BY <2>2, <2>4
<1>3. Nat \subseteq Good
  <2> HIDE DEF Good
  <2> QED
    BY <1>1, <1>2, SetInduction
<1>4. PICK f \in [D -> T] : Fixed(f, k + 1)
  <2>1. k + 1 \in Nat
    OBVIOUS
  <2>2. k + 1 \in Good
    <3> HIDE DEF Good
    <3> QED
      BY <1>3, <2>1
  <2> QED
    BY <2>2
<1>5. \A n \in D : f[n] = G[f][n]
  BY <1>4
<1>6. G[f] \in [D -> T]
  BY <1>4
<1> QED
  BY <1>4, <1>5, <1>6

(* Each value depends on those before it, or on those after it.            *)
DependsOnEarlier(G, k, T) ==
  \A f, g \in [1..k -> T] : \A n \in 1..k :
    (\A m \in 1..(n - 1) : f[m] = g[m]) => G[f][n] = G[g][n]

(* A loop that counts up defines a function.                               *)
LEMMA UpwardRecursion ==
  ASSUME NEW k, NEW T, NEW G, IsStep(G, k, T), DependsOnEarlier(G, k, T)
  PROVE  HasFixedPoint(G, k, T)
<1> DEFINE rank == [m \in 1..k |-> m]
<1>1. rank \in [1..k -> 0..k]
  BY DEF IsStep
<1>2. DependsOnLower(G, rank, k, T)
  <2> SUFFICES ASSUME NEW f \in [1..k -> T], NEW g \in [1..k -> T], NEW n \in 1..k,
                      \A m \in 1..k : rank[m] < rank[n] => f[m] = g[m]
               PROVE  G[f][n] = G[g][n]
    BY DEF DependsOnLower
  <2>1. \A m \in 1..(n - 1) : f[m] = g[m]
    BY DEF IsStep
  <2> QED
    BY <2>1, Zenon DEF DependsOnEarlier
<1> HIDE DEF rank
<1> QED
  BY <1>1, <1>2, Recursion

DependsOnLater(G, k, T) ==
  \A f, g \in [1..k -> T] : \A n \in 1..k :
    (\A m \in (n + 1)..k : f[m] = g[m]) => G[f][n] = G[g][n]

(* A loop that counts down defines a function.                             *)
LEMMA DownwardRecursion ==
  ASSUME NEW k, NEW T, NEW G, IsStep(G, k, T), DependsOnLater(G, k, T)
  PROVE  HasFixedPoint(G, k, T)
<1> DEFINE rank == [m \in 1..k |-> k - m]
<1>1. rank \in [1..k -> 0..k]
  BY DEF IsStep
<1>2. DependsOnLower(G, rank, k, T)
  <2> SUFFICES ASSUME NEW f \in [1..k -> T], NEW g \in [1..k -> T], NEW n \in 1..k,
                      \A m \in 1..k : rank[m] < rank[n] => f[m] = g[m]
               PROVE  G[f][n] = G[g][n]
    BY DEF DependsOnLower
  <2>1. \A m \in (n + 1)..k : f[m] = g[m]
    BY DEF IsStep
  <2> QED
    BY <2>1, Zenon DEF DependsOnLater
<1> HIDE DEF rank
<1> QED
  BY <1>1, <1>2, Recursion

=============================================================================
