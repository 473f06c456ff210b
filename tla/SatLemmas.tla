------------------------------ MODULE SatLemmas -----------------------------
(***************************************************************************)
(* Facts on the operators of SatSolver: literals, sequences and the trail, *)
(* what each loop of the solver computes, and the steps that its database  *)
(* changes by, each of which keeps it as the propagators need it: the      *)
(* propagation, the simplification, the assumptions, the analysis of a     *)
(* conflict and the backjump.  Then what an assignment satisfies: each step*)
(* of the propagation and of the simplification keeps the solutions of the *)
(* problem.  Last what has been propagated, up to a level, and which of the*)
(* assumptions are decided, or fix a literal.                              *)
(***************************************************************************)
EXTENDS SatSolver, SetLemmas

-----------------------------------------------------------------------------
(* Literals.                                                               *)
LEMMA LiteralFacts ==
  /\ \A l \in Literals : /\ l \in Int /\ l # 0 /\ -l \in Literals /\ -l # l
                         /\ VariableOf(l) \in Variables /\ -(-l) = l
  /\ \A l, m \in Literals : VariableOf(l) = VariableOf(m) <=> (m = l \/ m = -l)
  /\ \A l \in Literals : VariableOf(-l) = VariableOf(l)
BY SatAssumption DEF Literals, VariableOf

(* There are finitely many literals and variables.                         *)
LEMMA LiteralsAreFinite ==
  /\ IsFiniteSet(Literals) /\ IsFiniteSet(Variables)
  /\ Cardinality(Literals) \in Nat /\ Cardinality(Variables) \in Nat
<1> DEFINE f == [v \in Variables |-> -v]
           T == {f[v] : v \in Variables}
<1>1. T = {-v : v \in Variables}
  OBVIOUS
<1>2. IsFiniteSet(T)
  <2>1. DOMAIN f = Variables
    OBVIOUS
  <2> HIDE DEF f
  <2> QED
    BY <2>1, SatAssumption, ImagesAreFinite
<1>3. IsFiniteSet(Literals)
  BY <1>1, <1>2, SatAssumption, FS_Union DEF Literals
<1> QED
  BY <1>3, SatAssumption, FS_CardinalityType

(* Different literals have different indices.                              *)
LEMMA IndexFacts ==
  /\ \A l \in Literals : Index(l) \in Nat
  /\ \A l, m \in Literals : Index(l) = Index(m) => l = m
BY SatAssumption DEF Literals, VariableOf, Index

-----------------------------------------------------------------------------
(* The(), of an element, and sequences.                                    *)
LEMMA TheOfOne ==
  ASSUME NEW x
  PROVE  The({x}) = x
BY DEF The

(* The number of the elements of 1..n.                                     *)
LEMMA CardinalityOfInterval ==
  ASSUME NEW n \in Nat
  PROVE  IsFiniteSet(1..n) /\ Cardinality(1..n) = n
<1>1. IsFiniteSet(1..n) /\ Cardinality(1..n) = IF 1 > n THEN 0 ELSE n - 1 + 1
  BY FS_Interval
<1> QED
  BY <1>1

(* What Append() adds, and what it leaves alone.                           *)
LEMMA AppendFacts ==
  ASSUME NEW S, NEW s \in Seq(S), NEW x \in S
  PROVE  /\ Append(s, x) \in Seq(S) /\ Len(Append(s, x)) = Len(s) + 1
         /\ \A i \in 1..Len(s) : Append(s, x)[i] = s[i]
         /\ Append(s, x)[Len(s) + 1] = x
         /\ ToSet(Append(s, x)) = ToSet(s) \cup {x}
<1>1. /\ Append(s, x) \in Seq(S) /\ Len(Append(s, x)) = Len(s) + 1
      /\ \A i \in 1..Len(s) : Append(s, x)[i] = s[i]
      /\ Append(s, x)[Len(s) + 1] = x
  OBVIOUS
<1>2. ASSUME NEW y \in ToSet(Append(s, x)) PROVE y \in ToSet(s) \cup {x}
  <2>1. PICK i \in 1..(Len(s) + 1) : y = Append(s, x)[i]
    BY <1>2 DEF ToSet
  <2> QED
    BY <1>1, <2>1 DEF ToSet
<1>3. ASSUME NEW y \in ToSet(s) PROVE y \in ToSet(Append(s, x))
  <2>1. PICK i \in 1..Len(s) : y = s[i]
    BY <1>3 DEF ToSet
  <2>2. i \in DOMAIN Append(s, x) /\ Append(s, x)[i] = y
    BY <1>1, <2>1
  <2> QED
    BY <2>2 DEF ToSet
<1>4. x \in ToSet(Append(s, x))
  <2>1. Len(s) + 1 \in DOMAIN Append(s, x)
    BY <1>1
  <2> QED
    BY <1>1, <2>1 DEF ToSet
<1> QED
  BY <1>1, <1>2, <1>3, <1>4

(* The elements of a sequence, and where they are.                         *)
LEMMA ToSetFacts ==
  ASSUME NEW S, NEW s \in Seq(S)
  PROVE  /\ ToSet(s) = {s[i] : i \in 1..Len(s)} /\ ToSet(s) \subseteq S
         /\ \A x : x \in ToSet(s) <=> \E i \in 1..Len(s) : s[i] = x
         /\ IsFiniteSet(ToSet(s)) /\ (ToSet(s) = {} <=> s = <<>>)
<1>1. /\ ToSet(s) = {s[i] : i \in 1..Len(s)} /\ ToSet(s) \subseteq S
      /\ \A x : x \in ToSet(s) <=> \E i \in 1..Len(s) : s[i] = x
  BY DEF ToSet
<1>2. IsFiniteSet(ToSet(s))
  <2>1. IsFiniteSet(1..Len(s)) /\ DOMAIN s = 1..Len(s)
    BY FS_Interval
  <2> QED
    BY <1>1, <2>1, ImagesAreFinite
<1>3. ToSet(s) = {} <=> s = <<>>
  BY DEF ToSet
<1> QED
  BY <1>1, <1>2, <1>3

Distinct(s) == \A i, j \in 1..Len(s) : s[i] = s[j] => i = j

(* Where each element of Only(s, set) comes from.                          *)
IsSelection(s, set, t, f) ==
  /\ f \in [1..Len(t) -> 1..Len(s)]
  /\ \A i \in 1..Len(t) : t[i] = s[f[i]] /\ s[f[i]] \in set
  /\ \A i, j \in 1..Len(t) : i < j => f[i] < f[j]
  /\ \A j \in 1..Len(s) : s[j] \in set => \E i \in 1..Len(t) : f[i] = j

SelectionUpTo(s, set, n, only) ==
  only = [i \in 0..n |-> IF i = 0 THEN <<>>
                         ELSE IF s[i] \in set THEN Append(only[i - 1], s[i]) ELSE only[i - 1]]

(* The loop of Selected() defines a function.                              *)
LEMMA SelectionDefined ==
  ASSUME NEW s, NEW set, NEW n \in Nat
  PROVE  \E only : SelectionUpTo(s, set, n, only)
<1> DEFINE S == {m \in Nat : \E only : SelectionUpTo(s, set, m, only)}
<1>1. 0 \in S
  <2>1. SelectionUpTo(s, set, 0, [i \in 0..0 |-> <<>>])
    BY DEF SelectionUpTo
  <2> QED
    BY <2>1
<1>2. ASSUME NEW m \in Nat, m \in S PROVE m + 1 \in S
  <2>1. PICK only : SelectionUpTo(s, set, m, only)
    BY <1>2
  <2> DEFINE x == IF s[m + 1] \in set THEN Append(only[m], s[m + 1]) ELSE only[m]
             new == [i \in 0..(m + 1) |-> IF i = m + 1 THEN x ELSE only[i]]
  <2>2. SelectionUpTo(s, set, m + 1, new)
    <3>1. \A i \in 0..m : only[i] = IF i = 0 THEN <<>> ELSE IF s[i] \in set THEN Append(only[i - 1], s[i]) ELSE only[i - 1]
      BY <2>1 DEF SelectionUpTo
    <3>2. \A i \in 0..m : new[i] = only[i]
      OBVIOUS
    <3>3. new[m + 1] = x
      OBVIOUS
    <3>4. \A i \in 0..(m + 1) : new[i] = IF i = 0 THEN <<>> ELSE IF s[i] \in set THEN Append(new[i - 1], s[i]) ELSE new[i - 1]
      BY <3>1, <3>2, <3>3
    <3>5. new = [i \in 0..(m + 1) |-> new[i]]
      OBVIOUS
    <3> HIDE DEF new
    <3> QED
      BY <3>4, <3>5 DEF SelectionUpTo
  <2> QED
    BY <2>2
<1> HIDE DEF S
<1>3. Nat \subseteq S
  BY <1>1, <1>2, SetInduction
<1> QED
  BY <1>3 DEF S

(* Only() is what that loop ends with.                                     *)
LEMMA SelectionIsOnly ==
  ASSUME NEW S, NEW s \in Seq(S), NEW set
  PROVE  \E only : SelectionUpTo(s, set, Len(s), only) /\ Only(s, set) = only[Len(s)]
<1> DEFINE only == CHOOSE f : f = [i \in 0..Len(s) |->
             IF i = 0 THEN <<>>
             ELSE IF s[i] \in set THEN Append(f[i - 1], s[i]) ELSE f[i - 1]]
<1>1. SelectionUpTo(s, set, Len(s), only)
  <2>1. \E f : SelectionUpTo(s, set, Len(s), f)
    <3>1. Len(s) \in Nat
      OBVIOUS
    <3> QED
      BY <3>1, SelectionDefined
  <2> QED
    BY <2>1, Zenon DEF SelectionUpTo
<1>2. Selected(s, set) = only[Len(s)]
  BY Zenon DEF Selected
<1>3. {Selected(t, kept) : t \in {s}, kept \in {set}} = {Selected(s, set)}
  OBVIOUS
<1>4. Only(s, set) = Selected(s, set)
  <2>1. The({Selected(s, set)}) = Selected(s, set)
    BY TheOfOne
  <2> QED
    BY <1>3, <2>1 DEF Only
<1> HIDE DEF only
<1> QED
  BY <1>1, <1>2, <1>4

SelectedSoFar(s, set, i, t, f) ==
  /\ f \in [1..Len(t) -> 1..i]
  /\ \A a \in 1..Len(t) : t[a] = s[f[a]] /\ s[f[a]] \in set
  /\ \A a, b \in 1..Len(t) : a < b => f[a] < f[b]
  /\ \A j \in 1..i : s[j] \in set => \E a \in 1..Len(t) : f[a] = j

(* Only() takes each element of the set from its own place, in order.      *)
LEMMA OnlySelects ==
  ASSUME NEW S, NEW s \in Seq(S), NEW set
  PROVE  Only(s, set) \in Seq(S) /\ \E f : IsSelection(s, set, Only(s, set), f)
<1>1. PICK only : SelectionUpTo(s, set, Len(s), only) /\ Only(s, set) = only[Len(s)]
  BY SelectionIsOnly
<1>2. only[0] = <<>>
  BY <1>1 DEF SelectionUpTo
<1>3. \A i \in 1..Len(s) : only[i] = IF s[i] \in set THEN Append(only[i - 1], s[i]) ELSE only[i - 1]
  <2> SUFFICES ASSUME NEW i \in 1..Len(s)
               PROVE only[i] = IF s[i] \in set THEN Append(only[i - 1], s[i]) ELSE only[i - 1]
    OBVIOUS
  <2>1. i \in 0..Len(s) /\ i # 0
    OBVIOUS
  <2> QED
    BY <1>1, <2>1, Zenon DEF SelectionUpTo
<1> DEFINE Good == {i \in Nat : i <= Len(s) =>
                      only[i] \in Seq(S) /\ \E f : SelectedSoFar(s, set, i, only[i], f)}
<1>4. 0 \in Good
  <2>1. SelectedSoFar(s, set, 0, only[0], <<>>) /\ only[0] \in Seq(S)
    BY <1>2 DEF SelectedSoFar
  <2> QED
    BY <2>1
<1>5. ASSUME NEW i \in Nat, i \in Good PROVE i + 1 \in Good
  <2> SUFFICES ASSUME i + 1 <= Len(s)
               PROVE only[i + 1] \in Seq(S) /\ \E f : SelectedSoFar(s, set, i + 1, only[i + 1], f)
    OBVIOUS
  <2>1. only[i] \in Seq(S)
    BY <1>5
  <2>2. PICK f : SelectedSoFar(s, set, i, only[i], f)
    BY <1>5
  <2>3. i + 1 \in 1..Len(s) /\ (i + 1) - 1 = i /\ s[i + 1] \in S
    OBVIOUS
  <2>4. CASE s[i + 1] \notin set
    <3>1. only[i + 1] = only[i]
      BY <1>3, <2>3, <2>4
    <3>2. SelectedSoFar(s, set, i + 1, only[i], f)
      BY <2>1, <2>2, <2>3, <2>4 DEF SelectedSoFar
    <3> QED
      BY <2>1, <3>1, <3>2
  <2>5. CASE s[i + 1] \in set
    <3> DEFINE t == only[i]
               u == only[i + 1]
               g == [a \in 1..(Len(t) + 1) |-> IF a = Len(t) + 1 THEN i + 1 ELSE f[a]]
    <3>1. u = Append(t, s[i + 1])
      BY <1>3, <2>3, <2>5
    <3>2. /\ u \in Seq(S) /\ Len(u) = Len(t) + 1 /\ u[Len(t) + 1] = s[i + 1]
          /\ \A a \in 1..Len(t) : u[a] = t[a]
      BY <2>1, <2>3, <3>1, AppendFacts
    <3>3. Len(t) \in Nat
      BY <2>1
    <3>4. g[Len(t) + 1] = i + 1 /\ \A a \in 1..Len(t) : g[a] = f[a]
      BY <3>3
    <3>5. DOMAIN g = 1..Len(u) /\ g = [a \in 1..Len(u) |-> g[a]]
      BY <3>2
    <3> HIDE DEF t, u, g
    <3>6. /\ \A a \in 1..Len(t) : f[a] \in 1..i /\ t[a] = s[f[a]] /\ s[f[a]] \in set
          /\ \A a, b \in 1..Len(t) : a < b => f[a] < f[b]
          /\ \A j \in 1..i : s[j] \in set => \E a \in 1..Len(t) : f[a] = j
      BY <2>2 DEF SelectedSoFar, t
    <3> \A a \in 1..Len(u) : a = Len(t) + 1 \/ a \in 1..Len(t)
      BY <3>2, <3>3
    <3>7. \A a \in 1..Len(u) : g[a] \in 1..(i + 1) /\ u[a] = s[g[a]] /\ s[g[a]] \in set
      <4> SUFFICES ASSUME NEW a \in 1..Len(u) PROVE g[a] \in 1..(i + 1) /\ u[a] = s[g[a]] /\ s[g[a]] \in set
        OBVIOUS
      <4>1. CASE a = Len(t) + 1
        <5>1. g[a] = i + 1 /\ u[a] = s[i + 1]
          BY <3>2, <3>4, <4>1
        <5> QED
          BY <2>5, <5>1
      <4>2. CASE a \in 1..Len(t)
        <5>1. g[a] = f[a] /\ u[a] = t[a]
          BY <3>2, <3>4, <4>2
        <5>2. f[a] \in 1..i /\ t[a] = s[f[a]] /\ s[f[a]] \in set
          BY <3>6, <4>2
        <5> QED
          BY <5>1, <5>2
      <4> QED
        BY <4>1, <4>2
    <3>8. \A a, b \in 1..Len(u) : a < b => g[a] < g[b]
      <4> SUFFICES ASSUME NEW a \in 1..Len(u), NEW b \in 1..Len(u), a < b PROVE g[a] < g[b]
        OBVIOUS
      <4>1. a \in 1..Len(t) /\ g[a] = f[a] /\ f[a] \in 1..i
        BY <3>2, <3>3, <3>4, <3>6
      <4>2. CASE b = Len(t) + 1
        BY <3>4, <4>1, <4>2
      <4>3. CASE b \in 1..Len(t)
        BY <3>4, <3>6, <4>1, <4>3
      <4> QED
        BY <4>2, <4>3
    <3>9. \A j \in 1..(i + 1) : s[j] \in set => \E a \in 1..Len(u) : g[a] = j
      <4> SUFFICES ASSUME NEW j \in 1..(i + 1), s[j] \in set PROVE \E a \in 1..Len(u) : g[a] = j
        OBVIOUS
      <4>1. CASE j = i + 1
        BY <3>2, <3>3, <3>4, <4>1
      <4>2. CASE j \in 1..i
        <5>1. PICK a \in 1..Len(t) : f[a] = j
          BY <3>6, <4>2
        <5>2. a \in 1..Len(u) /\ g[a] = j
          BY <3>2, <3>3, <3>4, <5>1
        <5> QED
          BY <5>2
      <4> QED
        BY <4>1, <4>2
    <3>10. SelectedSoFar(s, set, i + 1, u, g)
      BY <3>5, <3>7, <3>8, <3>9 DEF SelectedSoFar
    <3> QED
      BY <3>2, <3>10 DEF u
  <2> QED
    BY <2>4, <2>5
<1>6. Len(s) \in Good
  <2> HIDE DEF Good
  <2> QED
    BY <1>4, <1>5, SetInduction
<1>7. Only(s, set) \in Seq(S) /\ \E f : SelectedSoFar(s, set, Len(s), Only(s, set), f)
  BY <1>1, <1>6
<1> QED
  BY <1>7 DEF SelectedSoFar, IsSelection

(* What follows: the elements are those of the set, each as often as in    *)
(* the sequence, and a beginning that is kept stays where it is.           *)
LEMMA OnlyFacts ==
  ASSUME NEW S, NEW s \in Seq(S), NEW set
  PROVE  /\ Only(s, set) \in Seq(S) /\ Len(Only(s, set)) <= Len(s)
         /\ \A x : x \in ToSet(Only(s, set)) <=> x \in ToSet(s) /\ x \in set
         /\ Distinct(s) => Distinct(Only(s, set))
<1> DEFINE t == Only(s, set)
<1>1. t \in Seq(S)
  BY OnlySelects
<1>2. PICK f : IsSelection(s, set, t, f)
  BY OnlySelects
<1> HIDE DEF t
<1>3. /\ \A i \in 1..Len(t) : f[i] \in 1..Len(s) /\ t[i] = s[f[i]] /\ s[f[i]] \in set
      /\ \A i, j \in 1..Len(t) : i < j => f[i] < f[j]
      /\ \A j \in 1..Len(s) : s[j] \in set => \E i \in 1..Len(t) : f[i] = j
      /\ f \in [1..Len(t) -> 1..Len(s)]
  BY <1>2 DEF IsSelection
<1>4. Len(t) <= Len(s)
  <2>1. f \in Injection(1..Len(t), 1..Len(s))
    BY <1>1, <1>3 DEF Injection, IsInjective
  <2>2. Len(s) \in Nat /\ Len(t) \in Nat
    BY <1>1
  <2>3. IsFiniteSet(1..Len(s)) /\ Cardinality(1..Len(s)) = Len(s) /\ Cardinality(1..Len(t)) = Len(t)
    BY <2>2, CardinalityOfInterval
  <2> QED
    BY <2>1, <2>3, FS_Injection
<1>5. \A x : x \in ToSet(t) <=> x \in ToSet(s) /\ x \in set
  <2> SUFFICES ASSUME NEW x PROVE x \in ToSet(t) <=> x \in ToSet(s) /\ x \in set
    OBVIOUS
  <2>1. x \in ToSet(t) <=> \E i \in 1..Len(t) : t[i] = x
    BY <1>1, ToSetFacts
  <2>2. x \in ToSet(s) <=> \E i \in 1..Len(s) : s[i] = x
    BY ToSetFacts
  <2> QED
    BY <1>3, <2>1, <2>2, SMTT(20)
<1>6. Distinct(s) => Distinct(t)
  BY <1>1, <1>3 DEF Distinct
<1> QED
  BY <1>1, <1>4, <1>5, <1>6 DEF t

(* Two literals in front that are kept, as the watched ones, stay there.   *)
LEMMA OnlyKeepsTheBeginning ==
  ASSUME NEW S, NEW s \in Seq(S), NEW set, Len(s) >= 2, s[1] \in set, s[2] \in set
  PROVE  Len(Only(s, set)) >= 2 /\ Only(s, set)[1] = s[1] /\ Only(s, set)[2] = s[2]
<1> DEFINE t == Only(s, set)
<1>1. t \in Seq(S)
  BY OnlySelects
<1>2. PICK f : IsSelection(s, set, t, f)
  BY OnlySelects
<1> HIDE DEF t
<1>3. /\ \A i \in 1..Len(t) : f[i] \in 1..Len(s) /\ t[i] = s[f[i]]
      /\ \A i, j \in 1..Len(t) : i < j => f[i] < f[j]
      /\ \A j \in 1..Len(s) : s[j] \in set => \E i \in 1..Len(t) : f[i] = j
  BY <1>2 DEF IsSelection
<1>4. PICK a \in 1..Len(t) : f[a] = 1
  BY <1>3
<1>5. PICK b \in 1..Len(t) : f[b] = 2
  BY <1>3
<1>6. Len(t) \in Nat /\ 1 \in 1..Len(t) /\ f[1] >= 1
  BY <1>1, <1>3, <1>4
<1>7. a = 1
  BY <1>3, <1>4, <1>6
<1>8. b >= 2 /\ 2 \in 1..Len(t)
  BY <1>4, <1>5, <1>6, <1>7
<1>9. f[1] < f[2]
  BY <1>3, <1>6, <1>8
<1>10. f[2] \in Int /\ f[2] >= 2
  BY <1>3, <1>4, <1>7, <1>8, <1>9
<1>11. ~(b > 2)
  BY <1>3, <1>5, <1>8, <1>10
<1> QED
  BY <1>3, <1>4, <1>5, <1>6, <1>7, <1>8, <1>11 DEF t

(* The literals of a clause in the order of their indices.                 *)
InIndexOrder(s, c) ==
  s \in [1..Cardinality(c) -> c] /\ \A i, j \in DOMAIN s : i < j => Index(s[i]) < Index(s[j])

(* A set of literals can be put in the order of their indices.             *)
LEMMA SortedExists ==
  ASSUME NEW c, c \subseteq Literals
  PROVE  \E s : InIndexOrder(s, c)
<1> DEFINE R == StrictSubsetOrdering(Literals)
           T == {A \in SUBSET Literals : ~ \E s : InIndexOrder(s, A)}
<1> SUFFICES ASSUME T # {} PROVE FALSE
  OBVIOUS
<1>1. PICK A \in T : \A B \in T : ~ (<<B, A>> \in R)
  <2>1. FiniteSubsetsOf(Literals) = SUBSET Literals
    BY LiteralsAreFinite, FS_FiniteSubsetsOfFinite
  <2>2. IsWellFoundedOn(R, SUBSET Literals)
    BY <2>1, FS_StrictSubsetOrderingWellFounded
  <2>3. T \subseteq SUBSET Literals
    OBVIOUS
  <2> HIDE DEF T, R
  <2> QED
    BY <2>2, <2>3, WFMin
<1>2. A \subseteq Literals /\ (~ \E s : InIndexOrder(s, A)) /\ IsFiniteSet(A)
  BY <1>1, LiteralsAreFinite, FS_Subset
<1>3. A # {}
  <2> SUFFICES ASSUME A = {} PROVE FALSE
    OBVIOUS
  <2>1. Cardinality(A) = 0
    BY FS_EmptySet
  <2>2. InIndexOrder(<<>>, A)
    BY <2>1 DEF InIndexOrder
  <2> QED
    BY <1>2, <2>2
<1> DEFINE g == [l \in A |-> Index(l)]
           G == {g[l] : l \in A}
<1>4. PICK x \in A : \A y \in A : Index(y) <= Index(x)
  <2>1. IsFiniteSet(G)
    <3>1. DOMAIN g = A
      OBVIOUS
    <3> HIDE DEF g
    <3> QED
      BY <1>2, <3>1, ImagesAreFinite
  <2>2. G \in SUBSET Int /\ G # {} /\ \A l \in A : Index(l) \in G
    BY <1>2, <1>3, IndexFacts
  <2>3. PICK m \in G : \A n \in G : m >= n
    <3> HIDE DEF G
    <3> QED
      BY <2>1, <2>2, FiniteSetHasGreatest
  <2>4. PICK z \in A : m = Index(z)
    BY <2>3
  <2> QED
    BY <2>2, <2>3, <2>4
<1> DEFINE B == A \ {x}
<1>5. Cardinality(A) = Cardinality(B) + 1 /\ Cardinality(B) \in Nat
  <2>1. IsFiniteSet(B) /\ Cardinality(B) = Cardinality(A) - 1
    BY <1>2, <1>4, FS_RemoveElement
  <2> QED
    BY <1>2, <2>1, FS_CardinalityType
<1>6. B \notin T
  <2>1. <<B, A>> \in R
    BY <1>2, <1>4 DEF StrictSubsetOrdering
  <2> QED
    BY <1>1, <2>1
<1>7. PICK s : InIndexOrder(s, B)
  BY <1>2, <1>6
<1> DEFINE n == Cardinality(B)
           t == [i \in 1..(n + 1) |-> IF i = n + 1 THEN x ELSE s[i]]
<1>8. InIndexOrder(t, A)
  <2> HIDE DEF n
  <2>1. s \in [1..n -> B] /\ \A i, j \in 1..n : i < j => Index(s[i]) < Index(s[j])
    BY <1>7 DEF InIndexOrder, n
  <2>3. n \in Nat /\ n + 1 = Cardinality(A)
    BY <1>5 DEF n
  <2>2. t \in [1..(n + 1) -> A]
    BY <1>4, <2>1, <2>3
  <2>4. t[n + 1] = x /\ \A i \in 1..n : t[i] = s[i]
    BY <2>3
  <2> HIDE DEF t
  <2>5. \A i \in 1..n : Index(s[i]) \in Nat /\ Index(s[i]) < Index(x) /\ Index(x) \in Nat
    BY <1>2, <1>4, <2>1, IndexFacts
  <2>6. \A i, j \in 1..(n + 1) : i < j => Index(t[i]) < Index(t[j])
    <3> SUFFICES ASSUME NEW i \in 1..(n + 1), NEW j \in 1..(n + 1), i < j
                 PROVE Index(t[i]) < Index(t[j])
      OBVIOUS
    <3>1. i \in 1..n /\ (j = n + 1 \/ j \in 1..n)
      BY <2>3
    <3> QED
      BY <2>1, <2>4, <2>5, <3>1
  <2> QED
    BY <2>2, <2>3, <2>6 DEF InIndexOrder
<1> QED
  BY <1>2, <1>8

(* Sorted() has the literals of the clause, each once.                     *)
LEMMA SortedFacts ==
  ASSUME NEW c, c \subseteq Literals
  PROVE  /\ Sorted(c) \in Seq(Literals) /\ Len(Sorted(c)) = Cardinality(c)
         /\ ToSet(Sorted(c)) = c /\ Distinct(Sorted(c))
<1> DEFINE s == Sorted(c)
           n == Cardinality(c)
<1>1. InIndexOrder(s, c)
  <2>1. \E t \in [1..Cardinality(c) -> c] : \A i, j \in DOMAIN t : i < j => Index(t[i]) < Index(t[j])
    BY SortedExists DEF InIndexOrder
  <2> QED
    BY <2>1, Zenon DEF Sorted, InIndexOrder
<1>2. IsFiniteSet(c) /\ n \in Nat
  BY LiteralsAreFinite, FS_Subset, FS_CardinalityType
<1> HIDE DEF s, n
<1>3. s \in [1..n -> c] /\ \A i, j \in 1..n : i < j => Index(s[i]) < Index(s[j])
  BY <1>1 DEF InIndexOrder, n
<1>4. s \in Seq(Literals) /\ Len(s) = n /\ DOMAIN s = 1..n
  BY <1>2, <1>3
<1>5. Distinct(s)
  <2> SUFFICES ASSUME NEW i \in 1..n, NEW j \in 1..n, s[i] = s[j], i # j PROVE FALSE
    BY <1>4 DEF Distinct
  <2>1. Index(s[i]) \in Nat /\ Index(s[i]) = Index(s[j])
    BY <1>3, IndexFacts
  <2>2. i < j \/ j < i
    OBVIOUS
  <2> QED
    BY <1>3, <2>1, <2>2
<1>6. ToSet(s) = c
  <2>1. s \in Injection(1..n, c)
    BY <1>3, <1>4, <1>5 DEF Injection, IsInjective, Distinct
  <2>2. Cardinality(1..n) = n
    BY <1>2, CardinalityOfInterval
  <2>3. s \in Surjection(1..n, c)
    BY <1>2, <2>1, <2>2, FS_Injection DEF n
  <2> QED
    BY <1>4, <2>3 DEF Surjection, ToSet
<1> QED
  BY <1>4, <1>5, <1>6 DEF s, n
-----------------------------------------------------------------------------
(* The trail: each variable once, in the order of the levels, and a level  *)
(* is at most the number of the decisions so far.                          *)
Entries == [literal : Literals, level : Nat, type : {"DECISION", "UNIT", "BINARY", "CLAUSE"}, by : Int]

TrailOK(t) ==
  /\ \A i, j \in 1..Len(t) : i # j => VariableOf(t[i].literal) # VariableOf(t[j].literal)
  /\ \A i, j \in 1..Len(t) : i <= j => t[i].level <= t[j].level
  /\ \A i \in 1..Len(t) : t[i].level <= i

IsTrail(t) == t \in Seq(Entries) /\ TrailOK(t)

(* Types of the entries of a trail.                                        *)
LEMMA TrailEntries ==
  ASSUME NEW t, IsTrail(t)
  PROVE  /\ Len(t) \in Nat
         /\ \A i \in 1..Len(t) :
              /\ t[i] \in Entries /\ t[i].literal \in Literals /\ -t[i].literal \in Literals
              /\ t[i].level \in Nat /\ t[i].by \in Int
<1>1. t \in Seq(Entries) /\ Len(t) \in Nat
  BY DEF IsTrail
<1>2. \A i \in 1..Len(t) : t[i] \in Entries
  BY <1>1
<1>3. \A e \in Entries : e.literal \in Literals /\ e.level \in Nat /\ e.by \in Int
  BY DEF Entries
<1> QED
  BY <1>1, <1>2, <1>3, LiteralFacts

(* TrailIndex() and LevelOf() find the only entry of a variable.           *)
LEMMA TrailFacts ==
  ASSUME NEW t, IsTrail(t)
  PROVE  /\ \A i \in 1..Len(t), l \in Literals : t[i].literal \in {l, -l} =>
              TrailIndex(t, l) = i /\ LevelOf(t, l) = t[i].level /\ IsAssigned(t, l)
         /\ \A l \in Literals : IsAssigned(t, l) =>
              /\ TrailIndex(t, l) \in 1..Len(t) /\ t[TrailIndex(t, l)].literal \in {l, -l}
              /\ LevelOf(t, l) \in Nat /\ LevelOf(t, l) = t[TrailIndex(t, l)].level
         /\ \A l \in Literals : IsTrue(t, l) => ~IsFalse(t, l)
         /\ \A l \in Literals : TrailIndex(t, -l) = TrailIndex(t, l) /\ LevelOf(t, -l) = LevelOf(t, l)
         /\ \A l \in Literals : IsFalse(t, -l) = IsTrue(t, l) /\ IsAssigned(t, -l) = IsAssigned(t, l)
<1>1. \A i \in 1..Len(t) : t[i].literal \in Literals /\ t[i].level \in Nat
  BY TrailEntries
<1>2. \A i, j \in 1..Len(t) : VariableOf(t[i].literal) = VariableOf(t[j].literal) => i = j
  BY DEF IsTrail, TrailOK
<1>3. ASSUME NEW i \in 1..Len(t), NEW l \in Literals, t[i].literal \in {l, -l}
      PROVE TrailIndex(t, l) = i /\ LevelOf(t, l) = t[i].level /\ IsAssigned(t, l)
  <2>1. VariableOf(t[i].literal) = VariableOf(l)
    BY <1>3, LiteralFacts
  <2>2. TrailIndex(t, l) = i
    BY <1>2, <2>1 DEF TrailIndex
  <2>3. IsAssigned(t, l)
    BY <1>3 DEF IsAssigned, IsFalse, IsTrue
  <2> QED
    BY <2>2, <2>3 DEF LevelOf
<1>4. ASSUME NEW l \in Literals, IsAssigned(t, l)
      PROVE /\ TrailIndex(t, l) \in 1..Len(t) /\ t[TrailIndex(t, l)].literal \in {l, -l}
            /\ LevelOf(t, l) \in Nat /\ LevelOf(t, l) = t[TrailIndex(t, l)].level
  <2>1. PICK i \in 1..Len(t) : t[i].literal \in {l, -l}
    BY <1>4 DEF IsAssigned, IsFalse, IsTrue
  <2> QED
    BY <1>1, <1>3, <2>1
<1>5. ASSUME NEW l \in Literals, IsTrue(t, l), IsFalse(t, l) PROVE FALSE
  <2>1. PICK i \in 1..Len(t) : t[i].literal = l
    BY <1>5 DEF IsTrue
  <2>2. PICK j \in 1..Len(t) : t[j].literal = -l
    BY <1>5 DEF IsTrue, IsFalse
  <2>3. i = j
    BY <1>2, <2>1, <2>2, LiteralFacts
  <2> QED
    BY <2>1, <2>2, <2>3, LiteralFacts
<1>6. \A l \in Literals : TrailIndex(t, -l) = TrailIndex(t, l) /\ LevelOf(t, -l) = LevelOf(t, l)
  <2> SUFFICES ASSUME NEW l \in Literals
               PROVE TrailIndex(t, -l) = TrailIndex(t, l) /\ LevelOf(t, -l) = LevelOf(t, l)
    OBVIOUS
  <2>1. VariableOf(-l) = VariableOf(l)
    BY LiteralFacts
  <2>2. TrailIndex(t, -l) = TrailIndex(t, l)
    BY <2>1 DEF TrailIndex
  <2> QED
    BY <2>2 DEF LevelOf
<1>7. \A l \in Literals : IsFalse(t, -l) = IsTrue(t, l) /\ IsAssigned(t, -l) = IsAssigned(t, l)
  <2> SUFFICES ASSUME NEW l \in Literals
               PROVE IsFalse(t, -l) = IsTrue(t, l) /\ IsAssigned(t, -l) = IsAssigned(t, l)
    OBVIOUS
  <2>1. -(-l) = l
    BY LiteralFacts
  <2>2. IsFalse(t, -l) = IsTrue(t, l)
    BY <2>1 DEF IsFalse
  <2>3. IsTrue(t, -l) = IsFalse(t, l)
    BY DEF IsFalse
  <2> QED
    BY <2>2, <2>3 DEF IsAssigned
<1> QED
  BY <1>3, <1>4, <1>5, <1>6, <1>7

(* A trail is no longer than there are variables, and no level higher.     *)
LEMMA TrailIsBounded ==
  ASSUME NEW t, IsTrail(t)
  PROVE  Len(t) <= Cardinality(Variables) /\ \A i \in 1..Len(t) : t[i].level <= Cardinality(Variables)
<1> DEFINE f == [i \in 1..Len(t) |-> VariableOf(t[i].literal)]
<1>1. f \in Injection(1..Len(t), Variables)
  <2>1. \A i \in 1..Len(t) : VariableOf(t[i].literal) \in Variables
    BY TrailEntries, LiteralFacts
  <2>2. \A i, j \in 1..Len(t) : VariableOf(t[i].literal) = VariableOf(t[j].literal) => i = j
    BY DEF IsTrail, TrailOK
  <2> QED
    BY <2>1, <2>2 DEF Injection, IsInjective
<1>2. Len(t) \in Nat /\ Cardinality(1..Len(t)) = Len(t)
  BY TrailEntries, CardinalityOfInterval
<1> HIDE DEF f
<1>3. Len(t) <= Cardinality(Variables)
  BY <1>1, <1>2, LiteralsAreFinite, FS_Injection
<1>4. \A i \in 1..Len(t) : t[i].level \in Nat /\ t[i].level <= i
  BY TrailEntries DEF IsTrail, TrailOK
<1> QED
  BY <1>2, <1>3, <1>4, LiteralsAreFinite

(* The current level is the highest one of the trail.                      *)
LEMMA CurrentLevelFacts ==
  ASSUME NEW t, IsTrail(t)
  PROVE  /\ CurrentLevel(t) \in Nat /\ CurrentLevel(t) <= Len(t)
         /\ \A i \in 1..Len(t) : t[i].level <= CurrentLevel(t)
         /\ t = <<>> => CurrentLevel(t) = 0
         /\ t # <<>> => Len(t) \in 1..Len(t) /\ CurrentLevel(t) = t[Len(t)].level
<1>1. Len(t) \in Nat /\ \A i \in 1..Len(t) : t[i].level \in Nat /\ t[i].level <= i
  BY TrailEntries DEF IsTrail, TrailOK
<1>2. CASE t = <<>>
  BY <1>2 DEF CurrentLevel
<1>3. CASE t # <<>>
  <2>1. Len(t) \in 1..Len(t)
    BY <1>3 DEF IsTrail
  <2>2. CurrentLevel(t) = t[Len(t)].level
    BY <1>3 DEF CurrentLevel, Last
  <2>3. \A i \in 1..Len(t) : t[i].level <= t[Len(t)].level
    BY <2>1 DEF IsTrail, TrailOK
  <2> QED
    BY <1>1, <1>3, <2>1, <2>2, <2>3
<1> QED
  BY <1>2, <1>3

(* A trail that another one begins with.                                   *)
Begins(p, t) == Len(p) \in 0..Len(t) /\ \A i \in 1..Len(p) : p[i] = t[i]

(* What a trail assigns it assigns at the same place when it goes on.      *)
LEMMA BeginningFacts ==
  ASSUME NEW t, IsTrail(t), NEW p, IsTrail(p), Begins(p, t)
  PROVE  /\ \A l \in Literals : IsTrue(p, l) => IsTrue(t, l)
         /\ \A l \in Literals : IsFalse(p, l) => IsFalse(t, l)
         /\ \A l \in Literals : IsAssigned(p, l) =>
              /\ IsAssigned(t, l) /\ TrailIndex(t, l) = TrailIndex(p, l) /\ LevelOf(t, l) = LevelOf(p, l)
              /\ IsTrue(p, l) = IsTrue(t, l) /\ IsFalse(p, l) = IsFalse(t, l)
         /\ \A l \in Literals : IsAssigned(t, l) /\ TrailIndex(t, l) <= Len(p) => IsAssigned(p, l)
<1>1. \A i \in 1..Len(p) : i \in 1..Len(t) /\ p[i] = t[i]
  BY TrailEntries DEF Begins
<1>2. \A l \in Literals : IsTrue(p, l) => IsTrue(t, l)
  BY <1>1 DEF IsTrue
<1>3. \A l \in Literals : IsFalse(p, l) => IsFalse(t, l)
  BY <1>2, LiteralFacts DEF IsFalse
<1>4. ASSUME NEW l \in Literals, IsAssigned(p, l)
      PROVE /\ IsAssigned(t, l) /\ TrailIndex(t, l) = TrailIndex(p, l) /\ LevelOf(t, l) = LevelOf(p, l)
            /\ IsTrue(p, l) = IsTrue(t, l) /\ IsFalse(p, l) = IsFalse(t, l)
  <2>1. PICK i \in 1..Len(p) : p[i].literal \in {l, -l}
    BY <1>4 DEF IsAssigned, IsFalse, IsTrue
  <2>2. i \in 1..Len(t) /\ t[i] = p[i]
    BY <1>1
  <2>3. TrailIndex(p, l) = i /\ LevelOf(p, l) = p[i].level
    BY <2>1, TrailFacts
  <2>4. TrailIndex(t, l) = i /\ LevelOf(t, l) = p[i].level /\ IsAssigned(t, l)
    BY <2>1, <2>2, TrailFacts
  <2>5. (IsTrue(p, l) \/ IsFalse(p, l)) /\ ~(IsTrue(t, l) /\ IsFalse(t, l))
    BY <1>4, TrailFacts DEF IsAssigned
  <2>6. (IsTrue(p, l) => IsTrue(t, l)) /\ (IsFalse(p, l) => IsFalse(t, l))
    BY <1>2, <1>3
  <2>7. \A m \in Literals : IsTrue(p, m) \in BOOLEAN /\ IsTrue(t, m) \in BOOLEAN /\ IsFalse(p, m) \in BOOLEAN /\ IsFalse(t, m) \in BOOLEAN
    BY DEF IsTrue, IsFalse
  <2> QED
    BY <2>3, <2>4, <2>5, <2>6, <2>7
<1>5. ASSUME NEW l \in Literals, IsAssigned(t, l), TrailIndex(t, l) <= Len(p) PROVE IsAssigned(p, l)
  <2>1. TrailIndex(t, l) \in 1..Len(t) /\ t[TrailIndex(t, l)].literal \in {l, -l}
    BY <1>5, TrailFacts
  <2>2. Len(p) \in Nat /\ TrailIndex(t, l) \in 1..Len(p)
    BY <1>5, <2>1, TrailEntries
  <2>3. p[TrailIndex(t, l)].literal \in {l, -l}
    BY <1>1, <2>1, <2>2
  <2> QED
    BY <2>2, <2>3, TrailFacts
<1> QED
  BY <1>2, <1>3, <1>4, <1>5
(* Enqueue(), of a literal that is not assigned.                           *)
LEMMA EnqueuedFacts ==
  ASSUME NEW t, IsTrail(t), NEW l \in Literals, ~IsAssigned(t, l),
         NEW level \in Nat, level >= CurrentLevel(t), level <= Len(t) + 1,
         NEW type \in {"DECISION", "UNIT", "BINARY", "CLAUSE"}, NEW by \in Int,
         NEW u, u = Enqueued(t, l, level, type, by)
  PROVE  /\ IsTrail(u) /\ Begins(t, u) /\ Len(u) = Len(t) + 1
         /\ u[Len(u)].literal = l /\ u[Len(u)].level = level
         /\ u[Len(u)].type = type /\ u[Len(u)].by = by
         /\ \A i \in 1..Len(u) : i \in 1..Len(t) \/ i = Len(u)
         /\ \A i \in 1..Len(t) : i \in 1..Len(u) /\ u[i] = t[i]
         /\ CurrentLevel(u) = level
         /\ \A m \in Literals : IsTrue(u, m) <=> IsTrue(t, m) \/ m = l
         /\ \A m \in Literals : IsFalse(u, m) <=> IsFalse(t, m) \/ m = -l
<1> DEFINE e == [literal |-> l, level |-> level, type |-> type, by |-> by]
<1>1. e \in Entries /\ u = Append(t, e) /\ t \in Seq(Entries)
  BY DEF Entries, Enqueued, IsTrail
<1>2. e.literal = l /\ e.level = level /\ e.type = type /\ e.by = by
  OBVIOUS
<1> HIDE DEF e
<1>3. /\ u \in Seq(Entries) /\ Len(u) = Len(t) + 1 /\ u[Len(u)] = e /\ Len(t) \in Nat
      /\ \A i \in 1..Len(t) : u[i] = t[i]
  BY <1>1, AppendFacts
<1>4. /\ Begins(t, u)
      /\ \A i \in 1..Len(u) : i \in 1..Len(t) \/ i = Len(u)
      /\ \A i \in 1..Len(t) : i \in 1..Len(u) /\ u[i] = t[i]
  BY <1>3 DEF Begins
<1>5. /\ \A i \in 1..Len(t) : VariableOf(t[i].literal) # VariableOf(l) /\ t[i].level <= level
      /\ \A i \in 1..Len(t) : t[i].level \in Nat /\ t[i].level <= i
  <2>1. ASSUME NEW i \in 1..Len(t) PROVE VariableOf(t[i].literal) # VariableOf(l)
    <3>1. t[i].literal \notin {l, -l} /\ t[i].literal \in Literals
      BY TrailFacts, TrailEntries
    <3> QED
      BY <3>1, LiteralFacts
  <2>2. \A i \in 1..Len(t) : t[i].level \in Nat /\ t[i].level <= i
    BY TrailEntries DEF IsTrail, TrailOK
  <2>3. \A i \in 1..Len(t) : t[i].level <= CurrentLevel(t) /\ CurrentLevel(t) \in Nat
    BY CurrentLevelFacts
  <2> QED
    BY <2>1, <2>2, <2>3
<1>6. TrailOK(u)
  <2>1. \A i, j \in 1..Len(u) : i # j => VariableOf(u[i].literal) # VariableOf(u[j].literal)
    <3> SUFFICES ASSUME NEW i \in 1..Len(u), NEW j \in 1..Len(u), i # j
                 PROVE VariableOf(u[i].literal) # VariableOf(u[j].literal)
      OBVIOUS
    <3>1. CASE i = Len(u)
      BY <1>2, <1>3, <1>4, <1>5, <3>1
    <3>2. CASE j = Len(u)
      BY <1>2, <1>3, <1>4, <1>5, <3>2
    <3>3. CASE i # Len(u) /\ j # Len(u)
      <4>1. i \in 1..Len(t) /\ j \in 1..Len(t) /\ u[i] = t[i] /\ u[j] = t[j]
        BY <1>4, <3>3
      <4> QED
        BY <4>1 DEF IsTrail, TrailOK
    <3> QED
      BY <3>1, <3>2, <3>3
  <2>2. \A i, j \in 1..Len(u) : i <= j => u[i].level <= u[j].level
    <3> SUFFICES ASSUME NEW i \in 1..Len(u), NEW j \in 1..Len(u), i <= j
                 PROVE u[i].level <= u[j].level
      OBVIOUS
    <3>1. CASE j = Len(u)
      BY <1>2, <1>3, <1>4, <1>5, <3>1
    <3>2. CASE j # Len(u)
      <4>1. i \in 1..Len(t) /\ j \in 1..Len(t) /\ u[i] = t[i] /\ u[j] = t[j]
        BY <1>3, <1>4, <3>2
      <4> QED
        BY <4>1 DEF IsTrail, TrailOK
    <3> QED
      BY <3>1, <3>2
  <2>3. \A i \in 1..Len(u) : u[i].level <= i
    BY <1>2, <1>3, <1>4, <1>5
  <2> QED
    BY <2>1, <2>2, <2>3 DEF TrailOK
<1>7. IsTrail(u)
  BY <1>3, <1>6 DEF IsTrail
<1>8. CurrentLevel(u) = level
  <2>1. u # <<>>
    BY <1>3
  <2> QED
    BY <1>2, <1>3, <1>7, <2>1, CurrentLevelFacts
<1>9. \A m \in Literals : IsTrue(u, m) <=> IsTrue(t, m) \/ m = l
  <2> SUFFICES ASSUME NEW m \in Literals PROVE IsTrue(u, m) <=> IsTrue(t, m) \/ m = l
    OBVIOUS
  <2>1. IsTrue(u, m) => IsTrue(t, m) \/ m = l
    BY <1>2, <1>3, <1>4 DEF IsTrue
  <2>2. IsTrue(t, m) => IsTrue(u, m)
    BY <1>4 DEF IsTrue
  <2>3. m = l => IsTrue(u, m)
    <3>1. Len(u) \in 1..Len(u)
      BY <1>3
    <3> QED
      BY <1>2, <1>3, <3>1 DEF IsTrue
  <2> QED
    BY <2>1, <2>2, <2>3
<1>10. \A m \in Literals : IsFalse(u, m) <=> IsFalse(t, m) \/ m = -l
  <2>1. \A m \in Literals : -m \in Literals /\ (-m = l <=> m = -l)
    BY LiteralFacts
  <2> QED
    BY <1>9, <2>1 DEF IsFalse
<1> QED
  BY <1>2, <1>3, <1>4, <1>7, <1>8, <1>9, <1>10

(* Backtrack(): what is left are the entries up to the level.              *)
LEMMA BacktrackedFacts ==
  ASSUME NEW t, IsTrail(t), NEW level \in Nat, NEW p, p = Backtracked(t, level)
  PROVE  /\ IsTrail(p) /\ Begins(p, t) /\ Len(p) <= Len(t)
         /\ \A i \in 1..Len(p) : p[i] = t[i] /\ i \in 1..Len(t) /\ p[i].level <= level
         /\ \A i \in 1..Len(t) : t[i].level <= level <=> i <= Len(p)
         /\ CurrentLevel(p) <= level
<1> DEFINE above == {i \in 1..Len(t) : t[i].level > level}
           ends == {Len(t)} \cup {i - 1 : i \in above}
           n == Min(ends)
<1>1. Len(t) \in Nat /\ t \in Seq(Entries) /\ \A i \in 1..Len(t) : t[i] \in Entries /\ t[i].level \in Nat
  BY TrailEntries DEF IsTrail
<1>2. n \in ends /\ \A y \in ends : n <= y
  <2>1. ends \subseteq 0..Len(t)
    BY <1>1
  <2>2. IsFiniteSet(ends)
    <3>1. IsFiniteSet(0..Len(t))
      BY <1>1, FS_Interval
    <3> QED
      BY <2>1, <3>1, FS_Subset
  <2>3. ends \in SUBSET Int /\ ends # {}
    BY <2>1
  <2> HIDE DEF ends
  <2> QED
    BY <2>2, <2>3, MinOfSet
<1>3. n \in 0..Len(t)
  <2>1. ends \subseteq 0..Len(t)
    BY <1>1
  <2> QED
    BY <1>2, <2>1
<1>4. \A i \in 1..Len(t) : i <= n => t[i].level <= level
  <2> SUFFICES ASSUME NEW i \in 1..Len(t), i <= n, ~(t[i].level <= level) PROVE FALSE
    OBVIOUS
  <2>1. i - 1 \in ends
    BY <1>1
  <2>2. n <= i - 1
    BY <1>2, <2>1
  <2> QED
    BY <1>3, <2>2
<1>5. \A i \in 1..Len(t) : i > n => t[i].level > level
  <2> SUFFICES ASSUME NEW i \in 1..Len(t), i > n PROVE t[i].level > level
    OBVIOUS
  <2>1. n # Len(t)
    BY <1>3
  <2>2. PICK j \in above : n = j - 1
    BY <1>2, <2>1
  <2>3. j <= i /\ t[j].level > level /\ j \in 1..Len(t)
    BY <2>2
  <2>4. t[j].level <= t[i].level
    BY <2>3 DEF IsTrail, TrailOK
  <2> QED
    BY <1>1, <2>3, <2>4
<1>6. p = SubSeq(t, 1, n)
  BY DEF Backtracked
<1> HIDE DEF n
<1>7. p \in Seq(Entries) /\ Len(p) = n /\ \A i \in 1..n : p[i] = t[i]
  BY <1>1, <1>3, <1>6
<1>8. IsTrail(p)
  <2>1. \A i \in 1..Len(p) : i \in 1..Len(t)
    BY <1>1, <1>3, <1>7
  <2> QED
    BY <1>7, <2>1 DEF IsTrail, TrailOK
<1>9. Begins(p, t)
  BY <1>3, <1>7 DEF Begins
<1>10. \A i \in 1..Len(p) : p[i] = t[i] /\ i \in 1..Len(t) /\ p[i].level <= level
  BY <1>1, <1>3, <1>4, <1>7
<1>11. \A i \in 1..Len(t) : t[i].level <= level <=> i <= Len(p)
  BY <1>1, <1>3, <1>4, <1>5, <1>7
<1>12. CurrentLevel(p) <= level
  <2>1. CASE p = <<>>
    BY <1>8, <2>1, CurrentLevelFacts
  <2>2. CASE p # <<>>
    BY <1>8, <1>10, <2>2, CurrentLevelFacts
  <2> QED
    BY <2>1, <2>2
<1> QED
  BY <1>3, <1>7, <1>8, <1>9, <1>10, <1>11, <1>12

-----------------------------------------------------------------------------
(* The loops of the solver: what their functions are.                      *)
LEMMA InspectionsLoop ==
  ASSUME NEW d, NEW list, NEW false_literal, Len(list) \in Nat
  PROVE  \E f : /\ f[0] = [clauses |-> d.clauses, watchers |-> d.watchers, trail |-> d.trail, kept |-> <<>>, conflict |-> <<>>, failing |-> 0]
                /\ \A i \in 1..Len(list) : f[i] = InspectedNext(f[i - 1], list[i], false_literal)
                /\ Inspections(d, list, false_literal) = f
<1> DEFINE Loop(n, f) ==
             f = [i \in 0..n |-> IF i = 0 THEN [clauses |-> d.clauses, watchers |-> d.watchers, trail |-> d.trail, kept |-> <<>>, conflict |-> <<>>, failing |-> 0]
                                   ELSE The({InspectedNext(before, list[i], false_literal) : before \in {f[i - 1]}})]
           S == {m \in Nat : \E f : Loop(m, f)}
<1>1. 0 \in S
  <2>1. Loop(0, [i \in 0..0 |-> [clauses |-> d.clauses, watchers |-> d.watchers, trail |-> d.trail, kept |-> <<>>, conflict |-> <<>>, failing |-> 0]])
    OBVIOUS
  <2> HIDE DEF Loop
  <2>2. \E f : Loop(0, f)
    BY <2>1
  <2> QED
    BY <2>2
<1>2. ASSUME NEW m \in Nat, m \in S PROVE m + 1 \in S
  <2> DEFINE n == m
  <2>1. PICK f : Loop(n, f)
    BY <1>2
  <2> DEFINE x == The({InspectedNext(before, list[n + 1], false_literal) : before \in {f[n]}})
             g == [i \in 0..(n + 1) |-> IF i = n + 1 THEN x ELSE f[i]]
  <2>2. \A i \in 0..n : f[i] = IF i = 0 THEN [clauses |-> d.clauses, watchers |-> d.watchers, trail |-> d.trail, kept |-> <<>>, conflict |-> <<>>, failing |-> 0]
                                 ELSE The({InspectedNext(before, list[i], false_literal) : before \in {f[i - 1]}})
    BY <2>1
  <2>3. n \in Int /\ n >= 0
    OBVIOUS
  <2>4. g[n + 1] = x /\ \A i \in 0..n : g[i] = f[i]
    BY <2>3
  <2>5. g = [i \in 0..(n + 1) |-> g[i]]
    OBVIOUS
  <2> HIDE DEF g, n, Loop
  <2>6. \A i \in 0..(n + 1) : g[i] = IF i = 0 THEN [clauses |-> d.clauses, watchers |-> d.watchers, trail |-> d.trail, kept |-> <<>>, conflict |-> <<>>, failing |-> 0]
                                       ELSE The({InspectedNext(before, list[i], false_literal) : before \in {g[i - 1]}})
    <3> SUFFICES ASSUME NEW i \in 0..(n + 1)
                 PROVE g[i] = IF i = 0 THEN [clauses |-> d.clauses, watchers |-> d.watchers, trail |-> d.trail, kept |-> <<>>, conflict |-> <<>>, failing |-> 0] ELSE The({InspectedNext(before, list[i], false_literal) : before \in {g[i - 1]}})
      OBVIOUS
    <3>1. CASE i = 0
      <4>1. i \in 0..n
        BY <2>3, <3>1
      <4>2. g[i] = f[i] /\ f[i] = [clauses |-> d.clauses, watchers |-> d.watchers, trail |-> d.trail, kept |-> <<>>, conflict |-> <<>>, failing |-> 0]
        BY <2>2, <2>4, <3>1, <4>1
      <4> QED
        BY <3>1, <4>2
    <3>2. CASE i # 0 /\ i # n + 1
      <4>1. i \in 0..n /\ i - 1 \in 0..n
        BY <2>3, <3>2
      <4>2. g[i] = f[i] /\ g[i - 1] = f[i - 1]
        BY <2>4, <4>1
      <4> QED
        BY <2>2, <3>2, <4>1, <4>2
    <3>3. CASE i # 0 /\ i = n + 1
      <4>1. i - 1 = n /\ n \in 0..n
        BY <2>3, <3>3
      <4>2. g[i] = x /\ g[i - 1] = f[n]
        BY <2>4, <3>3, <4>1
      <4> QED
        BY <3>3, <4>1, <4>2
    <3> QED
      BY <3>1, <3>2, <3>3
  <2>7. Loop(n + 1, g)
    BY <2>5, <2>6, Zenon DEF Loop
  <2>8. \E h : Loop(m + 1, h)
    <3>1. n + 1 = m + 1
      BY DEF n
    <3> QED
      BY <2>7, <3>1
  <2> QED
    BY <2>8
<1>3. \E f : Loop(Len(list), f)
  <2>1. Nat \subseteq S
    <3> HIDE DEF S
    <3> QED
      BY <1>1, <1>2, SetInduction
  <2>2. Len(list) \in Nat
    OBVIOUS
  <2> HIDE DEF Loop
  <2> QED
    BY <2>1, <2>2
<1> DEFINE chosen == CHOOSE f : Loop(Len(list), f)
<1>4. Loop(Len(list), chosen)
  <2> HIDE DEF Loop
  <2> QED
    BY <1>3
<1>5. Inspections(d, list, false_literal) = chosen
  BY Zenon DEF Inspections
<1> HIDE DEF chosen
<1>6. chosen[0] = [clauses |-> d.clauses, watchers |-> d.watchers, trail |-> d.trail, kept |-> <<>>, conflict |-> <<>>, failing |-> 0]
  BY <1>4
<1>7. ASSUME NEW i \in 1..Len(list) PROVE chosen[i] = InspectedNext(chosen[i - 1], list[i], false_literal)
  <2>1. i \in 0..Len(list) /\ i # 0
    OBVIOUS
  <2>2. chosen[i] = The({InspectedNext(before, list[i], false_literal) : before \in {chosen[i - 1]}})
    BY <1>4, <2>1
  <2>3. {InspectedNext(before, list[i], false_literal) : before \in {chosen[i - 1]}} = {InspectedNext(chosen[i - 1], list[i], false_literal)}
    OBVIOUS
  <2>4. The({InspectedNext(chosen[i - 1], list[i], false_literal)}) = InspectedNext(chosen[i - 1], list[i], false_literal)
    BY TheOfOne
  <2> QED
    BY <2>2, <2>3, <2>4
<1> QED
  BY <1>5, <1>6, <1>7

(* The loop of LastAssignedSecond().                                       *)
LEMMA SecondLoop ==
  ASSUME NEW t, NEW literals, Len(literals) \in Nat, Len(literals) >= 2
  PROVE  \E f : /\ f[2] = literals
                /\ \A i \in 3..Len(literals) : f[i] = LaterSecond(t, f[i - 1], i)
                /\ LastAssignedSecond(t, literals) = f[Len(literals)]
<1> DEFINE Loop(n, f) ==
             f = [i \in 2..n |-> IF i = 2 THEN literals
                                   ELSE The({LaterSecond(t, before, i) : before \in {f[i - 1]}})]
           S == {m \in Nat : \E f : Loop(2 + m, f)}
<1>1. 0 \in S
  <2>1. Loop(2, [i \in 2..2 |-> literals])
    OBVIOUS
  <2> HIDE DEF Loop
  <2>2. \E f : Loop(2 + 0, f)
    BY <2>1
  <2> QED
    BY <2>2
<1>2. ASSUME NEW m \in Nat, m \in S PROVE m + 1 \in S
  <2> DEFINE n == 2 + m
  <2>1. PICK f : Loop(n, f)
    BY <1>2
  <2> DEFINE x == The({LaterSecond(t, before, n + 1) : before \in {f[n]}})
             g == [i \in 2..(n + 1) |-> IF i = n + 1 THEN x ELSE f[i]]
  <2>2. \A i \in 2..n : f[i] = IF i = 2 THEN literals
                                 ELSE The({LaterSecond(t, before, i) : before \in {f[i - 1]}})
    BY <2>1
  <2>3. n \in Int /\ n >= 2
    OBVIOUS
  <2>4. g[n + 1] = x /\ \A i \in 2..n : g[i] = f[i]
    BY <2>3
  <2>5. g = [i \in 2..(n + 1) |-> g[i]]
    OBVIOUS
  <2> HIDE DEF g, n, Loop
  <2>6. \A i \in 2..(n + 1) : g[i] = IF i = 2 THEN literals
                                       ELSE The({LaterSecond(t, before, i) : before \in {g[i - 1]}})
    <3> SUFFICES ASSUME NEW i \in 2..(n + 1)
                 PROVE g[i] = IF i = 2 THEN literals ELSE The({LaterSecond(t, before, i) : before \in {g[i - 1]}})
      OBVIOUS
    <3>1. CASE i = 2
      <4>1. i \in 2..n
        BY <2>3, <3>1
      <4>2. g[i] = f[i] /\ f[i] = literals
        BY <2>2, <2>4, <3>1, <4>1
      <4> QED
        BY <3>1, <4>2
    <3>2. CASE i # 2 /\ i # n + 1
      <4>1. i \in 2..n /\ i - 1 \in 2..n
        BY <2>3, <3>2
      <4>2. g[i] = f[i] /\ g[i - 1] = f[i - 1]
        BY <2>4, <4>1
      <4> QED
        BY <2>2, <3>2, <4>1, <4>2
    <3>3. CASE i # 2 /\ i = n + 1
      <4>1. i - 1 = n /\ n \in 2..n
        BY <2>3, <3>3
      <4>2. g[i] = x /\ g[i - 1] = f[n]
        BY <2>4, <3>3, <4>1
      <4> QED
        BY <3>3, <4>1, <4>2
    <3> QED
      BY <3>1, <3>2, <3>3
  <2>7. Loop(n + 1, g)
    BY <2>5, <2>6, Zenon DEF Loop
  <2>8. \E h : Loop(2 + (m + 1), h)
    <3>1. n + 1 = 2 + (m + 1)
      BY DEF n
    <3> QED
      BY <2>7, <3>1
  <2> QED
    BY <2>8
<1>3. \E f : Loop(Len(literals), f)
  <2>1. Nat \subseteq S
    <3> HIDE DEF S
    <3> QED
      BY <1>1, <1>2, SetInduction
  <2>2. Len(literals) - 2 \in Nat /\ 2 + (Len(literals) - 2) = Len(literals)
    OBVIOUS
  <2> HIDE DEF Loop
  <2> QED
    BY <2>1, <2>2
<1> DEFINE chosen == CHOOSE f : Loop(Len(literals), f)
<1>4. Loop(Len(literals), chosen)
  <2> HIDE DEF Loop
  <2> QED
    BY <1>3
<1>5. LastAssignedSecond(t, literals) = chosen[Len(literals)]
  BY Zenon DEF LastAssignedSecond
<1> HIDE DEF chosen
<1>6. chosen[2] = literals
  BY <1>4
<1>7. ASSUME NEW i \in 3..Len(literals) PROVE chosen[i] = LaterSecond(t, chosen[i - 1], i)
  <2>1. i \in 2..Len(literals) /\ i # 2
    OBVIOUS
  <2>2. chosen[i] = The({LaterSecond(t, before, i) : before \in {chosen[i - 1]}})
    BY <1>4, <2>1
  <2>3. {LaterSecond(t, before, i) : before \in {chosen[i - 1]}} = {LaterSecond(t, chosen[i - 1], i)}
    OBVIOUS
  <2>4. The({LaterSecond(t, chosen[i - 1], i)}) = LaterSecond(t, chosen[i - 1], i)
    BY TheOfOne
  <2> QED
    BY <2>2, <2>3, <2>4
<1> QED
  BY <1>5, <1>6, <1>7

(* The loop of AllImplied().                                               *)
LEMMA ImpliedLoop ==
  ASSUME NEW r, NEW by, NEW list, Len(list) \in Nat
  PROVE  \E f : /\ f[0] = r
                /\ \A i \in 1..Len(list) : f[i] = Implied(f[i - 1], by, list[i])
                /\ AllImplied(r, by, list) = f[Len(list)]
<1> DEFINE Loop(n, f) ==
             f = [i \in 0..n |-> IF i = 0 THEN r
                                   ELSE The({Implied(before, by, list[i]) : before \in {f[i - 1]}})]
           S == {m \in Nat : \E f : Loop(m, f)}
<1>1. 0 \in S
  <2>1. Loop(0, [i \in 0..0 |-> r])
    OBVIOUS
  <2> HIDE DEF Loop
  <2>2. \E f : Loop(0, f)
    BY <2>1
  <2> QED
    BY <2>2
<1>2. ASSUME NEW m \in Nat, m \in S PROVE m + 1 \in S
  <2> DEFINE n == m
  <2>1. PICK f : Loop(n, f)
    BY <1>2
  <2> DEFINE x == The({Implied(before, by, list[n + 1]) : before \in {f[n]}})
             g == [i \in 0..(n + 1) |-> IF i = n + 1 THEN x ELSE f[i]]
  <2>2. \A i \in 0..n : f[i] = IF i = 0 THEN r
                                 ELSE The({Implied(before, by, list[i]) : before \in {f[i - 1]}})
    BY <2>1
  <2>3. n \in Int /\ n >= 0
    OBVIOUS
  <2>4. g[n + 1] = x /\ \A i \in 0..n : g[i] = f[i]
    BY <2>3
  <2>5. g = [i \in 0..(n + 1) |-> g[i]]
    OBVIOUS
  <2> HIDE DEF g, n, Loop
  <2>6. \A i \in 0..(n + 1) : g[i] = IF i = 0 THEN r
                                       ELSE The({Implied(before, by, list[i]) : before \in {g[i - 1]}})
    <3> SUFFICES ASSUME NEW i \in 0..(n + 1)
                 PROVE g[i] = IF i = 0 THEN r ELSE The({Implied(before, by, list[i]) : before \in {g[i - 1]}})
      OBVIOUS
    <3>1. CASE i = 0
      <4>1. i \in 0..n
        BY <2>3, <3>1
      <4>2. g[i] = f[i] /\ f[i] = r
        BY <2>2, <2>4, <3>1, <4>1
      <4> QED
        BY <3>1, <4>2
    <3>2. CASE i # 0 /\ i # n + 1
      <4>1. i \in 0..n /\ i - 1 \in 0..n
        BY <2>3, <3>2
      <4>2. g[i] = f[i] /\ g[i - 1] = f[i - 1]
        BY <2>4, <4>1
      <4> QED
        BY <2>2, <3>2, <4>1, <4>2
    <3>3. CASE i # 0 /\ i = n + 1
      <4>1. i - 1 = n /\ n \in 0..n
        BY <2>3, <3>3
      <4>2. g[i] = x /\ g[i - 1] = f[n]
        BY <2>4, <3>3, <4>1
      <4> QED
        BY <3>3, <4>1, <4>2
    <3> QED
      BY <3>1, <3>2, <3>3
  <2>7. Loop(n + 1, g)
    BY <2>5, <2>6, Zenon DEF Loop
  <2>8. \E h : Loop(m + 1, h)
    <3>1. n + 1 = m + 1
      BY DEF n
    <3> QED
      BY <2>7, <3>1
  <2> QED
    BY <2>8
<1>3. \E f : Loop(Len(list), f)
  <2>1. Nat \subseteq S
    <3> HIDE DEF S
    <3> QED
      BY <1>1, <1>2, SetInduction
  <2>2. Len(list) \in Nat
    OBVIOUS
  <2> HIDE DEF Loop
  <2> QED
    BY <2>1, <2>2
<1> DEFINE chosen == CHOOSE f : Loop(Len(list), f)
<1>4. Loop(Len(list), chosen)
  <2> HIDE DEF Loop
  <2> QED
    BY <1>3
<1>5. AllImplied(r, by, list) = chosen[Len(list)]
  BY Zenon DEF AllImplied
<1> HIDE DEF chosen
<1>6. chosen[0] = r
  BY <1>4
<1>7. ASSUME NEW i \in 1..Len(list) PROVE chosen[i] = Implied(chosen[i - 1], by, list[i])
  <2>1. i \in 0..Len(list) /\ i # 0
    OBVIOUS
  <2>2. chosen[i] = The({Implied(before, by, list[i]) : before \in {chosen[i - 1]}})
    BY <1>4, <2>1
  <2>3. {Implied(before, by, list[i]) : before \in {chosen[i - 1]}} = {Implied(chosen[i - 1], by, list[i])}
    OBVIOUS
  <2>4. The({Implied(chosen[i - 1], by, list[i])}) = Implied(chosen[i - 1], by, list[i])
    BY TheOfOne
  <2> QED
    BY <2>2, <2>3, <2>4
<1> QED
  BY <1>5, <1>6, <1>7

(* The loop of Propagations().                                             *)
LEMMA PropagationsLoop ==
  ASSUME NEW d, NEW first \in Nat, first <= Cardinality(Variables), Cardinality(Variables) \in Nat
  PROVE  \E f : /\ f[first] = [trail |-> d.trail, conflict |-> <<>>, index |-> first]
                /\ \A i \in (first + 1)..Cardinality(Variables) : f[i] = PropagatedNext(d, f[i - 1])
                /\ Propagations(d, first) = f
<1> DEFINE Loop(n, f) ==
             f = [i \in first..n |-> IF i = first THEN [trail |-> d.trail, conflict |-> <<>>, index |-> first]
                                   ELSE The({PropagatedNext(d, before) : before \in {f[i - 1]}})]
           S == {m \in Nat : \E f : Loop(first + m, f)}
<1>1. 0 \in S
  <2>1. Loop(first, [i \in first..first |-> [trail |-> d.trail, conflict |-> <<>>, index |-> first]])
    OBVIOUS
  <2> HIDE DEF Loop
  <2>2. \E f : Loop(first + 0, f)
    BY <2>1
  <2> QED
    BY <2>2
<1>2. ASSUME NEW m \in Nat, m \in S PROVE m + 1 \in S
  <2> DEFINE n == first + m
  <2>1. PICK f : Loop(n, f)
    BY <1>2
  <2> DEFINE x == The({PropagatedNext(d, before) : before \in {f[n]}})
             g == [i \in first..(n + 1) |-> IF i = n + 1 THEN x ELSE f[i]]
  <2>2. \A i \in first..n : f[i] = IF i = first THEN [trail |-> d.trail, conflict |-> <<>>, index |-> first]
                                 ELSE The({PropagatedNext(d, before) : before \in {f[i - 1]}})
    BY <2>1
  <2>3. n \in Int /\ n >= first
    OBVIOUS
  <2>4. g[n + 1] = x /\ \A i \in first..n : g[i] = f[i]
    BY <2>3
  <2>5. g = [i \in first..(n + 1) |-> g[i]]
    OBVIOUS
  <2> HIDE DEF g, n, Loop
  <2>6. \A i \in first..(n + 1) : g[i] = IF i = first THEN [trail |-> d.trail, conflict |-> <<>>, index |-> first]
                                       ELSE The({PropagatedNext(d, before) : before \in {g[i - 1]}})
    <3> SUFFICES ASSUME NEW i \in first..(n + 1)
                 PROVE g[i] = IF i = first THEN [trail |-> d.trail, conflict |-> <<>>, index |-> first] ELSE The({PropagatedNext(d, before) : before \in {g[i - 1]}})
      OBVIOUS
    <3>1. CASE i = first
      <4>1. i \in first..n
        BY <2>3, <3>1
      <4>2. g[i] = f[i] /\ f[i] = [trail |-> d.trail, conflict |-> <<>>, index |-> first]
        BY <2>2, <2>4, <3>1, <4>1
      <4> QED
        BY <3>1, <4>2
    <3>2. CASE i # first /\ i # n + 1
      <4>1. i \in first..n /\ i - 1 \in first..n
        BY <2>3, <3>2
      <4>2. g[i] = f[i] /\ g[i - 1] = f[i - 1]
        BY <2>4, <4>1
      <4> QED
        BY <2>2, <3>2, <4>1, <4>2
    <3>3. CASE i # first /\ i = n + 1
      <4>1. i - 1 = n /\ n \in first..n
        BY <2>3, <3>3
      <4>2. g[i] = x /\ g[i - 1] = f[n]
        BY <2>4, <3>3, <4>1
      <4> QED
        BY <3>3, <4>1, <4>2
    <3> QED
      BY <3>1, <3>2, <3>3
  <2>7. Loop(n + 1, g)
    BY <2>5, <2>6, Zenon DEF Loop
  <2>8. \E h : Loop(first + (m + 1), h)
    <3>1. n + 1 = first + (m + 1)
      BY DEF n
    <3> QED
      BY <2>7, <3>1
  <2> QED
    BY <2>8
<1>3. \E f : Loop(Cardinality(Variables), f)
  <2>1. Nat \subseteq S
    <3> HIDE DEF S
    <3> QED
      BY <1>1, <1>2, SetInduction
  <2>2. Cardinality(Variables) - first \in Nat /\ first + (Cardinality(Variables) - first) = Cardinality(Variables)
    OBVIOUS
  <2> HIDE DEF Loop
  <2> QED
    BY <2>1, <2>2
<1> DEFINE chosen == CHOOSE f : Loop(Cardinality(Variables), f)
<1>4. Loop(Cardinality(Variables), chosen)
  <2> HIDE DEF Loop
  <2> QED
    BY <1>3
<1>5. Propagations(d, first) = chosen
  BY Zenon DEF Propagations
<1> HIDE DEF chosen
<1>6. chosen[first] = [trail |-> d.trail, conflict |-> <<>>, index |-> first]
  BY <1>4
<1>7. ASSUME NEW i \in (first + 1)..Cardinality(Variables) PROVE chosen[i] = PropagatedNext(d, chosen[i - 1])
  <2>1. i \in first..Cardinality(Variables) /\ i # first
    OBVIOUS
  <2>2. chosen[i] = The({PropagatedNext(d, before) : before \in {chosen[i - 1]}})
    BY <1>4, <2>1
  <2>3. {PropagatedNext(d, before) : before \in {chosen[i - 1]}} = {PropagatedNext(d, chosen[i - 1])}
    OBVIOUS
  <2>4. The({PropagatedNext(d, chosen[i - 1])}) = PropagatedNext(d, chosen[i - 1])
    BY TheOfOne
  <2> QED
    BY <2>2, <2>3, <2>4
<1> QED
  BY <1>5, <1>6, <1>7

(* The loop of MarkDescendants().                                          *)
LEMMA DescendantsLoop ==
  ASSUME NEW graph, NEW root, Cardinality(Literals) \in Nat
  PROVE  \E f : /\ f[0] = {root}
                /\ \A i \in 1..Cardinality(Literals) : f[i] = f[i - 1] \cup UNION {ToSet(graph[l]) : l \in f[i - 1]}
                /\ MarkDescendants(graph, root) = f[Cardinality(Literals)]
<1> DEFINE Loop(n, f) ==
             f = [i \in 0..n |-> IF i = 0 THEN {root}
                                   ELSE The({before \cup UNION {ToSet(graph[l]) : l \in before} : before \in {f[i - 1]}})]
           S == {m \in Nat : \E f : Loop(m, f)}
<1>1. 0 \in S
  <2>1. Loop(0, [i \in 0..0 |-> {root}])
    OBVIOUS
  <2> HIDE DEF Loop
  <2>2. \E f : Loop(0, f)
    BY <2>1
  <2> QED
    BY <2>2
<1>2. ASSUME NEW m \in Nat, m \in S PROVE m + 1 \in S
  <2> DEFINE n == m
  <2>1. PICK f : Loop(n, f)
    BY <1>2
  <2> DEFINE x == The({before \cup UNION {ToSet(graph[l]) : l \in before} : before \in {f[n]}})
             g == [i \in 0..(n + 1) |-> IF i = n + 1 THEN x ELSE f[i]]
  <2>2. \A i \in 0..n : f[i] = IF i = 0 THEN {root}
                                 ELSE The({before \cup UNION {ToSet(graph[l]) : l \in before} : before \in {f[i - 1]}})
    BY <2>1
  <2>3. n \in Int /\ n >= 0
    OBVIOUS
  <2>4. g[n + 1] = x /\ \A i \in 0..n : g[i] = f[i]
    BY <2>3
  <2>5. g = [i \in 0..(n + 1) |-> g[i]]
    OBVIOUS
  <2> HIDE DEF g, n, Loop
  <2>6. \A i \in 0..(n + 1) : g[i] = IF i = 0 THEN {root}
                                       ELSE The({before \cup UNION {ToSet(graph[l]) : l \in before} : before \in {g[i - 1]}})
    <3> SUFFICES ASSUME NEW i \in 0..(n + 1)
                 PROVE g[i] = IF i = 0 THEN {root} ELSE The({before \cup UNION {ToSet(graph[l]) : l \in before} : before \in {g[i - 1]}})
      OBVIOUS
    <3>1. CASE i = 0
      <4>1. i \in 0..n
        BY <2>3, <3>1
      <4>2. g[i] = f[i] /\ f[i] = {root}
        BY <2>2, <2>4, <3>1, <4>1
      <4> QED
        BY <3>1, <4>2
    <3>2. CASE i # 0 /\ i # n + 1
      <4>1. i \in 0..n /\ i - 1 \in 0..n
        BY <2>3, <3>2
      <4>2. g[i] = f[i] /\ g[i - 1] = f[i - 1]
        BY <2>4, <4>1
      <4> QED
        BY <2>2, <3>2, <4>1, <4>2
    <3>3. CASE i # 0 /\ i = n + 1
      <4>1. i - 1 = n /\ n \in 0..n
        BY <2>3, <3>3
      <4>2. g[i] = x /\ g[i - 1] = f[n]
        BY <2>4, <3>3, <4>1
      <4> QED
        BY <3>3, <4>1, <4>2
    <3> QED
      BY <3>1, <3>2, <3>3
  <2>7. Loop(n + 1, g)
    BY <2>5, <2>6, Zenon DEF Loop
  <2>8. \E h : Loop(m + 1, h)
    <3>1. n + 1 = m + 1
      BY DEF n
    <3> QED
      BY <2>7, <3>1
  <2> QED
    BY <2>8
<1>3. \E f : Loop(Cardinality(Literals), f)
  <2>1. Nat \subseteq S
    <3> HIDE DEF S
    <3> QED
      BY <1>1, <1>2, SetInduction
  <2>2. Cardinality(Literals) \in Nat
    OBVIOUS
  <2> HIDE DEF Loop
  <2> QED
    BY <2>1, <2>2
<1> DEFINE chosen == CHOOSE f : Loop(Cardinality(Literals), f)
<1>4. Loop(Cardinality(Literals), chosen)
  <2> HIDE DEF Loop
  <2> QED
    BY <1>3
<1>5. MarkDescendants(graph, root) = chosen[Cardinality(Literals)]
  BY Zenon DEF MarkDescendants
<1> HIDE DEF chosen
<1>6. chosen[0] = {root}
  BY <1>4
<1>7. ASSUME NEW i \in 1..Cardinality(Literals) PROVE chosen[i] = chosen[i - 1] \cup UNION {ToSet(graph[l]) : l \in chosen[i - 1]}
  <2>1. i \in 0..Cardinality(Literals) /\ i # 0
    OBVIOUS
  <2>2. chosen[i] = The({before \cup UNION {ToSet(graph[l]) : l \in before} : before \in {chosen[i - 1]}})
    BY <1>4, <2>1
  <2>3. {before \cup UNION {ToSet(graph[l]) : l \in before} : before \in {chosen[i - 1]}} = {chosen[i - 1] \cup UNION {ToSet(graph[l]) : l \in chosen[i - 1]}}
    OBVIOUS
  <2>4. The({chosen[i - 1] \cup UNION {ToSet(graph[l]) : l \in chosen[i - 1]}}) = chosen[i - 1] \cup UNION {ToSet(graph[l]) : l \in chosen[i - 1]}
    BY TheOfOne
  <2> QED
    BY <2>2, <2>3, <2>4
<1> QED
  BY <1>5, <1>6, <1>7

(* The loop of Expansions(), which goes down.                              *)
LEMMA ExpansionsLoop ==
  ASSUME NEW d, NEW highest, NEW first, NEW top \in Nat
  PROVE  \E f : /\ f[top] = first
                /\ \A i \in 0..(top - 1) : f[i] = ExpandedNext(d, highest, f[i + 1], i + 1)
                /\ Expansions(d, highest, first, top) = f
<1> DEFINE Loop(n, f) ==
             f = [i \in n..top |-> IF i = top THEN first
                                   ELSE The({ExpandedNext(d, highest, before, i + 1) : before \in {f[i + 1]}})]
           S == {m \in Nat : m <= top => \E f : Loop(top - m, f)}
<1>1. 0 \in S
  <2>1. Loop(top, [i \in top..top |-> first])
    OBVIOUS
  <2> HIDE DEF Loop
  <2>2. \E f : Loop(top - 0, f)
    BY <2>1
  <2> QED
    BY <2>2
<1>2. ASSUME NEW m \in Nat, m \in S PROVE m + 1 \in S
  <2> HIDE DEF Loop
  <2> SUFFICES ASSUME m + 1 <= top PROVE \E h : Loop(top - (m + 1), h)
    OBVIOUS
  <2> DEFINE n == top - m
  <2>1. PICK f : Loop(n, f)
    BY <1>2
  <2> USE DEF Loop
  <2> DEFINE x == The({ExpandedNext(d, highest, before, n - 1 + 1) : before \in {f[n]}})
             g == [i \in (n - 1)..top |-> IF i = n - 1 THEN x ELSE f[i]]
  <2>2. \A i \in n..top : f[i] = IF i = top THEN first
                                 ELSE The({ExpandedNext(d, highest, before, i + 1) : before \in {f[i + 1]}})
    BY <2>1
  <2>3. n \in Int /\ n <= top /\ n >= 1
    OBVIOUS
  <2>4. g[n - 1] = x /\ \A i \in n..top : g[i] = f[i]
    BY <2>3
  <2>5. g = [i \in (n - 1)..top |-> g[i]]
    OBVIOUS
  <2> HIDE DEF g, n, Loop
  <2>6. \A i \in (n - 1)..top : g[i] = IF i = top THEN first
                                       ELSE The({ExpandedNext(d, highest, before, i + 1) : before \in {g[i + 1]}})
    <3> SUFFICES ASSUME NEW i \in (n - 1)..top
                 PROVE g[i] = IF i = top THEN first ELSE The({ExpandedNext(d, highest, before, i + 1) : before \in {g[i + 1]}})
      OBVIOUS
    <3>1. CASE i = top
      <4>1. i \in n..top
        BY <2>3, <3>1
      <4>2. g[i] = f[i] /\ f[i] = first
        BY <2>2, <2>4, <3>1, <4>1
      <4> QED
        BY <3>1, <4>2
    <3>2. CASE i # top /\ i # n - 1
      <4>1. i \in n..top /\ i + 1 \in n..top
        BY <2>3, <3>2
      <4>2. g[i] = f[i] /\ g[i + 1] = f[i + 1]
        BY <2>4, <4>1
      <4> QED
        BY <2>2, <3>2, <4>1, <4>2
    <3>3. CASE i # top /\ i = n - 1
      <4>1. i + 1 = n /\ n \in n..top
        BY <2>3, <3>3
      <4>2. g[i] = x /\ g[i + 1] = f[n]
        BY <2>4, <3>3, <4>1
      <4> QED
        BY <3>3, <4>1, <4>2
    <3> QED
      BY <3>1, <3>2, <3>3
  <2>7. Loop(n - 1, g)
    BY <2>5, <2>6, Zenon DEF Loop
  <2>8. \E h : Loop(top - (m + 1), h)
    <3>1. n - 1 = top - (m + 1)
      BY DEF n
    <3> QED
      BY <2>7, <3>1
  <2> QED
    BY <2>8
<1>3. \E f : Loop(0, f)
  <2>1. Nat \subseteq S
    <3> HIDE DEF S
    <3> QED
      BY <1>1, <1>2, SetInduction
  <2>2. top \in Nat /\ top - top = 0
    OBVIOUS
  <2> HIDE DEF Loop
  <2> QED
    BY <2>1, <2>2
<1> DEFINE chosen == CHOOSE f : Loop(0, f)
<1>4. Loop(0, chosen)
  <2> HIDE DEF Loop
  <2> QED
    BY <1>3
<1>5. Expansions(d, highest, first, top) = chosen
  BY Zenon DEF Expansions
<1> HIDE DEF chosen
<1>6. chosen[top] = first
  BY <1>4
<1>7. ASSUME NEW i \in 0..(top - 1) PROVE chosen[i] = ExpandedNext(d, highest, chosen[i + 1], i + 1)
  <2>1. i \in 0..top /\ i # top
    OBVIOUS
  <2>2. chosen[i] = The({ExpandedNext(d, highest, before, i + 1) : before \in {chosen[i + 1]}})
    BY <1>4, <2>1
  <2>3. {ExpandedNext(d, highest, before, i + 1) : before \in {chosen[i + 1]}} = {ExpandedNext(d, highest, chosen[i + 1], i + 1)}
    OBVIOUS
  <2>4. The({ExpandedNext(d, highest, chosen[i + 1], i + 1)}) = ExpandedNext(d, highest, chosen[i + 1], i + 1)
    BY TheOfOne
  <2> QED
    BY <2>2, <2>3, <2>4
<1> QED
  BY <1>5, <1>6, <1>7

(* The loop of CanBeInfered().                                             *)
LEMMA InferedLoop ==
  ASSUME NEW d, NEW marked, Len(d.trail) \in Nat
  PROVE  \E f : /\ f[0] = {}
                /\ \A i \in 1..Len(d.trail) : f[i] = f[i - 1] \cup {j \in {i} : InferedFrom(d, marked, j, f[i - 1])}
                /\ CanBeInfered(d, marked) = f[Len(d.trail)]
<1> DEFINE Loop(n, f) ==
             f = [i \in 0..n |-> IF i = 0 THEN {}
                                   ELSE The({before \cup {j \in {i} : InferedFrom(d, marked, j, before)} : before \in {f[i - 1]}})]
           S == {m \in Nat : \E f : Loop(m, f)}
<1>1. 0 \in S
  <2>1. Loop(0, [i \in 0..0 |-> {}])
    OBVIOUS
  <2> HIDE DEF Loop
  <2>2. \E f : Loop(0, f)
    BY <2>1
  <2> QED
    BY <2>2
<1>2. ASSUME NEW m \in Nat, m \in S PROVE m + 1 \in S
  <2> DEFINE n == m
  <2>1. PICK f : Loop(n, f)
    BY <1>2
  <2> DEFINE x == The({before \cup {j \in {n + 1} : InferedFrom(d, marked, j, before)} : before \in {f[n]}})
             g == [i \in 0..(n + 1) |-> IF i = n + 1 THEN x ELSE f[i]]
  <2>2. \A i \in 0..n : f[i] = IF i = 0 THEN {}
                                 ELSE The({before \cup {j \in {i} : InferedFrom(d, marked, j, before)} : before \in {f[i - 1]}})
    BY <2>1
  <2>3. n \in Int /\ n >= 0
    OBVIOUS
  <2>4. g[n + 1] = x /\ \A i \in 0..n : g[i] = f[i]
    BY <2>3
  <2>5. g = [i \in 0..(n + 1) |-> g[i]]
    OBVIOUS
  <2> HIDE DEF g, n, Loop
  <2>6. \A i \in 0..(n + 1) : g[i] = IF i = 0 THEN {}
                                       ELSE The({before \cup {j \in {i} : InferedFrom(d, marked, j, before)} : before \in {g[i - 1]}})
    <3> SUFFICES ASSUME NEW i \in 0..(n + 1)
                 PROVE g[i] = IF i = 0 THEN {} ELSE The({before \cup {j \in {i} : InferedFrom(d, marked, j, before)} : before \in {g[i - 1]}})
      OBVIOUS
    <3>1. CASE i = 0
      <4>1. i \in 0..n
        BY <2>3, <3>1
      <4>2. g[i] = f[i] /\ f[i] = {}
        BY <2>2, <2>4, <3>1, <4>1
      <4> QED
        BY <3>1, <4>2
    <3>2. CASE i # 0 /\ i # n + 1
      <4>1. i \in 0..n /\ i - 1 \in 0..n
        BY <2>3, <3>2
      <4>2. g[i] = f[i] /\ g[i - 1] = f[i - 1]
        BY <2>4, <4>1
      <4> QED
        BY <2>2, <3>2, <4>1, <4>2
    <3>3. CASE i # 0 /\ i = n + 1
      <4>1. i - 1 = n /\ n \in 0..n
        BY <2>3, <3>3
      <4>2. g[i] = x /\ g[i - 1] = f[n]
        BY <2>4, <3>3, <4>1
      <4> QED
        BY <3>3, <4>1, <4>2
    <3> QED
      BY <3>1, <3>2, <3>3
  <2>7. Loop(n + 1, g)
    BY <2>5, <2>6, Zenon DEF Loop
  <2>8. \E h : Loop(m + 1, h)
    <3>1. n + 1 = m + 1
      BY DEF n
    <3> QED
      BY <2>7, <3>1
  <2> QED
    BY <2>8
<1>3. \E f : Loop(Len(d.trail), f)
  <2>1. Nat \subseteq S
    <3> HIDE DEF S
    <3> QED
      BY <1>1, <1>2, SetInduction
  <2>2. Len(d.trail) \in Nat
    OBVIOUS
  <2> HIDE DEF Loop
  <2> QED
    BY <2>1, <2>2
<1> DEFINE chosen == CHOOSE f : Loop(Len(d.trail), f)
<1>4. Loop(Len(d.trail), chosen)
  <2> HIDE DEF Loop
  <2> QED
    BY <1>3
<1>5. CanBeInfered(d, marked) = chosen[Len(d.trail)]
  BY Zenon DEF CanBeInfered
<1> HIDE DEF chosen
<1>6. chosen[0] = {}
  BY <1>4
<1>7. ASSUME NEW i \in 1..Len(d.trail) PROVE chosen[i] = chosen[i - 1] \cup {j \in {i} : InferedFrom(d, marked, j, chosen[i - 1])}
  <2>1. i \in 0..Len(d.trail) /\ i # 0
    OBVIOUS
  <2>2. chosen[i] = The({before \cup {j \in {i} : InferedFrom(d, marked, j, before)} : before \in {chosen[i - 1]}})
    BY <1>4, <2>1
  <2>3. {before \cup {j \in {i} : InferedFrom(d, marked, j, before)} : before \in {chosen[i - 1]}} = {chosen[i - 1] \cup {j \in {i} : InferedFrom(d, marked, j, chosen[i - 1])}}
    OBVIOUS
  <2>4. The({chosen[i - 1] \cup {j \in {i} : InferedFrom(d, marked, j, chosen[i - 1])}}) = chosen[i - 1] \cup {j \in {i} : InferedFrom(d, marked, j, chosen[i - 1])}
    BY TheOfOne
  <2> QED
    BY <2>2, <2>3, <2>4
<1> QED
  BY <1>5, <1>6, <1>7

(* The loop of Fixing(), which goes down.                                  *)
LEMMA FixingLoop ==
  ASSUME NEW d, NEW literals, Len(d.trail) \in Nat
  PROVE  \E f : /\ f[Len(d.trail)] = {TrailIndex(d.trail, l) : l \in literals}
                /\ \A i \in 0..(Len(d.trail) - 1) : f[i] = WithReason(d, f[i + 1], i + 1)
                /\ Fixing(d, literals) = f[0]
<1> DEFINE Loop(n, f) ==
             f = [i \in n..Len(d.trail) |-> IF i = Len(d.trail) THEN {TrailIndex(d.trail, l) : l \in literals}
                                   ELSE The({WithReason(d, before, i + 1) : before \in {f[i + 1]}})]
           S == {m \in Nat : m <= Len(d.trail) => \E f : Loop(Len(d.trail) - m, f)}
<1>1. 0 \in S
  <2>1. Loop(Len(d.trail), [i \in Len(d.trail)..Len(d.trail) |-> {TrailIndex(d.trail, l) : l \in literals}])
    OBVIOUS
  <2> HIDE DEF Loop
  <2>2. \E f : Loop(Len(d.trail) - 0, f)
    BY <2>1
  <2> QED
    BY <2>2
<1>2. ASSUME NEW m \in Nat, m \in S PROVE m + 1 \in S
  <2> HIDE DEF Loop
  <2> SUFFICES ASSUME m + 1 <= Len(d.trail) PROVE \E h : Loop(Len(d.trail) - (m + 1), h)
    OBVIOUS
  <2> DEFINE n == Len(d.trail) - m
  <2>1. PICK f : Loop(n, f)
    BY <1>2
  <2> USE DEF Loop
  <2> DEFINE x == The({WithReason(d, before, n - 1 + 1) : before \in {f[n]}})
             g == [i \in (n - 1)..Len(d.trail) |-> IF i = n - 1 THEN x ELSE f[i]]
  <2>2. \A i \in n..Len(d.trail) : f[i] = IF i = Len(d.trail) THEN {TrailIndex(d.trail, l) : l \in literals}
                                 ELSE The({WithReason(d, before, i + 1) : before \in {f[i + 1]}})
    BY <2>1
  <2>3. n \in Int /\ n <= Len(d.trail) /\ n >= 1
    OBVIOUS
  <2>4. g[n - 1] = x /\ \A i \in n..Len(d.trail) : g[i] = f[i]
    BY <2>3
  <2>5. g = [i \in (n - 1)..Len(d.trail) |-> g[i]]
    OBVIOUS
  <2> HIDE DEF g, n, Loop
  <2>6. \A i \in (n - 1)..Len(d.trail) : g[i] = IF i = Len(d.trail) THEN {TrailIndex(d.trail, l) : l \in literals}
                                       ELSE The({WithReason(d, before, i + 1) : before \in {g[i + 1]}})
    <3> SUFFICES ASSUME NEW i \in (n - 1)..Len(d.trail)
                 PROVE g[i] = IF i = Len(d.trail) THEN {TrailIndex(d.trail, l) : l \in literals} ELSE The({WithReason(d, before, i + 1) : before \in {g[i + 1]}})
      OBVIOUS
    <3>1. CASE i = Len(d.trail)
      <4>1. i \in n..Len(d.trail)
        BY <2>3, <3>1
      <4>2. g[i] = f[i] /\ f[i] = {TrailIndex(d.trail, l) : l \in literals}
        BY <2>2, <2>4, <3>1, <4>1
      <4> QED
        BY <3>1, <4>2
    <3>2. CASE i # Len(d.trail) /\ i # n - 1
      <4>1. i \in n..Len(d.trail) /\ i + 1 \in n..Len(d.trail)
        BY <2>3, <3>2
      <4>2. g[i] = f[i] /\ g[i + 1] = f[i + 1]
        BY <2>4, <4>1
      <4> QED
        BY <2>2, <3>2, <4>1, <4>2
    <3>3. CASE i # Len(d.trail) /\ i = n - 1
      <4>1. i + 1 = n /\ n \in n..Len(d.trail)
        BY <2>3, <3>3
      <4>2. g[i] = x /\ g[i + 1] = f[n]
        BY <2>4, <3>3, <4>1
      <4> QED
        BY <3>3, <4>1, <4>2
    <3> QED
      BY <3>1, <3>2, <3>3
  <2>7. Loop(n - 1, g)
    BY <2>5, <2>6, Zenon DEF Loop
  <2>8. \E h : Loop(Len(d.trail) - (m + 1), h)
    <3>1. n - 1 = Len(d.trail) - (m + 1)
      BY DEF n
    <3> QED
      BY <2>7, <3>1
  <2> QED
    BY <2>8
<1>3. \E f : Loop(0, f)
  <2>1. Nat \subseteq S
    <3> HIDE DEF S
    <3> QED
      BY <1>1, <1>2, SetInduction
  <2>2. Len(d.trail) \in Nat /\ Len(d.trail) - Len(d.trail) = 0
    OBVIOUS
  <2> HIDE DEF Loop
  <2> QED
    BY <2>1, <2>2
<1> DEFINE chosen == CHOOSE f : Loop(0, f)
<1>4. Loop(0, chosen)
  <2> HIDE DEF Loop
  <2> QED
    BY <1>3
<1>5. Fixing(d, literals) = chosen[0]
  BY Zenon DEF Fixing
<1> HIDE DEF chosen
<1>6. chosen[Len(d.trail)] = {TrailIndex(d.trail, l) : l \in literals}
  BY <1>4
<1>7. ASSUME NEW i \in 0..(Len(d.trail) - 1) PROVE chosen[i] = WithReason(d, chosen[i + 1], i + 1)
  <2>1. i \in 0..Len(d.trail) /\ i # Len(d.trail)
    OBVIOUS
  <2>2. chosen[i] = The({WithReason(d, before, i + 1) : before \in {chosen[i + 1]}})
    BY <1>4, <2>1
  <2>3. {WithReason(d, before, i + 1) : before \in {chosen[i + 1]}} = {WithReason(d, chosen[i + 1], i + 1)}
    OBVIOUS
  <2>4. The({WithReason(d, chosen[i + 1], i + 1)}) = WithReason(d, chosen[i + 1], i + 1)
    BY TheOfOne
  <2> QED
    BY <2>2, <2>3, <2>4
<1> QED
  BY <1>5, <1>6, <1>7

(* The loop of AllWithoutFixed().                                          *)
LEMMA WithoutFixedLoop ==
  ASSUME NEW d, Len(d.clauses) \in Nat
  PROVE  \E f : /\ f[0] = d
                /\ \A i \in 1..Len(d.clauses) : f[i] = WithoutFixed(f[i - 1], i)
                /\ AllWithoutFixed(d) = f[Len(d.clauses)]
<1> DEFINE Loop(n, f) ==
             f = [i \in 0..n |-> IF i = 0 THEN d
                                   ELSE The({WithoutFixed(before, i) : before \in {f[i - 1]}})]
           S == {m \in Nat : \E f : Loop(m, f)}
<1>1. 0 \in S
  <2>1. Loop(0, [i \in 0..0 |-> d])
    OBVIOUS
  <2> HIDE DEF Loop
  <2>2. \E f : Loop(0, f)
    BY <2>1
  <2> QED
    BY <2>2
<1>2. ASSUME NEW m \in Nat, m \in S PROVE m + 1 \in S
  <2> DEFINE n == m
  <2>1. PICK f : Loop(n, f)
    BY <1>2
  <2> DEFINE x == The({WithoutFixed(before, n + 1) : before \in {f[n]}})
             g == [i \in 0..(n + 1) |-> IF i = n + 1 THEN x ELSE f[i]]
  <2>2. \A i \in 0..n : f[i] = IF i = 0 THEN d
                                 ELSE The({WithoutFixed(before, i) : before \in {f[i - 1]}})
    BY <2>1
  <2>3. n \in Int /\ n >= 0
    OBVIOUS
  <2>4. g[n + 1] = x /\ \A i \in 0..n : g[i] = f[i]
    BY <2>3
  <2>5. g = [i \in 0..(n + 1) |-> g[i]]
    OBVIOUS
  <2> HIDE DEF g, n, Loop
  <2>6. \A i \in 0..(n + 1) : g[i] = IF i = 0 THEN d
                                       ELSE The({WithoutFixed(before, i) : before \in {g[i - 1]}})
    <3> SUFFICES ASSUME NEW i \in 0..(n + 1)
                 PROVE g[i] = IF i = 0 THEN d ELSE The({WithoutFixed(before, i) : before \in {g[i - 1]}})
      OBVIOUS
    <3>1. CASE i = 0
      <4>1. i \in 0..n
        BY <2>3, <3>1
      <4>2. g[i] = f[i] /\ f[i] = d
        BY <2>2, <2>4, <3>1, <4>1
      <4> QED
        BY <3>1, <4>2
    <3>2. CASE i # 0 /\ i # n + 1
      <4>1. i \in 0..n /\ i - 1 \in 0..n
        BY <2>3, <3>2
      <4>2. g[i] = f[i] /\ g[i - 1] = f[i - 1]
        BY <2>4, <4>1
      <4> QED
        BY <2>2, <3>2, <4>1, <4>2
    <3>3. CASE i # 0 /\ i = n + 1
      <4>1. i - 1 = n /\ n \in 0..n
        BY <2>3, <3>3
      <4>2. g[i] = x /\ g[i - 1] = f[n]
        BY <2>4, <3>3, <4>1
      <4> QED
        BY <3>3, <4>1, <4>2
    <3> QED
      BY <3>1, <3>2, <3>3
  <2>7. Loop(n + 1, g)
    BY <2>5, <2>6, Zenon DEF Loop
  <2>8. \E h : Loop(m + 1, h)
    <3>1. n + 1 = m + 1
      BY DEF n
    <3> QED
      BY <2>7, <3>1
  <2> QED
    BY <2>8
<1>3. \E f : Loop(Len(d.clauses), f)
  <2>1. Nat \subseteq S
    <3> HIDE DEF S
    <3> QED
      BY <1>1, <1>2, SetInduction
  <2>2. Len(d.clauses) \in Nat
    OBVIOUS
  <2> HIDE DEF Loop
  <2> QED
    BY <2>1, <2>2
<1> DEFINE chosen == CHOOSE f : Loop(Len(d.clauses), f)
<1>4. Loop(Len(d.clauses), chosen)
  <2> HIDE DEF Loop
  <2> QED
    BY <1>3
<1>5. AllWithoutFixed(d) = chosen[Len(d.clauses)]
  BY Zenon DEF AllWithoutFixed
<1> HIDE DEF chosen
<1>6. chosen[0] = d
  BY <1>4
<1>7. ASSUME NEW i \in 1..Len(d.clauses) PROVE chosen[i] = WithoutFixed(chosen[i - 1], i)
  <2>1. i \in 0..Len(d.clauses) /\ i # 0
    OBVIOUS
  <2>2. chosen[i] = The({WithoutFixed(before, i) : before \in {chosen[i - 1]}})
    BY <1>4, <2>1
  <2>3. {WithoutFixed(before, i) : before \in {chosen[i - 1]}} = {WithoutFixed(chosen[i - 1], i)}
    OBVIOUS
  <2>4. The({WithoutFixed(chosen[i - 1], i)}) = WithoutFixed(chosen[i - 1], i)
    BY TheOfOne
  <2> QED
    BY <2>2, <2>3, <2>4
<1> QED
  BY <1>5, <1>6, <1>7

(* The loop of WithAssumptions().                                          *)
LEMMA AssumptionsLoop ==
  ASSUME NEW t, NEW a, Len(a) \in Nat
  PROVE  \E f : /\ f[0] = [trail |-> t, conflict |-> <<>>]
                /\ \A i \in 1..Len(a) : f[i] = WithAssumption(f[i - 1], a[i])
                /\ WithAssumptions(t, a) = f[Len(a)]
<1> DEFINE Loop(n, f) ==
             f = [i \in 0..n |-> IF i = 0 THEN [trail |-> t, conflict |-> <<>>]
                                   ELSE The({WithAssumption(before, a[i]) : before \in {f[i - 1]}})]
           S == {m \in Nat : \E f : Loop(m, f)}
<1>1. 0 \in S
  <2>1. Loop(0, [i \in 0..0 |-> [trail |-> t, conflict |-> <<>>]])
    OBVIOUS
  <2> HIDE DEF Loop
  <2>2. \E f : Loop(0, f)
    BY <2>1
  <2> QED
    BY <2>2
<1>2. ASSUME NEW m \in Nat, m \in S PROVE m + 1 \in S
  <2> DEFINE n == m
  <2>1. PICK f : Loop(n, f)
    BY <1>2
  <2> DEFINE x == The({WithAssumption(before, a[n + 1]) : before \in {f[n]}})
             g == [i \in 0..(n + 1) |-> IF i = n + 1 THEN x ELSE f[i]]
  <2>2. \A i \in 0..n : f[i] = IF i = 0 THEN [trail |-> t, conflict |-> <<>>]
                                 ELSE The({WithAssumption(before, a[i]) : before \in {f[i - 1]}})
    BY <2>1
  <2>3. n \in Int /\ n >= 0
    OBVIOUS
  <2>4. g[n + 1] = x /\ \A i \in 0..n : g[i] = f[i]
    BY <2>3
  <2>5. g = [i \in 0..(n + 1) |-> g[i]]
    OBVIOUS
  <2> HIDE DEF g, n, Loop
  <2>6. \A i \in 0..(n + 1) : g[i] = IF i = 0 THEN [trail |-> t, conflict |-> <<>>]
                                       ELSE The({WithAssumption(before, a[i]) : before \in {g[i - 1]}})
    <3> SUFFICES ASSUME NEW i \in 0..(n + 1)
                 PROVE g[i] = IF i = 0 THEN [trail |-> t, conflict |-> <<>>] ELSE The({WithAssumption(before, a[i]) : before \in {g[i - 1]}})
      OBVIOUS
    <3>1. CASE i = 0
      <4>1. i \in 0..n
        BY <2>3, <3>1
      <4>2. g[i] = f[i] /\ f[i] = [trail |-> t, conflict |-> <<>>]
        BY <2>2, <2>4, <3>1, <4>1
      <4> QED
        BY <3>1, <4>2
    <3>2. CASE i # 0 /\ i # n + 1
      <4>1. i \in 0..n /\ i - 1 \in 0..n
        BY <2>3, <3>2
      <4>2. g[i] = f[i] /\ g[i - 1] = f[i - 1]
        BY <2>4, <4>1
      <4> QED
        BY <2>2, <3>2, <4>1, <4>2
    <3>3. CASE i # 0 /\ i = n + 1
      <4>1. i - 1 = n /\ n \in 0..n
        BY <2>3, <3>3
      <4>2. g[i] = x /\ g[i - 1] = f[n]
        BY <2>4, <3>3, <4>1
      <4> QED
        BY <3>3, <4>1, <4>2
    <3> QED
      BY <3>1, <3>2, <3>3
  <2>7. Loop(n + 1, g)
    BY <2>5, <2>6, Zenon DEF Loop
  <2>8. \E h : Loop(m + 1, h)
    <3>1. n + 1 = m + 1
      BY DEF n
    <3> QED
      BY <2>7, <3>1
  <2> QED
    BY <2>8
<1>3. \E f : Loop(Len(a), f)
  <2>1. Nat \subseteq S
    <3> HIDE DEF S
    <3> QED
      BY <1>1, <1>2, SetInduction
  <2>2. Len(a) \in Nat
    OBVIOUS
  <2> HIDE DEF Loop
  <2> QED
    BY <2>1, <2>2
<1> DEFINE chosen == CHOOSE f : Loop(Len(a), f)
<1>4. Loop(Len(a), chosen)
  <2> HIDE DEF Loop
  <2> QED
    BY <1>3
<1>5. WithAssumptions(t, a) = chosen[Len(a)]
  BY Zenon DEF WithAssumptions
<1> HIDE DEF chosen
<1>6. chosen[0] = [trail |-> t, conflict |-> <<>>]
  BY <1>4
<1>7. ASSUME NEW i \in 1..Len(a) PROVE chosen[i] = WithAssumption(chosen[i - 1], a[i])
  <2>1. i \in 0..Len(a) /\ i # 0
    OBVIOUS
  <2>2. chosen[i] = The({WithAssumption(before, a[i]) : before \in {chosen[i - 1]}})
    BY <1>4, <2>1
  <2>3. {WithAssumption(before, a[i]) : before \in {chosen[i - 1]}} = {WithAssumption(chosen[i - 1], a[i])}
    OBVIOUS
  <2>4. The({WithAssumption(chosen[i - 1], a[i])}) = WithAssumption(chosen[i - 1], a[i])
    BY TheOfOne
  <2> QED
    BY <2>2, <2>3, <2>4
<1> QED
  BY <1>5, <1>6, <1>7

-----------------------------------------------------------------------------
(* The database: what the propagators read and write.                      *)
Watchers == [clause : Nat \ {0}, blocking : Literals, start : Nat]
Databases == [clauses : Seq(Seq(Literals)), watchers : [Literals -> Seq(Watchers)],
              implications : [Literals -> Seq(Literals)], trail : Seq(Entries)]

(* Clauses have three distinct literals at least.                          *)
ClausesOK(d) == \A c \in Attached(d) : Len(d.clauses[c]) >= 3 /\ Distinct(d.clauses[c])

(* A clause is watched by its first two literals, once each; a literal that*)
(* blocks is one of the clause, or was when it became false for good.      *)
Watches(d, c) == {d.clauses[c][1], d.clauses[c][2]}
FalseForGood(t, l) == \E i \in 1..Len(t) : t[i].literal = -l /\ t[i].level = 0
WatcherOK(d, l, w) ==
  /\ w.clause \in Attached(d) /\ l \in Watches(d, w.clause)
  /\ w.blocking \in ToSet(d.clauses[w.clause]) \/ FalseForGood(d.trail, w.blocking)
WatchesOK(d) ==
  \A l \in Literals :
    /\ \A i, j \in 1..Len(d.watchers[l]) : d.watchers[l][i].clause = d.watchers[l][j].clause => i = j
    /\ \A i \in 1..Len(d.watchers[l]) : WatcherOK(d, l, d.watchers[l][i])
    /\ \A c \in Attached(d) : l \in Watches(d, c) =>
         \E i \in 1..Len(d.watchers[l]) : d.watchers[l][i].clause = c

(* No literal implies itself or its negation.                              *)
GraphOK(d) ==
  \A l, m \in Literals : m \in ToSet(d.implications[l]) => m # l /\ m # -l

(* An implication is there with its contrapositive.                        *)
IsSymmetric(d) ==
  \A l, m \in Literals : m \in ToSet(d.implications[l]) => -l \in ToSet(d.implications[-m])

(* A literal has the reason that its type says; at level zero the clause   *)
(* may have been removed since.                                            *)
EntryIsExplained(d, i) ==
  LET e == d.trail[i]
  IN /\ e.type = "CLAUSE" =>
          /\ e.by \in 1..Len(d.clauses)
          /\ e.level > 0 => e.by \in Attached(d)
          /\ e.by \in Attached(d) => d.clauses[e.by][1] = e.literal
     /\ e.type = "BINARY" =>
          e.by \in Literals /\ (e.level > 0 => e.literal \in ToSet(d.implications[-e.by]))
     /\ e.type = "DECISION" => e.level > 0 /\ e.by = 0
     /\ e.type = "UNIT" => e.level = 0 /\ e.by = 0
     /\ \A l \in ToSet(Reason(d, i)) : \E j \in 1..(i - 1) : d.trail[j].literal = -l
ReasonsOK(d) == \A i \in 1..Len(d.trail) : EntryIsExplained(d, i)

DatabaseOK(d) ==
  /\ d \in Databases /\ IsTrail(d.trail)
  /\ ClausesOK(d) /\ WatchesOK(d) /\ GraphOK(d) /\ ReasonsOK(d)

(* Types of the parts of a database.                                       *)
LEMMA DatabaseTypes ==
  ASSUME NEW d \in Databases
  PROVE  /\ d.clauses \in Seq(Seq(Literals)) /\ d.watchers \in [Literals -> Seq(Watchers)]
         /\ d.implications \in [Literals -> Seq(Literals)] /\ d.trail \in Seq(Entries)
         /\ Len(d.clauses) \in Nat
         /\ \A c \in 1..Len(d.clauses) : d.clauses[c] \in Seq(Literals) /\ Len(d.clauses[c]) \in Nat
         /\ \A l \in Literals : d.watchers[l] \in Seq(Watchers) /\ Len(d.watchers[l]) \in Nat
         /\ \A l \in Literals : \A i \in 1..Len(d.watchers[l]) :
              /\ d.watchers[l][i] \in Watchers /\ d.watchers[l][i].clause \in Nat \ {0}
              /\ d.watchers[l][i].blocking \in Literals /\ d.watchers[l][i].start \in Nat
         /\ \A l \in Literals : d.implications[l] \in Seq(Literals)
<1>1. /\ d.clauses \in Seq(Seq(Literals)) /\ d.watchers \in [Literals -> Seq(Watchers)]
      /\ d.implications \in [Literals -> Seq(Literals)] /\ d.trail \in Seq(Entries)
  BY DEF Databases
<1>2. \A w \in Watchers : w.clause \in Nat \ {0} /\ w.blocking \in Literals /\ w.start \in Nat
  BY DEF Watchers
<1>3. \A l \in Literals : d.watchers[l] \in Seq(Watchers)
  BY <1>1
<1>4. \A l \in Literals : \A i \in 1..Len(d.watchers[l]) : d.watchers[l][i] \in Watchers
  BY <1>3
<1> QED
  BY <1>1, <1>2, <1>3, <1>4

(* An attached clause has three distinct literals at least, two of them    *)
(* watched.                                                                *)
LEMMA AttachedClause ==
  ASSUME NEW d \in Databases, ClausesOK(d), NEW c \in Attached(d)
  PROVE  /\ c \in 1..Len(d.clauses) /\ d.clauses[c] \in Seq(Literals) /\ d.clauses[c] # <<>>
         /\ Len(d.clauses[c]) \in Nat /\ Len(d.clauses[c]) >= 3 /\ Distinct(d.clauses[c])
         /\ 1 \in 1..Len(d.clauses[c]) /\ 2 \in 1..Len(d.clauses[c])
         /\ d.clauses[c][1] \in Literals /\ d.clauses[c][2] \in Literals
         /\ d.clauses[c][1] \in ToSet(d.clauses[c]) /\ d.clauses[c][2] \in ToSet(d.clauses[c])
         /\ d.clauses[c][1] # d.clauses[c][2]
         /\ Watches(d, c) \subseteq ToSet(d.clauses[c]) /\ ToSet(d.clauses[c]) \subseteq Literals
<1>1. c \in 1..Len(d.clauses) /\ d.clauses[c] # <<>>
  BY DEF Attached, IsRemoved
<1>2. d.clauses[c] \in Seq(Literals)
  BY <1>1, DatabaseTypes
<1> DEFINE s == d.clauses[c]
<1>3. Len(s) \in Nat /\ Len(s) >= 3 /\ Distinct(s) /\ s \in Seq(Literals)
  BY <1>2 DEF ClausesOK
<1> HIDE DEF s
<1>4. 1 \in 1..Len(s) /\ 2 \in 1..Len(s) /\ s[1] \in Literals /\ s[2] \in Literals
  BY <1>3
<1>5. s[1] \in ToSet(s) /\ s[2] \in ToSet(s) /\ ToSet(s) \subseteq Literals
  BY <1>3, <1>4, ToSetFacts
<1>6. s[1] # s[2]
  BY <1>3, <1>4 DEF Distinct
<1> QED
  BY <1>1, <1>3, <1>4, <1>5, <1>6 DEF s, Watches

(* The literals of a reason are those of the clause but the first.         *)
LEMMA ReasonOfClause ==
  ASSUME NEW d \in Databases, ClausesOK(d), NEW i \in 1..Len(d.trail),
         d.trail[i].type = "CLAUSE", d.trail[i].by \in Attached(d)
  PROVE  /\ Reason(d, i) \in Seq(Literals)
         /\ \A l : l \in ToSet(Reason(d, i)) <=>
              l \in ToSet(d.clauses[d.trail[i].by]) /\ l # d.clauses[d.trail[i].by][1]
         /\ Reason(d, i) # <<>>
<1> DEFINE s == d.clauses[d.trail[i].by]
           r == SubSeq(s, 2, Len(s))
<1>1. Reason(d, i) = r
  BY DEF Reason, Others
<1>2. s \in Seq(Literals) /\ Len(s) \in Nat /\ Len(s) >= 3 /\ Distinct(s)
  BY AttachedClause
<1> HIDE DEF s
<1>3. r \in Seq(Literals) /\ Len(r) = Len(s) - 1 /\ \A j \in 1..(Len(s) - 1) : r[j] = s[j + 1]
  BY <1>2
<1> HIDE DEF r
<1>4. ASSUME NEW l PROVE l \in ToSet(r) <=> l \in ToSet(s) /\ l # s[1]
  <2>1. l \in ToSet(r) <=> \E j \in 1..Len(r) : r[j] = l
    BY <1>3, ToSetFacts
  <2>2. l \in ToSet(s) <=> \E j \in 1..Len(s) : s[j] = l
    BY <1>2, ToSetFacts
  <2>3. ASSUME l \in ToSet(r) PROVE l \in ToSet(s) /\ l # s[1]
    <3>1. PICK j \in 1..(Len(s) - 1) : s[j + 1] = l
      BY <1>3, <2>1, <2>3
    <3>2. j + 1 \in 1..Len(s) /\ 1 \in 1..Len(s) /\ j + 1 # 1
      BY <1>2
    <3> QED
      BY <1>2, <2>2, <3>1, <3>2 DEF Distinct
  <2>4. ASSUME l \in ToSet(s), l # s[1] PROVE l \in ToSet(r)
    <3>1. PICK j \in 1..Len(s) : s[j] = l
      BY <2>2, <2>4
    <3>2. j - 1 \in 1..(Len(s) - 1) /\ (j - 1) + 1 = j
      BY <1>2, <2>4, <3>1
    <3>3. r[j - 1] = l
      BY <1>3, <3>1, <3>2
    <3> QED
      BY <1>3, <2>1, <3>2, <3>3
  <2> QED
    BY <2>3, <2>4
<1>5. r # <<>>
  BY <1>2, <1>3
<1> QED
  BY <1>1, <1>3, <1>4, <1>5 DEF s

(* The literals of a reason are false, and were before what they explain.  *)
LEMMA ReasonFacts ==
  ASSUME NEW d, DatabaseOK(d), NEW i \in 1..Len(d.trail)
  PROVE  /\ Reason(d, i) \in Seq(Literals) /\ ToSet(Reason(d, i)) \subseteq Literals
         /\ \A l \in ToSet(Reason(d, i)) : IsFalse(d.trail, l) /\ TrailIndex(d.trail, l) < i
<1>1. d \in Databases /\ IsTrail(d.trail) /\ ClausesOK(d) /\ EntryIsExplained(d, i)
  BY DEF DatabaseOK, ReasonsOK
<1>2. d.trail[i] \in Entries
  BY <1>1, TrailEntries
<1>3. d.trail[i].type \in {"DECISION", "UNIT", "BINARY", "CLAUSE"}
  BY <1>2 DEF Entries
<1>4. Reason(d, i) \in Seq(Literals)
  <2>1. CASE d.trail[i].type \in {"DECISION", "UNIT"}
    BY <2>1 DEF Reason
  <2>2. CASE d.trail[i].type = "BINARY"
    BY <1>1, <2>2 DEF Reason, EntryIsExplained
  <2>3. CASE d.trail[i].type = "CLAUSE"
    <3>1. d.trail[i].by \in 1..Len(d.clauses)
      BY <1>1, <2>3 DEF EntryIsExplained
    <3>2. d.clauses[d.trail[i].by] \in Seq(Literals)
      BY <1>1, <3>1, DatabaseTypes
    <3> QED
      BY <2>3, <3>2 DEF Reason, Others
  <2> QED
    BY <1>3, <2>1, <2>2, <2>3
<1>5. ToSet(Reason(d, i)) \subseteq Literals
  BY <1>4, ToSetFacts
<1>6. ASSUME NEW l \in ToSet(Reason(d, i)) PROVE IsFalse(d.trail, l) /\ TrailIndex(d.trail, l) < i
  <2>1. PICK j \in 1..(i - 1) : d.trail[j].literal = -l
    BY <1>1 DEF EntryIsExplained
  <2>2. j \in 1..Len(d.trail) /\ l \in Literals /\ i \in Int /\ j < i
    BY <1>1, <1>5, TrailEntries
  <2>3. TrailIndex(d.trail, l) = j
    BY <1>1, <2>1, <2>2, TrailFacts
  <2>4. IsFalse(d.trail, l)
    BY <2>1, <2>2 DEF IsFalse, IsTrue
  <2> QED
    BY <2>2, <2>3, <2>4
<1> QED
  BY <1>4, <1>5, <1>6
-----------------------------------------------------------------------------
(* The trail grows by entries that are explained, and is cut above a level.*)
LEMMA WithTrail ==
  ASSUME NEW d \in Databases, NEW u \in Seq(Entries), NEW e, e = [d EXCEPT !.trail = u]
  PROVE  /\ e \in Databases /\ e.trail = u /\ e.clauses = d.clauses
         /\ e.watchers = d.watchers /\ e.implications = d.implications
         /\ Attached(e) = Attached(d) /\ \A c : IsRemoved(e, c) = IsRemoved(d, c)
         /\ \A c : Watches(e, c) = Watches(d, c)
<1>1. /\ e \in Databases /\ e.trail = u /\ e.clauses = d.clauses
      /\ e.watchers = d.watchers /\ e.implications = d.implications
  BY DEF Databases
<1>2. \A c : IsRemoved(e, c) = IsRemoved(d, c)
  BY <1>1 DEF IsRemoved
<1>3. Attached(e) = Attached(d)
  BY <1>1, <1>2 DEF Attached
<1> QED
  BY <1>1, <1>2, <1>3 DEF Watches

(* An explanation only depends on the entries up to it.                    *)
LEMMA SameExplanation ==
  ASSUME NEW d, NEW e, e.clauses = d.clauses, e.implications = d.implications,
         NEW i \in Int, \A j \in 1..i : e.trail[j] = d.trail[j], i >= 1
  PROVE  Reason(e, i) = Reason(d, i) /\ EntryIsExplained(e, i) = EntryIsExplained(d, i)
<1>1. e.trail[i] = d.trail[i] /\ \A j \in 1..(i - 1) : e.trail[j] = d.trail[j]
  OBVIOUS
<1>2. Reason(e, i) = Reason(d, i)
  BY <1>1 DEF Reason
<1>3. Attached(e) = Attached(d)
  BY DEF Attached, IsRemoved
<1>4. \A l : (\E j \in 1..(i - 1) : e.trail[j].literal = -l) <=> (\E j \in 1..(i - 1) : d.trail[j].literal = -l)
  BY <1>1
<1>5. EntryIsExplained(e, i) <=> EntryIsExplained(d, i)
  BY <1>1, <1>2, <1>3, <1>4 DEF EntryIsExplained
<1>6. EntryIsExplained(e, i) \in BOOLEAN /\ EntryIsExplained(d, i) \in BOOLEAN
  BY DEF EntryIsExplained
<1> QED
  BY <1>2, <1>5, <1>6

(* A database stays right with a trail that is explained and forgets       *)
(* nothing fixed.                                                          *)
LEMMA OtherTrail ==
  ASSUME NEW d, DatabaseOK(d), NEW u, IsTrail(u), NEW e, e = [d EXCEPT !.trail = u],
         \A l \in Literals : FalseForGood(d.trail, l) => FalseForGood(u, l),
         \A i \in 1..Len(u) : EntryIsExplained(e, i)
  PROVE  DatabaseOK(e)
<1>1. d \in Databases /\ ClausesOK(d) /\ WatchesOK(d) /\ GraphOK(d) /\ u \in Seq(Entries)
  BY DEF DatabaseOK, IsTrail
<1>2. /\ e \in Databases /\ e.trail = u /\ e.clauses = d.clauses
      /\ e.watchers = d.watchers /\ e.implications = d.implications
      /\ Attached(e) = Attached(d) /\ \A c : Watches(e, c) = Watches(d, c)
  BY <1>1, WithTrail
<1>3. ClausesOK(e) /\ GraphOK(e) /\ ReasonsOK(e)
  BY <1>1, <1>2 DEF ClausesOK, GraphOK, ReasonsOK
<1>4. WatchesOK(e)
  <2>1. ASSUME NEW l \in Literals, NEW i \in 1..Len(d.watchers[l])
        PROVE WatcherOK(e, l, d.watchers[l][i])
    <3>1. WatcherOK(d, l, d.watchers[l][i]) /\ d.watchers[l][i].blocking \in Literals
      BY <1>1, DatabaseTypes DEF WatchesOK
    <3> QED
      BY <1>2, <3>1 DEF WatcherOK
  <2> QED
    BY <1>1, <1>2, <2>1 DEF WatchesOK
<1> QED
  BY <1>2, <1>3, <1>4 DEF DatabaseOK

(* A trail that goes on with explained entries.                            *)
LEMMA GrownTrail ==
  ASSUME NEW d, DatabaseOK(d), NEW u, IsTrail(u), Begins(d.trail, u),
         NEW e, e = [d EXCEPT !.trail = u],
         \A i \in (Len(d.trail) + 1)..Len(u) : EntryIsExplained(e, i)
  PROVE  DatabaseOK(e)
<1>1. d \in Databases /\ IsTrail(d.trail) /\ ReasonsOK(d) /\ u \in Seq(Entries)
  BY DEF DatabaseOK, IsTrail
<1>2. e.trail = u /\ e.clauses = d.clauses /\ e.implications = d.implications
  BY <1>1, WithTrail
<1>3. Len(d.trail) \in 0..Len(u) /\ Len(u) \in Nat /\ \A i \in 1..Len(d.trail) : i \in 1..Len(u) /\ d.trail[i] = u[i]
  BY <1>1, TrailEntries DEF Begins
<1>4. \A l \in Literals : FalseForGood(d.trail, l) => FalseForGood(u, l)
  BY <1>3 DEF FalseForGood
<1>5. ASSUME NEW i \in 1..Len(u) PROVE EntryIsExplained(e, i)
  <2>1. CASE i \in 1..Len(d.trail)
    <3>1. i \in Int /\ i >= 1 /\ \A j \in 1..i : e.trail[j] = d.trail[j]
      BY <1>2, <1>3, <2>1
    <3>2. EntryIsExplained(e, i) = EntryIsExplained(d, i)
      BY <1>2, <3>1, SameExplanation
    <3> QED
      BY <1>1, <2>1, <3>2 DEF ReasonsOK
  <2>2. CASE i \notin 1..Len(d.trail)
    <3>1. i \in (Len(d.trail) + 1)..Len(u)
      BY <1>3, <2>2
    <3> QED
      BY <3>1
  <2> QED
    BY <2>1, <2>2
<1> QED
  BY <1>4, <1>5, OtherTrail

(* A trail that is cut above level zero.                                   *)
LEMMA CutTrail ==
  ASSUME NEW d, DatabaseOK(d), NEW u, IsTrail(u), Begins(u, d.trail),
         \A i \in 1..Len(d.trail) : d.trail[i].level = 0 => i <= Len(u),
         NEW e, e = [d EXCEPT !.trail = u]
  PROVE  DatabaseOK(e)
<1>1. d \in Databases /\ IsTrail(d.trail) /\ ReasonsOK(d) /\ u \in Seq(Entries)
  BY DEF DatabaseOK, IsTrail
<1>2. e.trail = u /\ e.clauses = d.clauses /\ e.implications = d.implications
  BY <1>1, WithTrail
<1>3. Len(u) \in 0..Len(d.trail) /\ Len(d.trail) \in Nat /\ \A i \in 1..Len(u) : i \in 1..Len(d.trail) /\ d.trail[i] = u[i]
  BY <1>1, TrailEntries DEF Begins
<1>4. \A l \in Literals : FalseForGood(d.trail, l) => FalseForGood(u, l)
  <2> SUFFICES ASSUME NEW l \in Literals, FalseForGood(d.trail, l) PROVE FalseForGood(u, l)
    OBVIOUS
  <2>1. PICK i \in 1..Len(d.trail) : d.trail[i].literal = -l /\ d.trail[i].level = 0
    BY DEF FalseForGood
  <2>2. i \in 1..Len(u) /\ u[i] = d.trail[i]
    BY <1>3, <2>1
  <2> QED
    BY <2>1, <2>2 DEF FalseForGood
<1>5. ASSUME NEW i \in 1..Len(u) PROVE EntryIsExplained(e, i)
  <2>1. i \in Int /\ i >= 1 /\ \A j \in 1..i : e.trail[j] = d.trail[j]
    BY <1>2, <1>3
  <2>2. EntryIsExplained(e, i) = EntryIsExplained(d, i)
    BY <1>2, <2>1, SameExplanation
  <2> QED
    BY <1>1, <1>3, <2>2 DEF ReasonsOK
<1> QED
  BY <1>4, <1>5, OtherTrail
-----------------------------------------------------------------------------
(* Detached clauses, none of which is a reason above level zero.           *)
WithoutRemoved(s, removed) == {w \in ToSet(s) : w.clause \notin removed}

(* What Detach() changes.                                                  *)
LEMMA DetachFields ==
  ASSUME NEW d \in Databases, NEW removed, NEW e, e = Detach(d, removed)
  PROVE  /\ e \in Databases /\ e.trail = d.trail /\ e.implications = d.implications
         /\ Len(e.clauses) = Len(d.clauses)
         /\ \A c \in 1..Len(d.clauses) : e.clauses[c] = IF c \in removed THEN <<>> ELSE d.clauses[c]
         /\ \A l \in Literals :
              e.watchers[l] = Only(d.watchers[l], WithoutRemoved(d.watchers[l], removed))
         /\ Attached(e) = Attached(d) \ removed
         /\ \A c \in Attached(e) : e.clauses[c] = d.clauses[c]
<1> DEFINE C == [c \in DOMAIN d.clauses |-> IF c \in removed THEN <<>> ELSE d.clauses[c]]
           W == [l \in DOMAIN d.watchers |->
                   Only(d.watchers[l], WithoutRemoved(d.watchers[l], removed))]
<1>1. d.clauses \in Seq(Seq(Literals)) /\ DOMAIN d.clauses = 1..Len(d.clauses) /\ Len(d.clauses) \in Nat
  BY DatabaseTypes
<1>2. C \in Seq(Seq(Literals)) /\ Len(C) = Len(d.clauses)
  <2>1. C = [c \in 1..Len(d.clauses) |-> C[c]]
    BY <1>1
  <2>2. \A c \in 1..Len(d.clauses) : C[c] \in Seq(Literals)
    BY <1>1
  <2> HIDE DEF C
  <2> QED
    BY <1>1, <2>1, <2>2, FunctionIsSequence
<1>3. \A c \in 1..Len(d.clauses) : C[c] = IF c \in removed THEN <<>> ELSE d.clauses[c]
  BY <1>1
<1>4. DOMAIN d.watchers = Literals /\ \A l \in Literals : d.watchers[l] \in Seq(Watchers)
  BY DatabaseTypes
<1>5. W \in [Literals -> Seq(Watchers)]
  <2>1. \A l \in Literals : Only(d.watchers[l], WithoutRemoved(d.watchers[l], removed)) \in Seq(Watchers)
    BY <1>4, OnlyFacts
  <2> QED
    BY <1>4, <2>1
<1>6. \A l \in Literals : W[l] = Only(d.watchers[l], WithoutRemoved(d.watchers[l], removed))
  BY <1>4
<1>7. e = [d EXCEPT !.clauses = C, !.watchers = W]
  BY DEF Detach, WithoutRemoved
<1> HIDE DEF C, W
<1>8. e \in Databases /\ e.trail = d.trail /\ e.implications = d.implications /\ e.clauses = C /\ e.watchers = W
  BY <1>2, <1>5, <1>7 DEF Databases
<1>9. Attached(e) = Attached(d) \ removed
  BY <1>2, <1>3, <1>8 DEF Attached, IsRemoved
<1>10. \A c \in Attached(e) : e.clauses[c] = d.clauses[c]
  BY <1>3, <1>8, <1>9 DEF Attached
<1> QED
  BY <1>2, <1>3, <1>6, <1>8, <1>9, <1>10

(* Clauses that are no reasons above level zero can be detached.           *)
LEMMA DetachIsOK ==
  ASSUME NEW d, DatabaseOK(d), NEW removed, NEW e, e = Detach(d, removed),
         \A i \in 1..Len(d.trail) :
           d.trail[i].type = "CLAUSE" /\ d.trail[i].level > 0 => d.trail[i].by \notin removed
  PROVE  DatabaseOK(e)
<1>1. d \in Databases /\ IsTrail(d.trail) /\ ClausesOK(d) /\ WatchesOK(d) /\ GraphOK(d) /\ ReasonsOK(d)
  BY DEF DatabaseOK
<1>2. /\ e \in Databases /\ e.trail = d.trail /\ e.implications = d.implications
      /\ Len(e.clauses) = Len(d.clauses)
      /\ \A c \in 1..Len(d.clauses) : e.clauses[c] = IF c \in removed THEN <<>> ELSE d.clauses[c]
      /\ \A l \in Literals :
           e.watchers[l] = Only(d.watchers[l], WithoutRemoved(d.watchers[l], removed))
      /\ Attached(e) = Attached(d) \ removed
      /\ \A c \in Attached(e) : e.clauses[c] = d.clauses[c]
  BY <1>1, DetachFields
<1>3. ClausesOK(e)
  BY <1>1, <1>2 DEF ClausesOK
<1>4. GraphOK(e)
  BY <1>1, <1>2 DEF GraphOK
<1>5. WatchesOK(e)
  <2> SUFFICES ASSUME NEW l \in Literals
               PROVE /\ \A i, j \in 1..Len(e.watchers[l]) : e.watchers[l][i].clause = e.watchers[l][j].clause => i = j
                     /\ \A i \in 1..Len(e.watchers[l]) : WatcherOK(e, l, e.watchers[l][i])
                     /\ \A c \in Attached(e) : l \in Watches(e, c) =>
                          \E i \in 1..Len(e.watchers[l]) : e.watchers[l][i].clause = c
    BY DEF WatchesOK
  <2> DEFINE s == d.watchers[l]
             set == WithoutRemoved(s, removed)
             t == e.watchers[l]
  <2>1. /\ \A i, j \in 1..Len(s) : s[i].clause = s[j].clause => i = j
        /\ \A i \in 1..Len(s) : WatcherOK(d, l, s[i])
        /\ \A c \in Attached(d) : l \in Watches(d, c) => \E i \in 1..Len(s) : s[i].clause = c
    BY <1>1 DEF WatchesOK
  <2>2. s \in Seq(Watchers) /\ t = Only(s, set)
    BY <1>1, <1>2, DatabaseTypes
  <2>3. \A w : w \in set <=> w \in ToSet(s) /\ w.clause \notin removed
    BY DEF WithoutRemoved
  <2> HIDE DEF s, t, set
  <2>4. t \in Seq(Watchers)
    BY <2>2, OnlySelects
  <2>5. PICK f : IsSelection(s, set, t, f)
    BY <2>2, OnlySelects
  <2>6. /\ f \in [1..Len(t) -> 1..Len(s)]
        /\ \A i \in 1..Len(t) : t[i] = s[f[i]] /\ s[f[i]] \in set
        /\ \A i, j \in 1..Len(t) : i < j => f[i] < f[j]
        /\ \A j \in 1..Len(s) : s[j] \in set => \E i \in 1..Len(t) : f[i] = j
    BY <2>5 DEF IsSelection
  <2>7. \A i, j \in 1..Len(t) : t[i].clause = t[j].clause => i = j
    <3> SUFFICES ASSUME NEW i \in 1..Len(t), NEW j \in 1..Len(t), t[i].clause = t[j].clause, i # j PROVE FALSE
      OBVIOUS
    <3>1. f[i] = f[j]
      BY <2>1, <2>6
    <3>2. i < j \/ j < i
      BY <2>4
    <3> QED
      BY <2>6, <3>1, <3>2
  <2>8. ASSUME NEW i \in 1..Len(t) PROVE WatcherOK(e, l, t[i])
    <3>1. WatcherOK(d, l, t[i]) /\ t[i].clause \notin removed
      BY <2>1, <2>3, <2>6
    <3>2. t[i].clause \in Attached(e) /\ e.clauses[t[i].clause] = d.clauses[t[i].clause]
      BY <1>2, <3>1 DEF WatcherOK
    <3> QED
      BY <1>2, <3>1, <3>2 DEF WatcherOK, Watches
  <2>9. ASSUME NEW c \in Attached(e), l \in Watches(e, c) PROVE \E i \in 1..Len(t) : t[i].clause = c
    <3>1. c \in Attached(d) /\ c \notin removed /\ l \in Watches(d, c)
      BY <1>2, <2>9 DEF Watches
    <3>2. PICK j \in 1..Len(s) : s[j].clause = c
      BY <2>1, <3>1
    <3>3. s[j] \in set
      BY <2>2, <2>3, <3>1, <3>2, ToSetFacts
    <3>4. PICK i \in 1..Len(t) : f[i] = j
      BY <2>6, <3>3
    <3> QED
      BY <2>6, <3>2, <3>4
  <2> QED
    BY <2>7, <2>8, <2>9 DEF t
<1>6. ReasonsOK(e)
  <2> SUFFICES ASSUME NEW i \in 1..Len(d.trail) PROVE EntryIsExplained(e, i)
    BY <1>2 DEF ReasonsOK
  <2>1. EntryIsExplained(d, i)
    BY <1>1 DEF ReasonsOK
  <2>2. CASE d.trail[i].type # "CLAUSE"
    <3>1. Reason(e, i) = Reason(d, i)
      BY <1>2, <2>2 DEF Reason
    <3> QED
      BY <1>2, <2>1, <2>2, <3>1 DEF EntryIsExplained
  <2>3. CASE d.trail[i].type = "CLAUSE" /\ d.trail[i].by \notin removed
    <3>1. d.trail[i].by \in 1..Len(d.clauses)
      BY <2>1, <2>3 DEF EntryIsExplained
    <3>2. e.clauses[d.trail[i].by] = d.clauses[d.trail[i].by]
      BY <1>2, <2>3, <3>1
    <3>3. Reason(e, i) = Reason(d, i)
      BY <1>2, <2>3, <3>2 DEF Reason
    <3> QED
      BY <1>2, <2>1, <2>3, <3>1, <3>2, <3>3 DEF EntryIsExplained
  <2>4. CASE d.trail[i].type = "CLAUSE" /\ d.trail[i].by \in removed
    <3>1. d.trail[i].by \in 1..Len(d.clauses) /\ ~(d.trail[i].level > 0)
      BY <2>1, <2>4 DEF EntryIsExplained
    <3>2. e.clauses[d.trail[i].by] = <<>> /\ d.trail[i].by \notin Attached(e)
      BY <1>2, <2>4, <3>1
    <3>3. Reason(e, i) = <<>>
      BY <1>2, <2>4, <3>2 DEF Reason, Others
    <3>4. ToSet(Reason(e, i)) = {}
      BY <3>3 DEF ToSet
    <3> QED
      BY <1>2, <2>4, <3>1, <3>2, <3>4 DEF EntryIsExplained
  <2> QED
    BY <2>2, <2>3, <2>4
<1> QED
  BY <1>1, <1>2, <1>3, <1>4, <1>5, <1>6 DEF DatabaseOK
-----------------------------------------------------------------------------
(* Binary clauses.                                                         *)
WithImplications(d, a, b) ==
  [d EXCEPT !.implications = [d.implications EXCEPT ![-a] = Append(@, b), ![-b] = Append(@, a)]]

(* Two lists that one element each is appended to.                         *)
LEMMA AppendedTwice ==
  ASSUME NEW S, NEW g, DOMAIN g = S, NEW i \in S, NEW j \in S, i # j, NEW x, NEW y,
         NEW h, h = [g EXCEPT ![i] = Append(@, x), ![j] = Append(@, y)]
  PROVE  \A k \in S : h[k] = IF k = j THEN Append(g[k], y) ELSE IF k = i THEN Append(g[k], x) ELSE g[k]
OBVIOUS

(* A binary clause puts one implication in the list of either negation.    *)
LEMMA WithImplicationsFields ==
  ASSUME NEW d \in Databases, NEW a \in Literals, NEW b \in Literals, a # b,
         NEW e, e = WithImplications(d, a, b)
  PROVE  /\ e \in Databases /\ e.trail = d.trail /\ e.clauses = d.clauses /\ e.watchers = d.watchers
         /\ \A l, m \in Literals : m \in ToSet(e.implications[l]) <=>
              m \in ToSet(d.implications[l]) \/ (l = -a /\ m = b) \/ (l = -b /\ m = a)
         /\ Attached(e) = Attached(d) /\ \A c : Watches(e, c) = Watches(d, c)
<1> DEFINE g == d.implications
           h == [g EXCEPT ![-a] = Append(@, b), ![-b] = Append(@, a)]
<1>1. g \in [Literals -> Seq(Literals)]
  BY DatabaseTypes
<1>2. -a \in Literals /\ -b \in Literals /\ -a # -b
  BY LiteralFacts
<1>3. e = [d EXCEPT !.implications = h]
  BY DEF WithImplications
<1> HIDE DEF g
<1>9. DOMAIN g = Literals /\ DOMAIN h = Literals
  BY <1>1
<1>4. \A l \in Literals : h[l] = IF l = -b THEN Append(g[l], a) ELSE IF l = -a THEN Append(g[l], b) ELSE g[l]
  BY <1>2, <1>9, AppendedTwice
<1>5. h \in [Literals -> Seq(Literals)]
  <2>1. \A l \in Literals : h[l] \in Seq(Literals)
    <3> SUFFICES ASSUME NEW l \in Literals PROVE h[l] \in Seq(Literals)
      OBVIOUS
    <3> HIDE DEF h
    <3>1. g[l] \in Seq(Literals)
      BY <1>1
    <3>2. Append(g[l], a) \in Seq(Literals) /\ Append(g[l], b) \in Seq(Literals)
      BY <3>1
    <3> QED
      BY <1>4, <3>1, <3>2
  <2>2. h = [l \in Literals |-> h[l]]
    BY <1>9
  <2> HIDE DEF h
  <2> QED
    BY <2>1, <2>2
<1> HIDE DEF h
<1>6. /\ e \in Databases /\ e.trail = d.trail /\ e.clauses = d.clauses /\ e.watchers = d.watchers
      /\ e.implications = h
  BY <1>3, <1>5 DEF Databases
<1>7. ASSUME NEW l \in Literals, NEW m \in Literals
      PROVE m \in ToSet(h[l]) <=> m \in ToSet(g[l]) \/ (l = -a /\ m = b) \/ (l = -b /\ m = a)
  <2>1. g[l] \in Seq(Literals)
    BY <1>1
  <2>2. ToSet(Append(g[l], a)) = ToSet(g[l]) \cup {a} /\ ToSet(Append(g[l], b)) = ToSet(g[l]) \cup {b}
    BY <2>1, AppendFacts
  <2> QED
    BY <1>2, <1>4, <2>2
<1>8. Attached(e) = Attached(d) /\ \A c : Watches(e, c) = Watches(d, c)
  BY <1>6 DEF Attached, IsRemoved, Watches
<1> QED
  BY <1>6, <1>7, <1>8 DEF g

(* It keeps the graph as it should be.                                     *)
LEMMA WithImplicationsIsOK ==
  ASSUME NEW d, DatabaseOK(d), NEW a \in Literals, NEW b \in Literals, a # b, a # -b,
         NEW e, e = WithImplications(d, a, b)
  PROVE  DatabaseOK(e) /\ (IsSymmetric(d) => IsSymmetric(e))
<1>1. d \in Databases /\ IsTrail(d.trail) /\ ClausesOK(d) /\ WatchesOK(d) /\ GraphOK(d) /\ ReasonsOK(d)
  BY DEF DatabaseOK
<1>2. /\ e \in Databases /\ e.trail = d.trail /\ e.clauses = d.clauses /\ e.watchers = d.watchers
      /\ \A l, m \in Literals : m \in ToSet(e.implications[l]) <=>
           m \in ToSet(d.implications[l]) \/ (l = -a /\ m = b) \/ (l = -b /\ m = a)
      /\ Attached(e) = Attached(d) /\ \A c : Watches(e, c) = Watches(d, c)
  BY <1>1, WithImplicationsFields, SMTT(20)
<1>3. ClausesOK(e) /\ WatchesOK(e)
  BY <1>1, <1>2 DEF ClausesOK, WatchesOK, WatcherOK
<1>4. GraphOK(e) /\ (IsSymmetric(d) => IsSymmetric(e))
  <2> SUFFICES ASSUME NEW l \in Literals, NEW m \in Literals, m \in ToSet(e.implications[l])
               PROVE /\ m # l /\ m # -l
                     /\ IsSymmetric(d) => -l \in ToSet(e.implications[-m])
    BY DEF GraphOK, IsSymmetric
  <2>1. -l \in Literals /\ -m \in Literals /\ -(-l) = l /\ -(-m) = m /\ -(-a) = a /\ -(-b) = b
    BY LiteralFacts
  <2>2. CASE m \in ToSet(d.implications[l])
    <3>1. /\ m # l /\ m # -l
          /\ IsSymmetric(d) => -l \in ToSet(d.implications[-m])
      BY <1>1, <2>2 DEF GraphOK, IsSymmetric
    <3> QED
      BY <1>2, <2>1, <3>1
  <2>3. CASE l = -a /\ m = b
    BY <1>2, <2>1, <2>3
  <2>4. CASE l = -b /\ m = a
    BY <1>2, <2>1, <2>4
  <2> QED
    BY <1>2, <2>2, <2>3, <2>4
<1>5. ReasonsOK(e)
  <2> SUFFICES ASSUME NEW i \in 1..Len(d.trail) PROVE EntryIsExplained(e, i)
    BY <1>2 DEF ReasonsOK
  <2>1. EntryIsExplained(d, i) /\ d.trail[i].literal \in Literals
    BY <1>1, TrailEntries DEF ReasonsOK
  <2>2. Reason(e, i) = Reason(d, i)
    BY <1>2 DEF Reason
  <2>3. \A l \in Literals : d.trail[i].literal \in ToSet(d.implications[l]) => d.trail[i].literal \in ToSet(e.implications[l])
    BY <1>2, <2>1
  <2>4. d.trail[i].type = "BINARY" => -d.trail[i].by \in Literals
    BY <2>1, LiteralFacts DEF EntryIsExplained
  <2> QED
    BY <1>2, <2>1, <2>2, <2>3, <2>4 DEF EntryIsExplained
<1> QED
  BY <1>1, <1>2, <1>3, <1>4, <1>5 DEF DatabaseOK

(* An entry that a binary clause propagates.                               *)
LEMMA BinaryEntry ==
  ASSUME NEW d, DatabaseOK(d), NEW l \in Literals, NEW by \in Literals,
         ~IsAssigned(d.trail, l), IsFalse(d.trail, by), l \in ToSet(d.implications[-by]),
         NEW u, u = Enqueued(d.trail, l, CurrentLevel(d.trail), "BINARY", by),
         NEW e, e = [d EXCEPT !.trail = u]
  PROVE  DatabaseOK(e) /\ IsTrail(u) /\ Begins(d.trail, u)
<1>1. d \in Databases /\ IsTrail(d.trail)
  BY DEF DatabaseOK
<1>2. CurrentLevel(d.trail) \in Nat /\ CurrentLevel(d.trail) <= Len(d.trail) /\ Len(d.trail) \in Nat /\ by \in Int
  BY <1>1, CurrentLevelFacts, TrailEntries, LiteralFacts
<1>3. /\ IsTrail(u) /\ Begins(d.trail, u) /\ Len(u) = Len(d.trail) + 1
      /\ u[Len(u)].literal = l /\ u[Len(u)].type = "BINARY" /\ u[Len(u)].by = by
      /\ \A i \in 1..Len(d.trail) : i \in 1..Len(u) /\ u[i] = d.trail[i]
  BY <1>1, <1>2, EnqueuedFacts, SMTT(20)
<1>4. e.trail = u /\ e.clauses = d.clauses /\ e.implications = d.implications
  BY <1>1, <1>3, WithTrail DEF IsTrail
<1>5. PICK j \in 1..Len(d.trail) : d.trail[j].literal = -by
  BY DEF IsFalse, IsTrue
<1>6. EntryIsExplained(e, Len(u))
  <2>1. Reason(e, Len(u)) = <<by>>
    BY <1>3, <1>4 DEF Reason
  <2>2. ToSet(Reason(e, Len(u))) = {by}
    BY <2>1 DEF ToSet
  <2>3. j \in 1..(Len(u) - 1) /\ e.trail[j].literal = -by
    BY <1>2, <1>3, <1>4, <1>5
  <2> QED
    BY <1>3, <1>4, <2>2, <2>3 DEF EntryIsExplained
<1>7. \A i \in (Len(d.trail) + 1)..Len(u) : EntryIsExplained(e, i)
  <2>1. \A i \in (Len(d.trail) + 1)..Len(u) : i = Len(u)
    BY <1>2, <1>3
  <2> QED
    BY <1>6, <2>1
<1> QED
  BY <1>3, <1>7, GrownTrail

(* What AddBinaryClause() does.                                            *)
LEMMA AddBinaryClauseCases ==
  ASSUME NEW d, d \in Databases, NEW a \in Literals, NEW b \in Literals, a # b, a # -b,
         NEW g, g = WithImplications(d, a, b),
         NEW e, e = AddBinaryClause(d, a, b)
  PROVE  \/ e = g /\ (CurrentLevel(d.trail) = 0
                       \/ /\ IsFalse(d.trail, a) => IsAssigned(d.trail, b)
                          /\ IsFalse(d.trail, b) => IsAssigned(d.trail, a))
         \/ /\ IsFalse(d.trail, a) /\ ~IsAssigned(d.trail, b) /\ CurrentLevel(d.trail) # 0
            /\ e = [g EXCEPT !.trail = Enqueued(d.trail, b, CurrentLevel(d.trail), "BINARY", a)]
         \/ /\ IsFalse(d.trail, b) /\ ~IsAssigned(d.trail, a) /\ CurrentLevel(d.trail) # 0
            /\ e = [g EXCEPT !.trail = Enqueued(d.trail, a, CurrentLevel(d.trail), "BINARY", b)]
<1> DEFINE h == [d.implications EXCEPT ![-a] = Append(@, b), ![-b] = Append(@, a)]
           t == IF CurrentLevel(d.trail) = 0 THEN d.trail
                ELSE IF IsFalse(d.trail, a) /\ ~IsAssigned(d.trail, b)
                THEN Enqueued(d.trail, b, CurrentLevel(d.trail), "BINARY", a)
                ELSE IF IsFalse(d.trail, b) /\ ~IsAssigned(d.trail, a)
                THEN Enqueued(d.trail, a, CurrentLevel(d.trail), "BINARY", b) ELSE d.trail
<1>1. e = [d EXCEPT !.implications = h, !.trail = t]
  BY DEF AddBinaryClause
<1>2. g = [d EXCEPT !.implications = h]
  BY DEF WithImplications
<1> HIDE DEF h
<1>3. e = [g EXCEPT !.trail = t]
  BY <1>1, <1>2
<1>4. g \in Databases /\ g.trail = d.trail
  BY WithImplicationsFields
<1>5. t = d.trail => e = g
  BY <1>3, <1>4 DEF Databases
<1>6. CASE CurrentLevel(d.trail) = 0
  <2>1. e = g
    BY <1>5, <1>6
  <2> QED
    BY <1>6, <2>1
<1>7. CASE CurrentLevel(d.trail) # 0 /\ IsFalse(d.trail, a) /\ ~IsAssigned(d.trail, b)
  BY <1>3, <1>7
<1>8. CASE CurrentLevel(d.trail) # 0 /\ ~(IsFalse(d.trail, a) /\ ~IsAssigned(d.trail, b))
  <2>1. CASE IsFalse(d.trail, b) /\ ~IsAssigned(d.trail, a)
    BY <1>3, <1>8, <2>1
  <2>2. CASE ~(IsFalse(d.trail, b) /\ ~IsAssigned(d.trail, a))
    BY <1>5, <1>8, <2>2
  <2> QED
    BY <2>1, <2>2
<1> QED
  BY <1>6, <1>7, <1>8

(* AddBinaryClause() keeps the database right.                             *)
LEMMA AddBinaryClauseIsOK ==
  ASSUME NEW d, DatabaseOK(d), NEW a \in Literals, NEW b \in Literals, a # b,
         NEW e, e = AddBinaryClause(d, a, b)
  PROVE  DatabaseOK(e)
<1> DEFINE g == WithImplications(d, a, b)
<1>1. CASE a = -b
  BY <1>1 DEF AddBinaryClause
<1>2. CASE a # -b
  <2>1. d \in Databases /\ IsTrail(d.trail)
    BY DEF DatabaseOK
  <2>2. DatabaseOK(g)
    BY <1>2, WithImplicationsIsOK
  <2>3. /\ g.trail = d.trail
        /\ \A l, m \in Literals : m \in ToSet(g.implications[l]) <=>
             m \in ToSet(d.implications[l]) \/ (l = -a /\ m = b) \/ (l = -b /\ m = a)
    BY <2>1, WithImplicationsFields
  <2>4. -a \in Literals /\ -b \in Literals
    BY LiteralFacts
  <2>5. b \in ToSet(g.implications[-a]) /\ a \in ToSet(g.implications[-b])
    BY <2>3, <2>4
  <2>6. \/ e = g
        \/ /\ IsFalse(d.trail, a) /\ ~IsAssigned(d.trail, b)
           /\ e = [g EXCEPT !.trail = Enqueued(d.trail, b, CurrentLevel(d.trail), "BINARY", a)]
        \/ /\ IsFalse(d.trail, b) /\ ~IsAssigned(d.trail, a)
           /\ e = [g EXCEPT !.trail = Enqueued(d.trail, a, CurrentLevel(d.trail), "BINARY", b)]
    BY <1>2, <2>1, AddBinaryClauseCases
  <2> HIDE DEF g
  <2> QED
    BY <2>2, <2>3, <2>5, <2>6, BinaryEntry
<1> QED
  BY <1>1, <1>2
-----------------------------------------------------------------------------
(* The literals of a clause change their places.                           *)
Reordered(s, t) ==
  /\ t \in Seq(Literals) /\ Len(t) = Len(s)
  /\ \A x : x \in ToSet(t) <=> x \in ToSet(s)
  /\ Distinct(s) => Distinct(t)

(* A clause that is reordered twice is reordered.                          *)
LEMMA ReorderedTwice ==
  ASSUME NEW s, NEW t, NEW u, Reordered(s, t), Reordered(t, u)
  PROVE  Reordered(s, u)
BY DEF Reordered

(* A clause in its own order.                                              *)
LEMMA NotReordered ==
  ASSUME NEW s \in Seq(Literals)
  PROVE  Reordered(s, s)
BY DEF Reordered

(* Two literals that are swapped.                                          *)
LEMMA SwappedFacts ==
  ASSUME NEW s \in Seq(Literals), NEW i \in 1..Len(s), NEW j \in 1..Len(s), NEW t, t = Swapped(s, i, j)
  PROVE  /\ Reordered(s, t) /\ t[i] = s[j] /\ t[j] = s[i]
         /\ \A k \in 1..Len(s) : k # i /\ k # j => t[k] = s[k]
<1>1. DOMAIN s = 1..Len(s) /\ Len(s) \in Nat /\ \A k \in 1..Len(s) : s[k] \in Literals
  OBVIOUS
<1>2. \A k \in 1..Len(s) : t[k] = IF k = j THEN s[i] ELSE IF k = i THEN s[j] ELSE s[k]
  BY <1>1 DEF Swapped
<1>3. t \in Seq(Literals) /\ Len(t) = Len(s)
  BY <1>1 DEF Swapped
<1>4. t[i] = s[j] /\ t[j] = s[i] /\ \A k \in 1..Len(s) : k # i /\ k # j => t[k] = s[k]
  BY <1>2
<1>5. ASSUME NEW x PROVE x \in ToSet(t) <=> x \in ToSet(s)
  <2>1. x \in ToSet(t) <=> \E k \in 1..Len(t) : t[k] = x
    BY <1>3, ToSetFacts
  <2>2. x \in ToSet(s) <=> \E k \in 1..Len(s) : s[k] = x
    BY ToSetFacts
  <2>3. ASSUME NEW k \in 1..Len(s), s[k] = x PROVE \E m \in 1..Len(t) : t[m] = x
    <3>1. CASE k = i
      BY <1>3, <1>4, <2>3, <3>1
    <3>2. CASE k = j
      BY <1>3, <1>4, <2>3, <3>2
    <3>3. CASE k # i /\ k # j
      BY <1>3, <1>4, <2>3, <3>3
    <3> QED
      BY <3>1, <3>2, <3>3
  <2>4. ASSUME NEW k \in 1..Len(t), t[k] = x PROVE \E m \in 1..Len(s) : s[m] = x
    BY <1>2, <1>3, <2>4
  <2> QED
    BY <2>1, <2>2, <2>3, <2>4
<1>6. ASSUME Distinct(s) PROVE Distinct(t)
  <2> SUFFICES ASSUME NEW k \in 1..Len(s), NEW m \in 1..Len(s), t[k] = t[m] PROVE k = m
    BY <1>3 DEF Distinct
  <2>1. \A a, b \in 1..Len(s) : s[a] = s[b] => a = b
    BY <1>6 DEF Distinct
  <2> QED
    BY <1>2, <2>1
<1> QED
  BY <1>3, <1>4, <1>5, <1>6 DEF Reordered

(* LastAssignedSecond() puts a literal of the highest level in second      *)
(* place.                                                                  *)
LEMMA SecondIsLatest ==
  ASSUME NEW t, IsTrail(t), NEW s \in Seq(Literals), Len(s) >= 2, Distinct(s),
         \A i \in 2..Len(s) : IsFalse(t, s[i]),
         NEW u, u = LastAssignedSecond(t, s)
  PROVE  /\ Reordered(s, u) /\ u[1] = s[1]
         /\ \A i \in 2..Len(u) : IsFalse(t, u[i]) /\ LevelOf(t, u[i]) <= LevelOf(t, u[2])
<1>1. Len(s) \in Nat
  OBVIOUS
<1>2. PICK f : /\ f[2] = s /\ \A i \in 3..Len(s) : f[i] = LaterSecond(t, f[i - 1], i)
               /\ LastAssignedSecond(t, s) = f[Len(s)]
  BY <1>1, SecondLoop
<1> DEFINE KeptBy(v, i) == /\ Reordered(s, v) /\ v[1] = s[1]
                         /\ \A j \in 2..i : LevelOf(t, v[j]) <= LevelOf(t, v[2])
           Good == {i \in Nat : i \in 2..Len(s) => KeptBy(f[i], i)}
<1>3. ASSUME NEW v, Reordered(s, v), v[1] = s[1], NEW i \in 2..Len(s)
      PROVE  v \in Seq(Literals) /\ Len(v) = Len(s) /\ v[i] \in Literals /\ IsFalse(t, v[i]) /\ LevelOf(t, v[i]) \in Nat
  <2>1. v \in Seq(Literals) /\ Len(v) = Len(s) /\ Distinct(v) /\ v[i] \in ToSet(s)
    BY <1>3, ToSetFacts DEF Reordered
  <2>2. PICK j \in 1..Len(s) : s[j] = v[i]
    BY <2>1, ToSetFacts
  <2>3. j # 1
    BY <1>3, <2>1, <2>2 DEF Distinct
  <2>4. IsFalse(t, v[i]) /\ v[i] \in Literals
    BY <2>1, <2>2, <2>3
  <2>5. LevelOf(t, v[i]) \in Nat
    BY <2>4, TrailFacts DEF IsAssigned
  <2> QED
    BY <2>1, <2>4, <2>5
<1>4. 0 \in Good
  OBVIOUS
<1>5. ASSUME NEW i \in Nat, i \in Good PROVE i + 1 \in Good
  <2> SUFFICES ASSUME i + 1 \in 2..Len(s) PROVE KeptBy(f[i + 1], i + 1)
    OBVIOUS
  <2>1. CASE i + 1 = 2
    <3>1. f[i + 1] = s
      BY <1>2, <2>1
    <3>2. Reordered(s, s) /\ LevelOf(t, s[2]) \in Nat
      BY <1>3, NotReordered
    <3> QED
      BY <2>1, <3>1, <3>2
  <2>2. CASE i + 1 # 2
    <3>1. i \in 2..Len(s) /\ i + 1 \in 3..Len(s) /\ (i + 1) - 1 = i
      BY <2>2
    <3> DEFINE v == f[i]
    <3>2. KeptBy(v, i)
      BY <1>5, <3>1
    <3>3. f[i + 1] = LaterSecond(t, v, i + 1)
      BY <1>2, <3>1
    <3> HIDE DEF v
    <3>4. v \in Seq(Literals) /\ Len(v) = Len(s) /\ \A j \in 2..Len(s) : LevelOf(t, v[j]) \in Nat
      BY <1>3, <3>1, <3>2
    <3>5. CASE LevelOf(t, v[i + 1]) > LevelOf(t, v[2])
      <4> DEFINE w == f[i + 1]
      <4>1. w = Swapped(v, 2, i + 1)
        BY <3>3, <3>5 DEF LaterSecond
      <4> HIDE DEF w
      <4>2. 2 \in 1..Len(v) /\ i + 1 \in 1..Len(v)
        BY <3>1, <3>4
      <4>3. /\ Reordered(v, w) /\ w[2] = v[i + 1] /\ w[i + 1] = v[2]
            /\ \A k \in 1..Len(v) : k # 2 /\ k # i + 1 => w[k] = v[k]
        BY <3>4, <4>1, <4>2, SwappedFacts
      <4>4. Reordered(s, w) /\ w[1] = s[1]
        BY <3>1, <3>2, <3>4, <4>2, <4>3, ReorderedTwice
      <4>5. ASSUME NEW j \in 2..(i + 1) PROVE LevelOf(t, w[j]) <= LevelOf(t, w[2])
        <5>1. j \in 1..Len(v) /\ LevelOf(t, v[2]) \in Nat /\ LevelOf(t, v[i + 1]) \in Nat
          BY <3>1, <3>4
        <5>2. CASE j = 2
          BY <4>3, <5>1, <5>2
        <5>3. CASE j = i + 1
          BY <3>5, <4>3, <5>1, <5>3
        <5>4. CASE j # 2 /\ j # i + 1
          <6>1. w[j] = v[j] /\ j \in 2..i /\ LevelOf(t, v[j]) \in Nat
            BY <3>1, <3>4, <4>3, <5>1, <5>4, SMTT(20)
          <6>2. LevelOf(t, v[j]) <= LevelOf(t, v[2])
            BY <3>2, <6>1
          <6> QED
            BY <3>5, <4>3, <5>1, <6>1, <6>2
        <5> QED
          BY <5>2, <5>3, <5>4
      <4> QED
        BY <4>4, <4>5 DEF w
    <3>6. CASE ~(LevelOf(t, v[i + 1]) > LevelOf(t, v[2]))
      <4>1. f[i + 1] = v
        BY <3>3, <3>6 DEF LaterSecond
      <4>2. \A j \in 2..(i + 1) : LevelOf(t, v[j]) <= LevelOf(t, v[2])
        <5> SUFFICES ASSUME NEW j \in 2..(i + 1) PROVE LevelOf(t, v[j]) <= LevelOf(t, v[2])
          OBVIOUS
        <5>1. CASE j \in 2..i
          BY <3>2, <5>1
        <5>2. CASE j = i + 1
          BY <3>1, <3>4, <3>6, <5>2
        <5> QED
          BY <3>1, <5>1, <5>2
      <4> QED
        BY <3>2, <4>1, <4>2
    <3> QED
      BY <3>5, <3>6
  <2> QED
    BY <2>1, <2>2
<1>6. KeptBy(f[Len(s)], Len(s))
  <2>1. Len(s) \in Good
    <3> HIDE DEF Good
    <3> QED
      BY <1>1, <1>4, <1>5, SetInduction
  <2> QED
    BY <1>1, <2>1
<1>7. KeptBy(u, Len(s))
  BY <1>2, <1>6
<1>8. Len(u) = Len(s) /\ \A i \in 2..Len(s) : IsFalse(t, u[i])
  BY <1>1, <1>3, <1>7
<1> QED
  BY <1>7, <1>8

(* The order of AttachAndPropagate(): a literal that is not false, then    *)
(* another one or, when all others are false, one of the highest level.    *)
LEMMA WatchedOrderFacts ==
  ASSUME NEW t, IsTrail(t), NEW s \in Seq(Literals), Len(s) >= 2, Distinct(s),
         \E i \in 1..Len(s) : ~IsFalse(t, s[i]),
         NEW u, u = WatchedOrder(t, s)
  PROVE  /\ Reordered(s, u) /\ ~IsFalse(t, u[1])
         /\ IsFalse(t, u[2]) =>
              \A i \in 2..Len(u) : IsFalse(t, u[i]) /\ LevelOf(t, u[i]) <= LevelOf(t, u[2])
<1> DEFINE free == {i \in 1..Len(s) : ~IsFalse(t, s[i])}
           a == Min(free)
           first == Swapped(s, 1, a)
           b == Min(free \ {a})
<1>1. Len(s) \in Nat /\ IsFiniteSet(1..Len(s))
  BY FS_Interval
<1>2. IsFiniteSet(free) /\ free \in SUBSET Int /\ free # {}
  BY <1>1, FS_Subset
<1>3. u = IF Cardinality(free) > 1 THEN Swapped(first, 2, b) ELSE LastAssignedSecond(t, first)
  BY Zenon DEF WatchedOrder
<1>4. \A i : i \in free <=> i \in 1..Len(s) /\ ~IsFalse(t, s[i])
  OBVIOUS
<1> HIDE DEF free
<1>5. a \in free /\ \A i \in free : a <= i
  BY <1>2, MinOfSet
<1>6. a \in 1..Len(s) /\ 1 \in 1..Len(s) /\ 2 \in 1..Len(s) /\ ~IsFalse(t, s[a])
  BY <1>1, <1>4, <1>5
<1> HIDE DEF a, first
<1>7. /\ Reordered(s, first) /\ first[1] = s[a] /\ first[a] = s[1]
      /\ \A k \in 1..Len(s) : k # 1 /\ k # a => first[k] = s[k]
  BY <1>6, SwappedFacts DEF first
<1>8. first \in Seq(Literals) /\ Len(first) = Len(s) /\ Distinct(first)
  BY <1>7 DEF Reordered
<1>9. CASE Cardinality(free) > 1
  <2>1. free \ {a} # {} /\ IsFiniteSet(free \ {a}) /\ free \ {a} \in SUBSET Int
    <3>1. IsFiniteSet(free \ {a}) /\ Cardinality(free \ {a}) = Cardinality(free) - 1
      BY <1>2, <1>5, FS_RemoveElement
    <3>2. Cardinality(free) \in Nat
      BY <1>2, FS_CardinalityType
    <3>3. Cardinality(free \ {a}) # 0
      BY <1>9, <3>1, <3>2
    <3> QED
      BY <1>2, <3>1, <3>3, FS_EmptySet
  <2>2. b \in free \ {a}
    BY <2>1, MinOfSet
  <2>3. b \in 1..Len(s) /\ b # a /\ ~IsFalse(t, s[b]) /\ a <= b
    BY <1>4, <1>5, <2>2
  <2>4. b # 1
    BY <1>1, <1>6, <2>3
  <2>5. first[b] = s[b]
    BY <1>7, <2>3, <2>4
  <2>6. u = Swapped(first, 2, b)
    BY <1>3, <1>9
  <2> HIDE DEF b
  <2>7. /\ Reordered(first, u) /\ u[2] = first[b]
        /\ \A k \in 1..Len(first) : k # 2 /\ k # b => u[k] = first[k]
    BY <1>6, <1>8, <2>3, <2>6, SwappedFacts
  <2>8. u[1] = first[1]
    BY <1>6, <1>8, <2>4, <2>7
  <2> QED
    BY <1>6, <1>7, <2>3, <2>5, <2>7, <2>8, ReorderedTwice
<1>10. CASE ~(Cardinality(free) > 1)
  <2>1. \A i \in free : i = a
    <3> SUFFICES ASSUME NEW i \in free, i # a PROVE FALSE
      OBVIOUS
    <3>1. Cardinality(free) \in Nat /\ Cardinality(free) # 0
      BY <1>2, FS_CardinalityType, FS_EmptySet
    <3>2. Cardinality(free) = 1
      BY <1>10, <3>1
    <3>3. PICK x : free = {x}
      BY <1>2, <3>2, FS_Singleton
    <3> QED
      BY <1>5, <3>3
  <2>2. \A i \in 2..Len(first) : IsFalse(t, first[i])
    <3> SUFFICES ASSUME NEW i \in 2..Len(s) PROVE IsFalse(t, first[i])
      BY <1>8
    <3>1. CASE i = a
      <4>1. 1 \notin free
        BY <2>1, <3>1
      <4> QED
        BY <1>4, <1>6, <1>7, <3>1, <4>1
    <3>2. CASE i # a
      <4>1. i \notin free /\ i \in 1..Len(s)
        BY <1>1, <2>1, <3>2
      <4> QED
        BY <1>4, <1>7, <3>2, <4>1
    <3> QED
      BY <3>1, <3>2
  <2>3. u = LastAssignedSecond(t, first)
    BY <1>3, <1>10
  <2>4. /\ Reordered(first, u) /\ u[1] = first[1]
        /\ \A i \in 2..Len(u) : IsFalse(t, u[i]) /\ LevelOf(t, u[i]) <= LevelOf(t, u[2])
    BY <1>8, <2>2, <2>3, SecondIsLatest
  <2> QED
    BY <1>6, <1>7, <2>4, ReorderedTwice
<1> QED
  BY <1>9, <1>10

-----------------------------------------------------------------------------
(* All but the watches.                                                    *)
BodyOK(q) == q \in Databases /\ IsTrail(q.trail) /\ ClausesOK(q) /\ GraphOK(q) /\ ReasonsOK(q)

(* GrownTrail, without the watches.                                        *)
LEMMA GrownBody ==
  ASSUME NEW d, BodyOK(d), NEW u, IsTrail(u), Begins(d.trail, u),
         NEW e, e = [d EXCEPT !.trail = u],
         \A i \in (Len(d.trail) + 1)..Len(u) : EntryIsExplained(e, i)
  PROVE  BodyOK(e)
<1>1. d \in Databases /\ IsTrail(d.trail) /\ ReasonsOK(d) /\ ClausesOK(d) /\ GraphOK(d) /\ u \in Seq(Entries)
  BY DEF BodyOK, IsTrail
<1>2. /\ e \in Databases /\ e.trail = u /\ e.clauses = d.clauses /\ e.implications = d.implications
      /\ Attached(e) = Attached(d)
  BY <1>1, WithTrail
<1>3. Len(d.trail) \in 0..Len(u) /\ Len(u) \in Nat /\ \A i \in 1..Len(d.trail) : i \in 1..Len(u) /\ d.trail[i] = u[i]
  BY <1>1, TrailEntries DEF Begins
<1>4. ClausesOK(e) /\ GraphOK(e)
  BY <1>1, <1>2 DEF ClausesOK, GraphOK
<1>5. ASSUME NEW i \in 1..Len(u) PROVE EntryIsExplained(e, i)
  <2>1. CASE i \in 1..Len(d.trail)
    <3>1. i \in Int /\ i >= 1 /\ \A j \in 1..i : e.trail[j] = d.trail[j]
      BY <1>2, <1>3, <2>1
    <3>2. EntryIsExplained(e, i) = EntryIsExplained(d, i)
      BY <1>2, <3>1, SameExplanation
    <3> QED
      BY <1>1, <2>1, <3>2 DEF ReasonsOK
  <2>2. CASE i \notin 1..Len(d.trail)
    <3>1. i \in (Len(d.trail) + 1)..Len(u)
      BY <1>3, <2>2
    <3> QED
      BY <3>1
  <2> QED
    BY <2>1, <2>2
<1>6. ReasonsOK(e)
  BY <1>2, <1>5 DEF ReasonsOK
<1> QED
  BY <1>2, <1>4, <1>6 DEF BodyOK

(* An entry that a clause propagates.                                      *)
LEMMA ClauseEntryBody ==
  ASSUME NEW d, BodyOK(d), NEW c \in Attached(d),
         ~IsAssigned(d.trail, d.clauses[c][1]),
         \A i \in 2..Len(d.clauses[c]) : IsFalse(d.trail, d.clauses[c][i]),
         NEW u, u = Enqueued(d.trail, d.clauses[c][1], CurrentLevel(d.trail), "CLAUSE", c),
         NEW e, e = [d EXCEPT !.trail = u]
  PROVE  /\ BodyOK(e) /\ IsTrail(u) /\ Begins(d.trail, u) /\ CurrentLevel(u) = CurrentLevel(d.trail)
         /\ Len(u) = Len(d.trail) + 1 /\ u[Len(u)].type = "CLAUSE" /\ u[Len(u)].literal = d.clauses[c][1]
<1> DEFINE s == d.clauses[c]
           l == s[1]
<1>1. d \in Databases /\ IsTrail(d.trail) /\ ClausesOK(d)
  BY DEF BodyOK
<1>2. /\ c \in 1..Len(d.clauses) /\ s \in Seq(Literals) /\ Len(s) \in Nat /\ Len(s) >= 3
      /\ Distinct(s) /\ l \in Literals /\ 1 \in 1..Len(s)
  BY <1>1, AttachedClause
<1>3. CurrentLevel(d.trail) \in Nat /\ CurrentLevel(d.trail) <= Len(d.trail) /\ Len(d.trail) \in Nat /\ c \in Int
  BY <1>1, <1>2, CurrentLevelFacts, TrailEntries, DatabaseTypes
<1> HIDE DEF s, l
<1>4. /\ ~IsAssigned(d.trail, l) /\ \A i \in 2..Len(s) : IsFalse(d.trail, s[i])
      /\ u = Enqueued(d.trail, l, CurrentLevel(d.trail), "CLAUSE", c)
  BY DEF s, l
<1>5. /\ IsTrail(u) /\ Begins(d.trail, u) /\ Len(u) = Len(d.trail) + 1
      /\ u[Len(u)].literal = l /\ u[Len(u)].type = "CLAUSE" /\ u[Len(u)].by = c
      /\ CurrentLevel(u) = CurrentLevel(d.trail)
      /\ \A i \in 1..Len(d.trail) : i \in 1..Len(u) /\ u[i] = d.trail[i]
  <2>1. ~IsAssigned(d.trail, l) /\ u = Enqueued(d.trail, l, CurrentLevel(d.trail), "CLAUSE", c)
    BY <1>4
  <2>2. IsTrail(d.trail) /\ l \in Literals
    BY <1>1, <1>2
  <2> QED
    BY <1>3, <2>1, <2>2, EnqueuedFacts, SMTT(20)
<1>6. /\ e.trail = u /\ e.clauses = d.clauses /\ e.implications = d.implications
      /\ e \in Databases /\ Attached(e) = Attached(d)
  BY <1>1, <1>5, WithTrail DEF IsTrail
<1>7. ClausesOK(e)
  BY <1>1, <1>6 DEF ClausesOK
<1>8. EntryIsExplained(e, Len(u))
  <2>1. Len(u) \in 1..Len(e.trail) /\ e.trail[Len(u)].by = c /\ e.trail[Len(u)].type = "CLAUSE"
    BY <1>3, <1>5, <1>6
  <2>4. e.clauses[e.trail[Len(u)].by] = s /\ s[1] = l /\ e.trail[Len(u)].by \in Attached(e)
    BY <1>6, <2>1 DEF s, l
  <2>5. \A m : m \in ToSet(Reason(e, Len(u))) <=>
           m \in ToSet(e.clauses[e.trail[Len(u)].by]) /\ m # e.clauses[e.trail[Len(u)].by][1]
    BY <1>6, <1>7, <2>1, <2>4, ReasonOfClause
  <2>2. \A m : m \in ToSet(Reason(e, Len(u))) <=> m \in ToSet(s) /\ m # l
    BY <2>4, <2>5
  <2>3. ASSUME NEW m \in ToSet(Reason(e, Len(u)))
        PROVE \E j \in 1..(Len(u) - 1) : e.trail[j].literal = -m
    <3>1. m \in ToSet(s) /\ m # l
      BY <2>2, <2>3
    <3>2. PICK i \in 1..Len(s) : s[i] = m
      BY <1>2, <3>1, ToSetFacts
    <3>3. i \in 2..Len(s)
      BY <1>2, <3>1, <3>2 DEF l
    <3>4. PICK j \in 1..Len(d.trail) : d.trail[j].literal = -m
      BY <1>4, <3>2, <3>3 DEF IsFalse, IsTrue
    <3>5. j \in 1..(Len(u) - 1) /\ e.trail[j].literal = -m
      BY <1>3, <1>5, <1>6, <3>4
    <3> QED
      BY <3>5
  <2> QED
    BY <1>2, <1>5, <1>6, <2>1, <2>3 DEF EntryIsExplained, s, l
<1>9. \A i \in (Len(d.trail) + 1)..Len(u) : EntryIsExplained(e, i)
  <2>1. \A i \in (Len(d.trail) + 1)..Len(u) : i = Len(u)
    BY <1>3, <1>5
  <2> QED
    BY <1>8, <2>1
<1>10. BodyOK(e)
  BY <1>5, <1>9, GrownBody
<1> QED
  BY <1>5, <1>10 DEF l, s

(* A literal that an attached clause propagates, which comes first in it.  *)
LEMMA ClauseEntry ==
  ASSUME NEW d, DatabaseOK(d), NEW c \in Attached(d),
         ~IsAssigned(d.trail, d.clauses[c][1]),
         \A i \in 2..Len(d.clauses[c]) : IsFalse(d.trail, d.clauses[c][i]),
         NEW u, u = Enqueued(d.trail, d.clauses[c][1], CurrentLevel(d.trail), "CLAUSE", c),
         NEW e, e = [d EXCEPT !.trail = u]
  PROVE  DatabaseOK(e) /\ IsTrail(u) /\ Begins(d.trail, u)
<1>1. BodyOK(d) /\ d \in Databases /\ IsTrail(d.trail)
  BY DEF DatabaseOK, BodyOK
<1>2. BodyOK(e) /\ IsTrail(u) /\ Begins(d.trail, u)
  BY <1>1, ClauseEntryBody
<1>3. e.trail = u /\ ReasonsOK(e)
  BY <1>1, <1>2 DEF BodyOK, Databases
<1>4. \A i \in (Len(d.trail) + 1)..Len(u) : EntryIsExplained(e, i)
  <2>1. \A i \in (Len(d.trail) + 1)..Len(u) : i \in 1..Len(u)
    BY <1>1, <1>2, TrailEntries
  <2> QED
    BY <1>3, <2>1 DEF ReasonsOK
<1> QED
  BY <1>2, <1>4, GrownTrail
-----------------------------------------------------------------------------
(* A clause is attached.                                                   *)
WithClause(d, lits) ==
  [d EXCEPT !.clauses = Append(@, lits),
            !.watchers = [d.watchers EXCEPT
               ![lits[1]] = Append(@, Watcher(Len(d.clauses) + 1, lits[2], 3)),
               ![lits[2]] = Append(@, Watcher(Len(d.clauses) + 1, lits[1], 3))]]

(* What AddClause() adds, but for what it propagates.                      *)
LEMMA WithClauseFields ==
  ASSUME NEW d \in Databases, NEW lits \in Seq(Literals), Len(lits) >= 3, lits[1] # lits[2],
         NEW e, e = WithClause(d, lits), NEW n, n = Len(d.clauses) + 1
  PROVE  /\ e \in Databases /\ e.trail = d.trail /\ e.implications = d.implications
         /\ Len(e.clauses) = n /\ n \in Nat \ {0} /\ e.clauses[n] = lits
         /\ \A c \in 1..Len(d.clauses) : e.clauses[c] = d.clauses[c]
         /\ Attached(e) = Attached(d) \cup {n} /\ n \notin Attached(d)
         /\ \A l \in Literals :
              e.watchers[l] = IF l = lits[2] THEN Append(d.watchers[l], Watcher(n, lits[1], 3))
                              ELSE IF l = lits[1] THEN Append(d.watchers[l], Watcher(n, lits[2], 3))
                              ELSE d.watchers[l]
<1> DEFINE g == d.watchers
           x == Watcher(n, lits[2], 3)
           y == Watcher(n, lits[1], 3)
           a == lits[1]
           b == lits[2]
           h == [g EXCEPT ![a] = Append(@, x), ![b] = Append(@, y)]
           C == Append(d.clauses, lits)
<1>1. d.clauses \in Seq(Seq(Literals)) /\ Len(d.clauses) \in Nat /\ g \in [Literals -> Seq(Watchers)]
  BY DatabaseTypes
<1>2. a \in Literals /\ b \in Literals /\ a # b
  OBVIOUS
<1>3. n \in Nat \ {0}
  BY <1>1
<1>4. x \in Watchers /\ y \in Watchers
  BY <1>2, <1>3 DEF Watchers, Watcher
<1>5. e = [d EXCEPT !.clauses = C, !.watchers = h]
  BY DEF WithClause
<1>6. /\ C \in Seq(Seq(Literals)) /\ Len(C) = n /\ C[n] = lits
      /\ \A c \in 1..Len(d.clauses) : C[c] = d.clauses[c]
  BY <1>1
<1> HIDE DEF x, y, a, b, C, g
<1>7. DOMAIN g = Literals /\ DOMAIN h = Literals
  BY <1>1
<1>8. \A l \in Literals : h[l] = IF l = b THEN Append(g[l], y) ELSE IF l = a THEN Append(g[l], x) ELSE g[l]
  BY <1>2, <1>7, AppendedTwice
<1>9. h \in [Literals -> Seq(Watchers)]
  <2>1. \A l \in Literals : h[l] \in Seq(Watchers)
    <3> SUFFICES ASSUME NEW l \in Literals PROVE h[l] \in Seq(Watchers)
      OBVIOUS
    <3> HIDE DEF h
    <3>1. g[l] \in Seq(Watchers)
      BY <1>1
    <3>2. Append(g[l], x) \in Seq(Watchers) /\ Append(g[l], y) \in Seq(Watchers)
      BY <1>4, <3>1
    <3> QED
      BY <1>8, <3>1, <3>2
  <2>2. h = [l \in Literals |-> h[l]]
    BY <1>7
  <2> HIDE DEF h
  <2> QED
    BY <2>1, <2>2
<1> HIDE DEF h
<1>10. /\ e \in Databases /\ e.trail = d.trail /\ e.implications = d.implications
       /\ e.clauses = C /\ e.watchers = h
  BY <1>5, <1>6, <1>9 DEF Databases
<1>11. lits # <<>>
  OBVIOUS
<1>12. Attached(e) = Attached(d) \cup {n} /\ n \notin Attached(d)
  <2>1. \A c : c \in 1..n <=> c \in 1..Len(d.clauses) \/ c = n
    BY <1>1, SMTT(20)
  <2>2. n \notin 1..Len(d.clauses)
    BY <1>1
  <2>3. Attached(e) = {c \in 1..n : C[c] # <<>>}
    BY <1>6, <1>10 DEF Attached, IsRemoved
  <2>4. Attached(d) = {c \in 1..Len(d.clauses) : d.clauses[c] # <<>>}
    BY DEF Attached, IsRemoved
  <2> QED
    BY <1>6, <1>11, <2>1, <2>2, <2>3, <2>4
<1> QED
  BY <1>3, <1>6, <1>8, <1>10, <1>12 DEF a, b, x, y, g

(* A new clause is watched by its first two literals.                      *)
LEMMA WithClauseIsOK ==
  ASSUME NEW d, DatabaseOK(d), NEW lits \in Seq(Literals), Len(lits) >= 3, Distinct(lits),
         NEW e, e = WithClause(d, lits)
  PROVE  DatabaseOK(e)
<1> DEFINE n == Len(d.clauses) + 1
           a == lits[1]
           b == lits[2]
<1>1. d \in Databases /\ IsTrail(d.trail) /\ ClausesOK(d) /\ WatchesOK(d) /\ GraphOK(d) /\ ReasonsOK(d)
  BY DEF DatabaseOK
<1>2. a # b /\ a \in Literals /\ b \in Literals /\ a \in ToSet(lits) /\ b \in ToSet(lits) /\ Len(lits) \in Nat
  <2>1. 1 \in 1..Len(lits) /\ 2 \in 1..Len(lits)
    OBVIOUS
  <2> QED
    BY <2>1, ToSetFacts DEF Distinct
<1>3. /\ e \in Databases /\ e.trail = d.trail /\ e.implications = d.implications
      /\ Len(e.clauses) = n /\ n \in Nat \ {0} /\ e.clauses[n] = lits
      /\ \A c \in 1..Len(d.clauses) : e.clauses[c] = d.clauses[c]
      /\ Attached(e) = Attached(d) \cup {n} /\ n \notin Attached(d)
      /\ \A l \in Literals :
           e.watchers[l] = IF l = b THEN Append(d.watchers[l], Watcher(n, a, 3))
                           ELSE IF l = a THEN Append(d.watchers[l], Watcher(n, b, 3))
                           ELSE d.watchers[l]
  BY <1>1, <1>2, WithClauseFields
<1> HIDE DEF a, b
<1>4. \A c \in Attached(d) : c \in 1..Len(d.clauses) /\ e.clauses[c] = d.clauses[c] /\ Watches(e, c) = Watches(d, c)
  BY <1>3 DEF Attached, Watches
<1>5. Watches(e, n) = {a, b}
  BY <1>3 DEF Watches, a, b
<1> HIDE DEF n
<1>6. ClausesOK(e) /\ GraphOK(e)
  BY <1>1, <1>3, <1>4 DEF ClausesOK, GraphOK
<1>7. WatchesOK(e)
  <2> SUFFICES ASSUME NEW l \in Literals
               PROVE /\ \A i, j \in 1..Len(e.watchers[l]) : e.watchers[l][i].clause = e.watchers[l][j].clause => i = j
                     /\ \A i \in 1..Len(e.watchers[l]) : WatcherOK(e, l, e.watchers[l][i])
                     /\ \A c \in Attached(e) : l \in Watches(e, c) =>
                          \E i \in 1..Len(e.watchers[l]) : e.watchers[l][i].clause = c
    BY DEF WatchesOK
  <2> DEFINE s == d.watchers[l]
             t == e.watchers[l]
  <2>1. s \in Seq(Watchers) /\ Len(s) \in Nat
    BY <1>1, DatabaseTypes
  <2>2. /\ \A i, j \in 1..Len(s) : s[i].clause = s[j].clause => i = j
        /\ \A i \in 1..Len(s) : WatcherOK(d, l, s[i])
        /\ \A c \in Attached(d) : l \in Watches(d, c) => \E i \in 1..Len(s) : s[i].clause = c
    BY <1>1 DEF WatchesOK
  <2>3. \A w : WatcherOK(d, l, w) => WatcherOK(e, l, w)
    BY <1>3, <1>4 DEF WatcherOK
  <2>4. \A i \in 1..Len(s) : s[i].clause # n
    BY <1>3, <2>2 DEF WatcherOK
  <2>5. CASE l \in {a, b}
    <3> DEFINE x == IF l = a THEN b ELSE a
               w == Watcher(n, x, 3)
    <3>1. t = Append(s, w)
      BY <1>2, <1>3, <2>5
    <3>2. w.clause = n /\ w.blocking = x /\ x \in ToSet(lits) /\ w \in Watchers
      BY <1>2, <1>3 DEF Watcher, Watchers
    <3>3. WatcherOK(e, l, w)
      BY <1>3, <1>5, <2>5, <3>2 DEF WatcherOK
    <3> HIDE DEF s, t, w, x
    <3>4. Len(t) = Len(s) + 1 /\ t[Len(s) + 1] = w /\ \A i \in 1..Len(s) : t[i] = s[i]
      BY <2>1, <3>1, <3>2, AppendFacts
    <3>5. \A i : i \in 1..Len(t) <=> i \in 1..Len(s) \/ i = Len(s) + 1
      BY <2>1, <3>4
    <3>6. \A i, j \in 1..Len(t) : t[i].clause = t[j].clause => i = j
      BY <2>2, <2>4, <3>2, <3>4, <3>5
    <3>7. \A i \in 1..Len(t) : WatcherOK(e, l, t[i])
      BY <2>2, <2>3, <3>3, <3>4, <3>5
    <3>8. ASSUME NEW c \in Attached(e), l \in Watches(e, c) PROVE \E i \in 1..Len(t) : t[i].clause = c
      <4>1. CASE c = n
        BY <3>2, <3>4, <3>5, <4>1
      <4>2. CASE c \in Attached(d)
        <5>1. PICK i \in 1..Len(s) : s[i].clause = c
          BY <1>4, <2>2, <3>8, <4>2
        <5> QED
          BY <3>4, <3>5, <5>1
      <4> QED
        BY <1>3, <4>1, <4>2
    <3> QED
      BY <3>6, <3>7, <3>8 DEF t
  <2>6. CASE l \notin {a, b}
    <3>1. t = s
      BY <1>3, <2>6
    <3>2. ASSUME NEW c \in Attached(e), l \in Watches(e, c) PROVE \E i \in 1..Len(t) : t[i].clause = c
      <4>1. c \in Attached(d)
        BY <1>3, <1>5, <2>6, <3>2
      <4> QED
        BY <1>4, <2>2, <3>1, <3>2, <4>1
    <3> HIDE DEF s, t
    <3>3. /\ \A i, j \in 1..Len(t) : t[i].clause = t[j].clause => i = j
          /\ \A i \in 1..Len(t) : WatcherOK(e, l, t[i])
      BY <2>2, <2>3, <3>1
    <3> QED
      BY <3>2, <3>3 DEF t
  <2> QED
    BY <2>5, <2>6
<1>8. ReasonsOK(e)
  <2> SUFFICES ASSUME NEW i \in 1..Len(d.trail) PROVE EntryIsExplained(e, i)
    BY <1>3 DEF ReasonsOK
  <2>1. EntryIsExplained(d, i)
    BY <1>1 DEF ReasonsOK
  <2>2. CASE d.trail[i].type # "CLAUSE"
    <3>1. Reason(e, i) = Reason(d, i)
      BY <1>3, <2>2 DEF Reason
    <3> QED
      BY <1>3, <2>1, <2>2, <3>1 DEF EntryIsExplained
  <2>3. CASE d.trail[i].type = "CLAUSE"
    <3>1. d.trail[i].by \in 1..Len(d.clauses) /\ Len(d.clauses) \in Nat
      BY <1>1, <2>1, <2>3, DatabaseTypes DEF EntryIsExplained
    <3>2. e.clauses[d.trail[i].by] = d.clauses[d.trail[i].by] /\ d.trail[i].by # n /\ d.trail[i].by \in 1..n
      BY <1>3, <3>1, SMTT(20) DEF n
    <3>3. Reason(e, i) = Reason(d, i)
      BY <1>3, <2>3, <3>2 DEF Reason
    <3> QED
      BY <1>3, <2>1, <2>3, <3>1, <3>2, <3>3 DEF EntryIsExplained
  <2> QED
    BY <2>2, <2>3
<1> QED
  BY <1>1, <1>3, <1>6, <1>7, <1>8 DEF DatabaseOK

(* What Attach() does.                                                     *)
LEMMA AttachInOrderCases ==
  ASSUME NEW d \in Databases, NEW lits \in Seq(Literals), Len(lits) >= 3, lits[1] # lits[2],
         NEW g, g = WithClause(d, lits), NEW e, e = AttachInOrder(d, lits)
  PROVE  \/ e = g /\ (IsFalse(d.trail, lits[2]) => IsTrue(d.trail, lits[1]))
         \/ /\ IsFalse(d.trail, lits[2]) /\ ~IsTrue(d.trail, lits[1])
            /\ e = [g EXCEPT !.trail = Enqueued(d.trail, lits[1], CurrentLevel(d.trail), "CLAUSE", Len(d.clauses) + 1)]
<1> DEFINE C == Append(d.clauses, lits)
           W == [d.watchers EXCEPT
                  ![lits[1]] = Append(@, Watcher(Len(d.clauses) + 1, lits[2], 3)),
                  ![lits[2]] = Append(@, Watcher(Len(d.clauses) + 1, lits[1], 3))]
           u == Enqueued(d.trail, lits[1], CurrentLevel(d.trail), "CLAUSE", Len(d.clauses) + 1)
           t == IF IsFalse(d.trail, lits[2]) /\ ~IsTrue(d.trail, lits[1]) THEN u ELSE d.trail
<1>1. e = [d EXCEPT !.clauses = C, !.watchers = W, !.trail = t]
  BY DEF AttachInOrder
<1>2. g = [d EXCEPT !.clauses = C, !.watchers = W]
  BY DEF WithClause
<1> HIDE DEF C, W
<1>3. e = [g EXCEPT !.trail = t]
  BY <1>1, <1>2
<1>4. g \in Databases /\ g.trail = d.trail
  BY WithClauseFields
<1>5. t = d.trail => e = g
  BY <1>3, <1>4 DEF Databases
<1> HIDE DEF u
<1>6. CASE IsFalse(d.trail, lits[2]) /\ ~IsTrue(d.trail, lits[1])
  <2>1. t = u
    BY <1>6
  <2> QED
    BY <1>3, <1>6, <2>1 DEF u
<1>7. CASE ~(IsFalse(d.trail, lits[2]) /\ ~IsTrue(d.trail, lits[1]))
  BY <1>5, <1>7
<1> QED
  BY <1>6, <1>7

AttachedInOrder(t, literals, lits) ==
  /\ Reordered(literals, lits) /\ ~IsFalse(t, lits[1])
  /\ IsFalse(t, lits[2]) =>
       \A i \in 2..Len(lits) : IsFalse(t, lits[i]) /\ LevelOf(t, lits[i]) <= LevelOf(t, lits[2])

(* A clause propagates its first literal, when it has to.                  *)
GrownByOne(t, u, lits) ==
  \/ u = t /\ (IsFalse(t, lits[2]) => IsTrue(t, lits[1]))
  \/ /\ IsFalse(t, lits[2]) /\ ~IsAssigned(t, lits[1])
     /\ Len(u) = Len(t) + 1 /\ u[Len(u)].literal = lits[1] /\ u[Len(u)].type = "CLAUSE"

(* Attach() keeps the database right: its clause is new, in an order to    *)
(* watch, and propagates its first literal or none.                        *)
LEMMA AttachIsOK ==
  ASSUME NEW d, DatabaseOK(d), NEW literals \in Seq(Literals), Len(literals) >= 3, Distinct(literals),
         \E i \in 1..Len(literals) : ~IsFalse(d.trail, literals[i]),
         NEW e, e = Attach(d, literals), NEW n, n = Len(d.clauses) + 1
  PROVE  /\ DatabaseOK(e) /\ Begins(d.trail, e.trail) /\ CurrentLevel(e.trail) = CurrentLevel(d.trail)
         /\ Len(e.clauses) = n /\ n \in Nat \ {0} /\ n \notin Attached(d)
         /\ Attached(e) = Attached(d) \cup {n} /\ e.implications = d.implications
         /\ \A c \in 1..Len(d.clauses) : e.clauses[c] = d.clauses[c]
         /\ AttachedInOrder(d.trail, literals, e.clauses[n]) /\ GrownByOne(d.trail, e.trail, e.clauses[n])
<1> DEFINE lits == WatchedOrder(d.trail, literals)
           g == WithClause(d, lits)
<1>1. d \in Databases /\ IsTrail(d.trail) /\ Len(d.trail) \in Nat
  BY TrailEntries DEF DatabaseOK
<1>2. e = AttachInOrder(d, lits)
  <2>1. e = The({AttachInOrder(d, x) : x \in {lits}})
    BY DEF Attach
  <2>2. {AttachInOrder(d, x) : x \in {lits}} = {AttachInOrder(d, lits)}
    OBVIOUS
  <2> QED
    BY <2>1, <2>2, TheOfOne
<1>3. AttachedInOrder(d.trail, literals, lits)
  BY <1>1, WatchedOrderFacts DEF AttachedInOrder
<1> HIDE DEF lits
<1>4. lits \in Seq(Literals) /\ Len(lits) >= 3 /\ Distinct(lits)
  BY <1>3 DEF Reordered, AttachedInOrder
<1>5. lits[1] # lits[2]
  BY <1>4 DEF Distinct
<1>6. DatabaseOK(g)
  BY <1>4, WithClauseIsOK
<1>7. /\ g.trail = d.trail /\ g.implications = d.implications /\ Len(g.clauses) = n
      /\ n \in Nat \ {0} /\ g.clauses[n] = lits
      /\ \A c \in 1..Len(d.clauses) : g.clauses[c] = d.clauses[c]
      /\ Attached(g) = Attached(d) \cup {n} /\ n \notin Attached(d)
  BY <1>1, <1>4, <1>5, WithClauseFields
<1>8. \/ e = g /\ (IsFalse(d.trail, lits[2]) => IsTrue(d.trail, lits[1]))
      \/ /\ IsFalse(d.trail, lits[2]) /\ ~IsTrue(d.trail, lits[1])
         /\ e = [g EXCEPT !.trail = Enqueued(d.trail, lits[1], CurrentLevel(d.trail), "CLAUSE", n)]
  BY <1>1, <1>2, <1>4, <1>5, AttachInOrderCases
<1> HIDE DEF g
<1>9. CASE e = g /\ (IsFalse(d.trail, lits[2]) => IsTrue(d.trail, lits[1]))
  <2>1. Begins(d.trail, d.trail)
    BY <1>1 DEF Begins
  <2>2. GrownByOne(d.trail, e.trail, lits)
    BY <1>7, <1>9 DEF GrownByOne
  <2> QED
    BY <1>3, <1>6, <1>7, <1>9, <2>1, <2>2
<1>10. CASE /\ IsFalse(d.trail, lits[2]) /\ ~IsTrue(d.trail, lits[1])
            /\ e = [g EXCEPT !.trail = Enqueued(d.trail, lits[1], CurrentLevel(d.trail), "CLAUSE", n)]
  <2> DEFINE u == Enqueued(d.trail, lits[1], CurrentLevel(d.trail), "CLAUSE", n)
  <2>1. ~IsAssigned(d.trail, lits[1])
    BY <1>3, <1>10 DEF IsAssigned, AttachedInOrder
  <2>2. \A i \in 2..Len(lits) : IsFalse(d.trail, lits[i])
    BY <1>3, <1>10 DEF AttachedInOrder
  <2>3. n \in Attached(g) /\ BodyOK(g) /\ g \in Databases /\ g.trail = d.trail /\ g.clauses[n] = lits
    BY <1>6, <1>7 DEF DatabaseOK, BodyOK
  <2>4. u = Enqueued(g.trail, g.clauses[n][1], CurrentLevel(g.trail), "CLAUSE", n) /\ e = [g EXCEPT !.trail = u]
    BY <1>10, <2>3
  <2>5. ~IsAssigned(g.trail, g.clauses[n][1]) /\ \A i \in 2..Len(g.clauses[n]) : IsFalse(g.trail, g.clauses[n][i])
    BY <2>1, <2>2, <2>3
  <2> HIDE DEF u
  <2>a. n \in Attached(g)
    BY <2>3
  <2>b. ~IsAssigned(g.trail, g.clauses[n][1])
    BY <2>5
  <2>c. \A i \in 2..Len(g.clauses[n]) : IsFalse(g.trail, g.clauses[n][i])
    BY <2>5
  <2>d. u = Enqueued(g.trail, g.clauses[n][1], CurrentLevel(g.trail), "CLAUSE", n)
    BY <2>4
  <2>e. e = [g EXCEPT !.trail = u]
    BY <2>4
  <2>6. DatabaseOK(e)
    BY <1>6, <2>a, <2>b, <2>c, <2>d, <2>e, ClauseEntry
  <2>f. BodyOK(g)
    BY <2>3
  <2>7. /\ IsTrail(u) /\ Begins(g.trail, u) /\ CurrentLevel(u) = CurrentLevel(g.trail)
        /\ Len(u) = Len(g.trail) + 1 /\ u[Len(u)].type = "CLAUSE" /\ u[Len(u)].literal = g.clauses[n][1]
    BY <2>a, <2>b, <2>c, <2>d, <2>e, <2>f, ClauseEntryBody, SMTT(90)
  <2>8. /\ e.trail = u /\ e.clauses = g.clauses /\ e.implications = g.implications
        /\ Attached(e) = Attached(g)
    BY <2>3, <2>4, <2>7, WithTrail DEF IsTrail
  <2>9. GrownByOne(d.trail, e.trail, lits)
    BY <1>10, <2>1, <2>3, <2>7, <2>8 DEF GrownByOne
  <2> QED
    BY <1>3, <1>7, <2>3, <2>6, <2>7, <2>8, <2>9
<1> QED
  BY <1>8, <1>9, <1>10
-----------------------------------------------------------------------------
(* PropagateOnFalse(): a watcher is inspected.                             *)
Inspecteds ==
  [clauses : Seq(Seq(Literals)), watchers : [Literals -> Seq(Watchers)], trail : Seq(Entries),
   kept : Seq(Watchers), conflict : Seq(Literals), failing : Nat]

Other(literals, false_literal) ==
  IF literals[1] = false_literal THEN literals[2] ELSE literals[1]
Candidates(t, literals) == {i \in 3..Len(literals) : ~IsFalse(t, literals[i])}
WithOther(literals, other, k, false_literal) ==
  [literals EXCEPT ![1] = other, ![2] = literals[k], ![k] = false_literal]
Propagating(literals, other, false_literal) ==
  [literals EXCEPT ![1] = other, ![2] = false_literal]

Replaced(f, i, x) == [f EXCEPT ![i] = x]
Watching(r, c, literals, l, w) == [r EXCEPT !.clauses[c] = literals, !.watchers[l] = Append(@, w)]
Failing(r, literals, c) == [r EXCEPT !.conflict = literals, !.failing = c]
PropagatedBy(r, c, literals, t) == [r EXCEPT !.clauses[c] = literals, !.trail = t]

(* Fields that an inspection does not change.                              *)
SameClauses(r, q) == q.clauses = r.clauses /\ q.watchers = r.watchers
SameFailure(r, q) == q.conflict = r.conflict /\ q.failing = r.failing

(* Types, and what a watcher that is kept changes.                         *)
LEMMA KeptFields ==
  ASSUME NEW r \in Inspecteds, NEW w, w \in Watchers, NEW q, q = Kept(r, w)
  PROVE  /\ q \in Inspecteds /\ SameClauses(r, q) /\ SameFailure(r, q)
         /\ q.trail = r.trail /\ q.kept = Append(r.kept, w)
<1> DEFINE K == Append(r.kept, w)
<1>1. r.kept \in Seq(Watchers)
  BY DEF Inspecteds
<1>2. K \in Seq(Watchers)
  BY <1>1
<1>3. q = [r EXCEPT !.kept = K]
  BY DEF Kept
<1> HIDE DEF K
<1>4. /\ q \in Inspecteds /\ SameClauses(r, q) /\ SameFailure(r, q)
      /\ q.trail = r.trail /\ q.kept = K
  BY <1>2, <1>3 DEF Inspecteds, SameClauses, SameFailure
<1> QED
  BY <1>4 DEF K

(* ... a watcher that is moved.                                            *)
LEMMA WatchingFields ==
  ASSUME NEW r \in Inspecteds, NEW c \in 1..Len(r.clauses), NEW s \in Seq(Literals),
         NEW l \in Literals, NEW w \in Watchers,
         NEW q, q = Watching(r, c, s, l, w)
  PROVE  /\ q \in Inspecteds /\ SameFailure(r, q) /\ q.trail = r.trail /\ q.kept = r.kept
         /\ q.clauses = Replaced(r.clauses, c, s)
         /\ \A m \in Literals : q.watchers[m] = IF m = l THEN Append(r.watchers[m], w) ELSE r.watchers[m]
<1> DEFINE C == [r.clauses EXCEPT ![c] = s]
           W == [r.watchers EXCEPT ![l] = Append(r.watchers[l], w)]
<1>1. r.clauses \in Seq(Seq(Literals)) /\ r.watchers \in [Literals -> Seq(Watchers)]
  BY DEF Inspecteds
<1>2. C \in Seq(Seq(Literals))
  BY <1>1
<1>3. W \in [Literals -> Seq(Watchers)]
  BY <1>1
<1>4. q = [r EXCEPT !.clauses = C, !.watchers = W]
  BY DEF Watching
<1>6. \A m \in Literals : W[m] = IF m = l THEN Append(r.watchers[m], w) ELSE r.watchers[m]
  BY <1>1
<1> HIDE DEF C, W
<1>5. /\ q \in Inspecteds /\ SameFailure(r, q) /\ q.trail = r.trail /\ q.kept = r.kept
      /\ q.clauses = C /\ q.watchers = W
  BY <1>2, <1>3, <1>4 DEF Inspecteds, SameFailure
<1> QED
  BY <1>5, <1>6 DEF C, Replaced

(* ... a clause that fails.                                                *)
LEMMA FailingFields ==
  ASSUME NEW r \in Inspecteds, NEW s \in Seq(Literals), NEW c \in Nat,
         NEW q, q = Failing(r, s, c)
  PROVE  /\ q \in Inspecteds /\ SameClauses(r, q) /\ q.trail = r.trail /\ q.kept = r.kept
         /\ q.conflict = s /\ q.failing = c
BY DEF Inspecteds, SameClauses, Failing

(* ... a clause that propagates.                                           *)
LEMMA PropagatingFields ==
  ASSUME NEW r \in Inspecteds, NEW c \in 1..Len(r.clauses), NEW s \in Seq(Literals),
         NEW u \in Seq(Entries), NEW q, q = PropagatedBy(r, c, s, u)
  PROVE  /\ q \in Inspecteds /\ SameFailure(r, q) /\ q.kept = r.kept /\ q.watchers = r.watchers
         /\ q.clauses = Replaced(r.clauses, c, s) /\ q.trail = u
<1> DEFINE C == [r.clauses EXCEPT ![c] = s]
<1>1. r.clauses \in Seq(Seq(Literals))
  BY DEF Inspecteds
<1>2. C \in Seq(Seq(Literals))
  BY <1>1
<1>3. q = [r EXCEPT !.clauses = C, !.trail = u]
  BY DEF PropagatedBy
<1> HIDE DEF C
<1>4. /\ q \in Inspecteds /\ SameFailure(r, q) /\ q.kept = r.kept /\ q.watchers = r.watchers
      /\ q.clauses = C /\ q.trail = u
  BY <1>2, <1>3 DEF Inspecteds, SameFailure
<1> QED
  BY <1>4 DEF C, Replaced

(* What may become of a watcher.                                           *)
InspectedAs(r, w, c, literals, other, false_literal, q) ==
  \/ IsTrue(r.trail, w.blocking) /\ q = Kept(r, w)
  \/ IsTrue(r.trail, other) /\ q = Kept(r, [w EXCEPT !.blocking = other])
  \/ /\ ~IsTrue(r.trail, other)
     /\ \E k \in Candidates(r.trail, literals) :
          q = Watching(r, c, WithOther(literals, other, k, false_literal),
                       literals[k], Watcher(c, other, k + 1))
  \/ /\ Candidates(r.trail, literals) = {} /\ IsFalse(r.trail, other)
     /\ q = Failing(Kept(r, w), literals, c)
  \/ /\ ~IsAssigned(r.trail, other) /\ Candidates(r.trail, literals) = {}
     /\ q = PropagatedBy(Kept(r, w), c, Propagating(literals, other, false_literal),
               Enqueued(r.trail, other, CurrentLevel(r.trail), "CLAUSE", c))

(* Inspected() is one of these.                                            *)
LEMMA InspectedCases ==
  ASSUME NEW r \in Inspecteds, NEW w, w \in Watchers, NEW false_literal,
         NEW literals \in Seq(Literals), literals = r.clauses[w.clause],
         NEW other, other = Other(literals, false_literal),
         NEW q, q = Inspected(r, w, false_literal)
  PROVE  InspectedAs(r, w, w.clause, literals, other, false_literal, q)
<1> DEFINE candidates == Candidates(r.trail, literals)
           k == NextToWatch(candidates, w.start)
           F == false_literal
<1>1. candidates # {} => k \in candidates
  <2> SUFFICES ASSUME candidates # {} PROVE k \in candidates
    OBVIOUS
  <2> DEFINE ahead == {i \in candidates : i >= w.start}
             set == IF ahead # {} THEN ahead ELSE candidates
  <2>1. candidates \subseteq 3..Len(literals) /\ Len(literals) \in Nat
    BY DEF Candidates
  <2>2. candidates \subseteq 1..Len(literals) /\ candidates \subseteq Int /\ IsFiniteSet(1..Len(literals))
    <3>1. IsFiniteSet(1..Len(literals))
      BY <2>1, CardinalityOfInterval
    <3> QED
      BY <2>1, <3>1
  <2>3. k = Min(set)
    BY DEF NextToWatch
  <2>4. set \subseteq candidates /\ set # {}
    OBVIOUS
  <2> HIDE DEF candidates, set
  <2>5. IsFiniteSet(set) /\ set \in SUBSET Int
    <3>1. IsFiniteSet(candidates)
      BY <2>2, FS_Subset
    <3> QED
      BY <2>2, <2>4, <3>1, FS_Subset
  <2> QED
    BY <2>3, <2>4, <2>5, MinOfSet
<1> DEFINE watching == WithOther(literals, other, k, F)
           propagating == Propagating(literals, other, F)
           q1 == Kept(r, w)
           q2 == Kept(r, [w EXCEPT !.blocking = other])
           q3 == [r EXCEPT !.clauses[w.clause] = watching,
                           !.watchers[literals[k]] = Append(@, Watcher(w.clause, other, k + 1))]
           q4 == [Kept(r, w) EXCEPT !.conflict = literals, !.failing = w.clause]
           q5 == [Kept(r, w) EXCEPT
                    !.clauses[w.clause] = propagating,
                    !.trail = Enqueued(@, other, CurrentLevel(@), "CLAUSE", w.clause)]
<1>2. q = IF IsTrue(r.trail, w.blocking) THEN q1
          ELSE IF IsTrue(r.trail, other) THEN q2
          ELSE IF candidates # {} THEN q3
          ELSE IF IsFalse(r.trail, other) THEN q4
          ELSE q5
  BY Zenon DEF Inspected, Other, Candidates, WithOther, Propagating
<1> HIDE DEF q1, q2, q3, q4, q5, candidates, k
<1>3. CASE IsTrue(r.trail, w.blocking)
  BY <1>2, <1>3 DEF q1, InspectedAs
<1>4. CASE ~IsTrue(r.trail, w.blocking) /\ IsTrue(r.trail, other)
  BY <1>2, <1>4 DEF q2, InspectedAs
<1>5. CASE ~IsTrue(r.trail, w.blocking) /\ ~IsTrue(r.trail, other) /\ candidates # {}
  <2>1. q = q3 /\ k \in candidates
    BY <1>1, <1>2, <1>5
  <2>2. q = Watching(r, w.clause, WithOther(literals, other, k, F), literals[k], Watcher(w.clause, other, k + 1))
    BY <2>1 DEF q3, Watching
  <2>3. k \in Candidates(r.trail, literals)
    BY <2>1 DEF candidates
  <2> QED
    BY <1>5, <2>2, <2>3 DEF InspectedAs
<1>6. CASE ~IsTrue(r.trail, w.blocking) /\ ~IsTrue(r.trail, other) /\ candidates = {} /\ IsFalse(r.trail, other)
  BY <1>2, <1>6 DEF q4, candidates, Failing, InspectedAs
<1>7. CASE ~IsTrue(r.trail, w.blocking) /\ ~IsTrue(r.trail, other) /\ candidates = {} /\ ~IsFalse(r.trail, other)
  <2>1. q = q5 /\ ~IsAssigned(r.trail, other)
    BY <1>2, <1>7 DEF IsAssigned
  <2>2. Kept(r, w).trail = r.trail
    BY KeptFields
  <2>3. q = PropagatedBy(Kept(r, w), w.clause, propagating,
               Enqueued(Kept(r, w).trail, other, CurrentLevel(Kept(r, w).trail), "CLAUSE", w.clause))
    BY <2>1 DEF q5, PropagatedBy
  <2> QED
    BY <1>7, <2>1, <2>2, <2>3 DEF candidates, InspectedAs
<1> QED
  BY <1>3, <1>4, <1>5, <1>6, <1>7

(* A clause that propagates has the watched literals in front, what it     *)
(* propagates first.                                                       *)
LEMMA PropagatingFacts ==
  ASSUME NEW s \in Seq(Literals), Len(s) >= 3, Distinct(s), NEW F, F = s[1] \/ F = s[2],
         NEW other, other = Other(s, F), NEW u, u = Propagating(s, other, F)
  PROVE  /\ Reordered(s, u) /\ u[1] = other /\ u[2] = F /\ \A i \in 3..Len(s) : u[i] = s[i]
         /\ other # F /\ ((s[1] = other /\ s[2] = F) \/ (s[1] = F /\ s[2] = other)) /\ other \in Literals
<1>1. /\ DOMAIN s = 1..Len(s) /\ Len(s) \in Nat /\ \A k \in 1..Len(s) : s[k] \in Literals
      /\ 1 \in 1..Len(s) /\ 2 \in 1..Len(s)
  OBVIOUS
<1>2. s[1] # s[2]
  BY <1>1 DEF Distinct
<1>3. CASE F = s[1]
  <2>1. other = s[2]
    BY <1>3 DEF Other
  <2>2. u = Swapped(s, 1, 2)
    BY <1>1, <1>3, <2>1 DEF Propagating, Swapped
  <2>3. /\ Reordered(s, u) /\ u[1] = s[2] /\ u[2] = s[1]
        /\ \A k \in 1..Len(s) : k # 1 /\ k # 2 => u[k] = s[k]
    BY <1>1, <2>2, SwappedFacts
  <2>4. \A i \in 3..Len(s) : u[i] = s[i]
    BY <1>1, <2>3
  <2> QED
    BY <1>1, <1>2, <1>3, <2>1, <2>3, <2>4
<1>4. CASE F # s[1]
  <2>1. other = s[1] /\ F = s[2]
    BY <1>4 DEF Other
  <2>2. u = s
    BY <1>1, <2>1 DEF Propagating
  <2>3. Reordered(s, u)
    BY <2>2, NotReordered
  <2>4. u[1] = other /\ u[2] = F /\ (\A i \in 3..Len(s) : u[i] = s[i]) /\ other \in Literals
    BY <1>1, <2>1, <2>2
  <2> QED
    BY <1>2, <2>1, <2>3, <2>4
<1> QED
  BY <1>3, <1>4

(* A clause that is watched elsewhere has its new watched literal second.  *)
LEMMA WithOtherFacts ==
  ASSUME NEW s \in Seq(Literals), Len(s) >= 3, Distinct(s), NEW F, F = s[1] \/ F = s[2],
         NEW other, other = Other(s, F), NEW k \in 3..Len(s), NEW u, u = WithOther(s, other, k, F)
  PROVE  /\ Reordered(s, u) /\ u[1] = other /\ u[2] = s[k]
         /\ other # F /\ ((s[1] = other /\ s[2] = F) \/ (s[1] = F /\ s[2] = other)) /\ s[k] # F /\ s[k] # other /\ s[k] \in Literals
<1> DEFINE v == Propagating(s, other, F)
<1>1. /\ DOMAIN s = 1..Len(s) /\ Len(s) \in Nat /\ k \in 1..Len(s) /\ k # 1 /\ k # 2
      /\ 1 \in 1..Len(s) /\ 2 \in 1..Len(s)
  OBVIOUS
<1>2. /\ Reordered(s, v) /\ v[1] = other /\ v[2] = F /\ \A i \in 3..Len(s) : v[i] = s[i]
      /\ other # F /\ ((s[1] = other /\ s[2] = F) \/ (s[1] = F /\ s[2] = other)) /\ other \in Literals
  <2> HIDE DEF v
  <2>1. v = Propagating(s, other, F)
    BY DEF v
  <2> QED
    BY <2>1, PropagatingFacts
<1>3. v = [s EXCEPT ![1] = other, ![2] = F]
  BY DEF Propagating
<1>4. u = [s EXCEPT ![1] = other, ![2] = s[k], ![k] = F]
  BY DEF WithOther
<1>5. v \in Seq(Literals) /\ Len(v) = Len(s) /\ v[k] = s[k]
  BY <1>2 DEF Reordered
<1>6. u = Swapped(v, 2, k)
  BY <1>1, <1>3, <1>4 DEF Swapped
<1> HIDE DEF v
<1>7. /\ Reordered(v, u) /\ u[2] = v[k] /\ \A i \in 1..Len(v) : i # 2 /\ i # k => u[i] = v[i]
  <2>1. 2 \in 1..Len(v) /\ k \in 1..Len(v) /\ Len(v) = Len(s)
    BY <1>1, <1>5
  <2> QED
    BY <1>5, <1>6, <2>1, SwappedFacts
<1>8. Reordered(s, u) /\ u[1] = other /\ u[2] = s[k]
  BY <1>1, <1>2, <1>5, <1>7, ReorderedTwice
<1>9. s[k] # s[1] /\ s[k] # s[2] /\ s[k] \in Literals
  BY <1>1 DEF Distinct
<1> QED
  BY <1>2, <1>8, <1>9

NoEntryBy(t, c) == \A i \in 1..Len(t) : t[i].type = "CLAUSE" => t[i].by # c

(* A clause that is no reason takes another order.                         *)
LEMMA ClauseReordered ==
  ASSUME NEW d \in Databases, ClausesOK(d), ReasonsOK(d), NEW c \in Attached(d),
         NEW s, Reordered(d.clauses[c], s),
         NoEntryBy(d.trail, c),
         NEW e, e.clauses = Replaced(d.clauses, c, s), e.trail = d.trail,
         e.implications = d.implications
  PROVE  /\ e.clauses \in Seq(Seq(Literals)) /\ ClausesOK(e) /\ ReasonsOK(e)
         /\ Attached(e) = Attached(d) /\ Len(e.clauses) = Len(d.clauses)
         /\ e.clauses[c] = s /\ \A k \in 1..Len(d.clauses) : k # c => e.clauses[k] = d.clauses[k]
<1> DEFINE C == [d.clauses EXCEPT ![c] = s]
<1>1. d.clauses \in Seq(Seq(Literals)) /\ Len(d.clauses) \in Nat
  BY DatabaseTypes
<1>2. /\ c \in 1..Len(d.clauses) /\ Len(d.clauses[c]) >= 3 /\ Distinct(d.clauses[c])
      /\ d.clauses[c] # <<>> /\ Len(d.clauses[c]) \in Nat
  BY AttachedClause
<1>3. s \in Seq(Literals) /\ Len(s) >= 3 /\ Distinct(s)
  BY <1>2 DEF Reordered
<1>4. /\ C \in Seq(Seq(Literals)) /\ Len(C) = Len(d.clauses)
      /\ C[c] = s /\ \A k \in 1..Len(d.clauses) : k # c => C[k] = d.clauses[k]
  BY <1>1, <1>2, <1>3
<1> HIDE DEF C
<1>5. e.clauses = C
  BY DEF C, Replaced
<1>6. Attached(e) = Attached(d)
  <2>1. Attached(e) = {k \in 1..Len(d.clauses) : C[k] # <<>>}
    BY <1>4, <1>5 DEF Attached, IsRemoved
  <2>2. Attached(d) = {k \in 1..Len(d.clauses) : d.clauses[k] # <<>>}
    BY DEF Attached, IsRemoved
  <2>3. s # <<>>
    BY <1>3
  <2>4. \A k \in 1..Len(d.clauses) : C[k] # <<>> <=> d.clauses[k] # <<>>
    BY <1>2, <1>4, <2>3
  <2> QED
    BY <2>1, <2>2, <2>4
<1>7. ClausesOK(e)
  <2> SUFFICES ASSUME NEW k \in Attached(d) PROVE Len(C[k]) >= 3 /\ Distinct(C[k])
    BY <1>5, <1>6 DEF ClausesOK
  <2>1. k \in 1..Len(d.clauses) /\ Len(d.clauses[k]) >= 3 /\ Distinct(d.clauses[k])
    BY AttachedClause
  <2> QED
    BY <1>3, <1>4, <2>1
<1>8. ReasonsOK(e)
  <2> SUFFICES ASSUME NEW i \in 1..Len(d.trail) PROVE EntryIsExplained(e, i)
    BY DEF ReasonsOK
  <2>1. EntryIsExplained(d, i)
    BY DEF ReasonsOK
  <2>2. CASE d.trail[i].type # "CLAUSE"
    <3>1. Reason(e, i) = Reason(d, i)
      BY <2>2 DEF Reason
    <3> QED
      BY <2>1, <2>2, <3>1 DEF EntryIsExplained
  <2>3. CASE d.trail[i].type = "CLAUSE"
    <3>1. d.trail[i].by \in 1..Len(d.clauses)
      BY <2>1, <2>3 DEF EntryIsExplained
    <3>2. e.clauses[d.trail[i].by] = d.clauses[d.trail[i].by]
      BY <1>4, <1>5, <2>3, <3>1 DEF NoEntryBy
    <3>3. Reason(e, i) = Reason(d, i)
      BY <2>3, <3>2 DEF Reason
    <3> QED
      BY <1>4, <1>5, <1>6, <2>1, <2>3, <3>1, <3>2, <3>3 DEF EntryIsExplained
  <2> QED
    BY <2>2, <2>3
<1> QED
  BY <1>4, <1>5, <1>6, <1>7, <1>8
-----------------------------------------------------------------------------
(* The watchers of the literal that became false: those that were kept, and*)
(* those of the list that come after the i-th.                             *)
ListOK(q, l, s) ==
  /\ \A i, j \in 1..Len(s) : s[i].clause = s[j].clause => i = j
  /\ \A i \in 1..Len(s) : WatcherOK(q, l, s[i])
  /\ \A c \in Attached(q) : l \in Watches(q, c) => \E i \in 1..Len(s) : s[i].clause = c

DistinctClauses(list) == \A j, k \in 1..Len(list) : list[j].clause = list[k].clause => j = k

RestOK(q, F, kept, list, i) ==
  /\ \A j \in 1..Len(kept) : WatcherOK(q, F, kept[j])
  /\ \A j \in (i + 1)..Len(list) : WatcherOK(q, F, list[j])
  /\ \A j, k \in 1..Len(kept) : kept[j].clause = kept[k].clause => j = k
  /\ \A j \in 1..Len(kept), k \in (i + 1)..Len(list) : kept[j].clause # list[k].clause
  /\ \A c \in Attached(q) : F \in Watches(q, c) =>
       \/ \E j \in 1..Len(kept) : kept[j].clause = c
       \/ \E k \in (i + 1)..Len(list) : list[k].clause = c

SameWatches(q, e, c) == Watches(e, c) = Watches(q, c) /\ ToSet(e.clauses[c]) = ToSet(q.clauses[c])

(* A watcher of a clause that is watched as before stays right.            *)
LEMMA SameWatcher ==
  ASSUME NEW q, NEW e, Attached(e) = Attached(q),
         \A l \in Literals : FalseForGood(q.trail, l) => FalseForGood(e.trail, l),
         NEW w \in Watchers, NEW l, WatcherOK(q, l, w), SameWatches(q, e, w.clause)
  PROVE  WatcherOK(e, l, w)
BY DEF WatcherOK, SameWatches, Watchers

(* So does a list of watchers.                                             *)
LEMMA SameList ==
  ASSUME NEW q, NEW e, Attached(e) = Attached(q),
         \A l \in Literals : FalseForGood(q.trail, l) => FalseForGood(e.trail, l),
         \A c \in Attached(q) : SameWatches(q, e, c),
         NEW l, NEW s \in Seq(Watchers), ListOK(q, l, s)
  PROVE  ListOK(e, l, s)
<1>1. \A i \in 1..Len(s) : s[i] \in Watchers
  OBVIOUS
<1>2. \A i \in 1..Len(s) : WatcherOK(e, l, s[i])
  <2> SUFFICES ASSUME NEW i \in 1..Len(s) PROVE WatcherOK(e, l, s[i])
    OBVIOUS
  <2>1. WatcherOK(q, l, s[i]) /\ s[i].clause \in Attached(q)
    BY DEF ListOK, WatcherOK
  <2>2. SameWatches(q, e, s[i].clause)
    BY <2>1
  <2> QED
    BY <1>1, <2>1, <2>2, SameWatcher
<1>3. \A c \in Attached(e) : l \in Watches(e, c) => \E i \in 1..Len(s) : s[i].clause = c
  BY DEF ListOK, SameWatches
<1> QED
  BY <1>2, <1>3 DEF ListOK

(* So do the watchers that were kept and those that are still to be        *)
(* inspected.                                                              *)
LEMMA SameRest ==
  ASSUME NEW q, NEW e, Attached(e) = Attached(q),
         \A l \in Literals : FalseForGood(q.trail, l) => FalseForGood(e.trail, l),
         \A c \in Attached(q) : SameWatches(q, e, c),
         NEW F, NEW kept \in Seq(Watchers), NEW list \in Seq(Watchers), NEW i \in Nat,
         RestOK(q, F, kept, list, i)
  PROVE  RestOK(e, F, kept, list, i)
<1>1. \A j \in 1..Len(kept) : kept[j] \in Watchers
  OBVIOUS
<1>2. \A j \in (i + 1)..Len(list) : list[j] \in Watchers
  OBVIOUS
<1>3. ASSUME NEW w \in Watchers, WatcherOK(q, F, w) PROVE WatcherOK(e, F, w)
  <2>1. w.clause \in Attached(q)
    BY <1>3 DEF WatcherOK
  <2> QED
    BY <1>3, <2>1, SameWatcher
<1>4. \A c \in Attached(e) : F \in Watches(e, c) =>
        \/ \E j \in 1..Len(kept) : kept[j].clause = c
        \/ \E k \in (i + 1)..Len(list) : list[k].clause = c
  BY DEF RestOK, SameWatches
<1>5. \A j \in 1..Len(kept) : WatcherOK(e, F, kept[j])
  BY <1>1, <1>3 DEF RestOK
<1>6. \A j \in (i + 1)..Len(list) : WatcherOK(e, F, list[j])
  BY <1>2, <1>3 DEF RestOK
<1> QED
  BY <1>4, <1>5, <1>6 DEF RestOK

(* One more watcher is kept.                                               *)
LEMMA KeepOne ==
  ASSUME NEW q, NEW F, NEW kept \in Seq(Watchers), NEW list \in Seq(Watchers), NEW i \in 1..Len(list),
         RestOK(q, F, kept, list, i - 1),
         DistinctClauses(list),
         NEW w \in Watchers, w.clause = list[i].clause, WatcherOK(q, F, w)
  PROVE  RestOK(q, F, Append(kept, w), list, i)
<1> DEFINE t == Append(kept, w)
<1>1. Len(kept) \in Nat /\ Len(list) \in Nat
  OBVIOUS
<1>2. Len(t) = Len(kept) + 1 /\ t[Len(kept) + 1] = w /\ \A j \in 1..Len(kept) : t[j] = kept[j]
  BY AppendFacts
<1> HIDE DEF t
<1>3. \A j : j \in 1..Len(t) <=> j \in 1..Len(kept) \/ j = Len(kept) + 1
  BY <1>1, <1>2
<1>4. \A j : j \in ((i - 1) + 1)..Len(list) <=> j = i \/ j \in (i + 1)..Len(list)
  BY <1>1
<1>5. \A j \in (i + 1)..Len(list) : j \in 1..Len(list) /\ j # i
  BY <1>1
<1>6. /\ \A j \in 1..Len(kept) : WatcherOK(q, F, kept[j])
      /\ \A j \in (i + 1)..Len(list) : WatcherOK(q, F, list[j])
      /\ \A j, k \in 1..Len(kept) : kept[j].clause = kept[k].clause => j = k
      /\ \A j \in 1..Len(kept) : kept[j].clause # list[i].clause
      /\ \A j \in 1..Len(kept), k \in (i + 1)..Len(list) : kept[j].clause # list[k].clause
      /\ \A c \in Attached(q) : F \in Watches(q, c) =>
           \/ \E j \in 1..Len(kept) : kept[j].clause = c
           \/ list[i].clause = c
           \/ \E k \in (i + 1)..Len(list) : list[k].clause = c
  <2>1. i \in ((i - 1) + 1)..Len(list)
    BY <1>4
  <2> QED
    BY <1>4, <2>1 DEF RestOK
<1>7. \A j \in 1..Len(t) : WatcherOK(q, F, t[j])
  BY <1>2, <1>3, <1>6
<1>8. \A j, k \in 1..Len(t) : t[j].clause = t[k].clause => j = k
  BY <1>2, <1>3, <1>6
<1>9. \A j \in 1..Len(t), k \in (i + 1)..Len(list) : t[j].clause # list[k].clause
  BY <1>2, <1>3, <1>5, <1>6 DEF DistinctClauses
<1>10. ASSUME NEW c \in Attached(q), F \in Watches(q, c)
       PROVE  \/ \E j \in 1..Len(t) : t[j].clause = c
              \/ \E k \in (i + 1)..Len(list) : list[k].clause = c
  <2>1. CASE \E j \in 1..Len(kept) : kept[j].clause = c
    BY <1>2, <1>3, <2>1
  <2>2. CASE list[i].clause = c
    BY <1>2, <1>3, <2>2
  <2>3. CASE \E k \in (i + 1)..Len(list) : list[k].clause = c
    BY <2>3
  <2> QED
    BY <1>6, <1>10, <2>1, <2>2, <2>3
<1>11. RestOK(q, F, t, list, i)
  BY <1>6, <1>7, <1>8, <1>9, <1>10 DEF RestOK
<1> QED
  BY <1>11 DEF t

(* One watcher goes, as its clause is watched elsewhere.                   *)
LEMMA DropOne ==
  ASSUME NEW q, NEW e, NEW F, NEW kept \in Seq(Watchers), NEW list \in Seq(Watchers), NEW i \in 1..Len(list),
         RestOK(q, F, kept, list, i - 1),
         DistinctClauses(list),
         Attached(e) = Attached(q), e.trail = q.trail,
         \A c \in Attached(q) : c # list[i].clause => SameWatches(q, e, c),
         F \notin Watches(e, list[i].clause)
  PROVE  RestOK(e, F, kept, list, i)
<1>1. Len(kept) \in Nat /\ Len(list) \in Nat /\ (\A j \in 1..Len(kept) : kept[j] \in Watchers) /\ \A j \in 1..Len(list) : list[j] \in Watchers
  OBVIOUS
<1>4. \A j : j \in ((i - 1) + 1)..Len(list) <=> j = i \/ j \in (i + 1)..Len(list)
  BY <1>1
<1>5. \A j \in (i + 1)..Len(list) : j \in 1..Len(list) /\ j # i
  BY <1>1
<1>6. /\ \A j \in 1..Len(kept) : WatcherOK(q, F, kept[j])
      /\ \A j \in (i + 1)..Len(list) : WatcherOK(q, F, list[j])
      /\ \A j, k \in 1..Len(kept) : kept[j].clause = kept[k].clause => j = k
      /\ \A j \in 1..Len(kept) : kept[j].clause # list[i].clause
      /\ \A j \in 1..Len(kept), k \in (i + 1)..Len(list) : kept[j].clause # list[k].clause
      /\ \A c \in Attached(q) : F \in Watches(q, c) =>
           \/ \E j \in 1..Len(kept) : kept[j].clause = c
           \/ list[i].clause = c
           \/ \E k \in (i + 1)..Len(list) : list[k].clause = c
  <2>1. i \in ((i - 1) + 1)..Len(list)
    BY <1>4
  <2> QED
    BY <1>4, <2>1 DEF RestOK
<1>7. ASSUME NEW w \in Watchers, WatcherOK(q, F, w), w.clause # list[i].clause PROVE WatcherOK(e, F, w)
  <2>1. w.clause \in Attached(q)
    BY <1>7 DEF WatcherOK
  <2>2. SameWatches(q, e, w.clause)
    BY <1>7, <2>1
  <2>3. \A l \in Literals : FalseForGood(q.trail, l) => FalseForGood(e.trail, l)
    OBVIOUS
  <2> QED
    BY <1>7, <2>2, <2>3, SameWatcher
<1>8. \A j \in 1..Len(kept) : WatcherOK(e, F, kept[j])
  BY <1>1, <1>6, <1>7
<1>9. \A j \in (i + 1)..Len(list) : WatcherOK(e, F, list[j])
  BY <1>1, <1>5, <1>6, <1>7 DEF DistinctClauses
<1>10. ASSUME NEW c \in Attached(e), F \in Watches(e, c)
       PROVE  \/ \E j \in 1..Len(kept) : kept[j].clause = c
              \/ \E k \in (i + 1)..Len(list) : list[k].clause = c
  <2>1. c # list[i].clause /\ c \in Attached(q)
    BY <1>10
  <2>2. F \in Watches(q, c)
    BY <1>10, <2>1 DEF SameWatches
  <2> QED
    BY <1>6, <2>1, <2>2
<1> QED
  BY <1>6, <1>8, <1>9, <1>10 DEF RestOK

WatchesAre(q, c, a, b) == \A m : m \in Watches(q, c) <=> m = a \/ m = b
OthersAreSame(q, e, c) == \A k \in Attached(q) : k # c => SameWatches(q, e, k)

ListWith(s, l, new, w) == IF l = new THEN Append(s, w) ELSE s

(* The list of another literal, which the clause may be watched by now.    *)
LEMMA WatchedElsewhere ==
  ASSUME NEW q, NEW e, NEW c \in Attached(q), Attached(e) = Attached(q), e.trail = q.trail,
         OthersAreSame(q, e, c),
         NEW F, NEW other, NEW new, 
         WatchesAre(q, c, other, F), WatchesAre(e, c, other, new),
         new # F, new # other, ToSet(e.clauses[c]) = ToSet(q.clauses[c]),
         NEW w \in Watchers, w.clause = c, w.blocking \in ToSet(e.clauses[c]),
         NEW l, l # F, NEW s \in Seq(Watchers), ListOK(q, l, s),
         NEW t, t = ListWith(s, l, new, w)
  PROVE  ListOK(e, l, t)
<1>1. Len(s) \in Nat /\ \A j \in 1..Len(s) : s[j] \in Watchers
  OBVIOUS
<1>2. /\ \A i, j \in 1..Len(s) : s[i].clause = s[j].clause => i = j
      /\ \A i \in 1..Len(s) : WatcherOK(q, l, s[i])
      /\ \A k \in Attached(q) : l \in Watches(q, k) => \E i \in 1..Len(s) : s[i].clause = k
  BY DEF ListOK
<1>6. (\A m : m \in Watches(q, c) <=> m = other \/ m = F) /\ (\A m : m \in Watches(e, c) <=> m = other \/ m = new)
  BY DEF WatchesAre
<1>7. \A k \in Attached(q) : k # c => SameWatches(q, e, k)
  BY DEF OthersAreSame
<1>3. ASSUME NEW i \in 1..Len(s) PROVE WatcherOK(e, l, s[i])
  <2>1. WatcherOK(q, l, s[i]) /\ s[i].clause \in Attached(q) /\ l \in Watches(q, s[i].clause)
    BY <1>2 DEF WatcherOK
  <2>2. CASE s[i].clause # c
    <3>1. SameWatches(q, e, s[i].clause)
      BY <1>7, <2>1, <2>2
    <3>2. \A m \in Literals : FalseForGood(q.trail, m) => FalseForGood(e.trail, m)
      OBVIOUS
    <3> QED
      BY <1>1, <2>1, <3>1, <3>2, SameWatcher
  <2>3. CASE s[i].clause = c
    <3>1. l = other
      BY <1>6, <2>1, <2>3
    <3> QED
      BY <1>6, <2>1, <2>3, <3>1 DEF WatcherOK
  <2> QED
    BY <2>2, <2>3
<1>4. CASE l = new
  <2>1. Len(t) = Len(s) + 1 /\ t[Len(s) + 1] = w /\ \A j \in 1..Len(s) : t[j] = s[j]
    BY <1>4, AppendFacts DEF ListWith
  <2>2. \A j : j \in 1..Len(t) <=> j \in 1..Len(s) \/ j = Len(s) + 1
    BY <1>1, <2>1
  <2>3. \A i \in 1..Len(s) : s[i].clause # c
    BY <1>2, <1>4, <1>6 DEF WatcherOK
  <2>4. WatcherOK(e, l, w)
    BY <1>4, <1>6 DEF WatcherOK
  <2>5. \A i, j \in 1..Len(t) : t[i].clause = t[j].clause => i = j
    BY <1>2, <2>1, <2>2, <2>3
  <2>6. \A i \in 1..Len(t) : WatcherOK(e, l, t[i])
    BY <1>3, <2>1, <2>2, <2>4
  <2>7. ASSUME NEW k \in Attached(e), l \in Watches(e, k) PROVE \E i \in 1..Len(t) : t[i].clause = k
    <3>1. CASE k = c
      BY <2>1, <2>2, <3>1
    <3>2. CASE k # c
      <4>1. l \in Watches(q, k) /\ k \in Attached(q)
        BY <1>7, <2>7, <3>2 DEF SameWatches
      <4>2. PICK i \in 1..Len(s) : s[i].clause = k
        BY <1>2, <4>1
      <4> QED
        BY <2>1, <2>2, <4>2
    <3> QED
      BY <3>1, <3>2
  <2> QED
    BY <2>5, <2>6, <2>7 DEF ListOK
<1>5. CASE l # new
  <2>1. t = s
    BY <1>5 DEF ListWith
  <2>2. ASSUME NEW k \in Attached(e), l \in Watches(e, k) PROVE \E i \in 1..Len(s) : s[i].clause = k
    <3>1. l \in Watches(q, k) /\ k \in Attached(q)
      <4>1. CASE k = c
        BY <1>5, <1>6, <2>2, <4>1
      <4>2. CASE k # c
        BY <1>7, <2>2, <4>2 DEF SameWatches
      <4> QED
        BY <4>1, <4>2
    <3> QED
      BY <1>2, <3>1
  <2> QED
    BY <1>2, <1>3, <2>1, <2>2 DEF ListOK
<1> QED
  BY <1>4, <1>5
-----------------------------------------------------------------------------
(* The inspections of the watchers up to the i-th.                         *)
AsDatabase(d, r) ==
  [clauses |-> r.clauses, watchers |-> r.watchers, implications |-> d.implications,
   trail |-> r.trail]

GrownSince(d, u, type) ==
  /\ Begins(d.trail, u) /\ CurrentLevel(u) = CurrentLevel(d.trail)
  /\ \A j \in 1..Len(u) : j > Len(d.trail) => u[j].type = type

SameClausesSince(d, q) ==
  /\ Len(q.clauses) = Len(d.clauses) /\ Attached(q) = Attached(d)
  /\ \A c \in Attached(d) : Reordered(d.clauses[c], q.clauses[c])
  /\ \A c \in Attached(d) : \A l \in Watches(q, c) : l \in Watches(d, c) \/ ~IsFalse(d.trail, l)

FailureOK(q, r, F) ==
  /\ r.conflict = <<>> =>
       /\ r.failing = 0
       /\ \A j \in 1..Len(r.kept) : \E l \in ToSet(q.clauses[r.kept[j].clause]) : IsTrue(q.trail, l)
  /\ r.conflict # <<>> =>
       /\ r.failing \in Attached(q) /\ r.conflict = q.clauses[r.failing] /\ F \in ToSet(r.conflict)
       /\ \A l \in ToSet(r.conflict) : IsFalse(q.trail, l)

InspectionOK(d, F, list, r, i) ==
  /\ r \in Inspecteds
  /\ BodyOK(AsDatabase(d, r)) /\ \A l \in Literals \ {F} : ListOK(AsDatabase(d, r), l, r.watchers[l])
  /\ RestOK(AsDatabase(d, r), F, r.kept, list, i)
  /\ GrownSince(d, r.trail, "CLAUSE") /\ SameClausesSince(d, AsDatabase(d, r))
  /\ FailureOK(AsDatabase(d, r), r, F)

(* Fields of the database that a scan has reached.                         *)
LEMMA AsDatabaseFields ==
  ASSUME NEW d \in Databases, NEW r \in Inspecteds, NEW q, q = AsDatabase(d, r)
  PROVE  /\ q \in Databases /\ q.clauses = r.clauses /\ q.watchers = r.watchers
         /\ q.implications = d.implications /\ q.trail = r.trail
BY DEF Databases, Inspecteds, AsDatabase

(* A watcher is kept and nothing else changes.                             *)
LEMMA KeptIsOK ==
  ASSUME NEW d \in Databases, NEW F \in Literals, NEW list \in Seq(Watchers), NEW i \in 1..Len(list),
         DistinctClauses(list),
         NEW r, InspectionOK(d, F, list, r, i - 1),
         NEW w \in Watchers, w.clause = list[i].clause, WatcherOK(AsDatabase(d, r), F, w),
         r.conflict = <<>> => \E l \in ToSet(r.clauses[w.clause]) : IsTrue(r.trail, l),
         NEW e, e = Kept(r, w)
  PROVE  InspectionOK(d, F, list, e, i)
<1> DEFINE q == AsDatabase(d, r)
           p == AsDatabase(d, e)
<1>1. /\ r \in Inspecteds /\ BodyOK(q) /\ (\A l \in Literals \ {F} : ListOK(q, l, r.watchers[l]))
      /\ RestOK(q, F, r.kept, list, i - 1) /\ GrownSince(d, r.trail, "CLAUSE") /\ SameClausesSince(d, q)
      /\ FailureOK(q, r, F)
  BY DEF InspectionOK
<1>2. /\ e \in Inspecteds /\ e.clauses = r.clauses /\ e.watchers = r.watchers
      /\ e.conflict = r.conflict /\ e.failing = r.failing
      /\ e.trail = r.trail /\ e.kept = Append(r.kept, w)
  <2>1. /\ e \in Inspecteds /\ SameClauses(r, e) /\ SameFailure(r, e)
        /\ e.trail = r.trail /\ e.kept = Append(r.kept, w)
    BY <1>1, KeptFields
  <2> QED
    BY <2>1 DEF SameClauses, SameFailure
<1>3. p = q
  BY <1>2 DEF AsDatabase
<1>4. q.clauses = r.clauses /\ q.trail = r.trail
  BY <1>1, AsDatabaseFields
<1> HIDE DEF p
<1>5. r.kept \in Seq(Watchers)
  BY <1>1 DEF Inspecteds
<1>6. RestOK(q, F, e.kept, list, i)
  <2>1. WatcherOK(q, F, w)
    OBVIOUS
  <2> HIDE DEF q
  <2> QED
    BY <1>1, <1>2, <1>5, <2>1, KeepOne
<1>7. FailureOK(q, e, F)
  <2>1. /\ Len(e.kept) = Len(r.kept) + 1 /\ e.kept[Len(r.kept) + 1] = w
        /\ \A j \in 1..Len(r.kept) : e.kept[j] = r.kept[j]
    BY <1>2, <1>5, AppendFacts
  <2>2. \A j : j \in 1..Len(e.kept) <=> j \in 1..Len(r.kept) \/ j = Len(r.kept) + 1
    BY <1>5, <2>1
  <2>3. ASSUME e.conflict = <<>>, NEW j \in 1..Len(e.kept)
        PROVE \E l \in ToSet(q.clauses[e.kept[j].clause]) : IsTrue(q.trail, l)
    <3>1. CASE j \in 1..Len(r.kept)
      BY <1>1, <1>2, <2>1, <2>3, <3>1 DEF FailureOK
    <3>2. CASE j = Len(r.kept) + 1
      BY <1>2, <1>4, <2>1, <2>3, <3>2
    <3> QED
      BY <2>2, <3>1, <3>2
  <2> QED
    BY <1>1, <1>2, <2>3 DEF FailureOK
<1> QED
  BY <1>1, <1>2, <1>3, <1>6, <1>7 DEF InspectionOK, p

(* The clause takes another order, and no entry has it as reason.          *)
LEMMA NoReasonYet ==
  ASSUME NEW q, BodyOK(q), NEW c \in Attached(q), NEW F \in Literals, IsFalse(q.trail, F),
         F = q.clauses[c][1] \/ F = q.clauses[c][2],
         ~IsTrue(q.trail, Other(q.clauses[c], F))
  PROVE  NoEntryBy(q.trail, c)
<1> SUFFICES ASSUME NEW i \in 1..Len(q.trail), q.trail[i].type = "CLAUSE", q.trail[i].by = c PROVE FALSE
  BY DEF NoEntryBy
<1>1. EntryIsExplained(q, i) /\ IsTrail(q.trail)
  BY DEF BodyOK, ReasonsOK
<1>2. q.clauses[c][1] = q.trail[i].literal
  BY <1>1 DEF EntryIsExplained
<1>3. IsTrue(q.trail, q.clauses[c][1])
  BY <1>2 DEF IsTrue
<1>4. q.clauses[c][1] = F
  BY <1>3 DEF Other
<1> QED
  BY <1>1, <1>3, <1>4, TrailFacts

InspectingOK(d, F, list, r, i, c, s, other) ==
  /\ d \in Databases /\ F \in Literals /\ list \in Seq(Watchers) /\ i \in 1..Len(list)
  /\ IsFalse(d.trail, F) /\ IsTrail(d.trail) /\ DistinctClauses(list)
  /\ InspectionOK(d, F, list, r, i - 1) /\ r.conflict = <<>>
  /\ c = list[i].clause /\ c \in Attached(AsDatabase(d, r)) /\ s = r.clauses[c]
  /\ F = s[1] \/ F = s[2]
  /\ other = Other(s, F) /\ ~IsTrue(r.trail, other)

MovedTo(t, s, F, other, u, new) ==
  /\ Reordered(s, u) /\ u[1] = other /\ u[2] = new /\ other # F
  /\ (s[1] = other /\ s[2] = F) \/ (s[1] = F /\ s[2] = other)
  /\ new # F /\ new # other /\ new \in Literals /\ ~IsFalse(t, new)

(* A literal that is not false is watched in the place of the false one.   *)
LEMMA MovedFacts ==
  ASSUME NEW s \in Seq(Literals), Len(s) >= 3, Distinct(s), NEW F, F = s[1] \/ F = s[2],
         NEW other, other = Other(s, F), NEW t, NEW k \in Candidates(t, s)
  PROVE  MovedTo(t, s, F, other, WithOther(s, other, k, F), s[k])
<1> DEFINE u == WithOther(s, other, k, F)
<1>1. k \in 3..Len(s) /\ ~IsFalse(t, s[k])
  BY DEF Candidates
<1>2. u = WithOther(s, other, k, F)
  OBVIOUS
<1> HIDE DEF u
<1>3. /\ Reordered(s, u) /\ u[1] = other /\ u[2] = s[k]
      /\ other # F /\ ((s[1] = other /\ s[2] = F) \/ (s[1] = F /\ s[2] = other))
      /\ s[k] # F /\ s[k] # other /\ s[k] \in Literals
  BY <1>1, <1>2, WithOtherFacts
<1>4. MovedTo(t, s, F, other, u, s[k])
  BY <1>1, <1>3 DEF MovedTo
<1> QED
  BY <1>4 DEF u

(* A watch moves to another literal.                                       *)
LEMMA WatchingIsOK ==
  ASSUME NEW d, NEW F, NEW list, NEW r, NEW i, NEW s, NEW other, NEW c, NEW u, NEW new, NEW w,
         InspectingOK(d, F, list, r, i, c, s, other),
         MovedTo(r.trail, s, F, other, u, new), w = Watcher(c, other, w.start), w \in Watchers,
         NEW e, e = Watching(r, c, u, new, w)
  PROVE  InspectionOK(d, F, list, e, i)
<1> DEFINE q == AsDatabase(d, r)
           p == AsDatabase(d, e)
<1>a. d \in Databases /\ F \in Literals
  BY DEF InspectingOK
<1>b. list \in Seq(Watchers) /\ i \in 1..Len(list) /\ DistinctClauses(list)
  BY DEF InspectingOK
<1>c. IsFalse(d.trail, F) /\ IsTrail(d.trail)
  BY DEF InspectingOK
<1>d. InspectionOK(d, F, list, r, i - 1) /\ r.conflict = <<>>
  BY DEF InspectingOK
<1>3. c \in Attached(q) /\ s = r.clauses[c]
  BY DEF InspectingOK
<1>i. c = list[i].clause
  BY DEF InspectingOK
<1>e. F = s[1] \/ F = s[2]
  BY DEF InspectingOK
<1>f. other = Other(s, F) /\ ~IsTrue(r.trail, other)
  BY DEF InspectingOK
<1>g. w.clause = c /\ w.blocking = other
  BY DEF Watcher
<1>1. /\ r \in Inspecteds /\ BodyOK(q) /\ (\A l \in Literals \ {F} : ListOK(q, l, r.watchers[l]))
      /\ RestOK(q, F, r.kept, list, i - 1) /\ GrownSince(d, r.trail, "CLAUSE") /\ SameClausesSince(d, q)
      /\ FailureOK(q, r, F)
  BY <1>d DEF InspectionOK
<1>h. r \in Inspecteds
  BY <1>1
<1> HIDE DEF p
<1>2. /\ q \in Databases /\ IsTrail(q.trail) /\ ClausesOK(q) /\ GraphOK(q) /\ ReasonsOK(q)
      /\ q.clauses = r.clauses /\ q.trail = r.trail /\ q.watchers = r.watchers
      /\ q.implications = d.implications
  <2>1. q = AsDatabase(d, r)
    OBVIOUS
  <2>2. BodyOK(q)
    BY <1>1
  <2> HIDE DEF q
  <2>3. q.clauses = r.clauses /\ q.trail = r.trail /\ q.watchers = r.watchers /\ q.implications = d.implications
    BY <1>a, <1>h, <2>1, AsDatabaseFields
  <2> QED
    BY <2>2, <2>3 DEF BodyOK
<1> HIDE DEF q
<1>4. c \in 1..Len(r.clauses) /\ s \in Seq(Literals) /\ Len(s) >= 3 /\ Distinct(s) /\ Len(s) \in Nat
  BY <1>2, <1>3, AttachedClause
<1>5. ~IsFalse(r.trail, new)
  BY DEF MovedTo
<1>6. /\ Reordered(s, u) /\ u[1] = other /\ u[2] = new
      /\ other # F /\ ((s[1] = other /\ s[2] = F) \/ (s[1] = F /\ s[2] = other))
      /\ new # F /\ new # other /\ new \in Literals
  BY DEF MovedTo
<1>7. u \in Seq(Literals) /\ ToSet(u) = ToSet(s) /\ Len(u) = Len(s)
  BY <1>6 DEF Reordered
<1>8. /\ e \in Inspecteds /\ SameFailure(r, e) /\ e.trail = r.trail /\ e.kept = r.kept
      /\ e.clauses = Replaced(r.clauses, c, u)
      /\ \A l \in Literals : e.watchers[l] = IF l = new THEN Append(r.watchers[l], w) ELSE r.watchers[l]
  <2>1. c \in 1..Len(r.clauses) /\ u \in Seq(Literals) /\ new \in Literals
    BY <1>4, <1>6, <1>7
  <2> QED
    BY <1>h, <2>1, WatchingFields
<1>9. /\ p \in Databases /\ p.clauses = e.clauses /\ p.watchers = e.watchers
      /\ p.implications = d.implications /\ p.trail = e.trail
  <2> HIDE DEF p
  <2>1. p = AsDatabase(d, e) /\ e \in Inspecteds
    BY <1>8 DEF p
  <2> QED
    BY <1>a, <2>1, AsDatabaseFields
<1> HIDE DEF p
<1>10. IsFalse(q.trail, F)
  <2>1. Begins(d.trail, q.trail)
    BY <1>1, <1>2 DEF GrownSince
  <2> QED
    BY <1>a, <1>c, <1>2, <2>1, BeginningFacts
<1>11. NoEntryBy(q.trail, c)
  <2>1. F = q.clauses[c][1] \/ F = q.clauses[c][2]
    BY <1>2, <1>3, <1>e
  <2>2. ~IsTrue(q.trail, Other(q.clauses[c], F))
    BY <1>2, <1>3, <1>f
  <2>3. BodyOK(q)
    BY <1>1
  <2> QED
    BY <1>a, <1>3, <1>10, <2>1, <2>2, <2>3, NoReasonYet
<1>12. /\ ClausesOK(p) /\ ReasonsOK(p) /\ Attached(p) = Attached(q) /\ Len(p.clauses) = Len(q.clauses)
       /\ p.clauses[c] = u /\ \A j \in 1..Len(q.clauses) : j # c => p.clauses[j] = q.clauses[j]
  <2>1. Reordered(q.clauses[c], u)
    BY <1>2, <1>3, <1>6
  <2>2. p.clauses = Replaced(q.clauses, c, u) /\ p.trail = q.trail /\ p.implications = q.implications
    BY <1>2, <1>8, <1>9
  <2> QED
    BY <1>2, <1>3, <1>11, <2>1, <2>2, ClauseReordered
<1>13. BodyOK(p)
  <2>1. p.implications = q.implications /\ p.trail = q.trail
    BY <1>2, <1>8, <1>9
  <2>2. GraphOK(p)
    BY <1>2, <2>1 DEF GraphOK
  <2> QED
    BY <1>2, <1>9, <1>12, <2>1, <2>2 DEF BodyOK
<1>14. /\ \A m : m \in Watches(q, c) <=> m = other \/ m = F
       /\ \A m : m \in Watches(p, c) <=> m = other \/ m = new
       /\ ToSet(p.clauses[c]) = ToSet(q.clauses[c])
  <2>1. Watches(q, c) = {s[1], s[2]} /\ Watches(p, c) = {u[1], u[2]}
    BY <1>2, <1>3, <1>12 DEF Watches
  <2>2. ToSet(p.clauses[c]) = ToSet(q.clauses[c])
    BY <1>2, <1>3, <1>7, <1>12
  <2> QED
    BY <1>6, <2>1, <2>2
<1>15. \A j \in Attached(q) : j # c => SameWatches(q, p, j)
  BY <1>12 DEF SameWatches, Watches, Attached
<1>16. RestOK(p, F, e.kept, list, i)
  <2>1. F \notin Watches(p, list[i].clause)
    BY <1>6, <1>14, <1>i
  <2>5. Attached(p) = Attached(q) /\ RestOK(q, F, r.kept, list, i - 1)
    BY <1>1, <1>12
  <2>2. r.kept \in Seq(Watchers) /\ p.trail = q.trail
    BY <1>1, <1>2, <1>8, <1>9 DEF Inspecteds
  <2>3. \A j \in Attached(q) : j # list[i].clause => SameWatches(q, p, j)
    BY <1>15, <1>i
  <2>4. RestOK(p, F, r.kept, list, i)
    BY <1>b, <2>1, <2>2, <2>3, <2>5, DropOne
  <2> QED
    BY <1>8, <2>4
<1>17. ASSUME NEW l \in Literals \ {F} PROVE ListOK(p, l, e.watchers[l])
  <2>1. r.watchers \in [Literals -> Seq(Watchers)] /\ r.watchers[l] \in Seq(Watchers)
    BY <1>1 DEF Inspecteds
  <2>2. e.watchers[l] = IF l = new THEN Append(r.watchers[l], w) ELSE r.watchers[l]
    BY <1>6, <1>8, <2>1
  <2>3. w.blocking \in ToSet(p.clauses[c])
    <3>1. 1 \in 1..Len(u)
      BY <1>4, <1>7
    <3> QED
      BY <1>6, <1>7, <1>12, <1>g, <3>1, ToSetFacts
  <2>4. ListOK(q, l, r.watchers[l]) /\ p.trail = q.trail /\ l # F
    BY <1>1, <1>2, <1>8, <1>9
  <2>5. Attached(p) = Attached(q) /\ ToSet(p.clauses[c]) = ToSet(q.clauses[c])
    BY <1>12, <1>14
  <2>6. WatchesAre(q, c, other, F) /\ WatchesAre(p, c, other, new) /\ OthersAreSame(q, p, c)
    BY <1>14, <1>15 DEF WatchesAre, OthersAreSame
  <2>7. new # F /\ new # other /\ c \in Attached(q) /\ w.clause = c
    BY <1>3, <1>6, <1>g
  <2>8. r.watchers[l] \in Seq(Watchers) /\ e.watchers[l] = ListWith(r.watchers[l], l, new, w)
    BY <2>1, <2>2 DEF ListWith
  <2> QED
    BY <2>3, <2>4, <2>5, <2>6, <2>7, <2>8, WatchedElsewhere
<1>18. SameClausesSince(d, p)
  <2>1. Attached(q) = Attached(d) /\ Len(p.clauses) = Len(d.clauses)
    BY <1>1, <1>12 DEF SameClausesSince
  <2>2. ASSUME NEW j \in Attached(d)
        PROVE /\ Reordered(d.clauses[j], p.clauses[j])
              /\ \A l \in Watches(p, j) : l \in Watches(d, j) \/ ~IsFalse(d.trail, l)
    <3>1. /\ Reordered(d.clauses[j], q.clauses[j])
          /\ \A l \in Watches(q, j) : l \in Watches(d, j) \/ ~IsFalse(d.trail, l)
      BY <1>1 DEF SameClausesSince
    <3>2. CASE j # c
      <4>1. p.clauses[j] = q.clauses[j] /\ Watches(p, j) = Watches(q, j)
        BY <1>12, <1>15, <2>1, <3>2 DEF Attached, SameWatches
      <4> QED
        BY <3>1, <4>1
    <3>3. CASE j = c
      <4>1. Reordered(d.clauses[j], p.clauses[j])
        BY <1>2, <1>3, <1>6, <1>12, <3>1, <3>3, ReorderedTwice
      <4>2. ~IsFalse(d.trail, new)
        <5>1. Begins(d.trail, r.trail) /\ IsTrail(r.trail)
          BY <1>1, <1>2 DEF GrownSince
        <5> QED
          BY <1>5, <1>6, <1>c, <5>1, BeginningFacts
      <4> QED
        BY <1>14, <3>1, <3>3, <4>1, <4>2
    <3> QED
      BY <3>2, <3>3
  <2> QED
    BY <1>12, <2>1, <2>2 DEF SameClausesSince
<1>19. FailureOK(p, e, F)
  <2>1. e.conflict = <<>> /\ e.failing = r.failing /\ e.kept = r.kept
    BY <1>8, <1>d DEF SameFailure
  <2>2. ASSUME NEW j \in 1..Len(r.kept)
        PROVE \E l \in ToSet(p.clauses[r.kept[j].clause]) : IsTrue(p.trail, l)
    <3>1. \E l \in ToSet(q.clauses[r.kept[j].clause]) : IsTrue(q.trail, l)
      BY <1>1, <1>d, <2>2 DEF FailureOK
    <3>2. r.kept[j].clause \in Attached(q)
      BY <1>1, <2>2 DEF RestOK, WatcherOK
    <3>3. ToSet(p.clauses[r.kept[j].clause]) = ToSet(q.clauses[r.kept[j].clause])
      BY <1>14, <1>15, <3>2 DEF SameWatches
    <3> QED
      BY <1>2, <1>8, <1>9, <3>1, <3>3
  <2> QED
    BY <1>1, <1>d, <2>1, <2>2 DEF FailureOK
<1> QED
  BY <1>1, <1>8, <1>13, <1>16, <1>17, <1>18, <1>19 DEF InspectionOK, p

(* Without such a literal all but the other watched literal are false.     *)
LEMMA NoCandidates ==
  ASSUME NEW s \in Seq(Literals), NEW t, Candidates(t, s) = {}, NEW F, F = s[1] \/ F = s[2],
         NEW other, other = Other(s, F)
  PROVE  /\ \A i \in 3..Len(s) : IsFalse(t, s[i])
         /\ \A x \in ToSet(s) : x = F \/ x = other \/ IsFalse(t, x)
<1>1. \A i \in 3..Len(s) : IsFalse(t, s[i])
  BY DEF Candidates
<1>2. ASSUME NEW x \in ToSet(s) PROVE x = F \/ x = other \/ IsFalse(t, x)
  <2>1. PICK i \in 1..Len(s) : s[i] = x
    BY ToSetFacts
  <2>2. i = 1 \/ i = 2 \/ i \in 3..Len(s)
    OBVIOUS
  <2>3. CASE i = 1 \/ i = 2
    BY <2>1, <2>3 DEF Other
  <2>4. CASE i \in 3..Len(s)
    BY <1>1, <2>1, <2>4
  <2> QED
    BY <2>2, <2>3, <2>4
<1> QED
  BY <1>1, <1>2

(* The clause is false.                                                    *)
LEMMA FailingIsOK ==
  ASSUME NEW d, NEW F, NEW list, NEW r, NEW i, NEW s, NEW other, NEW c, NEW w,
         InspectingOK(d, F, list, r, i, c, s, other), w = list[i],
         IsFalse(r.trail, other), Candidates(r.trail, s) = {},
         NEW e, e = Failing(Kept(r, w), s, c)
  PROVE  InspectionOK(d, F, list, e, i)
<1> DEFINE q == AsDatabase(d, r)
           p == AsDatabase(d, e)
<1>a. d \in Databases /\ F \in Literals
  BY DEF InspectingOK
<1>b. list \in Seq(Watchers) /\ i \in 1..Len(list) /\ DistinctClauses(list)
  BY DEF InspectingOK
<1>c. IsFalse(d.trail, F) /\ IsTrail(d.trail)
  BY DEF InspectingOK
<1>3. c \in Attached(q) /\ s = r.clauses[c] /\ c = w.clause
  BY DEF InspectingOK
<1>e. F = s[1] \/ F = s[2]
  BY DEF InspectingOK
<1>f. other = Other(s, F)
  BY DEF InspectingOK
<1>1. /\ r \in Inspecteds /\ BodyOK(q) /\ (\A l \in Literals \ {F} : ListOK(q, l, r.watchers[l]))
      /\ RestOK(q, F, r.kept, list, i - 1) /\ GrownSince(d, r.trail, "CLAUSE") /\ SameClausesSince(d, q)
  BY DEF InspectingOK, InspectionOK
<1>h. r \in Inspecteds /\ w \in Watchers /\ r.kept \in Seq(Watchers)
  BY <1>b, <1>1 DEF Inspecteds
<1> HIDE DEF p
<1>2. /\ q \in Databases /\ IsTrail(q.trail) /\ ClausesOK(q)
      /\ q.clauses = r.clauses /\ q.trail = r.trail
  <2>1. q = AsDatabase(d, r)
    OBVIOUS
  <2>2. BodyOK(q)
    BY <1>1
  <2> HIDE DEF q
  <2>3. q.clauses = r.clauses /\ q.trail = r.trail
    BY <1>a, <1>h, <2>1, AsDatabaseFields
  <2> QED
    BY <2>2, <2>3 DEF BodyOK
<1>4. /\ c \in 1..Len(r.clauses) /\ s \in Seq(Literals) /\ Len(s) >= 3
      /\ c \in Nat /\ s # <<>> /\ 1 \in 1..Len(s) /\ 2 \in 1..Len(s)
  <2> HIDE DEF q
  <2>1. c \in 1..Len(r.clauses) /\ s \in Seq(Literals) /\ Len(s) >= 3
    BY <1>2, <1>3, AttachedClause
  <2> QED
    BY <2>1
<1> DEFINE k == Kept(r, w)
<1>5. /\ k \in Inspecteds /\ k.clauses = r.clauses /\ k.watchers = r.watchers
      /\ k.trail = r.trail /\ k.kept = Append(r.kept, w)
  <2>1. k \in Inspecteds /\ SameClauses(r, k) /\ k.trail = r.trail /\ k.kept = Append(r.kept, w)
    BY <1>h, KeptFields
  <2> QED
    BY <2>1 DEF SameClauses
<1>6. /\ e \in Inspecteds /\ e.clauses = r.clauses /\ e.watchers = r.watchers
      /\ e.trail = r.trail /\ e.kept = Append(r.kept, w) /\ e.conflict = s /\ e.failing = c
  <2>1. e = Failing(k, s, c)
    OBVIOUS
  <2> HIDE DEF k, q
  <2>3. k \in Inspecteds
    BY <1>5
  <2>4. s \in Seq(Literals) /\ c \in Nat
    BY <1>4
  <2>2. /\ e \in Inspecteds /\ SameClauses(k, e) /\ e.trail = k.trail /\ e.kept = k.kept
        /\ e.conflict = s /\ e.failing = c
    BY <2>3, <2>4, <2>1, FailingFields
  <2> QED
    BY <1>5, <2>2 DEF SameClauses
<1>7. p = q
  BY <1>6 DEF AsDatabase, p
<1> HIDE DEF k, q
<1>8. RestOK(q, F, e.kept, list, i)
  <2>1. WatcherOK(q, F, w)
    <3>1. i \in ((i - 1) + 1)..Len(list)
      BY <1>b
    <3> QED
      BY <1>1, <3>1 DEF RestOK
  <2>2. RestOK(q, F, r.kept, list, i - 1) /\ w.clause = list[i].clause
    BY <1>1
  <2> QED
    BY <1>b, <1>h, <1>6, <2>1, <2>2, KeepOne
<1>9. IsFalse(q.trail, F)
  <2>1. Begins(d.trail, q.trail)
    BY <1>1, <1>2 DEF GrownSince
  <2> QED
    BY <1>a, <1>c, <1>2, <2>1, BeginningFacts
<1>10. /\ F \in ToSet(s) /\ \A l \in ToSet(s) : IsFalse(q.trail, l)
  <2>1. F \in ToSet(s)
    BY <1>4, <1>e, ToSetFacts
  <2>2. \A x \in ToSet(s) : x = F \/ x = other \/ IsFalse(r.trail, x)
    BY <1>4, <1>e, <1>f, NoCandidates
  <2> QED
    BY <1>2, <1>9, <2>1, <2>2
<1>11. FailureOK(q, e, F)
  BY <1>2, <1>3, <1>4, <1>6, <1>10 DEF FailureOK
<1> QED
  BY <1>1, <1>6, <1>7, <1>8, <1>11 DEF InspectionOK, p
-----------------------------------------------------------------------------
PropagatesInto(q, c, s, F, other, u, v, p) ==
  /\ BodyOK(q) /\ c \in Attached(q) /\ s = q.clauses[c]
  /\ F \in Literals /\ (F = s[1] \/ F = s[2]) /\ IsFalse(q.trail, F)
  /\ other = Other(s, F) /\ ~IsAssigned(q.trail, other) /\ Candidates(q.trail, s) = {}
  /\ u = Propagating(s, other, F)
  /\ v = Enqueued(q.trail, other, CurrentLevel(q.trail), "CLAUSE", c)
  /\ p \in Databases /\ p.clauses = Replaced(q.clauses, c, u) /\ p.trail = v
  /\ p.implications = q.implications

(* The other watched literal is propagated, and all but the watches stays  *)
(* right.                                                                  *)
LEMMA PropagatedBody ==
  ASSUME NEW q, NEW c, NEW s, NEW F, NEW other, NEW u, NEW v, NEW p,
         PropagatesInto(q, c, s, F, other, u, v, p)
  PROVE  /\ BodyOK(p) /\ Begins(q.trail, v) /\ CurrentLevel(v) = CurrentLevel(q.trail)
         /\ Len(v) = Len(q.trail) + 1 /\ v[Len(v)].type = "CLAUSE" /\ v[Len(v)].literal = other
         /\ Attached(p) = Attached(q) /\ Len(p.clauses) = Len(q.clauses)
         /\ \A j \in Attached(q) : SameWatches(q, p, j) /\ Reordered(q.clauses[j], p.clauses[j])
         /\ other \in ToSet(p.clauses[c])
<1> DEFINE z == [p EXCEPT !.trail = q.trail]
<1>a. BodyOK(q) /\ c \in Attached(q) /\ s = q.clauses[c]
  BY DEF PropagatesInto
<1>b. F \in Literals /\ (F = s[1] \/ F = s[2]) /\ IsFalse(q.trail, F)
  BY DEF PropagatesInto
<1>c. other = Other(s, F) /\ ~IsAssigned(q.trail, other) /\ Candidates(q.trail, s) = {}
  BY DEF PropagatesInto
<1>d. u = Propagating(s, other, F)
  BY DEF PropagatesInto
<1>e. v = Enqueued(q.trail, other, CurrentLevel(q.trail), "CLAUSE", c)
  BY DEF PropagatesInto
<1>f. /\ p \in Databases /\ p.clauses = Replaced(q.clauses, c, u) /\ p.trail = v
      /\ p.implications = q.implications
  BY DEF PropagatesInto
<1>1. q \in Databases /\ IsTrail(q.trail) /\ ClausesOK(q) /\ ReasonsOK(q) /\ GraphOK(q) /\ q.trail \in Seq(Entries)
  BY <1>a DEF BodyOK, Databases
<1>2. /\ c \in 1..Len(q.clauses) /\ s \in Seq(Literals) /\ Len(s) >= 3 /\ Distinct(s) /\ Len(s) \in Nat
  BY <1>1, <1>a, AttachedClause
<1>3. /\ Reordered(s, u) /\ u[1] = other /\ u[2] = F /\ \A i \in 3..Len(s) : u[i] = s[i]
      /\ other # F /\ ((s[1] = other /\ s[2] = F) \/ (s[1] = F /\ s[2] = other)) /\ other \in Literals
  BY <1>2, <1>b, <1>c, <1>d, PropagatingFacts
<1>4. u \in Seq(Literals) /\ Len(u) = Len(s) /\ ToSet(u) = ToSet(s)
  BY <1>3 DEF Reordered
<1>5. /\ z \in Databases /\ z.trail = q.trail /\ z.clauses = p.clauses /\ z.implications = p.implications
      /\ p = [z EXCEPT !.trail = v] /\ Attached(z) = Attached(p)
  <2>1. z \in Databases /\ z.trail = q.trail /\ z.clauses = p.clauses /\ z.implications = p.implications
    BY <1>1, <1>f DEF Databases
  <2>2. p = [z EXCEPT !.trail = v]
    BY <1>f DEF Databases
  <2> QED
    BY <2>1, <2>2 DEF Attached, IsRemoved
<1> HIDE DEF z
<1>6. NoEntryBy(q.trail, c)
  <2>1. ~IsTrue(q.trail, Other(q.clauses[c], F))
    BY <1>a, <1>c DEF IsAssigned
  <2> QED
    BY <1>a, <1>b, <2>1, NoReasonYet
<1>7. /\ ClausesOK(z) /\ ReasonsOK(z) /\ Attached(z) = Attached(q) /\ Len(z.clauses) = Len(q.clauses)
      /\ z.clauses[c] = u /\ \A j \in 1..Len(q.clauses) : j # c => z.clauses[j] = q.clauses[j]
  <2>1. Reordered(q.clauses[c], u)
    BY <1>3, <1>a
  <2>2. z.clauses = Replaced(q.clauses, c, u) /\ z.trail = q.trail /\ z.implications = q.implications
    BY <1>5, <1>f
  <2>3. q \in Databases /\ ClausesOK(q) /\ ReasonsOK(q) /\ c \in Attached(q)
    BY <1>1, <1>a
  <2> QED
    BY <1>6, <2>1, <2>2, <2>3, ClauseReordered
<1>8. BodyOK(z)
  BY <1>1, <1>5, <1>7, <1>f DEF BodyOK, GraphOK
<1>9. /\ BodyOK(p) /\ Begins(q.trail, v) /\ CurrentLevel(v) = CurrentLevel(q.trail)
      /\ Len(v) = Len(q.trail) + 1 /\ v[Len(v)].type = "CLAUSE" /\ v[Len(v)].literal = other
  <2>1. c \in Attached(z)
    BY <1>7, <1>a
  <2>2. ~IsAssigned(z.trail, z.clauses[c][1])
    BY <1>3, <1>5, <1>7, <1>c
  <2>3. ASSUME NEW i \in 2..Len(z.clauses[c]) PROVE IsFalse(z.trail, z.clauses[c][i])
    <3>1. i = 2 \/ i \in 3..Len(s)
      BY <1>2, <1>4, <1>7, <2>3
    <3>2. CASE i = 2
      BY <1>3, <1>5, <1>7, <1>b, <3>2
    <3>3. CASE i \in 3..Len(s)
      BY <1>3, <1>5, <1>7, <1>c, <3>3 DEF Candidates
    <3> QED
      BY <3>1, <3>2, <3>3
  <2>4. v = Enqueued(z.trail, z.clauses[c][1], CurrentLevel(z.trail), "CLAUSE", c)
    BY <1>3, <1>5, <1>7, <1>e
  <2>5. p = [z EXCEPT !.trail = v]
    BY <1>5
  <2>6. z.trail = q.trail /\ z.clauses[c][1] = other
    BY <1>3, <1>5, <1>7
  <2> QED
    BY <1>8, <2>1, <2>2, <2>3, <2>4, <2>5, <2>6, ClauseEntryBody
<1>10. ASSUME NEW j \in Attached(q) PROVE SameWatches(q, p, j) /\ Reordered(q.clauses[j], p.clauses[j])
  <2>1. CASE j = c
    <3>1. p.clauses[j] = u /\ q.clauses[j] = s
      BY <1>5, <1>7, <1>a, <2>1
    <3>2. {u[1], u[2]} = {s[1], s[2]}
      BY <1>3
    <3> QED
      BY <1>3, <1>4, <3>1, <3>2 DEF SameWatches, Watches
  <2>2. CASE j # c
    <3>1. p.clauses[j] = q.clauses[j] /\ q.clauses[j] \in Seq(Literals)
      BY <1>1, <1>5, <1>7, <2>2, AttachedClause
    <3> QED
      BY <3>1, NotReordered DEF SameWatches, Watches
  <2> QED
    BY <2>1, <2>2
<1>11. other \in ToSet(p.clauses[c])
  <2>1. 1 \in 1..Len(u)
    BY <1>2, <1>4
  <2> QED
    BY <1>3, <1>4, <1>5, <1>7, <2>1, ToSetFacts
<1> QED
  BY <1>5, <1>7, <1>9, <1>10, <1>11

(* The clause propagates its other watched literal.                        *)
LEMMA PropagatingIsOK ==
  ASSUME NEW d, NEW F, NEW list, NEW r, NEW i, NEW s, NEW other, NEW c, NEW w,
         InspectingOK(d, F, list, r, i, c, s, other), w = list[i],
         ~IsAssigned(r.trail, other), Candidates(r.trail, s) = {},
         NEW u, u = Propagating(s, other, F),
         NEW v, v = Enqueued(r.trail, other, CurrentLevel(r.trail), "CLAUSE", c),
         NEW e, e = PropagatedBy(Kept(r, w), c, u, v)
  PROVE  InspectionOK(d, F, list, e, i)
<1> DEFINE q == AsDatabase(d, r)
           p == AsDatabase(d, e)
<1>a. d \in Databases /\ F \in Literals
  BY DEF InspectingOK
<1>b. list \in Seq(Watchers) /\ i \in 1..Len(list) /\ DistinctClauses(list)
  BY DEF InspectingOK
<1>c. IsFalse(d.trail, F) /\ IsTrail(d.trail)
  BY DEF InspectingOK
<1>3. c \in Attached(q) /\ s = r.clauses[c] /\ c = w.clause
  BY DEF InspectingOK
<1>e. F = s[1] \/ F = s[2]
  BY DEF InspectingOK
<1>f. other = Other(s, F)
  BY DEF InspectingOK
<1>1. /\ r \in Inspecteds /\ BodyOK(q) /\ (\A l \in Literals \ {F} : ListOK(q, l, r.watchers[l]))
      /\ RestOK(q, F, r.kept, list, i - 1) /\ GrownSince(d, r.trail, "CLAUSE") /\ SameClausesSince(d, q)
      /\ FailureOK(q, r, F) /\ r.conflict = <<>>
  BY DEF InspectingOK, InspectionOK
<1>h. r \in Inspecteds /\ w \in Watchers /\ r.kept \in Seq(Watchers)
  BY <1>b, <1>1 DEF Inspecteds
<1> HIDE DEF p
<1>2. /\ q \in Databases /\ IsTrail(q.trail) /\ ClausesOK(q)
      /\ q.clauses = r.clauses /\ q.trail = r.trail /\ q.implications = d.implications
  <2>1. q = AsDatabase(d, r)
    OBVIOUS
  <2>2. BodyOK(q)
    BY <1>1
  <2> HIDE DEF q
  <2>3. q.clauses = r.clauses /\ q.trail = r.trail /\ q.implications = d.implications
    BY <1>a, <1>h, <2>1, AsDatabaseFields
  <2> QED
    BY <2>2, <2>3 DEF BodyOK
<1>4. /\ c \in 1..Len(r.clauses) /\ s \in Seq(Literals) /\ Len(s) >= 3 /\ Distinct(s)
  <2> HIDE DEF q
  <2> QED
    BY <1>2, <1>3, AttachedClause
<1>g. other \in Literals /\ u \in Seq(Literals)
  <2> HIDE DEF q
  <2>1. other \in Literals /\ Reordered(s, u)
    BY <1>4, <1>e, <1>f, PropagatingFacts
  <2> QED
    BY <2>1 DEF Reordered
<1>i. v \in Seq(Entries)
  <2>1. IsTrail(q.trail) /\ q.trail = r.trail /\ c \in Int
    BY <1>2, <1>4
  <2> HIDE DEF q
  <2>2. CurrentLevel(r.trail) \in Nat
    BY <2>1, CurrentLevelFacts
  <2>3. r.trail \in Seq(Entries)
    BY <1>h DEF Inspecteds
  <2>4. [literal |-> other, level |-> CurrentLevel(r.trail), type |-> "CLAUSE", by |-> c] \in Entries
    BY <1>g, <2>1, <2>2 DEF Entries
  <2> QED
    BY <2>3, <2>4 DEF Enqueued
<1> DEFINE k == Kept(r, w)
<1>5. /\ k \in Inspecteds /\ k.clauses = r.clauses /\ k.watchers = r.watchers
      /\ k.trail = r.trail /\ k.kept = Append(r.kept, w) /\ SameFailure(r, k)
  <2>1. k \in Inspecteds /\ SameClauses(r, k) /\ k.trail = r.trail /\ k.kept = Append(r.kept, w) /\ SameFailure(r, k)
    BY <1>h, KeptFields
  <2> QED
    BY <2>1 DEF SameClauses
<1>6. /\ e \in Inspecteds /\ e.clauses = Replaced(r.clauses, c, u) /\ e.watchers = r.watchers
      /\ e.trail = v /\ e.kept = Append(r.kept, w) /\ e.conflict = <<>> /\ e.failing = r.failing
  <2>1. e = PropagatedBy(k, c, u, v)
    OBVIOUS
  <2> HIDE DEF k, q
  <2>2. k \in Inspecteds /\ c \in 1..Len(k.clauses) /\ u \in Seq(Literals) /\ v \in Seq(Entries)
    BY <1>4, <1>5, <1>g, <1>i
  <2>3. /\ e \in Inspecteds /\ SameFailure(k, e) /\ e.kept = k.kept /\ e.watchers = k.watchers
        /\ e.clauses = Replaced(k.clauses, c, u) /\ e.trail = v
    BY <2>1, <2>2, PropagatingFields
  <2> QED
    BY <1>1, <1>5, <2>3 DEF SameFailure
<1> HIDE DEF k
<1>7. /\ p \in Databases /\ p.clauses = Replaced(q.clauses, c, u) /\ p.trail = v
      /\ p.implications = q.implications
  <2> HIDE DEF q
  <2>1. p = AsDatabase(d, e)
    BY DEF p
  <2> QED
    BY <1>a, <1>2, <1>6, <2>1, AsDatabaseFields
<1> HIDE DEF q
<1>9. IsFalse(q.trail, F)
  <2>1. Begins(d.trail, q.trail)
    BY <1>1, <1>2 DEF GrownSince
  <2> QED
    BY <1>a, <1>c, <1>2, <2>1, BeginningFacts
<1>10. /\ BodyOK(p) /\ Begins(q.trail, v) /\ CurrentLevel(v) = CurrentLevel(q.trail)
       /\ Len(v) = Len(q.trail) + 1 /\ v[Len(v)].type = "CLAUSE" /\ v[Len(v)].literal = other
       /\ Attached(p) = Attached(q) /\ Len(p.clauses) = Len(q.clauses)
       /\ \A j \in Attached(q) : SameWatches(q, p, j) /\ Reordered(q.clauses[j], p.clauses[j])
       /\ other \in ToSet(p.clauses[c])
  <2>1. s = q.clauses[c] /\ ~IsAssigned(q.trail, other) /\ Candidates(q.trail, s) = {}
    BY <1>2, <1>3
  <2>2. v = Enqueued(q.trail, other, CurrentLevel(q.trail), "CLAUSE", c)
    BY <1>2
  <2>3. BodyOK(q)
    BY <1>1
  <2> QED
    <3>1. PropagatesInto(q, c, s, F, other, u, v, p)
      BY <1>3, <1>7, <1>9, <1>a, <1>e, <1>f, <2>1, <2>2, <2>3 DEF PropagatesInto
    <3> QED
      BY <3>1, PropagatedBody
<1>11. IsTrail(v)
  BY <1>7, <1>10 DEF BodyOK
<1>12. \A l \in Literals : FalseForGood(q.trail, l) => FalseForGood(p.trail, l)
  BY <1>7, <1>10 DEF FalseForGood, Begins
<1>13. \A j \in Attached(q) : SameWatches(q, p, j)
  BY <1>10
<1>14. RestOK(p, F, e.kept, list, i)
  <2>1. WatcherOK(q, F, w)
    <3>1. i \in ((i - 1) + 1)..Len(list)
      BY <1>b
    <3> QED
      BY <1>1, <3>1 DEF RestOK
  <2>2. RestOK(q, F, r.kept, list, i - 1) /\ w.clause = list[i].clause
    BY <1>1
  <2>3. RestOK(q, F, e.kept, list, i)
    BY <1>b, <1>h, <1>6, <2>1, <2>2, KeepOne
  <2>4. e.kept \in Seq(Watchers) /\ i \in Nat /\ list \in Seq(Watchers)
    BY <1>b, <1>6 DEF Inspecteds
  <2>5. Attached(p) = Attached(q)
    BY <1>10
  <2> QED
    BY <1>12, <1>13, <2>3, <2>4, <2>5, SameRest
<1>15. ASSUME NEW l \in Literals \ {F} PROVE ListOK(p, l, e.watchers[l])
  <2>1. r.watchers[l] \in Seq(Watchers)
    BY <1>h DEF Inspecteds
  <2>2. ListOK(q, l, r.watchers[l])
    BY <1>1
  <2>3. Attached(p) = Attached(q) /\ e.watchers[l] = r.watchers[l]
    BY <1>6, <1>10
  <2>4. ListOK(p, l, r.watchers[l])
    BY <1>12, <1>13, <2>1, <2>2, <2>3, SameList
  <2> QED
    BY <2>3, <2>4
<1>16. SameClausesSince(d, p)
  <2>1. Attached(q) = Attached(d) /\ Len(p.clauses) = Len(d.clauses) /\ Attached(p) = Attached(d)
    BY <1>1, <1>10 DEF SameClausesSince
  <2>2. ASSUME NEW j \in Attached(d)
        PROVE /\ Reordered(d.clauses[j], p.clauses[j])
              /\ \A l \in Watches(p, j) : l \in Watches(d, j) \/ ~IsFalse(d.trail, l)
    <3>1. /\ Reordered(d.clauses[j], q.clauses[j])
          /\ \A l \in Watches(q, j) : l \in Watches(d, j) \/ ~IsFalse(d.trail, l)
      BY <1>1 DEF SameClausesSince
    <3>2. Reordered(q.clauses[j], p.clauses[j]) /\ Watches(p, j) = Watches(q, j)
      BY <1>10, <2>1 DEF SameWatches
    <3> QED
      BY <3>1, <3>2, ReorderedTwice
  <2> QED
    BY <2>1, <2>2 DEF SameClausesSince
<1>17. GrownSince(d, v, "CLAUSE")
  <2>1. /\ Begins(d.trail, q.trail) /\ CurrentLevel(q.trail) = CurrentLevel(d.trail)
        /\ \A j \in 1..Len(q.trail) : j > Len(d.trail) => q.trail[j].type = "CLAUSE"
    BY <1>1, <1>2 DEF GrownSince
  <2>2. Len(d.trail) \in Nat /\ Len(q.trail) \in Nat
    BY <1>2, <1>c, TrailEntries
  <2>3. Begins(d.trail, v)
    BY <1>10, <2>1, <2>2 DEF Begins
  <2>4. ASSUME NEW j \in 1..Len(v), j > Len(d.trail) PROVE v[j].type = "CLAUSE"
    <3>1. j \in 1..Len(q.trail) \/ j = Len(v)
      BY <1>10, <2>2
    <3> QED
      BY <1>10, <2>1, <2>4, <3>1 DEF Begins
  <2> QED
    BY <1>10, <2>1, <2>3, <2>4 DEF GrownSince
<1>18. FailureOK(p, e, F)
  <2>1. e.conflict = <<>> /\ e.failing = 0
    BY <1>1, <1>6 DEF FailureOK
  <2>2. /\ Len(e.kept) = Len(r.kept) + 1 /\ e.kept[Len(r.kept) + 1] = w
        /\ \A j \in 1..Len(r.kept) : e.kept[j] = r.kept[j]
    BY <1>h, <1>6, AppendFacts
  <2>3. ASSUME NEW j \in 1..Len(e.kept)
        PROVE \E l \in ToSet(p.clauses[e.kept[j].clause]) : IsTrue(p.trail, l)
    <3>1. j \in 1..Len(r.kept) \/ j = Len(r.kept) + 1
      BY <1>h, <2>2
    <3>2. CASE j \in 1..Len(r.kept)
      <4>1. PICK l \in ToSet(q.clauses[r.kept[j].clause]) : IsTrue(q.trail, l)
        BY <1>1, <3>2 DEF FailureOK
      <4>2. r.kept[j].clause \in Attached(q)
        BY <1>1, <3>2 DEF RestOK, WatcherOK
      <4>3. l \in ToSet(p.clauses[r.kept[j].clause])
        BY <1>13, <4>1, <4>2 DEF SameWatches
      <4>4. IsTrue(p.trail, l)
        <5>1. PICK m \in 1..Len(q.trail) : q.trail[m].literal = l
          BY <4>1 DEF IsTrue
        <5>2. m \in 1..Len(v) /\ v[m] = q.trail[m]
          BY <1>2, <1>10, <5>1, TrailEntries DEF Begins
        <5> QED
          BY <1>7, <5>1, <5>2 DEF IsTrue
      <4> QED
        BY <2>2, <3>2, <4>3, <4>4
    <3>3. CASE j = Len(r.kept) + 1
      <4>1. e.kept[j].clause = c
        BY <1>3, <2>2, <3>3
      <4>2. IsTrue(p.trail, other)
        <5>1. Len(v) \in 1..Len(v)
          BY <1>2, <1>10, TrailEntries
        <5> QED
          BY <1>7, <1>10, <5>1 DEF IsTrue
      <4> QED
        BY <1>10, <4>1, <4>2
    <3> QED
      BY <3>1, <3>2, <3>3
  <2> QED
    BY <2>1, <2>3 DEF FailureOK
<1> QED
  BY <1>6, <1>10, <1>14, <1>15, <1>16, <1>17, <1>18 DEF InspectionOK, p
-----------------------------------------------------------------------------
(* The i-th watcher, whatever becomes of it.                               *)
LEMMA InspectionIsOK ==
  ASSUME NEW d \in Databases, NEW F \in Literals, NEW list \in Seq(Watchers), NEW i \in 1..Len(list),
         IsFalse(d.trail, F), IsTrail(d.trail), DistinctClauses(list),
         NEW r, InspectionOK(d, F, list, r, i - 1),
         NEW e, e = InspectedNext(r, list[i], F)
  PROVE  InspectionOK(d, F, list, e, i)
<1> DEFINE w == list[i]
           c == w.clause
           q == AsDatabase(d, r)
           s == r.clauses[c]
           other == Other(s, F)
<1>1. /\ r \in Inspecteds /\ BodyOK(q) /\ RestOK(q, F, r.kept, list, i - 1)
      /\ GrownSince(d, r.trail, "CLAUSE")
  BY DEF InspectionOK
<1>2. w \in Watchers
  OBVIOUS
<1>3. /\ q \in Databases /\ IsTrail(q.trail) /\ ClausesOK(q) /\ q.clauses = r.clauses /\ q.trail = r.trail
  <2>1. q = AsDatabase(d, r)
    OBVIOUS
  <2>2. BodyOK(q)
    BY <1>1
  <2> HIDE DEF q
  <2>3. q.clauses = r.clauses /\ q.trail = r.trail
    BY <1>1, <2>1, AsDatabaseFields
  <2> QED
    BY <2>2, <2>3 DEF BodyOK
<1>4. WatcherOK(q, F, w)
  <2>1. i \in ((i - 1) + 1)..Len(list)
    OBVIOUS
  <2> QED
    BY <1>1, <2>1 DEF RestOK
<1>5. c \in Attached(q) /\ (F = s[1] \/ F = s[2])
  BY <1>3, <1>4 DEF WatcherOK, Watches
<1>6. /\ s \in Seq(Literals) /\ Len(s) >= 3 /\ Distinct(s) /\ other \in ToSet(s) /\ other \in Literals
      /\ F \in ToSet(s)
  <2> HIDE DEF w, q, c
  <2>1. /\ s \in Seq(Literals) /\ Len(s) >= 3 /\ Distinct(s) /\ s[1] \in ToSet(s) /\ s[2] \in ToSet(s)
        /\ s[1] \in Literals /\ s[2] \in Literals
    BY <1>3, <1>5, AttachedClause
  <2> QED
    BY <1>5, <2>1 DEF Other
<1>7. CASE r.conflict # <<>>
  <2>1. e = Kept(r, w)
    BY <1>7 DEF InspectedNext
  <2> HIDE DEF q
  <2>2. WatcherOK(AsDatabase(d, r), F, w)
    BY <1>4 DEF q
  <2>3. w \in Watchers /\ w.clause = list[i].clause
    BY <1>2
  <2> HIDE DEF w
  <2> QED
    BY <1>7, <2>1, <2>2, <2>3, KeptIsOK
<1>8. CASE r.conflict = <<>>
  <2>1. e = Inspected(r, w, F)
    BY <1>8 DEF InspectedNext
  <2> HIDE DEF q, other, c
  <2>0. InspectedAs(r, w, c, s, other, F, e)
    <3>1. s = r.clauses[w.clause] /\ other = Other(s, F)
      BY DEF c, other
    <3>2. c = w.clause
      BY DEF c
    <3> HIDE DEF w, s
    <3> QED
      BY <1>1, <1>2, <1>6, <2>1, <3>1, <3>2, InspectedCases
  <2>2. \/ IsTrue(r.trail, w.blocking) /\ e = Kept(r, w)
        \/ IsTrue(r.trail, other) /\ e = Kept(r, [w EXCEPT !.blocking = other])
        \/ /\ ~IsTrue(r.trail, other)
           /\ \E k \in Candidates(r.trail, s) :
                e = Watching(r, c, WithOther(s, other, k, F), s[k], Watcher(c, other, k + 1))
        \/ /\ Candidates(r.trail, s) = {} /\ IsFalse(r.trail, other)
           /\ e = Failing(Kept(r, w), s, c)
        \/ /\ ~IsAssigned(r.trail, other) /\ Candidates(r.trail, s) = {}
           /\ e = PropagatedBy(Kept(r, w), c, Propagating(s, other, F),
                     Enqueued(r.trail, other, CurrentLevel(r.trail), "CLAUSE", c))
    BY <2>0 DEF InspectedAs
  <2>3. c = list[i].clause /\ s = r.clauses[c] /\ other = Other(s, F) /\ w = list[i]
    BY DEF other, c
  <2>4. q = AsDatabase(d, r)
    BY DEF q
  <2>5. ASSUME ~IsTrue(r.trail, other) PROVE InspectingOK(d, F, list, r, i, c, s, other)
    BY <1>5, <1>8, <2>3, <2>4, <2>5 DEF InspectingOK
  <2> HIDE DEF w, s
  <2>6. CASE IsTrue(r.trail, w.blocking) /\ e = Kept(r, w)
    <3>1. ~FalseForGood(q.trail, w.blocking)
      <4>1. w.blocking \in Literals
        BY <1>2 DEF Watchers
      <4>2. FalseForGood(q.trail, w.blocking) => IsFalse(q.trail, w.blocking)
        BY DEF FalseForGood, IsFalse, IsTrue
      <4> QED
        BY <1>3, <2>6, <4>1, <4>2, TrailFacts
    <3>2. w.blocking \in ToSet(s)
      BY <1>3, <1>4, <2>3, <3>1 DEF WatcherOK
    <3>3. WatcherOK(AsDatabase(d, r), F, w) /\ w.clause = list[i].clause
      BY <1>4, <2>3, <2>4
    <3>4. \E l \in ToSet(r.clauses[w.clause]) : IsTrue(r.trail, l)
      BY <2>3, <2>6, <3>2
    <3> QED
      BY <1>2, <2>6, <3>3, <3>4, KeptIsOK
  <2>7. CASE IsTrue(r.trail, other) /\ e = Kept(r, [w EXCEPT !.blocking = other])
    <3> DEFINE x == [w EXCEPT !.blocking = other]
    <3>1. x \in Watchers /\ x.clause = c /\ x.blocking = other
      BY <1>2, <1>6, <2>3 DEF Watchers
    <3>2. e = Kept(r, x)
      BY <2>7
    <3> HIDE DEF x
    <3>3. WatcherOK(q, F, x)
      BY <1>3, <1>4, <1>6, <2>3, <3>1 DEF WatcherOK
    <3>4. \E l \in ToSet(r.clauses[x.clause]) : IsTrue(r.trail, l)
      BY <1>6, <2>3, <2>7, <3>1
    <3>5. WatcherOK(AsDatabase(d, r), F, x) /\ x.clause = list[i].clause
      BY <2>3, <2>4, <3>1, <3>3
    <3> QED
      BY <3>1, <3>2, <3>4, <3>5, KeptIsOK
  <2>8. ASSUME ~IsTrue(r.trail, other), NEW k \in Candidates(r.trail, s),
               e = Watching(r, c, WithOther(s, other, k, F), s[k], Watcher(c, other, k + 1))
        PROVE  InspectionOK(d, F, list, e, i)
    <3> DEFINE u == WithOther(s, other, k, F)
               x == Watcher(c, other, k + 1)
    <3>1. MovedTo(r.trail, s, F, other, u, s[k])
      BY <1>5, <1>6, <2>3, MovedFacts
    <3>2. k + 1 \in Nat /\ c \in Nat \ {0}
      <4>1. k \in 3..Len(s)
        BY DEF Candidates
      <4>2. c \in 1..Len(q.clauses)
        BY <1>3, <1>5, AttachedClause
      <4> QED
        BY <4>1, <4>2
    <3>3. x \in Watchers /\ x = Watcher(c, other, x.start)
      BY <1>6, <3>2 DEF Watchers, Watcher
    <3>4. e = Watching(r, c, u, s[k], x) /\ InspectingOK(d, F, list, r, i, c, s, other)
      BY <2>5, <2>8
    <3> DEFINE new == s[k]
    <3>5. MovedTo(r.trail, s, F, other, u, new) /\ e = Watching(r, c, u, new, x)
      BY <3>1, <3>4
    <3> HIDE DEF u, x, new
    <3> QED
      BY <3>3, <3>4, <3>5, WatchingIsOK
  <2>9. CASE /\ Candidates(r.trail, s) = {} /\ IsFalse(r.trail, other)
             /\ e = Failing(Kept(r, w), s, c)
    <3>1. ~IsTrue(r.trail, other)
      BY <1>3, <1>6, <2>9, TrailFacts
    <3>2. InspectingOK(d, F, list, r, i, c, s, other)
      BY <2>5, <3>1
    <3> QED
      BY <2>3, <2>9, <3>2, FailingIsOK
  <2>10. CASE /\ ~IsAssigned(r.trail, other) /\ Candidates(r.trail, s) = {}
              /\ e = PropagatedBy(Kept(r, w), c, Propagating(s, other, F),
                        Enqueued(r.trail, other, CurrentLevel(r.trail), "CLAUSE", c))
    <3>1. InspectingOK(d, F, list, r, i, c, s, other)
      BY <2>5, <2>10 DEF IsAssigned
    <3> DEFINE u == Propagating(s, other, F)
               v == Enqueued(r.trail, other, CurrentLevel(r.trail), "CLAUSE", c)
    <3>2. u = Propagating(s, other, F) /\ v = Enqueued(r.trail, other, CurrentLevel(r.trail), "CLAUSE", c)
      OBVIOUS
    <3>3. e = PropagatedBy(Kept(r, w), c, u, v)
      BY <2>10
    <3> HIDE DEF u, v
    <3> QED
      BY <2>3, <2>10, <3>1, <3>2, <3>3, PropagatingIsOK, SMTT(20)
  <2> QED
    BY <2>2, <2>6, <2>7, <2>8, <2>9, <2>10
<1> QED
  BY <1>7, <1>8

(* Before the first watcher.                                               *)
LEMMA InspectionsStart ==
  ASSUME NEW d, DatabaseOK(d), NEW F \in Literals, NEW list, list = d.watchers[F],
         NEW first,
         first = [clauses |-> d.clauses, watchers |-> d.watchers, trail |-> d.trail,
                  kept |-> <<>>, conflict |-> <<>>, failing |-> 0]
  PROVE  InspectionOK(d, F, list, first, 0)
<1> DEFINE q == AsDatabase(d, first)
<1>1. d \in Databases /\ IsTrail(d.trail) /\ BodyOK(d) /\ WatchesOK(d) /\ list \in Seq(Watchers)
  BY DatabaseTypes DEF DatabaseOK, BodyOK
<1>2. q = d
  BY <1>1 DEF AsDatabase, Databases
<1>3. first \in Inspecteds
  BY <1>1, DatabaseTypes DEF Inspecteds
<1>4. /\ first.kept = <<>> /\ first.conflict = <<>> /\ first.failing = 0 /\ first.trail = d.trail
      /\ first.watchers = d.watchers
  OBVIOUS
<1> HIDE DEF q
<1>5. \A l \in Literals : ListOK(q, l, first.watchers[l])
  BY <1>1, <1>2, <1>4 DEF WatchesOK, ListOK
<1>6. RestOK(q, F, first.kept, list, 0)
  <2>1. ListOK(d, F, list)
    BY <1>2, <1>4, <1>5
  <2>2. 0 + 1 = 1 /\ 1..Len(first.kept) = {}
    BY <1>4
  <2> QED
    BY <1>2, <2>1, <2>2 DEF RestOK, ListOK
<1>7. GrownSince(d, first.trail, "CLAUSE")
  BY <1>1, <1>4, TrailEntries DEF GrownSince, Begins
<1>8. SameClausesSince(d, q)
  <2> SUFFICES ASSUME NEW c \in Attached(d) PROVE Reordered(d.clauses[c], d.clauses[c])
    BY <1>2 DEF SameClausesSince
  <2>1. d.clauses[c] \in Seq(Literals)
    BY <1>1, AttachedClause DEF DatabaseOK
  <2> QED
    BY <2>1, NotReordered
<1>9. FailureOK(q, first, F)
  BY <1>4 DEF FailureOK
<1>10. BodyOK(q)
  BY <1>1, <1>2
<1> QED
  BY <1>3, <1>5, <1>6, <1>7, <1>8, <1>9, <1>10 DEF InspectionOK, q

(* All of them.                                                            *)
LEMMA InspectionsAreOK ==
  ASSUME NEW d, DatabaseOK(d), NEW F \in Literals, IsFalse(d.trail, F),
         NEW list, list = d.watchers[F], NEW r, r = Inspections(d, list, F)[Len(list)]
  PROVE  InspectionOK(d, F, list, r, Len(list))
<1>1. d \in Databases /\ IsTrail(d.trail) /\ BodyOK(d) /\ WatchesOK(d) /\ list \in Seq(Watchers)
  BY DatabaseTypes DEF DatabaseOK, BodyOK
<1>2. Len(list) \in Nat /\ DistinctClauses(list)
  BY <1>1 DEF WatchesOK, DistinctClauses
<1>3. PICK f :
        /\ f[0] = [clauses |-> d.clauses, watchers |-> d.watchers, trail |-> d.trail,
                   kept |-> <<>>, conflict |-> <<>>, failing |-> 0]
        /\ \A i \in 1..Len(list) : f[i] = InspectedNext(f[i - 1], list[i], F)
        /\ Inspections(d, list, F) = f
  BY <1>2, InspectionsLoop
<1>4. InspectionOK(d, F, list, f[0], 0)
  BY <1>3, InspectionsStart
<1> DEFINE S == {i \in Nat : i <= Len(list) => InspectionOK(d, F, list, f[i], i)}
<1>5. 0 \in S
  BY <1>4
<1>6. \A i \in Nat : i \in S => i + 1 \in S
  <2> SUFFICES ASSUME NEW i \in Nat, i \in S, i + 1 <= Len(list)
               PROVE  InspectionOK(d, F, list, f[i + 1], i + 1)
    OBVIOUS
  <2>1. i + 1 \in 1..Len(list) /\ (i + 1) - 1 = i /\ InspectionOK(d, F, list, f[i], i)
    BY <1>2
  <2>2. f[i + 1] = InspectedNext(f[i], list[i + 1], F)
    BY <1>3, <2>1
  <2> HIDE DEF S
  <2> DEFINE j == i + 1
             e == f[j]
             before == f[i]
  <2>3. j \in 1..Len(list) /\ InspectionOK(d, F, list, before, j - 1) /\ e = InspectedNext(before, list[j], F)
    BY <2>1, <2>2
  <2> HIDE DEF j, e, before
  <2>4. InspectionOK(d, F, list, e, j)
    BY <1>1, <1>2, <2>3, InspectionIsOK
  <2> QED
    BY <2>4 DEF e, j
<1>7. Len(list) \in S
  <2> HIDE DEF S
  <2> QED
    BY <1>2, <1>5, <1>6, SetInduction
<1> QED
  BY <1>2, <1>3, <1>7
(* PropagateOnFalse()                                                      *)
LEMMA PropagateOnFalseIsOK ==
  ASSUME NEW d, DatabaseOK(d), NEW F \in Literals, IsFalse(d.trail, F),
         NEW r, r = PropagateOnFalse(d, F), NEW e, e = AsDatabase(d, r)
  PROVE  /\ DatabaseOK(e) /\ e.clauses = r.clauses /\ e.watchers = r.watchers /\ e.trail = r.trail
         /\ e.implications = d.implications
         /\ GrownSince(d, r.trail, "CLAUSE") /\ SameClausesSince(d, e)
         /\ r.conflict \in Seq(Literals) /\ r.failing \in Nat
         /\ r.conflict = <<>> =>
              /\ r.failing = 0
              /\ \A c \in Attached(e) : F \in Watches(e, c) =>
                   \E l \in ToSet(e.clauses[c]) : IsTrue(e.trail, l)
         /\ r.conflict # <<>> =>
              /\ r.failing \in Attached(e) /\ r.conflict = e.clauses[r.failing] /\ F \in ToSet(r.conflict)
              /\ \A l \in ToSet(r.conflict) : IsFalse(e.trail, l)
<1> DEFINE list == d.watchers[F]
           x == Inspections(d, list, F)[Len(list)]
           q == AsDatabase(d, x)
<1>1. d \in Databases /\ list \in Seq(Watchers) /\ Len(list) \in Nat
  BY DatabaseTypes DEF DatabaseOK
<1>2. InspectionOK(d, F, list, x, Len(list))
  <2>1. list = d.watchers[F] /\ x = Inspections(d, list, F)[Len(list)]
    OBVIOUS
  <2> HIDE DEF list, x
  <2> QED
    BY <2>1, InspectionsAreOK
<1>3. r = [x EXCEPT !.watchers[F] = x.kept]
  <2>1. r = The({[y EXCEPT !.watchers[F] = y.kept] : y \in {x}})
    BY DEF PropagateOnFalse
  <2> HIDE DEF x
  <2>2. {[y EXCEPT !.watchers[F] = y.kept] : y \in {x}} = {[x EXCEPT !.watchers[F] = x.kept]}
    OBVIOUS
  <2> QED
    BY <2>1, <2>2, TheOfOne
<1> HIDE DEF x
<1>4. /\ x \in Inspecteds /\ BodyOK(q) /\ (\A l \in Literals \ {F} : ListOK(q, l, x.watchers[l]))
      /\ RestOK(q, F, x.kept, list, Len(list)) /\ GrownSince(d, x.trail, "CLAUSE") /\ SameClausesSince(d, q)
      /\ FailureOK(q, x, F)
  BY <1>2 DEF InspectionOK
<1>5. /\ x.clauses \in Seq(Seq(Literals)) /\ x.watchers \in [Literals -> Seq(Watchers)]
      /\ x.trail \in Seq(Entries) /\ x.kept \in Seq(Watchers) /\ x.conflict \in Seq(Literals)
      /\ x.failing \in Nat
  BY <1>4 DEF Inspecteds
<1> DEFINE W == [x.watchers EXCEPT ![F] = x.kept]
<1>6. /\ W \in [Literals -> Seq(Watchers)] /\ W[F] = x.kept
      /\ \A l \in Literals \ {F} : W[l] = x.watchers[l]
  BY <1>5
<1>7. r = [x EXCEPT !.watchers = W]
  BY <1>3
<1> HIDE DEF W
<1>8. /\ r.clauses = x.clauses /\ r.watchers = W /\ r.trail = x.trail /\ r.conflict = x.conflict
      /\ r.failing = x.failing
  BY <1>4, <1>7 DEF Inspecteds
<1>9. /\ e.clauses = x.clauses /\ e.watchers = W /\ e.implications = d.implications /\ e.trail = x.trail
      /\ q.clauses = x.clauses /\ q.implications = d.implications /\ q.trail = x.trail
  BY <1>8 DEF AsDatabase
<1>10. e \in Databases
  <2>1. d.implications \in [Literals -> Seq(Literals)]
    BY <1>1, DatabaseTypes
  <2> QED
    BY <1>5, <1>6, <1>8, <2>1 DEF AsDatabase, Databases
<1> HIDE DEF q, list
<1>11. Attached(e) = Attached(q) /\ \A c : Watches(e, c) = Watches(q, c)
  BY <1>9 DEF Attached, IsRemoved, Watches
<1>12. \A i : EntryIsExplained(e, i) = EntryIsExplained(q, i)
  <2>1. \A i : Reason(e, i) = Reason(q, i)
    BY <1>9 DEF Reason
  <2> QED
    BY <1>9, <1>11, <2>1 DEF EntryIsExplained
<1>13. IsTrail(e.trail) /\ ClausesOK(e) /\ GraphOK(e) /\ ReasonsOK(e)
  BY <1>4, <1>9, <1>11, <1>12 DEF BodyOK, ClausesOK, GraphOK, ReasonsOK
<1>14. \A l \in Literals : ListOK(q, l, W[l])
  <2>1. ListOK(q, F, x.kept)
    <3>1. (Len(list) + 1)..Len(list) = {}
      BY <1>1
    <3> QED
      BY <1>4, <3>1 DEF RestOK, ListOK
  <2> QED
    BY <1>4, <1>6, <2>1
<1>15. WatchesOK(e)
  <2>1. \A l, w : WatcherOK(q, l, w) = WatcherOK(e, l, w)
    BY <1>9, <1>11 DEF WatcherOK
  <2> QED
    BY <1>9, <1>11, <1>14, <2>1 DEF WatchesOK, ListOK
<1>16. DatabaseOK(e)
  BY <1>10, <1>13, <1>15 DEF DatabaseOK
<1>17. SameClausesSince(d, e)
  BY <1>4, <1>9, <1>11 DEF SameClausesSince
<1>18. ASSUME r.conflict = <<>>
       PROVE  /\ r.failing = 0
              /\ \A c \in Attached(e) : F \in Watches(e, c) =>
                   \E l \in ToSet(e.clauses[c]) : IsTrue(e.trail, l)
  <2>1. ASSUME NEW c \in Attached(e), F \in Watches(e, c)
        PROVE \E l \in ToSet(e.clauses[c]) : IsTrue(e.trail, l)
    <3>1. PICK j \in 1..Len(W[F]) : W[F][j].clause = c
      BY <1>11, <1>14, <2>1 DEF ListOK
    <3> QED
      BY <1>4, <1>6, <1>8, <1>9, <1>18, <3>1 DEF FailureOK
  <2> QED
    BY <1>4, <1>8, <1>18, <2>1 DEF FailureOK
<1>19. ASSUME r.conflict # <<>>
       PROVE  /\ r.failing \in Attached(e) /\ r.conflict = e.clauses[r.failing] /\ F \in ToSet(r.conflict)
              /\ \A l \in ToSet(r.conflict) : IsFalse(e.trail, l)
  BY <1>4, <1>8, <1>9, <1>11, <1>19 DEF FailureOK
<1> QED
  BY <1>4, <1>5, <1>8, <1>9, <1>16, <1>17, <1>18, <1>19

-----------------------------------------------------------------------------
(* Propagate() of the implication graph.                                   *)
Propagateds == [trail : Seq(Entries), conflict : Seq(Literals), index : Nat]
WithTrailOf(d, t) == [d EXCEPT !.trail = t]
BinaryConflict(d, t, conf) ==
  \E l, m \in Literals :
    conf = <<-l, m>> /\ m \in ToSet(d.implications[l]) /\ IsTrue(t, l) /\ IsFalse(t, m)
ImpliedOK(d, r) ==
  /\ r \in Propagateds /\ DatabaseOK(WithTrailOf(d, r.trail)) /\ GrownSince(d, r.trail, "BINARY")
  /\ r.conflict # <<>> => BinaryConflict(d, r.trail, r.conflict)

(* What propagation adds to what it added before.                          *)
LEMMA GrownMore ==
  ASSUME NEW d, IsTrail(d.trail), NEW type, NEW t, IsTrail(t), GrownSince(d, t, type),
         NEW u, IsTrail(u), Begins(t, u), CurrentLevel(u) = CurrentLevel(t),
         \A j \in 1..Len(u) : j > Len(t) => u[j].type = type
  PROVE  GrownSince(d, u, type)
<1>1. Len(d.trail) \in Nat /\ Len(t) \in Nat /\ Len(u) \in Nat
  BY TrailEntries
<1>2. /\ Begins(d.trail, t) /\ CurrentLevel(t) = CurrentLevel(d.trail)
      /\ \A j \in 1..Len(t) : j > Len(d.trail) => t[j].type = type
  BY DEF GrownSince
<1>3. Begins(d.trail, u)
  BY <1>1, <1>2 DEF Begins
<1>4. ASSUME NEW j \in 1..Len(u), j > Len(d.trail) PROVE u[j].type = type
  <2>1. CASE j \in 1..Len(t)
    BY <1>1, <1>2, <1>4, <2>1 DEF Begins
  <2>2. CASE j > Len(t)
    BY <1>4, <2>2
  <2> QED
    BY <1>1, <2>1, <2>2
<1> QED
  BY <1>2, <1>3, <1>4 DEF GrownSince

(* One implication: its literal is true then, unless there is a conflict.  *)
LEMMA ImpliedIsOK ==
  ASSUME NEW d, DatabaseOK(d), NEW r, ImpliedOK(d, r), NEW by \in Literals, IsTrue(r.trail, by),
         NEW l \in ToSet(d.implications[by]), NEW e, e = Implied(r, by, l)
  PROVE  /\ ImpliedOK(d, e) /\ Begins(r.trail, e.trail) /\ e.index = r.index
         /\ r.conflict # <<>> => e.conflict # <<>>
         /\ e.conflict = <<>> => IsTrue(e.trail, l)
<1> DEFINE q == WithTrailOf(d, r.trail)
           t == r.trail
           u == Enqueued(t, l, CurrentLevel(t), "BINARY", -by)
<1>1. /\ r \in Propagateds /\ DatabaseOK(q) /\ GrownSince(d, t, "BINARY") /\ t \in Seq(Entries)
      /\ r.conflict \in Seq(Literals) /\ r.index \in Nat
      /\ r.conflict # <<>> => BinaryConflict(d, t, r.conflict)
  BY DEF ImpliedOK, Propagateds
<1>2. d \in Databases /\ IsTrail(d.trail) /\ GraphOK(d)
  BY DEF DatabaseOK
<1>3. l \in Literals /\ -by \in Literals /\ -(-by) = by /\ -l \in Literals
  BY <1>2, DatabaseTypes, ToSetFacts, LiteralFacts
<1>4. q.trail = t /\ q.implications = d.implications /\ IsTrail(t)
  BY <1>1, <1>2 DEF WithTrailOf, Databases, DatabaseOK
<1>5. Len(t) \in Nat /\ Begins(t, t)
  BY <1>4, TrailEntries DEF Begins
<1>6. CASE r.conflict # <<>> \/ IsTrue(r.trail, l)
  <2>1. e = r
    BY <1>6 DEF Implied
  <2> QED
    BY <1>1, <1>5, <1>6, <2>1
<1>7. CASE r.conflict = <<>> /\ ~IsTrue(r.trail, l) /\ IsFalse(r.trail, l)
  <2>1. e = [r EXCEPT !.conflict = <<-by, l>>]
    BY <1>7 DEF Implied
  <2>2. <<-by, l>> \in Seq(Literals) /\ <<-by, l>> # <<>>
    BY <1>3
  <2>3. /\ e \in Propagateds /\ e.trail = t /\ e.index = r.index /\ e.conflict = <<-by, l>>
    BY <1>1, <2>1, <2>2 DEF Propagateds
  <2>4. BinaryConflict(d, t, e.conflict)
    BY <1>3, <1>7, <2>3 DEF BinaryConflict
  <2>5. ImpliedOK(d, e)
    BY <1>1, <2>3, <2>4 DEF ImpliedOK
  <2> QED
    BY <1>5, <1>7, <2>2, <2>3, <2>5
<1>8. CASE r.conflict = <<>> /\ ~IsTrue(r.trail, l) /\ ~IsFalse(r.trail, l)
  <2>1. e = [r EXCEPT !.trail = u]
    BY <1>8 DEF Implied
  <2>2. ~IsAssigned(t, l) /\ IsFalse(t, -by)
    BY <1>3, <1>8 DEF IsAssigned, IsFalse
  <2>3. DatabaseOK(WithTrailOf(q, u)) /\ IsTrail(u) /\ Begins(t, u)
    <3>1. u = Enqueued(q.trail, l, CurrentLevel(q.trail), "BINARY", -by)
      BY <1>4
    <3>2. WithTrailOf(q, u) = [q EXCEPT !.trail = u]
      BY DEF WithTrailOf
    <3>3. ~IsAssigned(q.trail, l) /\ IsFalse(q.trail, -by) /\ l \in ToSet(q.implications[-(-by)])
      BY <1>3, <1>4, <2>2
    <3> DEFINE z == -by
               g == WithTrailOf(q, u)
    <3> HIDE DEF u, q
    <3>4. /\ DatabaseOK(q) /\ z \in Literals /\ g = [q EXCEPT !.trail = u]
          /\ u = Enqueued(q.trail, l, CurrentLevel(q.trail), "BINARY", z)
          /\ ~IsAssigned(q.trail, l) /\ IsFalse(q.trail, z) /\ l \in ToSet(q.implications[-z])
      BY <1>1, <1>3, <3>1, <3>2, <3>3
    <3> HIDE DEF z, g
    <3>5. DatabaseOK(g) /\ IsTrail(u) /\ Begins(q.trail, u)
      BY <1>3, <3>4, BinaryEntry
    <3> QED
      BY <1>4, <3>5 DEF g
  <2>4. WithTrailOf(q, u) = WithTrailOf(d, u)
    BY <1>2 DEF WithTrailOf, Databases
  <2>5. /\ Len(u) = Len(t) + 1 /\ u[Len(u)].literal = l /\ u[Len(u)].type = "BINARY"
        /\ CurrentLevel(u) = CurrentLevel(t)
    <3>1. CurrentLevel(t) \in Nat /\ CurrentLevel(t) <= Len(t) + 1
      BY <1>4, <1>5, CurrentLevelFacts
    <3>2. -by \in Int /\ CurrentLevel(t) >= CurrentLevel(t)
      BY <1>3, <3>1, LiteralFacts
    <3> DEFINE z == -by
    <3>3. u = Enqueued(t, l, CurrentLevel(t), "BINARY", z) /\ z \in Int
      BY <3>2
    <3> HIDE DEF u, z
    <3> QED
      BY <1>3, <1>4, <2>2, <3>1, <3>2, <3>3, EnqueuedFacts
  <2> HIDE DEF u, q
  <2>6. e \in Propagateds /\ e.trail = u /\ e.conflict = r.conflict /\ e.index = r.index
    BY <1>1, <2>1, <2>3 DEF Propagateds, IsTrail
  <2>7. GrownSince(d, u, "BINARY")
    <3>1. \A j \in 1..Len(u) : j > Len(t) => u[j].type = "BINARY"
      BY <1>5, <2>5
    <3> QED
      BY <1>1, <1>2, <1>4, <2>3, <2>5, <3>1, GrownMore
  <2>8. ImpliedOK(d, e)
    BY <1>8, <2>3, <2>4, <2>6, <2>7 DEF ImpliedOK
  <2>9. IsTrue(u, l)
    BY <1>5, <2>5 DEF IsTrue
  <2> QED
    BY <1>8, <2>3, <2>6, <2>8, <2>9
<1> QED
  BY <1>6, <1>7, <1>8

(* All implications of a literal.                                          *)
LEMMA AllImpliedIsOK ==
  ASSUME NEW d, DatabaseOK(d), NEW r, ImpliedOK(d, r), NEW by \in Literals, IsTrue(r.trail, by),
         NEW list, list = d.implications[by], NEW e, e = AllImplied(r, by, list)
  PROVE  /\ ImpliedOK(d, e) /\ Begins(r.trail, e.trail) /\ e.index = r.index
         /\ r.conflict # <<>> => e.conflict # <<>>
         /\ e.conflict = <<>> => \A l \in ToSet(list) : IsTrue(e.trail, l)
<1>1. d \in Databases /\ list \in Seq(Literals) /\ Len(list) \in Nat
  BY DatabaseTypes DEF DatabaseOK
<1>2. PICK f : /\ f[0] = r
               /\ \A i \in 1..Len(list) : f[i] = Implied(f[i - 1], by, list[i])
               /\ AllImplied(r, by, list) = f[Len(list)]
  BY <1>1, ImpliedLoop
<1> DEFINE P(i) ==
             /\ ImpliedOK(d, f[i]) /\ Begins(r.trail, f[i].trail) /\ f[i].index = r.index
             /\ r.conflict # <<>> => f[i].conflict # <<>>
             /\ f[i].conflict = <<>> => \A j \in 1..i : IsTrue(f[i].trail, list[j])
           S == {i \in Nat : i <= Len(list) => P(i)}
<1>3. IsTrail(r.trail)
  <2>1. r.trail = WithTrailOf(d, r.trail).trail
    BY <1>1 DEF WithTrailOf, Databases
  <2> QED
    BY <2>1 DEF ImpliedOK, DatabaseOK
<1>4. 0 \in S
  <2>1. Begins(r.trail, r.trail)
    BY <1>3, TrailEntries DEF Begins
  <2> QED
    BY <1>2, <2>1
<1>5. \A i \in Nat : i \in S => i + 1 \in S
  <2> HIDE DEF P
  <2> SUFFICES ASSUME NEW i \in Nat, P(i), i + 1 <= Len(list) PROVE P(i + 1)
    BY <1>1
  <2> USE DEF P
  <2> DEFINE before == f[i]
             after == f[i + 1]
             l == list[i + 1]
  <2>1. i + 1 \in 1..Len(list) /\ (i + 1) - 1 = i
    BY <1>1
  <2>2. after = Implied(before, by, l) /\ l \in ToSet(list)
    BY <1>1, <1>2, <2>1, ToSetFacts
  <2>3. ImpliedOK(d, before) /\ Begins(r.trail, before.trail) /\ before.index = r.index
    OBVIOUS
  <2>4. IsTrail(before.trail)
    <3>1. before.trail = WithTrailOf(d, before.trail).trail
      BY <1>1, <2>3 DEF WithTrailOf, Databases
    <3> QED
      BY <2>3, <3>1 DEF ImpliedOK, DatabaseOK
  <2>5. IsTrue(before.trail, by)
    BY <1>3, <2>3, <2>4, BeginningFacts
  <2>6. /\ ImpliedOK(d, after) /\ Begins(before.trail, after.trail) /\ after.index = before.index
        /\ before.conflict # <<>> => after.conflict # <<>>
        /\ after.conflict = <<>> => IsTrue(after.trail, l)
    <3>1. l \in ToSet(d.implications[by])
      BY <2>2
    <3> HIDE DEF before, after, l
    <3> QED
      BY <2>2, <2>3, <2>5, <3>1, ImpliedIsOK
  <2>7. Begins(r.trail, after.trail)
    BY <2>3, <2>6 DEF Begins
  <2>8. ASSUME after.conflict = <<>>, NEW j \in 1..(i + 1) PROVE IsTrue(after.trail, list[j])
    <3>1. CASE j \in 1..i
      <4>1. IsTrue(before.trail, list[j])
        BY <2>6, <2>8, <3>1
      <4>2. PICK k \in 1..Len(before.trail) : before.trail[k].literal = list[j]
        BY <4>1 DEF IsTrue
      <4>3. k \in 1..Len(after.trail) /\ after.trail[k] = before.trail[k]
        BY <2>6, <4>2 DEF Begins
      <4> QED
        BY <4>2, <4>3 DEF IsTrue
    <3>2. CASE j = i + 1
      BY <2>6, <2>8, <3>2
    <3> QED
      BY <3>1, <3>2
  <2> QED
    BY <2>3, <2>6, <2>7, <2>8
<1>6. Len(list) \in S
  <2> HIDE DEF S
  <2> QED
    BY <1>1, <1>4, <1>5, SetInduction
<1>7. P(Len(list)) /\ e = f[Len(list)]
  BY <1>1, <1>2, <1>6
<1>8. \A l \in ToSet(list) : \E j \in 1..Len(list) : list[j] = l
  BY <1>1, ToSetFacts
<1> QED
  BY <1>7, <1>8
(* The literals of the trail up to the one at the index.                   *)
PropagationOK(d, first, r) ==
  /\ ImpliedOK(d, r) /\ r.index \in first..Len(r.trail)
  /\ r.conflict = <<>> =>
       \A j \in (first + 1)..r.index : \A m \in ToSet(d.implications[r.trail[j].literal]) :
         IsTrue(r.trail, m)

(* Types of the result.                                                    *)
LEMMA ImpliedTrail ==
  ASSUME NEW d \in Databases, NEW r, ImpliedOK(d, r)
  PROVE  /\ IsTrail(r.trail) /\ Len(r.trail) \in Nat
         /\ r \in Propagateds /\ r.conflict \in Seq(Literals) /\ r.index \in Nat
<1>1. r.trail = WithTrailOf(d, r.trail).trail
  BY DEF WithTrailOf, Databases
<1>2. IsTrail(r.trail)
  BY <1>1 DEF ImpliedOK, DatabaseOK
<1> QED
  BY <1>2, TrailEntries DEF ImpliedOK, Propagateds

(* One more entry of the trail.                                            *)
LEMMA PropagatedNextIsOK ==
  ASSUME NEW d, DatabaseOK(d), NEW first \in Nat, NEW r, PropagationOK(d, first, r),
         NEW e, e = PropagatedNext(d, r)
  PROVE  PropagationOK(d, first, e) /\ Begins(r.trail, e.trail)
<1>1. d \in Databases /\ ImpliedOK(d, r)
  BY DEF DatabaseOK, PropagationOK
<1>2. /\ IsTrail(r.trail) /\ Len(r.trail) \in Nat /\ r \in Propagateds
      /\ r.conflict \in Seq(Literals) /\ r.index \in Nat /\ r.index \in first..Len(r.trail)
  BY <1>1, ImpliedTrail DEF PropagationOK
<1>3. Begins(r.trail, r.trail)
  BY <1>2 DEF Begins
<1>4. CASE r.conflict # <<>> \/ r.index = Len(r.trail)
  <2>1. e = r
    BY <1>4 DEF PropagatedNext
  <2> QED
    BY <1>3, <2>1
<1>5. CASE r.conflict = <<>> /\ r.index # Len(r.trail)
  <2> DEFINE k == r.index + 1
             by == r.trail[k].literal
             list == d.implications[by]
             q == [r EXCEPT !.index = @ + 1]
  <2>1. e = AllImplied(q, by, list)
    BY <1>5 DEF PropagatedNext
  <2>2. k \in 1..Len(r.trail) /\ by \in Literals /\ k \in Nat /\ k \in first..Len(r.trail)
    <3>1. k \in 1..Len(r.trail) /\ k \in first..Len(r.trail) /\ k \in Nat
      BY <1>2, <1>5
    <3> QED
      BY <1>2, <3>1, TrailEntries
  <2>3. IsTrue(r.trail, by)
    BY <2>2 DEF IsTrue
  <2>4. q \in Propagateds /\ q.trail = r.trail /\ q.conflict = <<>> /\ q.index = k
    BY <1>2, <1>5 DEF Propagateds
  <2>5. ImpliedOK(d, q)
    BY <1>1, <2>4 DEF ImpliedOK
  <2> HIDE DEF q, k, by, list
  <2>6. /\ ImpliedOK(d, e) /\ Begins(q.trail, e.trail) /\ e.index = q.index
        /\ e.conflict = <<>> => \A l \in ToSet(list) : IsTrue(e.trail, l)
    <3>1. list = d.implications[by] /\ IsTrue(q.trail, by) /\ by \in Literals
      BY <2>2, <2>3, <2>4 DEF list
    <3> QED
      BY <2>1, <2>5, <3>1, AllImpliedIsOK
  <2>7. IsTrail(e.trail) /\ Len(e.trail) \in Nat /\ Begins(r.trail, e.trail)
    BY <1>1, <2>4, <2>6, ImpliedTrail
  <2>8. e.index \in first..Len(e.trail)
    BY <1>2, <2>2, <2>4, <2>6, <2>7 DEF Begins
  <2>9. ASSUME e.conflict = <<>>, NEW j \in (first + 1)..e.index,
               NEW m \in ToSet(d.implications[e.trail[j].literal])
        PROVE  IsTrue(e.trail, m)
    <3>1. j \in 1..Len(r.trail) /\ e.trail[j] = r.trail[j] /\ (j = k \/ j \in (first + 1)..r.index)
      BY <1>2, <2>2, <2>4, <2>6, <2>7, <2>9 DEF Begins, k
    <3>2. CASE j = k
      BY <2>6, <2>9, <3>1, <3>2 DEF list, by
    <3>3. CASE j \in (first + 1)..r.index
      <4>1. IsTrue(r.trail, m)
        BY <1>5, <2>9, <3>1, <3>3 DEF PropagationOK
      <4>2. PICK i \in 1..Len(r.trail) : r.trail[i].literal = m
        BY <4>1 DEF IsTrue
      <4>3. i \in 1..Len(e.trail) /\ e.trail[i] = r.trail[i]
        BY <1>2, <2>7, <4>2 DEF Begins
      <4> QED
        BY <4>2, <4>3 DEF IsTrue
    <3> QED
      BY <3>1, <3>2, <3>3
  <2> QED
    BY <2>6, <2>7, <2>8, <2>9 DEF PropagationOK
<1> QED
  BY <1>4, <1>5

(* Propagate() of the graph: whatever it adds is implied by what was there.*)
LEMMA PropagationsAreOK ==
  ASSUME NEW d, DatabaseOK(d), NEW first \in Nat, first <= Len(d.trail),
         NEW r, r = Propagations(d, first)[Cardinality(Variables)]
  PROVE  PropagationOK(d, first, r) /\ IsTrail(r.trail)
<1> DEFINE n == Cardinality(Variables)
<1>1. d \in Databases /\ IsTrail(d.trail) /\ d.trail \in Seq(Entries) /\ Len(d.trail) \in Nat
  BY TrailEntries DEF DatabaseOK, IsTrail
<1>2. n \in Nat /\ first <= n
  BY <1>1, LiteralsAreFinite, TrailIsBounded
<1>3. PICK f : /\ f[first] = [trail |-> d.trail, conflict |-> <<>>, index |-> first]
               /\ \A i \in (first + 1)..n : f[i] = PropagatedNext(d, f[i - 1])
               /\ Propagations(d, first) = f
  BY <1>2, PropagationsLoop
<1> HIDE DEF n
<1>4. PropagationOK(d, first, f[first])
  <2>1. /\ f[first].trail = d.trail /\ f[first].conflict = <<>> /\ f[first].index = first
        /\ f[first] \in Propagateds
    BY <1>1, <1>3 DEF Propagateds
  <2>2. WithTrailOf(d, d.trail) = d
    BY <1>1 DEF WithTrailOf, Databases
  <2>3. GrownSince(d, d.trail, "BINARY")
    BY <1>1 DEF GrownSince, Begins
  <2>4. ImpliedOK(d, f[first])
    BY <2>1, <2>2, <2>3 DEF ImpliedOK
  <2>5. (first + 1)..first = {} /\ first \in first..Len(d.trail)
    BY <1>1
  <2> QED
    BY <2>1, <2>4, <2>5 DEF PropagationOK
<1> DEFINE S == {i \in Nat : first + i <= n => PropagationOK(d, first, f[first + i])}
<1>5. 0 \in S
  BY <1>4
<1>6. \A i \in Nat : i \in S => i + 1 \in S
  <2> SUFFICES ASSUME NEW i \in Nat, i \in S, first + (i + 1) <= n
               PROVE  PropagationOK(d, first, f[first + (i + 1)])
    OBVIOUS
  <2>1. /\ first + (i + 1) \in (first + 1)..n /\ (first + (i + 1)) - 1 = first + i
        /\ PropagationOK(d, first, f[first + i])
    BY <1>2
  <2>2. f[first + (i + 1)] = PropagatedNext(d, f[first + i])
    BY <1>3, <2>1
  <2> HIDE DEF S
  <2> QED
    BY <2>1, <2>2, PropagatedNextIsOK
<1>7. n - first \in Nat /\ first + (n - first) = n
  BY <1>2
<1>8. PropagationOK(d, first, f[n])
  <2> HIDE DEF S
  <2>1. n - first \in S
    BY <1>5, <1>6, <1>7, SetInduction
  <2> QED
    BY <1>2, <1>7, <2>1 DEF S
<1>9. r = f[n]
  BY <1>3 DEF n
<1>10. ImpliedOK(d, r)
  BY <1>8, <1>9 DEF PropagationOK
<1> QED
  BY <1>1, <1>8, <1>9, <1>10, ImpliedTrail

-----------------------------------------------------------------------------
(* A clause loses literals that are false for good, and no watched one.    *)
Shrinks(d, c, s) ==
  /\ s \in Seq(Literals) /\ Len(s) >= 3 /\ Distinct(s)
  /\ s[1] = d.clauses[c][1] /\ s[2] = d.clauses[c][2]
  /\ \A x \in ToSet(s) : x \in ToSet(d.clauses[c])
  /\ \A x \in ToSet(d.clauses[c]) : x \in ToSet(s) \/ FalseForGood(d.trail, x)

WithClauseAs(d, c, s) == [d EXCEPT !.clauses = Replaced(d.clauses, c, s)]

(* Fields of a database with another form of one clause.                   *)
LEMMA ReplacedClause ==
  ASSUME NEW d \in Databases, NEW c \in 1..Len(d.clauses), NEW s \in Seq(Literals),
         NEW e, e = WithClauseAs(d, c, s)
  PROVE  /\ e \in Databases /\ e.trail = d.trail /\ e.watchers = d.watchers
         /\ e.implications = d.implications
         /\ Len(e.clauses) = Len(d.clauses) /\ e.clauses[c] = s
         /\ \A k \in 1..Len(d.clauses) : k # c => e.clauses[k] = d.clauses[k]
<1> DEFINE C == [d.clauses EXCEPT ![c] = s]
<1>1. d.clauses \in Seq(Seq(Literals)) /\ Len(d.clauses) \in Nat
  BY DatabaseTypes
<1>2. /\ C \in Seq(Seq(Literals)) /\ Len(C) = Len(d.clauses)
      /\ C[c] = s /\ \A k \in 1..Len(d.clauses) : k # c => C[k] = d.clauses[k]
  BY <1>1
<1>3. e = [d EXCEPT !.clauses = C]
  BY DEF Replaced, WithClauseAs
<1> HIDE DEF C
<1>4. /\ e \in Databases /\ e.trail = d.trail /\ e.watchers = d.watchers
      /\ e.implications = d.implications /\ e.clauses = C
  BY <1>2, <1>3 DEF Databases
<1> QED
  BY <1>2, <1>4

(* A clause without literals that are false for good.                      *)
LEMMA ShrunkClause ==
  ASSUME NEW d, DatabaseOK(d), NEW c \in Attached(d), NEW s, Shrinks(d, c, s),
         ~IsAssigned(d.trail, d.clauses[c][1]),
         NEW e, e = WithClauseAs(d, c, s)
  PROVE  /\ DatabaseOK(e) /\ e.trail = d.trail /\ e.implications = d.implications
         /\ Len(e.clauses) = Len(d.clauses) /\ Attached(e) = Attached(d) /\ e.clauses[c] = s
         /\ \A k \in 1..Len(d.clauses) : k # c => e.clauses[k] = d.clauses[k]
<1>1. d \in Databases /\ IsTrail(d.trail) /\ ClausesOK(d) /\ WatchesOK(d) /\ GraphOK(d) /\ ReasonsOK(d)
  BY DEF DatabaseOK
<1>2. /\ c \in 1..Len(d.clauses) /\ d.clauses[c] # <<>> /\ s \in Seq(Literals) /\ Len(s) >= 3 /\ Distinct(s)
      /\ s[1] = d.clauses[c][1] /\ s[2] = d.clauses[c][2]
  BY <1>1, AttachedClause DEF Shrinks
<1>3. /\ e \in Databases /\ e.trail = d.trail /\ e.watchers = d.watchers
      /\ e.implications = d.implications
      /\ Len(e.clauses) = Len(d.clauses) /\ e.clauses[c] = s
      /\ \A k \in 1..Len(d.clauses) : k # c => e.clauses[k] = d.clauses[k]
  <2>1. d \in Databases /\ c \in 1..Len(d.clauses) /\ s \in Seq(Literals)
    BY <1>1, <1>2
  <2> QED
    BY <2>1, ReplacedClause
<1>4. Attached(e) = Attached(d)
  <2>1. s # <<>>
    BY <1>2
  <2>2. \A k \in 1..Len(d.clauses) : e.clauses[k] # <<>> <=> d.clauses[k] # <<>>
    BY <1>2, <1>3, <2>1
  <2> QED
    BY <1>3, <2>2 DEF Attached, IsRemoved
<1>5. \A k \in Attached(d) : Watches(e, k) = Watches(d, k) /\ (k # c => e.clauses[k] = d.clauses[k])
  BY <1>2, <1>3 DEF Watches, Attached
<1>6. ClausesOK(e)
  <2> SUFFICES ASSUME NEW k \in Attached(d) PROVE Len(e.clauses[k]) >= 3 /\ Distinct(e.clauses[k])
    BY <1>4 DEF ClausesOK
  <2>1. Len(d.clauses[k]) >= 3 /\ Distinct(d.clauses[k])
    BY <1>1, AttachedClause
  <2> QED
    BY <1>2, <1>3, <1>5, <2>1
<1>7. ASSUME NEW l, NEW w, WatcherOK(d, l, w) PROVE WatcherOK(e, l, w)
  <2>1. /\ w.clause \in Attached(d) /\ l \in Watches(e, w.clause)
        /\ w.blocking \in ToSet(d.clauses[w.clause]) \/ FalseForGood(e.trail, w.blocking)
    BY <1>3, <1>5, <1>7 DEF WatcherOK
  <2>2. w.blocking \in ToSet(e.clauses[w.clause]) \/ FalseForGood(e.trail, w.blocking)
    <3>1. CASE w.clause = c
      BY <1>3, <2>1, <3>1 DEF Shrinks
    <3>2. CASE w.clause # c
      BY <1>5, <2>1, <3>2
    <3> QED
      BY <3>1, <3>2
  <2> QED
    BY <1>4, <2>1, <2>2 DEF WatcherOK
<1>8. WatchesOK(e)
  BY <1>1, <1>3, <1>4, <1>5, <1>7 DEF WatchesOK
<1>9. GraphOK(e)
  BY <1>1, <1>3 DEF GraphOK
<1>10. ReasonsOK(e)
  <2> SUFFICES ASSUME NEW i \in 1..Len(d.trail) PROVE EntryIsExplained(e, i)
    BY <1>3 DEF ReasonsOK
  <2>1. EntryIsExplained(d, i)
    BY <1>1 DEF ReasonsOK
  <2>2. CASE d.trail[i].type # "CLAUSE"
    <3>1. Reason(e, i) = Reason(d, i)
      BY <1>3, <2>2 DEF Reason
    <3> QED
      BY <1>3, <2>1, <2>2, <3>1 DEF EntryIsExplained
  <2>3. CASE d.trail[i].type = "CLAUSE"
    <3>1. d.trail[i].by \in 1..Len(d.clauses)
      BY <2>1, <2>3 DEF EntryIsExplained
    <3>2. d.trail[i].by # c
      <4> SUFFICES ASSUME d.trail[i].by = c PROVE FALSE
        OBVIOUS
      <4>1. d.clauses[c][1] = d.trail[i].literal
        BY <2>1, <2>3 DEF EntryIsExplained
      <4> QED
        BY <4>1 DEF IsAssigned, IsTrue
    <3>3. e.clauses[d.trail[i].by] = d.clauses[d.trail[i].by]
      BY <1>3, <3>1, <3>2
    <3>4. Reason(e, i) = Reason(d, i)
      BY <1>3, <2>3, <3>3 DEF Reason
    <3> QED
      BY <1>3, <1>4, <2>1, <2>3, <3>1, <3>3, <3>4 DEF EntryIsExplained
  <2> QED
    BY <2>2, <2>3
<1> QED
  BY <1>1, <1>3, <1>4, <1>6, <1>8, <1>9, <1>10 DEF DatabaseOK
(* AddBinaryClause(), when nothing is above level zero.                    *)
LEMMA AddBinaryAtLevelZero ==
  ASSUME NEW d, DatabaseOK(d), CurrentLevel(d.trail) = 0, NEW a \in Literals, NEW b \in Literals, a # b,
         NEW e, e = AddBinaryClause(d, a, b)
  PROVE  /\ DatabaseOK(e) /\ e.trail = d.trail /\ e.clauses = d.clauses /\ Attached(e) = Attached(d)
         /\ IsSymmetric(d) => IsSymmetric(e)
         /\ \A l, m \in Literals : m \in ToSet(e.implications[l]) <=>
              m \in ToSet(d.implications[l]) \/ (a # -b /\ ((l = -a /\ m = b) \/ (l = -b /\ m = a)))
<1>1. d \in Databases /\ DatabaseOK(e)
  BY AddBinaryClauseIsOK DEF DatabaseOK
<1>2. CASE a = -b
  <2>1. e = d
    BY <1>2 DEF AddBinaryClause
  <2> QED
    BY <1>1, <1>2, <2>1
<1>3. CASE a # -b
  <2> DEFINE g == WithImplications(d, a, b)
  <2>1. /\ g.trail = d.trail /\ g.clauses = d.clauses /\ Attached(g) = Attached(d)
        /\ \A l, m \in Literals : m \in ToSet(g.implications[l]) <=>
             m \in ToSet(d.implications[l]) \/ (l = -a /\ m = b) \/ (l = -b /\ m = a)
    BY <1>1, WithImplicationsFields
  <2>2. IsSymmetric(d) => IsSymmetric(g)
    BY <1>3, WithImplicationsIsOK
  <2>3. e = g
    BY <1>1, <1>3, AddBinaryClauseCases
  <2> HIDE DEF g
  <2> QED
    BY <1>1, <1>3, <2>1, <2>2, <2>3
<1> QED
  BY <1>2, <1>3

(* One clause without the variables that are fixed.                        *)
LooseClause(d, c) ==
  c \in Attached(d) => ~IsAssigned(d.trail, d.clauses[c][1]) /\ ~IsAssigned(d.trail, d.clauses[c][2])
LooseImplications(d, e) ==
  \A l, m \in Literals : m \in ToSet(e.implications[l]) =>
     m \in ToSet(d.implications[l]) \/ (~IsAssigned(d.trail, l) /\ ~IsAssigned(d.trail, m))

(* One clause of RemoveFixedLiteralsAndTestIfTrue(): it goes, becomes      *)
(* binary or has no assigned literal.                                      *)
LEMMA WithoutFixedIsOK ==
  ASSUME NEW d, DatabaseOK(d), CurrentLevel(d.trail) = 0, NEW c \in 1..Len(d.clauses),
         NEW e, e = WithoutFixed(d, c)
  PROVE  /\ DatabaseOK(e) /\ e.trail = d.trail /\ Len(e.clauses) = Len(d.clauses)
         /\ Attached(e) \subseteq Attached(d) /\ LooseClause(e, c) /\ LooseImplications(d, e)
         /\ IsSymmetric(d) => IsSymmetric(e)
         /\ \A k \in 1..Len(d.clauses) : k # c => e.clauses[k] = d.clauses[k]
<1> DEFINE s == d.clauses[c]
           set == {l \in ToSet(s) : ~IsAssigned(d.trail, l)}
           literals == Only(s, set)
           a == literals[1]
           b == literals[2]
<1>1. d \in Databases /\ IsTrail(d.trail) /\ ClausesOK(d)
  BY DEF DatabaseOK
<1>2. \A i \in 1..Len(d.trail) : d.trail[i].level = 0
  BY <1>1, CurrentLevelFacts, TrailEntries
<1>3. CASE IsRemoved(d, c)
  <2>1. e = d
    BY <1>3 DEF WithoutFixed
  <2>2. c \notin Attached(d)
    BY <1>3 DEF Attached
  <2> QED
    BY <2>1, <2>2 DEF LooseClause, LooseImplications
<1>4. ASSUME ~IsRemoved(d, c), NEW g, DatabaseOK(g), g.trail = d.trail, g.clauses = d.clauses,
             Attached(g) = Attached(d), LooseImplications(d, g), IsSymmetric(d) => IsSymmetric(g),
             e = Detach(g, {c})
      PROVE  /\ DatabaseOK(e) /\ e.trail = d.trail /\ Len(e.clauses) = Len(d.clauses)
             /\ Attached(e) \subseteq Attached(d) /\ LooseClause(e, c) /\ LooseImplications(d, e)
             /\ IsSymmetric(d) => IsSymmetric(e)
             /\ \A k \in 1..Len(d.clauses) : k # c => e.clauses[k] = d.clauses[k]
  <2>1. DatabaseOK(e)
    <3>1. \A i \in 1..Len(g.trail) :
             g.trail[i].type = "CLAUSE" /\ g.trail[i].level > 0 => g.trail[i].by \notin {c}
      BY <1>2, <1>4
    <3> DEFINE removed == {c}
    <3>2. e = Detach(g, removed)
      BY <1>4
    <3> HIDE DEF removed
    <3> QED
      BY <1>4, <3>1, <3>2, DetachIsOK DEF removed
  <2>2. /\ e.trail = g.trail /\ e.implications = g.implications /\ Len(e.clauses) = Len(g.clauses)
        /\ \A k \in 1..Len(g.clauses) : e.clauses[k] = IF k \in {c} THEN <<>> ELSE g.clauses[k]
        /\ Attached(e) = Attached(g) \ {c}
    <3> DEFINE removed == {c}
    <3>1. g \in Databases /\ e = Detach(g, removed)
      BY <1>4 DEF DatabaseOK
    <3> HIDE DEF removed
    <3>2. /\ e.trail = g.trail /\ e.implications = g.implications /\ Len(e.clauses) = Len(g.clauses)
          /\ \A k \in 1..Len(g.clauses) : e.clauses[k] = IF k \in removed THEN <<>> ELSE g.clauses[k]
          /\ Attached(e) = Attached(g) \ removed
      BY <3>1, DetachFields
    <3> QED
      BY <3>2 DEF removed
  <2>3. LooseClause(e, c)
    BY <2>2 DEF LooseClause
  <2>4. LooseImplications(d, e) /\ (IsSymmetric(d) => IsSymmetric(e))
    BY <1>4, <2>2 DEF LooseImplications, IsSymmetric
  <2> QED
    BY <1>4, <2>1, <2>2, <2>3, <2>4
<1>5. CASE ~IsRemoved(d, c) /\ IsAlwaysTrue(d.trail, s)
  <2>1. e = Detach(d, {c})
    BY <1>5 DEF WithoutFixed
  <2>2. LooseImplications(d, d)
    BY DEF LooseImplications
  <2> QED
    BY <1>4, <1>5, <2>1, <2>2
<1>6. ASSUME ~IsRemoved(d, c)
      PROVE  /\ c \in Attached(d) /\ s \in Seq(Literals) /\ Len(s) >= 3 /\ Distinct(s)
             /\ 1 \in 1..Len(s) /\ 2 \in 1..Len(s) /\ s[1] \in ToSet(s) /\ s[2] \in ToSet(s)
  <2>1. c \in Attached(d)
    BY <1>6 DEF Attached
  <2> HIDE DEF set, literals
  <2> QED
    BY <1>1, <2>1, AttachedClause
<1>7. ASSUME ~IsRemoved(d, c)
      PROVE  /\ literals \in Seq(Literals) /\ Distinct(literals) /\ Len(literals) \in Nat
             /\ \A x : x \in ToSet(literals) <=> x \in ToSet(s) /\ ~IsAssigned(d.trail, x)
  <2>1. s \in Seq(Literals) /\ Distinct(s)
    BY <1>6, <1>7
  <2>2. \A x : x \in ToSet(s) /\ x \in set <=> x \in ToSet(s) /\ ~IsAssigned(d.trail, x)
    OBVIOUS
  <2> HIDE DEF s, set
  <2>3. /\ literals \in Seq(Literals) /\ Distinct(literals)
        /\ \A x : x \in ToSet(literals) <=> x \in ToSet(s) /\ x \in set
    BY <2>1, OnlyFacts
  <2> HIDE DEF literals
  <2> QED
    BY <2>2, <2>3
<1>8. CASE ~IsRemoved(d, c) /\ ~IsAlwaysTrue(d.trail, s) /\ Len(literals) = 2
  <2> DEFINE g == AddBinaryClause(d, a, b)
  <2>1. e = Detach(g, {c})
    BY <1>8 DEF WithoutFixed
  <2> HIDE DEF literals
  <2>2. a \in ToSet(literals) /\ b \in ToSet(literals) /\ a \in Literals /\ b \in Literals /\ a # b
    BY <1>7, <1>8, ToSetFacts DEF Distinct
  <2>3. ~IsAssigned(d.trail, a) /\ ~IsAssigned(d.trail, b)
    BY <1>7, <1>8, <2>2
  <2> HIDE DEF a, b, s, g
  <2>4. /\ DatabaseOK(g) /\ g.trail = d.trail /\ g.clauses = d.clauses /\ Attached(g) = Attached(d)
        /\ IsSymmetric(d) => IsSymmetric(g)
        /\ \A l, m \in Literals : m \in ToSet(g.implications[l]) <=>
             m \in ToSet(d.implications[l]) \/ (a # -b /\ ((l = -a /\ m = b) \/ (l = -b /\ m = a)))
    BY <2>2, AddBinaryAtLevelZero DEF g
  <2>5. ~IsAssigned(d.trail, -a) /\ ~IsAssigned(d.trail, -b)
    BY <1>1, <2>2, <2>3, TrailFacts
  <2>6. LooseImplications(d, g)
    BY <2>3, <2>4, <2>5 DEF LooseImplications
  <2> QED
    BY <1>4, <1>8, <2>1, <2>4, <2>6
<1>9. CASE ~IsRemoved(d, c) /\ ~IsAlwaysTrue(d.trail, s) /\ Len(literals) # 2
  <2>1. e = WithClauseAs(d, c, literals)
    BY <1>9 DEF WithoutFixed, WithClauseAs, Replaced
  <2>2. /\ ~IsAssigned(d.trail, s[1]) /\ ~IsAssigned(d.trail, s[2])
        /\ \A x \in ToSet(s) : ~IsTrue(d.trail, x)
    BY <1>9 DEF IsAlwaysTrue
  <2>3. s[1] \in set /\ s[2] \in set
    BY <1>6, <1>9, <2>2
  <2>4. Len(literals) >= 2 /\ literals[1] = s[1] /\ literals[2] = s[2]
    <3>1. s \in Seq(Literals) /\ Len(s) >= 2
      BY <1>6, <1>9
    <3> HIDE DEF s, set
    <3> QED
      BY <2>3, <3>1, OnlyKeepsTheBeginning
  <2> HIDE DEF literals, set
  <2>5. ASSUME NEW x \in ToSet(s) PROVE x \in ToSet(literals) \/ FalseForGood(d.trail, x)
    <3>1. CASE ~IsAssigned(d.trail, x)
      BY <1>7, <1>9, <2>5, <3>1
    <3>2. CASE IsAssigned(d.trail, x)
      <4>1. IsFalse(d.trail, x)
        BY <2>2, <2>5, <3>2 DEF IsAssigned
      <4> QED
        BY <1>2, <4>1 DEF IsFalse, IsTrue, FalseForGood
    <3> QED
      BY <3>1, <3>2
  <2>6. Shrinks(d, c, literals)
    <3>3. literals \in Seq(Literals) /\ Len(literals) \in Nat /\ Distinct(literals)
      BY <1>7, <1>9
    <3>4. Len(literals) # 2 /\ Len(literals) >= 2
      BY <1>9, <2>4
    <3>5. \A k \in Nat : k >= 2 /\ k # 2 => k >= 3
      OBVIOUS
    <3>6. Len(literals) >= 3
      BY <3>3, <3>4, <3>5, Zenon
    <3>1. Len(literals) >= 3 /\ literals \in Seq(Literals) /\ Distinct(literals)
      BY <3>3, <3>6
    <3>2. \A x \in ToSet(literals) : x \in ToSet(d.clauses[c])
      BY <1>7, <1>9
    <3> QED
      BY <2>4, <2>5, <3>1, <3>2 DEF Shrinks
  <2>7. c \in Attached(d) /\ ~IsAssigned(d.trail, d.clauses[c][1])
    BY <1>6, <1>9, <2>2
  <2>8. /\ DatabaseOK(e) /\ e.trail = d.trail /\ e.implications = d.implications
        /\ Len(e.clauses) = Len(d.clauses) /\ Attached(e) = Attached(d) /\ e.clauses[c] = literals
        /\ \A k \in 1..Len(d.clauses) : k # c => e.clauses[k] = d.clauses[k]
    BY <2>1, <2>6, <2>7, ShrunkClause
  <2>9. LooseClause(e, c)
    BY <2>2, <2>4, <2>8 DEF LooseClause
  <2>10. LooseImplications(d, e) /\ (IsSymmetric(d) => IsSymmetric(e))
    BY <2>8 DEF LooseImplications, IsSymmetric
  <2> QED
    BY <2>8, <2>9, <2>10
<1> QED
  BY <1>3, <1>5, <1>8, <1>9
(* ... and all of them, then the lists of the graph.                       *)
LEMMA AllWithoutFixedIsOK ==
  ASSUME NEW d, DatabaseOK(d), CurrentLevel(d.trail) = 0, NEW e, e = AllWithoutFixed(d)
  PROVE  /\ DatabaseOK(e) /\ e.trail = d.trail /\ Len(e.clauses) = Len(d.clauses)
         /\ Attached(e) \subseteq Attached(d) /\ LooseImplications(d, e)
         /\ IsSymmetric(d) => IsSymmetric(e)
         /\ \A c \in 1..Len(d.clauses) : LooseClause(e, c)
<1> DEFINE n == Len(d.clauses)
<1>1. n \in Nat
  BY DatabaseTypes DEF DatabaseOK
<1>2. PICK f : /\ f[0] = d
               /\ \A i \in 1..n : f[i] = WithoutFixed(f[i - 1], i)
               /\ AllWithoutFixed(d) = f[n]
  BY <1>1, WithoutFixedLoop
<1> HIDE DEF n
<1> DEFINE P(i) ==
             /\ DatabaseOK(f[i]) /\ f[i].trail = d.trail /\ Len(f[i].clauses) = n
             /\ Attached(f[i]) \subseteq Attached(d) /\ LooseImplications(d, f[i])
             /\ IsSymmetric(d) => IsSymmetric(f[i])
             /\ \A c \in 1..i : LooseClause(f[i], c)
           S == {i \in Nat : i <= n => P(i)}
<1>3. 0 \in S
  <2>1. P(0)
    BY <1>2 DEF n, LooseImplications
  <2> HIDE DEF P
  <2> QED
    BY <2>1
<1>4. \A i \in Nat : i \in S => i + 1 \in S
  <2> HIDE DEF P
  <2> SUFFICES ASSUME NEW i \in Nat, P(i), i + 1 <= n PROVE P(i + 1)
    BY <1>1
  <2> USE DEF P
  <2> DEFINE before == f[i]
             after == f[i + 1]
             k == i + 1
  <2>1. k \in 1..n /\ k - 1 = i /\ \A c \in 1..k : c \in 1..n /\ (c = k \/ c \in 1..i)
    BY <1>1
  <2>2. after = WithoutFixed(before, k)
    BY <1>2, <2>1
  <2>3. /\ DatabaseOK(before) /\ before.trail = d.trail /\ Len(before.clauses) = n
        /\ Attached(before) \subseteq Attached(d) /\ LooseImplications(d, before)
        /\ IsSymmetric(d) => IsSymmetric(before)
        /\ \A c \in 1..i : LooseClause(before, c)
    OBVIOUS
  <2> HIDE DEF before, after, k
  <2>4. /\ DatabaseOK(after) /\ after.trail = before.trail /\ Len(after.clauses) = Len(before.clauses)
        /\ Attached(after) \subseteq Attached(before) /\ LooseClause(after, k)
        /\ LooseImplications(before, after) /\ (IsSymmetric(before) => IsSymmetric(after))
        /\ \A c \in 1..Len(before.clauses) : c # k => after.clauses[c] = before.clauses[c]
    BY <2>1, <2>2, <2>3, WithoutFixedIsOK
  <2>5. LooseImplications(d, after)
    BY <2>3, <2>4 DEF LooseImplications
  <2>6. ASSUME NEW c \in 1..k PROVE LooseClause(after, c)
    <3>1. CASE c = k
      BY <2>4, <3>1
    <3>2. CASE c # k
      <4>1. c \in 1..i /\ after.clauses[c] = before.clauses[c] /\ LooseClause(before, c)
        BY <2>1, <2>3, <2>4, <3>2
      <4> QED
        BY <2>4, <4>1 DEF LooseClause
    <3> QED
      BY <3>1, <3>2
  <2> QED
    BY <2>3, <2>4, <2>5, <2>6 DEF after, k
<1>5. P(n)
  <2> HIDE DEF S
  <2>1. n \in S
    BY <1>1, <1>3, <1>4, SetInduction
  <2> QED
    BY <1>1, <2>1 DEF S
<1> QED
  BY <1>2, <1>5 DEF n
(* The lists of the graph.                                                 *)
LEMMA RemoveFixedFields ==
  ASSUME NEW d \in Databases, NEW fixed, NEW e, e = RemoveFixedVariables(d, fixed)
  PROVE  /\ e \in Databases /\ e.trail = d.trail /\ e.clauses = d.clauses /\ e.watchers = d.watchers
         /\ \A l \in Literals :
              /\ l \in fixed \/ -l \in fixed => e.implications[l] = <<>>
              /\ \A m : m \in ToSet(e.implications[l]) => m \in ToSet(d.implications[l])
              /\ \A m \in Literals :
                   m \in ToSet(d.implications[l]) /\ l \notin fixed /\ -l \notin fixed /\ m \notin fixed
                     => m \in ToSet(e.implications[l])
              /\ (\E f \in fixed : -l \in ToSet(d.implications[-f])) =>
                   \A m \in ToSet(e.implications[l]) : m \notin fixed
<1> DEFINE implying == {-x : x \in UNION {ToSet(d.implications[-f]) : f \in fixed}}
           rest == Literals \ fixed
           new(l) == IF l \in fixed \/ -l \in fixed THEN <<>>
                     ELSE IF l \in implying THEN Only(d.implications[l], rest)
                     ELSE d.implications[l]
           g == [l \in Literals |-> new(l)]
<1>1. e = [d EXCEPT !.implications = g]
  BY DEF RemoveFixedVariables
<1>2. \A l \in Literals : (\E f \in fixed : -l \in ToSet(d.implications[-f])) => l \in implying
  <2> SUFFICES ASSUME NEW l \in Literals, NEW f \in fixed, -l \in ToSet(d.implications[-f])
               PROVE  l \in implying
    OBVIOUS
  <2>1. -l \in UNION {ToSet(d.implications[-h]) : h \in fixed}
    OBVIOUS
  <2>2. -(-l) = l
    BY LiteralFacts
  <2> QED
    BY <2>1, <2>2
<1> HIDE DEF implying, rest
<1>3. ASSUME NEW l \in Literals
      PROVE  /\ d.implications[l] \in Seq(Literals) /\ Only(d.implications[l], rest) \in Seq(Literals)
             /\ \A m : m \in ToSet(Only(d.implications[l], rest)) <=>
                  m \in ToSet(d.implications[l]) /\ m \in rest
  <2> DEFINE s == d.implications[l]
  <2>1. s \in Seq(Literals)
    BY DatabaseTypes
  <2> HIDE DEF s
  <2>2. Only(s, rest) \in Seq(Literals) /\ \A m : m \in ToSet(Only(s, rest)) <=> m \in ToSet(s) /\ m \in rest
    BY <2>1, OnlyFacts
  <2> QED
    BY <2>1, <2>2 DEF s
<1>4. <<>> \in Seq(Literals) /\ ToSet(<<>>) = {}
  BY DEF ToSet
<1>5. \A l \in Literals : new(l) \in Seq(Literals)
  BY <1>3, <1>4
<1>6. g \in [Literals -> Seq(Literals)]
  <2> HIDE DEF new
  <2> QED
    BY <1>5
<1>7. \A l \in Literals : g[l] = new(l)
  OBVIOUS
<1> HIDE DEF g
<1>8. /\ e \in Databases /\ e.trail = d.trail /\ e.clauses = d.clauses /\ e.watchers = d.watchers
      /\ e.implications = g
  BY <1>1, <1>6 DEF Databases
<1>9. ASSUME NEW l \in Literals
      PROVE  /\ l \in fixed \/ -l \in fixed => g[l] = <<>>
             /\ \A m : m \in ToSet(g[l]) => m \in ToSet(d.implications[l])
             /\ \A m \in Literals :
                  m \in ToSet(d.implications[l]) /\ l \notin fixed /\ -l \notin fixed /\ m \notin fixed
                    => m \in ToSet(g[l])
             /\ l \in implying => \A m \in ToSet(g[l]) : m \notin fixed
  <2>1. CASE l \in fixed \/ -l \in fixed
    BY <1>4, <1>7, <2>1
  <2>2. CASE ~(l \in fixed \/ -l \in fixed) /\ l \in implying
    <3>1. g[l] = Only(d.implications[l], rest)
      BY <1>7, <2>2
    <3> QED
      BY <1>3, <2>2, <3>1 DEF rest
  <2>3. CASE ~(l \in fixed \/ -l \in fixed) /\ l \notin implying
    <3>1. g[l] = d.implications[l]
      BY <1>7, <2>3
    <3> QED
      BY <2>3, <3>1
  <2> QED
    BY <2>1, <2>2, <2>3
<1> QED
  BY <1>2, <1>8, <1>9

(* RemoveFixedVariables() keeps the database right at level zero.          *)
LEMMA RemoveFixedIsOK ==
  ASSUME NEW d, DatabaseOK(d), CurrentLevel(d.trail) = 0, NEW fixed,
         NEW e, e = RemoveFixedVariables(d, fixed)
  PROVE  DatabaseOK(e)
<1>1. d \in Databases /\ IsTrail(d.trail) /\ ClausesOK(d) /\ WatchesOK(d) /\ GraphOK(d) /\ ReasonsOK(d)
  BY DEF DatabaseOK
<1>2. \A i \in 1..Len(d.trail) : d.trail[i].level = 0
  BY <1>1, CurrentLevelFacts, TrailEntries
<1>3. /\ e \in Databases /\ e.trail = d.trail /\ e.clauses = d.clauses /\ e.watchers = d.watchers
      /\ \A l \in Literals : \A m : m \in ToSet(e.implications[l]) => m \in ToSet(d.implications[l])
  BY <1>1, RemoveFixedFields
<1>4. Attached(e) = Attached(d) /\ \A c : Watches(e, c) = Watches(d, c)
  BY <1>3 DEF Attached, IsRemoved, Watches
<1>5. ClausesOK(e) /\ WatchesOK(e) /\ GraphOK(e)
  <2>1. ClausesOK(e)
    BY <1>1, <1>3, <1>4 DEF ClausesOK
  <2>2. WatchesOK(e)
    BY <1>1, <1>3, <1>4 DEF WatchesOK, WatcherOK
  <2>3. GraphOK(e)
    BY <1>1, <1>3 DEF GraphOK
  <2> QED
    BY <2>1, <2>2, <2>3
<1>6. ReasonsOK(e)
  <2> SUFFICES ASSUME NEW i \in 1..Len(d.trail) PROVE EntryIsExplained(e, i)
    BY <1>3 DEF ReasonsOK
  <2>1. EntryIsExplained(d, i) /\ d.trail[i].level = 0
    BY <1>1, <1>2 DEF ReasonsOK
  <2>2. Reason(e, i) = Reason(d, i)
    BY <1>3 DEF Reason
  <2> QED
    BY <1>3, <1>4, <2>1, <2>2 DEF EntryIsExplained
<1> QED
  BY <1>1, <1>3, <1>5, <1>6 DEF DatabaseOK

(* ProcessNewlyFixedVariables()                                            *)
LEMMA ProcessedSteps ==
  ASSUME NEW d, NEW e, e = ProcessNewlyFixedVariables(d)
  PROVE  \E q : /\ q = AllWithoutFixed(d)
                /\ e = RemoveFixedVariables(q, {d.trail[i].literal : i \in 1..Len(d.trail)})
<1> DEFINE x == AllWithoutFixed(d)
           fixed == {d.trail[i].literal : i \in 1..Len(d.trail)}
<1>1. e = The({RemoveFixedVariables(q, fixed) : q \in {x}})
  BY DEF ProcessNewlyFixedVariables
<1> HIDE DEF x, fixed
<1>2. {RemoveFixedVariables(q, fixed) : q \in {x}} = {RemoveFixedVariables(x, fixed)}
  OBVIOUS
<1>3. e = RemoveFixedVariables(x, fixed)
  BY <1>1, <1>2, TheOfOne
<1> QED
  BY <1>3 DEF x, fixed

(* So does all of ProcessNewlyFixedVariables().                            *)
LEMMA ProcessedIsOK ==
  ASSUME NEW d, DatabaseOK(d), CurrentLevel(d.trail) = 0, NEW e, e = ProcessNewlyFixedVariables(d)
  PROVE  /\ DatabaseOK(e) /\ e.trail = d.trail /\ Len(e.clauses) = Len(d.clauses)
         /\ Attached(e) \subseteq Attached(d)
<1> DEFINE fixed == {d.trail[i].literal : i \in 1..Len(d.trail)}
<1>1. PICK q : q = AllWithoutFixed(d) /\ e = RemoveFixedVariables(q, fixed)
  BY ProcessedSteps
<1> HIDE DEF fixed
<1>2. /\ DatabaseOK(q) /\ q.trail = d.trail /\ Len(q.clauses) = Len(d.clauses)
      /\ Attached(q) \subseteq Attached(d) /\ q \in Databases
  BY <1>1, AllWithoutFixedIsOK DEF DatabaseOK
<1>3. DatabaseOK(e)
  BY <1>1, <1>2, RemoveFixedIsOK
<1>4. e.trail = q.trail /\ e.clauses = q.clauses
  BY <1>1, <1>2, RemoveFixedFields
<1>5. Attached(e) = Attached(q)
  BY <1>4 DEF Attached, IsRemoved
<1> QED
  BY <1>2, <1>3, <1>4, <1>5

-----------------------------------------------------------------------------
(* A trail that goes on twice.                                             *)
LEMMA BeginsTwice ==
  ASSUME NEW p, NEW t, NEW u, Len(p) \in Nat, Len(t) \in Nat, Len(u) \in Nat,
         Begins(p, t), Begins(t, u)
  PROVE  Begins(p, u)
BY DEF Begins

(* A decision, or a literal that is fixed at level zero.                   *)
LEMMA FreeEntry ==
  ASSUME NEW d, DatabaseOK(d), NEW l \in Literals, ~IsAssigned(d.trail, l), NEW level \in Nat,
         level >= CurrentLevel(d.trail), level <= Len(d.trail) + 1, NEW type,
         (type = "DECISION" /\ level > 0) \/ (type = "UNIT" /\ level = 0),
         NEW u, u = Enqueued(d.trail, l, level, type, 0), NEW e, e = WithTrailOf(d, u)
  PROVE  /\ DatabaseOK(e) /\ IsTrail(u) /\ Begins(d.trail, u) /\ CurrentLevel(u) = level
         /\ Len(u) = Len(d.trail) + 1 /\ u[Len(u)].type = type /\ u[Len(u)].level = level
         /\ u[Len(u)].literal = l /\ e.trail = u /\ e.clauses = d.clauses
         /\ e.implications = d.implications /\ Attached(e) = Attached(d)
<1>1. d \in Databases /\ IsTrail(d.trail) /\ Len(d.trail) \in Nat
  BY TrailEntries DEF DatabaseOK
<1>2. type \in {"DECISION", "UNIT", "BINARY", "CLAUSE"}
  OBVIOUS
<1>3. /\ IsTrail(u) /\ Begins(d.trail, u) /\ Len(u) = Len(d.trail) + 1
      /\ u[Len(u)].literal = l /\ u[Len(u)].type = type /\ u[Len(u)].by = 0 /\ u[Len(u)].level = level
      /\ CurrentLevel(u) = level
  <2> DEFINE by == 0
  <2>1. by \in Int /\ u = Enqueued(d.trail, l, level, type, by)
    OBVIOUS
  <2> HIDE DEF by
  <2>2. /\ IsTrail(u) /\ Begins(d.trail, u) /\ Len(u) = Len(d.trail) + 1
        /\ u[Len(u)].literal = l /\ u[Len(u)].type = type /\ u[Len(u)].by = by /\ u[Len(u)].level = level
        /\ CurrentLevel(u) = level
    BY <1>1, <1>2, <2>1, EnqueuedFacts
  <2> QED
    BY <2>2 DEF by
<1>4. e = [d EXCEPT !.trail = u]
  BY DEF WithTrailOf
<1>5. /\ e.trail = u /\ e.clauses = d.clauses /\ e.implications = d.implications
      /\ Attached(e) = Attached(d)
  BY <1>1, <1>3, <1>4, WithTrail DEF IsTrail
<1>6. EntryIsExplained(e, Len(u))
  <2>1. Reason(e, Len(u)) = <<>>
    BY <1>2, <1>3, <1>5 DEF Reason
  <2>2. ToSet(Reason(e, Len(u))) = {}
    BY <2>1 DEF ToSet
  <2> QED
    BY <1>3, <1>5, <2>2 DEF EntryIsExplained
<1>7. \A i \in (Len(d.trail) + 1)..Len(u) : EntryIsExplained(e, i)
  <2>1. \A i \in (Len(d.trail) + 1)..Len(u) : i = Len(u)
    BY <1>1, <1>3
  <2> QED
    BY <1>6, <2>1
<1>8. DatabaseOK(e)
  BY <1>3, <1>4, <1>7, GrownTrail
<1> QED
  BY <1>3, <1>5, <1>8

-----------------------------------------------------------------------------
(* ReapplyAssumptionsIfNeeded()                                            *)
Assumeds == [trail : Seq(Entries), conflict : Seq(Literals)]
AssumedOK(d, a, r, i) ==
  /\ r \in Assumeds /\ DatabaseOK(WithTrailOf(d, r.trail))
  /\ Begins(d.trail, r.trail) /\ CurrentLevel(r.trail) <= 1
  /\ \A j \in 1..Len(r.trail) : j > Len(d.trail) =>
       r.trail[j].type = "DECISION" /\ r.trail[j].level = 1 /\ r.trail[j].literal \in ToSet(a)
  /\ r.conflict = <<>> => \A j \in 1..i : IsTrue(r.trail, a[j])
  /\ r.conflict # <<>> => \E l \in ToSet(a) : r.conflict = <<-l, l>> /\ IsFalse(r.trail, l)

(* One assumption.                                                         *)
LEMMA AssumptionIsOK ==
  ASSUME NEW d, DatabaseOK(d), NEW a \in Seq(Literals), NEW i \in 1..Len(a),
         NEW r, AssumedOK(d, a, r, i - 1), NEW e, e = WithAssumption(r, a[i])
  PROVE  AssumedOK(d, a, e, i)
<1> DEFINE l == a[i]
           t == r.trail
           u == Enqueued(t, l, 1, "DECISION", 0)
           q == WithTrailOf(d, t)
<1>1. /\ r \in Assumeds /\ DatabaseOK(q) /\ Begins(d.trail, t) /\ CurrentLevel(t) <= 1
      /\ r.conflict \in Seq(Literals) /\ t \in Seq(Entries)
      /\ \A j \in 1..Len(t) : j > Len(d.trail) =>
           t[j].type = "DECISION" /\ t[j].level = 1 /\ t[j].literal \in ToSet(a)
      /\ r.conflict = <<>> => \A j \in 1..(i - 1) : IsTrue(t, a[j])
      /\ r.conflict # <<>> => \E m \in ToSet(a) : r.conflict = <<-m, m>> /\ IsFalse(t, m)
  BY DEF AssumedOK, Assumeds
<1>2. d \in Databases /\ IsTrail(d.trail) /\ Len(d.trail) \in Nat
  BY TrailEntries DEF DatabaseOK
<1>3. q.trail = t /\ IsTrail(t) /\ Len(t) \in Nat
  BY <1>1, <1>2, TrailEntries DEF WithTrailOf, Databases, DatabaseOK
<1>4. l \in Literals /\ -l \in Literals /\ l \in ToSet(a)
  <2>1. l \in Literals
    OBVIOUS
  <2>2. l \in ToSet(a)
    BY ToSetFacts
  <2> HIDE DEF l
  <2> QED
    BY <2>1, <2>2, LiteralFacts
<1>5. \A j \in 1..i : j = i \/ j \in 1..(i - 1)
  OBVIOUS
<1>6. CASE r.conflict # <<>> \/ IsTrue(t, l)
  <2>1. e = r
    BY <1>6 DEF WithAssumption
  <2> QED
    BY <1>1, <1>5, <1>6, <2>1 DEF AssumedOK
<1>7. CASE r.conflict = <<>> /\ ~IsTrue(t, l) /\ IsFalse(t, l)
  <2>1. e = [r EXCEPT !.conflict = <<-l, l>>]
    BY <1>7 DEF WithAssumption
  <2>2. <<-l, l>> \in Seq(Literals) /\ <<-l, l>> # <<>>
    BY <1>4
  <2>3. e \in Assumeds /\ e.trail = t /\ e.conflict = <<-l, l>>
    BY <1>1, <2>1, <2>2 DEF Assumeds
  <2> QED
    BY <1>1, <1>4, <1>7, <2>2, <2>3 DEF AssumedOK
<1>8. CASE r.conflict = <<>> /\ ~IsTrue(t, l) /\ ~IsFalse(t, l)
  <2>1. e = [r EXCEPT !.trail = u]
    BY <1>8 DEF WithAssumption
  <2>2. ~IsAssigned(q.trail, l)
    BY <1>3, <1>8 DEF IsAssigned
  <2>3. /\ DatabaseOK(WithTrailOf(q, u)) /\ IsTrail(u) /\ Begins(t, u) /\ CurrentLevel(u) = 1
        /\ Len(u) = Len(t) + 1 /\ u[Len(u)].type = "DECISION" /\ u[Len(u)].level = 1
        /\ u[Len(u)].literal = l
    <3> DEFINE g == WithTrailOf(q, u)
               level == 1
               type == "DECISION"
    <3>1. u = Enqueued(q.trail, l, level, type, 0) /\ g = WithTrailOf(q, u)
      BY <1>3
    <3>2. level \in Nat /\ level > 0 /\ level >= CurrentLevel(q.trail) /\ level <= Len(q.trail) + 1
      BY <1>1, <1>3, CurrentLevelFacts
    <3>3. type = "DECISION"
      OBVIOUS
    <3> HIDE DEF u, g, q, level, type, l
    <3>4. /\ DatabaseOK(g) /\ IsTrail(u) /\ Begins(q.trail, u) /\ CurrentLevel(u) = level
          /\ Len(u) = Len(q.trail) + 1 /\ u[Len(u)].type = type /\ u[Len(u)].level = level
          /\ u[Len(u)].literal = l
      <4>1. DatabaseOK(q)
        BY <1>1
      <4>2. l \in Literals
        BY <1>4
      <4>3. level \in Nat
        BY <3>2
      <4>4. level >= CurrentLevel(q.trail)
        BY <3>2
      <4>5. level <= Len(q.trail) + 1
        BY <3>2
      <4>6. (type = "DECISION" /\ level > 0) \/ (type = "UNIT" /\ level = 0)
        BY <3>2, <3>3
      <4>7. u = Enqueued(q.trail, l, level, type, 0)
        BY <3>1
      <4>8. g = WithTrailOf(q, u)
        BY <3>1
      <4> QED
        BY <4>1, <4>2, <4>3, <4>4, <4>5, <4>6, <4>7, <4>8, <2>2, FreeEntry, SMTT(90)
    <3> QED
      BY <1>3, <3>4 DEF g, level, type
  <2>4. WithTrailOf(q, u) = WithTrailOf(d, u)
    BY <1>2 DEF WithTrailOf, Databases
  <2> HIDE DEF u, q
  <2>5. e \in Assumeds /\ e.trail = u /\ e.conflict = <<>>
    BY <1>1, <1>8, <2>1, <2>3 DEF Assumeds, IsTrail
  <2>6. Begins(d.trail, u)
    <3>1. Len(u) \in Nat
      BY <1>3, <2>3
    <3> QED
    BY <3>1, <1>1, <1>2, <1>3, <2>3, BeginsTwice
  <2>7. ASSUME NEW j \in 1..Len(u), j > Len(d.trail)
        PROVE  u[j].type = "DECISION" /\ u[j].level = 1 /\ u[j].literal \in ToSet(a)
    <3>1. CASE j \in 1..Len(t)
      <4>1. u[j] = t[j]
        BY <2>3, <3>1 DEF Begins
      <4> QED
        BY <1>1, <2>7, <3>1, <4>1
    <3>2. CASE j \notin 1..Len(t)
      <4>1. j = Len(u)
        BY <1>3, <2>3, <3>2
      <4> QED
        BY <1>4, <2>3, <4>1
    <3> QED
      BY <3>1, <3>2
  <2>8. ASSUME NEW j \in 1..i PROVE IsTrue(u, a[j])
    <3>1. CASE j = i
      <4>1. Len(u) \in 1..Len(u)
        BY <1>3, <2>3
      <4> QED
        BY <2>3, <3>1, <4>1 DEF IsTrue
    <3>2. CASE j \in 1..(i - 1)
      <4>1. PICK k \in 1..Len(t) : t[k].literal = a[j]
        BY <1>1, <1>8, <3>2 DEF IsTrue
      <4>2. k \in 1..Len(u) /\ u[k] = t[k]
        BY <1>3, <2>3, <4>1 DEF Begins
      <4> QED
        BY <4>1, <4>2 DEF IsTrue
    <3> QED
      BY <1>5, <3>1, <3>2
  <2> QED
    BY <2>3, <2>4, <2>5, <2>6, <2>7, <2>8 DEF AssumedOK
<1> QED
  BY <1>6, <1>7, <1>8

(* All assumptions: they are decisions of level 1, up to one that is false.*)
LEMMA AssumptionsAreOK ==
  ASSUME NEW d, DatabaseOK(d), CurrentLevel(d.trail) = 0, NEW a \in Seq(Literals),
         NEW r, r = WithAssumptions(d.trail, a)
  PROVE  AssumedOK(d, a, r, Len(a))
<1>1. d \in Databases /\ IsTrail(d.trail) /\ d.trail \in Seq(Entries) /\ Len(d.trail) \in Nat /\ Len(a) \in Nat
  BY TrailEntries DEF DatabaseOK, IsTrail
<1>2. PICK f : /\ f[0] = [trail |-> d.trail, conflict |-> <<>>]
               /\ \A i \in 1..Len(a) : f[i] = WithAssumption(f[i - 1], a[i])
               /\ WithAssumptions(d.trail, a) = f[Len(a)]
  BY <1>1, AssumptionsLoop
<1>3. AssumedOK(d, a, f[0], 0)
  <2>1. f[0].trail = d.trail /\ f[0].conflict = <<>> /\ f[0] \in Assumeds
    BY <1>1, <1>2 DEF Assumeds
  <2>2. WithTrailOf(d, d.trail) = d
    BY <1>1 DEF WithTrailOf, Databases
  <2>3. Begins(d.trail, d.trail)
    BY <1>1 DEF Begins
  <2> QED
    BY <1>1, <2>1, <2>2, <2>3 DEF AssumedOK
<1> DEFINE S == {i \in Nat : i <= Len(a) => AssumedOK(d, a, f[i], i)}
<1>4. 0 \in S
  BY <1>3
<1>5. \A i \in Nat : i \in S => i + 1 \in S
  <2> SUFFICES ASSUME NEW i \in Nat, i \in S, i + 1 <= Len(a) PROVE AssumedOK(d, a, f[i + 1], i + 1)
    OBVIOUS
  <2> DEFINE k == i + 1
             before == f[i]
             after == f[i + 1]
  <2>1. k \in 1..Len(a) /\ k - 1 = i /\ AssumedOK(d, a, before, i)
    BY <1>1
  <2>2. after = WithAssumption(before, a[k])
    BY <1>2, <2>1
  <2> HIDE DEF S, before, after, k
  <2>3. AssumedOK(d, a, after, k)
    BY <2>1, <2>2, AssumptionIsOK
  <2> QED
    BY <2>3 DEF after, k
<1>6. Len(a) \in S
  <2> HIDE DEF S
  <2> QED
    BY <1>1, <1>4, <1>5, SetInduction
<1> QED
  BY <1>1, <1>2, <1>6
-----------------------------------------------------------------------------
(* AddProblemClause(): at level zero.                                      *)
LEMMA AddProblemClauseIsOK ==
  ASSUME NEW d, DatabaseOK(d), CurrentLevel(d.trail) = 0, NEW c, c \subseteq Literals,
         \E l \in c : ~IsFalse(d.trail, l), NEW e, e = AddProblemClause(d, c)
  PROVE  /\ DatabaseOK(e) /\ CurrentLevel(e.trail) = 0 /\ Begins(d.trail, e.trail)
         /\ Attached(d) \subseteq Attached(e)
<1> DEFINE set == {l \in c : ~IsFalse(d.trail, l)}
           literals == Sorted(set)
<1>1. d \in Databases /\ IsTrail(d.trail) /\ Len(d.trail) \in Nat
  BY TrailEntries DEF DatabaseOK
<1>2. CASE \E l \in c : IsTrue(d.trail, l) \/ -l \in c
  <2>1. e = d
    BY <1>2 DEF AddProblemClause
  <2>2. Begins(d.trail, d.trail)
    BY <1>1 DEF Begins
  <2> QED
    BY <2>1, <2>2
<1>3. CASE ~\E l \in c : IsTrue(d.trail, l) \/ -l \in c
  <2> HIDE DEF set
  <2>1. /\ literals \in Seq(Literals) /\ Len(literals) \in Nat /\ ToSet(literals) = set /\ Distinct(literals)
    <3>1. set \subseteq Literals
      BY DEF set
    <3> QED
      BY <3>1, SortedFacts
  <2>2. literals # <<>>
    <3>1. set # {}
      BY DEF set
    <3> QED
      BY <2>1, <3>1, ToSetFacts
  <2>3. Len(literals) >= 1
    BY <2>1, <2>2
  <2>4. e = CASE Len(literals) = 1 -> [d EXCEPT !.trail = Enqueued(@, literals[1], 0, "UNIT", 0)]
              [] Len(literals) = 2 -> AddBinaryClause(d, literals[1], literals[2])
              [] OTHER -> Attach(d, literals)
    BY <1>3 DEF AddProblemClause, set
  <2> HIDE DEF literals
  <2>5. \A l \in ToSet(literals) : l \in Literals /\ ~IsAssigned(d.trail, l)
    BY <1>3, <2>1 DEF set, IsAssigned
  <2>6. \A i \in 1..Len(literals) : literals[i] \in ToSet(literals)
    BY <2>1, ToSetFacts
  <2>7. CASE Len(literals) = 1
    <3> DEFINE l == literals[1]
               u == Enqueued(d.trail, l, 0, "UNIT", 0)
    <3>1. e = WithTrailOf(d, u)
      BY <2>4, <2>7 DEF WithTrailOf
    <3>2. l \in Literals /\ ~IsAssigned(d.trail, l)
      BY <2>5, <2>6, <2>7
    <3> DEFINE level == 0
               type == "UNIT"
    <3>3. u = Enqueued(d.trail, l, level, type, 0) /\ level \in Nat /\ level = 0 /\ type = "UNIT"
      OBVIOUS
    <3>4. level >= CurrentLevel(d.trail) /\ level <= Len(d.trail) + 1
      BY <1>1
    <3> HIDE DEF u, level, type, l
    <3>5. /\ DatabaseOK(e) /\ Begins(d.trail, u) /\ CurrentLevel(u) = level /\ e.trail = u
          /\ Attached(e) = Attached(d)
      BY <3>1, <3>2, <3>3, <3>4, FreeEntry
    <3> QED
      BY <3>3, <3>5
  <2>8. CASE Len(literals) = 2
    <3> DEFINE a == literals[1]
               b == literals[2]
    <3>1. e = AddBinaryClause(d, a, b)
      BY <2>4, <2>8
    <3>2. a \in Literals /\ b \in Literals /\ a # b
      BY <2>1, <2>5, <2>6, <2>8 DEF Distinct
    <3> HIDE DEF a, b
    <3>3. DatabaseOK(e) /\ e.trail = d.trail /\ Attached(e) = Attached(d)
      BY <3>1, <3>2, AddBinaryAtLevelZero
    <3>4. Begins(d.trail, d.trail)
      BY <1>1 DEF Begins
    <3> QED
      BY <3>3, <3>4
  <2>9. CASE Len(literals) >= 3
    <3>0. Len(literals) # 1 /\ Len(literals) # 2
      <4>1. \A k \in Nat : k >= 3 => k # 1 /\ k # 2
        OBVIOUS
      <4> QED
        BY <2>1, <2>9, <4>1, Zenon
    <3>1. e = Attach(d, literals)
      BY <2>4, <3>0
    <3>2. \E i \in 1..Len(literals) : ~IsFalse(d.trail, literals[i])
      <4>1. 1 \in 1..Len(literals)
        BY <2>9
      <4> QED
        BY <2>5, <2>6, <4>1 DEF IsAssigned
    <3>3. /\ DatabaseOK(e) /\ Begins(d.trail, e.trail) /\ CurrentLevel(e.trail) = CurrentLevel(d.trail)
          /\ Attached(d) \subseteq Attached(e)
      BY <2>1, <2>9, <3>1, <3>2, AttachIsOK
    <3> QED
      BY <3>3
  <2> QED
    <3>0. \A k \in Nat : k >= 1 => k = 1 \/ k = 2 \/ k >= 3
      OBVIOUS
    <3>1. Len(literals) = 1 \/ Len(literals) = 2 \/ Len(literals) >= 3
      BY <2>1, <2>3, <3>0, Zenon
    <3> QED
      BY <3>1, <2>7, <2>8, <2>9
<1> QED
  BY <1>2, <1>3

-----------------------------------------------------------------------------
(* Sequences that follow one another.                                      *)
LEMMA ConcatenationFacts ==
  ASSUME NEW S, NEW s \in Seq(S), NEW t \in Seq(S), NEW u, u = s \o t
  PROVE  /\ u \in Seq(S) /\ Len(u) = Len(s) + Len(t)
         /\ \A i \in 1..Len(s) : u[i] = s[i]
         /\ \A i \in 1..Len(t) : u[Len(s) + i] = t[i]
         /\ \A x : x \in ToSet(u) <=> x \in ToSet(s) \/ x \in ToSet(t)
         /\ Distinct(s) /\ Distinct(t) /\ ToSet(s) \cap ToSet(t) = {} => Distinct(u)
<1>1. /\ u \in Seq(S) /\ Len(u) = Len(s) + Len(t) /\ Len(s) \in Nat /\ Len(t) \in Nat
      /\ \A i \in 1..Len(s) : u[i] = s[i]
      /\ \A i \in 1..Len(t) : u[Len(s) + i] = t[i]
  OBVIOUS
<1>2. ASSUME NEW i \in 1..Len(u)
      PROVE  \/ i \in 1..Len(s) /\ u[i] = s[i]
             \/ i - Len(s) \in 1..Len(t) /\ u[i] = t[i - Len(s)]
  <2>1. CASE i <= Len(s)
    BY <1>1, <2>1
  <2>2. CASE i > Len(s)
    <3>1. i - Len(s) \in 1..Len(t) /\ Len(s) + (i - Len(s)) = i
      BY <1>1, <2>2
    <3> QED
      BY <1>1, <3>1
  <2> QED
    BY <1>1, <2>1, <2>2
<1>3. ASSUME NEW x PROVE x \in ToSet(u) <=> x \in ToSet(s) \/ x \in ToSet(t)
  <2>1. ASSUME x \in ToSet(u) PROVE x \in ToSet(s) \/ x \in ToSet(t)
    <3>0. \A y : y \in ToSet(u) <=> \E i \in 1..Len(u) : u[i] = y
      BY <1>1, ToSetFacts, Zenon
    <3>1. PICK i \in 1..Len(u) : u[i] = x
      BY <2>1, <3>0, Zenon
    <3>2. CASE i \in 1..Len(s) /\ u[i] = s[i]
      BY <3>1, <3>2, ToSetFacts
    <3>3. CASE i - Len(s) \in 1..Len(t) /\ u[i] = t[i - Len(s)]
      BY <3>1, <3>3, ToSetFacts
    <3> QED
      BY <1>2, <3>2, <3>3
  <2>2. ASSUME x \in ToSet(s) PROVE x \in ToSet(u)
    <3>1. PICK i \in 1..Len(s) : s[i] = x
      BY <2>2, ToSetFacts
    <3>2. i \in 1..Len(u) /\ u[i] = x
      BY <1>1, <3>1
    <3> QED
      BY <1>1, <3>2, ToSetFacts
  <2>3. ASSUME x \in ToSet(t) PROVE x \in ToSet(u)
    <3>1. PICK i \in 1..Len(t) : t[i] = x
      BY <2>3, ToSetFacts
    <3>2. Len(s) + i \in 1..Len(u) /\ u[Len(s) + i] = x
      BY <1>1, <3>1
    <3> QED
      BY <1>1, <3>2, ToSetFacts
  <2> QED
    BY <2>1, <2>2, <2>3
<1>4. ASSUME Distinct(s), Distinct(t), ToSet(s) \cap ToSet(t) = {} PROVE Distinct(u)
  <2> SUFFICES ASSUME NEW i \in 1..Len(u), NEW j \in 1..Len(u), u[i] = u[j] PROVE i = j
    BY DEF Distinct
  <2>0. /\ \A k \in 1..Len(s) : s[k] \in ToSet(s)
        /\ \A k \in 1..Len(t) : t[k] \in ToSet(t)
    BY ToSetFacts
  <2>1. CASE i \in 1..Len(s) /\ u[i] = s[i]
    <3>1. CASE j \in 1..Len(s) /\ u[j] = s[j]
      BY <1>4, <2>1, <3>1 DEF Distinct
    <3>2. CASE j - Len(s) \in 1..Len(t) /\ u[j] = t[j - Len(s)]
      BY <1>4, <2>0, <2>1, <3>2
    <3> QED
      BY <1>2, <3>1, <3>2
  <2>2. CASE i - Len(s) \in 1..Len(t) /\ u[i] = t[i - Len(s)]
    <3>1. CASE j \in 1..Len(s) /\ u[j] = s[j]
      BY <1>4, <2>0, <2>2, <3>1
    <3>2. CASE j - Len(s) \in 1..Len(t) /\ u[j] = t[j - Len(s)]
      <4>1. i - Len(s) = j - Len(s)
        BY <1>4, <2>2, <3>2 DEF Distinct
      <4> QED
        BY <1>1, <4>1
    <3> QED
      BY <1>2, <3>1, <3>2
  <2> QED
    BY <1>2, <2>1, <2>2
<1> QED
  BY <1>1, <1>3, <1>4

(* The literals after the first one.                                       *)
LEMMA TailFacts ==
  ASSUME NEW S, NEW s \in Seq(S), s # <<>>, NEW t, t = Tail(s)
  PROVE  /\ t \in Seq(S) /\ Len(s) = Len(t) + 1 /\ Head(s) = s[1] /\ s[1] \in S
         /\ \A i \in 1..Len(t) : t[i] = s[i + 1]
         /\ \A x : x \in ToSet(t) <=> \E i \in 2..Len(s) : s[i] = x
         /\ \A x : x \in ToSet(s) <=> x = s[1] \/ x \in ToSet(t)
         /\ Distinct(s) => Distinct(t) /\ s[1] \notin ToSet(t)
<1>1. /\ t \in Seq(S) /\ Len(s) = Len(t) + 1 /\ Head(s) = s[1] /\ s[1] \in S
      /\ \A i \in 1..Len(t) : t[i] = s[i + 1]
      /\ Len(t) \in Nat
  OBVIOUS
<1>2. ASSUME NEW x PROVE x \in ToSet(t) <=> \E i \in 2..Len(s) : s[i] = x
  <2>1. ASSUME NEW i \in 1..Len(t), t[i] = x PROVE \E j \in 2..Len(s) : s[j] = x
    <3>1. i + 1 \in 2..Len(s) /\ s[i + 1] = x
      BY <1>1, <2>1
    <3> QED
      BY <3>1
  <2>2. ASSUME NEW i \in 2..Len(s), s[i] = x PROVE \E j \in 1..Len(t) : t[j] = x
    <3>1. i - 1 \in 1..Len(t) /\ (i - 1) + 1 = i
      BY <1>1
    <3>2. t[i - 1] = x
      BY <1>1, <2>2, <3>1
    <3> QED
      BY <3>1, <3>2
  <2> QED
    BY <1>1, <2>1, <2>2, ToSetFacts, ZenonT(20)
<1>3. \A i \in 1..Len(s) : i = 1 \/ i \in 2..Len(s)
  BY <1>1
<1>4. 1 \in 1..Len(s) /\ \A i \in 2..Len(s) : i \in 1..Len(s) /\ i # 1
  BY <1>1
<1>5. \A x : x \in ToSet(s) <=> \E i \in 1..Len(s) : s[i] = x
  BY ToSetFacts
<1>6. \A x : x \in ToSet(s) <=> x = s[1] \/ x \in ToSet(t)
  BY <1>2, <1>3, <1>4, <1>5
<1>7. ASSUME Distinct(s) PROVE Distinct(t) /\ s[1] \notin ToSet(t)
  <2>1. Distinct(t)
    BY <1>1, <1>7 DEF Distinct
  <2>2. s[1] \notin ToSet(t)
    BY <1>2, <1>4, <1>7 DEF Distinct
  <2> QED
    BY <2>1, <2>2
<1> QED
  BY <1>1, <1>2, <1>6, <1>7

(* A sequence of one literal.                                              *)
LEMMA SingletonFacts ==
  ASSUME NEW S, NEW x \in S, NEW s, s = <<x>>
  PROVE  s \in Seq(S) /\ Len(s) = 1 /\ s[1] = x /\ s # <<>> /\ Distinct(s) /\ \A y : y \in ToSet(s) <=> y = x
<1>1. s \in Seq(S) /\ Len(s) = 1 /\ s[1] = x /\ s # <<>>
  OBVIOUS
<1>2. \A i \in 1..Len(s) : i = 1
  BY <1>1
<1>3. Distinct(s)
  BY <1>2 DEF Distinct
<1>4. \A y : y \in ToSet(s) <=> \E i \in 1..Len(s) : s[i] = y
  BY <1>1, ToSetFacts, ZenonT(20)
<1>5. 1 \in 1..Len(s)
  BY <1>1
<1>6. ASSUME NEW y PROVE y \in ToSet(s) <=> y = x
  BY <1>1, <1>2, <1>4, <1>5
<1> QED
  BY <1>1, <1>3, <1>6

(* A variable is a literal that is assigned where its literals are.        *)
LEMMA VariableFacts ==
  ASSUME NEW t, IsTrail(t)
  PROVE  /\ \A l \in Literals :
              /\ VariableOf(l) \in Literals /\ VariableOf(l) \in Variables
              /\ TrailIndex(t, VariableOf(l)) = TrailIndex(t, l)
              /\ LevelOf(t, VariableOf(l)) = LevelOf(t, l)
              /\ IsAssigned(t, VariableOf(l)) = IsAssigned(t, l)
         /\ \A v \in Variables : v \in Literals /\ VariableOf(v) = v
<1>1. ASSUME NEW v \in Variables PROVE v \in Literals /\ VariableOf(v) = v
  BY SatAssumption DEF Literals, VariableOf
<1>2. ASSUME NEW l \in Literals
      PROVE  /\ VariableOf(l) \in Literals /\ VariableOf(l) \in Variables
             /\ TrailIndex(t, VariableOf(l)) = TrailIndex(t, l)
             /\ LevelOf(t, VariableOf(l)) = LevelOf(t, l)
             /\ IsAssigned(t, VariableOf(l)) = IsAssigned(t, l)
  <2>1. VariableOf(l) \in Variables
    BY LiteralFacts
  <2>2. VariableOf(l) = l \/ VariableOf(l) = -l
    BY DEF VariableOf
  <2>3. TrailIndex(t, -l) = TrailIndex(t, l) /\ LevelOf(t, -l) = LevelOf(t, l) /\ IsAssigned(t, -l) = IsAssigned(t, l)
    BY TrailFacts
  <2> QED
    BY <1>1, <2>1, <2>2, <2>3
<1> QED
  BY <1>1, <1>2
-----------------------------------------------------------------------------
(* The first UIP computation.                                              *)

(* The literal of a variable that the trail makes false.                   *)
FalseOf(t, v) == -t[TrailIndex(t, v)].literal

(* It is the literal itself, if that one is false.                         *)
LEMMA FalseOfFacts ==
  ASSUME NEW t, IsTrail(t), NEW l \in Literals, IsFalse(t, l)
  PROVE  /\ FalseOf(t, VariableOf(l)) = l /\ FalseOf(t, l) = l /\ IsAssigned(t, l)
         /\ TrailIndex(t, l) \in 1..Len(t) /\ t[TrailIndex(t, l)].literal = -l
         /\ LevelOf(t, l) = t[TrailIndex(t, l)].level /\ LevelOf(t, l) \in Nat
         /\ LevelOf(t, VariableOf(l)) = LevelOf(t, l) /\ TrailIndex(t, VariableOf(l)) = TrailIndex(t, l)
         /\ VariableOf(l) \in Variables
<1>1. IsAssigned(t, l)
  BY DEF IsAssigned
<1>2. /\ TrailIndex(t, l) \in 1..Len(t) /\ t[TrailIndex(t, l)].literal \in {l, -l}
      /\ LevelOf(t, l) = t[TrailIndex(t, l)].level /\ LevelOf(t, l) \in Nat
  BY <1>1, TrailFacts
<1>3. LevelOf(t, VariableOf(l)) = LevelOf(t, l) /\ TrailIndex(t, VariableOf(l)) = TrailIndex(t, l)
      /\ VariableOf(l) \in Variables
  BY VariableFacts
<1>4. t[TrailIndex(t, l)].literal # l
  <2> SUFFICES ASSUME t[TrailIndex(t, l)].literal = l PROVE FALSE
    OBVIOUS
  <2>1. IsTrue(t, l)
    BY <1>2 DEF IsTrue
  <2> QED
    BY <2>1, TrailFacts
<1>5. t[TrailIndex(t, l)].literal = -l /\ -(-l) = l
  BY <1>2, <1>4, LiteralFacts
<1> QED
  BY <1>1, <1>2, <1>3, <1>5 DEF FalseOf

(* A literal of the conflict below its highest level; a clause that no     *)
(* entry below that level has as its reason.                               *)
IsLower(t, highest, l) == IsFalse(t, l) /\ LevelOf(t, l) \in 1..(highest - 1)
MayBeSubsumed(d, highest, c) ==
  /\ c \in Attached(d)
  /\ \A i \in 1..Len(d.trail) :
       d.trail[i].type = "CLAUSE" /\ d.trail[i].level > 0 /\ d.trail[i].by = c => d.trail[i].level >= highest

FalseLiterals(t, s) == s \in Seq(Literals) /\ Distinct(s) /\ \A l \in ToSet(s) : IsFalse(t, l)

PartOK(d, highest, e) ==
  /\ e.marked \subseteq Variables /\ \A v \in e.marked : IsAssigned(d.trail, v)
  /\ e.lower \in Seq(Literals) /\ Distinct(e.lower)
  /\ \A l \in ToSet(e.lower) : IsLower(d.trail, highest, l) /\ VariableOf(l) \in e.marked
  /\ e.pending \subseteq e.marked /\ \A v \in e.pending : LevelOf(d.trail, v) = highest
  /\ \A c \in e.subsumed : MayBeSubsumed(d, highest, c)

(* What a clause adds: its literals above level zero are marked, and the   *)
(* marked variables of the highest level up to k are pending.              *)
Joined(t, highest, k, e, clause, q) ==
  /\ e.marked \subseteq q.marked
  /\ \A l \in ToSet(clause) : LevelOf(t, l) > 0 => VariableOf(l) \in q.marked
  /\ \A v : v \in q.pending <=> v \in q.marked /\ LevelOf(t, v) = highest /\ TrailIndex(t, v) <= k

(* One clause joins the conflict.                                          *)
LEMMA ExpandedIsOK ==
  ASSUME NEW d, DatabaseOK(d), NEW highest \in Nat, NEW k, NEW e, PartOK(d, highest, e),
         NEW clause, FalseLiterals(d.trail, clause),
         NEW id, id # 0 => MayBeSubsumed(d, highest, id),
         NEW q, q = Expanded(d.trail, highest, k, e, clause, id)
  PROVE  PartOK(d, highest, q) /\ Joined(d.trail, highest, k, e, clause, q)
<1> DEFINE t == d.trail
           positive == {l \in ToSet(clause) : LevelOf(t, l) > 0}
           unmarked == {l \in positive : VariableOf(l) \notin e.marked}
           new == Only(clause, unmarked)
           below == {l \in ToSet(new) : LevelOf(t, l) < highest}
           more == Only(new, below)
<1>1. q = WithNew(t, highest, k, e, Cardinality(positive), new, id)
  <2>1. q = The({WithNew(t, highest, k, e, Cardinality(positive), x, id) : x \in {new}})
    BY DEF Expanded
  <2>2. {WithNew(t, highest, k, e, Cardinality(positive), x, id) : x \in {new}}
          = {WithNew(t, highest, k, e, Cardinality(positive), new, id)}
    OBVIOUS
  <2> QED
    BY <2>1, <2>2, TheOfOne
<1>2. /\ q.marked = e.marked \cup {VariableOf(l) : l \in ToSet(new)}
      /\ q.lower = e.lower \o more
      /\ q.pending = {v \in q.marked : LevelOf(t, v) = highest /\ TrailIndex(t, v) <= k}
      /\ \A c \in q.subsumed : c \in e.subsumed \/ (c = id /\ id # 0)
  BY <1>1 DEF WithNew
<1> HIDE DEF positive, unmarked, below, more, new
<1>3. IsTrail(t) /\ clause \in Seq(Literals) /\ Distinct(clause) /\ \A l \in ToSet(clause) : IsFalse(t, l)
  BY DEF DatabaseOK, FalseLiterals
<1>4. new \in Seq(Literals) /\ Distinct(new)
      /\ \A x : x \in ToSet(new) <=> x \in ToSet(clause) /\ x \in unmarked
  BY <1>3, OnlyFacts DEF new
<1>5. more \in Seq(Literals) /\ Distinct(more)
      /\ \A x : x \in ToSet(more) <=> x \in ToSet(new) /\ x \in below
  BY <1>4, OnlyFacts DEF more
<1>6. ASSUME NEW l \in ToSet(new)
      PROVE  /\ l \in Literals /\ IsFalse(t, l) /\ LevelOf(t, l) > 0 /\ VariableOf(l) \notin e.marked
             /\ IsAssigned(t, VariableOf(l)) /\ VariableOf(l) \in Variables /\ LevelOf(t, l) \in Nat
  <2>1. l \in Literals /\ IsFalse(t, l) /\ LevelOf(t, l) > 0 /\ VariableOf(l) \notin e.marked
    BY <1>3, <1>4, ToSetFacts DEF unmarked, positive
  <2>2. IsAssigned(t, l)
    BY <2>1 DEF IsAssigned
  <2> QED
    BY <1>3, <2>1, <2>2, VariableFacts, TrailFacts
<1>7. /\ e.marked \subseteq Variables /\ \A v \in e.marked : IsAssigned(t, v)
      /\ e.lower \in Seq(Literals) /\ Distinct(e.lower)
      /\ \A l \in ToSet(e.lower) : IsLower(t, highest, l) /\ VariableOf(l) \in e.marked
      /\ \A c \in e.subsumed : MayBeSubsumed(d, highest, c)
  BY DEF PartOK
<1>8. /\ q.marked \subseteq Variables /\ \A v \in q.marked : IsAssigned(t, v)
      /\ e.marked \subseteq q.marked
  BY <1>2, <1>6, <1>7
<1>9. ASSUME NEW l \in ToSet(more) PROVE IsLower(t, highest, l) /\ VariableOf(l) \in q.marked /\ VariableOf(l) \notin e.marked
  <2>1. l \in ToSet(new) /\ LevelOf(t, l) < highest
    BY <1>5 DEF below
  <2>2. LevelOf(t, l) \in Nat /\ LevelOf(t, l) > 0 /\ IsFalse(t, l) /\ VariableOf(l) \notin e.marked
    BY <1>6, <2>1
  <2>3. LevelOf(t, l) \in 1..(highest - 1)
    BY <2>1, <2>2
  <2>4. VariableOf(l) \in q.marked
    BY <1>2, <2>1
  <2> QED
    BY <2>2, <2>3, <2>4 DEF IsLower
<1>10. /\ q.lower \in Seq(Literals) /\ Distinct(q.lower)
       /\ \A l : l \in ToSet(q.lower) <=> l \in ToSet(e.lower) \/ l \in ToSet(more)
  <2>1. ToSet(e.lower) \cap ToSet(more) = {}
    BY <1>7, <1>9
  <2>2. q.lower = e.lower \o more
    BY <1>2
  <2> QED
    BY <1>5, <1>7, <2>1, <2>2, ConcatenationFacts, ZenonT(20)
<1>11. \A l \in ToSet(q.lower) : IsLower(t, highest, l) /\ VariableOf(l) \in q.marked
  BY <1>7, <1>8, <1>9, <1>10
<1>12. \A c \in q.subsumed : MayBeSubsumed(d, highest, c)
  BY <1>2, <1>7
<1>13. PartOK(d, highest, q)
  <2>1. q.pending \subseteq q.marked /\ \A v \in q.pending : LevelOf(t, v) = highest
    BY <1>2
  <2> QED
    BY <1>8, <1>10, <1>11, <1>12, <2>1 DEF PartOK
<1>14. ASSUME NEW l \in ToSet(clause), LevelOf(t, l) > 0 PROVE VariableOf(l) \in q.marked
  <2>1. CASE VariableOf(l) \in e.marked
    BY <1>8, <2>1
  <2>2. CASE VariableOf(l) \notin e.marked
    <3>1. l \in ToSet(new)
      BY <1>4, <1>14, <2>2 DEF unmarked, positive
    <3> QED
      BY <1>2, <3>1
  <2> QED
    BY <2>1, <2>2
<1>15. Joined(t, highest, k, e, clause, q)
  BY <1>2, <1>8, <1>14 DEF Joined
<1> QED
  BY <1>13, <1>15
(* The reason of an entry above level zero is a sequence of literals that  *)
(* are false, and its clause no other entry's.                             *)
LEMMA ReasonIsFalse ==
  ASSUME NEW d, DatabaseOK(d), NEW i \in 1..Len(d.trail), d.trail[i].level > 0
  PROVE  /\ FalseLiterals(d.trail, Reason(d, i))
         /\ ReasonClauseOrNull(d, i) # 0 => MayBeSubsumed(d, d.trail[i].level, ReasonClauseOrNull(d, i))
<1> DEFINE t == d.trail
           c == t[i].by
           s == d.clauses[c]
<1>1. d \in Databases /\ IsTrail(t) /\ ClausesOK(d) /\ EntryIsExplained(d, i)
  BY DEF DatabaseOK, ReasonsOK
<1>2. Reason(d, i) \in Seq(Literals) /\ \A l \in ToSet(Reason(d, i)) : IsFalse(t, l)
  BY ReasonFacts
<1>3. t[i] \in Entries
  BY <1>1, TrailEntries
<1>4. CASE t[i].type = "CLAUSE"
  <2>1. c \in Attached(d) /\ s[1] = t[i].literal
    BY <1>1, <1>4 DEF EntryIsExplained
  <2>2. s \in Seq(Literals) /\ Len(s) >= 3 /\ Distinct(s) /\ Len(s) \in Nat
    BY <1>1, <2>1, AttachedClause
  <2>3. Reason(d, i) = SubSeq(s, 2, Len(s))
    BY <1>4 DEF Reason, Others
  <2> HIDE DEF s
  <2>4. /\ Len(SubSeq(s, 2, Len(s))) = Len(s) - 1
        /\ \A j \in 1..(Len(s) - 1) : SubSeq(s, 2, Len(s))[j] = s[j + 1]
    BY <2>2
  <2>5. Distinct(Reason(d, i))
    <3> SUFFICES ASSUME NEW j \in 1..(Len(s) - 1), NEW k \in 1..(Len(s) - 1), s[j + 1] = s[k + 1] PROVE j = k
      BY <2>3, <2>4 DEF Distinct
    <3>1. j + 1 \in 1..Len(s) /\ k + 1 \in 1..Len(s)
      BY <2>2
    <3> QED
      BY <2>2, <3>1 DEF Distinct
  <2>6. ReasonClauseOrNull(d, i) = c
    BY <1>4 DEF ReasonClauseOrNull
  <2>7. ASSUME NEW j \in 1..Len(t), t[j].type = "CLAUSE", t[j].level > 0, t[j].by = c PROVE j = i
    <3>1. EntryIsExplained(d, j)
      BY <2>7 DEF DatabaseOK, ReasonsOK
    <3>2. s[1] = t[j].literal
      BY <2>7, <3>1 DEF EntryIsExplained, s
    <3>3. VariableOf(t[j].literal) = VariableOf(t[i].literal)
      BY <2>1, <3>2 DEF s
    <3> QED
      BY <1>1, <3>3 DEF IsTrail, TrailOK
  <2>8. t[i].level \in Nat
    BY <1>1, TrailEntries
  <2>9. MayBeSubsumed(d, t[i].level, c)
    BY <2>1, <2>7, <2>8 DEF MayBeSubsumed
  <2> QED
    BY <1>2, <2>5, <2>6, <2>9 DEF FalseLiterals
<1>5. CASE t[i].type # "CLAUSE"
  <2>1. ReasonClauseOrNull(d, i) = 0
    BY <1>5 DEF ReasonClauseOrNull
  <2>2. Reason(d, i) = <<c>> \/ Reason(d, i) = <<>>
    BY <1>5 DEF Reason
  <2>3. Distinct(Reason(d, i))
    BY <2>2 DEF Distinct
  <2> QED
    BY <1>2, <2>1, <2>3 DEF FalseLiterals
<1> QED
  BY <1>4, <1>5

ExpansionOK(d, highest, k, e) ==
  /\ PartOK(d, highest, e) /\ e.pending # {}
  /\ Cardinality(e.pending) # 1 => \A v \in e.pending : TrailIndex(d.trail, v) <= k

(* One step down the trail.                                                *)
LEMMA ExpansionIsOK ==
  ASSUME NEW d, DatabaseOK(d), NEW highest \in Nat, highest > 0, NEW k \in 1..Len(d.trail),
         NEW e, ExpansionOK(d, highest, k, e), NEW q, q = ExpandedNext(d, highest, e, k)
  PROVE  ExpansionOK(d, highest, k - 1, q) /\ e.marked \subseteq q.marked
<1> DEFINE t == d.trail
           w == VariableOf(t[k].literal)
<1>1. IsTrail(t) /\ Len(t) \in Nat /\ t[k].literal \in Literals /\ t[k].level \in Nat
  BY TrailEntries DEF DatabaseOK
<1>2. PartOK(d, highest, e) /\ e.pending # {} /\ e.pending \subseteq e.marked /\ e.marked \subseteq Variables
      /\ \A v \in e.pending : LevelOf(t, v) = highest /\ v \in Variables /\ IsAssigned(t, v)
  BY DEF ExpansionOK, PartOK
<1>3. ASSUME NEW v \in e.pending PROVE TrailIndex(t, v) \in 1..Len(t) /\ (TrailIndex(t, v) = k => v = w)
                                      /\ t[TrailIndex(t, v)].level = highest
  <2>1. v \in Variables /\ v \in Literals /\ VariableOf(v) = v /\ IsAssigned(t, v)
    BY <1>1, <1>2, VariableFacts
  <2>2. TrailIndex(t, v) \in 1..Len(t) /\ t[TrailIndex(t, v)].literal \in {v, -v}
        /\ LevelOf(t, v) = t[TrailIndex(t, v)].level
    BY <1>1, <2>1, TrailFacts
  <2>3. VariableOf(t[TrailIndex(t, v)].literal) = v
    BY <2>1, <2>2, LiteralFacts
  <2> QED
    BY <1>2, <2>2, <2>3
<1>4. CASE Cardinality(e.pending) = 1
  <2>1. q = e
    BY <1>4 DEF ExpandedNext
  <2> QED
    BY <1>2, <1>4, <2>1 DEF ExpansionOK
<1>5. CASE Cardinality(e.pending) # 1
  <2>1. \A v \in e.pending : TrailIndex(t, v) <= k
    BY <1>5 DEF ExpansionOK
  <2>2. CASE w \notin e.marked
    <3>1. q = e
      BY <2>2 DEF ExpandedNext
    <3>2. \A v \in e.pending : TrailIndex(t, v) <= k - 1
      BY <1>1, <1>2, <1>3, <2>1, <2>2
    <3> QED
      BY <1>2, <3>1, <3>2 DEF ExpansionOK
  <2>3. CASE w \in e.marked
    <3>1. q = Expanded(t, highest, k - 1, e, Reason(d, k), ReasonClauseOrNull(d, k))
      BY <1>5, <2>3 DEF ExpandedNext
    <3>2. PICK v \in e.pending : v # w
      <4>1. e.pending # {w}
        BY <1>5, FS_Singleton
      <4> QED
        BY <1>2, <4>1
    <3>3. TrailIndex(t, v) <= k - 1 /\ TrailIndex(t, v) <= k /\ TrailIndex(t, v) \in 1..Len(t)
          /\ t[TrailIndex(t, v)].level = highest
      BY <1>3, <2>1, <3>2
    <3>4. t[k].level >= highest
      BY <1>1, <3>3 DEF IsTrail, TrailOK
    <3>5. t[k].level > 0
      BY <1>1, <3>4
    <3>6. FalseLiterals(t, Reason(d, k))
      BY <3>5, ReasonIsFalse
    <3>7. ReasonClauseOrNull(d, k) # 0 => MayBeSubsumed(d, highest, ReasonClauseOrNull(d, k))
      <4>1. ReasonClauseOrNull(d, k) # 0 => MayBeSubsumed(d, t[k].level, ReasonClauseOrNull(d, k))
        BY <3>5, ReasonIsFalse
      <4>2. \A i \in 1..Len(t) : t[i].level \in Nat
        BY <1>1, TrailEntries
      <4> QED
        BY <1>1, <3>4, <4>1, <4>2 DEF MayBeSubsumed
    <3>8. PartOK(d, highest, q) /\ Joined(t, highest, k - 1, e, Reason(d, k), q)
      BY <1>2, <3>1, <3>6, <3>7, ExpandedIsOK
    <3>9. v \in q.pending
      BY <1>2, <3>2, <3>3, <3>8 DEF Joined
    <3>10. \A x \in q.pending : TrailIndex(t, x) <= k - 1
      BY <3>8 DEF Joined
    <3> QED
      BY <3>8, <3>9, <3>10 DEF ExpansionOK, Joined
  <2> QED
    BY <2>2, <2>3
<1> QED
  BY <1>4, <1>5

(* All steps: what is pending in the end is the first UIP.                 *)
LEMMA ExpansionsAreOK ==
  ASSUME NEW d, DatabaseOK(d), NEW highest \in Nat, highest > 0, NEW top \in 1..Len(d.trail),
         NEW first, ExpansionOK(d, highest, top, first),
         NEW e, e = Expansions(d, highest, first, top)[0]
  PROVE  ExpansionOK(d, highest, 0, e) /\ first.marked \subseteq e.marked
<1>1. top \in Nat /\ Len(d.trail) \in Nat
  BY TrailEntries DEF DatabaseOK
<1>2. PICK f : /\ f[top] = first
               /\ \A i \in 0..(top - 1) : f[i] = ExpandedNext(d, highest, f[i + 1], i + 1)
               /\ Expansions(d, highest, first, top) = f
  BY <1>1, ExpansionsLoop
<1> DEFINE P(n) == ExpansionOK(d, highest, top - n, f[top - n]) /\ first.marked \subseteq f[top - n].marked
           S == {n \in Nat : n <= top => P(n)}
<1>3. 0 \in S
  <2>1. top - 0 = top
    BY <1>1
  <2> QED
    BY <1>2, <2>1
<1>4. \A n \in Nat : n \in S => n + 1 \in S
  <2> HIDE DEF P
  <2> SUFFICES ASSUME NEW n \in Nat, P(n), n + 1 <= top PROVE P(n + 1)
    BY <1>1
  <2> USE DEF P
  <2> DEFINE k == top - n
             before == f[k]
             after == f[k - 1]
  <2>1. k \in 1..Len(d.trail) /\ k - 1 \in 0..(top - 1) /\ (k - 1) + 1 = k /\ top - (n + 1) = k - 1
    BY <1>1
  <2>2. ExpansionOK(d, highest, k, before) /\ first.marked \subseteq before.marked
    OBVIOUS
  <2>3. after = ExpandedNext(d, highest, before, k)
    BY <1>2, <2>1
  <2> HIDE DEF k, before, after, P
  <2>4. ExpansionOK(d, highest, k - 1, after) /\ before.marked \subseteq after.marked
    BY <2>1, <2>2, <2>3, ExpansionIsOK
  <2>5. ExpansionOK(d, highest, k - 1, after) /\ first.marked \subseteq after.marked
    BY <2>2, <2>4
  <2> QED
    BY <2>1, <2>5 DEF P, after
<1>5. top \in S
  <2> HIDE DEF S
  <2> QED
    BY <1>1, <1>3, <1>4, SetInduction
<1>6. top - top = 0
  BY <1>1
<1>7. P(top)
  BY <1>1, <1>5
<1> QED
  BY <1>2, <1>6, <1>7

(* What is learned: the first UIP, at the highest level, then literals     *)
(* that are false below that level, each once.                             *)
LearnedOK(d, highest, r) ==
  /\ r.conflict \in Seq(Literals) /\ r.conflict # <<>> /\ Distinct(r.conflict)
  /\ IsFalse(d.trail, r.conflict[1]) /\ LevelOf(d.trail, r.conflict[1]) = highest
  /\ \A l \in ToSet(Tail(r.conflict)) : IsLower(d.trail, highest, l)
  /\ \A c \in r.subsumed : MayBeSubsumed(d, highest, c)

(* What the expansions end with is a clause that can be learned.           *)
LEMMA FirstUIPIsOK ==
  ASSUME NEW d, DatabaseOK(d), NEW highest \in Nat, highest > 0,
         NEW e, ExpansionOK(d, highest, 0, e), NEW r, r = FirstUIPConflict(d.trail, e)
  PROVE  LearnedOK(d, highest, r) /\ r.marked = e.marked
<1> DEFINE t == d.trail
           uip == CHOOSE i \in 1..Len(t) : VariableOf(t[i].literal) \in e.pending
           head == -t[uip].literal
           one == <<head>>
           rest == IF e.lower = <<>> THEN <<>> ELSE Append(Tail(e.lower), Head(e.lower))
<1>1. r.conflict = one \o rest /\ r.marked = e.marked /\ r.subsumed = e.subsumed
  BY DEF FirstUIPConflict
<1>2. /\ e.marked \subseteq Variables /\ \A v \in e.marked : IsAssigned(d.trail, v)
      /\ e.lower \in Seq(Literals) /\ Distinct(e.lower)
      /\ \A l \in ToSet(e.lower) : IsLower(d.trail, highest, l)
      /\ e.pending \subseteq e.marked /\ \A v \in e.pending : LevelOf(d.trail, v) = highest
      /\ e.pending # {} /\ \A c \in e.subsumed : MayBeSubsumed(d, highest, c)
  BY DEF ExpansionOK, PartOK
<1>3. IsTrail(t)
  BY DEF DatabaseOK
<1>4. uip \in 1..Len(t) /\ VariableOf(t[uip].literal) \in e.pending
  <2>1. PICK v \in e.pending : v \in Variables /\ IsAssigned(t, v)
    BY <1>2
  <2>2. v \in Literals /\ VariableOf(v) = v
    BY <1>3, <2>1, VariableFacts
  <2>3. TrailIndex(t, v) \in 1..Len(t) /\ t[TrailIndex(t, v)].literal \in {v, -v}
    BY <1>3, <2>1, <2>2, TrailFacts
  <2>4. VariableOf(t[TrailIndex(t, v)].literal) \in e.pending
    BY <2>1, <2>2, <2>3, LiteralFacts
  <2> QED
    BY <2>3, <2>4
<1> HIDE DEF uip
<1>5. head \in Literals /\ IsFalse(t, head) /\ LevelOf(t, head) = highest
  <2>1. t[uip].literal \in Literals /\ -t[uip].literal \in Literals /\ -(-t[uip].literal) = t[uip].literal
    BY <1>3, <1>4, TrailEntries, LiteralFacts
  <2>2. IsTrue(t, t[uip].literal)
    BY <1>4 DEF IsTrue
  <2>3. LevelOf(t, VariableOf(t[uip].literal)) = highest
    BY <1>2, <1>4
  <2>4. LevelOf(t, t[uip].literal) = highest
    BY <1>3, <2>1, <2>3, VariableFacts
  <2> QED
    BY <1>3, <2>1, <2>2, <2>4, TrailFacts DEF IsFalse
<1> HIDE DEF head
<1>6. rest \in Seq(Literals) /\ Distinct(rest) /\ \A l : l \in ToSet(rest) => l \in ToSet(e.lower)
  <2>1. CASE e.lower = <<>>
    <3>1. rest = <<>>
      BY <2>1
    <3> QED
      BY <1>2, <2>1, <3>1
  <2>2. CASE e.lower # <<>>
    <3> DEFINE s == e.lower
               front == Tail(s)
               last == <<s[1]>>
    <3>1. /\ front \in Seq(Literals) /\ Head(s) = s[1] /\ s[1] \in Literals
          /\ \A x : x \in ToSet(s) <=> x = s[1] \/ x \in ToSet(front)
          /\ Distinct(front) /\ s[1] \notin ToSet(front)
      <4>1. s \in Seq(Literals) /\ s # <<>> /\ Distinct(s) /\ front = Tail(s)
        BY <1>2, <2>2
      <4> HIDE DEF s, front
      <4> QED
        BY <4>1, TailFacts
    <3>2. last \in Seq(Literals) /\ Distinct(last) /\ \A y : y \in ToSet(last) <=> y = s[1]
      BY <3>1, SingletonFacts
    <3>3. rest = front \o last
      BY <2>2, <3>1
    <3> HIDE DEF rest, front, last, s
    <3>4. ToSet(front) \cap ToSet(last) = {}
      BY <3>1, <3>2
    <3>5. rest \in Seq(Literals) /\ Distinct(rest) /\ \A x : x \in ToSet(rest) <=> x \in ToSet(front) \/ x \in ToSet(last)
      <4>1. front \in Seq(Literals) /\ last \in Seq(Literals) /\ Distinct(front) /\ Distinct(last)
        BY <3>1, <3>2
      <4> QED
        BY <3>3, <3>4, <4>1, ConcatenationFacts
    <3> QED
      BY <3>1, <3>2, <3>5 DEF s
  <2> QED
    BY <2>1, <2>2
<1> HIDE DEF rest
<1>7. /\ one \in Seq(Literals) /\ Len(one) = 1 /\ one[1] = head /\ Distinct(one)
      /\ \A y : y \in ToSet(one) <=> y = head
  BY <1>5, SingletonFacts
<1> HIDE DEF one
<1>8. \A l \in ToSet(rest) : IsLower(t, highest, l)
  BY <1>2, <1>6
<1>9. head \notin ToSet(rest)
  BY <1>5, <1>8 DEF IsLower
<1>10. ToSet(one) \cap ToSet(rest) = {}
  BY <1>7, <1>9
<1>11. /\ r.conflict \in Seq(Literals) /\ Distinct(r.conflict) /\ r.conflict[1] = head
       /\ Len(r.conflict) = 1 + Len(rest)
       /\ \A x : x \in ToSet(r.conflict) <=> x = head \/ x \in ToSet(rest)
  <2> DEFINE s == r.conflict
  <2>1. 1 \in 1..Len(one) /\ one \in Seq(Literals) /\ rest \in Seq(Literals) /\ Distinct(one) /\ Distinct(rest)
    BY <1>6, <1>7
  <2>2. s = one \o rest
    BY <1>1
  <2> HIDE DEF s
  <2>a. s \in Seq(Literals) /\ Distinct(s)
    BY <1>10, <2>1, <2>2, ConcatenationFacts
  <2>b. \A i \in 1..Len(one) : s[i] = one[i]
    BY <2>1, <2>2, ConcatenationFacts
  <2>c. Len(s) = Len(one) + Len(rest)
    BY <2>1, <2>2, ConcatenationFacts
  <2>d. \A x : x \in ToSet(s) <=> x \in ToSet(one) \/ x \in ToSet(rest)
    BY <2>1, <2>2, ConcatenationFacts
  <2>3. /\ s \in Seq(Literals) /\ Distinct(s) /\ s[1] = one[1] /\ Len(s) = Len(one) + Len(rest)
        /\ \A x : x \in ToSet(s) <=> x \in ToSet(one) \/ x \in ToSet(rest)
    BY <2>1, <2>a, <2>b, <2>c, <2>d
  <2> QED
    BY <1>7, <2>3 DEF s
<1>12. r.conflict # <<>>
  <2>1. Len(rest) \in Nat
    BY <1>6
  <2> QED
    BY <1>11, <2>1
<1>13. \A l \in ToSet(Tail(r.conflict)) : l \in ToSet(rest)
  <2> DEFINE s == r.conflict
             tail == Tail(s)
  <2>1. s \in Seq(Literals) /\ s # <<>> /\ Distinct(s) /\ tail = Tail(s)
    BY <1>11, <1>12
  <2> HIDE DEF s, tail
  <2>2. s[1] \notin ToSet(tail) /\ \A x : x \in ToSet(s) <=> x = s[1] \/ x \in ToSet(tail)
    BY <2>1, TailFacts
  <2>3. s[1] = head /\ \A x : x \in ToSet(s) <=> x = head \/ x \in ToSet(rest)
    BY <1>11 DEF s
  <2> QED
    BY <2>2, <2>3 DEF tail, s
<1> QED
  BY <1>1, <1>2, <1>5, <1>8, <1>11, <1>12, <1>13 DEF LearnedOK
(* A clause that fails, above level zero.                                  *)
FailureIsKnown(d, literals, id) ==
  /\ literals # <<>> /\ FalseLiterals(d.trail, literals)
  /\ id # 0 => id \in Attached(d) /\ literals = d.clauses[id]

(* ComputeFirstUIPConflict(): the expansions of the failing clause, from   *)
(* its last literal on, which is at the highest level.                     *)
Analysed(d, literals, highest, nothing, first, top, e, r) ==
  /\ \A l \in ToSet(literals) :
       /\ l \in Literals /\ IsFalse(d.trail, l)
       /\ LevelOf(d.trail, l) <= highest /\ TrailIndex(d.trail, l) <= top
  /\ PartOK(d, highest, nothing) /\ nothing.marked = {} /\ nothing.subsumed = {}
  /\ \E id : /\ id # 0 => MayBeSubsumed(d, highest, id) /\ literals = d.clauses[id]
             /\ first = Expanded(d.trail, highest, top, nothing, literals, id)
  /\ Joined(d.trail, highest, top, nothing, literals, first)
  /\ ExpansionOK(d, highest, top, first) /\ d.trail[top].level = highest
  /\ e = Expansions(d, highest, first, top)[0] /\ r = FirstUIPConflict(d.trail, e)

(* The analysis of a clause that fails.                                    *)
LEMMA ConflictIsAnalysed ==
  ASSUME NEW d, DatabaseOK(d), NEW literals, NEW id, FailureIsKnown(d, literals, id),
         \E l \in ToSet(literals) : LevelOf(d.trail, l) > 0,
         NEW r, r = ComputeFirstUIPConflict(d, literals, id)
  PROVE  \E highest \in Nat \ {0}, top \in 1..Len(d.trail) : \E nothing, first, e :
           Analysed(d, literals, highest, nothing, first, top, e, r)
<1> DEFINE t == d.trail
           places == {TrailIndex(t, l) : l \in ToSet(literals)}
           top == Max(places)
           highest == t[top].level
           nothing == [marked |-> {}, lower |-> <<>>, pending |-> {}, subsumed |-> {}]
           first == Expanded(t, highest, top, nothing, literals, id)
           e == Expansions(d, highest, first, top)[0]
<1>1. r = FirstUIPConflict(t, e)
  <2>1. r = The({FirstUIPConflict(t, x) : x \in {e}})
    BY DEF ComputeFirstUIPConflict
  <2>2. {FirstUIPConflict(t, x) : x \in {e}} = {FirstUIPConflict(t, e)}
    OBVIOUS
  <2> QED
    BY <2>1, <2>2, TheOfOne
<1> HIDE DEF e, first
<1>2. IsTrail(t) /\ Len(t) \in Nat /\ ClausesOK(d) /\ d \in Databases /\ ReasonsOK(d)
  BY TrailEntries DEF DatabaseOK
<1>3. literals \in Seq(Literals) /\ literals # <<>> /\ FalseLiterals(t, literals) /\ \A l \in ToSet(literals) : IsFalse(t, l)
  BY DEF FailureIsKnown, FalseLiterals
<1>4. ASSUME NEW l \in ToSet(literals)
      PROVE  l \in Literals /\ IsAssigned(t, l) /\ TrailIndex(t, l) \in 1..Len(t) /\ LevelOf(t, l) = t[TrailIndex(t, l)].level
  <2>1. l \in Literals /\ IsAssigned(t, l)
    BY <1>3, ToSetFacts DEF IsAssigned
  <2> QED
    BY <1>2, <2>1, TrailFacts
<1>5. places \subseteq 1..Len(t) /\ places # {}
  <2>1. ToSet(literals) # {}
    BY <1>3, ToSetFacts
  <2> QED
    BY <1>4, <2>1
<1>6. top \in places /\ \A i \in places : i <= top
  <2>1. IsFiniteSet(places)
    BY <1>2, <1>5, FS_Subset, CardinalityOfInterval
  <2>2. places \in SUBSET Int
    BY <1>2, <1>5
  <2>3. Max(places) \in places /\ \A i \in places : Max(places) >= i
    BY <1>5, <2>1, <2>2, MaxOfSet
  <2>4. places \subseteq Int
    BY <2>2
  <2> QED
    BY <2>3, <2>4
<1> HIDE DEF top
<1>7. top \in 1..Len(t) /\ t[top].level \in Nat
  BY <1>2, <1>5, <1>6, TrailEntries
<1>8. PICK last \in ToSet(literals) : TrailIndex(t, last) = top
  BY <1>6
<1>9. LevelOf(t, last) = highest
  BY <1>4, <1>8
<1>10. highest \in Nat /\ highest > 0
  <2>1. PICK l \in ToSet(literals) : LevelOf(t, l) > 0
    OBVIOUS
  <2>2. TrailIndex(t, l) \in places /\ TrailIndex(t, l) <= top
    BY <1>6
  <2>3. TrailIndex(t, l) \in 1..Len(t) /\ t[TrailIndex(t, l)].level > 0
    BY <1>4, <2>1
  <2>4. t[TrailIndex(t, l)].level <= t[top].level
    BY <1>2, <1>7, <2>2, <2>3 DEF IsTrail, TrailOK
  <2>5. t[TrailIndex(t, l)].level \in Nat
    BY <1>2, <2>3, TrailEntries
  <2> QED
    BY <1>7, <2>3, <2>4, <2>5
<1> HIDE DEF highest
<1>11. id # 0 => MayBeSubsumed(d, highest, id)
  <2> SUFFICES ASSUME id # 0 PROVE MayBeSubsumed(d, highest, id)
    OBVIOUS
  <2>1. id \in Attached(d) /\ literals = d.clauses[id]
    BY DEF FailureIsKnown
  <2>2. ASSUME NEW i \in 1..Len(t), t[i].type = "CLAUSE", t[i].level > 0, t[i].by = id PROVE FALSE
    <3>1. d.clauses[id][1] = t[i].literal
      BY <1>2, <2>2 DEF ReasonsOK, EntryIsExplained
    <3>2. t[i].literal \in ToSet(literals) /\ t[i].literal \in Literals
      BY <1>2, <2>1, <3>1, AttachedClause
    <3>3. IsFalse(t, t[i].literal) /\ IsTrue(t, t[i].literal)
      BY <1>3, <3>2 DEF IsTrue
    <3> QED
      BY <1>2, <3>2, <3>3, TrailFacts
  <2> QED
    BY <2>1, <2>2 DEF MayBeSubsumed
<1>12. PartOK(d, highest, nothing)
  <2>1. ToSet(<<>>) = {}
    BY DEF ToSet
  <2>2. Distinct(<<>>) /\ <<>> \in Seq(Literals)
    BY DEF Distinct
  <2> QED
    BY <2>1, <2>2 DEF PartOK
<1>13. first = Expanded(t, highest, top, nothing, literals, id)
  BY DEF first
<1> HIDE DEF nothing
<1>14. PartOK(d, highest, first) /\ Joined(t, highest, top, nothing, literals, first)
  BY <1>3, <1>10, <1>11, <1>12, <1>13, ExpandedIsOK
<1>15. VariableOf(last) \in first.pending
  <2>1. VariableOf(last) \in first.marked
    BY <1>9, <1>10, <1>14 DEF Joined
  <2>2. LevelOf(t, VariableOf(last)) = highest /\ TrailIndex(t, VariableOf(last)) = top
    BY <1>2, <1>4, <1>8, <1>9, VariableFacts
  <2>3. top <= top
    BY <1>7
  <2> QED
    BY <1>14, <2>1, <2>2, <2>3 DEF Joined
<1>16. ExpansionOK(d, highest, top, first)
  BY <1>14, <1>15 DEF ExpansionOK, Joined
<1>17. e = Expansions(d, highest, first, top)[0]
  BY DEF e
<1>18. ASSUME NEW l \in ToSet(literals) PROVE LevelOf(t, l) <= highest /\ TrailIndex(t, l) <= top
  <2>1. TrailIndex(t, l) \in places /\ TrailIndex(t, l) <= top
    BY <1>6
  <2>2. TrailIndex(t, l) \in 1..Len(t) /\ LevelOf(t, l) = t[TrailIndex(t, l)].level
    BY <1>4
  <2>3. t[TrailIndex(t, l)].level <= t[top].level
    BY <1>2, <1>7, <2>1, <2>2 DEF IsTrail, TrailOK
  <2> QED
    BY <2>1, <2>2, <2>3 DEF highest
<1>19. nothing.marked = {} /\ nothing.subsumed = {}
  BY DEF nothing
<1>20. id # 0 => MayBeSubsumed(d, highest, id) /\ literals = d.clauses[id]
  BY <1>11 DEF FailureIsKnown
<1>21. t[top].level = highest
  BY DEF highest
<1>22. Analysed(d, literals, highest, nothing, first, top, e, r)
  BY <1>1, <1>3, <1>4, <1>12, <1>13, <1>14, <1>16, <1>17, <1>18, <1>19, <1>20, <1>21 DEF Analysed
<1>23. highest \in Nat \ {0}
  BY <1>10
<1> QED
  BY <1>7, <1>22, <1>23

(* So what is learned is a clause that can be learned.                     *)
LEMMA FirstUIPConflictIsOK ==
  ASSUME NEW d, DatabaseOK(d), NEW literals, NEW id, FailureIsKnown(d, literals, id),
         \E l \in ToSet(literals) : LevelOf(d.trail, l) > 0,
         NEW r, r = ComputeFirstUIPConflict(d, literals, id)
  PROVE  \E highest \in Nat \ {0} : LearnedOK(d, highest, r)
<1>1. PICK highest \in Nat \ {0}, top \in 1..Len(d.trail) :
        \E nothing, first, e : Analysed(d, literals, highest, nothing, first, top, e, r)
  BY ConflictIsAnalysed
<1>2. PICK nothing, first, e : Analysed(d, literals, highest, nothing, first, top, e, r)
  BY <1>1
<1>3. /\ ExpansionOK(d, highest, top, first) /\ e = Expansions(d, highest, first, top)[0]
      /\ r = FirstUIPConflict(d.trail, e) /\ highest \in Nat /\ highest > 0
  BY <1>2 DEF Analysed
<1>4. ExpansionOK(d, highest, 0, e)
  BY <1>3, ExpansionsAreOK
<1> QED
  BY <1>3, <1>4, FirstUIPIsOK
-----------------------------------------------------------------------------
(* Minimisation keeps the first UIP and some of the other literals.        *)
LEMMA HeadAndIsOK ==
  ASSUME NEW d, NEW highest, NEW r, LearnedOK(d, highest, r), NEW others,
         NEW e, e.conflict = HeadAnd(r.conflict, others), e.subsumed = r.subsumed
  PROVE  /\ LearnedOK(d, highest, e) /\ e.conflict[1] = r.conflict[1]
         /\ \A l : l \in ToSet(Tail(e.conflict)) <=> l \in ToSet(Tail(r.conflict)) /\ l \in others
<1> DEFINE s == r.conflict
           tail == Tail(s)
           rest == Only(tail, others)
           head == s[1]
           one == <<head>>
           q == e.conflict
           back == Tail(q)
<1>1. /\ s \in Seq(Literals) /\ s # <<>> /\ Distinct(s) /\ tail = Tail(s)
      /\ IsFalse(d.trail, head) /\ LevelOf(d.trail, head) = highest
      /\ \A l \in ToSet(tail) : IsLower(d.trail, highest, l)
      /\ \A c \in e.subsumed : MayBeSubsumed(d, highest, c)
  BY DEF LearnedOK
<1>2. q = <<Head(s)>> \o rest
  BY DEF HeadAnd
<1> HIDE DEF s, tail, q, back
<1>3. tail \in Seq(Literals) /\ Head(s) = s[1] /\ s[1] \in Literals /\ Distinct(tail) /\ s[1] \notin ToSet(tail)
  BY <1>1, TailFacts
<1>4. /\ rest \in Seq(Literals) /\ Distinct(rest)
      /\ \A l : l \in ToSet(rest) <=> l \in ToSet(tail) /\ l \in others
  BY <1>3, OnlyFacts
<1>5. q = one \o rest /\ head \in Literals /\ head \notin ToSet(rest) /\ Len(rest) \in Nat
  BY <1>2, <1>3, <1>4
<1> HIDE DEF rest, head
<1>6. /\ one \in Seq(Literals) /\ Len(one) = 1 /\ one[1] = head /\ Distinct(one)
      /\ \A y : y \in ToSet(one) <=> y = head
  BY <1>5, SingletonFacts
<1> HIDE DEF one
<1>7. ToSet(one) \cap ToSet(rest) = {}
  BY <1>5, <1>6
<1>8. /\ one \in Seq(Literals) /\ rest \in Seq(Literals) /\ Distinct(one) /\ Distinct(rest)
      /\ 1 \in 1..Len(one) /\ q = one \o rest
  BY <1>4, <1>5, <1>6
<1>9. q \in Seq(Literals) /\ Distinct(q)
  BY <1>7, <1>8, ConcatenationFacts
<1>10. q[1] = head
  <2>1. q[1] = one[1]
    BY <1>8, ConcatenationFacts
  <2> QED
    BY <1>6, <2>1
<1>11. q # <<>>
  <2>1. Len(q) = Len(one) + Len(rest)
    BY <1>8, ConcatenationFacts
  <2> QED
    BY <1>5, <1>6, <2>1
<1>12. \A x : x \in ToSet(q) <=> x \in ToSet(one) \/ x \in ToSet(rest)
  BY <1>8, ConcatenationFacts
<1>13. back = Tail(q)
  BY DEF back
<1>14. q[1] \notin ToSet(back) /\ \A x : x \in ToSet(q) <=> x = q[1] \/ x \in ToSet(back)
  BY <1>9, <1>11, <1>13, TailFacts
<1>15. \A x : x \in ToSet(back) <=> x \in ToSet(rest)
  BY <1>5, <1>6, <1>10, <1>12, <1>14
<1>16. \A l : l \in ToSet(back) <=> l \in ToSet(tail) /\ l \in others
  BY <1>4, <1>15
<1>17. LearnedOK(d, highest, e)
  BY <1>1, <1>9, <1>10, <1>11, <1>16 DEF LearnedOK, q, back, head
<1> QED
  BY <1>10, <1>16, <1>17 DEF q, back, head, tail, s
IsLearned(r) == r = [conflict |-> r.conflict, marked |-> r.marked, subsumed |-> r.subsumed]

(* The fields of its result.                                               *)
LEMMA FirstUIPIsLearned ==
  ASSUME NEW d, NEW literals, NEW id, NEW r, r = ComputeFirstUIPConflict(d, literals, id)
  PROVE  IsLearned(r)
<1>1. ASSUME NEW t, NEW e PROVE IsLearned(FirstUIPConflict(t, e))
  BY DEF IsLearned, FirstUIPConflict
<1> DEFINE t == d.trail
           top == Max({TrailIndex(t, l) : l \in ToSet(literals)})
           highest == t[top].level
           nothing == [marked |-> {}, lower |-> <<>>, pending |-> {}, subsumed |-> {}]
           e == Expansions(d, highest, Expanded(t, highest, top, nothing, literals, id), top)[0]
<1>2. r = The({FirstUIPConflict(t, x) : x \in {e}})
  BY DEF ComputeFirstUIPConflict
<1>3. {FirstUIPConflict(t, x) : x \in {e}} = {FirstUIPConflict(t, e)}
  OBVIOUS
<1>4. r = FirstUIPConflict(t, e)
  BY <1>2, <1>3, TheOfOne
<1> QED
  BY <1>1, <1>4

(* What minimisation does to the clause that is learned.                   *)
Shortened(r, others, e) ==
  IsLearned(e) /\ e.conflict = HeadAnd(r.conflict, others) /\ e.subsumed = r.subsumed

(* The binary minimisation only takes literals away.                       *)
LEMMA MinimizedFirst ==
  ASSUME NEW d, NEW r, IsLearned(r), NEW e, e = MinimizeConflictFirst(d, r)
  PROVE  \E others : Shortened(r, others, e)
<1> DEFINE reachable == MarkDescendants(d.implications, -Head(r.conflict))
           others == {l \in Literals : -l \notin reachable}
<1>1. e = WithoutReachable(d.trail, r, reachable)
  <2>1. e = The({WithoutReachable(d.trail, r, x) : x \in {reachable}})
    BY DEF MinimizeConflictFirst
  <2>2. {WithoutReachable(d.trail, r, x) : x \in {reachable}} = {WithoutReachable(d.trail, r, reachable)}
    OBVIOUS
  <2> QED
    BY <2>1, <2>2, TheOfOne
<1> HIDE DEF reachable
<1>2. e = [r EXCEPT !.conflict = HeadAnd(r.conflict, others),
                    !.marked = r.marked \cup {VariableOf(l) : l \in {m \in reachable : IsTrue(d.trail, m)}}]
  BY <1>1 DEF WithoutReachable
<1> HIDE DEF others
<1>3. e.conflict = HeadAnd(r.conflict, others) /\ e.subsumed = r.subsumed /\ IsLearned(e)
  BY <1>2 DEF IsLearned
<1> QED
  BY <1>3 DEF Shortened

(* So does the simple one.                                                 *)
LEMMA MinimizedSimple ==
  ASSUME NEW d, NEW r, IsLearned(r), NEW e, e = MinimizeConflictSimple(d, r)
  PROVE  \E others : Shortened(r, others, e)
<1> DEFINE Gone(l) ==
             LET reason == Reason(d, TrailIndex(d.trail, l))
             IN /\ LevelOf(d.trail, l) # CurrentLevel(d.trail) /\ reason # <<>>
                /\ \A m \in ToSet(reason) : LevelOf(d.trail, m) = 0 \/ VariableOf(m) \in r.marked
           others == {l \in ToSet(r.conflict) : ~Gone(l)}
<1>1. e = [r EXCEPT !.conflict = HeadAnd(r.conflict, others)]
  BY DEF MinimizeConflictSimple
<1> HIDE DEF others
<1>2. e.conflict = HeadAnd(r.conflict, others) /\ e.subsumed = r.subsumed /\ IsLearned(e)
  BY <1>1 DEF IsLearned
<1> QED
  BY <1>2 DEF Shortened

(* So does the recursive one.                                              *)
LEMMA MinimizedRecursively ==
  ASSUME NEW d, NEW r, IsLearned(r), NEW e, e = MinimizeConflictRecursively(d, r)
  PROVE  \E others : Shortened(r, others, e)
<1> DEFINE infered == CanBeInfered(d, r.marked)
           others == {l \in ToSet(r.conflict) : TrailIndex(d.trail, l) \notin infered}
<1>1. e = WithoutInfered(d.trail, r, infered)
  <2>1. e = The({WithoutInfered(d.trail, r, x) : x \in {infered}})
    BY DEF MinimizeConflictRecursively
  <2>2. {WithoutInfered(d.trail, r, x) : x \in {infered}} = {WithoutInfered(d.trail, r, infered)}
    OBVIOUS
  <2> QED
    BY <2>1, <2>2, TheOfOne
<1> HIDE DEF infered
<1>2. e = [r EXCEPT !.conflict = HeadAnd(r.conflict, others)]
  BY <1>1 DEF WithoutInfered
<1> HIDE DEF others
<1>3. e.conflict = HeadAnd(r.conflict, others) /\ e.subsumed = r.subsumed /\ IsLearned(e)
  BY <1>2 DEF IsLearned
<1> QED
  BY <1>3 DEF Shortened

(* What is shortened is still a clause that can be learned.                *)
LEMMA ShortenedIsOK ==
  ASSUME NEW d, NEW highest, NEW r, LearnedOK(d, highest, r), NEW others, NEW e, Shortened(r, others, e)
  PROVE  LearnedOK(d, highest, e) /\ IsLearned(e)
BY HeadAndIsOK DEF Shortened

(* So is what the configured minimisation returns.                         *)
LEMMA MinimizedIsOK ==
  ASSUME NEW d, NEW highest, NEW r, LearnedOK(d, highest, r), IsLearned(r), NEW e, e = MinimizeConflict(d, r)
  PROVE  LearnedOK(d, highest, e)
<1>1. e = r \/ e = MinimizeConflictSimple(d, r) \/ e = MinimizeConflictRecursively(d, r)
  BY DEF MinimizeConflict
<1>2. e = r \/ \E others : Shortened(r, others, e)
  BY <1>1, MinimizedSimple, MinimizedRecursively
<1> QED
  BY <1>2, ShortenedIsOK

(* And all of the conflict analysis.                                       *)
LEMMA LearnedIsOK ==
  ASSUME NEW d, DatabaseOK(d), FailureIsKnown(d, conflict, failing),
         \E l \in ToSet(conflict) : LevelOf(d.trail, l) > 0,
         NEW r, r = Learned(d)
  PROVE  \E highest \in Nat \ {0} : LearnedOK(d, highest, r)
<1> DEFINE first == ComputeFirstUIPConflict(d, conflict, failing)
           Choice(x) == IF config.binary_minimization_algorithm = "BINARY_MINIMIZATION_FIRST"
                        THEN MinimizeConflictFirst(d, x) ELSE x
           chosen == Choice(first)
<1>1. r = MinimizeConflict(d, chosen)
  <2>1. r = The({MinimizeConflict(d, q) : q \in {Choice(x) : x \in {first}}})
    BY DEF Learned
  <2>2. {Choice(x) : x \in {first}} = {chosen}
    OBVIOUS
  <2>3. {MinimizeConflict(d, q) : q \in {chosen}} = {MinimizeConflict(d, chosen)}
    OBVIOUS
  <2> QED
    BY <2>1, <2>2, <2>3, TheOfOne
<1>2. chosen = first \/ chosen = MinimizeConflictFirst(d, first)
  OBVIOUS
<1>3. first = ComputeFirstUIPConflict(d, conflict, failing)
  OBVIOUS
<1> HIDE DEF chosen, first, Choice
<1>4. IsLearned(first)
  BY <1>3, FirstUIPIsLearned
<1>5. PICK highest \in Nat \ {0} : LearnedOK(d, highest, first)
  BY <1>3, FirstUIPConflictIsOK
<1>6. LearnedOK(d, highest, chosen) /\ IsLearned(chosen)
  <2>1. chosen = first \/ \E others : Shortened(first, others, chosen)
    BY <1>2, <1>4, MinimizedFirst
  <2> QED
    BY <1>4, <1>5, <2>1, ShortenedIsOK
<1>7. LearnedOK(d, highest, r)
  BY <1>1, <1>6, MinimizedIsOK
<1> QED
  BY <1>5, <1>7

-----------------------------------------------------------------------------
(* The backjump: what is learned propagates its first literal, and no      *)
(* subsumed clause is a reason any more.                                   *)
NotReasons(t, removed) ==
  \A i \in 1..Len(t) : t[i].type = "CLAUSE" /\ t[i].level > 0 => t[i].by \notin removed

Asserting(t, s) ==
  /\ s \in Seq(Literals) /\ s # <<>> /\ Distinct(s) /\ ~IsAssigned(t, s[1])
  /\ \A l \in ToSet(Tail(s)) : IsFalse(t, l)
  /\ Len(s) = 1 => CurrentLevel(t) = 0

(* ComputeBacktrackLevel() is below the level of the first UIP, and not    *)
(* below that of another literal.                                          *)
LEMMA BacktrackLevelFacts ==
  ASSUME NEW t, IsTrail(t), NEW highest \in Nat \ {0}, NEW tail \in Seq(Literals),
         \A l \in ToSet(tail) : IsLower(t, highest, l),
         NEW level, level = Max({0} \cup {LevelOf(t, l) : l \in ToSet(tail)})
  PROVE  /\ level \in Nat /\ level < highest /\ \A l \in ToSet(tail) : LevelOf(t, l) <= level
         /\ tail = <<>> => level = 0
<1> DEFINE levels == {0} \cup {LevelOf(t, l) : l \in ToSet(tail)}
<1>1. levels \subseteq 0..(highest - 1) /\ levels # {}
  BY DEF IsLower
<1>2. highest - 1 \in Nat
  OBVIOUS
<1>3. IsFiniteSet(0..(highest - 1))
  BY <1>2, FS_Interval
<1>4. IsFiniteSet(levels)
  BY <1>1, <1>3, FS_Subset
<1>5. levels \in SUBSET Int
  BY <1>1
<1>6. level \in levels /\ \A x \in levels : level >= x
  <2>1. level = Max(levels)
    OBVIOUS
  <2> HIDE DEF levels
  <2> QED
    BY <1>1, <1>4, <1>5, <2>1, MaxOfSet
<1>7. level \in Nat /\ level < highest
  BY <1>1, <1>2, <1>6
<1>8. ASSUME NEW l \in ToSet(tail) PROVE LevelOf(t, l) <= level
  <2>1. LevelOf(t, l) \in levels /\ LevelOf(t, l) \in 1..(highest - 1)
    BY DEF IsLower
  <2> QED
    BY <1>6, <1>7, <2>1
<1>9. ASSUME tail = <<>> PROVE level = 0
  <2>1. ToSet(tail) = {}
    BY <1>9, ToSetFacts
  <2>2. levels = {0}
    BY <2>1
  <2> QED
    BY <1>6, <2>2
<1> QED
  BY <1>7, <1>8, <1>9

(* After the backjump the clause is asserting.                             *)
LEMMA BackjumpIsOK ==
  ASSUME NEW d, DatabaseOK(d), NEW highest \in Nat \ {0}, NEW r, LearnedOK(d, highest, r),
         NEW level, level = ComputeBacktrackLevel(d.trail, r.conflict),
         NEW kept, kept = Backtracked(d.trail, level), NEW e, e = WithTrailOf(d, kept)
  PROVE  /\ DatabaseOK(e) /\ e.trail = kept /\ e.clauses = d.clauses /\ Attached(e) = Attached(d)
         /\ e.implications = d.implications
         /\ IsTrail(kept) /\ Len(kept) \in Nat /\ Len(kept) <= Len(d.trail) /\ level \in Nat
         /\ Asserting(kept, r.conflict) /\ NotReasons(kept, r.subsumed)
<1> DEFINE t == d.trail
           s == r.conflict
           tail == Tail(s)
<1>1. d \in Databases /\ IsTrail(t) /\ Len(t) \in Nat
  BY TrailEntries DEF DatabaseOK
<1>2. /\ s \in Seq(Literals) /\ s # <<>> /\ Distinct(s) /\ IsFalse(t, s[1]) /\ LevelOf(t, s[1]) = highest
      /\ \A l \in ToSet(tail) : IsLower(t, highest, l)
      /\ \A c \in r.subsumed : MayBeSubsumed(d, highest, c)
  BY DEF LearnedOK
<1>3. tail = Tail(s) /\ level = Max({0} \cup {LevelOf(t, l) : l \in ToSet(tail)})
  BY DEF ComputeBacktrackLevel
<1> HIDE DEF tail, s
<1>4. /\ tail \in Seq(Literals) /\ s[1] \in Literals /\ Len(s) = Len(tail) + 1 /\ Len(tail) \in Nat
  BY <1>2, <1>3, TailFacts
<1>5. /\ level \in Nat /\ level < highest /\ \A l \in ToSet(tail) : LevelOf(t, l) <= level
      /\ tail = <<>> => level = 0
  BY <1>1, <1>2, <1>3, <1>4, BacktrackLevelFacts
<1>6. /\ IsTrail(kept) /\ Begins(kept, t) /\ Len(kept) <= Len(t)
      /\ \A i \in 1..Len(kept) : kept[i] = t[i] /\ i \in 1..Len(t) /\ kept[i].level <= level
      /\ \A i \in 1..Len(t) : t[i].level <= level <=> i <= Len(kept)
      /\ CurrentLevel(kept) <= level
  <2> DEFINE u == t
  <2>1. IsTrail(u) /\ level \in Nat /\ kept = Backtracked(u, level)
    BY <1>1, <1>5
  <2> HIDE DEF u
  <2>2. /\ IsTrail(kept) /\ Begins(kept, u) /\ Len(kept) <= Len(u)
        /\ \A i \in 1..Len(kept) : kept[i] = u[i] /\ i \in 1..Len(u) /\ kept[i].level <= level
        /\ \A i \in 1..Len(u) : u[i].level <= level <=> i <= Len(kept)
        /\ CurrentLevel(kept) <= level
    BY <2>1, BacktrackedFacts
  <2> QED
    BY <2>2 DEF u
<1>7. Len(kept) \in Nat /\ CurrentLevel(kept) \in Nat /\ \A i \in 1..Len(kept) : kept[i].level \in Nat
  BY <1>6, TrailEntries, CurrentLevelFacts
<1>8. DatabaseOK(e)
  <2>1. \A i \in 1..Len(t) : t[i].level = 0 => i <= Len(kept)
    BY <1>5, <1>6
  <2>2. e = [d EXCEPT !.trail = kept]
    BY DEF WithTrailOf
  <2> QED
    BY <1>6, <2>1, <2>2, CutTrail
<1>9. e.trail = kept /\ e.clauses = d.clauses /\ Attached(e) = Attached(d) /\ e.implications = d.implications
  BY <1>1, <1>6, WithTrail DEF WithTrailOf, IsTrail
<1>10. ~IsAssigned(kept, s[1])
  <2> SUFFICES ASSUME IsAssigned(kept, s[1]) PROVE FALSE
    OBVIOUS
  <2>1. TrailIndex(kept, s[1]) \in 1..Len(kept) /\ LevelOf(kept, s[1]) = kept[TrailIndex(kept, s[1])].level
    BY <1>4, <1>6, TrailFacts
  <2>2. LevelOf(t, s[1]) = LevelOf(kept, s[1])
    BY <1>1, <1>4, <1>6, BeginningFacts
  <2>3. LevelOf(kept, s[1]) <= level /\ LevelOf(kept, s[1]) \in Nat
    BY <1>6, <1>7, <2>1
  <2> QED
    BY <1>2, <1>5, <2>2, <2>3
<1>11. ASSUME NEW l \in ToSet(tail) PROVE IsFalse(kept, l)
  <2>1. l \in Literals /\ IsFalse(t, l) /\ IsAssigned(t, l)
    BY <1>2, <1>4, ToSetFacts DEF IsLower, IsAssigned
  <2>2. TrailIndex(t, l) \in 1..Len(t) /\ t[TrailIndex(t, l)].level <= level
    BY <1>1, <1>5, <2>1, TrailFacts
  <2>3. TrailIndex(t, l) <= Len(kept)
    BY <1>6, <2>2
  <2>4. IsAssigned(kept, l)
    BY <1>1, <1>6, <2>1, <2>3, BeginningFacts
  <2> QED
    BY <1>1, <1>6, <2>1, <2>4, BeginningFacts
<1>12. Len(s) = 1 => CurrentLevel(kept) = 0
  <2>0. \A q \in Seq(Literals) : Len(q) = 0 => q = <<>>
    OBVIOUS
  <2>1. Len(s) = 1 => Len(tail) = 0
    <3>1. \A k \in Nat : \A m : m = k + 1 /\ m = 1 => k = 0
      OBVIOUS
    <3> QED
      BY <1>4, <3>1, Zenon
  <2>2. Len(s) = 1 => tail = <<>>
    BY <1>4, <2>0, <2>1
  <2> QED
    BY <1>5, <1>6, <1>7, <2>2
<1>13. Asserting(kept, s)
  BY <1>2, <1>3, <1>10, <1>11, <1>12 DEF Asserting
<1>14. NotReasons(kept, r.subsumed)
  <2> SUFFICES ASSUME NEW i \in 1..Len(kept), kept[i].type = "CLAUSE", kept[i].level > 0, kept[i].by \in r.subsumed
               PROVE  FALSE
    BY DEF NotReasons
  <2>1. kept[i] = t[i] /\ i \in 1..Len(t) /\ kept[i].level <= level /\ kept[i].level \in Nat
    BY <1>6, <1>7
  <2>2. t[i].level >= highest
    BY <1>2, <2>1 DEF MayBeSubsumed
  <2> QED
    BY <1>5, <2>1, <2>2
<1> QED
  BY <1>5, <1>6, <1>7, <1>8, <1>9, <1>13, <1>14 DEF s

(* Clauses that may be forgotten are no reasons above level zero.          *)
LEMMA ForgottenAreNotReasons ==
  ASSUME NEW d, DatabaseOK(d), NEW forgotten, forgotten \subseteq MayBeForgotten(d)
  PROVE  NotReasons(d.trail, forgotten)
<1> SUFFICES ASSUME NEW i \in 1..Len(d.trail), d.trail[i].type = "CLAUSE", d.trail[i].level > 0,
                    d.trail[i].by \in forgotten
             PROVE  FALSE
  BY DEF NotReasons
<1> DEFINE c == d.trail[i].by
           l == d.clauses[c][1]
<1>1. IsTrail(d.trail) /\ EntryIsExplained(d, i)
  BY DEF DatabaseOK, ReasonsOK
<1>2. l = d.trail[i].literal
  BY <1>1 DEF EntryIsExplained
<1>3. d.trail[i].literal \in Literals
  BY <1>1, TrailEntries
<1>4. IsAssigned(d.trail, l) /\ TrailIndex(d.trail, l) = i
  <2> HIDE DEF l
  <2> QED
    BY <1>1, <1>2, <1>3, TrailFacts
<1>5. ReasonClauseOrNull(d, i) = c
  BY DEF ReasonClauseOrNull
<1>6. ClauseIsUsedAsReason(d, c)
  BY <1>4, <1>5 DEF ClauseIsUsedAsReason
<1> QED
  BY <1>6 DEF MayBeForgotten
-----------------------------------------------------------------------------
(* A binary clause may propagate one of its literals.                      *)
LEMMA AddBinaryGrows ==
  ASSUME NEW d, DatabaseOK(d), NEW a \in Literals, NEW b \in Literals, a # b,
         NEW e, e = AddBinaryClause(d, a, b)
  PROVE  /\ e \in Databases /\ e.clauses = d.clauses /\ Attached(e) = Attached(d)
         /\ Begins(d.trail, e.trail) /\ CurrentLevel(e.trail) = CurrentLevel(d.trail)
<1>1. d \in Databases /\ IsTrail(d.trail) /\ Len(d.trail) \in Nat
  BY TrailEntries DEF DatabaseOK
<1>2. Begins(d.trail, d.trail)
  BY <1>1 DEF Begins
<1>3. CASE a = -b
  <2>1. e = d
    BY <1>3 DEF AddBinaryClause
  <2> QED
    BY <1>1, <1>2, <2>1
<1>4. CASE a # -b
  <2> DEFINE g == WithImplications(d, a, b)
             level == CurrentLevel(d.trail)
  <2>1. /\ g \in Databases /\ g.trail = d.trail /\ g.clauses = d.clauses /\ Attached(g) = Attached(d)
    BY <1>1, WithImplicationsFields
  <2>2. g = WithImplications(d, a, b)
    OBVIOUS
  <2>3. level \in Nat /\ level <= Len(d.trail)
    BY <1>1, CurrentLevelFacts
  <2> HIDE DEF g
  <2>4. \/ e = g
        \/ /\ ~IsAssigned(d.trail, b)
           /\ e = [g EXCEPT !.trail = Enqueued(d.trail, b, level, "BINARY", a)]
        \/ /\ ~IsAssigned(d.trail, a)
           /\ e = [g EXCEPT !.trail = Enqueued(d.trail, a, level, "BINARY", b)]
    BY <1>1, <1>4, <2>2, AddBinaryClauseCases
  <2>5. CASE e = g
    BY <1>2, <2>1, <2>5
  <2>6. ASSUME NEW l \in Literals, NEW by \in Literals, ~IsAssigned(d.trail, l), NEW u,
               u = Enqueued(d.trail, l, level, "BINARY", by), e = [g EXCEPT !.trail = u]
        PROVE  /\ e \in Databases /\ e.clauses = d.clauses /\ Attached(e) = Attached(d)
               /\ Begins(d.trail, e.trail) /\ CurrentLevel(e.trail) = CurrentLevel(d.trail)
    <3> DEFINE type == "BINARY"
    <3>1. by \in Int /\ type \in {"DECISION", "UNIT", "BINARY", "CLAUSE"} /\ u = Enqueued(d.trail, l, level, type, by)
      BY <2>6, LiteralFacts
    <3>2. level >= CurrentLevel(d.trail) /\ level <= Len(d.trail) + 1
      BY <1>1, <2>3
    <3> HIDE DEF type, level
    <3>3. ~IsAssigned(d.trail, l)
      BY <2>6
    <3>4. IsTrail(u) /\ Begins(d.trail, u) /\ CurrentLevel(u) = level
      BY <1>1, <2>3, <3>1, <3>2, <3>3, EnqueuedFacts
    <3>5. e \in Databases /\ e.trail = u /\ e.clauses = g.clauses /\ Attached(e) = Attached(g)
      BY <2>1, <2>6, <3>4, WithTrail DEF IsTrail
    <3> QED
      BY <2>1, <3>4, <3>5 DEF level
  <2> QED
    BY <2>4, <2>5, <2>6
<1> QED
  BY <1>3, <1>4

(* The database after a step.                                              *)
LEMMA NowBecomes ==
  ASSUME NEW n, n \in Databases, DatabaseBecomes(n)
  PROVE  /\ Now' = n /\ clauses' = n.clauses /\ trail' = n.trail /\ watchers' = n.watchers
         /\ implications' = n.implications
<1>1. /\ clauses' = n.clauses /\ watchers' = n.watchers
      /\ implications' = n.implications /\ trail' = n.trail
  BY DEF DatabaseBecomes
<1>2. Now' = [clauses |-> n.clauses, watchers |-> n.watchers, implications |-> n.implications, trail |-> n.trail]
  BY <1>1 DEF Now
<1>3. n = [clauses |-> n.clauses, watchers |-> n.watchers, implications |-> n.implications, trail |-> n.trail]
  BY DEF Databases
<1> QED
  BY <1>1, <1>2, <1>3

(* StillRemovable() are attached clauses.                                  *)
LEMMA RemovableStays ==
  ASSUME NEW d, d \in Databases, removable \subseteq 1..Len(d.clauses)
  PROVE  StillRemovable(d) \subseteq Attached(d)
BY DEF StillRemovable, Attached

(* A clause is learned after a backjump.                                   *)
LEMMA LearnClauseIsOK ==
  ASSUME NEW d, DatabaseOK(d), NEW literals, Asserting(d.trail, literals), NEW is_redundant,
         removable \subseteq 1..Len(d.clauses), LearnClause(d, literals, is_redundant)
  PROVE  /\ DatabaseOK(Now') /\ Begins(d.trail, trail') /\ removable' \subseteq Attached(Now)'
<1> DEFINE t == d.trail
           l == literals[1]
<1>1. d \in Databases /\ IsTrail(t) /\ Len(t) \in Nat /\ CurrentLevel(t) \in Nat
  BY TrailEntries, CurrentLevelFacts DEF DatabaseOK
<1>2. /\ literals \in Seq(Literals) /\ literals # <<>> /\ Distinct(literals) /\ ~IsAssigned(t, l)
      /\ Len(literals) = 1 => CurrentLevel(t) = 0
  BY DEF Asserting
<1>3. Len(literals) \in Nat /\ Len(literals) > 0
  BY <1>2
<1>4. \A i \in 1..Len(literals) : literals[i] \in Literals
  BY <1>2
<1>5. l \in Literals
  BY <1>3, <1>4
<1> HIDE DEF l
<1>6. StillRemovable(d) \subseteq Attached(d)
  BY <1>1, RemovableStays
<1>7. ASSUME Len(literals) = 1,
             DatabaseBecomes([d EXCEPT !.trail = Enqueued(@, literals[1], 0, "UNIT", 0)]),
             removable' = StillRemovable(d)
      PROVE  DatabaseOK(Now') /\ Begins(d.trail, trail') /\ removable' \subseteq Attached(Now)'
  <2> DEFINE level == 0
             type == "UNIT"
             u == Enqueued(t, l, level, type, 0)
             n == WithTrailOf(d, u)
  <2>1. u = Enqueued(t, l, level, type, 0) /\ n = WithTrailOf(d, u)
    OBVIOUS
  <2>2. level \in Nat /\ level >= CurrentLevel(t) /\ level <= Len(t) + 1
        /\ ((type = "DECISION" /\ level > 0) \/ (type = "UNIT" /\ level = 0))
    BY <1>1, <1>2, <1>7
  <2>3. [d EXCEPT !.trail = Enqueued(@, literals[1], 0, "UNIT", 0)] = n
    BY DEF WithTrailOf, l
  <2> HIDE DEF n, u, level, type
  <2>4. ~IsAssigned(t, l)
    BY <1>2
  <2>5. DatabaseOK(n) /\ Begins(t, u) /\ n.trail = u /\ Attached(n) = Attached(d)
    BY <1>5, <2>1, <2>2, <2>4, FreeEntry
  <2>6. n \in Databases
    BY <2>5 DEF DatabaseOK
  <2>7. DatabaseBecomes(n)
    BY <1>7, <2>3
  <2>8. Now' = n /\ trail' = n.trail
    BY <2>6, <2>7, NowBecomes
  <2>9. Attached(Now)' = Attached(n)
    BY <2>8 DEF Attached, IsRemoved
  <2> QED
    BY <1>6, <1>7, <2>5, <2>8, <2>9
<1>8. ASSUME Len(literals) = 2, NEW n, n = AddBinaryClause(d, literals[1], literals[2]), DatabaseBecomes(n),
             removable' = StillRemovable(d)
      PROVE  DatabaseOK(Now') /\ Begins(d.trail, trail') /\ removable' \subseteq Attached(Now)'
  <2> DEFINE m == literals[2]
  <2>1. m \in Literals /\ l # m
    BY <1>2, <1>4, <1>8 DEF Distinct, l
  <2>2. n = AddBinaryClause(d, l, m)
    BY <1>8 DEF l
  <2> HIDE DEF m
  <2>3. DatabaseOK(n)
    BY <1>5, <2>1, <2>2, AddBinaryClauseIsOK
  <2>4. n \in Databases /\ Attached(n) = Attached(d) /\ Begins(t, n.trail)
    BY <1>5, <2>1, <2>2, AddBinaryGrows
  <2>5. Now' = n /\ trail' = n.trail
    BY <1>8, <2>4, NowBecomes
  <2>6. Attached(Now)' = Attached(n)
    BY <2>5 DEF Attached, IsRemoved
  <2> QED
    BY <1>6, <1>8, <2>3, <2>4, <2>5, <2>6
<1>9. ASSUME Len(literals) > 2, NEW forgotten, forgotten \subseteq MayBeForgotten(d),
             NEW n, n = Attach(Detach(d, forgotten), literals), DatabaseBecomes(n),
             removable' = (StillRemovable(d) \ forgotten) \cup (IF is_redundant THEN {Len(clauses')} ELSE {})
      PROVE  DatabaseOK(Now') /\ Begins(d.trail, trail') /\ removable' \subseteq Attached(Now)'
  <2> DEFINE g == Detach(d, forgotten)
             new == Len(g.clauses) + 1
  <2>1. NotReasons(t, forgotten)
    BY <1>9, ForgottenAreNotReasons
  <2>2. g = Detach(d, forgotten) /\ n = Attach(g, literals) /\ new = Len(g.clauses) + 1
    BY <1>9
  <2> HIDE DEF g, new
  <2>3. DatabaseOK(g)
    BY <2>1, <2>2, DetachIsOK DEF NotReasons
  <2>4. g.trail = t /\ Attached(g) = Attached(d) \ forgotten
    BY <1>1, <2>2, DetachFields
  <2>5. Len(literals) >= 3
    BY <1>3, <1>9
  <2>6. \E i \in 1..Len(literals) : ~IsFalse(g.trail, literals[i])
    <3>1. 1 \in 1..Len(literals)
      BY <1>3
    <3> QED
      BY <1>2, <2>4, <3>1 DEF IsAssigned, l
  <2>7. /\ DatabaseOK(n) /\ Begins(t, n.trail) /\ Len(n.clauses) = new
        /\ Attached(n) = Attached(g) \cup {new}
    <3>1. /\ DatabaseOK(n) /\ Begins(g.trail, n.trail) /\ Len(n.clauses) = new
          /\ Attached(n) = Attached(g) \cup {new}
      BY <1>2, <2>2, <2>3, <2>5, <2>6, AttachIsOK
    <3> QED
      BY <2>4, <3>1
  <2>8. n \in Databases
    BY <2>7 DEF DatabaseOK
  <2>9. Now' = n /\ trail' = n.trail /\ clauses' = n.clauses
    BY <1>9, <2>8, NowBecomes
  <2>10. Attached(Now)' = Attached(n)
    BY <2>9 DEF Attached, IsRemoved
  <2>11. removable' \subseteq Attached(n)
    BY <1>6, <1>9, <2>4, <2>7, <2>9
  <2> QED
    BY <2>7, <2>9, <2>10, <2>11
<1>10. \/ /\ Len(literals) = 1
          /\ DatabaseBecomes([d EXCEPT !.trail = Enqueued(@, literals[1], 0, "UNIT", 0)])
          /\ removable' = StillRemovable(d)
       \/ /\ Len(literals) = 2
          /\ \E n \in {AddBinaryClause(d, literals[1], literals[2])} : DatabaseBecomes(n)
          /\ removable' = StillRemovable(d)
       \/ /\ Len(literals) > 2
          /\ \E forgotten \in SUBSET MayBeForgotten(d) :
               /\ \E n \in {Attach(Detach(d, forgotten), literals)} : DatabaseBecomes(n)
               /\ removable' = (StillRemovable(d) \ forgotten)
                                  \cup (IF is_redundant THEN {Len(clauses')} ELSE {})
  BY DEF LearnClause
<1> QED
  BY <1>7, <1>8, <1>9, <1>10

-----------------------------------------------------------------------------
(* What an assignment satisfies: a clause, the literals that are fixed, and*)
(* all that a database says.                                               *)
Satisfies(s, literals) == \E l \in ToSet(literals) : l \in s
SatisfiesFixed(s, t) == \A i \in 1..Len(t) : t[i].level = 0 => t[i].literal \in s
SatisfiesGraph(s, d) == \A l, m \in Literals : m \in ToSet(d.implications[l]) /\ l \in s => m \in s
Models(s, d) ==
  /\ \A c \in Attached(d) : Satisfies(s, d.clauses[c])
  /\ SatisfiesGraph(s, d) /\ SatisfiesFixed(s, d.trail)

KnownBy(s) ==
  /\ Models(s, Now) /\ status # "INFEASIBLE"
  /\ status \in Running /\ conflict # <<>> => Satisfies(s, conflict)
KnownOK == \A s \in SolutionsOf(Problem) : KnownBy(s)

(* An assignment has each literal or its negation.                         *)
LEMMA AssignmentFacts ==
  ASSUME NEW s \in Assignments
  PROVE  s \subseteq Literals /\ \A l \in Literals : l \in s <=> -l \notin s
<1>1. PICK f \in [Variables -> BOOLEAN] : s = {IF f[v] THEN v ELSE -v : v \in Variables}
  BY DEF Assignments
<1>2. Variables \subseteq Nat \ {0}
  BY SatAssumption
<1>3. s \subseteq Literals
  BY <1>1, <1>2 DEF Literals
<1>4. \A v \in Variables : v \in s <=> f[v]
  BY <1>1, <1>2
<1>5. \A v \in Variables : -v \in s <=> ~f[v]
  BY <1>1, <1>2
<1>6. ASSUME NEW l \in Literals PROVE l \in s <=> -l \notin s
  <2>1. CASE l \in Variables
    BY <1>4, <1>5, <2>1
  <2>2. CASE l \notin Variables
    <3>1. PICK v \in Variables : l = -v
      BY <2>2 DEF Literals
    <3>2. -l = v
      BY <1>2, <3>1
    <3> QED
      BY <1>4, <1>5, <3>1, <3>2
  <2> QED
    BY <2>1, <2>2
<1> QED
  BY <1>3, <1>6

(* A literal that is false at level zero is not in an assignment that has  *)
(* the fixed literals.                                                     *)
LEMMA FalseForAssignment ==
  ASSUME NEW s \in Assignments, NEW t, IsTrail(t), SatisfiesFixed(s, t), NEW l \in Literals,
         IsFalse(t, l), LevelOf(t, l) = 0
  PROVE  l \notin s
<1>1. PICK i \in 1..Len(t) : t[i].literal = -l
  BY DEF IsFalse, IsTrue
<1>2. t[i].level = 0
  BY <1>1, TrailFacts
<1>3. -l \in s
  BY <1>1, <1>2 DEF SatisfiesFixed
<1> QED
  BY <1>3, AssignmentFacts

(* While the current level is zero nothing else is false or true.          *)
LEMMA LevelZeroLiterals ==
  ASSUME NEW t, IsTrail(t), CurrentLevel(t) = 0
  PROVE  /\ \A i \in 1..Len(t) : t[i].level = 0
         /\ \A l \in Literals : IsAssigned(t, l) => LevelOf(t, l) = 0
<1>1. ASSUME NEW i \in 1..Len(t) PROVE t[i].level = 0
  BY CurrentLevelFacts, TrailEntries
<1>2. ASSUME NEW l \in Literals, IsAssigned(t, l) PROVE LevelOf(t, l) = 0
  BY <1>1, <1>2, TrailFacts
<1> QED
  BY <1>1, <1>2

(* So at level zero the trail agrees with the assignment.                  *)
LEMMA AssignedForAssignment ==
  ASSUME NEW s \in Assignments, NEW t, IsTrail(t), SatisfiesFixed(s, t), CurrentLevel(t) = 0
  PROVE  /\ \A l \in Literals : IsTrue(t, l) => l \in s
         /\ \A l \in Literals : IsFalse(t, l) => l \notin s
<1>1. ASSUME NEW l \in Literals, IsFalse(t, l) PROVE l \notin s
  <2>1. LevelOf(t, l) = 0
    BY <1>1, LevelZeroLiterals DEF IsAssigned
  <2> QED
    BY <1>1, <2>1, FalseForAssignment
<1>2. ASSUME NEW l \in Literals, IsTrue(t, l) PROVE l \in s
  <2>1. PICK i \in 1..Len(t) : t[i].literal = l
    BY <1>2 DEF IsTrue
  <2> QED
    BY <2>1, LevelZeroLiterals DEF SatisfiesFixed
<1> QED
  BY <1>1, <1>2

(* A literal is enqueued: at level zero, one that the assignment has.      *)
LEMMA EnqueuedFollows ==
  ASSUME NEW s, NEW t, IsTrail(t), SatisfiesFixed(s, t), NEW l \in Literals, ~IsAssigned(t, l),
         NEW level \in Nat, level >= CurrentLevel(t), level <= Len(t) + 1,
         NEW type \in {"DECISION", "UNIT", "BINARY", "CLAUSE"}, NEW by \in Int,
         level = 0 => l \in s,
         NEW u, u = Enqueued(t, l, level, type, by)
  PROVE  SatisfiesFixed(s, u)
<1>1. ASSUME NEW i \in 1..Len(u), u[i].level = 0 PROVE u[i].literal \in s
  <2>1. CASE i \in 1..Len(t)
    <3>1. u[i] = t[i]
      BY <2>1, EnqueuedFacts
    <3> QED
      BY <1>1, <2>1, <3>1 DEF SatisfiesFixed
  <2>2. CASE i = Len(u)
    <3>1. u[i].literal = l /\ u[i].level = level
      BY <2>2, EnqueuedFacts
    <3> QED
      BY <1>1, <3>1
  <2>3. i \in 1..Len(t) \/ i = Len(u)
    BY EnqueuedFacts
  <2> QED
    BY <2>1, <2>2, <2>3
<1> QED
  BY <1>1 DEF SatisfiesFixed
-----------------------------------------------------------------------------
(* Propagate() of the implication graph: what is propagated follows from   *)
(* the graph, and a conflict is satisfied.                                 *)
Propagates(s, r) ==
  SatisfiesFixed(s, r.trail) /\ (r.conflict # <<>> => Satisfies(s, r.conflict))

(* One implication.                                                        *)
LEMMA ImpliedFollows ==
  ASSUME NEW s \in Assignments, NEW d, DatabaseOK(d), SatisfiesGraph(s, d),
         NEW r, ImpliedOK(d, r), Propagates(s, r),
         NEW by \in Literals, IsTrue(r.trail, by),
         NEW l \in ToSet(d.implications[by]), NEW e, e = Implied(r, by, l)
  PROVE  Propagates(s, e)
<1> DEFINE t == r.trail
           z == -by
           u == Enqueued(t, l, CurrentLevel(t), "BINARY", z)
<1>1. d \in Databases /\ r \in Propagateds /\ IsTrail(t) /\ Len(t) \in Nat
  BY ImpliedTrail DEF DatabaseOK
<1>2. l \in Literals /\ z \in Literals /\ z \in Int
  BY <1>1, DatabaseTypes, ToSetFacts, LiteralFacts
<1>3. SatisfiesFixed(s, t)
  BY DEF Propagates
<1>4. by \in s => l \in s
  BY <1>2 DEF SatisfiesGraph
<1>5. CASE r.conflict # <<>> \/ IsTrue(t, l)
  BY <1>5 DEF Implied
<1>6. CASE r.conflict = <<>> /\ ~IsTrue(t, l) /\ IsFalse(t, l)
  <2>1. e = [r EXCEPT !.conflict = <<-by, l>>]
    BY <1>6 DEF Implied
  <2> DEFINE w == <<z, l>>
  <2>2. e.trail = t /\ e.conflict = w
    BY <1>1, <2>1 DEF Propagateds
  <2>3. z \in s \/ l \in s
    BY <1>4, AssignmentFacts
  <2>4. w \in Seq(Literals) /\ Len(w) = 2 /\ w[1] = z /\ w[2] = l
    BY <1>2
  <2> HIDE DEF z, w
  <2>5. z \in ToSet(w) /\ l \in ToSet(w)
    BY <2>4, ToSetFacts
  <2> QED
    BY <1>3, <2>2, <2>3, <2>5 DEF Propagates, Satisfies
<1>7. CASE r.conflict = <<>> /\ ~IsTrue(t, l) /\ ~IsFalse(t, l)
  <2>1. e = [r EXCEPT !.trail = u]
    BY <1>7 DEF Implied
  <2>2. e.trail = u /\ e.conflict = r.conflict
    BY <1>1, <2>1 DEF Propagateds
  <2>3. ~IsAssigned(t, l)
    BY <1>7 DEF IsAssigned
  <2>4. CurrentLevel(t) \in Nat /\ CurrentLevel(t) <= Len(t) + 1 /\ CurrentLevel(t) >= CurrentLevel(t)
    BY <1>1, CurrentLevelFacts
  <2>5. CurrentLevel(t) = 0 => l \in s
    BY <1>1, <1>3, <1>4, AssignedForAssignment
  <2>6. u = Enqueued(t, l, CurrentLevel(t), "BINARY", z)
    OBVIOUS
  <2> HIDE DEF u, z
  <2>7. SatisfiesFixed(s, u)
    BY <1>1, <1>2, <1>3, <2>3, <2>4, <2>5, <2>6, EnqueuedFollows
  <2> QED
    BY <1>7, <2>2, <2>7 DEF Propagates
<1> QED
  BY <1>5, <1>6, <1>7

(* All implications of a literal.                                          *)
LEMMA AllImpliedFollows ==
  ASSUME NEW s \in Assignments, NEW d, DatabaseOK(d), SatisfiesGraph(s, d),
         NEW r, ImpliedOK(d, r), Propagates(s, r),
         NEW by \in Literals, IsTrue(r.trail, by),
         NEW list, list = d.implications[by], NEW e, e = AllImplied(r, by, list)
  PROVE  Propagates(s, e)
<1>1. d \in Databases /\ list \in Seq(Literals) /\ Len(list) \in Nat
  BY DatabaseTypes DEF DatabaseOK
<1>2. PICK f : /\ f[0] = r
               /\ \A i \in 1..Len(list) : f[i] = Implied(f[i - 1], by, list[i])
               /\ AllImplied(r, by, list) = f[Len(list)]
  BY <1>1, ImpliedLoop
<1> DEFINE P(i) == ImpliedOK(d, f[i]) /\ IsTrue(f[i].trail, by) /\ Propagates(s, f[i])
           S == {i \in Nat : i <= Len(list) => P(i)}
<1>3. 0 \in S
  BY <1>2
<1>4. \A i \in Nat : i \in S => i + 1 \in S
  <2> SUFFICES ASSUME NEW i \in Nat, P(i), i + 1 <= Len(list) PROVE P(i + 1)
    BY <1>1
  <2> DEFINE before == f[i]
             after == f[i + 1]
             l == list[i + 1]
  <2>1. i + 1 \in 1..Len(list) /\ (i + 1) - 1 = i
    BY <1>1
  <2>2. after = Implied(before, by, l) /\ l \in ToSet(list)
    BY <1>1, <1>2, <2>1, ToSetFacts
  <2>3. ImpliedOK(d, before) /\ IsTrue(before.trail, by) /\ Propagates(s, before)
    OBVIOUS
  <2>4. l \in ToSet(d.implications[by])
    BY <2>2
  <2> HIDE DEF before, after, l
  <2>5. ImpliedOK(d, after) /\ Begins(before.trail, after.trail)
    BY <2>2, <2>3, <2>4, ImpliedIsOK
  <2>6. Propagates(s, after)
    BY <2>2, <2>3, <2>4, ImpliedFollows
  <2>7. IsTrue(after.trail, by)
    BY <1>1, <2>3, <2>5, ImpliedTrail, BeginningFacts
  <2> QED
    BY <2>5, <2>6, <2>7 DEF after
<1>5. Len(list) \in S
  <2> HIDE DEF S
  <2> QED
    BY <1>1, <1>3, <1>4, SetInduction
<1> QED
  BY <1>1, <1>2, <1>5

(* One more entry of the trail.                                            *)
LEMMA PropagatedNextFollows ==
  ASSUME NEW s \in Assignments, NEW d, DatabaseOK(d), SatisfiesGraph(s, d), NEW first \in Nat,
         NEW r, PropagationOK(d, first, r), Propagates(s, r),
         NEW e, e = PropagatedNext(d, r)
  PROVE  Propagates(s, e)
<1>1. d \in Databases /\ ImpliedOK(d, r)
  BY DEF DatabaseOK, PropagationOK
<1>2. /\ IsTrail(r.trail) /\ Len(r.trail) \in Nat /\ r \in Propagateds
      /\ r.conflict \in Seq(Literals) /\ r.index \in Nat /\ r.index \in first..Len(r.trail)
  BY <1>1, ImpliedTrail DEF PropagationOK
<1>3. CASE r.conflict # <<>> \/ r.index = Len(r.trail)
  BY <1>3 DEF PropagatedNext
<1>4. CASE r.conflict = <<>> /\ r.index # Len(r.trail)
  <2> DEFINE k == r.index + 1
             by == r.trail[k].literal
             list == d.implications[by]
             q == [r EXCEPT !.index = @ + 1]
  <2>1. e = AllImplied(q, by, list)
    BY <1>4 DEF PropagatedNext
  <2>2. k \in 1..Len(r.trail) /\ by \in Literals /\ k \in Nat
    <3>1. k \in 1..Len(r.trail) /\ k \in Nat
      BY <1>2, <1>4
    <3> QED
      BY <1>2, <3>1, TrailEntries
  <2>3. IsTrue(r.trail, by)
    BY <2>2 DEF IsTrue
  <2>4. q \in Propagateds /\ q.trail = r.trail /\ q.conflict = <<>> /\ q.index = k
    BY <1>2, <1>4 DEF Propagateds
  <2>5. ImpliedOK(d, q) /\ Propagates(s, q)
    BY <1>1, <2>4 DEF ImpliedOK, Propagates
  <2>6. list = d.implications[by] /\ IsTrue(q.trail, by) /\ by \in Literals
    BY <2>2, <2>3, <2>4
  <2> HIDE DEF q, k, by, list
  <2> QED
    BY <2>1, <2>5, <2>6, AllImpliedFollows
<1> QED
  BY <1>3, <1>4

(* All of the propagation.                                                 *)
LEMMA PropagationsFollow ==
  ASSUME NEW s \in Assignments, NEW d, DatabaseOK(d), SatisfiesGraph(s, d), SatisfiesFixed(s, d.trail),
         NEW first \in Nat, first <= Len(d.trail),
         NEW r, r = Propagations(d, first)[Cardinality(Variables)]
  PROVE  Propagates(s, r)
<1> DEFINE n == Cardinality(Variables)
<1>1. d \in Databases /\ IsTrail(d.trail) /\ d.trail \in Seq(Entries) /\ Len(d.trail) \in Nat
  BY TrailEntries DEF DatabaseOK, IsTrail
<1>2. n \in Nat /\ first <= n
  BY <1>1, LiteralsAreFinite, TrailIsBounded
<1>3. PICK f : /\ f[first] = [trail |-> d.trail, conflict |-> <<>>, index |-> first]
               /\ \A i \in (first + 1)..n : f[i] = PropagatedNext(d, f[i - 1])
               /\ Propagations(d, first) = f
  BY <1>2, PropagationsLoop
<1> HIDE DEF n
<1> DEFINE P(i) == PropagationOK(d, first, f[i]) /\ Propagates(s, f[i])
           S == {i \in Nat : first + i <= n => P(first + i)}
<1>4. P(first)
  <2>1. /\ f[first].trail = d.trail /\ f[first].conflict = <<>> /\ f[first].index = first
        /\ f[first] \in Propagateds
    BY <1>1, <1>3 DEF Propagateds
  <2>2. WithTrailOf(d, d.trail) = d
    BY <1>1 DEF WithTrailOf, Databases
  <2>3. GrownSince(d, d.trail, "BINARY")
    BY <1>1 DEF GrownSince, Begins
  <2>4. ImpliedOK(d, f[first])
    BY <2>1, <2>2, <2>3 DEF ImpliedOK
  <2>5. (first + 1)..first = {} /\ first \in first..Len(d.trail)
    BY <1>1
  <2> QED
    BY <2>1, <2>4, <2>5 DEF PropagationOK, Propagates
<1>5. 0 \in S
  BY <1>4
<1>6. \A i \in Nat : i \in S => i + 1 \in S
  <2> SUFFICES ASSUME NEW i \in Nat, i \in S, first + (i + 1) <= n
               PROVE  P(first + (i + 1))
    OBVIOUS
  <2>1. /\ first + (i + 1) \in (first + 1)..n /\ (first + (i + 1)) - 1 = first + i
        /\ P(first + i)
    BY <1>2
  <2>2. f[first + (i + 1)] = PropagatedNext(d, f[first + i])
    BY <1>3, <2>1
  <2> HIDE DEF S
  <2>3. PropagationOK(d, first, f[first + (i + 1)])
    BY <2>1, <2>2, PropagatedNextIsOK
  <2>4. Propagates(s, f[first + (i + 1)])
    BY <2>1, <2>2, PropagatedNextFollows
  <2> QED
    BY <2>3, <2>4
<1>7. n - first \in Nat /\ first + (n - first) = n
  BY <1>2
<1>8. P(n)
  <2> HIDE DEF S
  <2>1. n - first \in S
    BY <1>5, <1>6, <1>7, SetInduction
  <2> QED
    BY <1>2, <1>7, <2>1 DEF S
<1> QED
  BY <1>3, <1>8 DEF n
-----------------------------------------------------------------------------
(* PropagateOnFalse(): what a clause propagates follows from it.           *)
SatisfiesClauses(s, d) == \A c \in Attached(d) : Satisfies(s, d.clauses[c])

(* A clause that keeps its literals stays satisfied.                       *)
LEMMA SameClausesAreSatisfied ==
  ASSUME NEW s, NEW d, NEW q, SameClausesSince(d, q)
  PROVE  SatisfiesClauses(s, d) <=> SatisfiesClauses(s, q)
<1>1. Attached(q) = Attached(d) /\ \A c \in Attached(d) : \A x : x \in ToSet(q.clauses[c]) <=> x \in ToSet(d.clauses[c])
  BY DEF SameClausesSince, Reordered
<1> QED
  BY <1>1 DEF SatisfiesClauses, Satisfies

(* One watcher.                                                            *)
LEMMA InspectionFollows ==
  ASSUME NEW a \in Assignments, NEW d \in Databases, SatisfiesClauses(a, d),
         NEW F \in Literals, NEW list \in Seq(Watchers), NEW i \in 1..Len(list),
         IsFalse(d.trail, F), IsTrail(d.trail), DistinctClauses(list),
         NEW r, InspectionOK(d, F, list, r, i - 1), SatisfiesFixed(a, r.trail),
         NEW e, e = InspectedNext(r, list[i], F)
  PROVE  SatisfiesFixed(a, e.trail)
<1> DEFINE w == list[i]
           c == w.clause
           q == AsDatabase(d, r)
           s == r.clauses[c]
           other == Other(s, F)
<1>1. /\ r \in Inspecteds /\ BodyOK(q) /\ RestOK(q, F, r.kept, list, i - 1)
      /\ GrownSince(d, r.trail, "CLAUSE") /\ SameClausesSince(d, q)
  BY DEF InspectionOK
<1>2. w \in Watchers
  OBVIOUS
<1>3. q = AsDatabase(d, r) /\ c = w.clause /\ other = Other(s, F) /\ s = r.clauses[c]
  OBVIOUS
<1> HIDE DEF q
<1>4. q \in Databases /\ IsTrail(q.trail) /\ ClausesOK(q) /\ q.clauses = r.clauses /\ q.trail = r.trail
  BY <1>1, <1>3, AsDatabaseFields DEF BodyOK
<1>5. WatcherOK(q, F, w)
  <2>1. i \in ((i - 1) + 1)..Len(list)
    OBVIOUS
  <2> QED
    BY <1>1, <2>1 DEF RestOK
<1>6. c \in Attached(q) /\ (F = s[1] \/ F = s[2])
  BY <1>4, <1>5 DEF WatcherOK, Watches
<1> HIDE DEF w, c, other
<1>7. /\ s \in Seq(Literals) /\ Len(s) >= 3 /\ s[1] \in Literals /\ s[2] \in Literals
  BY <1>4, <1>6, AttachedClause
<1>8. other \in Literals /\ c \in Nat
  BY <1>3, <1>4, <1>6, <1>7, AttachedClause DEF Other
<1>9. CASE r.conflict # <<>>
  <2>1. e = Kept(r, w)
    BY <1>9 DEF InspectedNext, w
  <2> QED
    BY <1>1, <1>2, <2>1, KeptFields
<1>10. CASE r.conflict = <<>>
  <2>1. e = Inspected(r, w, F)
    BY <1>10 DEF InspectedNext, w
  <2>2. InspectedAs(r, w, w.clause, s, other, F, e)
    BY <1>1, <1>2, <1>3, <1>7, <2>1, InspectedCases
  <2>3. \/ e = Kept(r, w)
        \/ e = Kept(r, [w EXCEPT !.blocking = other])
        \/ \E k \in Candidates(r.trail, s) :
             e = Watching(r, c, WithOther(s, other, k, F), s[k], Watcher(c, other, k + 1))
        \/ e = Failing(Kept(r, w), s, c)
        \/ /\ ~IsAssigned(r.trail, other) /\ Candidates(r.trail, s) = {}
           /\ e = PropagatedBy(Kept(r, w), c, Propagating(s, other, F),
                     Enqueued(r.trail, other, CurrentLevel(r.trail), "CLAUSE", c))
    BY <1>3, <2>2 DEF InspectedAs
  <2>4. CASE e = Kept(r, w)
    BY <1>1, <1>2, <2>4, KeptFields
  <2>5. CASE e = Kept(r, [w EXCEPT !.blocking = other])
    <3> DEFINE x == [w EXCEPT !.blocking = other]
    <3>1. x \in Watchers /\ e = Kept(r, x)
      BY <1>2, <1>8, <2>5 DEF Watchers
    <3> HIDE DEF x
    <3> QED
      BY <1>1, <3>1, KeptFields
  <2>6. ASSUME NEW k \in Candidates(r.trail, s),
               e = Watching(r, c, WithOther(s, other, k, F), s[k], Watcher(c, other, k + 1))
        PROVE  SatisfiesFixed(a, e.trail)
    <3> DEFINE u == WithOther(s, other, k, F)
               x == Watcher(c, other, k + 1)
    <3>1. e = [r EXCEPT !.clauses[c] = u, !.watchers[s[k]] = Append(@, x)]
      BY <2>6 DEF Watching
    <3> HIDE DEF u, x
    <3>2. e.trail = r.trail
      BY <1>1, <3>1 DEF Inspecteds
    <3> QED
      BY <3>2
  <2>7. CASE e = Failing(Kept(r, w), s, c)
    <3> DEFINE k == Kept(r, w)
    <3>1. k \in Inspecteds /\ k.trail = r.trail
      BY <1>1, <1>2, KeptFields
    <3>2. e = Failing(k, s, c)
      BY <2>7
    <3> HIDE DEF k, s
    <3>3. e.trail = k.trail
      BY <3>1, <3>2 DEF Failing, Inspecteds
    <3> QED
      BY <3>1, <3>3
  <2>8. CASE /\ ~IsAssigned(r.trail, other) /\ Candidates(r.trail, s) = {}
             /\ e = PropagatedBy(Kept(r, w), c, Propagating(s, other, F),
                       Enqueued(r.trail, other, CurrentLevel(r.trail), "CLAUSE", c))
    <3> DEFINE k == Kept(r, w)
               t == r.trail
               v == Enqueued(t, other, CurrentLevel(t), "CLAUSE", c)
               u == Propagating(s, other, F)
    <3>1. k \in Inspecteds /\ k.trail = t
      BY <1>1, <1>2, KeptFields
    <3>2. e = [k EXCEPT !.clauses[c] = u, !.trail = v]
      BY <2>8 DEF PropagatedBy
    <3>3. v = Enqueued(t, other, CurrentLevel(t), "CLAUSE", c) /\ IsTrail(t) /\ Len(t) \in Nat /\ ~IsAssigned(t, other)
      BY <1>4, <2>8, TrailEntries
    <3>4. IsFalse(t, F)
      <4>1. Begins(d.trail, t)
        BY <1>1 DEF GrownSince
      <4> QED
        BY <3>3, <4>1, BeginningFacts
    <3>5. \A x \in ToSet(s) : x = F \/ x = other \/ IsFalse(t, x)
      <4>1. s \in Seq(Literals) /\ Candidates(t, s) = {} /\ (F = s[1] \/ F = s[2]) /\ other = Other(s, F)
        BY <1>3, <1>6, <1>7, <2>8
      <4> HIDE DEF s, t
      <4> QED
        BY <4>1, NoCandidates
    <3>6. Satisfies(a, s)
      <4>1. SatisfiesClauses(a, q)
        BY <1>1, SameClausesAreSatisfied
      <4> QED
        BY <1>3, <1>4, <1>6, <4>1 DEF SatisfiesClauses
    <3> HIDE DEF k, t, u, v
    <3>7. e.trail = v
      BY <3>1, <3>2 DEF Inspecteds
    <3>8. CurrentLevel(t) = 0 => other \in a
      <4> SUFFICES ASSUME CurrentLevel(t) = 0 PROVE other \in a
        OBVIOUS
      <4>1. SatisfiesFixed(a, t)
        BY DEF t
      <4>2. \A x \in Literals : IsFalse(t, x) => x \notin a
        BY <3>3, <4>1, AssignedForAssignment
      <4>3. \A x \in ToSet(s) : x \in Literals
        BY <1>7, ToSetFacts
      <4> QED
        BY <3>4, <3>5, <3>6, <4>2, <4>3 DEF Satisfies
    <3>9. CurrentLevel(t) \in Nat /\ CurrentLevel(t) <= Len(t) + 1 /\ CurrentLevel(t) >= CurrentLevel(t)
      BY <3>3, CurrentLevelFacts
    <3>10. c \in Int /\ SatisfiesFixed(a, t)
      BY <1>8 DEF t
    <3>11. SatisfiesFixed(a, v)
      BY <1>8, <3>3, <3>8, <3>9, <3>10, EnqueuedFollows
    <3> QED
      BY <3>7, <3>11
  <2> QED
    BY <2>3, <2>4, <2>5, <2>6, <2>7, <2>8
<1> QED
  BY <1>9, <1>10

(* All of them.                                                            *)
LEMMA InspectionsFollow ==
  ASSUME NEW a \in Assignments, NEW d, DatabaseOK(d), SatisfiesClauses(a, d), SatisfiesFixed(a, d.trail),
         NEW F \in Literals, IsFalse(d.trail, F),
         NEW list, list = d.watchers[F], NEW r, r = Inspections(d, list, F)[Len(list)]
  PROVE  SatisfiesFixed(a, r.trail)
<1>1. d \in Databases /\ IsTrail(d.trail) /\ WatchesOK(d) /\ list \in Seq(Watchers)
  BY DatabaseTypes DEF DatabaseOK
<1>2. Len(list) \in Nat /\ DistinctClauses(list)
  BY <1>1 DEF WatchesOK, DistinctClauses
<1>3. PICK f :
        /\ f[0] = [clauses |-> d.clauses, watchers |-> d.watchers, trail |-> d.trail,
                   kept |-> <<>>, conflict |-> <<>>, failing |-> 0]
        /\ \A i \in 1..Len(list) : f[i] = InspectedNext(f[i - 1], list[i], F)
        /\ Inspections(d, list, F) = f
  BY <1>2, InspectionsLoop
<1> DEFINE P(i) == InspectionOK(d, F, list, f[i], i) /\ SatisfiesFixed(a, f[i].trail)
           S == {i \in Nat : i <= Len(list) => P(i)}
<1>4. P(0)
  <2>1. InspectionOK(d, F, list, f[0], 0)
    BY <1>1, <1>3, InspectionsStart
  <2> QED
    BY <1>3, <2>1
<1>5. 0 \in S
  BY <1>4
<1>6. \A i \in Nat : i \in S => i + 1 \in S
  <2> SUFFICES ASSUME NEW i \in Nat, i \in S, i + 1 <= Len(list)
               PROVE  P(i + 1)
    OBVIOUS
  <2>1. i + 1 \in 1..Len(list) /\ (i + 1) - 1 = i /\ P(i)
    BY <1>2
  <2>2. f[i + 1] = InspectedNext(f[i], list[i + 1], F)
    BY <1>3, <2>1
  <2> HIDE DEF S
  <2> DEFINE j == i + 1
             e == f[j]
             before == f[i]
  <2>3. j \in 1..Len(list) /\ InspectionOK(d, F, list, before, j - 1) /\ e = InspectedNext(before, list[j], F)
        /\ SatisfiesFixed(a, before.trail)
    BY <2>1, <2>2
  <2> HIDE DEF j, e, before
  <2>4. InspectionOK(d, F, list, e, j)
    BY <1>1, <1>2, <2>3, InspectionIsOK
  <2>5. SatisfiesFixed(a, e.trail)
    BY <1>1, <1>2, <2>3, InspectionFollows
  <2> QED
    BY <2>4, <2>5 DEF e, j
<1>7. Len(list) \in S
  <2> HIDE DEF S
  <2> QED
    BY <1>2, <1>5, <1>6, SetInduction
<1> QED
  BY <1>2, <1>3, <1>7

(* PropagateOnFalse() as a whole: a conflict is an attached clause.        *)
LEMMA PropagateOnFalseFollows ==
  ASSUME NEW a \in Assignments, NEW d, DatabaseOK(d), Models(a, d), NEW F \in Literals, IsFalse(d.trail, F),
         NEW r, r = PropagateOnFalse(d, F), NEW e, e = AsDatabase(d, r)
  PROVE  Models(a, e) /\ (r.conflict # <<>> => Satisfies(a, r.conflict))
<1> DEFINE list == d.watchers[F]
           x == Inspections(d, list, F)[Len(list)]
<1>1. SatisfiesClauses(a, d) /\ SatisfiesGraph(a, d) /\ SatisfiesFixed(a, d.trail)
  BY DEF Models, SatisfiesClauses
<1>2. list = d.watchers[F] /\ x = Inspections(d, list, F)[Len(list)]
  OBVIOUS
<1>3. r = [x EXCEPT !.watchers[F] = x.kept]
  <2>1. r = The({[y EXCEPT !.watchers[F] = y.kept] : y \in {x}})
    BY DEF PropagateOnFalse
  <2> HIDE DEF x
  <2>2. {[y EXCEPT !.watchers[F] = y.kept] : y \in {x}} = {[x EXCEPT !.watchers[F] = x.kept]}
    OBVIOUS
  <2> QED
    BY <2>1, <2>2, TheOfOne
<1> HIDE DEF list, x
<1>4. x \in Inspecteds
  <2>1. InspectionOK(d, F, list, x, Len(list))
    BY <1>2, InspectionsAreOK
  <2> QED
    BY <2>1 DEF InspectionOK
<1>5. SatisfiesFixed(a, x.trail)
  BY <1>1, <1>2, InspectionsFollow
<1>6. r.trail = x.trail
  BY <1>3, <1>4 DEF Inspecteds
<1>7. /\ e.trail = r.trail /\ e.implications = d.implications /\ SameClausesSince(d, e)
      /\ r.conflict # <<>> => r.failing \in Attached(e) /\ r.conflict = e.clauses[r.failing]
  BY PropagateOnFalseIsOK
<1>8. SatisfiesClauses(a, e)
  BY <1>1, <1>7, SameClausesAreSatisfied
<1>9. SatisfiesGraph(a, e)
  BY <1>1, <1>7 DEF SatisfiesGraph
<1> QED
  BY <1>5, <1>6, <1>7, <1>8, <1>9 DEF Models, SatisfiesClauses
-----------------------------------------------------------------------------
(* The steps that the database changes by: what is added is satisfied, and *)
(* what is removed does no harm.                                           *)
LEMMA DetachedModels ==
  ASSUME NEW s, NEW d \in Databases, Models(s, d), NEW removed, NEW e, e = Detach(d, removed)
  PROVE  Models(s, e)
<1>1. /\ e.trail = d.trail /\ e.implications = d.implications /\ Attached(e) = Attached(d) \ removed
      /\ \A c \in Attached(e) : e.clauses[c] = d.clauses[c]
  BY DetachFields
<1> QED
  BY <1>1 DEF Models, SatisfiesGraph

(* Two literals, one of which is satisfied.                                *)
LEMMA BinaryModels ==
  ASSUME NEW s \in Assignments, NEW d, DatabaseOK(d), Models(s, d),
         NEW a \in Literals, NEW b \in Literals, a # b, a \in s \/ b \in s,
         NEW e, e = AddBinaryClause(d, a, b)
  PROVE  Models(s, e)
<1> DEFINE t == d.trail
           level == CurrentLevel(t)
           g == WithImplications(d, a, b)
<1>1. d \in Databases /\ IsTrail(t) /\ t \in Seq(Entries) /\ Len(t) \in Nat /\ SatisfiesFixed(s, t)
  BY TrailEntries DEF DatabaseOK, IsTrail, Models
<1>2. level \in Nat /\ level <= Len(t) + 1 /\ level >= level
  BY <1>1, CurrentLevelFacts
<1>3. CASE a = -b
  <2>1. e = d
    BY <1>3 DEF AddBinaryClause
  <2> QED
    BY <2>1
<1>4. CASE a # -b
  <2>1. \/ e = g
        \/ ~IsAssigned(t, b) /\ level # 0 /\ e = [g EXCEPT !.trail = Enqueued(t, b, level, "BINARY", a)]
        \/ ~IsAssigned(t, a) /\ level # 0 /\ e = [g EXCEPT !.trail = Enqueued(t, a, level, "BINARY", b)]
    <3>1. g = WithImplications(d, a, b)
      OBVIOUS
    <3> HIDE DEF g
    <3> QED
      BY <1>1, <1>4, <3>1, AddBinaryClauseCases
  <2>2. /\ g \in Databases /\ g.trail = t /\ g.clauses = d.clauses /\ Attached(g) = Attached(d)
        /\ \A l, m \in Literals : m \in ToSet(g.implications[l]) <=>
             m \in ToSet(d.implications[l]) \/ (l = -a /\ m = b) \/ (l = -b /\ m = a)
    <3>1. g = WithImplications(d, a, b)
      OBVIOUS
    <3> HIDE DEF g
    <3> QED
      BY <1>1, <3>1, WithImplicationsFields
  <2> HIDE DEF g, level, t
  <2>3. Models(s, g)
    <3>1. (-a \in s => b \in s) /\ (-b \in s => a \in s)
      BY AssignmentFacts
    <3>2. SatisfiesGraph(s, g)
      BY <2>2, <3>1 DEF Models, SatisfiesGraph
    <3> QED
      BY <2>2, <3>2 DEF Models, t
  <2>4. ASSUME NEW x \in Literals, NEW y \in Literals, ~IsAssigned(t, x), level # 0,
               e = [g EXCEPT !.trail = Enqueued(t, x, level, "BINARY", y)]
        PROVE  Models(s, e)
    <3> DEFINE u == Enqueued(t, x, level, "BINARY", y)
    <3>1. y \in Int /\ u = Enqueued(t, x, level, "BINARY", y) /\ e = [g EXCEPT !.trail = u]
      BY <2>4, LiteralFacts
    <3> HIDE DEF u
    <3>2. SatisfiesFixed(s, u)
      BY <1>1, <1>2, <2>4, <3>1, EnqueuedFollows DEF level
    <3>3. u \in Seq(Entries)
      BY <1>1, <1>2, <2>4, <3>1, EnqueuedFacts DEF level, IsTrail
    <3>4. e.trail = u /\ e.clauses = g.clauses /\ e.implications = g.implications /\ Attached(e) = Attached(g)
      BY <2>2, <3>1, <3>3, WithTrail
    <3> QED
      BY <2>3, <3>2, <3>4 DEF Models, SatisfiesGraph
  <2> QED
    BY <2>1, <2>3, <2>4
<1> QED
  BY <1>3, <1>4

(* A clause that is satisfied.                                             *)
LEMMA AttachedModels ==
  ASSUME NEW s \in Assignments, NEW d, DatabaseOK(d), Models(s, d),
         NEW literals \in Seq(Literals), Len(literals) >= 3, Distinct(literals), Satisfies(s, literals),
         \E i \in 1..Len(literals) : ~IsFalse(d.trail, literals[i]),
         NEW e, e = Attach(d, literals)
  PROVE  Models(s, e)
<1> DEFINE n == Len(d.clauses) + 1
           t == d.trail
           u == e.trail
           lits == e.clauses[n]
<1>1. /\ DatabaseOK(e) /\ Begins(t, u) /\ CurrentLevel(u) = CurrentLevel(t)
      /\ Attached(e) = Attached(d) \cup {n} /\ e.implications = d.implications
      /\ \A c \in 1..Len(d.clauses) : e.clauses[c] = d.clauses[c]
      /\ AttachedInOrder(t, literals, lits) /\ GrownByOne(t, u, lits)
  <2>1. n = Len(d.clauses) + 1
    OBVIOUS
  <2> HIDE DEF n
  <2> QED
    BY <2>1, AttachIsOK
<1>2. IsTrail(t) /\ IsTrail(u) /\ Len(t) \in Nat /\ Len(u) \in Nat
  BY <1>1, TrailEntries DEF DatabaseOK
<1>3. lits \in Seq(Literals) /\ Satisfies(s, lits) /\ Len(lits) >= 3
  BY <1>1 DEF AttachedInOrder, Reordered, Satisfies
<1> HIDE DEF lits, u, t, n
<1>4. SatisfiesFixed(s, t)
  BY DEF Models, t
<1>5. SatisfiesFixed(s, u)
  <2>1. CASE u = t
    BY <1>4, <2>1
  <2>2. CASE /\ IsFalse(t, lits[2]) /\ ~IsAssigned(t, lits[1])
             /\ Len(u) = Len(t) + 1 /\ u[Len(u)].literal = lits[1]
    <3>1. ASSUME u[Len(u)].level = 0 PROVE lits[1] \in s
      <4>1. CurrentLevel(t) = 0
        BY <1>1, <1>2, <2>2, <3>1, CurrentLevelFacts
      <4>2. \A i \in 2..Len(lits) : IsFalse(t, lits[i])
        BY <1>1, <2>2 DEF AttachedInOrder
      <4>3. \A i \in 1..Len(lits) : lits[i] \in Literals
        BY <1>3
      <4>4. \A l \in Literals : IsFalse(t, l) => l \notin s
        BY <1>2, <1>4, <4>1, AssignedForAssignment
      <4>5. PICK i \in 1..Len(lits) : lits[i] \in s
        BY <1>3, ToSetFacts DEF Satisfies
      <4>6. i \notin 2..Len(lits)
        BY <4>2, <4>3, <4>4, <4>5
      <4>7. i = 1
        BY <1>3, <4>5, <4>6
      <4> QED
        BY <4>5, <4>7
    <3>2. ASSUME NEW i \in 1..Len(u), u[i].level = 0 PROVE u[i].literal \in s
      <4>1. CASE i = Len(u)
        BY <2>2, <3>1, <3>2, <4>1
      <4>2. CASE i # Len(u)
        <5>1. i \in 1..Len(t)
          BY <1>2, <2>2, <4>2
        <5>2. u[i] = t[i]
          BY <1>1, <5>1 DEF Begins
        <5> QED
          BY <1>4, <3>2, <5>1, <5>2 DEF SatisfiesFixed
      <4> QED
        BY <4>1, <4>2
    <3> QED
      BY <3>2 DEF SatisfiesFixed
  <2> QED
    BY <1>1, <2>1, <2>2 DEF GrownByOne
<1>6. \A c \in Attached(e) : Satisfies(s, e.clauses[c])
  <2>1. \A c \in Attached(d) : c \in 1..Len(d.clauses)
    BY DEF Attached
  <2> QED
    BY <1>1, <1>3, <2>1 DEF Models, lits
<1>7. SatisfiesGraph(s, e)
  BY <1>1 DEF Models, SatisfiesGraph
<1> QED
  BY <1>5, <1>6, <1>7 DEF Models, u

(* AddProblemClause(), of a clause that is satisfied.                      *)
LEMMA ProblemClauseModels ==
  ASSUME NEW s \in Assignments, NEW d, DatabaseOK(d), Models(s, d), CurrentLevel(d.trail) = 0,
         NEW c, c \subseteq Literals, c \cap s # {},
         NEW e, e = AddProblemClause(d, c)
  PROVE  Models(s, e)
<1> DEFINE set == {l \in c : ~IsFalse(d.trail, l)}
           literals == Sorted(set)
<1>1. d \in Databases /\ IsTrail(d.trail) /\ Len(d.trail) \in Nat /\ SatisfiesFixed(s, d.trail)
  BY TrailEntries DEF DatabaseOK, Models
<1>2. CASE \E l \in c : IsTrue(d.trail, l) \/ -l \in c
  <2>1. e = d
    BY <1>2 DEF AddProblemClause
  <2> QED
    BY <2>1
<1>3. CASE ~\E l \in c : IsTrue(d.trail, l) \/ -l \in c
  <2>11. \A l \in c : l \in s => l \in set
    BY <1>1, AssignedForAssignment
  <2>10. \A l \in set : l \in c /\ ~IsFalse(d.trail, l)
    OBVIOUS
  <2>4. e = CASE Len(literals) = 1 -> [d EXCEPT !.trail = Enqueued(@, literals[1], 0, "UNIT", 0)]
              [] Len(literals) = 2 -> AddBinaryClause(d, literals[1], literals[2])
              [] OTHER -> Attach(d, literals)
    BY <1>3 DEF AddProblemClause
  <2> HIDE DEF set
  <2>1. /\ literals \in Seq(Literals) /\ Len(literals) \in Nat /\ ToSet(literals) = set /\ Distinct(literals)
    <3>1. set \subseteq Literals
      BY <2>10
    <3> QED
      BY <3>1, SortedFacts
  <2>2. Satisfies(s, literals)
    BY <2>11, <2>1 DEF Satisfies
  <2> HIDE DEF literals
  <2>3. Len(literals) >= 1
    BY <2>1, <2>2, ToSetFacts DEF Satisfies
  <2>5. \A l \in ToSet(literals) : l \in Literals /\ ~IsAssigned(d.trail, l)
    BY <1>3, <2>10, <2>1 DEF IsAssigned
  <2>6. \A i \in 1..Len(literals) : literals[i] \in ToSet(literals)
    BY <2>1, ToSetFacts
  <2>7. CASE Len(literals) = 1
    <3> DEFINE l == literals[1]
               level == 0
               type == "UNIT"
               by == 0
               t == d.trail
               u == Enqueued(t, l, level, type, by)
    <3>1. e = [d EXCEPT !.trail = u]
      BY <2>4, <2>7
    <3>2. l \in Literals /\ ~IsAssigned(t, l)
      BY <2>5, <2>6, <2>7
    <3>3. u = Enqueued(t, l, level, type, by) /\ level \in Nat /\ by \in Int /\ type \in {"DECISION", "UNIT", "BINARY", "CLAUSE"}
      OBVIOUS
    <3>4. level >= CurrentLevel(t) /\ level <= Len(t) + 1
      BY <1>1
    <3>5. l \in s
      <4>1. PICK i \in 1..Len(literals) : literals[i] \in s
        BY <2>1, <2>2, ToSetFacts DEF Satisfies
      <4>2. i = 1
        BY <2>7, <4>1
      <4> QED
        BY <4>1, <4>2
    <3>6. IsTrail(t) /\ SatisfiesFixed(s, t)
      BY <1>1
    <3> HIDE DEF u, level, type, by, l, t
    <3>7. SatisfiesFixed(s, u)
      BY <3>2, <3>3, <3>4, <3>5, <3>6, EnqueuedFollows
    <3>8. u \in Seq(Entries)
      BY <3>2, <3>3, <3>4, <3>6, EnqueuedFacts DEF IsTrail
    <3>9. e.trail = u /\ e.clauses = d.clauses /\ e.implications = d.implications /\ Attached(e) = Attached(d)
      BY <1>1, <3>1, <3>8, WithTrail
    <3> QED
      BY <3>7, <3>9 DEF Models, SatisfiesGraph
  <2>8. CASE Len(literals) = 2
    <3> DEFINE a == literals[1]
               b == literals[2]
    <3>1. e = AddBinaryClause(d, a, b)
      BY <2>4, <2>8
    <3>2. a \in Literals /\ b \in Literals /\ a # b
      BY <2>1, <2>5, <2>6, <2>8 DEF Distinct
    <3>3. a \in s \/ b \in s
      <4>1. PICK i \in 1..Len(literals) : literals[i] \in s
        BY <2>1, <2>2, ToSetFacts DEF Satisfies
      <4>2. i = 1 \/ i = 2
        BY <2>8, <4>1
      <4> QED
        BY <4>1, <4>2
    <3> HIDE DEF a, b
    <3> QED
      BY <3>1, <3>2, <3>3, BinaryModels
  <2>9. CASE Len(literals) >= 3
    <3>0. Len(literals) # 1 /\ Len(literals) # 2
      <4>1. \A k \in Nat : k >= 3 => k # 1 /\ k # 2
        OBVIOUS
      <4> QED
        BY <2>1, <2>9, <4>1, Zenon
    <3>1. e = Attach(d, literals)
      BY <2>4, <3>0
    <3>2. \E i \in 1..Len(literals) : ~IsFalse(d.trail, literals[i])
      <4>1. 1 \in 1..Len(literals)
        BY <2>9
      <4> QED
        BY <2>5, <2>6, <4>1 DEF IsAssigned
    <3> QED
      BY <2>1, <2>2, <2>9, <3>1, <3>2, AttachedModels
  <2> QED
    <3>0. \A k \in Nat : k >= 1 => k = 1 \/ k = 2 \/ k >= 3
      OBVIOUS
    <3>1. Len(literals) = 1 \/ Len(literals) = 2 \/ Len(literals) >= 3
      BY <2>1, <2>3, <3>0, Zenon
    <3> QED
      BY <3>1, <2>7, <2>8, <2>9
<1> QED
  BY <1>2, <1>3
-----------------------------------------------------------------------------
(* The simplification at level zero.                                       *)
(* One clause without its fixed literals, which are false.                 *)
LEMMA WithoutFixedModels ==
  ASSUME NEW a \in Assignments, NEW d, DatabaseOK(d), Models(a, d), CurrentLevel(d.trail) = 0,
         NEW c \in 1..Len(d.clauses), NEW e, e = WithoutFixed(d, c)
  PROVE  Models(a, e)
<1> DEFINE s == d.clauses[c]
           set == {l \in ToSet(s) : ~IsAssigned(d.trail, l)}
           literals == Only(s, set)
<1>1. d \in Databases /\ IsTrail(d.trail) /\ ClausesOK(d) /\ SatisfiesFixed(a, d.trail)
  BY DEF DatabaseOK, Models
<1>2. CASE IsRemoved(d, c)
  BY <1>2 DEF WithoutFixed
<1>3. CASE ~IsRemoved(d, c) /\ IsAlwaysTrue(d.trail, s)
  <2> DEFINE removed == {c}
  <2>1. e = Detach(d, removed)
    BY <1>3 DEF WithoutFixed
  <2> HIDE DEF removed
  <2> QED
    BY <1>1, <2>1, DetachedModels
<1>4. CASE ~IsRemoved(d, c) /\ ~IsAlwaysTrue(d.trail, s)
  <2>1. c \in Attached(d) /\ s \in Seq(Literals) /\ Distinct(s) /\ Satisfies(a, s)
    <3>1. c \in Attached(d)
      BY <1>4 DEF Attached
    <3> HIDE DEF set, literals
    <3> QED
      BY <1>1, <3>1, AttachedClause DEF Models
  <2>2. \A x \in ToSet(s) : ~IsTrue(d.trail, x)
    BY <1>4 DEF IsAlwaysTrue
  <2>3. /\ literals \in Seq(Literals) /\ Distinct(literals) /\ Len(literals) \in Nat
        /\ \A x : x \in ToSet(literals) <=> x \in ToSet(s) /\ ~IsAssigned(d.trail, x)
    <3>1. \A x : x \in ToSet(s) /\ x \in set <=> x \in ToSet(s) /\ ~IsAssigned(d.trail, x)
      OBVIOUS
    <3> HIDE DEF s, set
    <3>2. /\ literals \in Seq(Literals) /\ Distinct(literals)
          /\ \A x : x \in ToSet(literals) <=> x \in ToSet(s) /\ x \in set
      BY <2>1, OnlyFacts
    <3> HIDE DEF literals
    <3> QED
      BY <3>1, <3>2
  <2>4. e = IF Len(literals) = 2 THEN Detach(AddBinaryClause(d, literals[1], literals[2]), {c})
            ELSE WithClauseAs(d, c, literals)
    BY <1>4 DEF WithoutFixed, WithClauseAs, Replaced
  <2> HIDE DEF literals, set
  <2>5. Satisfies(a, literals)
    <3>1. PICK x \in ToSet(s) : x \in a
      BY <2>1 DEF Satisfies
    <3>2. x \in Literals
      BY <2>1, ToSetFacts
    <3>3. ~IsFalse(d.trail, x)
      BY <1>1, <3>1, <3>2, AssignedForAssignment
    <3>4. x \in ToSet(literals)
      BY <2>2, <2>3, <3>3 DEF IsAssigned
    <3> QED
      BY <3>1, <3>4 DEF Satisfies
  <2>6. CASE Len(literals) = 2
    <3> DEFINE x == literals[1]
               y == literals[2]
               g == AddBinaryClause(d, x, y)
               removed == {c}
    <3>1. e = Detach(g, removed)
      BY <2>4, <2>6
    <3>2. x \in Literals /\ y \in Literals /\ x # y
      <4>1. 1 \in 1..Len(literals) /\ 2 \in 1..Len(literals)
        BY <2>6
      <4>2. literals[1] # literals[2]
        BY <2>3, <4>1 DEF Distinct
      <4> QED
        BY <2>3, <4>1, <4>2
    <3>3. x \in a \/ y \in a
      <4>1. PICK i \in 1..Len(literals) : literals[i] \in a
        BY <2>3, <2>5, ToSetFacts DEF Satisfies
      <4>2. i = 1 \/ i = 2
        BY <2>6, <4>1
      <4> QED
        BY <4>1, <4>2
    <3>4. g = AddBinaryClause(d, x, y)
      OBVIOUS
    <3> HIDE DEF x, y, g, removed
    <3>5. Models(a, g)
      BY <3>2, <3>3, <3>4, BinaryModels
    <3>6. DatabaseOK(g)
      BY <3>2, <3>4, AddBinaryClauseIsOK
    <3> QED
      BY <3>1, <3>5, <3>6, DetachedModels DEF DatabaseOK
  <2>7. CASE Len(literals) # 2
    <3>1. e = WithClauseAs(d, c, literals)
      BY <2>4, <2>7
    <3>2. /\ e.trail = d.trail /\ e.implications = d.implications /\ Len(e.clauses) = Len(d.clauses)
          /\ e.clauses[c] = literals /\ \A k \in 1..Len(d.clauses) : k # c => e.clauses[k] = d.clauses[k]
      BY <1>1, <2>3, <3>1, ReplacedClause
    <3>3. ASSUME NEW k \in Attached(e) PROVE Satisfies(a, e.clauses[k])
      <4>1. k \in 1..Len(d.clauses) /\ e.clauses[k] # <<>>
        BY <3>2 DEF Attached, IsRemoved
      <4>2. CASE k = c
        BY <2>5, <3>2, <4>2
      <4>3. CASE k # c
        <5>1. k \in Attached(d) /\ e.clauses[k] = d.clauses[k]
          BY <3>2, <4>1, <4>3 DEF Attached, IsRemoved
        <5> QED
          BY <5>1 DEF Models
      <4> QED
        BY <4>2, <4>3
    <3> QED
      BY <3>2, <3>3 DEF Models, SatisfiesGraph
  <2> QED
    BY <2>6, <2>7
<1> QED
  BY <1>2, <1>3, <1>4

(* All of them.                                                            *)
LEMMA AllWithoutFixedModels ==
  ASSUME NEW a \in Assignments, NEW d, DatabaseOK(d), Models(a, d), CurrentLevel(d.trail) = 0,
         NEW e, e = AllWithoutFixed(d)
  PROVE  Models(a, e)
<1> DEFINE n == Len(d.clauses)
<1>1. n \in Nat
  BY DatabaseTypes DEF DatabaseOK
<1>2. PICK f : /\ f[0] = d
               /\ \A i \in 1..n : f[i] = WithoutFixed(f[i - 1], i)
               /\ AllWithoutFixed(d) = f[n]
  BY <1>1, WithoutFixedLoop
<1> HIDE DEF n
<1> DEFINE P(i) == DatabaseOK(f[i]) /\ f[i].trail = d.trail /\ Len(f[i].clauses) = n /\ Models(a, f[i])
           S == {i \in Nat : i <= n => P(i)}
<1>3. 0 \in S
  BY <1>2 DEF n
<1>4. \A i \in Nat : i \in S => i + 1 \in S
  <2> HIDE DEF P
  <2> SUFFICES ASSUME NEW i \in Nat, P(i), i + 1 <= n PROVE P(i + 1)
    BY <1>1
  <2> USE DEF P
  <2> DEFINE before == f[i]
             after == f[i + 1]
             k == i + 1
  <2>1. k \in 1..n /\ k - 1 = i
    BY <1>1
  <2>2. after = WithoutFixed(before, k)
    BY <1>2, <2>1
  <2>3. DatabaseOK(before) /\ before.trail = d.trail /\ Len(before.clauses) = n /\ Models(a, before)
    OBVIOUS
  <2> HIDE DEF before, after, k
  <2>4. DatabaseOK(after) /\ after.trail = before.trail /\ Len(after.clauses) = Len(before.clauses)
    BY <2>1, <2>2, <2>3, WithoutFixedIsOK
  <2>5. Models(a, after)
    BY <2>1, <2>2, <2>3, WithoutFixedModels
  <2> QED
    BY <2>3, <2>4, <2>5 DEF after, k
<1>5. P(n)
  <2> HIDE DEF S
  <2>1. n \in S
    BY <1>1, <1>3, <1>4, SetInduction
  <2> QED
    BY <1>1, <2>1 DEF S
<1> QED
  BY <1>2, <1>5

(* ProcessNewlyFixedVariables()                                            *)
LEMMA ProcessedModels ==
  ASSUME NEW a \in Assignments, NEW d, DatabaseOK(d), Models(a, d), CurrentLevel(d.trail) = 0,
         NEW e, e = ProcessNewlyFixedVariables(d)
  PROVE  Models(a, e)
<1> DEFINE fixed == {d.trail[i].literal : i \in 1..Len(d.trail)}
<1>1. PICK q : q = AllWithoutFixed(d) /\ e = RemoveFixedVariables(q, fixed)
  BY ProcessedSteps
<1>2. DatabaseOK(q) /\ Models(a, q)
  BY <1>1, AllWithoutFixedIsOK, AllWithoutFixedModels
<1> HIDE DEF fixed
<1>3. /\ e.trail = q.trail /\ e.clauses = q.clauses
      /\ \A l \in Literals : \A m : m \in ToSet(e.implications[l]) => m \in ToSet(q.implications[l])
  BY <1>1, <1>2, RemoveFixedFields DEF DatabaseOK
<1>4. Attached(e) = Attached(q)
  BY <1>3 DEF Attached, IsRemoved
<1> QED
  BY <1>2, <1>3, <1>4 DEF Models, SatisfiesGraph

-----------------------------------------------------------------------------
(* What propagation has done: what the literals of the trail up to the n-th*)
(* and up to a level imply is true, at no higher level; a clause that is   *)
(* watched by the negation of one has such a literal.                      *)
TrueBy(t, set, level) == \E j \in 1..Len(t) : t[j].literal \in set /\ t[j].level <= level
GraphDone(d, n, top) ==
  \A i \in 1..Len(d.trail) : i <= n /\ d.trail[i].level <= top =>
    \A m \in ToSet(d.implications[d.trail[i].literal]) : TrueBy(d.trail, {m}, d.trail[i].level)
ClausesDone(d, n, top) ==
  \A i \in 1..Len(d.trail) : i <= n /\ d.trail[i].level <= top =>
    \A c \in Attached(d) : -d.trail[i].literal \in Watches(d, c) =>
      TrueBy(d.trail, ToSet(d.clauses[c]), d.trail[i].level)
PendingFrom(t, n) == \A i \in 1..Len(t) : i > n => t[i].level = CurrentLevel(t)

(* What is true stays so when the trail goes on, or is cut above its level.*)
LEMMA TrueByGrows ==
  ASSUME NEW t, IsTrail(t), NEW u, IsTrail(u), Begins(t, u), NEW set, NEW level, TrueBy(t, set, level)
  PROVE  TrueBy(u, set, level)
<1>1. PICK j \in 1..Len(t) : t[j].literal \in set /\ t[j].level <= level
  BY DEF TrueBy
<1>2. j \in 1..Len(u) /\ u[j] = t[j]
  <2>1. Len(t) \in Nat /\ Len(u) \in Nat
    BY TrailEntries
  <2> QED
    BY <2>1 DEF Begins
<1> QED
  BY <1>1, <1>2 DEF TrueBy

(* ... what is true at the level of an entry that is kept.                 *)
LEMMA TrueByIsCut ==
  ASSUME NEW t, IsTrail(t), NEW level \in Nat, NEW kept, kept = Backtracked(t, level),
         NEW set, NEW i \in 1..Len(kept), TrueBy(t, set, t[i].level)
  PROVE  TrueBy(kept, set, kept[i].level)
<1>1. /\ Len(kept) \in Nat /\ Len(t) \in Nat
      /\ \A k \in 1..Len(kept) : kept[k] = t[k] /\ k \in 1..Len(t) /\ kept[k].level <= level
      /\ \A k \in 1..Len(t) : t[k].level <= level <=> k <= Len(kept)
  BY BacktrackedFacts, TrailEntries
<1>2. PICK j \in 1..Len(t) : t[j].literal \in set /\ t[j].level <= t[i].level
  BY DEF TrueBy
<1>3. t[j].level \in Nat /\ t[i].level \in Nat
  BY <1>1, TrailEntries
<1>4. t[j].level <= level
  BY <1>1, <1>2, <1>3
<1>5. j \in 1..Len(kept)
  BY <1>1, <1>4
<1> QED
  BY <1>1, <1>2, <1>5 DEF TrueBy

(* New entries are at the current level, so those pending still are.       *)
LEMMA PendingGrows ==
  ASSUME NEW t, IsTrail(t), NEW u, IsTrail(u), Begins(t, u), CurrentLevel(u) = CurrentLevel(t),
         NEW n, PendingFrom(t, n)
  PROVE  PendingFrom(u, n)
<1> SUFFICES ASSUME NEW i \in 1..Len(u), i > n PROVE u[i].level = CurrentLevel(u)
  BY DEF PendingFrom
<1>1. /\ Len(t) \in Nat /\ Len(u) \in Nat /\ Len(t) <= Len(u) /\ u[i].level \in Nat
      /\ \A k \in 1..Len(t) : t[k] = u[k] /\ k \in 1..Len(u)
  BY TrailEntries DEF Begins
<1>2. CASE i \in 1..Len(t)
  BY <1>1, <1>2 DEF PendingFrom
<1>3. CASE i \notin 1..Len(t)
  <2>1. u[i].level <= CurrentLevel(u) /\ CurrentLevel(t) \in Nat
    BY CurrentLevelFacts
  <2>2. CASE t = <<>>
    BY <1>1, <2>1, <2>2, CurrentLevelFacts
  <2>3. CASE t # <<>>
    <3>1. Len(t) \in 1..Len(t) /\ CurrentLevel(t) = t[Len(t)].level
      BY <2>3, CurrentLevelFacts
    <3>2. Len(t) \in 1..Len(u) /\ Len(t) <= i
      BY <1>1, <1>3, <3>1
    <3>3. u[Len(t)].level <= u[i].level
      BY <3>2 DEF IsTrail, TrailOK
    <3> QED
      BY <1>1, <2>1, <3>1, <3>3
  <2> QED
    BY <2>2, <2>3
<1> QED
  BY <1>2, <1>3

(* The trail goes on: what the implications have done stays done.          *)
LEMMA GrownGraph ==
  ASSUME NEW d, DatabaseOK(d), NEW e, DatabaseOK(e), Begins(d.trail, e.trail),
         e.implications = d.implications, NEW n \in Nat, n <= Len(d.trail), NEW top, GraphDone(d, n, top)
  PROVE  GraphDone(e, n, top)
<1> SUFFICES ASSUME NEW i \in 1..Len(e.trail), i <= n, e.trail[i].level <= top,
                    NEW m \in ToSet(e.implications[e.trail[i].literal])
             PROVE  TrueBy(e.trail, {m}, e.trail[i].level)
  BY DEF GraphDone
<1>1. IsTrail(d.trail) /\ IsTrail(e.trail) /\ Len(d.trail) \in Nat /\ Len(e.trail) \in Nat
  BY TrailEntries DEF DatabaseOK
<1>2. i \in 1..Len(d.trail) /\ d.trail[i] = e.trail[i]
  BY <1>1 DEF Begins
<1>3. TrueBy(d.trail, {m}, d.trail[i].level)
  BY <1>2 DEF GraphDone
<1> QED
  BY <1>1, <1>2, <1>3, TrueByGrows

(* ... and so are the longer clauses: the watches that changed are by a    *)
(* literal that was not false.                                             *)
LEMMA GrownClauses ==
  ASSUME NEW d, DatabaseOK(d), NEW e, DatabaseOK(e), Begins(d.trail, e.trail),
         SameClausesSince(d, e), NEW n \in Nat, n <= Len(d.trail), NEW top, ClausesDone(d, n, top)
  PROVE  ClausesDone(e, n, top)
<1> SUFFICES ASSUME NEW i \in 1..Len(e.trail), i <= n, e.trail[i].level <= top,
                    NEW c \in Attached(e), -e.trail[i].literal \in Watches(e, c)
             PROVE  TrueBy(e.trail, ToSet(e.clauses[c]), e.trail[i].level)
  BY DEF ClausesDone
<1>1. IsTrail(d.trail) /\ IsTrail(e.trail) /\ Len(d.trail) \in Nat /\ Len(e.trail) \in Nat
  BY TrailEntries DEF DatabaseOK
<1>2. i \in 1..Len(d.trail) /\ d.trail[i] = e.trail[i] /\ d.trail[i].literal \in Literals
  BY <1>1, TrailEntries DEF Begins
<1> DEFINE l == -d.trail[i].literal
<1>3. l \in Literals /\ IsFalse(d.trail, l)
  <2>1. l \in Literals /\ -l = d.trail[i].literal
    BY <1>2, LiteralFacts
  <2> QED
    BY <1>2, <2>1 DEF IsFalse, IsTrue
<1>4. c \in Attached(d) /\ Reordered(d.clauses[c], e.clauses[c])
  BY DEF SameClausesSince
<1>5. l \in Watches(d, c)
  BY <1>2, <1>3, <1>4 DEF SameClausesSince
<1>6. TrueBy(d.trail, ToSet(d.clauses[c]), d.trail[i].level)
  BY <1>2, <1>4, <1>5 DEF ClausesDone
<1>7. ToSet(d.clauses[c]) = ToSet(e.clauses[c])
  BY <1>4 DEF Reordered
<1> QED
  BY <1>1, <1>2, <1>6, <1>7, TrueByGrows

-----------------------------------------------------------------------------
(* What is settled up to a level, the n-th entry of the trail being the    *)
(* next of the graph and the k-th the next of the clauses: what comes later*)
(* is all at the current level.                                            *)
SettledTo(d, n, k, top) ==
  /\ IsSymmetric(d) /\ GraphDone(d, n, top) /\ ClausesDone(d, k, top)
  /\ PendingFrom(d.trail, n) /\ PendingFrom(d.trail, k)
Settled(d, n, k) == SettledTo(d, n, k, CurrentLevel(d.trail))

(* There is no level above the current one.                                *)
LEMMA SettledAnywhere ==
  ASSUME NEW d, DatabaseOK(d), NEW n, NEW k, Settled(d, n, k), NEW top
  PROVE  SettledTo(d, n, k, top)
<1>1. \A i \in 1..Len(d.trail) : d.trail[i].level <= CurrentLevel(d.trail)
  BY CurrentLevelFacts DEF DatabaseOK
<1> QED
  BY <1>1 DEF Settled, SettledTo, GraphDone, ClausesDone

(* What is settled up to a level is so up to any one below.                *)
LEMMA SettledBelow ==
  ASSUME NEW d, DatabaseOK(d), NEW n, NEW k, NEW top \in Int, NEW low \in Int, low <= top,
         SettledTo(d, n, k, top)
  PROVE  SettledTo(d, n, k, low)
<1>1. ASSUME NEW i \in 1..Len(d.trail), d.trail[i].level <= low PROVE d.trail[i].level <= top
  <2>1. d.trail[i].level \in Nat
    BY TrailEntries DEF DatabaseOK
  <2> QED
    BY <1>1, <2>1
<1> QED
  BY <1>1 DEF SettledTo, GraphDone, ClausesDone

(* The trail is cut at a settled level.                                    *)
LEMMA CutIsSettled ==
  ASSUME NEW d, DatabaseOK(d), NEW n \in Nat, NEW k \in Nat, NEW top, SettledTo(d, n, k, top),
         NEW level \in Nat, level <= top, top \in Int,
         NEW kept, kept = Backtracked(d.trail, level), NEW e, e = WithTrailOf(d, kept),
         NEW a \in Nat, a = n \/ a = Len(kept), a <= n, NEW b \in Nat, b = k \/ b = Len(kept), b <= k
  PROVE  Settled(e, a, b)
<1> DEFINE t == d.trail
<1>1. d \in Databases /\ IsTrail(t) /\ kept = Backtracked(t, level)
  BY DEF DatabaseOK
<1> HIDE DEF t
<1>2. /\ IsTrail(kept) /\ Begins(kept, t)
      /\ \A i \in 1..Len(kept) : kept[i] = t[i] /\ i \in 1..Len(t) /\ kept[i].level <= level
      /\ \A i \in 1..Len(t) : t[i].level <= level <=> i <= Len(kept)
  BY <1>1, BacktrackedFacts
<1>3. /\ e \in Databases /\ e.trail = kept /\ e.clauses = d.clauses /\ e.implications = d.implications
      /\ Attached(e) = Attached(d) /\ \A c : Watches(e, c) = Watches(d, c)
  BY <1>1, <1>2, WithTrail DEF WithTrailOf, IsTrail
<1>4. Len(kept) \in Nat /\ Len(t) \in Nat /\ \A i \in 1..Len(kept) : kept[i].level \in Nat
  BY <1>1, <1>2, TrailEntries
<1>5. \A i \in 1..Len(kept) : t[i].level <= top
  BY <1>2, <1>4
<1>6. IsSymmetric(e)
  BY <1>3 DEF IsSymmetric, SettledTo
<1>7. GraphDone(e, a, CurrentLevel(kept))
  <2> SUFFICES ASSUME NEW i \in 1..Len(kept), i <= a, NEW m \in ToSet(d.implications[kept[i].literal])
               PROVE  TrueBy(kept, {m}, kept[i].level)
    BY <1>3 DEF GraphDone
  <2>1. i \in 1..Len(t) /\ kept[i] = t[i] /\ i <= n /\ t[i].level <= top
    BY <1>2, <1>4, <1>5
  <2>2. TrueBy(t, {m}, t[i].level)
    BY <2>1 DEF SettledTo, GraphDone, t
  <2> QED
    BY <1>1, <1>2, <2>2, TrueByIsCut
<1>8. ClausesDone(e, b, CurrentLevel(kept))
  <2> SUFFICES ASSUME NEW i \in 1..Len(kept), i <= b, NEW c \in Attached(d), -kept[i].literal \in Watches(d, c)
               PROVE  TrueBy(kept, ToSet(d.clauses[c]), kept[i].level)
    BY <1>3 DEF ClausesDone
  <2>1. i \in 1..Len(t) /\ kept[i] = t[i] /\ i <= k /\ t[i].level <= top
    BY <1>2, <1>4, <1>5
  <2>2. TrueBy(t, ToSet(d.clauses[c]), t[i].level)
    BY <2>1 DEF SettledTo, ClausesDone, t
  <2> QED
    BY <1>1, <1>2, <2>2, TrueByIsCut
<1>9. ASSUME NEW p \in Nat, NEW q \in Nat, q = p \/ q = Len(kept), PendingFrom(t, p)
      PROVE  PendingFrom(kept, q)
  <2> SUFFICES ASSUME NEW i \in 1..Len(kept), i > q PROVE kept[i].level = CurrentLevel(kept)
    BY DEF PendingFrom
  <2>1. i > p
    BY <1>4, <1>9
  <2>2. t[i].level = CurrentLevel(t) /\ kept[i].level = CurrentLevel(t)
    BY <1>2, <1>9, <2>1 DEF PendingFrom
  <2>3. kept # <<>>
    OBVIOUS
  <2>4. Len(kept) \in 1..Len(kept) /\ CurrentLevel(kept) = kept[Len(kept)].level /\ kept[i].level <= CurrentLevel(kept)
    BY <1>2, <2>3, CurrentLevelFacts
  <2>5. kept[Len(kept)].level = t[Len(kept)].level /\ t[Len(kept)].level <= CurrentLevel(t) /\ CurrentLevel(t) \in Nat
    BY <1>1, <1>2, <2>4, CurrentLevelFacts
  <2> QED
    BY <1>4, <2>2, <2>4, <2>5
<1>10. PendingFrom(kept, a) /\ PendingFrom(kept, b)
  BY <1>9 DEF SettledTo, t
<1> QED
  BY <1>3, <1>6, <1>7, <1>8, <1>10 DEF Settled, SettledTo

(* Clauses are detached.                                                   *)
LEMMA DetachedIsSettled ==
  ASSUME NEW d \in Databases, NEW n, NEW k, Settled(d, n, k), NEW removed, NEW e, e = Detach(d, removed)
  PROVE  Settled(e, n, k)
<1>1. /\ e.trail = d.trail /\ e.implications = d.implications /\ Attached(e) \subseteq Attached(d)
      /\ \A c \in Attached(e) : e.clauses[c] = d.clauses[c]
  BY DetachFields
<1>2. \A c \in Attached(e) : Watches(e, c) = Watches(d, c)
  BY <1>1 DEF Watches
<1> QED
  BY <1>1, <1>2 DEF Settled, SettledTo, GraphDone, ClausesDone, IsSymmetric

(* Clauses that stay as they are.                                          *)
LEMMA ClausesStay ==
  ASSUME NEW d \in Databases, NEW e, e.clauses = d.clauses
  PROVE  SameClausesSince(d, e)
<1>1. Attached(e) = Attached(d)
  BY DEF Attached, IsRemoved
<1>3. \A c : Watches(e, c) = Watches(d, c)
  BY DEF Watches
<1>2. ASSUME NEW c \in Attached(d) PROVE Reordered(d.clauses[c], e.clauses[c])
  <2>1. d.clauses[c] \in Seq(Literals)
    BY DatabaseTypes DEF Attached
  <2> QED
    BY <2>1, NotReordered
<1> QED
  BY <1>1, <1>2, <1>3 DEF SameClausesSince

(* An entry at the current level.                                          *)
LEMMA GrownIsSettled ==
  ASSUME NEW d, DatabaseOK(d), NEW e, DatabaseOK(e), Begins(d.trail, e.trail),
         CurrentLevel(e.trail) = CurrentLevel(d.trail),
         e.implications = d.implications, e.clauses = d.clauses,
         NEW n \in Nat, n <= Len(d.trail), NEW k \in Nat, k <= Len(d.trail), Settled(d, n, k)
  PROVE  Settled(e, n, k)
<1>1. IsTrail(d.trail) /\ IsTrail(e.trail) /\ d \in Databases
  BY DEF DatabaseOK
<1>2. SameClausesSince(d, e)
  BY <1>1, ClausesStay
<1>3. GraphDone(e, n, CurrentLevel(e.trail)) /\ ClausesDone(e, k, CurrentLevel(e.trail))
  BY <1>2, GrownGraph, GrownClauses DEF Settled, SettledTo
<1>4. PendingFrom(e.trail, n) /\ PendingFrom(e.trail, k)
  BY <1>1, PendingGrows DEF Settled, SettledTo
<1> QED
  BY <1>3, <1>4 DEF Settled, SettledTo, IsSymmetric

-----------------------------------------------------------------------------
(* A clause that is added fits: at no level below it would have been false *)
(* or propagated.                                                          *)
Fits(t, set) ==
  \A level \in Nat : level < CurrentLevel(t) =>
    \/ TrueBy(t, set, level)
    \/ \E a, b \in set : a # b /\ ~TrueBy(t, {-a}, level) /\ ~TrueBy(t, {-b}, level)

(* What is enqueued is true.                                               *)
LEMMA EnqueuedIsTrue ==
  ASSUME NEW t \in Seq(Entries), NEW l, NEW level, NEW type, NEW by, NEW u, u = Enqueued(t, l, level, type, by)
  PROVE  IsTrue(u, l)
<1> DEFINE entry == [literal |-> l, level |-> level, type |-> type, by |-> by]
<1>1. u = Append(t, entry) /\ entry.literal = l
  BY DEF Enqueued
<1> HIDE DEF entry
<1>2. Len(u) \in 1..Len(u) /\ u[Len(u)] = entry
  BY <1>1
<1> QED
  BY <1>1, <1>2 DEF IsTrue

(* A literal of a binary clause that is false: so the other one is true.   *)
LEMMA OtherIsTrue ==
  ASSUME NEW t, IsTrail(t), NEW u, IsTrail(u), Begins(t, u), CurrentLevel(u) = CurrentLevel(t),
         NEW x \in Literals, NEW y \in Literals, x # y, Fits(t, {x, y}), IsFalse(t, x) => IsTrue(u, y),
         NEW i \in 1..Len(t), t[i].literal = -x
  PROVE  TrueBy(u, {y}, u[i].level)
<1>1. /\ IsFalse(t, x) /\ ~IsTrue(t, x) /\ t[i].level \in Nat /\ t[i].level <= CurrentLevel(t)
      /\ CurrentLevel(t) \in Nat /\ Len(t) \in Nat /\ Len(u) \in Nat
  <2>1. IsFalse(t, x)
    BY DEF IsFalse, IsTrue
  <2> QED
    BY <2>1, TrailFacts, TrailEntries, CurrentLevelFacts
<1>2. u[i] = t[i]
  BY <1>1 DEF Begins
<1>3. CASE t[i].level < CurrentLevel(t)
  <2>1. TrueBy(t, {-x}, t[i].level)
    BY <1>1 DEF TrueBy
  <2>2. TrueBy(t, {x, y}, t[i].level)
    BY <1>1, <1>3, <2>1 DEF Fits
  <2>3. TrueBy(t, {y}, t[i].level)
    BY <1>1, <2>2 DEF TrueBy, IsTrue
  <2> QED
    BY <1>2, <2>3, TrueByGrows
<1>4. CASE t[i].level = CurrentLevel(t)
  <2>1. PICK j \in 1..Len(u) : u[j].literal = y
    BY <1>1 DEF IsTrue
  <2>2. u[j].level <= CurrentLevel(u)
    BY CurrentLevelFacts
  <2> QED
    BY <1>2, <1>4, <2>1, <2>2 DEF TrueBy
<1> QED
  BY <1>1, <1>3, <1>4

(* A binary clause that fits.                                              *)
LEMMA BinaryIsSettled ==
  ASSUME NEW d, DatabaseOK(d), NEW a \in Literals, NEW b \in Literals, a # b,
         Fits(d.trail, {a, b}), ~(IsFalse(d.trail, a) /\ IsFalse(d.trail, b)),
         CurrentLevel(d.trail) = 0 => ~IsFalse(d.trail, a) /\ ~IsFalse(d.trail, b),
         NEW n \in Nat, n <= Len(d.trail), NEW k \in Nat, k <= Len(d.trail), Settled(d, n, k),
         NEW e, e = AddBinaryClause(d, a, b)
  PROVE  Settled(e, n, k)
<1> DEFINE g == WithImplications(d, a, b)
           t == d.trail
           u == e.trail
           level == CurrentLevel(t)
           withb == Enqueued(t, b, level, "BINARY", a)
           witha == Enqueued(t, a, level, "BINARY", b)
<1>1. CASE a = -b
  BY <1>1 DEF AddBinaryClause
<1>2. CASE a # -b
  <2>1. DatabaseOK(e) /\ e.clauses = d.clauses /\ Attached(e) = Attached(d) /\ Begins(t, u) /\ CurrentLevel(u) = level
    BY AddBinaryClauseIsOK, AddBinaryGrows
  <2>2. d \in Databases /\ IsTrail(t) /\ IsTrail(u) /\ Len(t) \in Nat /\ Len(u) \in Nat
    BY <2>1, TrailEntries DEF DatabaseOK
  <2>3. g = WithImplications(d, a, b)
    OBVIOUS
  <2> HIDE DEF g
  <2>4. /\ g \in Databases /\ g.trail = t /\ DatabaseOK(g)
        /\ \A l, m \in Literals : m \in ToSet(g.implications[l]) <=>
             m \in ToSet(d.implications[l]) \/ (l = -a /\ m = b) \/ (l = -b /\ m = a)
    BY <1>2, <2>2, <2>3, WithImplicationsFields, WithImplicationsIsOK
  <2>5. \/ e = g /\ (level = 0 \/ ((IsFalse(t, a) => IsAssigned(t, b)) /\ (IsFalse(t, b) => IsAssigned(t, a))))
        \/ /\ IsFalse(t, a) /\ ~IsAssigned(t, b) /\ level # 0 /\ e = [g EXCEPT !.trail = withb]
        \/ /\ IsFalse(t, b) /\ ~IsAssigned(t, a) /\ level # 0 /\ e = [g EXCEPT !.trail = witha]
    BY <1>2, <2>2, <2>3, AddBinaryClauseCases
  <2> HIDE DEF withb, witha
  <2>6. e.implications = g.implications
    <3>1. \A w : [g EXCEPT !.trail = w].implications = g.implications
      BY <2>4 DEF Databases
    <3> QED
      BY <2>5, <3>1
  <2>7. IsSymmetric(e)
    <3>1. IsSymmetric(g)
      BY <1>2, <2>3, WithImplicationsIsOK DEF Settled, SettledTo
    <3> QED
      BY <2>6, <3>1 DEF IsSymmetric
  <2>8. (IsFalse(t, a) => IsTrue(u, b)) /\ (IsFalse(t, b) => IsTrue(u, a))
    <3>1. \A l \in Literals : IsTrue(t, l) => IsTrue(u, l)
      BY <2>1, <2>2, BeginningFacts
    <3>2. CASE e = g /\ (level = 0 \/ ((IsFalse(t, a) => IsAssigned(t, b)) /\ (IsFalse(t, b) => IsAssigned(t, a))))
      BY <3>1, <3>2 DEF IsAssigned
    <3>4. CASE IsFalse(t, a) /\ ~IsAssigned(t, b) /\ level # 0 /\ e = [g EXCEPT !.trail = withb]
      <4>1. u = withb
        BY <2>4, <3>4 DEF Databases
      <4> QED
        BY <2>2, <3>4, <4>1, EnqueuedIsTrue DEF IsTrail, IsAssigned, withb
    <3>5. CASE IsFalse(t, b) /\ ~IsAssigned(t, a) /\ level # 0 /\ e = [g EXCEPT !.trail = witha]
      <4>1. u = witha
        BY <2>4, <3>5 DEF Databases
      <4> QED
        BY <2>2, <3>5, <4>1, EnqueuedIsTrue DEF IsTrail, IsAssigned, witha
    <3> QED
      BY <2>5, <3>2, <3>4, <3>5
  <2>9. GraphDone(e, n, CurrentLevel(u))
    <3> SUFFICES ASSUME NEW i \in 1..Len(u), i <= n, NEW m \in ToSet(e.implications[u[i].literal])
                 PROVE  TrueBy(u, {m}, u[i].level)
      BY DEF GraphDone
    <3>1. i \in 1..Len(t) /\ u[i] = t[i] /\ t[i].literal \in Literals /\ t[i].level <= level
      BY <2>1, <2>2, TrailEntries, CurrentLevelFacts DEF Begins
    <3>2. m \in Literals
      BY <2>1, <3>1, DatabaseTypes, ToSetFacts DEF DatabaseOK
    <3>3. \/ m \in ToSet(d.implications[t[i].literal])
          \/ (t[i].literal = -a /\ m = b) \/ (t[i].literal = -b /\ m = a)
      BY <2>4, <2>6, <3>1, <3>2
    <3>4. CASE m \in ToSet(d.implications[t[i].literal])
      <4>1. TrueBy(t, {m}, t[i].level)
        BY <3>1, <3>4 DEF Settled, SettledTo, GraphDone
      <4> QED
        BY <2>1, <2>2, <3>1, <4>1, TrueByGrows
    <3>5. CASE t[i].literal = -a /\ m = b
      BY <2>1, <2>2, <2>8, <3>1, <3>5, OtherIsTrue
    <3>6. CASE t[i].literal = -b /\ m = a
      <4>1. {b, a} = {a, b}
        OBVIOUS
      <4> QED
        BY <2>1, <2>2, <2>8, <3>1, <3>6, <4>1, OtherIsTrue
    <3> QED
      BY <3>3, <3>4, <3>5, <3>6
  <2>10. ClausesDone(e, k, CurrentLevel(u))
    <3>1. SameClausesSince(d, e)
      <4>1. \A c : Watches(e, c) = Watches(d, c)
        BY <2>1 DEF Watches
      <4>2. \A c \in Attached(d) : Reordered(d.clauses[c], e.clauses[c])
        <5> SUFFICES ASSUME NEW c \in Attached(d) PROVE Reordered(d.clauses[c], e.clauses[c])
          OBVIOUS
        <5>1. d.clauses[c] \in Seq(Literals)
          BY <2>2, DatabaseTypes DEF Attached
        <5> QED
          BY <2>1, <5>1, NotReordered
      <4> QED
        BY <2>1, <4>1, <4>2 DEF SameClausesSince
    <3> QED
      BY <2>1, <3>1, GrownClauses DEF Settled, SettledTo
  <2>11. PendingFrom(u, n) /\ PendingFrom(u, k)
    BY <2>1, <2>2, PendingGrows DEF Settled, SettledTo
  <2> QED
    BY <2>7, <2>9, <2>10, <2>11 DEF Settled, SettledTo
<1> QED
  BY <1>1, <1>2

(* A longer clause that fits: its second watched literal is false only when*)
(* its first one is true by then.                                          *)
LEMMA WatchesAreSettled ==
  ASSUME NEW t, IsTrail(t), NEW u, IsTrail(u), Begins(t, u), CurrentLevel(u) = CurrentLevel(t),
         NEW literals \in Seq(Literals), NEW lits, AttachedInOrder(t, literals, lits), GrownByOne(t, u, lits),
         Len(lits) >= 3, Fits(t, ToSet(literals)),
         NEW i \in 1..Len(t), -t[i].literal \in {lits[1], lits[2]}
  PROVE  TrueBy(u, ToSet(lits), u[i].level)
<1>1. /\ lits \in Seq(Literals) /\ ~IsFalse(t, lits[1]) /\ \A x : x \in ToSet(lits) <=> x \in ToSet(literals)
      /\ IsFalse(t, lits[2]) =>
           \A j \in 2..Len(lits) : IsFalse(t, lits[j]) /\ LevelOf(t, lits[j]) <= LevelOf(t, lits[2])
  BY DEF AttachedInOrder, Reordered
<1>2. /\ Len(lits) \in Nat /\ 1 \in 1..Len(lits) /\ 2 \in 1..Len(lits)
      /\ \A j \in 1..Len(lits) : lits[j] \in Literals
  BY <1>1
<1>3. lits[1] \in Literals /\ lits[2] \in Literals /\ lits[1] \in ToSet(lits)
  BY <1>1, <1>2, ToSetFacts
<1>4. /\ t[i].level \in Nat /\ t[i].level <= CurrentLevel(t) /\ CurrentLevel(t) \in Nat
      /\ t[i].literal \in Literals /\ -(-t[i].literal) = t[i].literal /\ Len(t) \in Nat /\ Len(u) \in Nat
  BY TrailEntries, CurrentLevelFacts, LiteralFacts
<1>5. u[i] = t[i] /\ i \in 1..Len(u)
  BY <1>4 DEF Begins
<1>6. -t[i].literal = lits[2] /\ IsFalse(t, lits[2]) /\ t[i].literal = -lits[2]
  BY <1>1, <1>4 DEF IsFalse, IsTrue
<1>7. LevelOf(t, lits[2]) = t[i].level
  BY <1>3, <1>6, TrailFacts
<1>8. CASE t[i].level < CurrentLevel(t)
  <2>1. ASSUME NEW x \in ToSet(lits), x # lits[1] PROVE TrueBy(t, {-x}, t[i].level)
    <3>1. PICK j \in 1..Len(lits) : lits[j] = x
      BY <1>1, ToSetFacts
    <3>2. j \in 2..Len(lits)
      BY <1>2, <2>1, <3>1
    <3>3. x \in Literals /\ IsFalse(t, x) /\ LevelOf(t, x) <= t[i].level
      BY <1>1, <1>2, <1>6, <1>7, <3>1, <3>2
    <3>4. PICK k \in 1..Len(t) : t[k].literal = -x
      BY <3>3 DEF IsFalse, IsTrue
    <3>5. LevelOf(t, x) = t[k].level
      BY <3>3, <3>4, TrailFacts
    <3> QED
      BY <3>3, <3>4, <3>5 DEF TrueBy
  <2>2. ~(\E a, b \in ToSet(literals) : a # b /\ ~TrueBy(t, {-a}, t[i].level) /\ ~TrueBy(t, {-b}, t[i].level))
    BY <1>1, <2>1
  <2>3. TrueBy(t, ToSet(literals), t[i].level)
    BY <1>4, <1>8, <2>2 DEF Fits
  <2>4. TrueBy(t, ToSet(lits), t[i].level)
    BY <1>1, <2>3 DEF TrueBy
  <2> QED
    BY <1>5, <2>4, TrueByGrows
<1>9. CASE t[i].level = CurrentLevel(t)
  <2>1. IsTrue(u, lits[1])
    <3>1. CASE u = t /\ (IsFalse(t, lits[2]) => IsTrue(t, lits[1]))
      BY <1>6, <3>1
    <3>2. CASE Len(u) = Len(t) + 1 /\ u[Len(u)].literal = lits[1]
      <4>1. Len(u) \in 1..Len(u)
        BY <1>4, <3>2
      <4> QED
        BY <3>2, <4>1 DEF IsTrue
    <3> QED
      BY <3>1, <3>2 DEF GrownByOne
  <2>2. PICK j \in 1..Len(u) : u[j].literal = lits[1]
    BY <2>1 DEF IsTrue
  <2>3. u[j].level <= CurrentLevel(u)
    BY CurrentLevelFacts
  <2> QED
    BY <1>3, <1>5, <1>9, <2>2, <2>3 DEF TrueBy
<1> QED
  BY <1>4, <1>8, <1>9

-----------------------------------------------------------------------------
(* The question that is asked: its literals are true at level zero, or     *)
(* there are assumptions left, which are decisions of level one.           *)
TakenAt(t, l, level) == \E i \in 1..Len(t) : t[i].literal = l /\ t[i].level <= level
QuestionTaken(t, a, question) ==
  IF a = <<>> THEN \A l \in question : TakenAt(t, l, 0)
  ELSE /\ \A i \in 1..Len(t) : t[i].type = "DECISION" /\ t[i].level <= 1 => t[i].literal \in question
       /\ CurrentLevel(t) > 0 =>
            (\A l \in question : TakenAt(t, l, 1)) /\ \E i \in 1..Len(t) : t[i].level = 1

(* A literal that was taken stays.                                         *)
LEMMA TakenStays ==
  ASSUME NEW t, NEW u, Begins(t, u), Len(u) \in Nat, NEW l, NEW level, TakenAt(t, l, level)
  PROVE  TakenAt(u, l, level)
<1>1. PICK i \in 1..Len(t) : t[i].literal = l /\ t[i].level <= level
  BY DEF TakenAt
<1>2. i \in 1..Len(u) /\ u[i] = t[i]
  BY DEF Begins
<1> QED
  BY <1>1, <1>2 DEF TakenAt

(* The trail goes on: what is decided opens a level of its own.            *)
LEMMA QuestionTakenGrows ==
  ASSUME NEW t, IsTrail(t), NEW u, IsTrail(u), Begins(t, u), NEW a, NEW question,
         QuestionTaken(t, a, question),
         \A j \in 1..Len(u) : j > Len(t) /\ u[j].type = "DECISION" => a = <<>> \/ u[j].level > 1,
         a # <<>> /\ CurrentLevel(u) > 0 => CurrentLevel(t) > 0
  PROVE  QuestionTaken(u, a, question)
<1>1. Len(t) \in Nat /\ Len(u) \in Nat /\ \A j \in 1..Len(u) : u[j].level \in Nat
  BY TrailEntries
<1>2. CASE a = <<>>
  BY <1>1, <1>2, TakenStays DEF QuestionTaken
<1>3. CASE a # <<>>
  <2>1. ASSUME NEW i \in 1..Len(u), u[i].type = "DECISION", u[i].level <= 1
        PROVE  u[i].literal \in question
    <3>1. ~(i > Len(t))
      BY <1>1, <1>3, <2>1
    <3>2. i \in 1..Len(t)
      BY <1>1, <3>1
    <3>3. u[i] = t[i]
      BY <3>2 DEF Begins
    <3> QED
      BY <1>3, <2>1, <3>2, <3>3 DEF QuestionTaken
  <2>2. ASSUME CurrentLevel(u) > 0
        PROVE  (\A l \in question : TakenAt(u, l, 1)) /\ \E i \in 1..Len(u) : u[i].level = 1
    <3>1. (\A l \in question : TakenAt(t, l, 1)) /\ \E i \in 1..Len(t) : t[i].level = 1
      BY <1>3, <2>2 DEF QuestionTaken
    <3>2. \A l \in question : TakenAt(u, l, 1)
      BY <1>1, <3>1, TakenStays
    <3>3. PICK i \in 1..Len(t) : t[i].level = 1
      BY <3>1
    <3>4. i \in 1..Len(u) /\ u[i] = t[i]
      BY <1>1 DEF Begins
    <3> QED
      BY <3>2, <3>3, <3>4
  <2> QED
    BY <1>3, <2>1, <2>2 DEF QuestionTaken
<1> QED
  BY <1>2, <1>3

(* The trail is cut: a level above zero leaves the assumptions there.      *)
LEMMA QuestionTakenIsCut ==
  ASSUME NEW t, IsTrail(t), NEW level \in Nat, NEW p, p = Backtracked(t, level), NEW a, NEW question,
         QuestionTaken(t, a, question)
  PROVE  /\ QuestionTaken(p, a, question)
         /\ a # <<>> /\ level > 0 /\ CurrentLevel(t) > 0 => CurrentLevel(p) > 0
<1>1. /\ IsTrail(p) /\ Begins(p, t) /\ Len(p) <= Len(t)
      /\ \A i \in 1..Len(p) : p[i] = t[i] /\ i \in 1..Len(t) /\ p[i].level <= level
      /\ \A i \in 1..Len(t) : t[i].level <= level <=> i <= Len(p)
      /\ CurrentLevel(p) <= level
  BY BacktrackedFacts
<1>2. /\ Len(t) \in Nat /\ Len(p) \in Nat /\ \A i \in 1..Len(t) : t[i].level \in Nat
      /\ CurrentLevel(p) \in Nat /\ CurrentLevel(t) \in Nat
      /\ \A i \in 1..Len(p) : p[i].level <= CurrentLevel(p)
      /\ \A i \in 1..Len(t) : t[i].level <= CurrentLevel(t)
  BY <1>1, TrailEntries, CurrentLevelFacts
<1>3. ASSUME NEW n \in Nat, n <= level, NEW l, TakenAt(t, l, n) PROVE TakenAt(p, l, n)
  <2>1. PICK i \in 1..Len(t) : t[i].literal = l /\ t[i].level <= n
    BY <1>3 DEF TakenAt
  <2>2. i \in 1..Len(p)
    BY <1>1, <1>2, <1>3, <2>1
  <2>3. p[i] = t[i]
    BY <1>1, <2>2
  <2> QED
    BY <2>1, <2>2, <2>3 DEF TakenAt
<1>4. CASE a = <<>>
  <2>1. \A l \in question : TakenAt(p, l, 0)
    BY <1>3, <1>4 DEF QuestionTaken
  <2> QED
    BY <1>4, <2>1 DEF QuestionTaken
<1>5. CASE a # <<>>
  <2>1. ASSUME NEW i \in 1..Len(p), p[i].type = "DECISION", p[i].level <= 1
        PROVE  p[i].literal \in question
    <3>1. i \in 1..Len(t) /\ p[i] = t[i]
      BY <1>1
    <3> QED
      BY <1>5, <2>1, <3>1 DEF QuestionTaken
  <2>2. ASSUME level > 0, CurrentLevel(t) > 0
        PROVE  /\ (\A l \in question : TakenAt(p, l, 1)) /\ \E i \in 1..Len(p) : p[i].level = 1
               /\ CurrentLevel(p) > 0
    <3>1. (\A l \in question : TakenAt(t, l, 1)) /\ \E i \in 1..Len(t) : t[i].level = 1
      BY <1>5, <2>2 DEF QuestionTaken
    <3>2. 1 \in Nat /\ 1 <= level
      BY <2>2
    <3>3. \A l \in question : TakenAt(p, l, 1)
      BY <1>3, <3>1, <3>2
    <3>4. PICK i \in 1..Len(t) : t[i].level = 1
      BY <3>1
    <3>5. i \in 1..Len(p)
      BY <1>1, <1>2, <3>2, <3>4
    <3>6. p[i].level = 1
      BY <1>1, <3>4, <3>5
    <3>7. CurrentLevel(p) > 0
      BY <1>2, <3>5, <3>6
    <3> QED
      BY <3>3, <3>5, <3>6, <3>7
  <2>3. ASSUME CurrentLevel(p) > 0
        PROVE  (\A l \in question : TakenAt(p, l, 1)) /\ \E i \in 1..Len(p) : p[i].level = 1
    <3>1. level > 0
      BY <1>1, <1>2, <2>3
    <3>2. CurrentLevel(t) > 0
      <4>1. p # <<>>
        BY <1>1, <2>3, CurrentLevelFacts
      <4>2. Len(p) \in 1..Len(p) /\ CurrentLevel(p) = p[Len(p)].level
        BY <1>1, <4>1, CurrentLevelFacts
      <4>3. p[Len(p)] = t[Len(p)] /\ Len(p) \in 1..Len(t)
        BY <1>1, <4>2
      <4> QED
        BY <1>2, <2>3, <4>2, <4>3
    <3> QED
      BY <2>2, <3>1, <3>2
  <2> QED
    BY <1>5, <2>1, <2>2, <2>3 DEF QuestionTaken
<1> QED
  BY <1>4, <1>5
(* The decisions among the entries that fix some literals imply them.      *)
FixingOK(d, roots, n, S, i) ==
  /\ roots \subseteq S /\ S \subseteq 1..Len(d.trail)
  /\ \A j \in S : d.trail[j].level <= n
  /\ \A j \in S : j > i => {TrailIndex(d.trail, l) : l \in ToSet(Reason(d, j))} \subseteq S

(* The entries that fix some literals are closed under their reasons.      *)
LEMMA FixingIsOK ==
  ASSUME NEW d, DatabaseOK(d), NEW literals, literals \subseteq Literals, NEW n \in Nat,
         \A l \in literals : IsAssigned(d.trail, l) /\ LevelOf(d.trail, l) <= n,
         NEW roots, roots = {TrailIndex(d.trail, l) : l \in literals}
  PROVE  FixingOK(d, roots, n, Fixing(d, literals), 0)
<1> DEFINE t == d.trail
<1> PICK top : top = Len(t)
  OBVIOUS
<1>1. IsTrail(t) /\ top \in Nat /\ Len(d.trail) \in Nat /\ top = Len(d.trail)
  BY TrailEntries DEF DatabaseOK
<1>2. PICK f : /\ f[top] = roots
               /\ \A i \in 0..(top - 1) : f[i] = WithReason(d, f[i + 1], i + 1)
               /\ Fixing(d, literals) = f[0]
  <2>1. \E f : /\ f[Len(d.trail)] = {TrailIndex(d.trail, l) : l \in literals}
               /\ \A i \in 0..(Len(d.trail) - 1) : f[i] = WithReason(d, f[i + 1], i + 1)
               /\ Fixing(d, literals) = f[0]
    BY <1>1, FixingLoop
  <2> QED
    BY <1>1, <2>1
<1>3. FixingOK(d, roots, n, f[top], top)
  <2>1. \A l \in literals : TrailIndex(t, l) \in 1..top /\ t[TrailIndex(t, l)].level <= n
    BY <1>1, TrailFacts
  <2> QED
    BY <1>1, <1>2, <2>1 DEF FixingOK
<1>4. ASSUME NEW i \in 0..(top - 1), FixingOK(d, roots, n, f[i + 1], i + 1)
      PROVE  FixingOK(d, roots, n, f[i], i)
  <2> DEFINE k == i + 1
             S == f[k]
             more == {TrailIndex(t, l) : l \in ToSet(Reason(d, k))}
  <2>1. k \in 1..top /\ f[i] = IF k \in S THEN S \cup more ELSE S
    <3>1. k \in 1..top
      BY <1>1
    <3>2. f[i] = WithReason(d, S, k)
      BY <1>2
    <3> QED
      BY <3>1, <3>2 DEF WithReason
  <2>2. /\ roots \subseteq S /\ S \subseteq 1..top /\ \A j \in S : t[j].level <= n
        /\ \A j \in S : j > k => {TrailIndex(t, l) : l \in ToSet(Reason(d, j))} \subseteq S
    BY <1>4 DEF FixingOK
  <2>3. ASSUME NEW l \in ToSet(Reason(d, k))
        PROVE  TrailIndex(t, l) \in 1..top /\ TrailIndex(t, l) < k /\ t[TrailIndex(t, l)].level <= t[k].level
    <3>1. l \in Literals /\ IsFalse(t, l) /\ TrailIndex(t, l) < k
      BY <2>1, <2>3, ReasonFacts
    <3>2. TrailIndex(t, l) \in 1..top
      BY <1>1, <3>1, TrailFacts DEF IsAssigned
    <3> QED
      BY <1>1, <2>1, <3>1, <3>2 DEF IsTrail, TrailOK
  <2> HIDE DEF S, more
  <2>4. \A j \in S : j \in 1..top /\ t[j].level \in Nat
    BY <1>1, <2>2, TrailEntries
  <2>5. CASE k \in S
    <3>1. \A j \in more : j \in 1..top /\ j < k /\ t[j].level <= n
      <4>1. \A j \in more : j \in 1..top /\ j < k /\ t[j].level <= t[k].level
        BY <2>3 DEF more
      <4>2. \A j \in 1..top : t[j].level \in Nat
        BY <1>1, TrailEntries
      <4> QED
        BY <2>1, <2>2, <2>5, <4>1, <4>2
    <3>2. ASSUME NEW j \in S \cup more, j > i
          PROVE  {TrailIndex(t, l) : l \in ToSet(Reason(d, j))} \subseteq S \cup more
      <4>1. j \in S /\ j \in Nat
        BY <2>1, <2>4, <3>1, <3>2
      <4>2. CASE j = k
        BY <4>2 DEF more
      <4>3. CASE j # k
        BY <2>1, <2>2, <3>2, <4>1, <4>3
      <4> QED
        BY <4>2, <4>3
    <3> QED
      BY <2>1, <2>2, <2>5, <3>1, <3>2 DEF FixingOK
  <2>6. CASE k \notin S
    <3>1. ASSUME NEW j \in S, j > i PROVE j > k
      BY <2>1, <2>4, <2>6, <3>1
    <3> QED
      BY <2>1, <2>2, <2>6, <3>1 DEF FixingOK
  <2> QED
    BY <2>5, <2>6
<1>5. Nat \subseteq {m \in Nat : m <= top => FixingOK(d, roots, n, f[top - m], top - m)}
  <2> DEFINE S == {m \in Nat : m <= top => FixingOK(d, roots, n, f[top - m], top - m)}
  <2>1. 0 \in S
    BY <1>1, <1>3
  <2>2. ASSUME NEW m \in Nat, m \in S PROVE m + 1 \in S
    <3> SUFFICES ASSUME m + 1 <= top PROVE FixingOK(d, roots, n, f[top - (m + 1)], top - (m + 1))
      OBVIOUS
    <3> PICK i : i = top - (m + 1)
      OBVIOUS
    <3>1. i \in 0..(top - 1) /\ i = top - (m + 1)
      BY <1>1
    <3>2. top - m = i + 1 /\ m <= top
      BY <1>1, <3>1
    <3>3. FixingOK(d, roots, n, f[i + 1], i + 1)
      BY <2>2, <3>2
    <3> QED
      BY <1>4, <3>1, <3>3
  <2> HIDE DEF S
  <2>3. Nat \subseteq S
    BY <2>1, <2>2, SetInduction
  <2> QED
    BY <2>3 DEF S
<1>6. top - top = 0 /\ FixingOK(d, roots, n, f[top - top], top - top)
  <2>1. top <= top /\ top - top = 0
    BY <1>1
  <2> QED
    BY <1>1, <1>5, <2>1
<1> QED
  BY <1>2, <1>6
=============================================================================
