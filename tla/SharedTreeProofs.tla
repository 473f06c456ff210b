--------------------------- MODULE SharedTreeProofs ---------------------------
(***************************************************************************)
(* Proofs about the shared tree of CP-SAT, for any finite set of workers   *)
(* and any configurations that the assumption of SharedTree allows.        *)
(*                                                                         *)
(* The argument.  A tree is good (GoodTree) when it has the shape of a     *)
(* binary tree whose nodes follow their parents, when what is below a      *)
(* closed node is closed, when exactly the nodes that need trail info keep *)
(* it, and when what it says of each node holds for the solutions of that  *)
(* node that improve on the best one.  A path is good (PathOK) when what it*)
(* says of each level holds for such solutions below the level, and when   *)
(* the literals of its nodes follow from its decisions.  Each operation is *)
(* then a function from good trees and paths to good ones: ChangedTree and *)
(* WithPath for trees, PushLevel, SetLevelImplied, AddImplications, PathTo *)
(* for paths.  The two meet in SolutionsOnPath: the solutions of a node on *)
(* a path are below the level of the node, and the last node has all those *)
(* below the last level.  A path of this tree stays one, since nodes are   *)
(* only added, until a restart makes it stale.  Who is assigned a leaf, and*)
(* how many leaves there are, follows from what each action does to the    *)
(* open leaves.  The inductive invariant, Inv, is the conjunction.         *)
(*                                                                         *)
(* That some leaf can be split needs more: the tree is fair (FairInv) when *)
(* implied nodes are those with a closed sibling and an open node that was *)
(* split has an open child with its bound.  Then the open leaves below a   *)
(* node are at least its weight, for any weights that an only open child   *)
(* keeps and two open children share.  If the rule refused every leaf, the *)
(* leaves would be deep, and weights that double, or grow by the numbers of*)
(* Fibonacci, would make them as many as are wanted: but splits are wanted *)
(* only as long as there are fewer.                                        *)
(*                                                                         *)
(* Induction on nodes and recursive functions go through SetLemmas.        *)
(***************************************************************************)
EXTENDS SharedTree, SetLemmas

(* The shape of a tree: a node follows its parent and is one of its two    *)
(* children, which decide a literal either way.                            *)
ParentsComeFirst(t) ==
  /\ t \in Seq(Nodes) /\ t # <<>> /\ t[Root].parent = 0
  /\ \A n \in 2..Len(t) : t[n].parent \in 1..(n - 1)
ChildrenOf(t, n) == {m \in 2..Len(t) : t[m].parent = n}
TreeShape(t) ==
  /\ ParentsComeFirst(t)
  /\ \A n \in DOMAIN t :
       \/ t[n].children = <<>> /\ ChildrenOf(t, n) = {}
       \/ \E m \in (n + 1)..(Len(t) - 1) :
            /\ t[n].children = <<m, m + 1>> /\ ChildrenOf(t, n) = {m, m + 1}
            /\ t[m].literal \in Literals(config.variables)
            /\ t[m + 1].literal = Negated(t[m].literal)
  /\ ~ t[Root].implied

(* What is below a closed node is closed, and which nodes keep trail info. *)
ClosedBelow(t) == \A n \in 2..Len(t) : t[t[n].parent].closed => t[n].closed
InfoIsKept(t) ==
  \A n \in DOMAIN t : t[n].has_info = (n = Root \/ ~ (t[n].closed \/ t[n].implied))

(* The solutions of a tree, and what is known of them.                     *)
SolutionsIn(t, n) ==
  {s \in Improving : Satisfies(s, {t[m].literal : m \in Ancestors(t, n) \ {Root}})}
TreeSound(t) ==
  \A n \in DOMAIN t :
    /\ t[n].closed => SolutionsIn(t, n) = {}
    /\ t[n].implied => SolutionsIn(t, n) = SolutionsIn(t, t[n].parent)
    /\ \A s \in SolutionsIn(t, n) :
         Cost[s] >= t[n].lb /\ Satisfies(s, t[n].implications)

(* Two trees with the same nodes in the same places.                       *)
SameTree(t, u) ==
  /\ u \in Seq(Nodes) /\ Len(u) = Len(t)
  /\ \A n \in DOMAIN t :
       /\ u[n].parent = t[n].parent /\ u[n].children = t[n].children
       /\ u[n].literal = t[n].literal

GoodTree(t) == TreeShape(t) /\ ClosedBelow(t) /\ InfoIsKept(t) /\ TreeSound(t)

(* A path with one more entry than p, and a literal true in a solution.    *)
OneMoreEntry(p, q, id, literal) == q.trail = Append(p.trail, [id |-> id, literal |-> literal])
Holds(s, literal) == Satisfies(s, {literal})

(* The levels of a path start one after the other, and the literals of the *)
(* trail up to the end of a level follow from the decisions up to it.      *)
PathShape(p) ==
  /\ p \in Paths
  /\ \A l \in 1..MaxLevel(p) : DecisionIndex(p, l) \in DOMAIN p.trail
  /\ \A k, l \in 1..MaxLevel(p) : k < l => DecisionIndex(p, k) < DecisionIndex(p, l)
PathSound(p) ==
  \A l \in 1..MaxLevel(p) : \A s \in Below(p, l) :
    Satisfies(s, Implications(p, l)) /\ Cost[s] >= ObjectiveLb(p, l)
TrailFollows(p) ==
  \A l \in 0..MaxLevel(p) : \A s \in Below(p, l) : \A i \in 1..End(p, l) :
    Satisfies(s, {p.trail[i].literal})
PathOK(p) == PathShape(p) /\ PathSound(p) /\ TrailFollows(p)

(* A path is one of this tree, or of a tree before a restart.              *)
NodeAt(p, i) == Index(p.trail[i].id)
InTree(t, p) ==
  \A i \in DOMAIN p.trail :
    /\ NodeAt(p, i) \in 2..Len(t)
    /\ t[NodeAt(p, i)].parent = (IF i = 1 THEN Root ELSE NodeAt(p, i - 1))
    /\ t[NodeAt(p, i)].literal = p.trail[i].literal
LastNode(p) == IF p.trail = <<>> THEN Root ELSE NodeAt(p, Len(p.trail))
IsStale(p) == ~ IsValid(p) /\ \A i \in DOMAIN p.trail : p.trail[i].id < offset

(* The parts of the inductive invariant: the tree, the paths, the verdict. *)
TreeInv == GoodTree(nodes)
PathInv ==
  \A w \in Workers :
    PathOK(path[w]) /\ ((IsValid(path[w]) /\ InTree(nodes, path[w])) \/ IsStale(path[w]))
SolvedInv == solved => Improving = {}

(* An open leaf is unassigned, or the last node of the path of one worker. *)
IsAt(p, n) == IsValid(p) /\ LastNode(p) = n
LeavesInv ==
  \A n \in OpenLeaves \ {Root} :
    IF n \in unassigned THEN \A w \in Workers : ~ IsAt(path[w], n)
    ELSE \E w \in Workers : \A v \in Workers : IsAt(path[v], n) <=> v = w
CountInv == Cardinality(OpenLeaves) + splits_wanted = config.leaves

(* The inductive invariant.                                                *)
Inv == TypeOK /\ TreeInv /\ PathInv /\ SolvedInv /\ LeavesInv /\ CountInv

-----------------------------------------------------------------------------
(* The configuration.                                                      *)
LEMMA CostsAreBounded ==
  ASSUME NEW c \in Configurations
  PROVE  /\ MaxIntegerOf(c) \in Nat \ {0}
         /\ \A s \in DOMAIN c.cost : c.cost[s] \in Nat /\ c.cost[s] < MaxIntegerOf(c)
<1> DEFINE Image == {c.cost[s] : s \in DOMAIN c.cost}
<1>1. ConfigurationOK(c)
  BY TreeAssumption
<1>2. IsFiniteSet(DOMAIN c.cost) /\ \A s \in DOMAIN c.cost : c.cost[s] \in Nat
  BY <1>1 DEF ConfigurationOK
<1>3. IsFiniteSet(Image)
  BY <1>2, ImagesAreFinite
<1>4. IsFiniteSet({0} \cup Image)
  BY <1>3, FS_Singleton, FS_Union
<1>5. {0} \cup Image \in SUBSET Nat
  BY <1>2
<1>6. Max({0} \cup Image) \in {0} \cup Image /\ \A y \in {0} \cup Image : Max({0} \cup Image) >= y
  <2>1. {0} \cup Image \in SUBSET Int /\ {0} \cup Image # {}
    BY <1>5
  <2> HIDE DEF Image
  <2> QED
    BY <1>4, <2>1, MaxOfSet
<1>7. Max({0} \cup Image) \in Nat
  BY <1>5, <1>6
<1>8. MaxIntegerOf(c) = 1 + Max({0} \cup Image)
  BY DEF MaxIntegerOf, NoSolutionOf
<1>9. \A s \in DOMAIN c.cost : c.cost[s] \in Image
  OBVIOUS
<1> HIDE DEF Image
<1> QED
  BY <1>2, <1>6, <1>7, <1>8, <1>9

(* What the assumption says of the configuration that was chosen.          *)
LEMMA ConfigurationFacts ==
  ASSUME config \in Configurations
  PROVE  /\ ConfigurationOK(config)
         /\ Improving \subseteq Feasible /\ Feasible \subseteq [config.variables -> BOOLEAN]
         /\ \A s \in Feasible : Cost[s] \in Nat /\ Cost[s] < MaxInteger
         /\ MaxInteger \in Nat \ {0} /\ NoSolution = MaxInteger
BY TreeAssumption, CostsAreBounded
  DEF ConfigurationOK, Improving, Feasible, Cost, MaxInteger, NoSolution, MaxIntegerOf

(* One of a literal and its negation is true in a solution.                *)
LEMMA LiteralOrNegation ==
  ASSUME config \in Configurations, NEW s \in Feasible,
         NEW lit \in Literals(config.variables)
  PROVE  Holds(s, Negated(lit)) <=> ~ Holds(s, lit)
<1>1. s \in [config.variables -> BOOLEAN]
  BY ConfigurationFacts
<1>2. lit[1] \in config.variables /\ lit[2] \in BOOLEAN
  BY DEF Literals
<1>3. s[lit[1]] \in BOOLEAN
  BY <1>1, <1>2
<1> QED
  BY <1>2, <1>3 DEF Holds, Satisfies, Negated

(* The negation of a literal is a literal.                                 *)
LEMMA NegatedIsLiteral ==
  ASSUME NEW variables, NEW lit \in Literals(variables)
  PROVE  Negated(lit) \in Literals(variables)
<1>1. lit[1] \in variables /\ lit[2] \in BOOLEAN
  BY DEF Literals
<1>2. (~ lit[2]) \in BOOLEAN
  <2>1. CASE lit[2] = TRUE
    BY <2>1, Zenon
  <2>2. CASE lit[2] = FALSE
    BY <2>2, Zenon
  <2> QED
    BY <1>1, <2>1, <2>2
<1> QED
  BY <1>1, <1>2 DEF Literals, Negated

(* Sets of literals are satisfied together.                                *)
LEMMA SatisfiesUnion ==
  ASSUME NEW s, NEW A, NEW B
  PROVE  /\ Satisfies(s, A \cup B) <=> Satisfies(s, A) /\ Satisfies(s, B)
         /\ Satisfies(s, {})
         /\ A \subseteq B /\ Satisfies(s, B) => Satisfies(s, A)
BY DEF Satisfies

-----------------------------------------------------------------------------
(* The ancestors of a node, itself among them.                             *)
LEMMA AncestorsDefined ==
  ASSUME NEW t, ParentsComeFirst(t), NEW n \in DOMAIN t
  PROVE  /\ Ancestors(t, n) \subseteq DOMAIN t
         /\ Ancestors(t, n) = {n} \cup (IF n = Root THEN {} ELSE Ancestors(t, t[n].parent))
<1> DEFINE D == 1..Len(t)
           T == SUBSET D
           Step(f, m) == {m} \cup (IF m = Root THEN {} ELSE f[t[m].parent])
           G == [f \in [D -> T] |-> [m \in D |-> Step(f, m)]]
           IsUp(f) == f = [m \in DOMAIN t |-> Step(f, m)]
           up == CHOOSE f : IsUp(f)
<1>1. Len(t) \in Nat /\ DOMAIN t = D /\ 1 \in D
  BY DEF ParentsComeFirst
<1>2. \A m \in D : m # Root => t[m].parent \in D /\ t[m].parent < m
  BY <1>1 DEF ParentsComeFirst, Root
<1>3. ASSUME NEW f \in [D -> T] PROVE G[f] \in [D -> T]
  BY <1>2
<1>4. HasFixedPoint(G, Len(t), T)
  <2>1. IsStep(G, Len(t), T)
    BY <1>1, <1>3 DEF IsStep
  <2>2. DependsOnEarlier(G, Len(t), T)
    <3> SUFFICES ASSUME NEW f \in [D -> T], NEW g \in [D -> T], NEW m \in D,
                        \A k \in 1..(m - 1) : f[k] = g[k]
                 PROVE  G[f][m] = G[g][m]
      BY DEF DependsOnEarlier
    <3>1. m # Root => f[t[m].parent] = g[t[m].parent]
      BY <1>2
    <3> QED
      BY <3>1
  <2> QED
    BY <2>1, <2>2, UpwardRecursion
<1>5. \E f \in [D -> T] : IsUp(f)
  BY <1>1, <1>4 DEF HasFixedPoint
<1>6. IsUp(up)
  <2> HIDE DEF IsUp
  <2> QED
    BY <1>5
<1>7. \A m \in DOMAIN t : up[m] = Step(up, m)
  <2> HIDE DEF up
  <2> QED
    BY <1>6
<1>8. \A m \in DOMAIN t : Ancestors(t, m) = up[m]
  BY DEF Ancestors
<1>9. Ancestors(t, n) = {n} \cup (IF n = Root THEN {} ELSE Ancestors(t, t[n].parent))
  <2> HIDE DEF up
  <2> QED
    BY <1>1, <1>2, <1>7, <1>8
<1>10. D \subseteq {m \in D : up[m] \subseteq D}
  <2>1. ASSUME NEW m \in D, \A k \in 1..(m - 1) : k \in {i \in D : up[i] \subseteq D}
        PROVE  m \in {i \in D : up[i] \subseteq D}
    <3> HIDE DEF up
    <3> QED
      BY <1>1, <1>2, <1>7, <2>1
  <2> HIDE DEF up
  <2> QED
    BY <1>1, <2>1, IntervalInduction
<1> HIDE DEF up
<1> QED
  BY <1>1, <1>8, <1>9, <1>10

-----------------------------------------------------------------------------
(* What the shape says, in the form that proofs cite.                      *)
LEMMA TreeFacts ==
  ASSUME NEW t, TreeShape(t)
  PROVE  /\ ParentsComeFirst(t) /\ t \in Seq(Nodes)
         /\ Len(t) \in Nat /\ Len(t) >= 1 /\ DOMAIN t = 1..Len(t)
         /\ Root = 1 /\ Root \in DOMAIN t /\ ~ t[Root].implied /\ t[Root].parent = 0
         /\ \A n \in DOMAIN t : t[n] \in Nodes
         /\ \A n \in 2..Len(t) : t[n].parent \in DOMAIN t /\ t[n].parent < n
<1>1. ParentsComeFirst(t) /\ ~ t[Root].implied
  BY DEF TreeShape
<1>2. t \in Seq(Nodes) /\ t # <<>> /\ Root = 1 /\ t[Root].parent = 0
  BY <1>1 DEF ParentsComeFirst, Root
<1>3. Len(t) \in Nat /\ Len(t) >= 1 /\ DOMAIN t = 1..Len(t)
  BY <1>2
<1>4. \A n \in DOMAIN t : t[n] \in Nodes
  BY <1>2
<1>5. \A n \in 2..Len(t) : t[n].parent \in DOMAIN t /\ t[n].parent < n
  BY <1>1, <1>3 DEF ParentsComeFirst
<1> QED
  BY <1>1, <1>2, <1>3, <1>4, <1>5

(* The root and the node are ancestors, and ancestry is transitive.        *)
LEMMA AncestorsFacts ==
  ASSUME NEW t, ParentsComeFirst(t), NEW n \in DOMAIN t
  PROVE  /\ n \in Ancestors(t, n) /\ Root \in Ancestors(t, n)
         /\ \A m \in Ancestors(t, n) : m <= n /\ Ancestors(t, m) \subseteq Ancestors(t, n)
<1> DEFINE Good == {k \in DOMAIN t :
                      /\ Root \in Ancestors(t, k)
                      /\ \A m \in Ancestors(t, k) :
                           m <= k /\ Ancestors(t, m) \subseteq Ancestors(t, k)}
<1>1. Len(t) \in Nat /\ DOMAIN t = 1..Len(t) /\ Root = 1
  BY DEF ParentsComeFirst, Root
<1>2. ASSUME NEW k \in 1..Len(t), \A m \in 1..(k - 1) : m \in Good
      PROVE  k \in Good
  <2>1. Ancestors(t, k) = {k} \cup (IF k = Root THEN {} ELSE Ancestors(t, t[k].parent))
    BY <1>1, AncestorsDefined
  <2>2. CASE k = Root
    BY <1>1, <2>1, <2>2
  <2>3. CASE k # Root
    <3>1. t[k].parent \in 1..(k - 1)
      BY <1>1, <2>3 DEF ParentsComeFirst
    <3>2. t[k].parent \in Good
      BY <1>2, <3>1
    <3>3. Ancestors(t, k) = {k} \cup Ancestors(t, t[k].parent)
      BY <2>1, <2>3
    <3>4. \A m \in Ancestors(t, t[k].parent) : m \in 1..Len(t)
      BY <1>1, <3>1, AncestorsDefined
    <3>5. Root \in Ancestors(t, k)
      BY <3>2, <3>3
    <3>6. \A m \in Ancestors(t, k) : m <= k /\ Ancestors(t, m) \subseteq Ancestors(t, k)
      BY <3>1, <3>2, <3>3, <3>4
    <3> QED
      BY <1>1, <3>5, <3>6
  <2> QED
    BY <2>2, <2>3
<1>3. 1..Len(t) \subseteq Good
  <2> HIDE DEF Good
  <2> QED
    BY <1>1, <1>2, IntervalInduction
<1> QED
  BY <1>1, <1>3, AncestorsDefined

(* Ancestors depend on the parents only, and no new node changes them.     *)
LEMMA SameAncestors ==
  ASSUME NEW t, NEW u, ParentsComeFirst(t), ParentsComeFirst(u), Len(t) <= Len(u),
         \A n \in 2..Len(t) : u[n].parent = t[n].parent
  PROVE  \A n \in DOMAIN t : Ancestors(u, n) = Ancestors(t, n)
<1> DEFINE Good == {n \in DOMAIN t : Ancestors(u, n) = Ancestors(t, n)}
<1>1. /\ Len(t) \in Nat /\ DOMAIN t = 1..Len(t) /\ Root = 1
      /\ Len(u) \in Nat /\ DOMAIN u = 1..Len(u)
  BY DEF ParentsComeFirst, Root
<1>2. ASSUME NEW k \in 1..Len(t), \A m \in 1..(k - 1) : m \in Good
      PROVE  k \in Good
  <2>1. k \in DOMAIN t /\ k \in DOMAIN u
    BY <1>1
  <2>2. Ancestors(t, k) = {k} \cup (IF k = Root THEN {} ELSE Ancestors(t, t[k].parent))
    BY <2>1, AncestorsDefined
  <2>3. Ancestors(u, k) = {k} \cup (IF k = Root THEN {} ELSE Ancestors(u, u[k].parent))
    BY <2>1, AncestorsDefined
  <2>4. k # Root => t[k].parent \in 1..(k - 1) /\ u[k].parent = t[k].parent
    BY <1>1 DEF ParentsComeFirst
  <2> QED
    BY <1>2, <2>1, <2>2, <2>3, <2>4
<1>3. 1..Len(t) \subseteq Good
  <2> HIDE DEF Good
  <2> QED
    BY <1>1, <1>2, IntervalInduction
<1> QED
  BY <1>1, <1>3

-----------------------------------------------------------------------------
(* The solutions of a node: those of its parent with its literal.          *)
LEMMA SolutionsDefined ==
  ASSUME NEW t, ParentsComeFirst(t)
  PROVE  /\ SolutionsIn(t, Root) = Improving
         /\ \A n \in 2..Len(t) :
              SolutionsIn(t, n) = {s \in SolutionsIn(t, t[n].parent) : Satisfies(s, {t[n].literal})}
<1>1. Len(t) \in Nat /\ DOMAIN t = 1..Len(t) /\ Root = 1 /\ Len(t) >= 1
  BY DEF ParentsComeFirst, Root
<1>2. SolutionsIn(t, Root) = Improving
  <2>1. Ancestors(t, Root) = {Root}
    BY <1>1, AncestorsDefined
  <2> QED
    BY <2>1 DEF SolutionsIn, Satisfies
<1>3. ASSUME NEW n \in 2..Len(t)
      PROVE  SolutionsIn(t, n) = {s \in SolutionsIn(t, t[n].parent) : Satisfies(s, {t[n].literal})}
  <2> DEFINE Literal(A) == {t[m].literal : m \in A \ {Root}}
  <2>1. Ancestors(t, n) = {n} \cup Ancestors(t, t[n].parent)
    BY <1>1, AncestorsDefined
  <2>2. Literal(Ancestors(t, n)) = {t[n].literal} \cup Literal(Ancestors(t, t[n].parent))
    BY <1>1, <2>1
  <2>3. \A s : Satisfies(s, Literal(Ancestors(t, n))) <=>
                 /\ Satisfies(s, {t[n].literal})
                 /\ Satisfies(s, Literal(Ancestors(t, t[n].parent)))
    <3> HIDE DEF Literal
    <3> QED
      BY <2>2, SatisfiesUnion
  <2>4. \A m : SolutionsIn(t, m) = {s \in Improving : Satisfies(s, Literal(Ancestors(t, m)))}
    BY DEF SolutionsIn
  <2> HIDE DEF Literal
  <2> QED
    BY <2>3, <2>4
<1> QED
  BY <1>2, <1>3

(* Nor does a new node change the solutions of the others.                 *)
LEMMA SameSolutions ==
  ASSUME NEW t, NEW u, ParentsComeFirst(t), ParentsComeFirst(u), Len(t) <= Len(u),
         \A n \in 2..Len(t) : u[n].parent = t[n].parent /\ u[n].literal = t[n].literal
  PROVE  \A n \in DOMAIN t : SolutionsIn(u, n) = SolutionsIn(t, n)
<1> SUFFICES ASSUME NEW n \in DOMAIN t PROVE SolutionsIn(u, n) = SolutionsIn(t, n)
  OBVIOUS
<1>1. Len(t) \in Nat /\ DOMAIN t = 1..Len(t) /\ Root = 1
  BY DEF ParentsComeFirst, Root
<1>2. Ancestors(u, n) = Ancestors(t, n)
  BY SameAncestors
<1>3. Ancestors(t, n) \ {Root} \subseteq 2..Len(t)
  BY <1>1, AncestorsDefined
<1>4. {u[m].literal : m \in Ancestors(u, n) \ {Root}} = {t[m].literal : m \in Ancestors(t, n) \ {Root}}
  BY <1>2, <1>3
<1> QED
  BY <1>4 DEF SolutionsIn

(* An ancestor has the solutions of the node, with its literal.            *)
LEMMA SolutionsOfAncestors ==
  ASSUME NEW t, ParentsComeFirst(t), NEW n \in DOMAIN t, NEW m \in Ancestors(t, n)
  PROVE  /\ SolutionsIn(t, n) \subseteq SolutionsIn(t, m)
         /\ m # Root => \A s \in SolutionsIn(t, n) : Satisfies(s, {t[m].literal})
<1>1. Ancestors(t, m) \subseteq Ancestors(t, n)
  BY AncestorsFacts
<1> QED
  BY <1>1 DEF SolutionsIn, Satisfies

(* The two children of a node share its solutions.                         *)
LEMMA SiblingFacts ==
  ASSUME NEW t, TreeShape(t), NEW n \in 2..Len(t)
  PROVE  /\ Sibling(t, n) \in 2..Len(t) /\ Sibling(t, n) # n
         /\ t[Sibling(t, n)].parent = t[n].parent
         /\ t[n].parent \in DOMAIN t /\ t[n].parent < n
         /\ Sibling(t, Sibling(t, n)) = n
         /\ t[n].literal \in Literals(config.variables)
         /\ \/ t[Sibling(t, n)].literal = Negated(t[n].literal)
            \/ t[n].literal = Negated(t[Sibling(t, n)].literal)
         /\ t[n].literal \in Literals(config.variables)
         /\ t[Sibling(t, n)].literal \in Literals(config.variables)
<1>1. Len(t) \in Nat /\ DOMAIN t = 1..Len(t) /\ t[n].parent \in 1..(n - 1)
  BY DEF TreeShape, ParentsComeFirst
<1>2. n \in ChildrenOf(t, t[n].parent)
  BY DEF ChildrenOf
<1>3. PICK m \in (t[n].parent + 1)..(Len(t) - 1) :
        /\ t[t[n].parent].children = <<m, m + 1>> /\ ChildrenOf(t, t[n].parent) = {m, m + 1}
        /\ t[m].literal \in Literals(config.variables)
        /\ t[m + 1].literal = Negated(t[m].literal)
  BY <1>1, <1>2 DEF TreeShape
<1>4. t[m + 1].literal \in Literals(config.variables)
  BY <1>3, NegatedIsLiteral
<1>5. /\ m \in 2..Len(t) /\ t[m].parent = t[n].parent
      /\ m + 1 \in 2..Len(t) /\ t[m + 1].parent = t[n].parent
  BY <1>3 DEF ChildrenOf
<1>6. <<m, m + 1>>[1] = m /\ <<m, m + 1>>[2] = m + 1 /\ m # m + 1
  BY <1>5
<1>7. Sibling(t, m) = m + 1 /\ Sibling(t, m + 1) = m
  BY <1>3, <1>5, <1>6 DEF Sibling
<1>8. n = m \/ n = m + 1
  BY <1>2, <1>3
<1> QED
  BY <1>1, <1>3, <1>4, <1>5, <1>6, <1>7, <1>8

(* The solutions of a node are those of its two children.                  *)
LEMMA SolutionsOfSiblings ==
  ASSUME config \in Configurations, NEW t, TreeShape(t), NEW n \in 2..Len(t)
  PROVE  /\ SolutionsIn(t, t[n].parent) = SolutionsIn(t, n) \cup SolutionsIn(t, Sibling(t, n))
         /\ SolutionsIn(t, n) \cap SolutionsIn(t, Sibling(t, n)) = {}
<1>1. ParentsComeFirst(t)
  BY DEF TreeShape
<1> DEFINE m == Sibling(t, n)
           parent == t[n].parent
<1>2. SolutionsIn(t, n) = {s \in SolutionsIn(t, parent) : Satisfies(s, {t[n].literal})}
  BY <1>1, SolutionsDefined
<1>3. m \in 2..Len(t) /\ t[m].parent = parent
  BY SiblingFacts
<1>4. SolutionsIn(t, m) = {s \in SolutionsIn(t, t[m].parent) : Satisfies(s, {t[m].literal})}
  <2> HIDE DEF m
  <2> QED
    BY <1>1, <1>3, SolutionsDefined
<1>5. \A s \in SolutionsIn(t, parent) : Satisfies(s, {t[n].literal}) <=> ~ Satisfies(s, {t[m].literal})
  <2>1. SolutionsIn(t, parent) \subseteq Feasible
    BY DEF SolutionsIn, Improving
  <2> QED
    <3>1. PICK a, b : a = t[n].literal /\ b = t[m].literal
      OBVIOUS
    <3>2. /\ a \in Literals(config.variables) /\ b \in Literals(config.variables)
          /\ b = Negated(a) \/ a = Negated(b)
      BY <3>1, SiblingFacts
    <3>3. \A s \in Feasible : Holds(s, a) <=> ~ Holds(s, b)
      BY <3>2, LiteralOrNegation
    <3> QED
      BY <2>1, <3>1, <3>3 DEF Holds
<1> HIDE DEF m, parent
<1>6. /\ SolutionsIn(t, parent) = SolutionsIn(t, n) \cup SolutionsIn(t, m)
      /\ SolutionsIn(t, n) \cap SolutionsIn(t, m) = {}
  BY <1>2, <1>3, <1>4, <1>5
<1> QED
  BY <1>6 DEF m, parent

-----------------------------------------------------------------------------
(* The closest ancestor that keeps trail info: the nodes in between are    *)
(* implied, so that it has the same solutions.                             *)
LEMMA TrailInfoFacts ==
  ASSUME NEW t, ParentsComeFirst(t), t[Root].has_info, NEW n \in DOMAIN t
  PROVE  /\ TrailInfo(t, n) \in Ancestors(t, n) /\ t[TrailInfo(t, n)].has_info
         /\ \A m \in Ancestors(t, n) : t[m].has_info => m <= TrailInfo(t, n)
<1> DEFINE S == {m \in Ancestors(t, n) : t[m].has_info}
<1>1. Len(t) \in Nat /\ DOMAIN t = 1..Len(t)
  BY DEF ParentsComeFirst
<1>2. S \subseteq 1..Len(t)
  BY <1>1, AncestorsDefined
<1>3. IsFiniteSet(S)
  <2>1. IsFiniteSet(1..Len(t))
    BY <1>1, FS_Interval
  <2> HIDE DEF S
  <2> QED
    BY <1>2, <2>1, FS_Subset
<1>4. S # {}
  BY AncestorsFacts
<1>5. Max(S) \in S /\ \A m \in S : Max(S) >= m
  <2>1. S \in SUBSET Int
    BY <1>1, <1>2
  <2> HIDE DEF S
  <2> QED
    BY <1>3, <1>4, <2>1, MaxOfSet
<1>6. TrailInfo(t, n) = Max(S)
  BY DEF TrailInfo
<1>7. \A m \in S : m <= Max(S)
  BY <1>1, <1>2, <1>5
<1> QED
  BY <1>5, <1>6, <1>7

(* Where TrailInfo() finds the node, the solutions are the same.           *)
LEMMA SolutionsOfTrailInfo ==
  ASSUME NEW t, ParentsComeFirst(t), ClosedBelow(t), InfoIsKept(t),
         \A n \in 2..Len(t) : t[n].implied => SolutionsIn(t, n) = SolutionsIn(t, t[n].parent)
  PROVE  \A n \in DOMAIN t : ~ t[n].closed => SolutionsIn(t, TrailInfo(t, n)) = SolutionsIn(t, n)
<1> DEFINE Good == {n \in DOMAIN t :
                      ~ t[n].closed => SolutionsIn(t, TrailInfo(t, n)) = SolutionsIn(t, n)}
<1>1. Len(t) \in Nat /\ DOMAIN t = 1..Len(t) /\ Root = 1 /\ Root \in DOMAIN t
  BY DEF ParentsComeFirst, Root
<1>2. t[Root].has_info
  BY <1>1 DEF InfoIsKept
<1>3. ASSUME NEW n \in 1..Len(t), \A m \in 1..(n - 1) : m \in Good
      PROVE  n \in Good
  <2> SUFFICES ASSUME ~ t[n].closed
               PROVE  SolutionsIn(t, TrailInfo(t, n)) = SolutionsIn(t, n)
    BY <1>1
  <2>1. CASE t[n].has_info
    <3>1. n \in Ancestors(t, n) /\ \A m \in Ancestors(t, n) : m <= n /\ m \in 1..Len(t)
      BY <1>1, AncestorsFacts, AncestorsDefined
    <3>2. TrailInfo(t, n) = n
      BY <1>1, <1>2, <2>1, <3>1, TrailInfoFacts
    <3> QED
      BY <3>2
  <2>2. CASE ~ t[n].has_info
    <3>1. n # Root /\ t[n].implied
      BY <1>1, <2>2 DEF InfoIsKept
    <3>2. n \in 2..Len(t) /\ t[n].parent \in 1..(n - 1)
      BY <1>1, <3>1 DEF ParentsComeFirst
    <3>3. ~ t[t[n].parent].closed
      BY <3>2 DEF ClosedBelow
    <3>4. Ancestors(t, n) = {n} \cup Ancestors(t, t[n].parent)
      BY <1>1, <3>1, AncestorsDefined
    <3>5. {m \in Ancestors(t, n) : t[m].has_info} = {m \in Ancestors(t, t[n].parent) : t[m].has_info}
      BY <2>2, <3>4
    <3>6. TrailInfo(t, n) = TrailInfo(t, t[n].parent)
      BY <3>5 DEF TrailInfo
    <3>7. t[n].parent \in Good
      BY <1>3, <3>2
    <3> QED
      BY <3>1, <3>2, <3>3, <3>6, <3>7
  <2> QED
    BY <2>1, <2>2
<1>4. 1..Len(t) \subseteq Good
  <2> HIDE DEF Good
  <2> QED
    BY <1>1, <1>3, IntervalInduction
<1> QED
  BY <1>1, <1>4

-----------------------------------------------------------------------------
(* What two such trees have in common.                                     *)
LEMMA SameTreeFacts ==
  ASSUME NEW t, NEW u, TreeShape(t), SameTree(t, u), ~ u[Root].implied
  PROVE  /\ TreeShape(u) /\ DOMAIN u = DOMAIN t
         /\ \A n \in DOMAIN t : Ancestors(u, n) = Ancestors(t, n)
         /\ \A n \in DOMAIN t : SolutionsIn(u, n) = SolutionsIn(t, n)
         /\ \A n \in 2..Len(t) : Sibling(u, n) = Sibling(t, n)
<1>1. ParentsComeFirst(t) /\ Root \in DOMAIN t /\ Len(t) \in Nat /\ DOMAIN t = 1..Len(t)
  BY DEF TreeShape, ParentsComeFirst, Root
<1>2. DOMAIN u = DOMAIN t /\ Len(u) = Len(t)
  BY <1>1 DEF SameTree
<1>3. ParentsComeFirst(u)
  <2>1. u \in Seq(Nodes) /\ u # <<>>
    BY <1>1, <1>2 DEF SameTree
  <2>2. u[Root].parent = 0
    BY <1>1 DEF SameTree, ParentsComeFirst
  <2>3. \A n \in 2..Len(u) : u[n].parent \in 1..(n - 1)
    BY <1>1, <1>2 DEF SameTree, ParentsComeFirst
  <2> QED
    BY <2>1, <2>2, <2>3 DEF ParentsComeFirst
<1>4. \A n \in DOMAIN t : ChildrenOf(u, n) = ChildrenOf(t, n)
  BY <1>1, <1>2 DEF SameTree, ChildrenOf
<1>5. TreeShape(u)
  <2>1. ASSUME NEW n \in DOMAIN u
        PROVE  \/ u[n].children = <<>> /\ ChildrenOf(u, n) = {}
               \/ \E m \in (n + 1)..(Len(u) - 1) :
                    /\ u[n].children = <<m, m + 1>> /\ ChildrenOf(u, n) = {m, m + 1}
                    /\ u[m].literal \in Literals(config.variables)
                    /\ u[m + 1].literal = Negated(u[m].literal)
    <3>1. CASE t[n].children = <<>> /\ ChildrenOf(t, n) = {}
      BY <1>2, <1>4, <3>1 DEF SameTree
    <3>2. CASE \E m \in (n + 1)..(Len(t) - 1) :
                    /\ t[n].children = <<m, m + 1>> /\ ChildrenOf(t, n) = {m, m + 1}
                    /\ t[m].literal \in Literals(config.variables)
                    /\ t[m + 1].literal = Negated(t[m].literal)
      <4>1. PICK m \in (n + 1)..(Len(t) - 1) :
                    /\ t[n].children = <<m, m + 1>> /\ ChildrenOf(t, n) = {m, m + 1}
                    /\ t[m].literal \in Literals(config.variables)
                    /\ t[m + 1].literal = Negated(t[m].literal)
        BY <3>2
      <4>2. m \in DOMAIN t /\ m + 1 \in DOMAIN t
        BY <1>1, <1>2
      <4> QED
        BY <1>2, <1>4, <4>1, <4>2 DEF SameTree
    <3> QED
      BY <1>2, <3>1, <3>2 DEF TreeShape
  <2> QED
    BY <1>3, <2>1 DEF TreeShape
<1>6. /\ \A n \in 2..Len(t) : u[n].parent = t[n].parent /\ u[n].literal = t[n].literal
      /\ Len(t) <= Len(u)
  BY <1>1, <1>2 DEF SameTree
<1>7. \A n \in DOMAIN t : Ancestors(u, n) = Ancestors(t, n)
  BY <1>1, <1>3, <1>6, SameAncestors
<1>8. \A n \in DOMAIN t : SolutionsIn(u, n) = SolutionsIn(t, n)
  BY <1>1, <1>3, <1>6, SameSolutions
<1>9. \A n \in 2..Len(t) : Sibling(u, n) = Sibling(t, n)
  <2> SUFFICES ASSUME NEW n \in 2..Len(t) PROVE Sibling(u, n) = Sibling(t, n)
    OBVIOUS
  <2>1. u[n].parent = t[n].parent /\ t[n].parent \in DOMAIN t
    BY <1>1, <1>6, SiblingFacts
  <2>2. u[u[n].parent].children = t[t[n].parent].children
    BY <2>1 DEF SameTree
  <2> QED
    BY <2>2 DEF Sibling
<1> QED
  BY <1>2, <1>5, <1>7, <1>8, <1>9

-----------------------------------------------------------------------------
(* ClosedWith(): the nodes that are closed with those of to_close.         *)
IsClosedWith(t, to_close, n) == t[n].closed \/ n \in ClosedWith(t, to_close)

(* The recursive function of ClosedWith() is defined.                      *)
LEMMA ClosedWithDefined ==
  ASSUME NEW t, TreeShape(t), NEW to_close, NEW n \in DOMAIN t
  PROVE  IsClosedWith(t, to_close, n) <=>
           \/ t[n].closed \/ Ancestors(t, n) \cap to_close # {}
           \/ ~ IsLeaf(t, n) /\ \A i \in 1..2 : IsClosedWith(t, to_close, t[n].children[i])
<1> DEFINE D == 1..Len(t)
           T == BOOLEAN
           below == {m \in DOMAIN t : Ancestors(t, m) \cap to_close # {}}
           Step(f, m) == \/ t[m].closed \/ m \in below
                         \/ ~ IsLeaf(t, m) /\ \A i \in 1..2 : f[t[m].children[i]]
           G == [f \in [D -> T] |-> [m \in D |-> Step(f, m)]]
           IsBoth(f) == f = [m \in DOMAIN t |-> Step(f, m)]
           both == CHOOSE f : IsBoth(f)
<1>1. Len(t) \in Nat /\ DOMAIN t = D
  BY DEF TreeShape, ParentsComeFirst
<1>2. \A m \in D : ~ IsLeaf(t, m) =>
        \A i \in 1..2 : t[m].children[i] \in D /\ t[m].children[i] > m
  <2> SUFFICES ASSUME NEW m \in D, ~ IsLeaf(t, m), NEW i \in 1..2
               PROVE  t[m].children[i] \in D /\ t[m].children[i] > m
    OBVIOUS
  <2>1. PICK k \in (m + 1)..(Len(t) - 1) : t[m].children = <<k, k + 1>>
    BY <1>1 DEF TreeShape, IsLeaf
  <2> QED
    BY <1>1, <2>1
<1>3. ASSUME NEW f \in [D -> T] PROVE G[f] \in [D -> T]
  <2>1. \A m \in D : Step(f, m) \in BOOLEAN
    BY Zenon
  <2>2. G[f] = [m \in D |-> Step(f, m)]
    BY Zenon
  <2> HIDE DEF Step, G
  <2> QED
    BY <2>1, <2>2
<1>4. HasFixedPoint(G, Len(t), T)
  <2>1. IsStep(G, Len(t), T)
    <3> HIDE DEF Step
    <3> QED
      BY <1>1, <1>3 DEF IsStep
  <2>2. DependsOnLater(G, Len(t), T)
    <3> SUFFICES ASSUME NEW f \in [D -> T], NEW g \in [D -> T], NEW m \in D,
                        \A k \in (m + 1)..Len(t) : f[k] = g[k]
                 PROVE  G[f][m] = G[g][m]
      BY DEF DependsOnLater
    <3>1. ~ IsLeaf(t, m) => \A i \in 1..2 : f[t[m].children[i]] = g[t[m].children[i]]
      BY <1>1, <1>2
    <3>2. Step(f, m) = Step(g, m)
      BY <3>1, Zenon
    <3> HIDE DEF Step
    <3> QED
      BY <3>2
  <2> QED
    BY <2>1, <2>2, DownwardRecursion
<1>5. PICK f \in [D -> T] : IsBoth(f)
  <2> HIDE DEF Step
  <2> QED
    BY <1>1, <1>4 DEF HasFixedPoint
<1>6. IsBoth(both)
  <2> HIDE DEF IsBoth
  <2> QED
    BY <1>5
<1>7. ASSUME NEW m \in DOMAIN t PROVE both[m] = Step(both, m)
  <2> HIDE DEF both, Step
  <2> QED
    BY <1>6
<1>8. ClosedWith(t, to_close) = {m \in DOMAIN t : both[m] /\ ~ t[m].closed}
  BY Zenon DEF ClosedWith
<1>9. ASSUME NEW m \in DOMAIN t PROVE IsClosedWith(t, to_close, m) <=> both[m]
  <2>1. t[m].closed => both[m]
    <3> HIDE DEF both
    <3> QED
      BY <1>7, Zenon
  <2> HIDE DEF both
  <2> QED
    BY <1>8, <2>1, Zenon DEF IsClosedWith
<1>10. both[n] <=> Step(both, n)
  BY <1>7, Zenon
<1>11. ~ IsLeaf(t, n) => \A i \in 1..2 : t[n].children[i] \in DOMAIN t
  BY <1>1, <1>2
<1> HIDE DEF both
<1> QED
  BY <1>9, <1>10, <1>11, Zenon

(* What is closed has no solution, nor has what is below it.               *)
LEMMA ClosedWithFacts ==
  ASSUME config \in Configurations, NEW t, GoodTree(t),
         NEW to_close, \A n \in DOMAIN t : n \in to_close => SolutionsIn(t, n) = {}
  PROVE  /\ ClosedWith(t, to_close) \subseteq DOMAIN t
         /\ \A n \in DOMAIN t : Ancestors(t, n) \cap to_close # {} => IsClosedWith(t, to_close, n)
         /\ \A n \in DOMAIN t : IsClosedWith(t, to_close, n) => SolutionsIn(t, n) = {}
         /\ \A n \in 2..Len(t) :
              IsClosedWith(t, to_close, t[n].parent) => IsClosedWith(t, to_close, n)
<1> DEFINE C(n) == IsClosedWith(t, to_close, n)
<1>1. TreeShape(t) /\ ParentsComeFirst(t) /\ Len(t) \in Nat /\ DOMAIN t = 1..Len(t)
  BY TreeFacts DEF GoodTree
<1>2. ClosedWith(t, to_close) \subseteq DOMAIN t
  BY DEF ClosedWith
<1>3. \A n \in DOMAIN t : Ancestors(t, n) \cap to_close # {} => C(n)
  BY <1>1, ClosedWithDefined
<1>4. ASSUME NEW n \in DOMAIN t, ~ IsLeaf(t, n)
      PROVE  \E m \in (n + 1)..(Len(t) - 1) :
               /\ t[n].children[1] = m /\ t[n].children[2] = m + 1
               /\ ChildrenOf(t, n) = {m, m + 1}
  <2>1. PICK m \in (n + 1)..(Len(t) - 1) :
          t[n].children = <<m, m + 1>> /\ ChildrenOf(t, n) = {m, m + 1}
    BY <1>1, <1>4 DEF TreeShape, IsLeaf
  <2> QED
    BY <2>1
<1>5. \A n \in DOMAIN t : C(n) => SolutionsIn(t, n) = {}
  <2> DEFINE Good == {n \in DOMAIN t : C(n) => SolutionsIn(t, n) = {}}
  <2>1. ASSUME NEW n \in 1..Len(t), \A m \in (n + 1)..Len(t) : m \in Good
        PROVE  n \in Good
    <3> SUFFICES ASSUME C(n) PROVE SolutionsIn(t, n) = {}
      BY <1>1
    <3>1. CASE t[n].closed
      BY <1>1, <3>1 DEF GoodTree, TreeSound
    <3>2. CASE Ancestors(t, n) \cap to_close # {}
      <4>1. PICK m \in Ancestors(t, n) : m \in to_close
        BY <3>2
      <4>2. m \in DOMAIN t
        BY <1>1, AncestorsDefined
      <4>3. SolutionsIn(t, m) = {}
        BY <4>1, <4>2
      <4>4. SolutionsIn(t, n) \subseteq SolutionsIn(t, m)
        BY <1>1, SolutionsOfAncestors
      <4> QED
        BY <4>3, <4>4
    <3>3. CASE ~ IsLeaf(t, n) /\ \A i \in 1..2 : C(t[n].children[i])
      <4>1. PICK m \in (n + 1)..(Len(t) - 1) :
               /\ t[n].children[1] = m /\ t[n].children[2] = m + 1
               /\ ChildrenOf(t, n) = {m, m + 1}
        BY <1>1, <1>4, <3>3
      <4>2. m \in Good /\ m + 1 \in Good
        BY <1>1, <2>1
      <4>3. SolutionsIn(t, m) = {} /\ SolutionsIn(t, m + 1) = {}
        BY <3>3, <4>1, <4>2
      <4>4. m \in 2..Len(t) /\ t[m].parent = n
        BY <4>1 DEF ChildrenOf
      <4>5. Sibling(t, m) = m + 1
        BY <4>1, <4>4 DEF Sibling
      <4>6. SolutionsIn(t, t[m].parent) = SolutionsIn(t, m) \cup SolutionsIn(t, Sibling(t, m))
        BY <1>1, <4>4, SolutionsOfSiblings
      <4> QED
        BY <4>3, <4>4, <4>5, <4>6
    <3> QED
      BY <1>1, <3>1, <3>2, <3>3, ClosedWithDefined
  <2>2. 1..Len(t) \subseteq Good
    <3> HIDE DEF Good
    <3> QED
      BY <1>1, <2>1, DownwardInduction
  <2> QED
    BY <1>1, <2>2
<1>6. ASSUME NEW n \in 2..Len(t), C(t[n].parent) PROVE C(n)
  <2>1. t[n].parent \in DOMAIN t /\ n \in DOMAIN t
    BY <1>1 DEF ParentsComeFirst
  <2>2. CASE t[t[n].parent].closed
    BY <2>2 DEF GoodTree, ClosedBelow, IsClosedWith
  <2>3. CASE Ancestors(t, t[n].parent) \cap to_close # {}
    <3>1. Ancestors(t, t[n].parent) \subseteq Ancestors(t, n)
      BY <1>1, <2>1, AncestorsDefined DEF Root
    <3> QED
      BY <1>3, <2>1, <2>3, <3>1
  <2>4. CASE ~ IsLeaf(t, t[n].parent) /\ \A i \in 1..2 : C(t[t[n].parent].children[i])
    <3>1. PICK m \in DOMAIN t :
               /\ t[t[n].parent].children[1] = m /\ t[t[n].parent].children[2] = m + 1
               /\ ChildrenOf(t, t[n].parent) = {m, m + 1}
      BY <1>1, <1>4, <2>1, <2>4
    <3>2. n \in {m, m + 1}
      BY <3>1 DEF ChildrenOf
    <3> QED
      BY <2>4, <3>1, <3>2
  <2> QED
    BY <1>1, <1>6, <2>1, <2>2, <2>3, <2>4, ClosedWithDefined
<1> QED
  BY <1>2, <1>3, <1>5, <1>6

-----------------------------------------------------------------------------
(* ProcessNodeChanges(), step by step.                                     *)
LEMMA CloseNodesFacts ==
  ASSUME config \in Configurations, NEW t, GoodTree(t),
         NEW to_close, \A n \in DOMAIN t : n \in to_close => SolutionsIn(t, n) = {},
         NEW newly, newly = ClosedWith(t, to_close),
         NEW u, u = CloseNodes(t, newly)
  PROVE  /\ SameTree(t, u) /\ TreeShape(u) /\ ClosedBelow(u) /\ TreeSound(u)
         /\ \A n \in DOMAIN t :
              /\ u[n].closed <=> IsClosedWith(t, to_close, n)
              /\ u[n].implied <=> t[n].implied \/ (n # Root /\ Sibling(t, n) \in newly)
              /\ u[n].has_info <=> IF n \in newly THEN n = Root ELSE t[n].has_info
              /\ u[n].lb = IF n \in newly THEN MaxInteger ELSE t[n].lb
<1>1. /\ TreeShape(t) /\ ParentsComeFirst(t) /\ t \in Seq(Nodes)
      /\ Len(t) \in Nat /\ Len(t) >= 1 /\ DOMAIN t = 1..Len(t)
      /\ Root = 1 /\ Root \in DOMAIN t /\ ~ t[Root].implied
      /\ \A n \in DOMAIN t : t[n] \in Nodes
  BY TreeFacts DEF GoodTree
<1>2. /\ newly \subseteq DOMAIN t
      /\ \A n \in DOMAIN t : IsClosedWith(t, to_close, n) => SolutionsIn(t, n) = {}
      /\ \A n \in 2..Len(t) :
           IsClosedWith(t, to_close, t[n].parent) => IsClosedWith(t, to_close, n)
  BY ClosedWithFacts
<1>3. \A n \in DOMAIN t : IsClosedWith(t, to_close, n) <=> t[n].closed \/ n \in newly
  BY DEF IsClosedWith
<1>4. MaxInteger \in 0..MaxInteger
  BY ConfigurationFacts
<1> DEFINE Closed(n) == t[n].closed \/ n \in newly
           Implied(n) == t[n].implied \/ (n # Root /\ Sibling(t, n) \in newly)
           Info(n) == IF n \in newly THEN n = Root ELSE t[n].has_info
           Lb(n) == IF n \in newly THEN MaxInteger ELSE t[n].lb
           Implications_(n) == IF n \in newly THEN {} ELSE t[n].implications
<1>5. ASSUME NEW n \in DOMAIN t
      PROVE  /\ u[n] \in Nodes
             /\ u[n].literal = t[n].literal /\ u[n].parent = t[n].parent
             /\ u[n].children = t[n].children /\ u[n].lb = Lb(n)
             /\ u[n].closed = Closed(n) /\ u[n].implied = Implied(n)
             /\ u[n].has_info = Info(n) /\ u[n].implications = Implications_(n)
  <2>1. u[n] = [literal |-> t[n].literal, lb |-> Lb(n), parent |-> t[n].parent,
                children |-> t[n].children, closed |-> Closed(n), implied |-> Implied(n),
                has_info |-> Info(n), implications |-> Implications_(n)]
    BY <1>1 DEF CloseNodes, Nodes
  <2>2. t[n].closed \in BOOLEAN /\ t[n].implied \in BOOLEAN /\ t[n].has_info \in BOOLEAN
    BY <1>1 DEF Nodes
  <2>3. Closed(n) \in BOOLEAN /\ Implied(n) \in BOOLEAN /\ Info(n) \in BOOLEAN
    BY <2>2, Zenon
  <2>4. Lb(n) \in 0..MaxInteger /\ Implications_(n) \in SUBSET Literals(config.variables)
    BY <1>1, <1>4 DEF Nodes
  <2> HIDE DEF Closed, Implied, Info, Lb, Implications_
  <2> QED
    BY <1>1, <2>1, <2>3, <2>4 DEF Nodes
<1>6. DOMAIN u = 1..Len(t)
  BY <1>1 DEF CloseNodes
<1>8. u \in Seq(Nodes) /\ Len(u) = Len(t)
  <2>1. u = [n \in 1..Len(t) |-> u[n]]
    BY <1>1 DEF CloseNodes
  <2>2. \A n \in 1..Len(t) : u[n] \in Nodes
    BY <1>1, <1>5
  <2> QED
    BY <1>1, <2>1, <2>2
<1> HIDE DEF Closed, Implied, Info, Lb, Implications_
<1>9. SameTree(t, u)
  BY <1>1, <1>5, <1>8 DEF SameTree
<1>10. ~ u[Root].implied
  BY <1>1, <1>5, Zenon DEF Implied
<1>11. TreeShape(u) /\ \A n \in DOMAIN t : SolutionsIn(u, n) = SolutionsIn(t, n)
  BY <1>1, <1>9, <1>10, SameTreeFacts
<1>12. \A n \in DOMAIN t : u[n].closed <=> IsClosedWith(t, to_close, n)
  <2>1. \A n \in DOMAIN t : u[n].closed = Closed(n)
    BY <1>5
  <2> QED
    BY <1>3, <2>1, Zenon DEF Closed
<1>13. ClosedBelow(u)
  <2> SUFFICES ASSUME NEW n \in 2..Len(u), u[u[n].parent].closed PROVE u[n].closed
    BY DEF ClosedBelow
  <2>1. n \in DOMAIN t /\ u[n].parent = t[n].parent /\ t[n].parent \in DOMAIN t
    BY <1>1, <1>5, <1>8, TreeFacts
  <2> QED
    BY <1>2, <1>8, <1>12, <2>1
<1>14. TreeSound(u)
  <2> SUFFICES ASSUME NEW n \in DOMAIN t
               PROVE  /\ u[n].closed => SolutionsIn(t, n) = {}
                      /\ u[n].implied => SolutionsIn(t, n) = SolutionsIn(u, t[n].parent)
                      /\ \A s \in SolutionsIn(t, n) :
                           Cost[s] >= u[n].lb /\ Satisfies(s, u[n].implications)
    BY <1>1, <1>6, <1>9, <1>11 DEF TreeSound, SameTree
  <2>1. u[n].closed => SolutionsIn(t, n) = {}
    BY <1>2, <1>12
  <2>2. u[n].implied => SolutionsIn(t, n) = SolutionsIn(u, t[n].parent)
    <3> SUFFICES ASSUME u[n].implied PROVE SolutionsIn(t, n) = SolutionsIn(u, t[n].parent)
      OBVIOUS
    <3>1. n # Root
      BY <1>10
    <3>2. n \in 2..Len(t) /\ t[n].parent \in DOMAIN t
      BY <1>1, <3>1, TreeFacts
    <3>3. SolutionsIn(u, t[n].parent) = SolutionsIn(t, t[n].parent)
      BY <1>11, <3>2
    <3>4. CASE t[n].implied
      BY <3>3, <3>4 DEF GoodTree, TreeSound
    <3>5. CASE Sibling(t, n) \in newly
      <4>1. SolutionsIn(t, Sibling(t, n)) = {}
        BY <1>2, <1>3, <3>5
      <4>2. SolutionsIn(t, t[n].parent) = SolutionsIn(t, n) \cup SolutionsIn(t, Sibling(t, n))
        BY <1>1, <3>2, SolutionsOfSiblings
      <4> QED
        BY <3>3, <4>1, <4>2
    <3>6. u[n].implied = Implied(n)
      BY <1>5
    <3> QED
      BY <3>1, <3>4, <3>5, <3>6 DEF Implied
  <2>3. ASSUME NEW s \in SolutionsIn(t, n)
        PROVE  Cost[s] >= u[n].lb /\ Satisfies(s, u[n].implications)
    <3>1. n \notin newly
      BY <1>2, <1>3
    <3>2. u[n].lb = t[n].lb /\ u[n].implications = t[n].implications
      BY <1>5, <3>1 DEF Lb, Implications_
    <3> QED
      BY <3>2 DEF GoodTree, TreeSound
  <2> QED
    BY <2>1, <2>2, <2>3
<1>15. ASSUME NEW n \in DOMAIN t
       PROVE  /\ u[n].implied <=> t[n].implied \/ (n # Root /\ Sibling(t, n) \in newly)
              /\ u[n].has_info <=> IF n \in newly THEN n = Root ELSE t[n].has_info
              /\ u[n].lb = IF n \in newly THEN MaxInteger ELSE t[n].lb
  <2>1. u[n].implied = Implied(n) /\ u[n].has_info = Info(n) /\ u[n].lb = Lb(n)
    BY <1>5
  <2> QED
    BY <2>1, Zenon DEF Implied, Info, Lb
<1> QED
  BY <1>9, <1>11, <1>12, <1>13, <1>14, <1>15

(* MoveImplications() ends with trail info on the right nodes.             *)
LEMMA MoveImplicationsFacts ==
  ASSUME NEW t, TreeShape(t), ClosedBelow(t), TreeSound(t), t[Root].has_info,
         \A n \in 2..Len(t) : t[n].has_info => ~ t[n].closed,
         \A n \in 2..Len(t) : ~ t[n].closed /\ ~ t[n].implied => t[n].has_info,
         NEW u, u = MoveImplications(t)
  PROVE  /\ GoodTree(u) /\ SameTree(t, u)
         /\ \A n \in DOMAIN t :
              u[n].closed = t[n].closed /\ u[n].implied = t[n].implied /\ u[n].lb = t[n].lb
<1> DEFINE moves == {n \in DOMAIN t : n # Root /\ t[n].implied /\ t[n].has_info}
           kept == [n \in DOMAIN t |-> [t[n] EXCEPT !.has_info = @ /\ n \notin moves]]
           moved(n) == UNION {t[m].implications : m \in {k \in moves : TrailInfo(kept, k) = n}}
           Info(n) == t[n].has_info /\ n \notin moves
           Implications_(n) == IF n = Root \/ n \in moves THEN {} ELSE t[n].implications \cup moved(n)
<1>1. /\ ParentsComeFirst(t) /\ t \in Seq(Nodes)
      /\ Len(t) \in Nat /\ Len(t) >= 1 /\ DOMAIN t = 1..Len(t)
      /\ Root = 1 /\ Root \in DOMAIN t /\ ~ t[Root].implied
      /\ \A n \in DOMAIN t : t[n] \in Nodes
  BY TreeFacts
<1>2. u = [n \in DOMAIN t |->
             [kept[n] EXCEPT !.implications = IF n = Root \/ n \in moves THEN {} ELSE @ \cup moved(n)]]
  BY Zenon DEF MoveImplications
<1>3. ASSUME NEW n \in DOMAIN t
      PROVE  /\ t[n] \in Nodes /\ Info(n) \in BOOLEAN
             /\ Implications_(n) \in SUBSET Literals(config.variables)
  <2>1. t[n] \in Nodes
    BY <1>1
  <2>2. Info(n) \in BOOLEAN
    <3>1. t[n].has_info \in BOOLEAN
      BY <2>1 DEF Nodes
    <3> QED
      BY <3>1, Zenon
  <2>3. \A m \in moves : m \in DOMAIN t
    OBVIOUS
  <2>4. \A m \in DOMAIN t : t[m].implications \subseteq Literals(config.variables)
    BY <1>1 DEF Nodes
  <2> HIDE DEF moves, kept
  <2> QED
    BY <2>1, <2>2, <2>3, <2>4
<1>4. ASSUME NEW n \in DOMAIN t
      PROVE  /\ kept[n] \in Nodes
             /\ kept[n].literal = t[n].literal /\ kept[n].parent = t[n].parent
             /\ kept[n].children = t[n].children /\ kept[n].closed = t[n].closed
             /\ kept[n].implied = t[n].implied /\ kept[n].has_info = Info(n)
             /\ u[n] \in Nodes
             /\ u[n].literal = t[n].literal /\ u[n].parent = t[n].parent
             /\ u[n].children = t[n].children /\ u[n].lb = t[n].lb
             /\ u[n].closed = t[n].closed /\ u[n].implied = t[n].implied
             /\ u[n].has_info = Info(n) /\ u[n].implications = Implications_(n)
  <2>1. kept[n] = [t[n] EXCEPT !.has_info = Info(n)]
    <3> HIDE DEF moves
    <3> QED
      BY <1>3 DEF Nodes
  <2>2. u[n] = [kept[n] EXCEPT !.implications = IF n = Root \/ n \in moves THEN {} ELSE @ \cup moved(n)]
    <3> HIDE DEF moves, kept, moved
    <3> QED
      BY <1>2
  <2>3. kept[n].implications = t[n].implications
    <3> HIDE DEF moves, kept, moved, Info
    <3> QED
      BY <1>3, <2>1 DEF Nodes
  <2>4. u[n] = [kept[n] EXCEPT !.implications = Implications_(n)]
    <3> HIDE DEF moves, kept, moved, Info
    <3> QED
      BY <2>2, <2>3
  <2> HIDE DEF moves, kept, moved, Info, Implications_
  <2>5. kept[n] = [literal |-> t[n].literal, lb |-> t[n].lb, parent |-> t[n].parent,
                   children |-> t[n].children, closed |-> t[n].closed, implied |-> t[n].implied,
                   has_info |-> Info(n), implications |-> t[n].implications]
    <3>1. t[n] = [literal |-> t[n].literal, lb |-> t[n].lb, parent |-> t[n].parent,
                  children |-> t[n].children, closed |-> t[n].closed, implied |-> t[n].implied,
                  has_info |-> t[n].has_info, implications |-> t[n].implications]
      BY <1>3 DEF Nodes
    <3> QED
      BY <2>1, <3>1
  <2>6. u[n] = [literal |-> t[n].literal, lb |-> t[n].lb, parent |-> t[n].parent,
                children |-> t[n].children, closed |-> t[n].closed, implied |-> t[n].implied,
                has_info |-> Info(n), implications |-> Implications_(n)]
    BY <2>4, <2>5
  <2> QED
    BY <1>3, <2>5, <2>6 DEF Nodes
<1>5. DOMAIN kept = 1..Len(t) /\ DOMAIN u = 1..Len(t)
  BY <1>1, <1>2
<1>10. kept \in Seq(Nodes) /\ Len(kept) = Len(t) /\ u \in Seq(Nodes) /\ Len(u) = Len(t)
  <2>1. kept = [n \in 1..Len(t) |-> kept[n]] /\ u = [n \in 1..Len(t) |-> u[n]]
    BY <1>1, <1>2
  <2> HIDE DEF moves, kept, moved, Info, Implications_
  <2> QED
    BY <1>1, <1>4, <2>1
<1>11. SameTree(t, kept) /\ SameTree(t, u) /\ ~ kept[Root].implied /\ ~ u[Root].implied
  <2> HIDE DEF moves, kept, moved, Info, Implications_
  <2> QED
    BY <1>1, <1>4, <1>10 DEF SameTree
<1>12. /\ TreeShape(kept) /\ \A n \in DOMAIN t : SolutionsIn(kept, n) = SolutionsIn(t, n)
       /\ TreeShape(u) /\ \A n \in DOMAIN t : SolutionsIn(u, n) = SolutionsIn(t, n)
  <2> HIDE DEF moves, kept, moved, Info, Implications_
  <2> QED
    BY <1>11, SameTreeFacts
<1>13. ClosedBelow(kept) /\ ClosedBelow(u)
  <2>1. ASSUME NEW n \in 2..Len(t) PROVE t[t[n].parent].closed => t[n].closed
    BY DEF ClosedBelow
  <2>2. \A n \in 2..Len(t) : n \in DOMAIN t /\ t[n].parent \in DOMAIN t
    BY <1>1, TreeFacts
  <2>3. \A n \in DOMAIN t : /\ kept[n].closed = t[n].closed /\ kept[n].parent = t[n].parent
                            /\ u[n].closed = t[n].closed /\ u[n].parent = t[n].parent
    <3> HIDE DEF moves, kept, moved, Info, Implications_
    <3> QED
      BY <1>4
  <2> HIDE DEF moves, kept, moved, Info, Implications_
  <2> QED
    BY <1>10, <2>1, <2>2, <2>3 DEF ClosedBelow
<1>14. ASSUME NEW n \in DOMAIN t
       PROVE  Info(n) = (n = Root \/ ~ (t[n].closed \/ t[n].implied))
  <2>1. CASE n = Root
    BY <1>1, <2>1
  <2>2. CASE n # Root
    <3>1. n \in 2..Len(t)
      BY <1>1, <2>2
    <3>2. t[n].has_info \in BOOLEAN
      BY <1>1 DEF Nodes
    <3> QED
      BY <2>2, <3>1, <3>2
  <2> QED
    BY <2>1, <2>2
<1>15. InfoIsKept(kept) /\ InfoIsKept(u)
  <2> HIDE DEF moves, kept, moved, Info, Implications_
  <2> QED
    BY <1>1, <1>4, <1>5, <1>14 DEF InfoIsKept
<1>16. ASSUME NEW n \in DOMAIN t, NEW s \in SolutionsIn(t, n) PROVE Satisfies(s, moved(n))
  <2> SUFFICES ASSUME NEW m \in moves, TrailInfo(kept, m) = n
               PROVE  Satisfies(s, t[m].implications)
    BY DEF Satisfies
  <2>1. m \in 2..Len(t) /\ ~ t[m].closed /\ m \in DOMAIN t
    BY <1>1
  <2> HIDE DEF moves, kept, moved, Info, Implications_
  <2>2. \A k \in 2..Len(kept) : kept[k].implied => SolutionsIn(kept, k) = SolutionsIn(kept, kept[k].parent)
    <3> SUFFICES ASSUME NEW k \in 2..Len(t), t[k].implied
                 PROVE  SolutionsIn(kept, k) = SolutionsIn(kept, t[k].parent)
      BY <1>1, <1>4, <1>10, TreeFacts
    <3>1. k \in DOMAIN t /\ t[k].parent \in DOMAIN t
      BY <1>1, TreeFacts
    <3>2. SolutionsIn(t, k) = SolutionsIn(t, t[k].parent)
      BY <3>1 DEF TreeSound
    <3> QED
      BY <1>12, <3>1, <3>2
  <2>3. SolutionsIn(kept, TrailInfo(kept, m)) = SolutionsIn(kept, m)
    <3>1. m \in DOMAIN kept /\ ~ kept[m].closed
      BY <1>1, <1>4, <1>5, <2>1
    <3>2. ParentsComeFirst(kept)
      BY <1>12, TreeFacts
    <3> QED
      BY <1>13, <1>15, <2>2, <3>1, <3>2, SolutionsOfTrailInfo
  <2>4. s \in SolutionsIn(t, m)
    BY <1>12, <2>1, <2>3
  <2> QED
    BY <2>1, <2>4 DEF TreeSound
<1>17. TreeSound(u)
  <2> SUFFICES ASSUME NEW n \in DOMAIN t
               PROVE  /\ u[n].closed => SolutionsIn(t, n) = {}
                      /\ u[n].implied => SolutionsIn(t, n) = SolutionsIn(u, u[n].parent)
                      /\ \A s \in SolutionsIn(t, n) :
                           Cost[s] >= u[n].lb /\ Satisfies(s, u[n].implications)
    <3> HIDE DEF moves, kept, moved, Info, Implications_
    <3> QED
      BY <1>1, <1>5, <1>12 DEF TreeSound
  <2>1. u[n].closed => SolutionsIn(t, n) = {}
    <3> HIDE DEF moves, kept, moved, Info, Implications_
    <3> QED
      BY <1>4 DEF TreeSound
  <2>2. u[n].implied => SolutionsIn(t, n) = SolutionsIn(u, u[n].parent)
    <3> HIDE DEF moves, kept, moved, Info, Implications_
    <3> SUFFICES ASSUME t[n].implied PROVE SolutionsIn(t, n) = SolutionsIn(u, t[n].parent)
      BY <1>4
    <3>1. n \in 2..Len(t) /\ t[n].parent \in DOMAIN t
      BY <1>1, TreeFacts
    <3> QED
      BY <1>12, <3>1 DEF TreeSound
  <2>3. ASSUME NEW s \in SolutionsIn(t, n)
        PROVE  Cost[s] >= u[n].lb /\ Satisfies(s, u[n].implications)
    <3>1. Cost[s] >= t[n].lb /\ Satisfies(s, t[n].implications)
      BY DEF TreeSound
    <3> HIDE DEF moves, kept, moved, Info, Implications_
    <3>2. Implications_(n) \subseteq t[n].implications \cup moved(n)
      BY DEF Implications_
    <3>3. Satisfies(s, Implications_(n))
      BY <1>16, <3>1, <3>2 DEF Satisfies
    <3> HIDE DEF Implications_
    <3> QED
      BY <1>4, <3>1, <3>3
  <2> QED
    BY <2>1, <2>2, <2>3
<1>18. \A n \in DOMAIN t :
         u[n].closed = t[n].closed /\ u[n].implied = t[n].implied /\ u[n].lb = t[n].lb
  <2> HIDE DEF moves, kept, moved, Info, Implications_
  <2> QED
    BY <1>4
<1> HIDE DEF moves, kept, moved, Info, Implications_
<1> QED
  BY <1>11, <1>12, <1>13, <1>15, <1>17, <1>18 DEF GoodTree

-----------------------------------------------------------------------------
(* A child has a bound that its parent has too, or the bounds of both      *)
(* children are what they were, and the parent was not to be updated.      *)
HasChildBound(t, u, to_update, n) ==
  \/ \E m \in ChildrenOf(t, n) : u[m].lb <= u[n].lb
  \/ n \notin to_update /\ \A m \in ChildrenOf(t, n) : u[m].lb = t[m].lb

(* UpdateBounds(): the bound of a node and those of its children hold.     *)
LEMMA UpdateBoundsFacts ==
  ASSUME config \in Configurations, NEW t, GoodTree(t), NEW to_update,
         NEW u, u = UpdateBounds(t, to_update)
  PROVE  /\ GoodTree(u) /\ SameTree(t, u)
         /\ \A n \in DOMAIN t :
              /\ u[n].closed = t[n].closed /\ u[n].implied = t[n].implied
              /\ u[n].lb \in 0..MaxInteger /\ u[n].lb >= t[n].lb
              /\ ~ t[n].closed /\ ~ IsLeaf(t, n) => HasChildBound(t, u, to_update, n)
<1> DEFINE D == 1..Len(t)
           T == 0..MaxInteger
           Below_(n) == ToSet(t[n].children)
           Improves(f, n) == /\ Below_(n) # {} /\ ~ t[n].closed
                             /\ n \in to_update \/ \E m \in Below_(n) : f[m] > t[m].lb
           Least(f, n) == ChildBound({f[m] : m \in Below_(n)})
           Step(f, n) == IF Improves(f, n) THEN Max({t[n].lb, Least(f, n)}) ELSE t[n].lb
           G == [f \in [D -> T] |-> [n \in D |-> Step(f, n)]]
           IsLb(f) == f = [n \in DOMAIN t |-> Step(f, n)]
           lb == CHOOSE f : IsLb(f)
<1>1. /\ TreeShape(t) /\ ParentsComeFirst(t) /\ t \in Seq(Nodes)
      /\ Len(t) \in Nat /\ Len(t) >= 1 /\ DOMAIN t = D
      /\ Root = 1 /\ Root \in DOMAIN t /\ ~ t[Root].implied
      /\ \A n \in DOMAIN t : t[n] \in Nodes
  BY TreeFacts DEF GoodTree
<1>2. \A n \in D : t[n].lb \in T
  BY <1>1 DEF Nodes
<1>3. MaxInteger \in Nat
  BY ConfigurationFacts
<1>4. ASSUME NEW n \in D
      PROVE  \/ t[n].children = <<>> /\ Below_(n) = {}
             \/ \E k \in (n + 1)..(Len(t) - 1) :
                  Below_(n) = {k, k + 1} /\ ChildrenOf(t, n) = {k, k + 1}
                  /\ t[n].children = <<k, k + 1>>
  <2>1. CASE t[n].children = <<>>
    BY <2>1 DEF ToSet
  <2>2. CASE \E k \in (n + 1)..(Len(t) - 1) :
               t[n].children = <<k, k + 1>> /\ ChildrenOf(t, n) = {k, k + 1}
    <3>1. PICK k \in (n + 1)..(Len(t) - 1) :
               t[n].children = <<k, k + 1>> /\ ChildrenOf(t, n) = {k, k + 1}
      BY <2>2
    <3>2. ToSet(t[n].children) = {k, k + 1}
      BY <3>1 DEF ToSet
    <3> QED
      BY <3>1, <3>2
  <2> QED
    BY <1>1, <2>1, <2>2 DEF TreeShape
(* The least bound of two children is one of them.                         *)
<1>5. ASSUME NEW n \in D, Below_(n) # {}, NEW f, \A m \in Below_(n) : f[m] \in T
      PROVE  Least(f, n) \in T /\ \A m \in Below_(n) : Least(f, n) <= f[m]
  <2>1. PICK k \in (n + 1)..(Len(t) - 1) : Below_(n) = {k, k + 1}
    BY <1>4, <1>5
  <2>2. {f[m] : m \in Below_(n)} = {f[k], f[k + 1]}
    BY <2>1
  <2>3. f[k] \in T /\ f[k + 1] \in T
    BY <1>5, <2>1
  <2>4. Min({f[k], f[k + 1]}) \in T /\ Min({f[k], f[k + 1]}) <= f[k] /\ Min({f[k], f[k + 1]}) <= f[k + 1]
    <3>1. f[k] \in Int /\ f[k + 1] \in Int
      BY <1>3, <2>3
    <3>2. /\ Min({f[k], f[k + 1]}) \in {f[k], f[k + 1]}
          /\ Min({f[k], f[k + 1]}) <= f[k] /\ Min({f[k], f[k + 1]}) <= f[k + 1]
      BY <3>1, MinOfTwo
    <3> QED
      BY <2>3, <3>2
  <2> QED
    BY <2>1, <2>2, <2>4 DEF ChildBound
<1>6. ASSUME NEW n \in D, NEW f, \A m \in Below_(n) : f[m] \in T
      PROVE  /\ Step(f, n) \in T
             /\ Step(f, n) = t[n].lb \/ (Improves(f, n) /\ Step(f, n) = Least(f, n))
  <2>1. CASE ~ Improves(f, n)
    <3> HIDE DEF Improves
    <3> QED
      BY <1>2, <2>1
  <2>2. CASE Improves(f, n)
    <3>1. Least(f, n) \in T
      BY <1>5, <1>6, <2>2
    <3>2. Max({t[n].lb, Least(f, n)}) \in {t[n].lb, Least(f, n)}
      <4>1. t[n].lb \in Int /\ Least(f, n) \in Int
        <5> HIDE DEF Least
        <5> QED
          BY <1>2, <1>3, <3>1
      <4> HIDE DEF Least
      <4> QED
        BY <4>1, MaxOfTwo
    <3> HIDE DEF Improves, Least
    <3> QED
      BY <1>2, <2>2, <3>1, <3>2
  <2> QED
    BY <2>1, <2>2
<1>7. ASSUME NEW n \in D, NEW m \in Below_(n) PROVE m \in D /\ m > n /\ m \in (n + 1)..Len(t)
  <2>1. PICK k \in (n + 1)..(Len(t) - 1) : Below_(n) = {k, k + 1}
    BY <1>4
  <2> HIDE DEF Below_
  <2> QED
    BY <1>1, <2>1
<1>8. HasFixedPoint(G, Len(t), T)
  <2>1. IsStep(G, Len(t), T)
    <3>1. ASSUME NEW f \in [D -> T], NEW n \in D PROVE Step(f, n) \in T
      <4>1. \A m \in Below_(n) : f[m] \in T
        BY <1>7
      <4> HIDE DEF Step
      <4> QED
        BY <1>6, <4>1
    <3>2. T # {}
      BY <1>3
    <3> HIDE DEF Step, T
    <3> QED
      BY <1>1, <3>1, <3>2 DEF IsStep
  <2>2. DependsOnLater(G, Len(t), T)
    <3> SUFFICES ASSUME NEW f \in [D -> T], NEW g \in [D -> T], NEW n \in D,
                        \A k \in (n + 1)..Len(t) : f[k] = g[k]
                 PROVE  G[f][n] = G[g][n]
      BY DEF DependsOnLater
    <3>1. \A m \in Below_(n) : f[m] = g[m]
      <4> HIDE DEF Below_
      <4> QED
        BY <1>7
    <3>2. {f[m] : m \in Below_(n)} = {g[m] : m \in Below_(n)}
      BY <3>1
    <3>3. Improves(f, n) <=> Improves(g, n)
      BY <3>1
    <3>4. Step(f, n) = Step(g, n)
      <4> HIDE DEF Improves
      <4> QED
        BY <3>2, <3>3
    <3> HIDE DEF Step
    <3> QED
      BY <3>4
  <2> HIDE DEF G, T
  <2> QED
    BY <2>1, <2>2, DownwardRecursion
<1>9. PICK f \in [D -> T] : IsLb(f)
  <2> HIDE DEF Step
  <2> QED
    BY <1>1, <1>8 DEF HasFixedPoint
<1>10. IsLb(lb)
  <2> HIDE DEF IsLb
  <2> QED
    BY <1>9
<1>11. ASSUME NEW n \in DOMAIN t PROVE lb[n] = Step(lb, n)
  <2> HIDE DEF lb, Step
  <2> QED
    BY <1>10
<1>12. u = [n \in DOMAIN t |-> [t[n] EXCEPT !.lb = lb[n]]]
  BY Zenon DEF UpdateBounds
<1> HIDE DEF lb
(* Children first: the bounds hold for the solutions.                      *)
<1>13. \A n \in D : lb[n] \in T /\ \A s \in SolutionsIn(t, n) : Cost[s] >= lb[n]
  <2> DEFINE Good == {n \in D : lb[n] \in T /\ \A s \in SolutionsIn(t, n) : Cost[s] >= lb[n]}
  <2>1. ASSUME NEW n \in D, \A m \in (n + 1)..Len(t) : m \in Good PROVE n \in Good
    <3>1. \A m \in Below_(n) : m \in Good
      <4> HIDE DEF Below_, Good
      <4> QED
        BY <1>7, <2>1
    <3>2. \A m \in Below_(n) : lb[m] \in T
      BY <3>1
    <3>3. lb[n] = Step(lb, n)
      BY <1>1, <1>11
    <3>4. \A s \in SolutionsIn(t, n) : Cost[s] >= t[n].lb
      BY <1>1 DEF GoodTree, TreeSound
    <3>5. ASSUME Below_(n) # {} PROVE \A s \in SolutionsIn(t, n) : Cost[s] >= Least(lb, n)
      <4>1. PICK k \in (n + 1)..(Len(t) - 1) :
              /\ Below_(n) = {k, k + 1} /\ ChildrenOf(t, n) = {k, k + 1}
              /\ t[n].children = <<k, k + 1>>
        BY <1>4, <3>5
      <4>2. k \in 2..Len(t) /\ t[k].parent = n
        BY <4>1 DEF ChildrenOf
      <4>3. Sibling(t, k) = k + 1
        BY <4>1, <4>2 DEF Sibling
      <4>4. SolutionsIn(t, n) = SolutionsIn(t, k) \cup SolutionsIn(t, k + 1)
        BY <1>1, <4>2, <4>3, SolutionsOfSiblings
      <4>5. \A m \in {k, k + 1} : \A s \in SolutionsIn(t, m) : Cost[s] >= lb[m]
        BY <3>1, <4>1
      <4>6. /\ Least(lb, n) \in T /\ Least(lb, n) <= lb[k] /\ Least(lb, n) <= lb[k + 1]
            /\ lb[k] \in T /\ lb[k + 1] \in T
        BY <1>5, <3>2, <3>5, <4>1
      <4>7. \A s \in SolutionsIn(t, n) : Cost[s] \in Nat
        BY ConfigurationFacts DEF SolutionsIn
      <4> HIDE DEF Least
      <4> QED
        BY <1>3, <4>4, <4>5, <4>6, <4>7
    <3>6. /\ Step(lb, n) \in T
          /\ Step(lb, n) = t[n].lb \/ (Improves(lb, n) /\ Step(lb, n) = Least(lb, n))
      BY <1>6, <3>2
    <3>7. Improves(lb, n) => Below_(n) # {}
      OBVIOUS
    <3> HIDE DEF Step, Improves, Least, Below_, T
    <3> QED
      BY <3>3, <3>4, <3>5, <3>6, <3>7
  <2> HIDE DEF Good
  <2>2. 1..Len(t) \subseteq Good
    BY <1>1, <2>1, DownwardInduction
  <2> QED
    BY <2>2 DEF Good
<1> HIDE DEF Step, Improves, Least, Below_, G, IsLb
<1>14. ASSUME NEW n \in DOMAIN t
       PROVE  /\ u[n] \in Nodes
              /\ u[n].literal = t[n].literal /\ u[n].parent = t[n].parent
              /\ u[n].children = t[n].children /\ u[n].lb = lb[n]
              /\ u[n].closed = t[n].closed /\ u[n].implied = t[n].implied
              /\ u[n].has_info = t[n].has_info /\ u[n].implications = t[n].implications
  <2>1. t[n] = [literal |-> t[n].literal, lb |-> t[n].lb, parent |-> t[n].parent,
                children |-> t[n].children, closed |-> t[n].closed, implied |-> t[n].implied,
                has_info |-> t[n].has_info, implications |-> t[n].implications]
    BY <1>1 DEF Nodes
  <2>2. u[n] = [literal |-> t[n].literal, lb |-> lb[n], parent |-> t[n].parent,
                children |-> t[n].children, closed |-> t[n].closed, implied |-> t[n].implied,
                has_info |-> t[n].has_info, implications |-> t[n].implications]
    BY <1>12, <2>1
  <2>3. t[n] \in Nodes /\ lb[n] \in T
    BY <1>1, <1>13
  <2> QED
    BY <2>2, <2>3 DEF Nodes
<1>15. u \in Seq(Nodes) /\ Len(u) = Len(t)
  <2>1. u = [n \in 1..Len(t) |-> u[n]]
    BY <1>1, <1>12
  <2> QED
    BY <1>1, <1>14, <2>1
<1>16. SameTree(t, u) /\ ~ u[Root].implied
  BY <1>1, <1>14, <1>15 DEF SameTree
<1>17. TreeShape(u) /\ \A n \in DOMAIN t : SolutionsIn(u, n) = SolutionsIn(t, n)
  BY <1>1, <1>16, SameTreeFacts
<1>18. DOMAIN u = DOMAIN t
  BY <1>1, <1>12
<1>19. ClosedBelow(u)
  <2>1. \A n \in 2..Len(t) : n \in DOMAIN t /\ t[n].parent \in DOMAIN t
    BY <1>1, TreeFacts
  <2> QED
    BY <1>14, <1>15, <2>1 DEF GoodTree, ClosedBelow
<1>20. InfoIsKept(u)
  BY <1>14, <1>18 DEF GoodTree, InfoIsKept
<1>21. TreeSound(u)
  <2> SUFFICES ASSUME NEW n \in DOMAIN t
               PROVE  /\ t[n].closed => SolutionsIn(t, n) = {}
                      /\ t[n].implied => SolutionsIn(t, n) = SolutionsIn(u, t[n].parent)
                      /\ \A s \in SolutionsIn(t, n) :
                           Cost[s] >= lb[n] /\ Satisfies(s, t[n].implications)
    BY <1>14, <1>17, <1>18 DEF TreeSound
  <2>1. t[n].implied => n \in 2..Len(t) /\ t[n].parent \in DOMAIN t
    BY <1>1, TreeFacts
  <2> QED
    BY <1>1, <1>13, <1>17, <2>1 DEF GoodTree, TreeSound
(* What the bounds have to do with those of the children.                  *)
<1>22. ASSUME NEW n \in DOMAIN t PROVE lb[n] \in T /\ t[n].lb \in T /\ lb[n] >= t[n].lb
  <2>1. lb[n] \in T /\ t[n].lb \in T /\ lb[n] = Step(lb, n)
    BY <1>1, <1>2, <1>11, <1>13
  <2>2. CASE ~ Improves(lb, n)
    <3>1. lb[n] = t[n].lb
      BY <2>1, <2>2, Zenon DEF Step
    <3> QED
      BY <1>3, <2>1, <3>1
  <2>3. CASE Improves(lb, n)
    <3>1. Below_(n) # {} /\ \A m \in Below_(n) : lb[m] \in T
      BY <1>1, <1>7, <1>13, <2>3 DEF Improves
    <3>2. Least(lb, n) \in T
      BY <1>1, <1>5, <3>1
    <3>3. lb[n] = Max({t[n].lb, Least(lb, n)})
      BY <2>1, <2>3, Zenon DEF Step
    <3>4. t[n].lb \in Int /\ Least(lb, n) \in Int
      BY <1>3, <2>1, <3>2
    <3> QED
      BY <2>1, <3>3, <3>4, MaxOfTwo
  <2> QED
    BY <2>2, <2>3
<1>23. ASSUME NEW n \in DOMAIN t, ~ t[n].closed, ~ IsLeaf(t, n)
       PROVE  HasChildBound(t, u, to_update, n)
  <2>1. PICK k \in (n + 1)..(Len(t) - 1) : Below_(n) = {k, k + 1} /\ ChildrenOf(t, n) = {k, k + 1}
    <3>1. t[n].children # <<>>
      BY <1>23 DEF IsLeaf
    <3> QED
      BY <1>1, <1>4, <3>1
  <2>2. k \in DOMAIN t /\ k + 1 \in DOMAIN t
    BY <1>1
  <2>3. \A m \in {n, k, k + 1} : u[m].lb = lb[m] /\ lb[m] \in T /\ t[m].lb \in T /\ lb[m] >= t[m].lb
    BY <1>14, <1>22, <2>2
  <2>4. CASE Improves(lb, n)
    <3>1. lb[n] = Max({t[n].lb, Least(lb, n)})
      BY <1>11, <2>4, Zenon DEF Step
    <3>2. Least(lb, n) \in T
      BY <1>1, <1>5, <2>1, <2>3
    <3>3. t[n].lb \in Int /\ Least(lb, n) \in Int
      BY <1>3, <2>3, <3>2
    <3>4. Least(lb, n) <= lb[n]
      BY <3>1, <3>3, MaxOfTwo
    <3>5. Least(lb, n) = Min({lb[k], lb[k + 1]})
      <4>1. {lb[m] : m \in Below_(n)} = {lb[k], lb[k + 1]}
        BY <2>1
      <4> QED
        BY <4>1 DEF Least, ChildBound
    <3>6. lb[k] \in Int /\ lb[k + 1] \in Int
      BY <1>3, <2>3
    <3>7. Least(lb, n) \in {lb[k], lb[k + 1]}
      BY <3>5, <3>6, MinOfTwo
    <3> QED
      BY <2>1, <2>3, <3>4, <3>7 DEF HasChildBound
  <2>5. CASE ~ Improves(lb, n)
    <3>1. n \notin to_update /\ ~ lb[k] > t[k].lb /\ ~ lb[k + 1] > t[k + 1].lb
      BY <1>23, <2>1, <2>5 DEF Improves
    <3>2. lb[k] = t[k].lb /\ lb[k + 1] = t[k + 1].lb
      BY <1>3, <2>3, <3>1
    <3> QED
      BY <2>1, <2>3, <3>1, <3>2 DEF HasChildBound
  <2> QED
    BY <2>4, <2>5
<1>24. \A n \in DOMAIN t : u[n].closed = t[n].closed /\ u[n].implied = t[n].implied
  BY <1>14
<1>25. \A n \in DOMAIN t : u[n].lb \in 0..MaxInteger /\ u[n].lb >= t[n].lb
  BY <1>14, <1>22
<1>26. GoodTree(u)
  BY <1>17, <1>19, <1>20, <1>21 DEF GoodTree
<1> QED
  BY <1>16, <1>23, <1>24, <1>25, <1>26

-----------------------------------------------------------------------------
(* All that a change of the tree preserves.                                *)
LEMMA ChangedTreeFacts ==
  ASSUME config \in Configurations, NEW t, GoodTree(t),
         NEW to_close, \A n \in DOMAIN t : n \in to_close => SolutionsIn(t, n) = {},
         NEW to_update, NEW u, u = ChangedTree(t, to_close, to_update)
  PROVE  /\ GoodTree(u) /\ SameTree(t, u)
         /\ \A n \in DOMAIN t : u[n].closed <=> IsClosedWith(t, to_close, n)
<1> DEFINE newly == ClosedWith(t, to_close)
           closing == CloseNodes(t, newly)
           closed == MoveImplications(closing)
           updated == to_update \cup {t[n].parent : n \in newly}
<1>1. u = UpdateBounds(closed, updated)
  BY Zenon DEF ChangedTree
<1>2. TreeShape(t) /\ Len(t) \in Nat /\ DOMAIN t = 1..Len(t) /\ Root \in DOMAIN t
  BY TreeFacts DEF GoodTree
<1>3. /\ SameTree(t, closing) /\ TreeShape(closing) /\ ClosedBelow(closing) /\ TreeSound(closing)
      /\ \A n \in DOMAIN t :
           /\ closing[n].closed <=> IsClosedWith(t, to_close, n)
           /\ t[n].implied => closing[n].implied
           /\ closing[n].has_info <=> IF n \in newly THEN n = Root ELSE t[n].has_info
  <2> HIDE DEF newly, closing
  <2>1. newly = ClosedWith(t, to_close) /\ closing = CloseNodes(t, newly)
    BY Zenon DEF newly, closing
  <2> QED
    BY <2>1, CloseNodesFacts
<1> HIDE DEF closing, closed, updated
<1>4. \A n \in DOMAIN t : n \in newly => IsClosedWith(t, to_close, n)
  BY DEF IsClosedWith
<1>5. \A n \in DOMAIN t : IsClosedWith(t, to_close, n) <=> t[n].closed \/ n \in newly
  BY DEF IsClosedWith
<1> HIDE DEF newly
<1>6. \A n \in DOMAIN t : t[n].has_info = (n = Root \/ ~ (t[n].closed \/ t[n].implied))
  BY DEF GoodTree, InfoIsKept
<1>7. closing[Root].has_info
  BY <1>2, <1>3, <1>6
<1>8. Len(closing) = Len(t)
  BY <1>3 DEF SameTree
<1>9. ASSUME NEW n \in 2..Len(closing)
      PROVE  /\ closing[n].has_info => ~ closing[n].closed
             /\ ~ closing[n].closed /\ ~ closing[n].implied => closing[n].has_info
  <2>1. n \in DOMAIN t /\ n # Root
    BY <1>2, <1>8 DEF Root
  <2>2. closing[n].closed <=> t[n].closed \/ n \in newly
    BY <1>3, <1>5, <2>1
  <2>3. closing[n].has_info <=> n \notin newly /\ t[n].has_info
    BY <1>3, <2>1
  <2>4. t[n].has_info <=> ~ (t[n].closed \/ t[n].implied)
    BY <1>6, <2>1
  <2>5. t[n].implied => closing[n].implied
    BY <1>3, <2>1
  <2> QED
    BY <2>2, <2>3, <2>4, <2>5
<1>10. /\ GoodTree(closed) /\ SameTree(closing, closed)
       /\ \A n \in DOMAIN closing : closed[n].closed = closing[n].closed
  <2>1. closed = MoveImplications(closing)
    BY Zenon DEF closed
  <2> QED
    BY <1>3, <1>7, <1>9, <2>1, MoveImplicationsFacts
<1>11. /\ GoodTree(u) /\ SameTree(closed, u)
       /\ \A n \in DOMAIN closed : u[n].closed = closed[n].closed
  BY <1>1, <1>10, UpdateBoundsFacts
<1>12. DOMAIN closing = DOMAIN t /\ DOMAIN closed = DOMAIN t
  <2>1. closing \in Seq(Nodes) /\ closed \in Seq(Nodes) /\ Len(closed) = Len(t)
    BY <1>3, <1>8, <1>10 DEF SameTree
  <2> QED
    BY <1>2, <1>8, <2>1
<1>13. SameTree(t, u)
  BY <1>3, <1>10, <1>11, <1>12 DEF SameTree
<1> QED
  BY <1>3, <1>10, <1>11, <1>12, <1>13

-----------------------------------------------------------------------------
(* Paths: what their shape says, in the form that proofs cite.             *)
LEMMA PathFacts ==
  ASSUME NEW p, PathShape(p)
  PROVE  /\ MaxLevel(p) \in Nat /\ Len(p.trail) \in Nat /\ p \in Paths
         /\ p.trail \in Seq(TrailEntries)
         /\ p.levels \in Seq(PathLevels)
         /\ DOMAIN p.trail = 1..Len(p.trail) /\ DOMAIN p.levels = 1..MaxLevel(p)
         /\ MaxLevel(p) = Len(p.levels) /\ p.known \subseteq Literals(config.variables)
         /\ \A i \in 1..Len(p.trail) :
              p.trail[i].id \in Nat /\ p.trail[i].literal \in Literals(config.variables)
         /\ \A l \in 1..MaxLevel(p) :
              /\ DecisionIndex(p, l) \in 1..Len(p.trail) /\ DecisionIndex(p, l) \in Nat
              /\ Decision(p, l) \in Literals(config.variables)
              /\ Implications(p, l) \subseteq Literals(config.variables)
              /\ ObjectiveLb(p, l) \in 0..MaxInteger
         /\ \A l \in 0..MaxLevel(p) : End(p, l) \in 0..Len(p.trail)
         /\ \A l \in 1..MaxLevel(p) : DecisionIndex(p, l) <= End(p, l)
<1>1. p \in Paths /\ MaxLevel(p) = Len(p.levels)
  BY DEF PathShape, MaxLevel
<1>2. /\ p.trail \in Seq(TrailEntries)
      /\ p.levels \in Seq(PathLevels)
      /\ p.known \subseteq Literals(config.variables)
  BY <1>1 DEF Paths
<1>3. /\ MaxLevel(p) \in Nat /\ Len(p.trail) \in Nat
      /\ DOMAIN p.trail = 1..Len(p.trail) /\ DOMAIN p.levels = 1..MaxLevel(p)
  BY <1>1, <1>2
<1>4. ASSUME NEW i \in 1..Len(p.trail)
      PROVE  p.trail[i].id \in Nat /\ p.trail[i].literal \in Literals(config.variables)
  <2>1. p.trail[i] \in TrailEntries
    BY <1>2
  <2> QED
    BY <2>1 DEF TrailEntries
<1>5. ASSUME NEW l \in 1..MaxLevel(p)
      PROVE  /\ DecisionIndex(p, l) \in 1..Len(p.trail) /\ DecisionIndex(p, l) \in Nat
             /\ Decision(p, l) \in Literals(config.variables)
             /\ Implications(p, l) \subseteq Literals(config.variables)
             /\ ObjectiveLb(p, l) \in 0..MaxInteger
  <2>1. DecisionIndex(p, l) \in 1..Len(p.trail)
    BY <1>3 DEF PathShape
  <2>2. p.levels[l] \in PathLevels
    BY <1>1, <1>2, <1>3
  <2>3. p.levels[l].first \in Nat
    BY <2>2 DEF PathLevels
  <2> QED
    BY <1>4, <2>1, <2>2 DEF PathLevels, Decision, Implications, ObjectiveLb
<1>6. ASSUME NEW l \in 0..MaxLevel(p) PROVE End(p, l) \in 0..Len(p.trail)
  <2>1. CASE l = MaxLevel(p)
    BY <1>3, <2>1 DEF End
  <2>2. CASE l # MaxLevel(p)
    <3>1. l + 1 \in 1..MaxLevel(p)
      BY <1>3, <2>2
    <3>2. DecisionIndex(p, l + 1) \in 1..Len(p.trail)
      BY <1>5, <3>1
    <3> QED
      BY <1>3, <2>2, <3>2 DEF End
  <2> QED
    BY <2>1, <2>2
<1>7. ASSUME NEW l \in 1..MaxLevel(p) PROVE DecisionIndex(p, l) <= End(p, l)
  <2>1. CASE l = MaxLevel(p)
    BY <1>3, <1>5, <2>1 DEF End
  <2>2. CASE l # MaxLevel(p)
    <3>1. l + 1 \in 1..MaxLevel(p) /\ l < l + 1
      BY <1>3, <2>2
    <3>2. DecisionIndex(p, l) < DecisionIndex(p, l + 1)
      BY <3>1 DEF PathShape
    <3>3. DecisionIndex(p, l) \in Nat /\ DecisionIndex(p, l + 1) \in Nat
      BY <1>5, <3>1
    <3> QED
      BY <2>2, <3>2, <3>3 DEF End
  <2> QED
    BY <2>1, <2>2
<1> QED
  BY <1>1, <1>2, <1>3, <1>4, <1>5, <1>6, <1>7

(* What holds below a level holds below the next one.                      *)
LEMMA BelowFacts ==
  ASSUME NEW p, MaxLevel(p) \in Nat
  PROVE  /\ Below(p, 0) = Improving
         /\ \A k, l \in 0..MaxLevel(p) : l = k + 1 =>
              Below(p, l) = {s \in Below(p, k) : Satisfies(s, {Decision(p, l)})}
         /\ \A k, l \in 0..MaxLevel(p) : k <= l => Below(p, l) \subseteq Below(p, k)
<1>1. Below(p, 0) = Improving
  <2>1. Decisions(p, 0) = {}
    BY DEF Decisions
  <2> QED
    BY <2>1 DEF Below, Satisfies
<1>2. ASSUME NEW k \in 0..MaxLevel(p), NEW l \in 0..MaxLevel(p), l = k + 1
      PROVE  Below(p, l) = {s \in Below(p, k) : Satisfies(s, {Decision(p, l)})}
  <2>1. 1..l = 1..k \cup {l}
    BY <1>2
  <2>2. Decisions(p, l) = Decisions(p, k) \cup {Decision(p, l)}
    BY <2>1 DEF Decisions
  <2>3. \A s : Satisfies(s, Decisions(p, l)) <=>
                 Satisfies(s, Decisions(p, k)) /\ Satisfies(s, {Decision(p, l)})
    BY <2>2, SatisfiesUnion
  <2> QED
    BY <2>3 DEF Below
<1>3. ASSUME NEW k \in 0..MaxLevel(p), NEW l \in 0..MaxLevel(p), k <= l
      PROVE  Below(p, l) \subseteq Below(p, k)
  <2>1. 1..k \subseteq 1..l
    BY <1>3
  <2>2. Decisions(p, k) \subseteq Decisions(p, l)
    BY <2>1 DEF Decisions
  <2> QED
    BY <2>2, SatisfiesUnion DEF Below
<1> QED
  BY <1>1, <1>2, <1>3

(* Paths that differ only in what the levels say.                          *)
SameStarts(p, q) ==
  /\ q.trail = p.trail /\ MaxLevel(q) = MaxLevel(p)
  /\ \A l \in 1..MaxLevel(p) : DecisionIndex(q, l) = DecisionIndex(p, l)

(* Such paths have the same solutions below each level.                    *)
LEMMA SameStartsFacts ==
  ASSUME NEW p, NEW q, PathShape(p), SameStarts(p, q), q \in Paths
  PROVE  /\ PathShape(q)
         /\ \A l \in 0..MaxLevel(p) : Below(q, l) = Below(p, l)
         /\ TrailFollows(p) => TrailFollows(q)
<1>1. PathShape(q)
  BY DEF PathShape, SameStarts
<1>2. MaxLevel(p) \in Nat
  BY PathFacts
<1>3. ASSUME NEW l \in 0..MaxLevel(p) PROVE Below(q, l) = Below(p, l)
  <2>1. \A k \in 1..l : Decision(q, k) = Decision(p, k)
    BY <1>2 DEF SameStarts, Decision
  <2>2. Decisions(q, l) = Decisions(p, l)
    BY <2>1 DEF Decisions
  <2> QED
    BY <2>2 DEF Below
<1>4. ASSUME NEW l \in 0..MaxLevel(p) PROVE End(q, l) = End(p, l)
  <2>1. l # MaxLevel(p) => DecisionIndex(q, l + 1) = DecisionIndex(p, l + 1)
    BY <1>2 DEF SameStarts
  <2> QED
    BY <2>1 DEF SameStarts, End
<1>5. TrailFollows(p) => TrailFollows(q)
  BY <1>3, <1>4 DEF TrailFollows, SameStarts
<1> QED
  BY <1>1, <1>3, <1>5

(* The path of a worker that has no subtree.                               *)
LEMMA EmptyPathOK ==
  PathOK(EmptyPath) /\ MaxLevel(EmptyPath) = 0 /\ EmptyPath.trail = <<>>
<1>1. EmptyPath.trail = <<>> /\ EmptyPath.levels = <<>> /\ EmptyPath.known = {}
  BY DEF EmptyPath
<1>2. MaxLevel(EmptyPath) = 0
  BY <1>1 DEF MaxLevel
<1>3. EmptyPath \in Paths
  BY DEF EmptyPath, Paths
<1>4. End(EmptyPath, 0) = 0
  BY <1>1, <1>2 DEF End
<1> QED
  BY <1>1, <1>2, <1>3, <1>4 DEF PathOK, PathShape, PathSound, TrailFollows

-----------------------------------------------------------------------------
(* PushLevel().                                                            *)
LEMMA PushLevelShape ==
  ASSUME config \in Configurations, NEW p, PathShape(p),
         NEW literal \in Literals(config.variables), NEW lb \in 0..MaxInteger, NEW id \in Nat,
         NEW q, q = PushLevel(p, literal, lb, id)
  PROVE  /\ PathShape(q) /\ MaxLevel(q) = MaxLevel(p) + 1
         /\ OneMoreEntry(p, q, id, literal)
         /\ \A l \in 1..MaxLevel(p) :
              /\ DecisionIndex(q, l) = DecisionIndex(p, l) /\ Decision(q, l) = Decision(p, l)
              /\ Implications(q, l) = Implications(p, l) /\ ObjectiveLb(q, l) = ObjectiveLb(p, l)
         /\ DecisionIndex(q, MaxLevel(q)) = Len(p.trail) + 1
         /\ Decision(q, MaxLevel(q)) = literal /\ Implications(q, MaxLevel(q)) = {}
         /\ \/ ObjectiveLb(q, MaxLevel(q)) = lb
            \/ MaxLevel(p) > 0 /\ ObjectiveLb(q, MaxLevel(q)) = ObjectiveLb(p, MaxLevel(p))
<1> DEFINE lbs == {lb} \cup {ObjectiveLb(p, l) : l \in {MaxLevel(p)} \ {0}}
           entry == [id |-> id, literal |-> literal]
           level == [first |-> Len(p.trail) + 1, implications |-> {}, lb |-> Max(lbs)]
           k == MaxLevel(p)
<1>1. /\ MaxLevel(p) \in Nat /\ Len(p.trail) \in Nat
      /\ p.trail \in Seq(TrailEntries)
      /\ p.levels \in Seq(PathLevels)
      /\ MaxLevel(p) = Len(p.levels) /\ p.known \subseteq Literals(config.variables)
  BY PathFacts
<1>2. /\ q.trail = Append(p.trail, entry) /\ q.levels = Append(p.levels, level)
      /\ q.known = p.known /\ q = [trail |-> q.trail, levels |-> q.levels, known |-> q.known]
  <2> HIDE DEF lbs
  <2>1. q = [trail |-> Append(p.trail, entry), levels |-> Append(p.levels, level), known |-> p.known]
    BY Zenon DEF PushLevel, lbs
  <2> QED
    BY <2>1
<1>3. Max(lbs) \in 0..MaxInteger /\ (Max(lbs) = lb \/ (k > 0 /\ Max(lbs) = ObjectiveLb(p, k)))
  <2>1. MaxInteger \in Nat
    BY ConfigurationFacts
  <2>2. CASE k = 0
    <3>1. lbs = {lb, lb}
      BY <2>2
    <3>2. Max({lb, lb}) \in {lb, lb}
      BY <2>1, MaxOfTwo
    <3> HIDE DEF lbs
    <3> QED
      BY <3>1, <3>2
  <2>3. CASE k # 0
    <3>1. lbs = {lb, ObjectiveLb(p, k)}
      BY <2>3
    <3>2. ObjectiveLb(p, k) \in 0..MaxInteger
      BY <1>1, <2>3, PathFacts
    <3>3. Max({lb, ObjectiveLb(p, k)}) \in {lb, ObjectiveLb(p, k)}
      <4>1. lb \in Int /\ ObjectiveLb(p, k) \in Int
        BY <2>1, <3>2
      <4> QED
        BY <4>1, MaxOfTwo
    <3> HIDE DEF lbs
    <3> QED
      BY <1>1, <2>3, <3>1, <3>2, <3>3
  <2> QED
    BY <2>2, <2>3
<1> HIDE DEF lbs
<1>4. entry \in TrailEntries
  BY DEF TrailEntries
<1>5. level \in PathLevels
  BY <1>1, <1>3 DEF PathLevels
<1>6. entry.literal = literal /\ level.first = Len(p.trail) + 1 /\ level.implications = {} /\ level.lb = Max(lbs)
  OBVIOUS
<1> HIDE DEF entry, level
<1>7. q \in Paths
  <2>1. /\ q.trail \in Seq(TrailEntries)
        /\ q.levels \in Seq(PathLevels)
    BY <1>1, <1>2, <1>4, <1>5
  <2> QED
    BY <1>1, <1>2, <2>1 DEF Paths
<1>8. MaxLevel(q) = k + 1 /\ Len(q.trail) = Len(p.trail) + 1
  BY <1>1, <1>2 DEF MaxLevel
<1>9. /\ \A l \in 1..k : q.levels[l] = p.levels[l]
      /\ q.levels[k + 1] = level
      /\ \A i \in 1..Len(p.trail) : q.trail[i] = p.trail[i]
      /\ q.trail[Len(p.trail) + 1] = entry
  BY <1>1, <1>2
<1>10. \A l \in 1..k :
         /\ DecisionIndex(q, l) = DecisionIndex(p, l) /\ Decision(q, l) = Decision(p, l)
         /\ Implications(q, l) = Implications(p, l) /\ ObjectiveLb(q, l) = ObjectiveLb(p, l)
         /\ DecisionIndex(p, l) \in 1..Len(p.trail)
  BY <1>9, PathFacts DEF DecisionIndex, Decision, Implications, ObjectiveLb
<1>11. /\ DecisionIndex(q, k + 1) = Len(p.trail) + 1 /\ Decision(q, k + 1) = literal
       /\ Implications(q, k + 1) = {} /\ ObjectiveLb(q, k + 1) = Max(lbs)
  BY <1>6, <1>9 DEF DecisionIndex, Decision, Implications, ObjectiveLb
<1>12. DOMAIN q.trail = 1..(Len(p.trail) + 1)
  BY <1>1, <1>2
<1>13. PathShape(q)
  <2>1. ASSUME NEW l \in 1..(k + 1) PROVE DecisionIndex(q, l) \in DOMAIN q.trail
    <3>1. CASE l \in 1..k
      BY <1>1, <1>10, <1>12, <3>1
    <3>2. CASE l = k + 1
      BY <1>1, <1>11, <1>12, <3>2
    <3> QED
      BY <1>1, <3>1, <3>2
  <2>2. ASSUME NEW i \in 1..(k + 1), NEW l \in 1..(k + 1), i < l
        PROVE  DecisionIndex(q, i) < DecisionIndex(q, l)
    <3>1. i \in 1..k
      BY <1>1, <2>2
    <3>2. CASE l \in 1..k
      BY <1>10, <2>2, <3>1, <3>2 DEF PathShape
    <3>3. CASE l = k + 1
      <4>1. DecisionIndex(q, i) \in 1..Len(p.trail)
        BY <1>10, <3>1
      <4>2. DecisionIndex(q, l) = Len(p.trail) + 1
        BY <1>11, <3>3
      <4> QED
        BY <1>1, <4>1, <4>2
    <3> QED
      BY <1>1, <3>2, <3>3
  <2> QED
    BY <1>7, <1>8, <2>1, <2>2 DEF PathShape
<1> QED
  BY <1>2, <1>3, <1>8, <1>10, <1>11, <1>13 DEF entry, OneMoreEntry

(* One more decision: what the new level says holds below it.              *)
LEMMA PushLevelOK ==
  ASSUME config \in Configurations, NEW p, PathOK(p),
         NEW literal \in Literals(config.variables), NEW lb \in 0..MaxInteger, NEW id \in Nat,
         \A s \in Below(p, MaxLevel(p)) : Holds(s, literal) => Cost[s] >= lb,
         NEW q, q = PushLevel(p, literal, lb, id)
  PROVE  /\ PathOK(q)
         /\ Below(q, MaxLevel(p)) = Below(p, MaxLevel(p))
         /\ Below(q, MaxLevel(q)) = {s \in Below(p, MaxLevel(p)) : Holds(s, literal)}
<1> DEFINE k == MaxLevel(p)
<1>1. PathShape(p) /\ k \in Nat /\ Len(p.trail) \in Nat /\ DOMAIN p.trail = 1..Len(p.trail)
  BY PathFacts DEF PathOK
<1>2. /\ PathShape(q) /\ MaxLevel(q) = k + 1
      /\ OneMoreEntry(p, q, id, literal)
      /\ \A l \in 1..k :
           /\ DecisionIndex(q, l) = DecisionIndex(p, l) /\ Decision(q, l) = Decision(p, l)
           /\ Implications(q, l) = Implications(p, l) /\ ObjectiveLb(q, l) = ObjectiveLb(p, l)
      /\ DecisionIndex(q, k + 1) = Len(p.trail) + 1
      /\ Decision(q, k + 1) = literal /\ Implications(q, k + 1) = {}
      /\ ObjectiveLb(q, k + 1) = lb \/ (k > 0 /\ ObjectiveLb(q, k + 1) = ObjectiveLb(p, k))
  BY <1>1, PushLevelShape
<1>3. ASSUME NEW l \in 0..k PROVE Below(q, l) = Below(p, l)
  <2>1. \A i \in 1..l : Decision(q, i) = Decision(p, i)
    BY <1>1, <1>2
  <2>2. Decisions(q, l) = Decisions(p, l)
    BY <2>1 DEF Decisions
  <2> QED
    BY <2>2 DEF Below
<1>4. Below(q, k + 1) = {s \in Below(p, k) : Satisfies(s, {literal})}
  <2>1. Below(q, k + 1) = {s \in Below(q, k) : Satisfies(s, {Decision(q, k + 1)})}
    <3>1. k \in 0..MaxLevel(q) /\ k + 1 \in 0..MaxLevel(q) /\ MaxLevel(q) \in Nat
      BY <1>1, <1>2
    <3> HIDE DEF k
    <3> QED
      BY <3>1, BelowFacts
  <2>2. Below(q, k) = Below(p, k) /\ Decision(q, k + 1) = literal
    BY <1>1, <1>2, <1>3
  <2> HIDE DEF k
  <2> QED
    BY <2>1, <2>2
<1>5. PathSound(q)
  <2> SUFFICES ASSUME NEW l \in 1..(k + 1), NEW s \in Below(q, l)
               PROVE  Satisfies(s, Implications(q, l)) /\ Cost[s] >= ObjectiveLb(q, l)
    BY <1>2 DEF PathSound
  <2>1. CASE l \in 1..k
    BY <1>1, <1>2, <1>3, <2>1 DEF PathOK, PathSound
  <2>2. CASE l = k + 1
    <3>1. s \in Below(p, k) /\ Satisfies(s, {literal})
      BY <1>4, <2>2
    <3>2. Cost[s] >= lb
      BY <3>1 DEF Holds
    <3>3. k > 0 => Cost[s] >= ObjectiveLb(p, k)
      BY <1>1, <3>1 DEF PathOK, PathSound
    <3>4. Satisfies(s, Implications(q, l))
      BY <1>2, <2>2, SatisfiesUnion
    <3> QED
      BY <1>2, <2>2, <3>2, <3>3, <3>4
  <2> QED
    BY <1>1, <2>1, <2>2
<1>6. ASSUME NEW l \in 0..k PROVE End(q, l) = End(p, l)
  <2>1. CASE l = k
    BY <1>1, <1>2, <2>1 DEF End
  <2>2. CASE l # k
    <3>1. l + 1 \in 1..k /\ l # k + 1
      BY <1>1, <2>2
    <3> QED
      BY <1>2, <2>2, <3>1 DEF End
  <2> QED
    BY <2>1, <2>2
<1>7. End(q, k + 1) = Len(p.trail) + 1
  BY <1>1, <1>2 DEF End, OneMoreEntry
<1>8. \A i \in 1..Len(p.trail) : q.trail[i] = p.trail[i]
  BY <1>1, <1>2, PathFacts DEF OneMoreEntry
<1>9. q.trail[Len(p.trail) + 1].literal = literal
  BY <1>1, <1>2, PathFacts DEF OneMoreEntry
<1>10. TrailFollows(q)
  <2> SUFFICES ASSUME NEW l \in 0..(k + 1), NEW s \in Below(q, l), NEW i \in 1..End(q, l)
               PROVE  Satisfies(s, {q.trail[i].literal})
    BY <1>2 DEF TrailFollows
  <2>1. CASE l \in 0..k
    <3>1. End(p, l) \in 0..Len(p.trail)
      BY <1>1, <2>1, PathFacts
    <3>2. i \in 1..End(p, l) /\ i \in 1..Len(p.trail)
      BY <1>1, <1>6, <2>1, <3>1
    <3>3. s \in Below(p, l)
      BY <1>3, <2>1
    <3>4. Satisfies(s, {p.trail[i].literal})
      BY <2>1, <3>2, <3>3 DEF PathOK, TrailFollows
    <3> QED
      BY <1>8, <3>2, <3>4
  <2>2. CASE l = k + 1
    <3>1. s \in Below(p, k) /\ Satisfies(s, {literal})
      BY <1>4, <2>2
    <3>2. CASE i = Len(p.trail) + 1
      BY <1>9, <3>1, <3>2
    <3>3. CASE i \in 1..Len(p.trail)
      <4>1. End(p, k) = Len(p.trail) /\ k \in 0..k
        BY <1>1 DEF End
      <4>2. Satisfies(s, {p.trail[i].literal})
        BY <3>1, <3>3, <4>1 DEF PathOK, TrailFollows
      <4> QED
        BY <1>8, <3>3, <4>2
    <3> QED
      BY <1>1, <1>7, <2>2, <3>2, <3>3
  <2> QED
    BY <1>1, <2>1, <2>2
<1>11. Below(q, k) = Below(p, k)
  BY <1>1, <1>3
<1>12. Below(q, k + 1) = {s \in Below(p, k) : Holds(s, literal)}
  BY <1>4 DEF Holds
<1> QED
  BY <1>2, <1>5, <1>10, <1>11, <1>12 DEF PathOK

-----------------------------------------------------------------------------
(* SetLevelImplied(): the later levels move down by one.                   *)
LEMMA RemoveAtFacts ==
  ASSUME NEW S, NEW s \in Seq(S), NEW i \in 1..Len(s)
  PROVE  /\ RemoveAt(s, i) \in Seq(S) /\ Len(RemoveAt(s, i)) = Len(s) - 1
         /\ \A k \in 1..(Len(s) - 1) : RemoveAt(s, i)[k] = s[IF k < i THEN k ELSE k + 1]
<1> DEFINE a == SubSeq(s, 1, i - 1)
           b == SubSeq(s, i + 1, Len(s))
<1>1. Len(s) \in Nat /\ i \in Nat
  OBVIOUS
<1>2. a \in Seq(S) /\ Len(a) = i - 1 /\ \A k \in 1..(i - 1) : a[k] = s[k]
  BY <1>1
<1>3. b \in Seq(S) /\ Len(b) = Len(s) - i /\ \A k \in 1..(Len(s) - i) : b[k] = s[i + k]
  BY <1>1
<1> HIDE DEF a, b
<1>4. a \o b \in Seq(S) /\ Len(a \o b) = Len(s) - 1
  <2>1. a \in Seq(S) /\ b \in Seq(S)
    BY <1>2, <1>3
  <2>2. a \o b \in Seq(S) /\ Len(a \o b) = Len(a) + Len(b)
    BY <2>1
  <2> QED
    BY <1>1, <1>2, <1>3, <2>2
<1>5. ASSUME NEW k \in 1..(Len(s) - 1) PROVE (a \o b)[k] = s[IF k < i THEN k ELSE k + 1]
  <2>1. CASE k < i
    BY <1>1, <1>2, <1>3, <2>1
  <2>2. CASE ~ (k < i)
    <3>1. (a \o b)[k] = b[k - (i - 1)]
      BY <1>1, <1>2, <1>3, <2>2
    <3>2. k - (i - 1) \in 1..(Len(s) - i) /\ i + (k - (i - 1)) = k + 1
      BY <1>1, <2>2
    <3>3. b[k - (i - 1)] = s[k + 1]
      BY <1>3, <3>2
    <3> QED
      BY <2>2, <3>1, <3>3
  <2> QED
    BY <2>1, <2>2
<1> QED
  BY <1>4, <1>5 DEF RemoveAt, a, b

(* The level of p that becomes level k.                                    *)
OldLevel(k, l) == IF k < l THEN k ELSE k + 1

(* Each level after the implied one is the next one of before.             *)
LEMMA SetLevelImpliedShape ==
  ASSUME config \in Configurations, NEW p, PathShape(p), NEW l \in 1..MaxLevel(p),
         NEW q, q = SetLevelImplied(p, l)
  PROVE  /\ PathShape(q) /\ MaxLevel(q) = MaxLevel(p) - 1 /\ q.trail = p.trail
         /\ \A k \in 1..(MaxLevel(p) - 1) :
              /\ OldLevel(k, l) \in 1..MaxLevel(p)
              /\ DecisionIndex(q, k) = DecisionIndex(p, OldLevel(k, l))
              /\ Decision(q, k) = Decision(p, OldLevel(k, l))
              /\ k # l - 1 => /\ Implications(q, k) = Implications(p, OldLevel(k, l))
                              /\ ObjectiveLb(q, k) = ObjectiveLb(p, OldLevel(k, l))
              /\ k = l - 1 => /\ Implications(q, k) =
                                   Implications(p, k) \cup ({Decision(p, l)} \cup Implications(p, l))
                              /\ \/ ObjectiveLb(q, k) = ObjectiveLb(p, k)
                                 \/ ObjectiveLb(q, k) = ObjectiveLb(p, l)
<1> DEFINE implied == {Decision(p, l)} \cup Implications(p, l)
           lb == Max({ObjectiveLb(p, l - 1), ObjectiveLb(p, l)})
           above == [k \in DOMAIN p.levels |->
                       IF k # l - 1 THEN p.levels[k]
                       ELSE [first |-> DecisionIndex(p, k),
                             implications |-> Implications(p, k) \cup implied,
                             lb |-> Max({ObjectiveLb(p, k), ObjectiveLb(p, l)})]]
           old(k) == OldLevel(k, l)
           m == MaxLevel(p)
<1>1. /\ m \in Nat /\ Len(p.trail) \in Nat /\ m = Len(p.levels)
      /\ p.trail \in Seq(TrailEntries) /\ p.levels \in Seq(PathLevels)
      /\ DOMAIN p.levels = 1..m /\ DOMAIN p.trail = 1..Len(p.trail)
      /\ p.known \subseteq Literals(config.variables)
      /\ \A k \in 1..m : /\ DecisionIndex(p, k) \in 1..Len(p.trail)
                         /\ Decision(p, k) \in Literals(config.variables)
                         /\ Implications(p, k) \subseteq Literals(config.variables)
                         /\ ObjectiveLb(p, k) \in 0..MaxInteger
  BY PathFacts
<1>2. MaxInteger \in Nat
  BY ConfigurationFacts
<1>3. implied \subseteq Literals(config.variables)
  BY <1>1
<1>4. ASSUME l - 1 \in 1..m
      PROVE  /\ lb \in 0..MaxInteger
             /\ lb = ObjectiveLb(p, l - 1) \/ lb = ObjectiveLb(p, l)
  <2>1. ObjectiveLb(p, l - 1) \in 0..MaxInteger /\ ObjectiveLb(p, l) \in 0..MaxInteger
    BY <1>1, <1>4
  <2>2. ObjectiveLb(p, l - 1) \in Int /\ ObjectiveLb(p, l) \in Int
    BY <1>2, <2>1
  <2>3. lb \in {ObjectiveLb(p, l - 1), ObjectiveLb(p, l)}
    BY <2>2, MaxOfTwo
  <2> QED
    BY <2>1, <2>3
<1>5. /\ q.trail = p.trail /\ q.levels = RemoveAt(above, l)
      /\ q.known = p.known \cup {lit \in implied : l = 1}
      /\ q = [trail |-> q.trail, levels |-> q.levels, known |-> q.known]
  <2> HIDE DEF above, implied
  <2>1. q = [trail |-> p.trail, levels |-> RemoveAt(above, l),
             known |-> p.known \cup {lit \in implied : l = 1}]
    BY Zenon DEF SetLevelImplied, above, implied
  <2> QED
    BY <2>1
<1>6. ASSUME NEW k \in 1..m
      PROVE  /\ above[k] \in PathLevels /\ above[k].first = DecisionIndex(p, k)
             /\ k # l - 1 => /\ above[k].implications = Implications(p, k)
                             /\ above[k].lb = ObjectiveLb(p, k)
             /\ k = l - 1 => /\ above[k].implications = Implications(p, k) \cup implied
                             /\ above[k].lb = lb
  <2>1. CASE k # l - 1
    <3>1. above[k] = p.levels[k] /\ p.levels[k] \in PathLevels
      <4> HIDE DEF implied
      <4> QED
        BY <1>1, <2>1
    <3> HIDE DEF above
    <3> QED
      BY <2>1, <3>1 DEF DecisionIndex, Implications, ObjectiveLb
  <2>2. CASE k = l - 1
    <3>1. above[k] = [first |-> DecisionIndex(p, k),
                      implications |-> Implications(p, k) \cup implied, lb |-> lb]
      <4> HIDE DEF implied
      <4> QED
        BY <1>1, <2>2
    <3>2. lb \in 0..MaxInteger
      BY <1>4, <2>2
    <3>3. Implications(p, k) \cup implied \in SUBSET Literals(config.variables)
      BY <1>1, <1>3
    <3>4. DecisionIndex(p, k) \in Nat
      BY <1>1
    <3> HIDE DEF above, lb, implied
    <3> QED
      BY <2>2, <3>1, <3>2, <3>3, <3>4 DEF PathLevels
  <2> QED
    BY <2>1, <2>2
<1>7. above \in Seq(PathLevels) /\ Len(above) = m
  <2>1. above = [k \in 1..m |-> above[k]]
    <3> HIDE DEF implied
    <3> QED
      BY <1>1
  <2>2. \A k \in 1..m : above[k] \in PathLevels
    BY <1>6
  <2>3. m \in Nat
    BY <1>1
  <2> HIDE DEF above, m
  <2> QED
    BY <2>1, <2>2, <2>3, FunctionIsSequence
<1> HIDE DEF above, lb, implied
<1>8. /\ q.levels \in Seq(PathLevels) /\ Len(q.levels) = m - 1
      /\ \A k \in 1..(m - 1) : q.levels[k] = above[old(k)]
  <2>1. l \in 1..Len(above)
    BY <1>7
  <2>2. /\ RemoveAt(above, l) \in Seq(PathLevels) /\ Len(RemoveAt(above, l)) = Len(above) - 1
        /\ \A k \in 1..(Len(above) - 1) :
             RemoveAt(above, l)[k] = above[IF k < l THEN k ELSE k + 1]
    BY <1>7, <2>1, RemoveAtFacts
  <2> QED
    BY <1>5, <1>7, <2>2 DEF OldLevel
<1>9. \A k \in 1..(m - 1) : old(k) \in 1..m
  BY <1>1 DEF OldLevel
<1>10. q \in Paths /\ MaxLevel(q) = m - 1
  BY <1>1, <1>3, <1>5, <1>8 DEF Paths, MaxLevel
<1>11. ASSUME NEW k \in 1..(m - 1)
       PROVE  /\ DecisionIndex(q, k) = DecisionIndex(p, old(k))
              /\ Decision(q, k) = Decision(p, old(k))
              /\ old(k) # l - 1 => /\ Implications(q, k) = Implications(p, old(k))
                                   /\ ObjectiveLb(q, k) = ObjectiveLb(p, old(k))
              /\ old(k) = l - 1 => /\ Implications(q, k) = Implications(p, old(k)) \cup implied
                                   /\ ObjectiveLb(q, k) = lb
  <2>1. q.levels[k] = above[old(k)] /\ old(k) \in 1..m
    BY <1>8, <1>9
  <2>2. q.trail = p.trail
    BY <1>5
  <2> HIDE DEF old, m
  <2>3. DecisionIndex(q, k) = DecisionIndex(p, old(k))
    BY <1>6, <2>1 DEF DecisionIndex
  <2>4. Decision(q, k) = Decision(p, old(k))
    BY <2>2, <2>3 DEF Decision
  <2> QED
    BY <1>6, <2>1, <2>3, <2>4 DEF Implications, ObjectiveLb
<1>12. \A k \in 1..(m - 1) : /\ old(k) = l - 1 <=> k = l - 1
                             /\ k = l - 1 => old(k) = k
  BY <1>1 DEF OldLevel
<1>13. PathShape(q)
  <2>1. \A k \in 1..(m - 1) : DecisionIndex(q, k) \in 1..Len(p.trail)
    BY <1>1, <1>9, <1>11
  <2>2. ASSUME NEW i \in 1..(m - 1), NEW k \in 1..(m - 1), i < k
        PROVE  DecisionIndex(q, i) < DecisionIndex(q, k)
    <3>1. old(i) < old(k)
      BY <1>1, <2>2 DEF OldLevel
    <3>2. old(i) \in 1..m /\ old(k) \in 1..m
      BY <1>9
    <3>3. DecisionIndex(p, old(i)) < DecisionIndex(p, old(k))
      BY <3>1, <3>2 DEF PathShape
    <3> QED
      BY <1>11, <3>3
  <2> QED
    BY <1>1, <1>5, <1>10, <2>1, <2>2 DEF PathShape
<1>14. ASSUME NEW k \in 1..(m - 1), k = l - 1
       PROVE  /\ Implications(q, k) = Implications(p, k) \cup implied
              /\ ObjectiveLb(q, k) = ObjectiveLb(p, k) \/ ObjectiveLb(q, k) = ObjectiveLb(p, l)
  <2>1. old(k) = k /\ l - 1 \in 1..m
    BY <1>1, <1>12, <1>14
  <2>2. Implications(q, k) = Implications(p, k) \cup implied /\ ObjectiveLb(q, k) = lb
    BY <1>11, <1>12, <1>14, <2>1
  <2> QED
    BY <1>4, <1>14, <2>1, <2>2
<1>15. ASSUME NEW k \in 1..(m - 1), k # l - 1
       PROVE  /\ Implications(q, k) = Implications(p, old(k))
              /\ ObjectiveLb(q, k) = ObjectiveLb(p, old(k))
  BY <1>11, <1>12, <1>15
<1> QED
  BY <1>5, <1>9, <1>10, <1>11, <1>13, <1>14, <1>15 DEF implied

(* An implied decision is no choice: nothing is lost below.                *)
LEMMA SetLevelImpliedOK ==
  ASSUME config \in Configurations, NEW p, PathOK(p), NEW l \in 1..MaxLevel(p),
         \A s \in Below(p, l - 1) : Satisfies(s, {Decision(p, l)}),
         NEW q, q = SetLevelImplied(p, l)
  PROVE  /\ PathOK(q)
         /\ \A k \in 0..(MaxLevel(p) - 1) : Below(q, k) = Below(p, OldLevel(k, l))
         /\ Below(q, MaxLevel(q)) = Below(p, MaxLevel(p))
<1> DEFINE m == MaxLevel(p)
           old(k) == OldLevel(k, l)
<1>1. PathShape(p) /\ m \in Nat /\ Len(p.trail) \in Nat
  BY PathFacts DEF PathOK
<1>2. /\ PathShape(q) /\ MaxLevel(q) = m - 1 /\ q.trail = p.trail
      /\ \A k \in 1..(m - 1) :
              /\ old(k) \in 1..m
              /\ DecisionIndex(q, k) = DecisionIndex(p, old(k))
              /\ Decision(q, k) = Decision(p, old(k))
              /\ k # l - 1 => /\ Implications(q, k) = Implications(p, old(k))
                              /\ ObjectiveLb(q, k) = ObjectiveLb(p, old(k))
              /\ k = l - 1 => /\ Implications(q, k) =
                                   Implications(p, k) \cup ({Decision(p, l)} \cup Implications(p, l))
                              /\ \/ ObjectiveLb(q, k) = ObjectiveLb(p, k)
                                 \/ ObjectiveLb(q, k) = ObjectiveLb(p, l)
  BY <1>1, SetLevelImpliedShape
<1>3. /\ l - 1 \in 0..m /\ l \in 0..m /\ l = (l - 1) + 1
      /\ \A i, k \in 0..m : k = i + 1 =>
           Below(p, k) = {s \in Below(p, i) : Satisfies(s, {Decision(p, k)})}
      /\ \A i, k \in 0..m : i <= k => Below(p, k) \subseteq Below(p, i)
  BY <1>1, BelowFacts
<1>4. Below(p, l) = Below(p, l - 1)
  <2>1. Below(p, l) = {s \in Below(p, l - 1) : Satisfies(s, {Decision(p, l)})}
    BY <1>3
  <2> QED
    BY <2>1
(* The decision that is no decision any more is implied.                   *)
<1>5. ASSUME NEW k \in 0..(m - 1) PROVE Below(q, k) = Below(p, old(k))
  <2>1. CASE k < l
    <3>1. \A i \in 1..k : Decision(q, i) = Decision(p, i)
      BY <1>1, <1>2, <2>1 DEF OldLevel
    <3>2. Decisions(q, k) = Decisions(p, k)
      BY <3>1 DEF Decisions
    <3> QED
      BY <2>1, <3>2 DEF Below, OldLevel
  <2>2. CASE ~ (k < l)
    <3>1. k + 1 \in 0..m /\ old(k) = k + 1
      BY <1>1, <2>2 DEF OldLevel
    <3>2. \A i \in 1..k : Decision(q, i) = Decision(p, old(i))
      BY <1>1, <1>2
    <3>3. \A i \in 1..(k + 1) : i # l => \E j \in 1..k : old(j) = i
      <4> SUFFICES ASSUME NEW i \in 1..(k + 1), i # l PROVE \E j \in 1..k : old(j) = i
        OBVIOUS
      <4>1. CASE i < l
        <5>1. i \in 1..k /\ old(i) = i
          BY <2>2, <4>1 DEF OldLevel
        <5> QED
          BY <5>1
      <4>2. CASE i > l
        <5>1. i - 1 \in 1..k /\ old(i - 1) = i
          BY <2>2, <4>2 DEF OldLevel
        <5> QED
          BY <5>1
      <4> QED
        BY <4>1, <4>2
    <3>4. \A j \in 1..k : old(j) \in 1..(k + 1)
      BY <2>2 DEF OldLevel
    <3>5. Decisions(p, k + 1) = Decisions(q, k) \cup {Decision(p, l)}
      <4>1. l \in 1..(k + 1)
        BY <2>2
      <4> HIDE DEF old
      <4> QED
        BY <3>2, <3>3, <3>4, <4>1 DEF Decisions
    <3>6. Below(p, k + 1) \subseteq Below(q, k)
      BY <3>5, SatisfiesUnion DEF Below
    <3>7. Decisions(p, l - 1) \subseteq Decisions(q, k)
      <4>1. \A i \in 1..(l - 1) : i \in 1..k /\ old(i) = i
        BY <2>2 DEF OldLevel
      <4> HIDE DEF old
      <4> QED
        BY <3>2, <4>1 DEF Decisions
    <3>8. Below(q, k) \subseteq Below(p, l - 1)
      BY <3>7, SatisfiesUnion DEF Below
    <3>9. Below(q, k) \subseteq Below(p, k + 1)
      BY <3>5, <3>8, SatisfiesUnion DEF Below
    <3> QED
      BY <3>1, <3>6, <3>9
  <2> QED
    BY <1>1, <2>1, <2>2
<1>6. Below(q, m - 1) = Below(p, m)
  <2>1. CASE l = m
    <3>1. m - 1 \in 0..(m - 1) /\ old(m - 1) = m - 1
      BY <1>1, <2>1 DEF OldLevel
    <3> QED
      BY <1>4, <1>5, <2>1, <3>1
  <2>2. CASE l # m
    <3>1. m - 1 \in 0..(m - 1) /\ old(m - 1) = m
      BY <1>1, <2>2 DEF OldLevel
    <3> QED
      BY <1>5, <3>1
  <2> QED
    BY <2>1, <2>2
<1>7. PathSound(q)
  <2> SUFFICES ASSUME NEW k \in 1..(m - 1), NEW s \in Below(q, k)
               PROVE  Satisfies(s, Implications(q, k)) /\ Cost[s] >= ObjectiveLb(q, k)
    BY <1>2 DEF PathSound
  <2>1. k \in 0..(m - 1) /\ old(k) \in 1..m
    BY <1>1, <1>2
  <2>2. s \in Below(p, old(k))
    BY <1>5, <2>1
  <2>3. Satisfies(s, Implications(p, old(k))) /\ Cost[s] >= ObjectiveLb(p, old(k))
    BY <2>1, <2>2 DEF PathOK, PathSound
  <2>4. CASE k # l - 1
    BY <1>2, <2>3, <2>4
  <2>5. CASE k = l - 1
    <3>1. old(k) = k
      BY <1>1, <2>5 DEF OldLevel
    <3>2. s \in Below(p, l) /\ Satisfies(s, {Decision(p, l)})
      BY <1>4, <2>2, <2>5, <3>1
    <3>3. Satisfies(s, Implications(p, l)) /\ Cost[s] >= ObjectiveLb(p, l)
      BY <3>2 DEF PathOK, PathSound
    <3>4. Satisfies(s, Implications(p, k) \cup ({Decision(p, l)} \cup Implications(p, l)))
      BY <2>3, <3>1, <3>2, <3>3, SatisfiesUnion
    <3> QED
      BY <1>2, <2>3, <2>5, <3>1, <3>3, <3>4
  <2> QED
    BY <2>4, <2>5
<1>8. ASSUME NEW k \in 0..(m - 1) PROVE \E i \in 0..m : Below(q, k) = Below(p, i) /\ End(q, k) = End(p, i)
  <2>1. CASE k < l - 1
    <3>1. k \in 0..m /\ old(k) = k /\ k + 1 \in 1..(m - 1) /\ old(k + 1) = k + 1 /\ k # m /\ k # m - 1
      BY <1>1, <2>1 DEF OldLevel
    <3>2. End(q, k) = End(p, k)
      BY <1>2, <3>1 DEF End
    <3> QED
      BY <1>5, <3>1, <3>2
  <2>2. CASE ~ (k < l - 1)
    <3>1. Below(q, k) = Below(p, k + 1)
      <4>1. CASE k = l - 1
        <5>1. old(k) = k /\ k + 1 = l
          BY <1>1, <4>1 DEF OldLevel
        <5> QED
          BY <1>4, <1>5, <4>1, <5>1
      <4>2. CASE k # l - 1
        <5>1. old(k) = k + 1
          BY <1>1, <2>2, <4>2 DEF OldLevel
        <5> QED
          BY <1>5, <5>1
      <4> QED
        BY <4>1, <4>2
    <3>2. k + 1 \in 0..m
      BY <1>1
    <3>3. End(q, k) = End(p, k + 1)
      <4>1. CASE k = m - 1
        BY <1>1, <1>2, <4>1 DEF End
      <4>2. CASE k # m - 1
        <5>1. k + 1 \in 1..(m - 1) /\ old(k + 1) = k + 2 /\ k + 1 # m /\ k + 2 = (k + 1) + 1
          BY <1>1, <2>2, <4>2 DEF OldLevel
        <5>2. DecisionIndex(q, k + 1) = DecisionIndex(p, k + 2)
          BY <1>2, <5>1
        <5> QED
          BY <1>2, <4>2, <5>1, <5>2 DEF End
      <4> QED
        BY <4>1, <4>2
    <3> QED
      BY <3>1, <3>2, <3>3
  <2> QED
    BY <2>1, <2>2
<1>9. TrailFollows(q)
  <2> SUFFICES ASSUME NEW k \in 0..(m - 1), NEW s \in Below(q, k), NEW i \in 1..End(q, k)
               PROVE  Satisfies(s, {p.trail[i].literal})
    BY <1>2 DEF TrailFollows
  <2>1. PICK j \in 0..m : Below(q, k) = Below(p, j) /\ End(q, k) = End(p, j)
    BY <1>8
  <2> QED
    BY <2>1 DEF PathOK, TrailFollows
<1> QED
  BY <1>2, <1>5, <1>6, <1>7, <1>9 DEF PathOK

-----------------------------------------------------------------------------
(* AddImplications() and the bound of a level change what levels say.      *)
LEMMA AddImplicationsShape ==
  ASSUME config \in Configurations, NEW p, PathShape(p),
         NEW l \in 0..MaxLevel(p), NEW lits \in SUBSET Literals(config.variables),
         NEW q, q = AddImplications(p, l, lits)
  PROVE  /\ PathShape(q) /\ SameStarts(p, q)
         /\ \A k \in 1..MaxLevel(p) :
              /\ ObjectiveLb(q, k) = ObjectiveLb(p, k)
              /\ Implications(q, k) \subseteq Implications(p, k) \cup {lit \in lits : k = l}
<1> DEFINE m == MaxLevel(p)
           new == {lit \in lits : lit \notin p.known /\ \A k \in 1..l : lit \notin Implications(p, k)}
           level(k) == [first |-> DecisionIndex(p, k), lb |-> ObjectiveLb(p, k),
                        implications |-> Implications(p, k) \cup {lit \in new : k = l}]
<1>1. /\ m \in Nat /\ m = Len(p.levels) /\ DOMAIN p.levels = 1..m
      /\ p.trail \in Seq(TrailEntries) /\ p.known \subseteq Literals(config.variables)
      /\ \A k \in 1..m : /\ DecisionIndex(p, k) \in Nat
                         /\ Implications(p, k) \subseteq Literals(config.variables)
                         /\ ObjectiveLb(p, k) \in 0..MaxInteger
  BY PathFacts
<1>2. new \subseteq lits
  OBVIOUS
<1>3. /\ q.trail = p.trail /\ q.levels = [k \in DOMAIN p.levels |-> level(k)] /\ q.known = p.known
      /\ q = [trail |-> q.trail, levels |-> q.levels, known |-> q.known]
  <2>1. q = [trail |-> p.trail, levels |-> [k \in DOMAIN p.levels |-> level(k)], known |-> p.known]
    BY Zenon DEF AddImplications
  <2> HIDE DEF level
  <2> QED
    BY <2>1
<1> HIDE DEF new
<1>4. ASSUME NEW k \in 1..m
      PROVE  /\ level(k) \in PathLevels
             /\ level(k).first = DecisionIndex(p, k) /\ level(k).lb = ObjectiveLb(p, k)
             /\ level(k).implications = Implications(p, k) \cup {lit \in new : k = l}
  BY <1>1, <1>2 DEF PathLevels
<1> HIDE DEF level
<1>5. q.levels \in Seq(PathLevels) /\ Len(q.levels) = m /\ \A k \in 1..m : q.levels[k] = level(k)
  <2>1. \A k \in 1..m : level(k) \in PathLevels
    BY <1>4
  <2>2. q.levels = [k \in 1..m |-> level(k)]
    BY <1>1, <1>3
  <2> QED
    BY <1>1, <2>1, <2>2
<1>6. q \in Paths /\ MaxLevel(q) = m
  BY <1>1, <1>3, <1>5 DEF Paths, MaxLevel
<1>7. \A k \in 1..m :
        /\ DecisionIndex(q, k) = DecisionIndex(p, k) /\ ObjectiveLb(q, k) = ObjectiveLb(p, k)
        /\ Implications(q, k) = Implications(p, k) \cup {lit \in new : k = l}
  <2> SUFFICES ASSUME NEW k \in 1..m
               PROVE  /\ DecisionIndex(q, k) = DecisionIndex(p, k)
                      /\ ObjectiveLb(q, k) = ObjectiveLb(p, k)
                      /\ Implications(q, k) = Implications(p, k) \cup {lit \in new : k = l}
    OBVIOUS
  <2>1. DecisionIndex(q, k) = level(k).first /\ ObjectiveLb(q, k) = level(k).lb
        /\ Implications(q, k) = level(k).implications
    BY <1>5 DEF DecisionIndex, ObjectiveLb, Implications
  <2> QED
    BY <1>4, <2>1
<1>8. SameStarts(p, q)
  BY <1>3, <1>6, <1>7 DEF SameStarts
<1>9. PathShape(q)
  BY <1>6, <1>8, SameStartsFacts
<1> QED
  BY <1>2, <1>7, <1>8, <1>9

(* Implications that hold below the level can be added to it.              *)
LEMMA AddImplicationsOK ==
  ASSUME config \in Configurations, NEW p, PathOK(p),
         NEW l \in 0..MaxLevel(p), NEW lits \in SUBSET Literals(config.variables),
         \A s \in Below(p, l) : Satisfies(s, lits),
         NEW q, q = AddImplications(p, l, lits)
  PROVE  /\ PathOK(q) /\ SameStarts(p, q)
         /\ \A k \in 0..MaxLevel(p) : Below(q, k) = Below(p, k)
<1>1. PathShape(p) /\ MaxLevel(p) \in Nat
  BY PathFacts DEF PathOK
<1>2. /\ PathShape(q) /\ SameStarts(p, q)
      /\ \A k \in 1..MaxLevel(p) :
              /\ ObjectiveLb(q, k) = ObjectiveLb(p, k)
              /\ Implications(q, k) \subseteq Implications(p, k) \cup {lit \in lits : k = l}
  BY <1>1, AddImplicationsShape
<1>3. /\ \A k \in 0..MaxLevel(p) : Below(q, k) = Below(p, k)
      /\ TrailFollows(q)
  BY <1>1, <1>2, SameStartsFacts DEF PathOK, PathShape
<1>4. PathSound(q)
  <2> SUFFICES ASSUME NEW k \in 1..MaxLevel(p), NEW s \in Below(p, k)
               PROVE  Satisfies(s, Implications(q, k)) /\ Cost[s] >= ObjectiveLb(q, k)
    BY <1>1, <1>2, <1>3 DEF PathSound, SameStarts
  <2>1. Satisfies(s, Implications(p, k)) /\ Cost[s] >= ObjectiveLb(p, k)
    BY DEF PathOK, PathSound
  <2>2. Satisfies(s, {lit \in lits : k = l})
    BY DEF Satisfies
  <2>3. Satisfies(s, Implications(p, k) \cup {lit \in lits : k = l})
    BY <2>1, <2>2, SatisfiesUnion
  <2> QED
    BY <1>2, <2>1, <2>3 DEF Satisfies
<1> QED
  BY <1>2, <1>3, <1>4 DEF PathOK

(* So can a bound that holds below the level.                              *)
LEMMA RaiseObjectiveLbOK ==
  ASSUME config \in Configurations, NEW p, PathOK(p), NEW l \in 1..MaxLevel(p),
         NEW lb \in 0..MaxInteger, \A s \in Below(p, l) : Cost[s] >= lb,
         NEW q, q = [p EXCEPT !.levels[l].lb = lb]
  PROVE  PathOK(q) /\ SameStarts(p, q)
<1> DEFINE m == MaxLevel(p)
<1>1. /\ PathShape(p) /\ m \in Nat /\ m = Len(p.levels) /\ DOMAIN p.levels = 1..m
      /\ p.trail \in Seq(TrailEntries) /\ p.known \subseteq Literals(config.variables)
      /\ p.levels \in Seq(PathLevels) /\ p \in Paths
  BY PathFacts DEF PathOK
<1>2. /\ q.trail = p.trail /\ q.known = p.known
      /\ q.levels = [p.levels EXCEPT ![l].lb = lb]
      /\ q = [trail |-> q.trail, levels |-> q.levels, known |-> q.known]
  <2>1. p = [trail |-> p.trail, levels |-> p.levels, known |-> p.known]
    BY <1>1 DEF Paths
  <2> QED
    BY <2>1
<1>3. ASSUME NEW k \in 1..m
      PROVE  /\ q.levels[k] \in PathLevels
             /\ q.levels[k].first = p.levels[k].first
             /\ q.levels[k].implications = p.levels[k].implications
             /\ q.levels[k].lb = IF k = l THEN lb ELSE p.levels[k].lb
  <2>1. p.levels[k] \in PathLevels
    BY <1>1
  <2>2. CASE k = l
    <3>1. q.levels[k] = [p.levels[k] EXCEPT !.lb = lb]
      BY <1>1, <1>2, <2>2
    <3> QED
      BY <2>1, <2>2, <3>1 DEF PathLevels
  <2>3. CASE k # l
    <3>1. q.levels[k] = p.levels[k]
      BY <1>1, <1>2, <2>3
    <3> QED
      BY <2>1, <2>3, <3>1
  <2> QED
    BY <2>2, <2>3
<1>4. q.levels \in Seq(PathLevels) /\ Len(q.levels) = m
  <2>1. \A k \in 1..m : q.levels[k] \in PathLevels
    BY <1>3
  <2>2. q.levels = [k \in 1..m |-> q.levels[k]]
    BY <1>1, <1>2
  <2> QED
    BY <1>1, <2>1, <2>2
<1>5. q \in Paths /\ MaxLevel(q) = m
  BY <1>1, <1>2, <1>4 DEF Paths, MaxLevel
<1>6. ASSUME NEW k \in 1..m
      PROVE  /\ DecisionIndex(q, k) = DecisionIndex(p, k) /\ Implications(q, k) = Implications(p, k)
             /\ ObjectiveLb(q, k) = IF k = l THEN lb ELSE ObjectiveLb(p, k)
  BY <1>3 DEF DecisionIndex, Implications, ObjectiveLb
<1>7. SameStarts(p, q)
  BY <1>2, <1>5, <1>6 DEF SameStarts
<1>8. /\ PathShape(q) /\ \A k \in 0..m : Below(q, k) = Below(p, k)
      /\ TrailFollows(q)
  BY <1>1, <1>5, <1>7, SameStartsFacts DEF PathOK
<1>9. PathSound(q)
  <2> SUFFICES ASSUME NEW k \in 1..m, NEW s \in Below(q, k)
               PROVE  Satisfies(s, Implications(q, k)) /\ Cost[s] >= ObjectiveLb(q, k)
    BY <1>5 DEF PathSound
  <2>1. s \in Below(p, k)
    <3>1. k \in 0..m
      BY <1>1
    <3>2. Below(q, k) = Below(p, k)
      BY <1>8, <3>1
    <3> QED
      BY <3>2
  <2>2. Satisfies(s, Implications(p, k)) /\ Cost[s] >= ObjectiveLb(p, k)
    BY <2>1 DEF PathOK, PathSound
  <2>3. k = l => Cost[s] >= lb
    BY <2>1
  <2> QED
    BY <1>6, <2>2, <2>3
<1> QED
  BY <1>7, <1>8, <1>9 DEF PathOK

-----------------------------------------------------------------------------
(* A path in the tree: its nodes are the ancestors of the last one.        *)
LEMMA AncestorsOnPath ==
  ASSUME NEW t, TreeShape(t), NEW p, PathShape(p), InTree(t, p)
  PROVE  /\ \A i \in 1..Len(p.trail) :
              /\ NodeAt(p, i) \in 2..Len(t) /\ NodeAt(p, i) \in DOMAIN t
              /\ t[NodeAt(p, i)].parent = (IF i = 1 THEN Root ELSE NodeAt(p, i - 1))
              /\ t[NodeAt(p, i)].literal = p.trail[i].literal
              /\ Ancestors(t, NodeAt(p, i)) = {Root} \cup {NodeAt(p, j) : j \in 1..i}
         /\ LastNode(p) \in DOMAIN t
<1>1. /\ Len(p.trail) \in Nat /\ DOMAIN p.trail = 1..Len(p.trail)
      /\ p.trail \in Seq(TrailEntries)
  BY PathFacts
<1>2. /\ ParentsComeFirst(t) /\ Len(t) \in Nat /\ DOMAIN t = 1..Len(t)
      /\ Root = 1 /\ Root \in DOMAIN t
  BY TreeFacts
<1>3. \A i \in 1..Len(p.trail) :
        /\ NodeAt(p, i) \in 2..Len(t) /\ NodeAt(p, i) \in DOMAIN t
        /\ t[NodeAt(p, i)].parent = (IF i = 1 THEN Root ELSE NodeAt(p, i - 1))
        /\ t[NodeAt(p, i)].literal = p.trail[i].literal
  BY <1>1, <1>2 DEF InTree
<1> DEFINE Good == {i \in 1..Len(p.trail) :
                      Ancestors(t, NodeAt(p, i)) = {Root} \cup {NodeAt(p, j) : j \in 1..i}}
<1>4. ASSUME NEW i \in 1..Len(p.trail), \A j \in 1..(i - 1) : j \in Good
      PROVE  i \in Good
  <2>1. NodeAt(p, i) \in DOMAIN t /\ NodeAt(p, i) # Root
    BY <1>2, <1>3
  <2>2. Ancestors(t, NodeAt(p, i)) = {NodeAt(p, i)} \cup Ancestors(t, t[NodeAt(p, i)].parent)
    BY <1>2, <2>1, AncestorsDefined
  <2>3. CASE i = 1
    <3>1. t[NodeAt(p, i)].parent = Root
      BY <1>3, <2>3
    <3>2. Ancestors(t, Root) = {Root}
      BY <1>2, AncestorsDefined
    <3>3. {NodeAt(p, j) : j \in 1..i} = {NodeAt(p, i)}
      BY <2>3
    <3> QED
      BY <2>2, <3>1, <3>2, <3>3
  <2>4. CASE i # 1
    <3>1. i - 1 \in 1..(i - 1) /\ 1..i = 1..(i - 1) \cup {i}
      BY <1>1, <2>4
    <3>2. t[NodeAt(p, i)].parent = NodeAt(p, i - 1)
      BY <1>3, <2>4
    <3>3. Ancestors(t, NodeAt(p, i - 1)) = {Root} \cup {NodeAt(p, j) : j \in 1..(i - 1)}
      BY <1>4, <3>1
    <3>4. {NodeAt(p, j) : j \in 1..i} = {NodeAt(p, j) : j \in 1..(i - 1)} \cup {NodeAt(p, i)}
      BY <3>1
    <3> QED
      BY <2>2, <3>2, <3>3, <3>4
  <2> QED
    BY <2>3, <2>4
<1>5. 1..Len(p.trail) \subseteq Good
  <2> HIDE DEF Good
  <2> QED
    BY <1>1, <1>4, IntervalInduction
<1>6. LastNode(p) \in DOMAIN t
  <2>1. p.trail # <<>> => Len(p.trail) \in 1..Len(p.trail)
    BY <1>1
  <2> QED
    BY <1>2, <1>3, <2>1 DEF LastNode
<1> QED
  BY <1>3, <1>5, <1>6

(* The decisions of a level come before the entries of the level.          *)
LEMMA EntriesFacts ==
  ASSUME NEW p, PathShape(p), NEW l \in 0..MaxLevel(p), NEW i \in Entries(p, l)
  PROVE  /\ i \in 1..Len(p.trail) /\ i <= End(p, l)
         /\ \A k \in 1..l : DecisionIndex(p, k) <= i /\ DecisionIndex(p, k) \in 1..i
<1>1. /\ MaxLevel(p) \in Nat /\ Len(p.trail) \in Nat /\ End(p, l) \in 0..Len(p.trail)
      /\ \A k \in 1..MaxLevel(p) : DecisionIndex(p, k) \in 1..Len(p.trail)
  BY PathFacts
<1>2. l # 0 => l \in 1..MaxLevel(p)
  BY <1>1
<1>3. Start(p, l) \in 1..(Len(p.trail) + 1)
  <2>1. CASE l = 0
    BY <1>1, <2>1 DEF Start
  <2>2. CASE l # 0
    BY <1>1, <1>2, <2>2 DEF Start
  <2> QED
    BY <2>1, <2>2
<1>4. i \in 1..Len(p.trail) /\ i <= End(p, l) /\ Start(p, l) <= i
  BY <1>1, <1>3 DEF Entries
<1>5. ASSUME NEW k \in 1..l PROVE DecisionIndex(p, k) <= i /\ DecisionIndex(p, k) \in 1..i
  <2>1. l \in 1..MaxLevel(p) /\ k \in 1..MaxLevel(p) /\ l # 0
    BY <1>1
  <2>2. DecisionIndex(p, l) <= i
    BY <1>4, <2>1 DEF Start
  <2>3. DecisionIndex(p, k) <= DecisionIndex(p, l)
    <3>1. CASE k = l
      BY <1>1, <2>1, <3>1
    <3>2. CASE k # l
      <4>1. k < l
        BY <2>1, <3>2
      <4>2. DecisionIndex(p, k) < DecisionIndex(p, l)
        BY <2>1, <4>1 DEF PathShape
      <4> QED
        BY <1>1, <2>1, <4>2
    <3> QED
      BY <3>1, <3>2
  <2>4. DecisionIndex(p, k) \in 1..Len(p.trail) /\ DecisionIndex(p, l) \in 1..Len(p.trail)
    BY <1>1, <2>1
  <2> QED
    BY <1>1, <1>4, <2>2, <2>3, <2>4
<1> QED
  BY <1>4, <1>5

(* Each entry of the trail belongs to a level.                             *)
LEMMA LevelOfEntry ==
  ASSUME NEW p, PathShape(p), NEW i \in 1..Len(p.trail)
  PROVE  \E l \in 0..MaxLevel(p) : i \in Entries(p, l)
<1> DEFINE S == {l \in 0..MaxLevel(p) : Start(p, l) <= i}
           l == Max(S)
<1>1. /\ MaxLevel(p) \in Nat /\ Len(p.trail) \in Nat
      /\ \A k \in 1..MaxLevel(p) : DecisionIndex(p, k) \in 1..Len(p.trail)
  BY PathFacts
<1>2. 0 \in S
  BY <1>1 DEF Start
<1>3. IsFiniteSet(S)
  <2>1. IsFiniteSet(0..MaxLevel(p)) /\ S \subseteq 0..MaxLevel(p)
    BY <1>1, FS_Interval
  <2> HIDE DEF S
  <2> QED
    BY <2>1, FS_Subset
<1>4. l \in S /\ \A k \in S : l >= k
  <2>1. S \in SUBSET Int
    BY <1>1
  <2> HIDE DEF S
  <2> QED
    BY <1>2, <1>3, <2>1, MaxOfSet
<1> HIDE DEF l
<1>5. i <= End(p, l)
  <2>1. CASE l = MaxLevel(p)
    BY <1>1, <2>1 DEF End
  <2>2. CASE l # MaxLevel(p)
    <3>1. l + 1 \in 1..MaxLevel(p) /\ l + 1 \in 0..MaxLevel(p) /\ l + 1 # 0 /\ ~ (l >= l + 1)
      BY <1>1, <1>4, <2>2
    <3>2. ~ (Start(p, l + 1) <= i)
      BY <1>4, <3>1
    <3>3. DecisionIndex(p, l + 1) \in 1..Len(p.trail) /\ ~ (DecisionIndex(p, l + 1) <= i)
      BY <1>1, <3>1, <3>2 DEF Start
    <3> QED
      BY <1>1, <2>2, <3>3 DEF End
  <2> QED
    BY <2>1, <2>2
<1>6. Start(p, l) \in Nat /\ End(p, l) \in Nat
  <2>1. l # 0 => l \in 1..MaxLevel(p)
    BY <1>1, <1>4
  <2>2. End(p, l) \in 0..Len(p.trail)
    BY <1>4, PathFacts
  <2> QED
    BY <1>1, <2>1, <2>2 DEF Start
<1>7. i \in Entries(p, l)
  BY <1>4, <1>5, <1>6 DEF Entries
<1> QED
  BY <1>4, <1>7

(* The solutions of a node on the path are below its level, and the last   *)
(* node has all those below the last level.                                *)
LEMMA SolutionsOnPath ==
  ASSUME NEW t, TreeShape(t), NEW p, PathOK(p), InTree(t, p)
  PROVE  /\ \A l \in 0..MaxLevel(p) : \A i \in Entries(p, l) :
              SolutionsIn(t, NodeAt(p, i)) \subseteq Below(p, l)
         /\ \A l \in 1..MaxLevel(p) :
              /\ DecisionNode(p, l) \in 2..Len(t)
              /\ SolutionsIn(t, DecisionNode(p, l)) \subseteq Below(p, l)
         /\ Below(p, MaxLevel(p)) \subseteq SolutionsIn(t, LastNode(p))
<1>1. /\ PathShape(p) /\ MaxLevel(p) \in Nat /\ Len(p.trail) \in Nat
      /\ DOMAIN p.trail = 1..Len(p.trail)
      /\ \A k \in 1..MaxLevel(p) :
           DecisionIndex(p, k) \in 1..Len(p.trail) /\ DecisionIndex(p, k) <= End(p, k)
      /\ \A k \in 0..MaxLevel(p) : End(p, k) \in 0..Len(p.trail)
  BY PathFacts DEF PathOK
<1>2. Root = 1 /\ ParentsComeFirst(t) /\ Root \in DOMAIN t
  BY TreeFacts
<1>3. \A i \in 1..Len(p.trail) :
        /\ NodeAt(p, i) \in 2..Len(t)
        /\ t[NodeAt(p, i)].literal = p.trail[i].literal
        /\ Ancestors(t, NodeAt(p, i)) = {Root} \cup {NodeAt(p, j) : j \in 1..i}
  BY <1>1, AncestorsOnPath
<1>4. ASSUME NEW l \in 0..MaxLevel(p), NEW i \in Entries(p, l)
      PROVE  SolutionsIn(t, NodeAt(p, i)) \subseteq Below(p, l)
  <2>1. i \in 1..Len(p.trail) /\ \A k \in 1..l : DecisionIndex(p, k) \in 1..i
    BY <1>1, EntriesFacts
  <2>2. ASSUME NEW k \in 1..l
        PROVE  \E n \in Ancestors(t, NodeAt(p, i)) \ {Root} : t[n].literal = Decision(p, k)
    <3> DEFINE j == DecisionIndex(p, k)
    <3>1. j \in 1..i /\ j \in 1..Len(p.trail)
      BY <1>1, <2>1
    <3>2. NodeAt(p, j) \in Ancestors(t, NodeAt(p, i)) /\ NodeAt(p, j) # Root
      BY <1>2, <1>3, <2>1, <3>1
    <3>3. t[NodeAt(p, j)].literal = Decision(p, k)
      BY <1>3, <3>1 DEF Decision
    <3> QED
      BY <3>2, <3>3
  <2>3. Decisions(p, l) \subseteq {t[n].literal : n \in Ancestors(t, NodeAt(p, i)) \ {Root}}
    BY <2>2 DEF Decisions
  <2> QED
    BY <2>3 DEF SolutionsIn, Below, Satisfies
<1>5. ASSUME NEW l \in 1..MaxLevel(p)
      PROVE  /\ DecisionNode(p, l) \in 2..Len(t)
             /\ SolutionsIn(t, DecisionNode(p, l)) \subseteq Below(p, l)
  <2>1. DecisionNode(p, l) = NodeAt(p, DecisionIndex(p, l))
    BY DEF DecisionNode, NodeAt
  <2>2. DecisionIndex(p, l) \in Entries(p, l) /\ l \in 0..MaxLevel(p)
    BY <1>1 DEF Entries, Start
  <2> QED
    BY <1>1, <1>3, <1>4, <2>1, <2>2
<1>6. Below(p, MaxLevel(p)) \subseteq SolutionsIn(t, LastNode(p))
  <2> SUFFICES ASSUME NEW s \in Below(p, MaxLevel(p)) PROVE s \in SolutionsIn(t, LastNode(p))
    OBVIOUS
  <2>1. s \in Improving
    BY DEF Below
  <2>2. CASE p.trail = <<>>
    BY <1>2, <2>1, <2>2, SolutionsDefined DEF LastNode
  <2>3. CASE p.trail # <<>>
    <3>1. Len(p.trail) \in 1..Len(p.trail) /\ LastNode(p) = NodeAt(p, Len(p.trail))
      BY <1>1, <2>3, PathFacts DEF LastNode
    <3>2. MaxLevel(p) \in 0..MaxLevel(p) /\ End(p, MaxLevel(p)) = Len(p.trail)
      BY <1>1 DEF End
    <3>3. \A i \in 1..Len(p.trail) : Satisfies(s, {p.trail[i].literal})
      BY <3>2 DEF PathOK, TrailFollows
    <3>4. \A n \in Ancestors(t, LastNode(p)) \ {Root} :
            \E i \in 1..Len(p.trail) : t[n].literal = p.trail[i].literal
      BY <1>3, <3>1
    <3>5. Satisfies(s, {t[n].literal : n \in Ancestors(t, LastNode(p)) \ {Root}})
      BY <3>3, <3>4 DEF Satisfies
    <3> QED
      BY <2>1, <3>5 DEF SolutionsIn
  <2> QED
    BY <2>2, <2>3
<1> QED
  BY <1>4, <1>5, <1>6

-----------------------------------------------------------------------------
(* What a path of the tree brings to it is true.                           *)
LEMMA WithPathFacts ==
  ASSUME config \in Configurations, GoodTree(nodes),
         NEW p, PathOK(p), InTree(nodes, p), NEW u, u = WithPath(p)
  PROVE  /\ GoodTree(u) /\ SameTree(nodes, u)
         /\ \A n \in DOMAIN nodes :
              /\ u[n].closed = nodes[n].closed /\ u[n].implied = nodes[n].implied
              /\ u[n].lb \in 0..MaxInteger /\ u[n].lb >= nodes[n].lb
              /\ (\A l \in Raised(p) : DecisionNode(p, l) # n) => u[n].lb = nodes[n].lb
<1> DEFINE t == nodes
           raised(n) == {k \in Raised(p) : DecisionNode(p, k) = n}
           lbs(n) == {ObjectiveLb(p, l) : l \in raised(n)}
           Lb(n) == Max({t[n].lb} \cup lbs(n))
           Implied_(n) == t[n].implications \cup UNION {Implications(p, l) : l \in KeptAt(p, n)}
<1>1. /\ TreeShape(t) /\ ParentsComeFirst(t) /\ t \in Seq(Nodes)
      /\ Len(t) \in Nat /\ Len(t) >= 1 /\ DOMAIN t = 1..Len(t)
      /\ Root = 1 /\ Root \in DOMAIN t /\ ~ t[Root].implied
      /\ \A n \in DOMAIN t : t[n] \in Nodes
      /\ ClosedBelow(t) /\ InfoIsKept(t) /\ TreeSound(t)
  BY TreeFacts DEF GoodTree
<1>2. /\ PathShape(p) /\ MaxLevel(p) \in Nat
      /\ \A l \in 1..MaxLevel(p) : /\ Implications(p, l) \subseteq Literals(config.variables)
                                   /\ ObjectiveLb(p, l) \in 0..MaxInteger
  BY PathFacts DEF PathOK
<1>3. MaxInteger \in Nat /\ \A s \in Feasible : Cost[s] \in Nat
  BY ConfigurationFacts
<1>4. \A n : raised(n) \subseteq 1..MaxLevel(p) /\ KeptAt(p, n) \subseteq 1..MaxLevel(p)
  BY DEF Raised, KeptAt
<1>5. ASSUME NEW n \in DOMAIN t
      PROVE  Lb(n) \in 0..MaxInteger /\ (Lb(n) = t[n].lb \/ Lb(n) \in lbs(n))
  <2> DEFINE f == [l \in raised(n) |-> ObjectiveLb(p, l)]
             S == {t[n].lb} \cup lbs(n)
  <2>1. IsFiniteSet(raised(n))
    <3>1. IsFiniteSet(1..MaxLevel(p))
      BY <1>2, FS_Interval
    <3>2. raised(n) \subseteq 1..MaxLevel(p)
      BY <1>4
    <3> HIDE DEF raised
    <3> QED
      BY <3>1, <3>2, FS_Subset
  <2>2. lbs(n) = {f[l] : l \in raised(n)} /\ DOMAIN f = raised(n)
    OBVIOUS
  <2>3. IsFiniteSet(lbs(n))
    <3> HIDE DEF lbs, f, raised
    <3> QED
      BY <2>1, <2>2, ImagesAreFinite
  <2>4. lbs(n) \subseteq 0..MaxInteger /\ t[n].lb \in 0..MaxInteger
    BY <1>1, <1>2, <1>4 DEF Nodes
  <2>5. IsFiniteSet(S) /\ S \in SUBSET Int /\ S # {} /\ S \subseteq 0..MaxInteger
    <3> HIDE DEF lbs
    <3>1. IsFiniteSet(S)
      <4>1. IsFiniteSet({t[n].lb})
        BY FS_Singleton
      <4> QED
        BY <2>3, <4>1, FS_Union
    <3>2. S \subseteq 0..MaxInteger /\ S # {}
      BY <2>4
    <3> HIDE DEF S
    <3> QED
      BY <1>3, <3>1, <3>2
  <2>6. Max(S) \in S
    <3> HIDE DEF S
    <3> QED
      BY <2>5, MaxOfSet
  <2> HIDE DEF lbs
  <2> QED
    BY <2>5, <2>6
<1>6. ASSUME NEW n \in DOMAIN t PROVE Implied_(n) \in SUBSET Literals(config.variables)
  <2>1. t[n].implications \subseteq Literals(config.variables)
    BY <1>1 DEF Nodes
  <2> QED
    BY <1>2, <1>4, <2>1
<1>7. u = [n \in DOMAIN t |-> [t[n] EXCEPT
             !.lb = Max({@} \cup lbs(n)),
             !.implications = @ \cup UNION {Implications(p, l) : l \in KeptAt(p, n)}]]
  BY Zenon DEF WithPath
<1>8. \A n \in DOMAIN t : u[n] = [t[n] EXCEPT !.lb = Lb(n), !.implications = Implied_(n)]
  <2> HIDE DEF lbs
  <2> QED
    BY <1>7
<1>9. DOMAIN u = 1..Len(t)
  BY <1>1, <1>7
<1> HIDE DEF Lb, Implied_
<1>10. ASSUME NEW n \in DOMAIN t
       PROVE  /\ u[n] \in Nodes
              /\ u[n].literal = t[n].literal /\ u[n].parent = t[n].parent
              /\ u[n].children = t[n].children /\ u[n].lb = Lb(n)
              /\ u[n].closed = t[n].closed /\ u[n].implied = t[n].implied
              /\ u[n].has_info = t[n].has_info /\ u[n].implications = Implied_(n)
  <2>1. t[n] = [literal |-> t[n].literal, lb |-> t[n].lb, parent |-> t[n].parent,
                children |-> t[n].children, closed |-> t[n].closed, implied |-> t[n].implied,
                has_info |-> t[n].has_info, implications |-> t[n].implications]
    BY <1>1 DEF Nodes
  <2>2. u[n] = [literal |-> t[n].literal, lb |-> Lb(n), parent |-> t[n].parent,
                children |-> t[n].children, closed |-> t[n].closed, implied |-> t[n].implied,
                has_info |-> t[n].has_info, implications |-> Implied_(n)]
    BY <1>8, <2>1
  <2>3. t[n] \in Nodes /\ Lb(n) \in 0..MaxInteger /\ Implied_(n) \in SUBSET Literals(config.variables)
    BY <1>1, <1>5, <1>6
  <2> QED
    BY <2>2, <2>3 DEF Nodes
<1>11. u \in Seq(Nodes) /\ Len(u) = Len(t)
  <2>1. u = [n \in 1..Len(t) |-> u[n]]
    BY <1>1, <1>7
  <2>2. \A n \in 1..Len(t) : u[n] \in Nodes
    BY <1>1, <1>10
  <2> HIDE DEF t
  <2> QED
    BY <1>1, <2>1, <2>2, FunctionIsSequence
<1>12. SameTree(t, u) /\ ~ u[Root].implied
  BY <1>1, <1>10, <1>11 DEF SameTree
<1>13. TreeShape(u) /\ \A n \in DOMAIN t : SolutionsIn(u, n) = SolutionsIn(t, n)
  BY <1>1, <1>12, SameTreeFacts
<1>14. ClosedBelow(u)
  <2>1. \A n \in 2..Len(t) : n \in DOMAIN t /\ t[n].parent \in DOMAIN t
    BY <1>1, TreeFacts
  <2> QED
    BY <1>1, <1>10, <1>11, <2>1 DEF ClosedBelow
<1>15. InfoIsKept(u)
  BY <1>1, <1>9, <1>10 DEF InfoIsKept
(* The bounds and the implications of the levels of the path hold.         *)
<1>16. ASSUME NEW n \in DOMAIN t, NEW s \in SolutionsIn(t, n), NEW l \in raised(n)
       PROVE  Cost[s] >= ObjectiveLb(p, l)
  <2>1. l \in 1..MaxLevel(p) /\ DecisionNode(p, l) = n
    BY <1>4
  <2>2. s \in Below(p, l)
    BY <1>1, <2>1, SolutionsOnPath
  <2> QED
    BY <2>1, <2>2 DEF PathOK, PathSound
<1>17. ASSUME NEW n \in DOMAIN t, NEW s \in SolutionsIn(t, n), NEW l \in KeptAt(p, n)
       PROVE  Satisfies(s, Implications(p, l))
  <2>1. l \in 1..MaxLevel(p) /\ l \in 0..MaxLevel(p)
    BY <1>4
  <2>2. PICK i \in Entries(p, l) : ~ t[NodeAt(p, i)].closed /\ TrailInfo(t, NodeAt(p, i)) = n
    BY <1>17 DEF KeptAt, NodeAt
  <2>3. NodeAt(p, i) \in DOMAIN t
    <3>1. i \in 1..Len(p.trail)
      BY <1>2, <2>1, EntriesFacts
    <3> QED
      BY <1>1, <1>2, <3>1, AncestorsOnPath
  <2>4. SolutionsIn(t, n) = SolutionsIn(t, NodeAt(p, i))
    <3>1. \A m \in 2..Len(t) : t[m].implied => SolutionsIn(t, m) = SolutionsIn(t, t[m].parent)
      BY <1>1 DEF TreeSound
    <3> QED
      BY <1>1, <2>2, <2>3, <3>1, SolutionsOfTrailInfo
  <2>5. s \in Below(p, l)
    BY <1>1, <2>1, <2>4, SolutionsOnPath
  <2> QED
    BY <2>1, <2>5 DEF PathOK, PathSound
<1>18. TreeSound(u)
  <2> SUFFICES ASSUME NEW n \in DOMAIN t
               PROVE  /\ t[n].closed => SolutionsIn(t, n) = {}
                      /\ t[n].implied => SolutionsIn(t, n) = SolutionsIn(u, t[n].parent)
                      /\ \A s \in SolutionsIn(t, n) :
                           Cost[s] >= Lb(n) /\ Satisfies(s, Implied_(n))
    BY <1>1, <1>9, <1>10, <1>13 DEF TreeSound
  <2>1. t[n].implied => n \in 2..Len(t) /\ t[n].parent \in DOMAIN t
    BY <1>1, TreeFacts
  <2>2. /\ t[n].closed => SolutionsIn(t, n) = {}
        /\ t[n].implied => SolutionsIn(t, n) = SolutionsIn(u, t[n].parent)
    BY <1>1, <1>13, <2>1 DEF TreeSound
  <2>3. ASSUME NEW s \in SolutionsIn(t, n) PROVE Cost[s] >= Lb(n) /\ Satisfies(s, Implied_(n))
    <3>1. Cost[s] >= t[n].lb /\ Satisfies(s, t[n].implications)
      BY <1>1 DEF TreeSound
    <3>2. Cost[s] >= Lb(n)
      BY <1>5, <1>16, <3>1
    <3>3. Satisfies(s, Implied_(n))
      BY <1>17, <3>1 DEF Implied_, Satisfies
    <3> QED
      BY <3>2, <3>3
  <2> QED
    BY <2>2, <2>3
<1>19. \A n \in DOMAIN t : u[n].closed = t[n].closed /\ u[n].implied = t[n].implied
  BY <1>10
<1>20. ASSUME NEW n \in DOMAIN t PROVE u[n].lb \in 0..MaxInteger /\ u[n].lb >= t[n].lb
  <2>1. u[n].lb = Lb(n) /\ t[n].lb \in 0..MaxInteger
    BY <1>1, <1>10 DEF Nodes
  <2>2. \A l \in raised(n) : ObjectiveLb(p, l) \in 0..MaxInteger /\ ObjectiveLb(p, l) > t[n].lb
    BY <1>2 DEF Raised
  <2> HIDE DEF raised
  <2> QED
    BY <1>3, <1>5, <2>1, <2>2
<1>21. ASSUME NEW n \in DOMAIN t, \A l \in Raised(p) : DecisionNode(p, l) # n
       PROVE  u[n].lb = t[n].lb
  <2>1. lbs(n) = {}
    BY <1>21
  <2> HIDE DEF lbs
  <2> QED
    BY <1>5, <1>10, <2>1
<1>22. GoodTree(u)
  BY <1>13, <1>14, <1>15, <1>18 DEF GoodTree
<1> QED
  BY <1>12, <1>19, <1>20, <1>21, <1>22

(* The siblings of the implied nodes of a path have no solution.           *)
LEMMA ImpliedNodesFacts ==
  ASSUME config \in Configurations, GoodTree(nodes),
         NEW p, PathOK(p), InTree(nodes, p), NEW n \in ImpliedNodes(p)
  PROVE  n \in 2..Len(nodes) /\ SolutionsIn(nodes, Sibling(nodes, n)) = {}
<1> DEFINE t == nodes
<1>1. /\ TreeShape(t) /\ ParentsComeFirst(t) /\ Len(t) \in Nat /\ DOMAIN t = 1..Len(t)
      /\ Root = 1 /\ Root \in DOMAIN t
  BY TreeFacts DEF GoodTree
<1>2. /\ PathShape(p) /\ MaxLevel(p) \in Nat /\ Len(p.trail) \in Nat
      /\ DOMAIN p.trail = 1..Len(p.trail)
  BY PathFacts DEF PathOK
<1>3. PICK i \in 1..Len(p.trail) : n = NodeAt(p, i)
  BY <1>2 DEF ImpliedNodes, NodeAt
<1>4. PICK l \in 0..MaxLevel(p) : i \in Entries(p, l)
  BY <1>2, LevelOfEntry
<1>5. \A k \in 1..MaxLevel(p) : i # DecisionIndex(p, k)
  BY <1>3 DEF ImpliedNodes, DecisionNodes, DecisionNode, NodeAt
<1>6. /\ n \in 2..Len(t) /\ n \in DOMAIN t
      /\ t[n].parent = (IF i = 1 THEN Root ELSE NodeAt(p, i - 1))
      /\ t[n].literal = p.trail[i].literal
  BY <1>1, <1>2, <1>3, AncestorsOnPath
<1>7. SolutionsIn(t, t[n].parent) \subseteq Below(p, l)
  <2>1. CASE i = 1
    <3>1. l = 0
      <4> SUFFICES ASSUME l # 0 PROVE FALSE
        OBVIOUS
      <4>1. l \in 1..MaxLevel(p) /\ l \in 1..l
        BY <1>2
      <4>2. DecisionIndex(p, l) \in 1..i
        BY <1>2, <1>4, <4>1, EntriesFacts
      <4> QED
        BY <1>5, <2>1, <4>1, <4>2
    <3>2. SolutionsIn(t, t[n].parent) = Improving
      BY <1>1, <1>6, <2>1, SolutionsDefined
    <3> QED
      BY <1>2, <3>1, <3>2, BelowFacts
  <2>2. CASE i # 1
    <3>1. i - 1 \in Entries(p, l)
      <4>1. CASE l = 0
        <5>1. i \in 1..End(p, l) /\ End(p, l) \in 0..Len(p.trail)
          BY <1>2, <1>4, <4>1, PathFacts DEF Entries, Start
        <5> QED
          BY <2>2, <4>1, <5>1 DEF Entries, Start
      <4>2. CASE l # 0
        <5>1. l \in 1..MaxLevel(p)
          BY <1>2, <4>2
        <5>2. DecisionIndex(p, l) # i /\ DecisionIndex(p, l) \in 1..Len(p.trail) /\ End(p, l) \in 0..Len(p.trail)
          BY <1>2, <1>5, <5>1, PathFacts
        <5> QED
          BY <1>4, <4>2, <5>2 DEF Entries, Start
      <4> QED
        BY <4>1, <4>2
    <3>2. SolutionsIn(t, NodeAt(p, i - 1)) \subseteq Below(p, l)
      BY <1>1, <3>1, SolutionsOnPath
    <3> QED
      BY <1>6, <2>2, <3>2
  <2> QED
    BY <2>1, <2>2
<1>8. \A s \in Below(p, l) : Satisfies(s, {t[n].literal})
  <2>1. i \in 1..End(p, l)
    BY <1>2, <1>3, <1>4, EntriesFacts, PathFacts
  <2> QED
    BY <1>6, <2>1 DEF PathOK, TrailFollows
<1>9. SolutionsIn(t, t[n].parent) = SolutionsIn(t, n)
  <2>1. SolutionsIn(t, n) = {s \in SolutionsIn(t, t[n].parent) : Satisfies(s, {t[n].literal})}
    BY <1>1, <1>6, SolutionsDefined
  <2> QED
    BY <1>7, <1>8, <2>1
<1>10. /\ SolutionsIn(t, t[n].parent) = SolutionsIn(t, n) \cup SolutionsIn(t, Sibling(t, n))
       /\ SolutionsIn(t, n) \cap SolutionsIn(t, Sibling(t, n)) = {}
  BY <1>1, <1>6, SolutionsOfSiblings
<1> QED
  BY <1>6, <1>9, <1>10

(* SyncTree() makes a good tree of a good tree and a good path.            *)
LEMMA SyncedTreeFacts ==
  ASSUME config \in Configurations, GoodTree(nodes),
         NEW p, PathOK(p), InTree(nodes, p), NEW u, u = SyncedTree(p)
  PROVE  /\ GoodTree(u) /\ SameTree(nodes, u)
         /\ \A n \in DOMAIN nodes : nodes[n].closed => u[n].closed
<1> DEFINE t == WithPath(p)
           to_close == {Sibling(nodes, n) : n \in ImpliedNodes(p)}
           to_update == {nodes[DecisionNode(p, l)].parent : l \in Raised(p)}
<1>1. u = ChangedTree(t, to_close, to_update)
  BY Zenon DEF SyncedTree
<1>2. GoodTree(t) /\ SameTree(nodes, t) /\ \A n \in DOMAIN nodes : t[n].closed = nodes[n].closed
  <2> HIDE DEF t
  <2>1. t = WithPath(p)
    BY DEF t
  <2> QED
    BY <2>1, WithPathFacts
<1> HIDE DEF t, to_update
<1>3. /\ DOMAIN t = DOMAIN nodes
      /\ \A n \in DOMAIN nodes : SolutionsIn(t, n) = SolutionsIn(nodes, n)
  <2>1. TreeShape(nodes) /\ ~ t[Root].implied
    BY <1>2, TreeFacts DEF GoodTree
  <2> QED
    BY <1>2, <2>1, SameTreeFacts
<1>4. \A n \in DOMAIN t : n \in to_close => SolutionsIn(t, n) = {}
  BY <1>3, ImpliedNodesFacts
<1> HIDE DEF to_close
<1>5. /\ GoodTree(u) /\ SameTree(t, u)
      /\ \A n \in DOMAIN t : u[n].closed <=> IsClosedWith(t, to_close, n)
  BY <1>1, <1>2, <1>4, ChangedTreeFacts
<1>6. \A n \in DOMAIN nodes : nodes[n].closed => u[n].closed
  BY <1>2, <1>3, <1>5 DEF IsClosedWith
<1>7. SameTree(nodes, u)
  BY <1>2, <1>3, <1>5 DEF SameTree
<1> QED
  BY <1>5, <1>6, <1>7

-----------------------------------------------------------------------------
(* PathTo(): AssignLeaf() on each node from the root to the leaf.          *)
LEMMA PushNodeShape ==
  ASSUME config \in Configurations, NEW p, PathShape(p), NEW node \in Nodes,
         node.literal \in Literals(config.variables), NEW id \in Nat,
         NEW q, q = PushNode(p, node, id)
  PROVE  /\ PathShape(q) /\ OneMoreEntry(p, q, id, node.literal)
         /\ MaxLevel(p) \in Nat
         /\ MaxLevel(q) = IF node.implied THEN MaxLevel(p) ELSE MaxLevel(p) + 1
<1> DEFINE pushed == PushLevel(p, node.literal, node.lb, id)
           assigned == IF node.implied THEN SetLevelImplied(pushed, MaxLevel(pushed)) ELSE pushed
<1>1. node.lb \in 0..MaxInteger /\ node.implications \in SUBSET Literals(config.variables)
  BY DEF Nodes
<1>2. q = IF node.has_info /\ config.trail_sharing
          THEN AddImplications(assigned, MaxLevel(assigned), node.implications) ELSE assigned
  BY Zenon DEF PushNode
<1>3. /\ PathShape(pushed) /\ MaxLevel(pushed) = MaxLevel(p) + 1
      /\ OneMoreEntry(p, pushed, id, node.literal)
  <2> HIDE DEF pushed
  <2>1. pushed = PushLevel(p, node.literal, node.lb, id)
    BY DEF pushed
  <2> QED
    BY <1>1, <2>1, PushLevelShape
<1> HIDE DEF pushed
<1>4. MaxLevel(p) \in Nat /\ MaxLevel(pushed) \in 1..MaxLevel(pushed)
  BY <1>3, PathFacts
<1>5. /\ PathShape(assigned) /\ assigned.trail = pushed.trail
      /\ MaxLevel(assigned) = IF node.implied THEN MaxLevel(p) ELSE MaxLevel(p) + 1
  <2>1. CASE node.implied
    <3>1. /\ PathShape(assigned) /\ assigned.trail = pushed.trail
          /\ MaxLevel(assigned) = MaxLevel(pushed) - 1
      BY <1>3, <1>4, <2>1, SetLevelImpliedShape
    <3> QED
      BY <1>3, <1>4, <2>1, <3>1
  <2>2. CASE ~ node.implied
    BY <1>3, <2>2
  <2> QED
    BY <2>1, <2>2
<1> HIDE DEF assigned
<1>6. MaxLevel(assigned) \in 0..MaxLevel(assigned)
  BY <1>5, PathFacts
<1>7. PathShape(q) /\ q.trail = assigned.trail /\ MaxLevel(q) = MaxLevel(assigned)
  <2>1. CASE node.has_info /\ config.trail_sharing
    BY <1>1, <1>2, <1>5, <1>6, <2>1, AddImplicationsShape DEF SameStarts
  <2>2. CASE ~ (node.has_info /\ config.trail_sharing)
    BY <1>2, <1>5, <2>2
  <2> QED
    BY <2>1, <2>2
<1> QED
  BY <1>3, <1>4, <1>5, <1>7 DEF OneMoreEntry

(* PushLevel() with what a node of the tree says.                          *)
LEMMA PushLevelOfRecord ==
  ASSUME config \in Configurations, NEW p, PathOK(p), NEW node,
         node.literal \in Literals(config.variables), node.lb \in 0..MaxInteger,
         NEW id \in Nat,
         \A s \in Below(p, MaxLevel(p)) : Holds(s, node.literal) => Cost[s] >= node.lb,
         NEW q, q = PushLevel(p, node.literal, node.lb, id)
  PROVE  /\ PathOK(q) /\ MaxLevel(q) = MaxLevel(p) + 1
         /\ Below(q, MaxLevel(p)) = Below(p, MaxLevel(p))
         /\ Below(q, MaxLevel(q)) = {s \in Below(p, MaxLevel(p)) : Holds(s, node.literal)}
         /\ Decision(q, MaxLevel(q)) = node.literal
<1>1. PICK lb \in 0..MaxInteger : lb = node.lb
  OBVIOUS
<1>2. PICK literal \in Literals(config.variables) : literal = node.literal
  OBVIOUS
<1>3. q = PushLevel(p, literal, lb, id)
  BY <1>1, <1>2
<1>4. PathShape(p)
  BY DEF PathOK
<1>5. /\ PathShape(q) /\ MaxLevel(q) = MaxLevel(p) + 1
      /\ OneMoreEntry(p, q, id, literal)
      /\ Decision(q, MaxLevel(q)) = literal
  BY <1>3, <1>4, PushLevelShape
<1>6. \A s \in Below(p, MaxLevel(p)) : Holds(s, literal) => Cost[s] >= lb
  BY <1>1, <1>2
<1>7. PathOK(q)
  BY <1>3, <1>6, PushLevelOK
<1>8. /\ Below(q, MaxLevel(p)) = Below(p, MaxLevel(p))
      /\ Below(q, MaxLevel(q)) = {s \in Below(p, MaxLevel(p)) : Holds(s, literal)}
  BY <1>3, <1>6, <1>7, PushLevelOK
<1> QED
  BY <1>2, <1>5, <1>7, <1>8

(* The path to the parent becomes the path to the node.                    *)
LEMMA PushNodeOK ==
  ASSUME config \in Configurations, NEW t, GoodTree(t), NEW n \in 2..Len(t),
         NEW p, PathOK(p), Below(p, MaxLevel(p)) \subseteq SolutionsIn(t, t[n].parent),
         NEW id \in Nat, NEW q, q = PushNode(p, t[n], id)
  PROVE  /\ PathOK(q) /\ OneMoreEntry(p, q, id, t[n].literal)
         /\ Below(q, MaxLevel(q)) \subseteq SolutionsIn(t, n)
<1> SUFFICES ASSUME NEW node, node = t[n]
             PROVE  /\ PathOK(q) /\ OneMoreEntry(p, q, id, t[n].literal)
                    /\ Below(q, MaxLevel(q)) \subseteq SolutionsIn(t, n)
  OBVIOUS
<1> DEFINE pushed == PushLevel(p, node.literal, node.lb, id)
           assigned == IF node.implied THEN SetLevelImplied(pushed, MaxLevel(pushed)) ELSE pushed
<1>1. /\ TreeShape(t) /\ TreeSound(t) /\ ParentsComeFirst(t) /\ n \in DOMAIN t
      /\ node \in Nodes /\ node.literal \in Literals(config.variables)
  <2>1. TreeShape(t) /\ TreeSound(t)
    BY DEF GoodTree
  <2> QED
    BY <2>1, TreeFacts, SiblingFacts
<1>2. node.lb \in 0..MaxInteger /\ node.implications \in SUBSET Literals(config.variables)
  BY <1>1 DEF Nodes
<1>3. q = IF node.has_info /\ config.trail_sharing
          THEN AddImplications(assigned, MaxLevel(assigned), node.implications) ELSE assigned
  BY Zenon DEF PushNode
<1>4. OneMoreEntry(p, q, id, t[n].literal)
  BY <1>1, PushNodeShape DEF PathOK
<1>5. \A s \in Below(p, MaxLevel(p)) : Satisfies(s, {node.literal}) => s \in SolutionsIn(t, n)
  <2>1. SolutionsIn(t, n) = {s \in SolutionsIn(t, t[n].parent) : Satisfies(s, {t[n].literal})}
    BY <1>1, SolutionsDefined
  <2> QED
    BY <2>1
<1>6. \A s \in SolutionsIn(t, n) :
        /\ Cost[s] >= node.lb /\ Satisfies(s, node.implications)
        /\ node.implied => SolutionsIn(t, n) = SolutionsIn(t, t[n].parent)
  BY <1>1 DEF TreeSound
<1>7. /\ PathOK(pushed) /\ MaxLevel(pushed) = MaxLevel(p) + 1
      /\ Below(pushed, MaxLevel(p)) = Below(p, MaxLevel(p))
      /\ Below(pushed, MaxLevel(pushed)) = {s \in Below(p, MaxLevel(p)) : Satisfies(s, {node.literal})}
      /\ Decision(pushed, MaxLevel(pushed)) = node.literal
  <2>2. \A x \in Below(p, MaxLevel(p)) : Holds(x, node.literal) => Cost[x] >= node.lb
    BY <1>5, <1>6 DEF Holds
  <2>3. PathOK(pushed)
    BY <1>1, <1>2, <2>2, PushLevelOfRecord
  <2>4. /\ MaxLevel(pushed) = MaxLevel(p) + 1
        /\ Below(pushed, MaxLevel(p)) = Below(p, MaxLevel(p))
        /\ Below(pushed, MaxLevel(pushed)) = {s \in Below(p, MaxLevel(p)) : Holds(s, node.literal)}
        /\ Decision(pushed, MaxLevel(pushed)) = node.literal
    BY <1>1, <1>2, <2>2, <2>3, PushLevelOfRecord
  <2> QED
    BY <2>3, <2>4 DEF Holds
<1> HIDE DEF pushed
<1>8. MaxLevel(p) \in Nat /\ MaxLevel(pushed) \in 1..MaxLevel(pushed) /\ MaxLevel(pushed) - 1 = MaxLevel(p)
  <2>1. PathShape(p)
    BY DEF PathOK
  <2>2. MaxLevel(p) \in Nat
    BY <2>1, PathFacts
  <2> QED
    BY <1>7, <2>2
<1>9. Below(pushed, MaxLevel(pushed)) \subseteq SolutionsIn(t, n)
  BY <1>5, <1>7
<1>10. PathOK(assigned) /\ Below(assigned, MaxLevel(assigned)) = Below(pushed, MaxLevel(pushed))
  <2>1. CASE node.implied
    <3>1. SolutionsIn(t, n) = SolutionsIn(t, t[n].parent)
      BY <1>1, <2>1 DEF TreeSound
    <3>2. \A s \in SolutionsIn(t, n) : Satisfies(s, {node.literal})
      BY <1>1, AncestorsFacts, SolutionsOfAncestors DEF Root
    <3>3. \A s \in Below(pushed, MaxLevel(pushed) - 1) :
            Satisfies(s, {Decision(pushed, MaxLevel(pushed))})
      BY <1>7, <1>8, <3>1, <3>2
    <3> QED
      BY <1>7, <1>8, <2>1, <3>3, SetLevelImpliedOK
  <2>2. CASE ~ node.implied
    BY <1>7, <2>2
  <2> QED
    BY <2>1, <2>2
<1> HIDE DEF assigned
<1>11. MaxLevel(assigned) \in 0..MaxLevel(assigned)
  BY <1>10, PathFacts DEF PathOK
<1>12. PathOK(q) /\ Below(q, MaxLevel(q)) = Below(assigned, MaxLevel(assigned))
  <2>1. CASE node.has_info /\ config.trail_sharing
    <3>1. q = AddImplications(assigned, MaxLevel(assigned), node.implications)
      BY <1>3, <2>1
    <3>2. \A s \in Below(assigned, MaxLevel(assigned)) : Satisfies(s, node.implications)
      BY <1>6, <1>9, <1>10
    <3>3. /\ PathOK(q) /\ SameStarts(assigned, q)
          /\ \A k \in 0..MaxLevel(assigned) : Below(q, k) = Below(assigned, k)
      BY <1>2, <1>10, <1>11, <3>1, <3>2, AddImplicationsOK
    <3> QED
      BY <1>11, <3>3 DEF SameStarts
  <2>2. CASE ~ (node.has_info /\ config.trail_sharing)
    BY <1>3, <1>10, <2>2
  <2> QED
    BY <2>1, <2>2
<1> QED
  BY <1>4, <1>9, <1>10, <1>12

(* PathTo() is defined: the path to a node extends that to its parent.     *)
LEMMA PathToDefined ==
  ASSUME config \in Configurations, NEW t, TreeShape(t), NEW id \in Nat, NEW n \in DOMAIN t
  PROVE  PathTo(t, n, id) = IF n = Root THEN EmptyPath
                            ELSE PushNode(PathTo(t, t[n].parent, id), t[n], id + n - 1)
<1> DEFINE D == 1..Len(t)
           T == {p \in Paths : PathShape(p)}
           Step(f, m) == IF m = Root THEN EmptyPath ELSE PushNode(f[t[m].parent], t[m], id + m - 1)
           G == [f \in [D -> T] |-> [m \in D |-> Step(f, m)]]
           IsTo(f) == f = [m \in DOMAIN t |-> Step(f, m)]
           to == CHOOSE f : IsTo(f)
<1>1. Len(t) \in Nat /\ DOMAIN t = D /\ Root = 1 /\ \A m \in D : t[m] \in Nodes
  BY TreeFacts
<1>2. \A m \in D : m # Root => /\ t[m].parent \in D /\ t[m].parent \in 1..(m - 1)
                               /\ t[m].literal \in Literals(config.variables)
                               /\ id + m - 1 \in Nat
  <2> SUFFICES ASSUME NEW m \in D, m # Root
               PROVE  /\ t[m].parent \in D /\ t[m].parent \in 1..(m - 1)
                      /\ t[m].literal \in Literals(config.variables)
                      /\ id + m - 1 \in Nat
    OBVIOUS
  <2>1. m \in 2..Len(t)
    BY <1>1
  <2> QED
    BY <1>1, <2>1, TreeFacts, SiblingFacts
<1>3. ASSUME NEW f \in [D -> T], NEW m \in D PROVE Step(f, m) \in T
  <2>1. CASE m = Root
    BY <2>1, EmptyPathOK DEF PathOK, PathShape
  <2>2. CASE m # Root
    <3> DEFINE p == f[t[m].parent]
               q == PushNode(p, t[m], id + m - 1)
    <3>1. PathShape(p)
      BY <1>2, <2>2
    <3>2. PathShape(q)
      <4> HIDE DEF p, q
      <4>1. q = PushNode(p, t[m], id + m - 1)
        BY DEF q
      <4> QED
        BY <1>1, <1>2, <2>2, <3>1, <4>1, PushNodeShape
    <3>3. q \in Paths
      BY <3>2 DEF PathShape
    <3> QED
      BY <2>2, <3>2, <3>3
  <2> QED
    BY <2>1, <2>2
<1>4. HasFixedPoint(G, Len(t), T)
  <2>1. IsStep(G, Len(t), T)
    <3>1. T # {}
      BY EmptyPathOK DEF PathOK, PathShape
    <3> HIDE DEF Step, T
    <3> QED
      BY <1>1, <1>3, <3>1 DEF IsStep
  <2>2. DependsOnEarlier(G, Len(t), T)
    <3> SUFFICES ASSUME NEW f \in [D -> T], NEW g \in [D -> T], NEW m \in D,
                        \A k \in 1..(m - 1) : f[k] = g[k]
                 PROVE  G[f][m] = G[g][m]
      BY DEF DependsOnEarlier
    <3>1. Step(f, m) = Step(g, m)
      <4>1. m # Root => f[t[m].parent] = g[t[m].parent]
        BY <1>2
      <4> QED
        BY <4>1
    <3> HIDE DEF Step
    <3> QED
      BY <3>1
  <2> HIDE DEF G, T
  <2> QED
    BY <2>1, <2>2, UpwardRecursion
<1>5. PICK f \in [D -> T] : IsTo(f)
  <2> HIDE DEF Step
  <2> QED
    BY <1>1, <1>4 DEF HasFixedPoint
<1>6. IsTo(to)
  <2> HIDE DEF IsTo
  <2> QED
    BY <1>5
<1>7. ASSUME NEW m \in DOMAIN t PROVE to[m] = Step(to, m)
  <2> HIDE DEF to, Step
  <2> QED
    BY <1>6
<1>8. \A m : PathTo(t, m, id) = to[m]
  BY Zenon DEF PathTo
<1> HIDE DEF to
<1> QED
  BY <1>7, <1>8

(* A path that gets one more entry leads to the child of its last node.    *)
LEMMA PathExtended ==
  ASSUME NEW t, Len(t) \in Nat, NEW p, PathShape(p), InTree(t, p), offset \in Nat,
         NEW e \in TrailEntries, NEW q, q.trail = Append(p.trail, e),
         NEW n \in 2..Len(t), e.id = Id(n),
         t[n].parent = LastNode(p), t[n].literal = e.literal
  PROVE  InTree(t, q) /\ LastNode(q) = n /\ IsValid(q)
<1> DEFINE k == Len(p.trail) + 1
<1>1. /\ Len(p.trail) \in Nat /\ p.trail \in Seq(TrailEntries)
      /\ DOMAIN p.trail = 1..Len(p.trail)
  BY PathFacts
<1>2. /\ DOMAIN q.trail = 1..k /\ Len(q.trail) = k /\ q.trail # <<>>
      /\ \A i \in 1..Len(p.trail) : q.trail[i] = p.trail[i]
      /\ q.trail[k] = e
  <2>1. PICK s : s = p.trail
    OBVIOUS
  <2>2. s \in Seq(TrailEntries) /\ q.trail = Append(s, e) /\ Len(s) \in Nat
    BY <1>1, <2>1
  <2>3. q.trail \in Seq(TrailEntries) /\ Len(q.trail) = Len(s) + 1
    BY <2>2
  <2>4. \A i \in 1..Len(s) : q.trail[i] = s[i]
    BY <2>2
  <2>5. q.trail[Len(s) + 1] = e
    BY <2>2
  <2>6. DOMAIN q.trail = 1..k
    BY <2>1, <2>3
  <2>7. q.trail # <<>> /\ Len(q.trail) = k
    BY <1>1, <2>1, <2>3
  <2> QED
    BY <2>1, <2>4, <2>5, <2>6, <2>7
<1>3. NodeAt(q, k) = n /\ e.id >= offset
  BY <1>2 DEF NodeAt, Index, Id
<1>4. \A i \in 1..Len(p.trail) : NodeAt(q, i) = NodeAt(p, i)
  BY <1>2 DEF NodeAt
<1>5. LastNode(p) = (IF k = 1 THEN Root ELSE NodeAt(q, k - 1))
  <2>1. CASE p.trail = <<>>
    BY <2>1 DEF LastNode
  <2>2. CASE p.trail # <<>>
    <3>1. Len(p.trail) \in 1..Len(p.trail) /\ k # 1 /\ k - 1 = Len(p.trail)
      BY <1>1, <2>2
    <3> QED
      BY <1>4, <2>2, <3>1 DEF LastNode
  <2> QED
    BY <2>1, <2>2
<1>6. ASSUME NEW i \in 1..k
      PROVE  /\ NodeAt(q, i) \in 2..Len(t)
             /\ t[NodeAt(q, i)].parent = (IF i = 1 THEN Root ELSE NodeAt(q, i - 1))
             /\ t[NodeAt(q, i)].literal = q.trail[i].literal
  <2>1. CASE i = k
    BY <1>2, <1>3, <1>5, <2>1
  <2>2. CASE i \in 1..Len(p.trail)
    <3>1. i # 1 => i - 1 \in 1..Len(p.trail)
      BY <1>1, <2>2
    <3> QED
      BY <1>1, <1>2, <1>4, <2>2, <3>1 DEF InTree
  <2> QED
    BY <1>1, <2>1, <2>2
<1>7. InTree(t, q) /\ LastNode(q) = n
  BY <1>2, <1>3, <1>6 DEF InTree, LastNode
<1>8. IsValid(q)
  BY <1>2, <1>3 DEF IsValid, Last
<1> QED
  BY <1>7, <1>8

(* The path to a node is sound, and leads to it.                           *)
LEMMA PathToFacts ==
  ASSUME config \in Configurations, NEW t, GoodTree(t), offset \in Nat, NEW n \in DOMAIN t
  PROVE  /\ PathOK(PathTo(t, n, offset)) /\ InTree(t, PathTo(t, n, offset))
         /\ IsValid(PathTo(t, n, offset)) /\ LastNode(PathTo(t, n, offset)) = n
<1> DEFINE P(m) == PathTo(t, m, offset)
           Good == {m \in DOMAIN t :
                      /\ PathOK(P(m)) /\ InTree(t, P(m)) /\ LastNode(P(m)) = m
                      /\ Below(P(m), MaxLevel(P(m))) \subseteq SolutionsIn(t, m)}
<1>1. /\ TreeShape(t) /\ ParentsComeFirst(t) /\ Len(t) \in Nat /\ DOMAIN t = 1..Len(t)
      /\ Root = 1 /\ Root \in DOMAIN t
  BY TreeFacts DEF GoodTree
<1>2. ASSUME NEW m \in 1..Len(t), \A k \in 1..(m - 1) : k \in Good PROVE m \in Good
  <2>1. CASE m = Root
    <3>1. P(m) = EmptyPath
      BY <1>1, <2>1, PathToDefined
    <3>2. PathOK(P(m)) /\ P(m).trail = <<>>
      BY <3>1, EmptyPathOK
    <3>3. InTree(t, P(m)) /\ LastNode(P(m)) = m
      BY <2>1, <3>2 DEF InTree, LastNode
    <3>4. Below(P(m), MaxLevel(P(m))) \subseteq SolutionsIn(t, m)
      BY <1>1, <2>1, SolutionsDefined DEF Below
    <3> HIDE DEF P
    <3> QED
      BY <1>1, <3>2, <3>3, <3>4
  <2>2. CASE m # Root
    <3> DEFINE parent == t[m].parent
               p == P(parent)
               id == offset + m - 1
               q == P(m)
    <3>1. m \in 2..Len(t) /\ m \in DOMAIN t /\ parent \in DOMAIN t /\ parent \in 1..(m - 1) /\ id \in Nat
      BY <1>1, <2>2 DEF ParentsComeFirst
    <3>2. parent \in Good
      BY <1>2, <3>1
    <3>3. q = PushNode(p, t[m], id)
      BY <1>1, <2>2, <3>1, PathToDefined
    <3>4. /\ PathOK(p) /\ InTree(t, p) /\ LastNode(p) = parent
          /\ Below(p, MaxLevel(p)) \subseteq SolutionsIn(t, parent)
      BY <3>2
    <3> HIDE DEF P, p, q, Good
    <3>5. /\ PathOK(q) /\ OneMoreEntry(p, q, id, t[m].literal)
          /\ Below(q, MaxLevel(q)) \subseteq SolutionsIn(t, m)
      BY <3>1, <3>3, <3>4, PushNodeOK
    <3>6. PICK e : e = [id |-> id, literal |-> t[m].literal]
      OBVIOUS
    <3>7. e \in TrailEntries /\ e.id = Id(m) /\ e.literal = t[m].literal
      BY <1>1, <3>1, <3>6, SiblingFacts DEF TrailEntries, Id
    <3>8. q.trail = Append(p.trail, e) /\ PathShape(p)
      BY <3>4, <3>5, <3>6 DEF PathOK, OneMoreEntry
    <3>9. InTree(t, q) /\ LastNode(q) = m
      BY <1>1, <3>1, <3>4, <3>7, <3>8, PathExtended
    <3> QED
      BY <3>1, <3>5, <3>9 DEF Good, q
  <2> QED
    BY <2>1, <2>2
<1>3. 1..Len(t) \subseteq Good
  <2> HIDE DEF Good
  <2> QED
    BY <1>1, <1>2, IntervalInduction
<1>4. /\ PathOK(P(n)) /\ InTree(t, P(n)) /\ LastNode(P(n)) = n
  BY <1>1, <1>3
<1>5. IsValid(P(n))
  <2> HIDE DEF P
  <2> SUFFICES ASSUME P(n).trail # <<>> PROVE Last(P(n).trail).id >= offset
    BY DEF IsValid
  <2>1. Len(P(n).trail) \in 1..Len(P(n).trail) /\ Len(P(n).trail) \in DOMAIN P(n).trail
    BY <1>4, PathFacts DEF PathOK
  <2>2. NodeAt(P(n), Len(P(n).trail)) \in 2..Len(t) /\ P(n).trail[Len(P(n).trail)].id \in Nat
    BY <1>4, <2>1, PathFacts DEF InTree, PathOK
  <2>3. Last(P(n).trail) = P(n).trail[Len(P(n).trail)]
    BY DEF Last
  <2> QED
    BY <1>1, <2>2, <2>3 DEF NodeAt, Index
<1> QED
  BY <1>4, <1>5

-----------------------------------------------------------------------------
(* From one state to the next.  Nothing that holds for the solutions that  *)
(* improve on the best one is lost when there are fewer of them.           *)
LEMMA SameTypes ==
  ASSUME config' = config
  PROVE  /\ Nodes' = Nodes /\ Paths' = Paths /\ MaxInteger' = MaxInteger
         /\ NoSolution' = NoSolution /\ SyncsOfARestart' = SyncsOfARestart
         /\ Literals(config.variables)' = Literals(config.variables)
  BY DEF Nodes, Paths, TrailEntries, PathLevels, MaxInteger, NoSolution, SyncsOfARestart

(* The solutions that improve depend on the best one only.                 *)
LEMMA SameImproving ==
  ASSUME config' = config, best' = best
  PROVE  Improving' = Improving
  BY DEF Improving, Feasible, Cost

(* A better solution leaves fewer that improve on it.                      *)
LEMMA FewerImproving ==
  ASSUME config \in Configurations, config' = config, best \in Int, best' \in Int, best' <= best
  PROVE  Improving' \subseteq Improving
<1>1. \A s \in Feasible : Cost[s] \in Nat
  BY ConfigurationFacts
<1>2. Feasible' = Feasible /\ Cost' = Cost
  BY DEF Feasible, Cost
<1> QED
  BY <1>1, <1>2 DEF Improving

(* A tree that is good before a step is good after it.                     *)
LEMMA TreeInvHolds ==
  ASSUME config' = config, Improving' \subseteq Improving, GoodTree(nodes')
  PROVE  TreeInv'
<1>1. /\ Nodes' = Nodes /\ Literals(config.variables)' = Literals(config.variables) /\ Cost' = Cost
  BY SameTypes DEF Cost
<1>2. ParentsComeFirst(nodes)'
  BY <1>1 DEF GoodTree, TreeShape, ParentsComeFirst
<1>3. TreeShape(nodes)'
  BY <1>1, <1>2 DEF GoodTree, TreeShape, ChildrenOf
<1>4. ClosedBelow(nodes)' /\ InfoIsKept(nodes)'
  BY DEF GoodTree, ClosedBelow, InfoIsKept
<1>5. \A n : SolutionsIn(nodes, n)' = SolutionsIn(nodes', n) \cap Improving'
  BY DEF SolutionsIn
<1>6. TreeSound(nodes)'
  BY <1>1, <1>5 DEF GoodTree, TreeSound
<1> QED
  BY <1>3, <1>4, <1>6 DEF TreeInv, GoodTree

(* A path that is good before a step is good after it.                     *)
LEMMA PathStaysOK ==
  ASSUME config' = config, Improving' \subseteq Improving, NEW w, PathOK(path'[w])
  PROVE  PathOK(path[w])'
<1>1. Paths' = Paths /\ Cost' = Cost
  BY SameTypes DEF Cost
<1>2. PathShape(path[w])'
  BY <1>1 DEF PathOK, PathShape
<1>3. \A l : Below(path[w], l)' \subseteq Below(path'[w], l)
  BY DEF Below
<1>4. PathSound(path[w])'
  BY <1>1, <1>3 DEF PathOK, PathSound
<1>5. TrailFollows(path[w])'
  BY <1>3 DEF PathOK, TrailFollows
<1> QED
  BY <1>2, <1>4, <1>5 DEF PathOK

(* While there is no restart, a path is where it was.                      *)
LEMMA SamePlace ==
  ASSUME offset' = offset, NEW w
  PROVE  /\ IsValid(path[w])' <=> IsValid(path'[w])
         /\ InTree(nodes, path[w])' <=> InTree(nodes', path'[w])
         /\ IsStale(path[w])' <=> IsStale(path'[w])
         /\ \A n : IsAt(path[w], n)' <=> IsAt(path'[w], n)
  BY DEF IsValid, InTree, NodeAt, Index, IsStale, IsAt, LastNode

(* A path is placed: in the tree, or stale.                                *)
IsPlaced(t, p) == (IsValid(p) /\ InTree(t, p)) \/ IsStale(p)

(* The part of the invariant on paths, when there is no restart.           *)
LEMMA PathInvHolds ==
  ASSUME config' = config, Improving' \subseteq Improving, offset' = offset,
         \A w \in Workers : PathOK(path'[w]) /\ IsPlaced(nodes', path'[w])
  PROVE  PathInv'
<1> SUFFICES ASSUME NEW w \in Workers
             PROVE  PathOK(path[w])' /\ ((IsValid(path[w])' /\ InTree(nodes, path[w])') \/ IsStale(path[w])')
  BY DEF PathInv
<1>1. PathOK(path[w])'
  BY PathStaysOK
<1>2. IsPlaced(nodes', path'[w])
  OBVIOUS
<1> QED
  BY <1>1, <1>2, SamePlace DEF IsPlaced

(* A tree with the nodes of t, and perhaps more.                           *)
Extends(t, u) ==
  /\ Len(t) \in Nat /\ Len(u) \in Nat /\ Len(t) <= Len(u)
  /\ \A n \in 2..Len(t) : u[n].parent = t[n].parent /\ u[n].literal = t[n].literal

(* A path of a tree is one of the tree with more nodes.                    *)
LEMMA InTreeGrows ==
  ASSUME NEW t, NEW u, Extends(t, u), NEW p, IsPlaced(t, p)
  PROVE  IsPlaced(u, p)
  BY DEF IsPlaced, InTree, Extends

(* A sequence after one element.                                           *)
LEMMA AfterFirst ==
  ASSUME NEW S, NEW s \in Seq(S), NEW r
  PROVE  \A k \in 1..(Len(s) + 1) : (<<r>> \o s)[k] = IF k = 1 THEN r ELSE s[k - 1]
<1> SUFFICES ASSUME NEW k \in 1..(Len(s) + 1)
             PROVE  (<<r>> \o s)[k] = IF k = 1 THEN r ELSE s[k - 1]
  OBVIOUS
<1>1. Len(<<r>>) = 1 /\ <<r>>[1] = r /\ Len(s) \in Nat
  OBVIOUS
<1>2. CASE k = 1
  BY <1>1, <1>2
<1>3. CASE k # 1
  <2>1. k - 1 \in 1..Len(s) /\ k = 1 + (k - 1)
    BY <1>1, <1>3
  <2> QED
    BY <1>1, <1>3, <2>1
<1> QED
  BY <1>2, <1>3

(* What is assigned, and that the empty path is always of the tree.        *)
LEMMA AssignedFacts ==
  ASSUME NEW p, PathShape(p)
  PROVE  AssignedNode(p) = IF IsValid(p) THEN LastNode(p) ELSE Root
<1>1. /\ p.trail \in Seq(TrailEntries) /\ Len(p.trail) \in Nat /\ DOMAIN p.trail = 1..Len(p.trail)
  BY PathFacts
<1>2. CASE ~ IsValid(p)
  <2>1. AssignedNodes(p) = <<Root>> \o <<>>
    BY <1>2 DEF AssignedNodes
  <2>2. Len(<<Root>> \o <<>>) = 1 /\ (<<Root>> \o <<>>)[1] = Root
    OBVIOUS
  <2> QED
    BY <1>2, <2>1, <2>2 DEF AssignedNode, Last
<1>3. CASE IsValid(p)
  <2> DEFINE at == [i \in DOMAIN p.trail |-> Index(p.trail[i].id)]
  <2>1. at \in Seq({at[i] : i \in 1..Len(p.trail)}) /\ Len(at) = Len(p.trail)
    BY <1>1, FunctionIsSequence
  <2>2. AssignedNodes(p) = <<Root>> \o at
    BY <1>3 DEF AssignedNodes
  <2>3. Len(p.trail) > 0 => at[Len(p.trail)] = NodeAt(p, Len(p.trail))
    BY <1>1 DEF NodeAt
  <2> HIDE DEF at
  <2>4. /\ Len(<<Root>> \o at) = Len(p.trail) + 1
        /\ (<<Root>> \o at)[Len(p.trail) + 1] =
             IF Len(p.trail) = 0 THEN Root ELSE at[Len(p.trail)]
    BY <1>1, <2>1
  <2>5. p.trail = <<>> <=> Len(p.trail) = 0
    BY <1>1
  <2> QED
    BY <1>1, <1>3, <2>2, <2>3, <2>4, <2>5 DEF AssignedNode, LastNode, Last
<1> QED
  BY <1>2, <1>3

(* The empty path is one of every tree, and leads to its root.             *)
LEMMA EmptyPathPlaced ==
  ASSUME NEW t
  PROVE  IsPlaced(t, EmptyPath) /\ IsValid(EmptyPath) /\ LastNode(EmptyPath) = Root
  BY EmptyPathOK DEF IsPlaced, IsValid, InTree, LastNode

(* The open leaves are finitely many.                                      *)
LEMMA OpenLeavesFacts ==
  ASSUME NEW t, TreeShape(t)
  PROVE  IsFiniteSet({n \in DOMAIN t : ~ t[n].closed /\ IsLeaf(t, n)})
<1> DEFINE S == {n \in DOMAIN t : ~ t[n].closed /\ IsLeaf(t, n)}
<1>1. S \subseteq 1..Len(t) /\ Len(t) \in Int
  BY TreeFacts
<1>2. IsFiniteSet(1..Len(t))
  BY <1>1, FS_Interval
<1> HIDE DEF S
<1>3. IsFiniteSet(S)
  BY <1>1, <1>2, FS_Subset
<1> QED
  BY <1>3 DEF S

(* The open leaves of the next state are those of its tree.                *)
LEMMA OpenLeavesNext ==
  OpenLeaves' = {n \in DOMAIN nodes' : ~ nodes'[n].closed /\ IsLeaf(nodes', n)}
  BY DEF OpenLeaves, CanBeAssigned, IsLeaf

-----------------------------------------------------------------------------
(* What TypeOK says of the nodes follows from the shape of the tree.       *)
LEMMA TypesOfTree ==
  ASSUME NEW t, GoodTree(t)
  PROVE  /\ t \in Seq(Nodes) /\ Len(t) \in Nat /\ Len(t) >= 1 /\ DOMAIN t = 1..Len(t)
         /\ \A n \in DOMAIN t :
              /\ t[n].parent \in 0..(n - 1)
              /\ t[n].children \in {<<>>} \cup {<<m, m + 1>> : m \in (n + 1)..(Len(t) - 1)}
              /\ t[n].has_info = (n = Root \/ ~ (t[n].closed \/ t[n].implied))
<1>1. TreeShape(t) /\ InfoIsKept(t)
  BY DEF GoodTree
<1>2. /\ t \in Seq(Nodes) /\ Len(t) \in Nat /\ Len(t) >= 1 /\ DOMAIN t = 1..Len(t)
      /\ Root = 1 /\ t[Root].parent = 0
      /\ \A n \in 2..Len(t) : t[n].parent \in DOMAIN t /\ t[n].parent < n
  BY <1>1, TreeFacts
<1>3. ASSUME NEW n \in DOMAIN t PROVE t[n].parent \in 0..(n - 1)
  <2>1. CASE n = Root
    BY <1>2, <2>1
  <2>2. CASE n # Root
    <3>1. n \in 2..Len(t)
      BY <1>2, <2>2
    <3> QED
      BY <1>2, <3>1
  <2> QED
    BY <2>1, <2>2
<1>4. ASSUME NEW n \in DOMAIN t
      PROVE  t[n].children \in {<<>>} \cup {<<m, m + 1>> : m \in (n + 1)..(Len(t) - 1)}
  BY <1>1 DEF TreeShape
<1>5. ASSUME NEW n \in DOMAIN t
      PROVE  t[n].has_info = (n = Root \/ ~ (t[n].closed \/ t[n].implied))
  BY <1>1 DEF InfoIsKept
<1> QED
  BY <1>2, <1>3, <1>4, <1>5

(* The leaves that are closed make room for as many splits.                *)
LEMMA CountInvHolds ==
  ASSUME TypeOK, TreeInv, CountInv, config' = config, NEW u, SameTree(nodes, u),
         \A n \in DOMAIN nodes : nodes[n].closed => u[n].closed,
         ProcessNodeChanges(u)
  PROVE  /\ CountInv' /\ OpenLeaves' \subseteq OpenLeaves
         /\ splits_wanted' \in 0..config.leaves
<1> DEFINE newly == {n \in DOMAIN u : u[n].closed /\ ~ nodes[n].closed}
           gone == {n \in newly : IsLeaf(u, n)}
<1>1. /\ TreeShape(nodes) /\ splits_wanted \in Int /\ splits_wanted >= 0 /\ config.leaves \in Nat
      /\ nodes' = u /\ splits_wanted' = splits_wanted + Cardinality(gone)
  <2>1. TreeShape(nodes)
    BY DEF TreeInv, GoodTree
  <2>2. ConfigurationOK(config)
    BY ConfigurationFacts DEF TypeOK
  <2>3. nodes' = u /\ splits_wanted' = splits_wanted + Cardinality(gone)
    BY Zenon DEF ProcessNodeChanges
  <2> QED
    BY <2>1, <2>2, <2>3 DEF TypeOK, ConfigurationOK
<1>2. DOMAIN u = DOMAIN nodes /\ \A n \in DOMAIN nodes : IsLeaf(u, n) <=> IsLeaf(nodes, n)
  <2>1. DOMAIN nodes = 1..Len(nodes) /\ Len(nodes) \in Nat
    BY <1>1, TreeFacts
  <2> QED
    BY <2>1 DEF SameTree, IsLeaf
<1>3. OpenLeaves = {n \in DOMAIN nodes : ~ nodes[n].closed /\ IsLeaf(nodes, n)}
  BY DEF OpenLeaves, CanBeAssigned
<1>4. OpenLeaves' = OpenLeaves \ gone /\ gone \subseteq OpenLeaves
  <2>1. OpenLeaves' = {n \in DOMAIN u : ~ u[n].closed /\ IsLeaf(u, n)}
    BY <1>1, OpenLeavesNext
  <2> QED
    BY <1>2, <1>3, <2>1
<1>5. IsFiniteSet(OpenLeaves)
  BY <1>1, <1>3, OpenLeavesFacts
<1> HIDE DEF gone
<1>6. /\ Cardinality(OpenLeaves \ gone) = Cardinality(OpenLeaves) - Cardinality(gone)
      /\ Cardinality(OpenLeaves \ gone) \in Nat /\ Cardinality(gone) \in Nat
      /\ Cardinality(OpenLeaves) \in Nat
  <2>1. IsFiniteSet(gone) /\ IsFiniteSet(OpenLeaves \ gone) /\ OpenLeaves \cap gone = gone
    BY <1>4, <1>5, FS_Subset
  <2>2. Cardinality(OpenLeaves \ gone) = Cardinality(OpenLeaves) - Cardinality(OpenLeaves \cap gone)
    BY <1>5, FS_Difference
  <2> QED
    BY <1>5, <2>1, <2>2, FS_CardinalityType
<1>7. Cardinality(OpenLeaves) + splits_wanted = config.leaves
  BY DEF CountInv
<1>8. Cardinality(OpenLeaves') + splits_wanted' = config.leaves /\ splits_wanted' \in 0..config.leaves
  BY <1>1, <1>4, <1>6, <1>7
<1>9. CountInv'
  BY <1>8 DEF CountInv
<1> QED
  BY <1>4, <1>8, <1>9

(* What ProcessNodeChanges() preserves.                                    *)
LEMMA TreeChangesInv ==
  ASSUME Inv, config' = config, best' = best, NEW u, GoodTree(u), SameTree(nodes, u),
         \A n \in DOMAIN nodes : nodes[n].closed => u[n].closed,
         ProcessNodeChanges(u)
  PROVE  /\ TreeInv' /\ CountInv' /\ SolvedInv' /\ OpenLeaves' \subseteq OpenLeaves
         /\ nodes' = u /\ Len(nodes') = Len(nodes) /\ Len(nodes) \in Nat
         /\ splits_wanted' \in 0..config.leaves /\ solved' \in BOOLEAN
<1>1. nodes' = u /\ solved' = (solved \/ Root \in {n \in DOMAIN u : u[n].closed /\ ~ nodes[n].closed})
  BY Zenon DEF ProcessNodeChanges
<1>2. Improving' = Improving
  BY SameImproving
<1>3. TreeInv'
  BY <1>1, <1>2, TreeInvHolds
<1>4. CountInv' /\ OpenLeaves' \subseteq OpenLeaves /\ splits_wanted' \in 0..config.leaves
  BY CountInvHolds DEF Inv
<1>5. SolvedInv'
  <2>1. CASE solved
    BY <1>2, <2>1 DEF Inv, SolvedInv
  <2>2. CASE ~ solved
    <3>1. solved' => Root \in DOMAIN u /\ u[Root].closed
      BY <1>1, <2>2
    <3>2. Root \in DOMAIN u /\ u[Root].closed => SolutionsIn(u, Root) = {}
      BY DEF GoodTree, TreeSound
    <3>3. SolutionsIn(u, Root) = Improving
      BY SolutionsDefined DEF GoodTree, TreeShape
    <3> QED
      BY <1>2, <3>1, <3>2, <3>3 DEF SolvedInv
  <2> QED
    BY <2>1, <2>2
<1>6. Len(u) = Len(nodes) /\ Len(nodes) \in Nat
  BY TypesOfTree DEF SameTree, Inv, TreeInv
<1>7. solved' \in BOOLEAN
  BY <1>1
<1> QED
  BY <1>1, <1>3, <1>4, <1>5, <1>6, <1>7

-----------------------------------------------------------------------------
(* Leaves stay shared when the paths that lead to those left are the same. *)
LEMMA LeavesInvHolds ==
  ASSUME LeavesInv, offset' = offset, unassigned' = unassigned, OpenLeaves' \subseteq OpenLeaves,
         \A v \in Workers : \A n \in OpenLeaves' \ {Root} : IsAt(path'[v], n) <=> IsAt(path[v], n)
  PROVE  LeavesInv'
<1> SUFFICES ASSUME NEW n \in OpenLeaves' \ {Root}
             PROVE  IF n \in unassigned THEN \A w \in Workers : ~ IsAt(path[w], n)'
                    ELSE \E w \in Workers : \A v \in Workers : IsAt(path[v], n)' <=> v = w
  BY DEF LeavesInv
<1>1. \A v \in Workers : IsAt(path[v], n)' <=> IsAt(path[v], n)
  BY SamePlace
<1>2. IF n \in unassigned THEN \A w \in Workers : ~ IsAt(path[w], n)
      ELSE \E w \in Workers : \A v \in Workers : IsAt(path[v], n) <=> v = w
  BY DEF LeavesInv
<1> QED
  BY <1>1, <1>2

(* The types, when the nodes and a path have changed.                      *)
LEMMA TypesHold ==
  ASSUME TypeOK, config' = config, GoodTree(nodes'), Len(nodes') \in 1..Max({1, config.max_nodes}),
         offset' \in Nat, unassigned' \subseteq DOMAIN nodes',
         splits_wanted' \in 0..config.leaves,
         num_restarts' \in 0..config.initial_restarts, num_syncs' \in 0..SyncsOfARestart,
         path' \in [Workers -> Paths], pc' \in [Workers -> {"search", "replace"}],
         best' \in 0..NoSolution, solved' \in BOOLEAN
  PROVE  TypeOK'
<1>1. Nodes' = Nodes /\ Paths' = Paths /\ NoSolution' = NoSolution /\ SyncsOfARestart' = SyncsOfARestart
  BY SameTypes
<1>2. /\ nodes' \in Seq(Nodes)
      /\ \A n \in DOMAIN nodes' :
           /\ nodes'[n].parent \in 0..(n - 1)
           /\ nodes'[n].children \in {<<>>} \cup {<<m, m + 1>> : m \in (n + 1)..(Len(nodes') - 1)}
           /\ nodes'[n].has_info = (n = Root \/ ~ (nodes'[n].closed \/ nodes'[n].implied))
  <2>1. PICK u : u = nodes'
    OBVIOUS
  <2>2. GoodTree(u)
    BY <2>1
  <2> QED
    BY <2>1, <2>2, TypesOfTree
<1>3. config \in Configurations
  BY DEF TypeOK
<1> QED
  BY <1>1, <1>2, <1>3 DEF TypeOK

-----------------------------------------------------------------------------
(* Only the levels of a path change.                                       *)
LEMMA SameTrail ==
  ASSUME NEW p, NEW q, q.trail = p.trail
  PROVE  /\ \A t : IsPlaced(t, q) <=> IsPlaced(t, p)
         /\ \A n : IsAt(q, n) <=> IsAt(p, n)
  BY DEF IsPlaced, IsValid, InTree, NodeAt, IsStale, IsAt, LastNode

(* What the invariant says of the path of a worker.                        *)
LEMMA PathPlaced ==
  ASSUME Inv, NEW w \in Workers
  PROVE  PathOK(path[w]) /\ IsPlaced(nodes, path[w])
  BY DEF Inv, PathInv, IsPlaced

(* Such a change of a path preserves the invariant.                        *)
LEMMA LevelsChangeInv ==
  ASSUME Inv, NEW w \in Workers, NEW p, PathOK(p), p.trail = path[w].trail,
         path' = [path EXCEPT ![w] = p],
         UNCHANGED <<config, treeVars, restartVars, pc, searchVars>>
  PROVE  Inv'
<1>1. /\ config' = config /\ nodes' = nodes /\ offset' = offset /\ unassigned' = unassigned
      /\ splits_wanted' = splits_wanted /\ num_restarts' = num_restarts
      /\ num_syncs' = num_syncs /\ pc' = pc /\ best' = best /\ solved' = solved
  BY DEF treeVars, restartVars, searchVars
<1>2. TypeOK /\ GoodTree(nodes) /\ Improving' = Improving
  BY <1>1, SameImproving DEF Inv, TreeInv
<1>3. p \in Paths
  BY DEF PathOK, PathShape
<1>4. TypeOK'
  <2>1. path' \in [Workers -> Paths]
    BY <1>2, <1>3 DEF TypeOK
  <2>2. /\ Len(nodes) \in 1..Max({1, config.max_nodes}) /\ offset \in Nat
        /\ unassigned \subseteq DOMAIN nodes /\ splits_wanted \in 0..config.leaves
        /\ num_restarts \in 0..config.initial_restarts /\ num_syncs \in 0..SyncsOfARestart
        /\ pc \in [Workers -> {"search", "replace"}]
        /\ best \in 0..NoSolution /\ solved \in BOOLEAN
    BY <1>2 DEF TypeOK
  <2> QED
    BY <1>1, <1>2, <2>1, <2>2, TypesHold
<1>5. \A v \in Workers : path'[v] = IF v = w THEN p ELSE path[v]
  BY <1>2 DEF TypeOK
<1>6. TreeInv'
  BY <1>1, <1>2, TreeInvHolds
<1>7. \A v \in Workers : /\ PathOK(path'[v]) /\ IsPlaced(nodes', path'[v])
                         /\ \A n : IsAt(path'[v], n) <=> IsAt(path[v], n)
  BY <1>1, <1>5, SameTrail, PathPlaced
<1>8. PathInv'
  BY <1>1, <1>2, <1>7, PathInvHolds
<1>9. OpenLeaves' = OpenLeaves
  BY <1>1, OpenLeavesNext DEF OpenLeaves, CanBeAssigned
<1>10. LeavesInv'
  BY <1>1, <1>7, <1>9, LeavesInvHolds DEF Inv
<1>11. CountInv' /\ SolvedInv'
  BY <1>1, <1>2, <1>9 DEF Inv, CountInv, SolvedInv
<1> QED
  BY <1>4, <1>6, <1>8, <1>10, <1>11 DEF Inv

-----------------------------------------------------------------------------
(* The tree keeps its nodes, and one path changes.                         *)
LEMMA PathChangesInv ==
  ASSUME Inv, NEW w \in Workers, NEW p, PathOK(p), path' = [path EXCEPT ![w] = p],
         config' = config, best' = best, offset' = offset, unassigned' = unassigned,
         num_restarts' = num_restarts, num_syncs' \in 0..SyncsOfARestart,
         pc' \in [Workers -> {"search", "replace"}],
         NEW u, nodes' = u, GoodTree(u), SameTree(nodes, u),
         TreeInv', CountInv', SolvedInv', OpenLeaves' \subseteq OpenLeaves,
         splits_wanted' \in 0..config.leaves, solved' \in BOOLEAN,
         IsPlaced(u, p), \A n \in OpenLeaves' \ {Root} : IsAt(p, n) <=> IsAt(path[w], n)
  PROVE  Inv'
<1>1. TypeOK /\ Improving' = Improving
  BY SameImproving DEF Inv
<1>2. /\ Len(nodes) \in 1..Max({1, config.max_nodes}) /\ offset \in Nat
      /\ unassigned \subseteq DOMAIN nodes
      /\ num_restarts \in 0..config.initial_restarts /\ best \in 0..NoSolution
      /\ path \in [Workers -> Paths]
  BY <1>1 DEF TypeOK
<1>3. \A v \in Workers : path'[v] = IF v = w THEN p ELSE path[v]
  BY <1>2
<1>4. Len(u) = Len(nodes) /\ DOMAIN u = DOMAIN nodes /\ Extends(nodes, u)
  <2>1. Len(nodes) \in Nat /\ DOMAIN nodes = 1..Len(nodes) /\ DOMAIN u = 1..Len(u)
    BY TypesOfTree DEF Inv, TreeInv
  <2> QED
    BY <2>1 DEF SameTree, Extends
<1>5. path' \in [Workers -> Paths]
  BY <1>2 DEF PathOK, PathShape
<1>6. TypeOK'
  <2>1. GoodTree(nodes') /\ Len(nodes') \in 1..Max({1, config.max_nodes})
    BY <1>2, <1>4
  <2>2. unassigned' \subseteq DOMAIN nodes'
    BY <1>2, <1>4
  <2> QED
    BY <1>1, <1>2, <1>5, <2>1, <2>2, TypesHold
<1>7. \A v \in Workers : PathOK(path'[v]) /\ IsPlaced(nodes', path'[v])
  <2>1. \A v \in Workers : PathOK(path[v]) /\ IsPlaced(nodes, path[v])
    BY PathPlaced
  <2>2. \A v \in Workers : IsPlaced(u, path[v])
    BY <1>4, <2>1, InTreeGrows
  <2> QED
    BY <1>3, <2>1, <2>2
<1>8. PathInv'
  BY <1>1, <1>7, PathInvHolds
<1>9. LeavesInv'
  <2>1. \A v \in Workers : \A n \in OpenLeaves' \ {Root} : IsAt(path'[v], n) <=> IsAt(path[v], n)
    BY <1>3
  <2> QED
    BY <2>1, LeavesInvHolds DEF Inv
<1> QED
  BY <1>6, <1>8, <1>9 DEF Inv

(* The tree that stays as it is is one that keeps its nodes.               *)
LEMMA SameTreeInv ==
  ASSUME Inv, config' = config, best' = best, nodes' = nodes,
         splits_wanted' = splits_wanted, solved' = solved
  PROVE  /\ GoodTree(nodes) /\ SameTree(nodes, nodes)
         /\ TreeInv' /\ CountInv' /\ SolvedInv' /\ OpenLeaves' = OpenLeaves
         /\ splits_wanted' \in 0..config.leaves /\ solved' \in BOOLEAN
<1>1. Improving' = Improving /\ GoodTree(nodes)
  BY SameImproving DEF Inv, TreeInv
<1>2. OpenLeaves' = OpenLeaves
  BY OpenLeavesNext DEF OpenLeaves, CanBeAssigned
<1>3. TreeInv'
  BY <1>1, TreeInvHolds
<1>4. CountInv' /\ SolvedInv'
  BY <1>1, <1>2 DEF Inv, CountInv, SolvedInv
<1>5. SameTree(nodes, nodes)
  BY <1>1, TypesOfTree DEF SameTree
<1>6. splits_wanted' \in 0..config.leaves /\ solved' \in BOOLEAN
  BY DEF Inv, TypeOK
<1> QED
  BY <1>1, <1>2, <1>3, <1>4, <1>5, <1>6

(* A worker goes on, or is about to replace its subtree.                   *)
LEMMA ReplaceSubtreeTypes ==
  ASSUME TypeOK, NEW w \in Workers, NEW p, ShouldReplaceSubtree(w, p)
  PROVE  pc' \in [Workers -> {"search", "replace"}]
  BY DEF ShouldReplaceSubtree, TypeOK

(* SyncTree() of a path that a restart made invalid.                       *)
LEMMA SyncInvalidInv ==
  ASSUME Inv, NEW w \in Workers, SyncInvalid(w)
  PROVE  Inv'
<1>1. /\ ~ IsValid(path[w]) /\ path' = [path EXCEPT ![w] = EmptyPath]
      /\ ShouldReplaceSubtree(w, EmptyPath)
      /\ config' = config /\ nodes' = nodes /\ offset' = offset /\ unassigned' = unassigned
      /\ splits_wanted' = splits_wanted /\ num_restarts' = num_restarts
      /\ num_syncs' = num_syncs /\ best' = best /\ solved' = solved
  BY DEF SyncInvalid, SetPath, treeVars, restartVars, searchVars
<1>2. pc' \in [Workers -> {"search", "replace"}]
  BY <1>1, ReplaceSubtreeTypes DEF Inv
<1>3. /\ GoodTree(nodes) /\ SameTree(nodes, nodes)
      /\ TreeInv' /\ CountInv' /\ SolvedInv' /\ OpenLeaves' = OpenLeaves
      /\ splits_wanted' \in 0..config.leaves /\ solved' \in BOOLEAN
  BY <1>1, SameTreeInv
<1>4. \A n \in OpenLeaves' \ {Root} : IsAt(EmptyPath, n) <=> IsAt(path[w], n)
  BY <1>1, EmptyPathPlaced DEF IsAt
<1>5. PathOK(EmptyPath) /\ IsPlaced(nodes, EmptyPath)
  BY EmptyPathOK, EmptyPathPlaced
<1>6. num_syncs' \in 0..SyncsOfARestart
  BY <1>1 DEF Inv, TypeOK
<1> QED
  BY <1>1, <1>2, <1>3, <1>4, <1>5, <1>6, PathChangesInv

-----------------------------------------------------------------------------
(* CloseTree(): nothing improves on the best solution below the level.     *)
LEMMA CloseTreeInv ==
  ASSUME Inv, NEW w \in Workers, NEW l \in 1..MaxLevel(path[w]), CloseTree(w, l)
  PROVE  Inv'
<1> DEFINE p == path[w]
           n == DecisionNode(p, l)
<1>1. /\ Below(p, l) = {} /\ path' = [path EXCEPT ![w] = EmptyPath]
      /\ config' = config /\ offset' = offset /\ unassigned' = unassigned
      /\ num_restarts' = num_restarts /\ num_syncs' = num_syncs /\ pc' = pc /\ best' = best
      /\ Id(n) < offset => nodes' = nodes /\ splits_wanted' = splits_wanted /\ solved' = solved
      /\ ~ (Id(n) < offset) => ProcessNodeChanges(ChangedTree(nodes, {n}, {}))
  BY DEF CloseTree, SetPath, restartVars
<1>2. /\ TypeOK /\ config \in Configurations /\ GoodTree(nodes) /\ offset \in Nat
      /\ num_syncs \in 0..SyncsOfARestart /\ pc \in [Workers -> {"search", "replace"}]
  BY DEF Inv, TreeInv, TypeOK
<1>3. PathOK(p) /\ PathShape(p) /\ IsPlaced(nodes, p)
  BY PathPlaced DEF PathOK
<1>4. /\ DecisionIndex(p, l) \in 1..Len(p.trail) /\ DOMAIN p.trail = 1..Len(p.trail)
      /\ Len(p.trail) \in Nat /\ p.trail[DecisionIndex(p, l)].id \in Nat
      /\ MaxLevel(p) \in Nat
  BY <1>3, PathFacts
<1>5. Id(n) = p.trail[DecisionIndex(p, l)].id /\ n = NodeAt(p, DecisionIndex(p, l))
  BY <1>2, <1>4 DEF Id, DecisionNode, Index, NodeAt
<1>6. PathOK(EmptyPath) /\ \A t : IsPlaced(t, EmptyPath)
  BY EmptyPathOK, EmptyPathPlaced
<1>7. CASE Id(n) < offset
  <2>1. IsValid(p) /\ InTree(nodes, p) => n >= 2
    BY <1>4, <1>5 DEF InTree
  <2>2. n >= 2 => Id(n) >= offset
    BY <1>2, <1>4, <1>5 DEF Id, NodeAt, Index
  <2>3. ~ IsValid(p)
    BY <1>2, <1>3, <1>4, <1>5, <1>7, <2>1, <2>2 DEF IsPlaced, IsStale
  <2>4. /\ GoodTree(nodes) /\ SameTree(nodes, nodes)
        /\ TreeInv' /\ CountInv' /\ SolvedInv' /\ OpenLeaves' = OpenLeaves
        /\ splits_wanted' \in 0..config.leaves /\ solved' \in BOOLEAN
    BY <1>1, <1>7, SameTreeInv
  <2>5. \A m \in OpenLeaves' \ {Root} : IsAt(EmptyPath, m) <=> IsAt(path[w], m)
    BY <2>3, EmptyPathPlaced DEF IsAt
  <2> QED
    BY <1>1, <1>2, <1>6, <1>7, <2>4, <2>5, PathChangesInv
<1>8. CASE ~ (Id(n) < offset)
  <2>1. IsValid(p) /\ InTree(nodes, p)
    BY <1>3, <1>4, <1>5, <1>8 DEF IsPlaced, IsStale
  <2>2. TreeShape(nodes)
    BY <1>2 DEF GoodTree
  <2>3. \A m \in DOMAIN nodes : m \in {n} => SolutionsIn(nodes, m) = {}
    BY <1>1, <1>3, <2>1, <2>2, SolutionsOnPath
  <2>4. PICK u : u = ChangedTree(nodes, {n}, {})
    OBVIOUS
  <2>5. PICK closing, none : closing = {n} /\ none = {}
    OBVIOUS
  <2>6. /\ GoodTree(u) /\ SameTree(nodes, u)
        /\ \A m \in DOMAIN nodes : u[m].closed <=> IsClosedWith(nodes, closing, m)
    <3>1. u = ChangedTree(nodes, closing, none)
      BY <2>4, <2>5
    <3>2. \A m \in DOMAIN nodes : m \in closing => SolutionsIn(nodes, m) = {}
      BY <2>3, <2>5
    <3> QED
      BY <1>2, <3>1, <3>2, ChangedTreeFacts
  <2>7. \A m \in DOMAIN nodes : nodes[m].closed => u[m].closed
    BY <2>6 DEF IsClosedWith
  <2>8. /\ TreeInv' /\ CountInv' /\ SolvedInv' /\ OpenLeaves' \subseteq OpenLeaves
        /\ nodes' = u /\ splits_wanted' \in 0..config.leaves /\ solved' \in BOOLEAN
    BY <1>1, <1>8, <2>4, <2>6, <2>7, TreeChangesInv
  <2>9. ASSUME NEW m \in OpenLeaves' \ {Root} PROVE ~ IsAt(p, m)
    <3> SUFFICES ASSUME IsAt(p, m) PROVE FALSE
      OBVIOUS
    <3>1. m = NodeAt(p, Len(p.trail)) /\ Len(p.trail) \in 1..Len(p.trail)
      BY <1>4, <2>9 DEF IsAt, LastNode
    <3>2. n \in Ancestors(nodes, m) /\ m \in DOMAIN nodes
      BY <1>3, <1>4, <1>5, <2>1, <2>2, <3>1, AncestorsOnPath
    <3>3. IsClosedWith(nodes, closing, m)
      BY <2>2, <2>5, <3>2, ClosedWithDefined
    <3>4. u[m].closed
      BY <2>6, <3>2, <3>3
    <3> QED
      BY <2>8, <3>4, OpenLeavesNext
  <2>10. \A m \in OpenLeaves' \ {Root} : IsAt(EmptyPath, m) <=> IsAt(path[w], m)
    BY <2>9, EmptyPathPlaced DEF IsAt
  <2> QED
    BY <1>1, <1>2, <1>6, <2>6, <2>8, <2>10, PathChangesInv
<1> QED
  BY <1>7, <1>8

-----------------------------------------------------------------------------
(* What a worker learns about the levels of its path.                      *)
LEMMA LevelIsImpliedInv ==
  ASSUME Inv, NEW w \in Workers, NEW l \in 1..MaxLevel(path[w]), LevelIsImplied(w, l)
  PROVE  Inv'
<1>1. PICK p : p = SetLevelImplied(path[w], l)
  OBVIOUS
<1>2. /\ \A s \in Below(path[w], l - 1) : Satisfies(s, {Decision(path[w], l)})
      /\ path' = [path EXCEPT ![w] = p]
      /\ UNCHANGED <<config, treeVars, restartVars, pc, searchVars>>
  BY <1>1 DEF LevelIsImplied, SetPath
<1>3. config \in Configurations /\ PathOK(path[w]) /\ PathShape(path[w])
  BY PathPlaced DEF Inv, TypeOK, PathOK
<1>4. PathOK(p)
  BY <1>1, <1>2, <1>3, SetLevelImpliedOK
<1>5. p.trail = path[w].trail
  BY <1>1, <1>3, <1>4, SetLevelImpliedShape DEF PathOK
<1> QED
  BY <1>2, <1>4, <1>5, LevelsChangeInv

(* A literal that holds below the level is shared.                         *)
LEMMA ShareImplicationInv ==
  ASSUME Inv, NEW w \in Workers, NEW l \in 1..MaxLevel(path[w]),
         NEW literal \in config.shared, ShareImplication(w, l, literal)
  PROVE  Inv'
<1>1. PICK lits : lits = {literal}
  OBVIOUS
<1>2. PICK p : p = AddImplications(path[w], l, lits)
  OBVIOUS
<1>3. /\ \A s \in Below(path[w], l) : Satisfies(s, lits)
      /\ path' = [path EXCEPT ![w] = p]
      /\ UNCHANGED <<config, treeVars, restartVars, pc, searchVars>>
  BY <1>1, <1>2 DEF ShareImplication, SetPath
<1>4. config \in Configurations /\ PathOK(path[w]) /\ PathShape(path[w])
  BY PathPlaced DEF Inv, TypeOK, PathOK
<1>5. lits \in SUBSET Literals(config.variables)
  BY <1>1, <1>4, ConfigurationFacts DEF ConfigurationOK
<1>6. l \in 0..MaxLevel(path[w])
  BY <1>4, PathFacts
<1>7. PathOK(p) /\ SameStarts(path[w], p)
  BY <1>2, <1>3, <1>4, <1>5, <1>6, AddImplicationsOK
<1> QED
  BY <1>3, <1>7, LevelsChangeInv DEF SameStarts

(* The bound of the objective at a level.                                  *)
LEMMA RaiseObjectiveLbInv ==
  ASSUME Inv, NEW w \in Workers, NEW l \in 1..MaxLevel(path[w]),
         NEW lb \in config.bounds, RaiseObjectiveLb(w, l, lb)
  PROVE  Inv'
<1>1. PICK p : p = [path[w] EXCEPT !.levels[l].lb = lb]
  OBVIOUS
<1>2. /\ \A s \in Below(path[w], l) : Cost[s] >= lb
      /\ path' = [path EXCEPT ![w] = p]
      /\ UNCHANGED <<config, treeVars, restartVars, pc, searchVars>>
  BY <1>1 DEF RaiseObjectiveLb, SetPath
<1>3. config \in Configurations /\ PathOK(path[w])
  BY PathPlaced DEF Inv, TypeOK
<1>4. lb \in 0..MaxInteger
  BY <1>3, ConfigurationFacts DEF ConfigurationOK, MaxInteger
<1>5. PathOK(p) /\ SameStarts(path[w], p)
  BY <1>1, <1>2, <1>3, <1>4, RaiseObjectiveLbOK
<1> QED
  BY <1>2, <1>5, LevelsChangeInv DEF SameStarts

-----------------------------------------------------------------------------
(* SyncTree().                                                             *)
LEMMA AllIsClosedBelowRoot ==
  ASSUME NEW t, TreeShape(t), ClosedBelow(t), t[Root].closed
  PROVE  \A n \in DOMAIN t : t[n].closed
<1> DEFINE Good == {n \in 1..Len(t) : t[n].closed}
<1>1. /\ Len(t) \in Nat /\ DOMAIN t = 1..Len(t) /\ Root = 1 /\ 1 \in DOMAIN t
      /\ \A n \in 2..Len(t) : t[n].parent \in DOMAIN t /\ t[n].parent < n
  BY TreeFacts
<1>2. ASSUME NEW n \in 1..Len(t), \A m \in 1..(n - 1) : m \in Good PROVE n \in Good
  <2>1. CASE n = 1
    BY <1>1, <2>1
  <2>2. CASE n # 1
    <3>1. n \in 2..Len(t)
      BY <1>1, <2>2
    <3>2. t[n].parent \in 1..(n - 1)
      BY <1>1, <3>1
    <3>3. t[t[n].parent].closed
      BY <1>2, <3>2
    <3> QED
      BY <3>1, <3>3 DEF ClosedBelow
  <2> QED
    BY <2>1, <2>2
<1> HIDE DEF Good
<1>3. 1..Len(t) \subseteq Good
  BY <1>1, <1>2, IntervalInduction
<1> QED
  BY <1>1, <1>3 DEF Good

(* After a restart the root is the tree.                                   *)
LEMMA RestartedTree ==
  ASSUME NEW t, GoodTree(t), ~ t[Root].closed,
         NEW u, u = <<[t[Root] EXCEPT !.children = <<>>]>>
  PROVE  /\ GoodTree(u) /\ Len(u) = 1 /\ DOMAIN u = {Root}
         /\ ~ u[Root].closed /\ IsLeaf(u, Root)
<1> DEFINE r == t[Root]
           v == [literal |-> r.literal, lb |-> r.lb, parent |-> 0, children |-> <<>>,
                 closed |-> r.closed, implied |-> r.implied, has_info |-> r.has_info,
                 implications |-> r.implications]
<1>1. /\ TreeShape(t) /\ ParentsComeFirst(t) /\ Root = 1 /\ Root \in DOMAIN t
      /\ r \in Nodes /\ ~ r.implied /\ r.parent = 0
  BY TreeFacts DEF GoodTree
<1>2. r.has_info
  BY <1>1 DEF GoodTree, InfoIsKept
<1>3. u = <<v>> /\ v \in Nodes
  <2>1. [r EXCEPT !.children = <<>>] = v
    BY <1>1 DEF Nodes
  <2>2. v \in Nodes
    BY <1>1 DEF Nodes
  <2> QED
    BY <2>1, <2>2
<1>4. /\ u[Root].parent = 0 /\ u[Root].children = <<>> /\ u[Root].closed = r.closed
      /\ u[Root].implied = r.implied /\ u[Root].has_info = r.has_info
      /\ u[Root].lb = r.lb /\ u[Root].implications = r.implications
  BY <1>1, <1>3
<1> HIDE DEF v
<1>5. u \in Seq(Nodes) /\ Len(u) = 1 /\ DOMAIN u = {Root} /\ u # <<>>
  BY <1>1, <1>3
<1>6. ParentsComeFirst(u) /\ 2..Len(u) = {}
  BY <1>4, <1>5 DEF ParentsComeFirst
<1>7. TreeShape(u)
  <2>1. ChildrenOf(u, Root) = {}
    BY <1>6 DEF ChildrenOf
  <2> QED
    BY <1>1, <1>4, <1>5, <1>6, <2>1 DEF TreeShape
<1>8. ClosedBelow(u) /\ InfoIsKept(u)
  BY <1>1, <1>2, <1>4, <1>5, <1>6 DEF ClosedBelow, InfoIsKept
<1>9. TreeSound(u)
  <2>1. SolutionsIn(u, Root) = Improving /\ SolutionsIn(t, Root) = Improving
    BY <1>1, <1>6, SolutionsDefined
  <2>2. \A s \in SolutionsIn(t, Root) : Cost[s] >= r.lb /\ Satisfies(s, r.implications)
    BY <1>1 DEF GoodTree, TreeSound
  <2> QED
    BY <1>1, <1>4, <1>5, <2>1, <2>2 DEF TreeSound
<1> QED
  BY <1>4, <1>5, <1>7, <1>8, <1>9 DEF GoodTree, IsLeaf

(* The number of synchronisations that make a restart.                     *)
LEMMA SyncsOfARestartIsNat ==
  ASSUME config \in Configurations
  PROVE  SyncsOfARestart \in Nat
<1>1. Cardinality(Workers) \in Nat
  BY TreeAssumption, FS_CardinalityType
<1>2. config.syncs_per_restart \in Nat
  BY ConfigurationFacts DEF ConfigurationOK
<1> QED
  BY <1>1, <1>2 DEF SyncsOfARestart

(* A restart makes every path stale that has an entry.                     *)
LEMMA RestartInv ==
  ASSUME Inv, NEW w \in Workers, NEW t, GoodTree(t), SameTree(nodes, t), ~ t[Root].closed,
         RestartLockHeld(t), num_restarts < config.initial_restarts,
         path' = [path EXCEPT ![w] = EmptyPath], config' = config, best' = best, solved' = solved,
         pc' \in [Workers -> {"search", "replace"}]
  PROVE  Inv'
<1>1. /\ offset' = offset + Len(t) /\ nodes' = <<[t[Root] EXCEPT !.children = <<>>]>>
      /\ unassigned' = {} /\ splits_wanted' = config.leaves - 1
      /\ num_restarts' = num_restarts + 1 /\ num_syncs' = 0
  BY DEF RestartLockHeld
<1>2. /\ TypeOK /\ GoodTree(nodes) /\ Improving' = Improving /\ config \in Configurations
      /\ offset \in Nat /\ path \in [Workers -> Paths] /\ best \in 0..NoSolution
      /\ solved \in BOOLEAN /\ num_restarts \in 0..config.initial_restarts
  BY SameImproving DEF Inv, TreeInv, TypeOK
<1>3. /\ config.leaves \in Nat \ {0} /\ config.initial_restarts \in Nat /\ config.max_nodes \in Nat
      /\ config.syncs_per_restart \in Nat
  BY <1>2, ConfigurationFacts DEF ConfigurationOK
<1>4. /\ Len(t) = Len(nodes) /\ Len(nodes) \in Nat /\ Len(nodes) >= 1
  BY <1>2, TypesOfTree DEF SameTree
<1>5. /\ GoodTree(nodes') /\ Len(nodes') = 1 /\ DOMAIN nodes' = {Root}
      /\ ~ nodes'[Root].closed /\ IsLeaf(nodes', Root)
  BY <1>1, RestartedTree
<1>6. SyncsOfARestart \in Nat
  BY <1>2, SyncsOfARestartIsNat
<1>7. 1 \in 1..Max({1, config.max_nodes})
  <2>1. 1 \in Int /\ config.max_nodes \in Int
    BY <1>3
  <2>2. Max({1, config.max_nodes}) \in {1, config.max_nodes} /\ Max({1, config.max_nodes}) >= 1
    BY <2>1, MaxOfTwo
  <2> QED
    BY <2>1, <2>2
<1>8. path' \in [Workers -> Paths] /\ \A v \in Workers : path'[v] = IF v = w THEN EmptyPath ELSE path[v]
  BY <1>2, EmptyPathOK DEF PathOK, PathShape
<1>9. TypeOK'
  <2>1. /\ offset' \in Nat /\ unassigned' \subseteq DOMAIN nodes' /\ splits_wanted' \in 0..config.leaves
        /\ num_restarts' \in 0..config.initial_restarts /\ num_syncs' \in 0..SyncsOfARestart
    <3>1. offset' \in Nat /\ unassigned' \subseteq DOMAIN nodes'
      BY <1>1, <1>2, <1>4
    <3>2. splits_wanted' \in 0..config.leaves
      BY <1>1, <1>3
    <3>3. num_restarts' \in 0..config.initial_restarts
      BY <1>1, <1>2, <1>3
    <3>4. num_syncs' \in 0..SyncsOfARestart
      BY <1>1, <1>6
    <3> QED
      BY <3>1, <3>2, <3>3, <3>4
  <2> QED
    BY <1>2, <1>5, <1>7, <1>8, <2>1, TypesHold
<1>10. TreeInv' /\ SolvedInv'
  BY <1>2, <1>5, TreeInvHolds DEF Inv, SolvedInv
<1>11. OpenLeaves' = {Root}
  BY <1>5, OpenLeavesNext
<1>12. CountInv' /\ LeavesInv'
  <2>1. Cardinality({Root}) = 1
    BY FS_Singleton
  <2> QED
    BY <1>1, <1>3, <1>11, <2>1 DEF CountInv, LeavesInv
<1>13. PathInv'
  <2> SUFFICES ASSUME NEW v \in Workers
               PROVE  PathOK(path[v])' /\ ((IsValid(path[v])' /\ InTree(nodes, path[v])') \/ IsStale(path[v])')
    BY DEF PathInv
  <2>1. PathOK(path'[v]) /\ PathOK(path[v]) /\ IsPlaced(nodes, path[v])
    BY <1>8, EmptyPathOK, PathPlaced
  <2>2. PathOK(path[v])'
    BY <1>2, <2>1, PathStaysOK
  <2>3. CASE path'[v].trail = <<>>
    <3>1. IsValid(path[v])'
      BY <2>3 DEF IsValid
    <3>2. InTree(nodes, path[v])'
      BY <2>3 DEF InTree
    <3> QED
      BY <2>2, <3>1, <3>2
  <2>4. CASE path'[v].trail # <<>>
    <3>1. path'[v] = path[v]
      BY <1>8, <2>4, EmptyPathOK
    <3>2. /\ Len(path[v].trail) \in Nat /\ DOMAIN path[v].trail = 1..Len(path[v].trail)
          /\ \A i \in 1..Len(path[v].trail) : path[v].trail[i].id \in Nat
          /\ Len(path[v].trail) >= 1
      <4>1. PathShape(path[v])
        BY <2>1 DEF PathOK
      <4>2. path[v].trail \in Seq(TrailEntries) /\ path[v].trail # <<>>
        BY <2>4, <3>1, <4>1, PathFacts
      <4> QED
        BY <4>1, <4>2, PathFacts
    <3>3. ASSUME NEW i \in DOMAIN path[v].trail PROVE path[v].trail[i].id < offset + Len(t)
      <4>1. CASE InTree(nodes, path[v])
        BY <1>2, <1>4, <3>2, <4>1 DEF InTree, NodeAt, Index
      <4>2. CASE IsStale(path[v])
        BY <1>2, <1>4, <3>2, <4>2 DEF IsStale
      <4> QED
        BY <2>1, <4>1, <4>2 DEF IsPlaced
    <3>4. \A i \in DOMAIN path'[v].trail : path'[v].trail[i].id < offset'
      BY <1>1, <3>1, <3>3
    <3>5. ~ (path'[v].trail # <<>> => Last(path'[v].trail).id >= offset')
      <4>1. Len(path[v].trail) \in DOMAIN path[v].trail
        BY <3>2
      <4>2. path[v].trail[Len(path[v].trail)].id < offset + Len(t)
        BY <3>3, <4>1
      <4>3. path[v].trail[Len(path[v].trail)].id \in Nat
        BY <3>2
      <4> QED
        BY <1>1, <1>2, <1>4, <2>4, <3>1, <4>2, <4>3 DEF Last
    <3> QED
      BY <2>2, <3>4, <3>5 DEF IsStale, IsValid
  <2> QED
    BY <2>2, <2>3, <2>4
<1> QED
  BY <1>9, <1>10, <1>12, <1>13 DEF Inv

(* SyncTree(): the three outcomes.                                         *)
LEMMA SyncTreeInv ==
  ASSUME Inv, NEW w \in Workers, SyncTree(w)
  PROVE  Inv'
<1>1. PICK t : t = SyncedTree(path[w])
  OBVIOUS
<1>2. PICK leaf : leaf = AssignedNode(path[w])
  OBVIOUS
<1>3. PICK syncs : syncs = Min({num_syncs + 1, SyncsOfARestart})
  OBVIOUS
<1>4. /\ IsValid(path[w]) /\ config' = config /\ best' = best
      /\ ShouldReplaceSubtree(w, path'[w])
      /\ \/ /\ t[leaf].closed /\ ProcessNodeChanges(t)
            /\ path' = [path EXCEPT ![w] = EmptyPath]
            /\ offset' = offset /\ unassigned' = unassigned
            /\ num_restarts' = num_restarts /\ num_syncs' = num_syncs
         \/ /\ ~ t[leaf].closed /\ num_restarts < config.initial_restarts
            /\ RestartLockHeld(t)
            /\ path' = [path EXCEPT ![w] = EmptyPath] /\ solved' = solved
         \/ /\ ~ t[leaf].closed /\ ProcessNodeChanges(t) /\ num_syncs' = syncs
            /\ path' = [path EXCEPT ![w] = PathTo(t, leaf, offset)]
            /\ offset' = offset /\ unassigned' = unassigned /\ num_restarts' = num_restarts
  BY <1>1, <1>2, <1>3 DEF SyncTree, SetPath, restartVars
<1>5. /\ TypeOK /\ config \in Configurations /\ GoodTree(nodes) /\ offset \in Nat
      /\ num_syncs \in 0..SyncsOfARestart
  BY DEF Inv, TreeInv, TypeOK
<1>6. PathOK(path[w]) /\ PathShape(path[w]) /\ InTree(nodes, path[w])
  BY <1>4, PathPlaced DEF PathOK, IsPlaced, IsStale
<1>7. /\ GoodTree(t) /\ SameTree(nodes, t)
      /\ \A n \in DOMAIN nodes : nodes[n].closed => t[n].closed
  BY <1>1, <1>5, <1>6, SyncedTreeFacts
<1>8. leaf = LastNode(path[w]) /\ leaf \in DOMAIN nodes /\ leaf \in DOMAIN t
  <2>1. leaf = LastNode(path[w])
    BY <1>2, <1>4, <1>6, AssignedFacts
  <2>2. LastNode(path[w]) \in DOMAIN nodes
    BY <1>5, <1>6, AncestorsOnPath DEF GoodTree
  <2>3. DOMAIN nodes = 1..Len(nodes) /\ DOMAIN t = 1..Len(t)
    BY <1>5, <1>7, TypesOfTree
  <2> QED
    BY <1>7, <2>1, <2>2, <2>3 DEF SameTree
<1>9. pc' \in [Workers -> {"search", "replace"}]
  BY <1>4, <1>5, ReplaceSubtreeTypes
<1>10. CASE t[leaf].closed /\ ProcessNodeChanges(t)
            /\ path' = [path EXCEPT ![w] = EmptyPath]
            /\ offset' = offset /\ unassigned' = unassigned
            /\ num_restarts' = num_restarts /\ num_syncs' = num_syncs
  <2>1. /\ TreeInv' /\ CountInv' /\ SolvedInv' /\ OpenLeaves' \subseteq OpenLeaves
        /\ nodes' = t /\ splits_wanted' \in 0..config.leaves /\ solved' \in BOOLEAN
    BY <1>4, <1>7, <1>10, TreeChangesInv
  <2>2. \A n \in OpenLeaves' \ {Root} : IsAt(EmptyPath, n) <=> IsAt(path[w], n)
    BY <1>8, <1>10, <2>1, EmptyPathPlaced, OpenLeavesNext DEF IsAt
  <2>3. PathOK(EmptyPath) /\ IsPlaced(t, EmptyPath)
    BY EmptyPathOK, EmptyPathPlaced
  <2>4. num_syncs' \in 0..SyncsOfARestart
    BY <1>5, <1>10
  <2> QED
    BY <1>4, <1>7, <1>9, <1>10, <2>1, <2>2, <2>3, <2>4, PathChangesInv
<1>11. CASE ~ t[leaf].closed /\ num_restarts < config.initial_restarts
            /\ RestartLockHeld(t)
            /\ path' = [path EXCEPT ![w] = EmptyPath] /\ solved' = solved
  <2>1. ~ t[Root].closed
    BY <1>7, <1>8, <1>11, AllIsClosedBelowRoot DEF GoodTree
  <2> QED
    BY <1>4, <1>7, <1>9, <1>11, <2>1, RestartInv
<1>12. CASE ~ t[leaf].closed /\ ProcessNodeChanges(t) /\ num_syncs' = syncs
            /\ path' = [path EXCEPT ![w] = PathTo(t, leaf, offset)]
            /\ offset' = offset /\ unassigned' = unassigned /\ num_restarts' = num_restarts
  <2>1. /\ TreeInv' /\ CountInv' /\ SolvedInv' /\ OpenLeaves' \subseteq OpenLeaves
        /\ nodes' = t /\ splits_wanted' \in 0..config.leaves /\ solved' \in BOOLEAN
    BY <1>4, <1>7, <1>12, TreeChangesInv
  <2>2. PICK p : p = PathTo(t, leaf, offset)
    OBVIOUS
  <2>3. PathOK(p) /\ InTree(t, p) /\ IsValid(p) /\ LastNode(p) = leaf
    BY <1>5, <1>7, <1>8, <2>2, PathToFacts
  <2>4. \A n \in OpenLeaves' \ {Root} : IsAt(p, n) <=> IsAt(path[w], n)
    BY <1>4, <1>8, <2>3 DEF IsAt
  <2>5. num_syncs' \in 0..SyncsOfARestart
    <3>1. SyncsOfARestart \in Int /\ num_syncs \in Nat /\ num_syncs <= SyncsOfARestart
      BY <1>5, SyncsOfARestartIsNat
    <3>2. /\ syncs \in {num_syncs + 1, SyncsOfARestart}
          /\ syncs <= num_syncs + 1 /\ syncs <= SyncsOfARestart
      BY <1>3, <3>1, MinOfTwo
    <3> QED
      BY <1>12, <3>1, <3>2
  <2>6. IsPlaced(t, p) /\ path' = [path EXCEPT ![w] = p]
    BY <1>12, <2>2, <2>3 DEF IsPlaced
  <2> QED
    BY <1>4, <1>7, <1>9, <1>12, <2>1, <2>3, <2>4, <2>5, <2>6, PathChangesInv
<1> QED
  BY <1>4, <1>10, <1>11, <1>12

(* NewSolution(): fewer solutions improve on the best one.                 *)
LEMMA NewSolutionInv ==
  ASSUME Inv, NEW s \in Feasible, NewSolution(s)
  PROVE  Inv'
<1>1. /\ s \in Improving /\ best' = Cost[s] /\ config' = config /\ nodes' = nodes
      /\ offset' = offset /\ unassigned' = unassigned /\ splits_wanted' = splits_wanted
      /\ num_restarts' = num_restarts /\ num_syncs' = num_syncs /\ path' = path
      /\ pc' = pc /\ solved' = solved
  BY DEF NewSolution, treeVars, restartVars
<1>2. /\ TypeOK /\ GoodTree(nodes) /\ config \in Configurations /\ best \in 0..NoSolution
  BY DEF Inv, TreeInv, TypeOK
<1>3. best' \in 0..NoSolution /\ best' \in Int /\ best \in Int /\ best' <= best
  BY <1>1, <1>2, ConfigurationFacts DEF Improving
<1>4. Improving' \subseteq Improving
  BY <1>1, <1>2, <1>3, FewerImproving
<1>5. OpenLeaves' = OpenLeaves
  BY <1>1, OpenLeavesNext DEF OpenLeaves, CanBeAssigned
<1>6. TypeOK'
  <2>1. /\ Len(nodes) \in 1..Max({1, config.max_nodes}) /\ offset \in Nat
        /\ unassigned \subseteq DOMAIN nodes /\ splits_wanted \in 0..config.leaves
        /\ num_restarts \in 0..config.initial_restarts /\ num_syncs \in 0..SyncsOfARestart
        /\ path \in [Workers -> Paths] /\ pc \in [Workers -> {"search", "replace"}]
        /\ solved \in BOOLEAN
    BY <1>2 DEF TypeOK
  <2> QED
    BY <1>1, <1>2, <1>3, <2>1, TypesHold
<1>7. TreeInv'
  BY <1>1, <1>2, <1>4, TreeInvHolds
<1>8. PathInv'
  BY <1>1, <1>4, PathPlaced, PathInvHolds
<1>9. CountInv' /\ SolvedInv'
  BY <1>1, <1>4, <1>5 DEF Inv, CountInv, SolvedInv
<1>10. LeavesInv'
  BY <1>1, <1>5, LeavesInvHolds DEF Inv
<1> QED
  BY <1>6, <1>7, <1>8, <1>9, <1>10 DEF Inv

-----------------------------------------------------------------------------
(* ReplaceTree(): the worker gives its leaf back, and takes one.           *)
LEMMA SharedLeaves ==
  ASSUME LeavesInv, NEW w \in Workers, NEW p, NEW leaves,
         \A n \in OpenLeaves \ {Root} : n \in leaves <=> n \in unassigned \/ IsAt(path[w], n),
         path' = [path EXCEPT ![w] = p], path \in [Workers -> Paths], offset' = offset,
         OpenLeaves' = OpenLeaves,
         \A n \in OpenLeaves \ {Root} : IsAt(p, n) => n \in leaves,
         \A n \in OpenLeaves \ {Root} : n \in unassigned' <=> n \in leaves /\ ~ IsAt(p, n)
  PROVE  LeavesInv'
<1> SUFFICES ASSUME NEW n \in OpenLeaves \ {Root}
             PROVE  IF n \in unassigned' THEN \A v \in Workers : ~ IsAt(path[v], n)'
                    ELSE \E u \in Workers : \A v \in Workers : IsAt(path[v], n)' <=> v = u
  BY DEF LeavesInv
<1>1. \A v \in Workers : path'[v] = IF v = w THEN p ELSE path[v]
  OBVIOUS
<1>2. \A v \in Workers : IsAt(path[v], n)' <=> IF v = w THEN IsAt(p, n) ELSE IsAt(path[v], n)
  BY <1>1, SamePlace
<1>3. IF n \in unassigned THEN \A v \in Workers : ~ IsAt(path[v], n)
      ELSE \E u \in Workers : \A v \in Workers : IsAt(path[v], n) <=> v = u
  BY DEF LeavesInv
<1>4. n \in leaves <=> n \in unassigned \/ IsAt(path[w], n)
  OBVIOUS
<1>5. CASE IsAt(p, n)
  <2>1. n \in leaves /\ n \notin unassigned'
    BY <1>5
  <2>2. \A v \in Workers : v # w => ~ IsAt(path[v], n)
    BY <1>3, <1>4, <2>1
  <2> QED
    BY <1>2, <1>5, <2>1, <2>2
<1>6. CASE ~ IsAt(p, n) /\ IsAt(path[w], n)
  <2>1. n \in unassigned'
    BY <1>4, <1>6
  <2>2. \A v \in Workers : v # w => ~ IsAt(path[v], n)
    BY <1>3, <1>6
  <2> QED
    BY <1>2, <1>6, <2>1, <2>2
<1>7. CASE ~ IsAt(p, n) /\ ~ IsAt(path[w], n)
  <2>1. n \in unassigned' <=> n \in unassigned
    BY <1>4, <1>7
  <2>2. \A v \in Workers : IsAt(path[v], n)' <=> IsAt(path[v], n)
    BY <1>2, <1>7
  <2> QED
    BY <1>3, <2>1, <2>2
<1> QED
  BY <1>5, <1>6, <1>7

(* The leaf that a worker takes, and those left, are shared.               *)
LEMMA ReplaceTreeInv ==
  ASSUME Inv, NEW w \in Workers, ReplaceTree(w)
  PROVE  Inv'
<1> DEFINE given == GivenUp(path[w])
           leaves == {n \in unassigned \cup given : CanBeAssigned(n)}
<1>1. /\ config' = config /\ nodes' = nodes /\ offset' = offset /\ splits_wanted' = splits_wanted
      /\ num_restarts' = num_restarts /\ num_syncs' = num_syncs /\ best' = best /\ solved' = solved
      /\ pc' = [pc EXCEPT ![w] = "search"]
      /\ \/ \E leaf \in leaves : /\ path' = [path EXCEPT ![w] = PathTo(nodes, leaf, offset)]
                                 /\ unassigned' = leaves \ {leaf}
         \/ /\ leaves = {} /\ path' = [path EXCEPT ![w] = EmptyPath] /\ unassigned' = {}
  BY DEF ReplaceTree, SetPath, restartVars, searchVars
<1>2. /\ TypeOK /\ GoodTree(nodes) /\ Improving' = Improving /\ config \in Configurations
      /\ offset \in Nat /\ path \in [Workers -> Paths] /\ unassigned \subseteq DOMAIN nodes
      /\ pc \in [Workers -> {"search", "replace"}]
  BY <1>1, SameImproving DEF Inv, TreeInv, TypeOK
<1>3. PathOK(path[w]) /\ PathShape(path[w]) /\ IsPlaced(nodes, path[w])
  BY PathPlaced DEF PathOK
<1>4. AssignedNode(path[w]) = IF IsValid(path[w]) THEN LastNode(path[w]) ELSE Root
  BY <1>3, AssignedFacts
<1>5. AssignedNode(path[w]) \in DOMAIN nodes
  <2>1. Root \in DOMAIN nodes
    BY <1>2, TreeFacts DEF GoodTree
  <2>2. IsValid(path[w]) => LastNode(path[w]) \in DOMAIN nodes
    BY <1>2, <1>3, AncestorsOnPath DEF GoodTree, IsPlaced, IsStale
  <2> QED
    BY <1>4, <2>1, <2>2
<1>6. OpenLeaves' = OpenLeaves /\ OpenLeaves = {n \in DOMAIN nodes : CanBeAssigned(n)}
  BY <1>1, OpenLeavesNext DEF OpenLeaves, CanBeAssigned
<1>7. \A n \in OpenLeaves \ {Root} : n \in given <=> IsAt(path[w], n)
  BY <1>4, <1>6 DEF GivenUp, IsAt
<1>8. leaves \subseteq OpenLeaves /\ leaves = (unassigned \cup given) \cap OpenLeaves
  BY <1>2, <1>5, <1>6 DEF GivenUp
<1>9. LeavesInv
  BY DEF Inv
<1> HIDE DEF given, leaves
<1>10. PICK p : /\ path' = [path EXCEPT ![w] = p] /\ PathOK(p) /\ InTree(nodes, p) /\ IsValid(p)
                /\ \A n \in OpenLeaves \ {Root} : IsAt(p, n) => n \in leaves
                /\ \A n \in OpenLeaves \ {Root} : n \in unassigned' <=> n \in leaves /\ ~ IsAt(p, n)
                /\ unassigned' \subseteq leaves
  <2>1. ASSUME NEW leaf \in leaves, path' = [path EXCEPT ![w] = PathTo(nodes, leaf, offset)],
               unassigned' = leaves \ {leaf}
        PROVE  \E p : /\ path' = [path EXCEPT ![w] = p] /\ PathOK(p) /\ InTree(nodes, p) /\ IsValid(p)
                      /\ \A n \in OpenLeaves \ {Root} : IsAt(p, n) => n \in leaves
                      /\ \A n \in OpenLeaves \ {Root} : n \in unassigned' <=> n \in leaves /\ ~ IsAt(p, n)
                      /\ unassigned' \subseteq leaves
    <3>1. PICK p : p = PathTo(nodes, leaf, offset)
      OBVIOUS
    <3>2. PathOK(p) /\ InTree(nodes, p) /\ IsValid(p) /\ LastNode(p) = leaf
      BY <1>2, <1>6, <1>8, <3>1, PathToFacts
    <3>3. \A n : IsAt(p, n) <=> n = leaf
      BY <3>2 DEF IsAt
    <3> QED
      BY <2>1, <3>1, <3>2, <3>3
  <2>2. ASSUME leaves = {}, path' = [path EXCEPT ![w] = EmptyPath], unassigned' = {}
        PROVE  \E p : /\ path' = [path EXCEPT ![w] = p] /\ PathOK(p) /\ InTree(nodes, p) /\ IsValid(p)
                      /\ \A n \in OpenLeaves \ {Root} : IsAt(p, n) => n \in leaves
                      /\ \A n \in OpenLeaves \ {Root} : n \in unassigned' <=> n \in leaves /\ ~ IsAt(p, n)
                      /\ unassigned' \subseteq leaves
    <3>1. PathOK(EmptyPath) /\ InTree(nodes, EmptyPath) /\ IsValid(EmptyPath)
      BY EmptyPathOK, EmptyPathPlaced DEF IsPlaced, IsStale
    <3>2. \A n \in OpenLeaves \ {Root} : ~ IsAt(EmptyPath, n)
      BY EmptyPathPlaced DEF IsAt
    <3> QED
      BY <2>2, <3>1, <3>2
  <2> QED
    BY <1>1, <2>1, <2>2
<1>11. LeavesInv'
  <2>1. \A n \in OpenLeaves \ {Root} : n \in leaves <=> n \in unassigned \/ IsAt(path[w], n)
    BY <1>7, <1>8
  <2>2. OpenLeaves' = OpenLeaves
    BY <1>6
  <2> QED
    BY <1>1, <1>2, <1>9, <1>10, <2>1, <2>2, SharedLeaves
<1>12. /\ TreeInv' /\ CountInv' /\ SolvedInv'
       /\ splits_wanted' \in 0..config.leaves /\ solved' \in BOOLEAN
  BY <1>1, SameTreeInv
<1>13. \A v \in Workers : path'[v] = IF v = w THEN p ELSE path[v]
  BY <1>2, <1>10
<1>14. PathInv'
  <2>1. \A v \in Workers : PathOK(path'[v]) /\ IsPlaced(nodes, path'[v])
    BY <1>10, <1>13, PathPlaced DEF IsPlaced
  <2> QED
    BY <1>1, <1>2, <2>1, PathInvHolds
<1>15. TypeOK'
  <2>1. path' \in [Workers -> Paths]
    BY <1>2, <1>10 DEF PathOK, PathShape
  <2>2. unassigned' \subseteq DOMAIN nodes
    BY <1>6, <1>8, <1>10
  <2>3. pc' \in [Workers -> {"search", "replace"}]
    BY <1>1, <1>2
  <2>4. /\ Len(nodes) \in 1..Max({1, config.max_nodes})
        /\ num_restarts \in 0..config.initial_restarts /\ num_syncs \in 0..SyncsOfARestart
        /\ best \in 0..NoSolution
    BY <1>2 DEF TypeOK
  <2> QED
    BY <1>1, <1>2, <1>12, <2>1, <2>2, <2>3, <2>4, TypesHold
<1> QED
  BY <1>11, <1>12, <1>14, <1>15 DEF Inv

-----------------------------------------------------------------------------
(* ProposeSplit(): a leaf gets two children.                               *)
LEMMA Concatenated ==
  ASSUME NEW S, NEW s \in Seq(S), NEW d \in Seq(S)
  PROVE  /\ s \o d \in Seq(S) /\ Len(s \o d) = Len(s) + Len(d)
         /\ \A m \in 1..Len(s) : (s \o d)[m] = s[m]
         /\ \A m \in 1..Len(d) : (s \o d)[Len(s) + m] = d[m]
<1>1. Len(s) \in Nat /\ Len(d) \in Nat
  OBVIOUS
<1>2. s \o d \in Seq(S)
  OBVIOUS
<1>3. Len(s \o d) = Len(s) + Len(d)
  OBVIOUS
<1>4. \A m \in 1..Len(s) : (s \o d)[m] = s[m]
  OBVIOUS
<1>5. \A m \in 1..Len(d) : (s \o d)[Len(s) + m] = d[m]
  OBVIOUS
<1> QED
  BY <1>2, <1>3, <1>4, <1>5

(* Two more elements at the end.                                           *)
LEMMA AppendTwo ==
  ASSUME NEW S, NEW s \in Seq(S), NEW d \in Seq(S), Len(d) = 2
  PROVE  /\ s \o d \in Seq(S) /\ Len(s \o d) = Len(s) + 2
         /\ \A m \in 1..Len(s) : (s \o d)[m] = s[m]
         /\ (s \o d)[Len(s) + 1] = d[1] /\ (s \o d)[Len(s) + 2] = d[2]
<1>1. 1 \in 1..Len(d) /\ 2 \in 1..Len(d)
  OBVIOUS
<1>2. \A m \in 1..Len(d) : (s \o d)[Len(s) + m] = d[m]
  BY Concatenated
<1>3. (s \o d)[Len(s) + 1] = d[1] /\ (s \o d)[Len(s) + 2] = d[2]
  BY <1>1, <1>2, Zenon
<1> QED
  BY <1>3, Concatenated

(* The tree u is t with two new leaves below n, which decide the literal.  *)
IsSplit(t, u, n, literal) ==
  LET first == Len(t) + 1
  IN /\ u \in Seq(Nodes) /\ Len(u) = Len(t) + 2
     /\ \A m \in DOMAIN t :
          /\ u[m].literal = t[m].literal /\ u[m].lb = t[m].lb /\ u[m].parent = t[m].parent
          /\ u[m].children = (IF m = n THEN <<first, first + 1>> ELSE t[m].children)
          /\ u[m].closed = t[m].closed /\ u[m].implied = t[m].implied
          /\ u[m].has_info = t[m].has_info /\ u[m].implications = t[m].implications
     /\ u[first].literal = literal /\ u[first + 1].literal = Negated(literal)
     /\ \A m \in {first, first + 1} :
          /\ u[m].lb = t[n].lb /\ u[m].parent = n /\ u[m].children = <<>>
          /\ ~ u[m].closed /\ ~ u[m].implied /\ u[m].has_info /\ u[m].implications = {}

(* The tree that ProposeSplit() makes is such a tree.                      *)
LEMMA SplitTreeFields ==
  ASSUME config \in Configurations, NEW t, GoodTree(t), NEW n \in DOMAIN t,
         NEW literal \in Literals(config.variables), NEW first, first = Len(t) + 1,
         NEW u, u = [t EXCEPT ![n].children = <<first, first + 1>>]
                      \o <<NewNode(literal, t[n].lb, n), NewNode(Negated(literal), t[n].lb, n)>>
  PROVE  IsSplit(t, u, n, literal)
<1> DEFINE v == [t EXCEPT ![n].children = <<first, first + 1>>]
           new == <<NewNode(literal, t[n].lb, n), NewNode(Negated(literal), t[n].lb, n)>>
<1>1. /\ t \in Seq(Nodes) /\ Len(t) \in Nat /\ Len(t) >= 1 /\ DOMAIN t = 1..Len(t)
      /\ \A m \in DOMAIN t : t[m] \in Nodes
  BY TypesOfTree
<1>2. ASSUME NEW m \in DOMAIN t
      PROVE  /\ v[m] \in Nodes
             /\ v[m].literal = t[m].literal /\ v[m].lb = t[m].lb /\ v[m].parent = t[m].parent
             /\ v[m].children = (IF m = n THEN <<first, first + 1>> ELSE t[m].children)
             /\ v[m].closed = t[m].closed /\ v[m].implied = t[m].implied
             /\ v[m].has_info = t[m].has_info /\ v[m].implications = t[m].implications
  <2>1. CASE m # n
    <3>1. v[m] = t[m]
      BY <1>1, <2>1
    <3> HIDE DEF v
    <3> QED
      BY <1>1, <2>1, <3>1
  <2>2. CASE m = n
    <3>1. PICK c : c = <<first, first + 1>>
      OBVIOUS
    <3>2. c \in Seq(Nat)
      BY <1>1, <3>1
    <3>3. v[m] = [t[m] EXCEPT !.children = c]
      BY <1>1, <2>2, <3>1
    <3>4. t[m] = [literal |-> t[m].literal, lb |-> t[m].lb, parent |-> t[m].parent,
                  children |-> t[m].children, closed |-> t[m].closed, implied |-> t[m].implied,
                  has_info |-> t[m].has_info, implications |-> t[m].implications]
      BY <1>1 DEF Nodes
    <3>5. v[m] = [literal |-> t[m].literal, lb |-> t[m].lb, parent |-> t[m].parent,
                  children |-> c, closed |-> t[m].closed, implied |-> t[m].implied,
                  has_info |-> t[m].has_info, implications |-> t[m].implications]
      BY <3>3, <3>4
    <3>6. t[m] \in Nodes
      BY <1>1
    <3> HIDE DEF v
    <3>7. v[m] \in Nodes
      BY <3>2, <3>5, <3>6 DEF Nodes
    <3> QED
      BY <2>2, <3>1, <3>5, <3>7
  <2> QED
    BY <2>1, <2>2
<1>3. v \in Seq(Nodes) /\ Len(v) = Len(t)
  <2>1. v = [m \in 1..Len(t) |-> v[m]]
    BY <1>1
  <2> HIDE DEF v
  <2> QED
    BY <1>1, <1>2, <2>1, FunctionIsSequence
<1>4. ASSUME NEW lit \in Literals(config.variables), NEW node, node = NewNode(lit, t[n].lb, n)
      PROVE  /\ node \in Nodes /\ node.literal = lit
             /\ node.lb = t[n].lb /\ node.parent = n /\ node.children = <<>>
             /\ ~ node.closed /\ ~ node.implied /\ node.has_info /\ node.implications = {}
  <2>1. t[n].lb \in 0..MaxInteger /\ n \in Nat
    BY <1>1 DEF Nodes
  <2> QED
    BY <1>4, <2>1 DEF NewNode, Nodes
<1>5. Negated(literal) \in Literals(config.variables)
  BY NegatedIsLiteral
<1>6. PICK a, b : a = NewNode(literal, t[n].lb, n) /\ b = NewNode(Negated(literal), t[n].lb, n)
  OBVIOUS
<1>7. /\ a \in Nodes /\ a.literal = literal
      /\ a.lb = t[n].lb /\ a.parent = n /\ a.children = <<>>
      /\ ~ a.closed /\ ~ a.implied /\ a.has_info /\ a.implications = {}
  BY <1>4, <1>6
<1>8. /\ b \in Nodes /\ b.literal = Negated(literal)
      /\ b.lb = t[n].lb /\ b.parent = n /\ b.children = <<>>
      /\ ~ b.closed /\ ~ b.implied /\ b.has_info /\ b.implications = {}
  BY <1>4, <1>5, <1>6
<1>9. u = v \o <<a, b>>
  BY <1>6
<1> HIDE DEF v
<1>10. /\ u \in Seq(Nodes) /\ Len(u) = Len(t) + 2
       /\ \A m \in 1..Len(t) : u[m] = v[m]
       /\ u[Len(t) + 1] = a /\ u[Len(t) + 2] = b
  <2>1. PICK d : d = <<a, b>>
    OBVIOUS
  <2>2. u = v \o d
    BY <1>9, <2>1
  <2>3. a \in Nodes /\ b \in Nodes
    BY <1>7, <1>8
  <2>4. v \in Seq(Nodes) /\ Len(v) = Len(t)
    BY <1>3
  <2>5. /\ u \in Seq(Nodes) /\ Len(u) = Len(v) + 2
        /\ \A m \in 1..Len(v) : u[m] = v[m]
        /\ u[Len(v) + 1] = a /\ u[Len(v) + 2] = b
    <3>1. d \in Seq(Nodes) /\ Len(d) = 2
      BY <2>1, <2>3
    <3>2. d[1] = a /\ d[2] = b
      BY <2>1
    <3>3. v \in Seq(Nodes)
      BY <2>4
    <3>4. /\ v \o d \in Seq(Nodes) /\ Len(v \o d) = Len(v) + 2
          /\ \A m \in 1..Len(v) : (v \o d)[m] = v[m]
          /\ (v \o d)[Len(v) + 1] = d[1] /\ (v \o d)[Len(v) + 2] = d[2]
      BY <3>1, <3>3, AppendTwo
    <3> QED
      BY <2>2, <3>2, <3>4
  <2> QED
    BY <2>4, <2>5
<1>11. u[first] = a /\ u[first + 1] = b
  BY <1>1, <1>10
<1> QED
  BY <1>1, <1>2, <1>7, <1>8, <1>10, <1>11 DEF IsSplit

(* It is good, with the same solutions in the nodes of before.             *)
LEMMA SplitTreeOK ==
  ASSUME config \in Configurations, NEW t, GoodTree(t), NEW n \in DOMAIN t,
         ~ t[n].closed, IsLeaf(t, n), NEW literal \in Literals(config.variables),
         NEW u, IsSplit(t, u, n, literal)
  PROVE  GoodTree(u) /\ Extends(t, u)
<1> DEFINE first == Len(t) + 1
<1>1. /\ u \in Seq(Nodes) /\ Len(u) = Len(t) + 2
      /\ u[first].literal = literal /\ u[first + 1].literal = Negated(literal)
  BY DEF IsSplit
<1>21. \A m \in DOMAIN t : u[m].literal = t[m].literal /\ u[m].parent = t[m].parent
  BY DEF IsSplit
<1>22. \A m \in DOMAIN t : /\ u[m].closed = t[m].closed /\ u[m].implied = t[m].implied
                          /\ u[m].has_info = t[m].has_info
  BY DEF IsSplit
<1>23. \A m \in DOMAIN t : u[m].lb = t[m].lb /\ u[m].implications = t[m].implications
  BY DEF IsSplit
<1>24. \A m \in DOMAIN t : m # n => u[m].children = t[m].children
  BY DEF IsSplit
<1>25. u[n].children = <<first, first + 1>>
  BY DEF IsSplit
<1>26. \A m \in {first, first + 1} :
         /\ u[m].parent = n /\ u[m].children = <<>> /\ u[m].lb = t[n].lb
         /\ ~ u[m].closed /\ ~ u[m].implied /\ u[m].has_info /\ u[m].implications = {}
  BY DEF IsSplit
<1>2. /\ TreeShape(t) /\ ParentsComeFirst(t) /\ Len(t) \in Nat /\ Len(t) >= 1
      /\ DOMAIN t = 1..Len(t) /\ Root = 1 /\ t[Root].parent = 0 /\ ~ t[Root].implied
      /\ \A m \in 2..Len(t) : t[m].parent \in DOMAIN t /\ t[m].parent < m
  BY TreeFacts DEF GoodTree
<1>3. /\ DOMAIN u = DOMAIN t \cup {first, first + 1} /\ DOMAIN u = 1..Len(u)
      /\ first \notin DOMAIN t /\ first + 1 \notin DOMAIN t /\ n < first /\ n \in Nat
      /\ first \in Nat /\ 2..Len(u) = 2..Len(t) \cup {first, first + 1}
  BY <1>1, <1>2
<1>4. ParentsComeFirst(u)
  <2>1. ASSUME NEW m \in 2..Len(u) PROVE u[m].parent \in 1..(m - 1)
    <3>1. CASE m \in 2..Len(t)
      <4>1. m \in DOMAIN t /\ t[m].parent \in 1..(m - 1)
        BY <1>2, <3>1
      <4> QED
        BY <1>21, <4>1
    <3>2. CASE m \in {first, first + 1}
      BY <1>2, <1>3, <1>26, <3>2
    <3> QED
      BY <1>3, <3>1, <3>2
  <2>2. u # <<>> /\ u[Root].parent = 0
    BY <1>1, <1>2, <1>21
  <2> QED
    BY <1>1, <2>1, <2>2 DEF ParentsComeFirst
<1>5. \A m \in DOMAIN t : ChildrenOf(u, m) = ChildrenOf(t, m) \cup {k \in {first, first + 1} : m = n}
  <2>1. \A k \in 2..Len(t) : k \in DOMAIN t
    BY <1>2
  <2>2. \A k \in 2..Len(t) : u[k].parent = t[k].parent
    BY <1>21, <2>1
  <2>3. \A k \in {first, first + 1} : u[k].parent = n
    BY <1>26
  <2> QED
    BY <1>3, <2>2, <2>3 DEF ChildrenOf
<1>6. ChildrenOf(t, n) = {}
  <2>1. t[n].children = <<>>
    BY DEF IsLeaf
  <2>2. \A m : t[n].children # <<m, m + 1>>
    <3> SUFFICES ASSUME NEW m, t[n].children = <<m, m + 1>> PROVE FALSE
      OBVIOUS
    <3>1. Len(<<m, m + 1>>) = 2 /\ Len(<<>>) = 0
      OBVIOUS
    <3> QED
      BY <2>1, <3>1
  <2> QED
    BY <1>2, <2>2 DEF TreeShape
<1>7. \A m \in {first, first + 1} : ChildrenOf(u, m) = {}
  <2>1. ASSUME NEW m \in {first, first + 1}, NEW k \in 2..Len(u) PROVE u[k].parent # m
    <3>1. CASE k \in 2..Len(t)
      <4>1. k \in DOMAIN t /\ t[k].parent \in DOMAIN t
        BY <1>2, <3>1
      <4> QED
        BY <1>3, <1>21, <4>1
    <3>2. CASE k \in {first, first + 1}
      BY <1>3, <1>26, <3>2
    <3> QED
      BY <1>3, <3>1, <3>2
  <2> QED
    BY <2>1 DEF ChildrenOf
<1>8. TreeShape(u)
  <2>1. ASSUME NEW m \in DOMAIN u
        PROVE  \/ u[m].children = <<>> /\ ChildrenOf(u, m) = {}
               \/ \E k \in (m + 1)..(Len(u) - 1) :
                    /\ u[m].children = <<k, k + 1>> /\ ChildrenOf(u, m) = {k, k + 1}
                    /\ u[k].literal \in Literals(config.variables)
                    /\ u[k + 1].literal = Negated(u[k].literal)
    <3>1. CASE m \in {first, first + 1}
      BY <1>7, <1>26, <3>1
    <3>2. CASE m = n
      <4>1. ChildrenOf(u, m) = {first, first + 1}
        BY <1>5, <1>6, <3>2
      <4>2. first \in (m + 1)..(Len(u) - 1)
        BY <1>1, <1>2, <1>3, <3>2
      <4>3. PICK k : k = first
        OBVIOUS
      <4> HIDE DEF first
      <4>4. /\ k \in (m + 1)..(Len(u) - 1)
            /\ u[m].children = <<k, k + 1>> /\ ChildrenOf(u, m) = {k, k + 1}
            /\ u[k].literal \in Literals(config.variables)
            /\ u[k + 1].literal = Negated(u[k].literal)
        BY <1>1, <1>25, <3>2, <4>1, <4>2, <4>3
      <4> QED
        BY <4>4
    <3>3. CASE m \in DOMAIN t /\ m # n
      <4>1. ChildrenOf(u, m) = ChildrenOf(t, m) /\ u[m].children = t[m].children
        BY <1>5, <1>24, <3>3
      <4>2. CASE t[m].children = <<>> /\ ChildrenOf(t, m) = {}
        BY <4>1, <4>2
      <4>3. ASSUME NEW k \in (m + 1)..(Len(t) - 1),
                   t[m].children = <<k, k + 1>>, ChildrenOf(t, m) = {k, k + 1},
                   t[k].literal \in Literals(config.variables),
                   t[k + 1].literal = Negated(t[k].literal)
            PROVE  \E j \in (m + 1)..(Len(u) - 1) :
                    /\ u[m].children = <<j, j + 1>> /\ ChildrenOf(u, m) = {j, j + 1}
                    /\ u[j].literal \in Literals(config.variables)
                    /\ u[j + 1].literal = Negated(u[j].literal)
        <5>1. k \in DOMAIN t /\ k + 1 \in DOMAIN t /\ k \in (m + 1)..(Len(u) - 1)
          BY <1>1, <1>2, <3>3, <4>3
        <5>2. u[k].literal = t[k].literal /\ u[k + 1].literal = t[k + 1].literal
          BY <1>21, <5>1
        <5> QED
          BY <4>1, <4>3, <5>1, <5>2
      <4> QED
        BY <1>2, <3>3, <4>2, <4>3 DEF TreeShape
    <3> QED
      BY <1>3, <3>1, <3>2, <3>3
  <2>2. ~ u[Root].implied
    BY <1>2, <1>22
  <2> QED
    BY <1>4, <2>1, <2>2 DEF TreeShape
<1>9. ClosedBelow(u)
  <2> SUFFICES ASSUME NEW m \in 2..Len(u), u[u[m].parent].closed PROVE u[m].closed
    BY DEF ClosedBelow
  <2>1. CASE m \in 2..Len(t)
    <3>0. m \in DOMAIN t /\ t[m].parent \in DOMAIN t
      BY <1>2, <2>1
    <3>1. /\ u[m].parent = t[m].parent
          /\ u[m].closed = t[m].closed /\ u[t[m].parent].closed = t[t[m].parent].closed
      BY <1>21, <1>22, <3>0
    <3>2. t[t[m].parent].closed => t[m].closed
      BY <2>1 DEF GoodTree, ClosedBelow
    <3> QED
      BY <3>1, <3>2
  <2>2. CASE m \in {first, first + 1}
    <3>1. u[m].parent = n /\ u[n].closed = t[n].closed
      BY <1>22, <1>26, <2>2
    <3> QED
      BY <3>1
  <2> QED
    BY <1>3, <2>1, <2>2
<1>10. InfoIsKept(u)
  <2> SUFFICES ASSUME NEW m \in DOMAIN u
               PROVE  u[m].has_info = (m = Root \/ ~ (u[m].closed \/ u[m].implied))
    BY DEF InfoIsKept
  <2>1. CASE m \in DOMAIN t
    BY <1>22, <2>1 DEF GoodTree, InfoIsKept
  <2>2. CASE m \in {first, first + 1}
    <3>1. u[m] \in Nodes
      BY <1>1, <1>3
    <3>2. u[m].has_info \in BOOLEAN
      BY <3>1 DEF Nodes
    <3> QED
      BY <1>3, <1>26, <2>2, <3>2
  <2> QED
    BY <1>3, <2>1, <2>2
<1>11. Extends(t, u)
  <2>1. \A m \in 2..Len(t) : m \in DOMAIN t
    BY <1>2
  <2> QED
    BY <1>1, <1>2, <1>21, <2>1 DEF Extends
<1>12. \A m \in DOMAIN t : SolutionsIn(u, m) = SolutionsIn(t, m)
  <2>1. Len(t) <= Len(u) /\ \A m \in 2..Len(t) : u[m].parent = t[m].parent /\ u[m].literal = t[m].literal
    BY <1>11 DEF Extends
  <2> QED
    BY <1>2, <1>4, <2>1, SameSolutions
<1>13. TreeSound(u)
  <2> SUFFICES ASSUME NEW m \in DOMAIN u
               PROVE  /\ u[m].closed => SolutionsIn(u, m) = {}
                      /\ u[m].implied => SolutionsIn(u, m) = SolutionsIn(u, u[m].parent)
                      /\ \A s \in SolutionsIn(u, m) :
                           Cost[s] >= u[m].lb /\ Satisfies(s, u[m].implications)
    BY DEF TreeSound
  <2>1. CASE m \in DOMAIN t
    <3>1. m # Root => t[m].parent \in DOMAIN t
      BY <1>2, <2>1
    <3>2. /\ t[m].closed => SolutionsIn(t, m) = {}
          /\ t[m].implied => SolutionsIn(t, m) = SolutionsIn(t, t[m].parent)
          /\ \A s \in SolutionsIn(t, m) : Cost[s] >= t[m].lb /\ Satisfies(s, t[m].implications)
      BY <2>1 DEF GoodTree, TreeSound
    <3>3. SolutionsIn(u, m) = SolutionsIn(t, m)
      BY <1>12, <2>1
    <3>4. t[m].implied => SolutionsIn(u, u[m].parent) = SolutionsIn(t, t[m].parent)
      BY <1>2, <1>12, <1>21, <2>1, <3>1
    <3>5. /\ u[m].closed = t[m].closed /\ u[m].implied = t[m].implied
          /\ u[m].lb = t[m].lb /\ u[m].implications = t[m].implications
      BY <1>22, <1>23, <2>1
    <3> QED
      BY <3>2, <3>3, <3>4, <3>5
  <2>2. CASE m \in {first, first + 1}
    <3>1. m \in 2..Len(u) /\ u[m].parent = n
      BY <1>3, <1>26, <2>2
    <3>2. SolutionsIn(u, m) \subseteq SolutionsIn(t, n)
      <4>1. SolutionsIn(u, m) = {s \in SolutionsIn(u, u[m].parent) : Satisfies(s, {u[m].literal})}
        BY <1>4, <3>1, SolutionsDefined
      <4>2. SolutionsIn(u, n) = SolutionsIn(t, n)
        BY <1>12
      <4> QED
        BY <3>1, <4>1, <4>2
    <3>3. \A s \in SolutionsIn(t, n) : Cost[s] >= t[n].lb
      BY DEF GoodTree, TreeSound
    <3>4. \A s : Satisfies(s, {})
      BY SatisfiesUnion
    <3>5. ~ u[m].closed /\ ~ u[m].implied /\ u[m].lb = t[n].lb /\ u[m].implications = {}
      BY <1>26, <2>2
    <3> QED
      BY <3>2, <3>3, <3>4, <3>5
  <2> QED
    BY <1>3, <2>1, <2>2
<1> QED
  BY <1>8, <1>9, <1>10, <1>11, <1>13 DEF GoodTree

-----------------------------------------------------------------------------
(* Two leaves take the place of one.                                       *)
LEMMA LeavesOfSplit ==
  ASSUME NEW A, IsFiniteSet(A), NEW n \in A, NEW first \in Nat,
         first \notin A, first + 1 \notin A,
         NEW B, \A m : m \in B <=> (m \in A /\ m # n) \/ m = first \/ m = first + 1
  PROVE  Cardinality(B) = Cardinality(A) + 1 /\ Cardinality(A) \in Nat
<1> DEFINE A1 == A \ {n}
           A2 == A1 \cup {first}
<1>1. IsFiniteSet(A1) /\ Cardinality(A1) = Cardinality(A) - 1 /\ Cardinality(A) \in Nat
  BY FS_RemoveElement, FS_CardinalityType
<1>2. first \notin A1 /\ first + 1 \notin A2
  OBVIOUS
<1>3. IsFiniteSet(A2) /\ Cardinality(A2) = Cardinality(A1) + 1
  <2> HIDE DEF A1
  <2> QED
    BY <1>1, <1>2, FS_AddElement
<1>4. Cardinality(A2 \cup {first + 1}) = Cardinality(A2) + 1
  <2> HIDE DEF A2
  <2> QED
    BY <1>2, <1>3, FS_AddElement
<1>5. B = A2 \cup {first + 1}
  OBVIOUS
<1> QED
  BY <1>1, <1>3, <1>4, <1>5

(* ProposeSplit(): the worker goes on in the first child, and the second is*)
(* left for others.                                                        *)
LEMMA ProposeSplitInv ==
  ASSUME Inv, NEW w \in Workers, NEW literal \in config.branches, ProposeSplit(w, literal)
  PROVE  Inv'
<1>1. PICK p, n, first, u, q :
        /\ p = path[w] /\ n = AssignedNode(p) /\ first = Len(nodes) + 1
        /\ u = nodes' /\ q = PushLevel(p, literal, nodes[n].lb, Id(first))
  OBVIOUS
<1>2. /\ IsValid(p) /\ ~ nodes[n].closed /\ IsLeaf(nodes, n)
      /\ Len(nodes) + 2 <= config.max_nodes /\ splits_wanted > 0
      /\ splits_wanted' = splits_wanted - 1 /\ unassigned' = unassigned \cup {first + 1}
      /\ path' = [path EXCEPT ![w] = q]
      /\ config' = config /\ offset' = offset /\ num_restarts' = num_restarts
      /\ num_syncs' = num_syncs /\ pc' = pc /\ best' = best /\ solved' = solved
  BY <1>1 DEF ProposeSplit, SetPath, restartVars, searchVars, HasRoom
<1>3. u = [nodes EXCEPT ![n].children = <<first, first + 1>>]
            \o <<NewNode(literal, nodes[n].lb, n), NewNode(Negated(literal), nodes[n].lb, n)>>
  BY <1>1 DEF ProposeSplit
<1>4. /\ TypeOK /\ GoodTree(nodes) /\ TreeShape(nodes) /\ TreeSound(nodes)
      /\ Improving' = Improving /\ config \in Configurations
      /\ offset \in Nat /\ path \in [Workers -> Paths] /\ unassigned \subseteq DOMAIN nodes
  BY <1>2, SameImproving DEF Inv, TreeInv, TypeOK, GoodTree
<1>5. PathOK(p) /\ PathShape(p) /\ IsPlaced(nodes, p)
  BY <1>1, PathPlaced DEF PathOK
<1>6. InTree(nodes, p) /\ n = LastNode(p)
  BY <1>1, <1>2, <1>5, AssignedFacts DEF IsPlaced, IsStale
<1>7. /\ Len(nodes) \in Nat /\ Len(nodes) >= 1 /\ DOMAIN nodes = 1..Len(nodes)
      /\ \A m \in DOMAIN nodes : nodes[m] \in Nodes
  BY <1>4, TreeFacts
<1>8. n \in DOMAIN nodes /\ Below(p, MaxLevel(p)) \subseteq SolutionsIn(nodes, n)
  BY <1>4, <1>5, <1>6, AncestorsOnPath, SolutionsOnPath
<1>9. literal \in Literals(config.variables)
  BY <1>4, ConfigurationFacts DEF ConfigurationOK
<1>10. IsSplit(nodes, u, n, literal)
  BY <1>1, <1>3, <1>4, <1>8, <1>9, SplitTreeFields
<1>11. GoodTree(u) /\ Extends(nodes, u)
  BY <1>2, <1>4, <1>8, <1>9, <1>10, SplitTreeOK
<1>12. /\ Len(u) = Len(nodes) + 2 /\ first \in 2..Len(u) /\ first \in Nat
       /\ u[first].parent = n /\ u[first].literal = literal
       /\ DOMAIN u = DOMAIN nodes \cup {first, first + 1}
       /\ first \notin DOMAIN nodes /\ first + 1 \notin DOMAIN nodes
  <2>1. Len(u) = Len(nodes) + 2 /\ u \in Seq(Nodes)
    BY <1>10 DEF IsSplit
  <2>2. u[first].parent = n /\ u[first].literal = literal
    BY <1>1, <1>10 DEF IsSplit
  <2>3. DOMAIN u = 1..Len(u)
    BY <2>1
  <2> QED
    BY <1>1, <1>7, <2>1, <2>2, <2>3
<1>13. /\ \A m \in DOMAIN nodes : /\ u[m].closed = nodes[m].closed
                                  /\ IsLeaf(u, m) <=> (IsLeaf(nodes, m) /\ m # n)
       /\ \A m \in {first, first + 1} : ~ u[m].closed /\ IsLeaf(u, m)
  <2>1. \A m \in DOMAIN nodes :
          /\ u[m].closed = nodes[m].closed
          /\ m # n => u[m].children = nodes[m].children
    BY <1>10 DEF IsSplit
  <2>2. u[n].children = <<first, first + 1>>
    BY <1>1, <1>8, <1>10 DEF IsSplit
  <2>3. <<first, first + 1>> # <<>>
    OBVIOUS
  <2>4. \A m \in {first, first + 1} : ~ u[m].closed /\ u[m].children = <<>>
    BY <1>1, <1>10 DEF IsSplit
  <2>5. ~ IsLeaf(u, n)
    BY <2>2, <2>3 DEF IsLeaf
  <2> QED
    BY <2>1, <2>4, <2>5 DEF IsLeaf
<1>14. nodes[n].lb \in 0..MaxInteger /\ Id(first) \in Nat
  <2>1. nodes[n].lb \in 0..MaxInteger
    BY <1>7, <1>8 DEF Nodes
  <2> QED
    BY <1>4, <1>12, <2>1 DEF Id
<1>15. PathOK(q)
  <2>1. \A s \in Below(p, MaxLevel(p)) : Holds(s, literal) => Cost[s] >= nodes[n].lb
    BY <1>4, <1>8 DEF TreeSound
  <2>2. PICK lb, id : lb = nodes[n].lb /\ id = Id(first)
    OBVIOUS
  <2> QED
    BY <1>1, <1>4, <1>5, <1>9, <1>14, <2>1, <2>2, PushLevelOK
<1>16. InTree(u, q) /\ LastNode(q) = first /\ IsValid(q)
  <2>1. PICK e : e = [id |-> Id(first), literal |-> literal]
    OBVIOUS
  <2>2. e \in TrailEntries /\ e.id = Id(first) /\ e.literal = literal
    BY <1>9, <1>14, <2>1 DEF TrailEntries
  <2>3. q.trail = Append(p.trail, e)
    BY <1>1, <2>1 DEF PushLevel
  <2>4. InTree(u, p) /\ Len(u) \in Nat
    BY <1>6, <1>11 DEF InTree, Extends
  <2> QED
    BY <1>4, <1>5, <1>6, <1>12, <2>2, <2>3, <2>4, PathExtended
<1>17. \A v \in Workers : path'[v] = IF v = w THEN q ELSE path[v]
  BY <1>2, <1>4
<1>18. TreeInv'
  BY <1>1, <1>2, <1>4, <1>11, TreeInvHolds
<1>19. PathInv'
  <2>1. \A v \in Workers : PathOK(path'[v]) /\ IsPlaced(nodes', path'[v])
    <3> SUFFICES ASSUME NEW v \in Workers PROVE PathOK(path'[v]) /\ IsPlaced(nodes', path'[v])
      OBVIOUS
    <3>1. CASE v = w
      BY <1>1, <1>15, <1>16, <1>17, <3>1 DEF IsPlaced
    <3>2. CASE v # w
      <4>1. path'[v] = path[v] /\ PathOK(path[v]) /\ IsPlaced(nodes, path[v])
        BY <1>17, <3>2, PathPlaced
      <4> QED
        BY <1>1, <1>11, <4>1, InTreeGrows
    <3> QED
      BY <3>1, <3>2
  <2> QED
    BY <1>2, <1>4, <2>1, PathInvHolds
<1>20. /\ OpenLeaves = {m \in DOMAIN nodes : ~ nodes[m].closed /\ IsLeaf(nodes, m)}
       /\ n \in OpenLeaves
       /\ \A m : m \in OpenLeaves' <=> (m \in OpenLeaves /\ m # n) \/ m = first \/ m = first + 1
  <2>1. OpenLeaves = {m \in DOMAIN nodes : ~ nodes[m].closed /\ IsLeaf(nodes, m)}
    BY DEF OpenLeaves, CanBeAssigned
  <2>2. OpenLeaves' = {m \in DOMAIN u : ~ u[m].closed /\ IsLeaf(u, m)}
    BY <1>1, OpenLeavesNext
  <2> QED
    BY <1>2, <1>8, <1>12, <1>13, <2>1, <2>2
<1>21. CountInv' /\ splits_wanted' \in 0..config.leaves
  <2>1. IsFiniteSet(OpenLeaves)
    BY <1>4, <1>20, OpenLeavesFacts
  <2>2. first \notin OpenLeaves /\ first + 1 \notin OpenLeaves
    BY <1>12, <1>20
  <2>3. Cardinality(OpenLeaves') = Cardinality(OpenLeaves) + 1 /\ Cardinality(OpenLeaves) \in Nat
    <3>1. PICK A, B : A = OpenLeaves /\ B = OpenLeaves'
      OBVIOUS
    <3>2. /\ IsFiniteSet(A) /\ n \in A /\ first \in Nat /\ first \notin A /\ first + 1 \notin A
          /\ \A m : m \in B <=> (m \in A /\ m # n) \/ m = first \/ m = first + 1
      BY <1>12, <1>20, <2>1, <2>2, <3>1
    <3>3. Cardinality(B) = Cardinality(A) + 1 /\ Cardinality(A) \in Nat
      BY <3>2, LeavesOfSplit
    <3> QED
      BY <3>1, <3>3
  <2>4. Cardinality(OpenLeaves) + splits_wanted = config.leaves
    BY DEF Inv, CountInv
  <2>5. splits_wanted \in 0..config.leaves /\ splits_wanted \in Int /\ config.leaves \in Int
    BY <1>4, ConfigurationFacts DEF TypeOK, ConfigurationOK
  <2>6. /\ Cardinality(OpenLeaves') + splits_wanted' = config.leaves
        /\ splits_wanted' \in 0..config.leaves
    BY <1>2, <2>3, <2>4, <2>5
  <2> QED
    BY <1>2, <2>6 DEF CountInv
<1>22. SolvedInv'
  BY <1>2, <1>4 DEF Inv, SolvedInv
<1>23. ASSUME NEW v \in Workers, NEW m \in DOMAIN nodes, m # n
       PROVE  IsAt(path[v], m)' <=> IsAt(path[v], m)
  <2>1. IsAt(path[v], m)' <=> IsAt(path'[v], m)
    BY <1>2, SamePlace
  <2>2. CASE v = w
    BY <1>1, <1>6, <1>12, <1>16, <1>17, <1>23, <2>1, <2>2 DEF IsAt
  <2>3. CASE v # w
    BY <1>17, <2>1, <2>3
  <2> QED
    BY <2>2, <2>3
<1>24. ASSUME NEW v \in Workers, NEW m \in {first, first + 1}
       PROVE  IsAt(path[v], m)' <=> (v = w /\ m = first)
  <2>1. IsAt(path[v], m)' <=> IsAt(path'[v], m)
    BY <1>2, SamePlace
  <2>2. CASE v = w
    BY <1>12, <1>16, <1>17, <2>1, <2>2 DEF IsAt
  <2>3. CASE v # w
    <3>1. PathOK(path[v]) /\ IsPlaced(nodes, path[v]) /\ path'[v] = path[v]
      BY <1>17, <2>3, PathPlaced
    <3>2. IsValid(path[v]) => LastNode(path[v]) \in DOMAIN nodes
      BY <1>4, <3>1, AncestorsOnPath DEF PathOK, IsPlaced, IsStale
    <3> QED
      BY <1>12, <2>1, <2>3, <3>1, <3>2 DEF IsAt
  <2> QED
    BY <2>2, <2>3
<1>25. LeavesInv'
  <2> SUFFICES ASSUME NEW m \in OpenLeaves' \ {Root}
               PROVE  IF m \in unassigned' THEN \A v \in Workers : ~ IsAt(path[v], m)'
                      ELSE \E v \in Workers : \A x \in Workers : IsAt(path[x], m)' <=> x = v
    BY DEF LeavesInv
  <2>1. CASE m = first
    <3>1. m \notin unassigned'
      BY <1>2, <1>4, <1>12, <2>1
    <3>2. \A x \in Workers : IsAt(path[x], m)' <=> x = w
      BY <1>24, <2>1
    <3> QED
      BY <3>1, <3>2
  <2>2. CASE m = first + 1
    <3>1. m \in unassigned' /\ m # first
      BY <1>2, <1>12, <2>2
    <3>2. \A x \in Workers : ~ IsAt(path[x], m)'
      BY <1>24, <2>2, <3>1
    <3> QED
      BY <3>1, <3>2
  <2>3. CASE m \in OpenLeaves /\ m # n
    <3>1. m \in DOMAIN nodes /\ (m \in unassigned' <=> m \in unassigned)
      BY <1>2, <1>12, <1>20, <2>3
    <3>2. \A x \in Workers : IsAt(path[x], m)' <=> IsAt(path[x], m)
      BY <1>23, <2>3, <3>1
    <3>3. IF m \in unassigned THEN \A x \in Workers : ~ IsAt(path[x], m)
          ELSE \E v \in Workers : \A x \in Workers : IsAt(path[x], m) <=> x = v
      BY <2>3 DEF Inv, LeavesInv
    <3> QED
      BY <3>1, <3>2, <3>3
  <2> QED
    BY <1>20, <2>1, <2>2, <2>3
<1>26. TypeOK'
  <2>1. path' \in [Workers -> Paths]
    BY <1>2, <1>4, <1>15 DEF PathOK, PathShape
  <2>2. unassigned' \subseteq DOMAIN nodes'
    BY <1>1, <1>2, <1>4, <1>12
  <2>3. Len(nodes') \in 1..Max({1, config.max_nodes})
    <3>1. config.max_nodes \in Nat
      BY <1>4, ConfigurationFacts DEF ConfigurationOK
    <3>2. PICK k : k = config.max_nodes
      OBVIOUS
    <3>3. Max({1, k}) >= k /\ Max({1, k}) \in {1, k}
      BY <3>1, <3>2, MaxOfTwo
    <3> QED
      BY <1>1, <1>2, <1>7, <1>12, <3>1, <3>2, <3>3
  <2>4. /\ num_restarts \in 0..config.initial_restarts /\ num_syncs \in 0..SyncsOfARestart
        /\ best \in 0..NoSolution /\ pc \in [Workers -> {"search", "replace"}]
        /\ solved \in BOOLEAN
    BY <1>4 DEF TypeOK
  <2> QED
    BY <1>1, <1>2, <1>4, <1>11, <1>21, <2>1, <2>2, <2>3, <2>4, TypesHold
<1> QED
  BY <1>18, <1>19, <1>21, <1>22, <1>25, <1>26 DEF Inv

-----------------------------------------------------------------------------
(* The first tree is its root.                                             *)
LEMMA FirstTree ==
  ASSUME config \in Configurations, best = NoSolution,
         NEW t, t = <<NewNode(NoLiteral, 0, 0)>>
  PROVE  /\ GoodTree(t) /\ Len(t) = 1 /\ DOMAIN t = {Root}
         /\ ~ t[Root].closed /\ IsLeaf(t, Root)
<1>1. MaxInteger \in Nat /\ \A s \in Feasible : Cost[s] \in Nat
  BY ConfigurationFacts
<1>2. PICK r : r = NewNode(NoLiteral, 0, 0)
  OBVIOUS
<1>3. /\ r \in Nodes /\ r.lb = 0 /\ r.parent = 0 /\ r.children = <<>>
      /\ ~ r.closed /\ ~ r.implied /\ r.has_info = TRUE /\ r.implications = {}
  BY <1>1, <1>2 DEF NewNode, Nodes
<1>4. t \in Seq(Nodes) /\ Len(t) = 1 /\ DOMAIN t = {Root} /\ t[Root] = r
  BY <1>2, <1>3 DEF Root
<1>5. 2..Len(t) = {} /\ t # <<>>
  BY <1>4
<1>6. ParentsComeFirst(t)
  BY <1>3, <1>4, <1>5 DEF ParentsComeFirst
<1>7. TreeShape(t)
  <2>1. ChildrenOf(t, Root) = {}
    BY <1>5 DEF ChildrenOf
  <2> QED
    BY <1>3, <1>4, <1>6, <2>1 DEF TreeShape
<1>8. ClosedBelow(t)
  BY <1>5 DEF ClosedBelow
<1>9. InfoIsKept(t)
  BY <1>3, <1>4 DEF InfoIsKept
<1>10. TreeSound(t)
  <2>1. SolutionsIn(t, Root) \subseteq Feasible
    BY DEF SolutionsIn, Improving
  <2>2. \A s : Satisfies(s, r.implications)
    BY <1>3 DEF Satisfies
  <2>3. \A s \in SolutionsIn(t, Root) : Cost[s] >= t[Root].lb /\ Satisfies(s, t[Root].implications)
    <3> SUFFICES ASSUME NEW s \in SolutionsIn(t, Root)
                 PROVE  Cost[s] >= t[Root].lb /\ Satisfies(s, t[Root].implications)
      OBVIOUS
    <3>1. Cost[s] >= r.lb
      BY <1>1, <1>3, <2>1
    <3>2. Satisfies(s, r.implications)
      BY <2>2
    <3> QED
      BY <1>4, <3>1, <3>2
  <2>4. ~ t[Root].closed /\ ~ t[Root].implied
    BY <1>3, <1>4
  <2> QED
    BY <1>4, <2>3, <2>4 DEF TreeSound
<1> QED
  BY <1>3, <1>4, <1>7, <1>8, <1>9, <1>10 DEF GoodTree, IsLeaf

(* The invariant holds at first.                                           *)
LEMMA InitInv ==
  ASSUME Init
  PROVE  Inv
<1>1. /\ config \in Configurations /\ nodes = <<NewNode(NoLiteral, 0, 0)>>
      /\ offset = 0 /\ unassigned = {Root} /\ splits_wanted = config.leaves - 1
      /\ num_restarts = 0 /\ num_syncs = 0
      /\ path = [w \in Workers |-> EmptyPath] /\ pc = [w \in Workers |-> "search"]
      /\ best = NoSolution /\ solved = FALSE
  BY DEF Init
<1>2. /\ GoodTree(nodes) /\ Len(nodes) = 1 /\ DOMAIN nodes = {Root}
      /\ ~ nodes[Root].closed /\ IsLeaf(nodes, Root)
  BY <1>1, FirstTree
<1>3. /\ config.leaves \in Nat \ {0} /\ config.initial_restarts \in Nat /\ config.max_nodes \in Nat
      /\ SyncsOfARestart \in Nat /\ NoSolution \in Nat
  BY <1>1, ConfigurationFacts, SyncsOfARestartIsNat DEF ConfigurationOK
<1>4. \A w \in Workers : /\ path[w] = EmptyPath /\ PathOK(path[w]) /\ IsPlaced(nodes, path[w])
  BY <1>1, EmptyPathOK, EmptyPathPlaced
<1>5. TypeOK
  <2>1. path \in [Workers -> Paths]
    BY <1>1, EmptyPathOK DEF PathOK, PathShape
  <2>2. Len(nodes) \in 1..Max({1, config.max_nodes})
    <3>1. PICK k : k = config.max_nodes
      OBVIOUS
    <3>2. Max({1, k}) >= 1 /\ Max({1, k}) \in {1, k}
      BY <1>3, <3>1, MaxOfTwo
    <3> QED
      BY <1>2, <1>3, <3>1, <3>2
  <2>3. /\ nodes \in Seq(Nodes)
        /\ \A n \in DOMAIN nodes :
             /\ nodes[n].parent \in 0..(n - 1)
             /\ nodes[n].children \in {<<>>} \cup {<<m, m + 1>> : m \in (n + 1)..(Len(nodes) - 1)}
             /\ nodes[n].has_info = (n = Root \/ ~ (nodes[n].closed \/ nodes[n].implied))
    BY <1>2, TypesOfTree
  <2>4. offset \in Nat /\ unassigned \subseteq DOMAIN nodes
    BY <1>1, <1>2
  <2>5. /\ splits_wanted \in 0..config.leaves
        /\ num_restarts \in 0..config.initial_restarts /\ num_syncs \in 0..SyncsOfARestart
        /\ best \in 0..NoSolution /\ solved \in BOOLEAN
    <3>1. splits_wanted \in 0..config.leaves /\ num_restarts \in 0..config.initial_restarts
      BY <1>1, <1>3
    <3>2. \A k \in Nat : k \in 0..k /\ 0 \in 0..k
      OBVIOUS
    <3> QED
      BY <1>1, <1>3, <3>1, <3>2
  <2>6. pc \in [Workers -> {"search", "replace"}]
    BY <1>1
  <2> QED
    BY <1>1, <2>1, <2>2, <2>3, <2>4, <2>5, <2>6 DEF TypeOK
<1>6. TreeInv /\ PathInv /\ SolvedInv
  BY <1>1, <1>2, <1>4 DEF TreeInv, PathInv, IsPlaced, SolvedInv
<1>7. OpenLeaves = {Root}
  BY <1>2 DEF OpenLeaves, CanBeAssigned
<1>8. LeavesInv
  BY <1>7 DEF LeavesInv
<1>9. CountInv
  <2>1. PICK A : A = {Root}
    OBVIOUS
  <2>2. Cardinality(OpenLeaves) = 1
    BY <1>7, FS_Singleton
  <2> QED
    BY <1>1, <1>3, <2>2 DEF CountInv
<1> QED
  BY <1>5, <1>6, <1>8, <1>9 DEF Inv

(* Every step preserves the inductive invariant.                           *)
LEMMA UnchangedInv ==
  ASSUME Inv, UNCHANGED vars
  PROVE  Inv'
<1>1. /\ config' = config /\ nodes' = nodes /\ offset' = offset /\ unassigned' = unassigned
      /\ splits_wanted' = splits_wanted /\ num_restarts' = num_restarts
      /\ num_syncs' = num_syncs /\ path' = path /\ pc' = pc /\ best' = best /\ solved' = solved
  BY DEF vars, treeVars, restartVars, searchVars
<1>2. /\ TypeOK /\ GoodTree(nodes) /\ Improving' = Improving
      /\ TreeInv' /\ CountInv' /\ SolvedInv' /\ OpenLeaves' = OpenLeaves
  BY <1>1, SameTreeInv, SameImproving DEF Inv
<1>3. TypeOK'
  <2>1. /\ Len(nodes) \in 1..Max({1, config.max_nodes}) /\ offset \in Nat
        /\ unassigned \subseteq DOMAIN nodes /\ splits_wanted \in 0..config.leaves
        /\ num_restarts \in 0..config.initial_restarts /\ num_syncs \in 0..SyncsOfARestart
        /\ path \in [Workers -> Paths] /\ pc \in [Workers -> {"search", "replace"}]
        /\ best \in 0..NoSolution /\ solved \in BOOLEAN
    BY <1>2 DEF TypeOK
  <2> QED
    BY <1>1, <1>2, <2>1, TypesHold
<1>4. PathInv'
  <2>1. \A v \in Workers : PathOK(path'[v]) /\ IsPlaced(nodes', path'[v])
    BY <1>1, PathPlaced
  <2> QED
    BY <1>1, <1>2, <2>1, PathInvHolds
<1>5. LeavesInv'
  BY <1>1, <1>2, LeavesInvHolds DEF Inv
<1> QED
  BY <1>2, <1>3, <1>4, <1>5 DEF Inv

(* Each action preserves it.                                               *)
LEMMA NextInv ==
  ASSUME Inv, [Next]_vars
  PROVE  Inv'
<1>1. ASSUME NEW w \in Workers, SyncInvalid(w) PROVE Inv'
  BY <1>1, SyncInvalidInv
<1>2. ASSUME NEW w \in Workers, SyncTree(w) PROVE Inv'
  BY <1>2, SyncTreeInv
<1>3. ASSUME NEW w \in Workers, ReplaceTree(w) PROVE Inv'
  BY <1>3, ReplaceTreeInv
<1>4. ASSUME NEW w \in Workers, NEW literal \in config.branches, ProposeSplit(w, literal)
      PROVE  Inv'
  BY <1>4, ProposeSplitInv
<1>5. ASSUME NEW w \in Workers, NEW l \in 1..MaxLevel(path[w]), CloseTree(w, l) PROVE Inv'
  BY <1>5, CloseTreeInv
<1>6. ASSUME NEW w \in Workers, NEW l \in 1..MaxLevel(path[w]), LevelIsImplied(w, l) PROVE Inv'
  BY <1>6, LevelIsImpliedInv
<1>7. ASSUME NEW w \in Workers, NEW l \in 1..MaxLevel(path[w]), NEW literal \in config.shared,
             ShareImplication(w, l, literal)
      PROVE  Inv'
  BY <1>7, ShareImplicationInv
<1>8. ASSUME NEW w \in Workers, NEW l \in 1..MaxLevel(path[w]), NEW lb \in config.bounds,
             RaiseObjectiveLb(w, l, lb)
      PROVE  Inv'
  BY <1>8, RaiseObjectiveLbInv
<1>9. ASSUME NEW s \in Feasible, NewSolution(s) PROVE Inv'
  BY <1>9, NewSolutionInv
<1>10. CASE UNCHANGED vars
  BY <1>10, UnchangedInv
<1> QED
  BY <1>1, <1>2, <1>3, <1>4, <1>5, <1>6, <1>7, <1>8, <1>9, <1>10 DEF Next

-----------------------------------------------------------------------------
(* The theorems.  The invariant holds in every state of every configuration*)
(* that the assumption allows, for any finite set of workers.              *)
THEOREM InvHolds == Spec => []Inv
<1>1. Init => Inv
  BY InitInv
<1>2. Inv /\ [Next]_vars => Inv'
  BY NextInv
<1> QED
  BY <1>1, <1>2, PTL DEF Spec

(* Types: nodes follow their parent and only open nodes that are not       *)
(* implied keep trail info, as ProcessNodeChanges() says.                  *)
THEOREM TypesHoldAlways == Spec => []TypeOK
<1>1. Inv => TypeOK
  BY DEF Inv
<1> QED
  BY <1>1, InvHolds, PTL

(* Closing, implying and bounding the nodes of the shared tree loses no    *)
(* solution that improves on the best one, whatever the workers report.    *)
THEOREM SolutionsAreKept == Spec => []NoSolutionIsLost
<1>1. Inv => NoSolutionIsLost
  BY DEF Inv, SolvedInv, TreeInv, GoodTree, TreeSound, NoSolutionIsLost, SolutionsIn, SolutionsAt
<1> QED
  BY <1>1, InvHolds, PTL

(* What a worker knows of a level of its path follows from the decisions up*)
(* to that level, across synchronisations, restarts and new solutions.     *)
THEOREM PathsStaySound == Spec => []PathsAreSound
<1>1. Inv => PathsAreSound
  BY DEF Inv, PathInv, PathOK, PathSound, PathsAreSound
<1> QED
  BY <1>1, InvHolds, PTL

(* GetAssignedNodes() finds a node below the one before for each entry of a*)
(* path that no restart made invalid.                                      *)
THEOREM PathsStayInTheTree == Spec => []PathsFollowTheTree
<1>1. ASSUME Inv PROVE PathsFollowTheTree
  <2> SUFFICES ASSUME NEW w \in Workers, IsValid(path[w]), NEW i \in DOMAIN path[w].trail
               PROVE  /\ AssignedNodes(path[w])[i + 1] \in DOMAIN nodes
                      /\ nodes[AssignedNodes(path[w])[i + 1]].parent = AssignedNodes(path[w])[i]
                      /\ nodes[AssignedNodes(path[w])[i + 1]].literal = path[w].trail[i].literal
    BY DEF PathsFollowTheTree
  <2>1. PICK p : p = path[w]
    OBVIOUS
  <2>2. PathShape(p) /\ InTree(nodes, p) /\ TreeShape(nodes)
    BY <1>1, <2>1, PathPlaced DEF PathOK, IsPlaced, IsStale, Inv, TreeInv, GoodTree
  <2>3. Len(p.trail) \in Nat /\ DOMAIN p.trail = 1..Len(p.trail) /\ i \in 1..Len(p.trail)
    BY <2>1, <2>2, PathFacts
  <2> DEFINE at == [k \in DOMAIN p.trail |-> Index(p.trail[k].id)]
  <2>4. at \in Seq({at[k] : k \in 1..Len(p.trail)}) /\ Len(at) = Len(p.trail)
    BY <2>3, FunctionIsSequence
  <2>5. AssignedNodes(p) = <<Root>> \o at
    BY <2>1 DEF AssignedNodes
  <2>6. \A k \in 1..Len(p.trail) : at[k] = NodeAt(p, k)
    BY <2>3 DEF NodeAt
  <2> HIDE DEF at
  <2>7. \A k \in 1..(Len(p.trail) + 1) : AssignedNodes(p)[k] = IF k = 1 THEN Root ELSE at[k - 1]
    BY <2>4, <2>5, AfterFirst
  <2>8. AssignedNodes(p)[i + 1] = NodeAt(p, i)
    BY <2>3, <2>6, <2>7
  <2>9. AssignedNodes(p)[i] = IF i = 1 THEN Root ELSE NodeAt(p, i - 1)
    BY <2>3, <2>6, <2>7
  <2>10. /\ NodeAt(p, i) \in DOMAIN nodes
         /\ nodes[NodeAt(p, i)].parent = (IF i = 1 THEN Root ELSE NodeAt(p, i - 1))
         /\ nodes[NodeAt(p, i)].literal = p.trail[i].literal
    BY <2>2, <2>3, AncestorsOnPath
  <2> QED
    BY <2>1, <2>8, <2>9, <2>10
<1> QED
  BY <1>1, InvHolds, PTL

(* Two workers never explore the same leaf, and no leaf is forgotten.      *)
THEOREM LeavesStayShared == Spec => []LeavesAreShared
<1>1. ASSUME Inv PROVE LeavesAreShared
  <2> SUFFICES ASSUME NEW n \in OpenLeaves \ {Root}
               PROVE  Cardinality({w \in Workers : IsValid(path[w]) /\ AssignedNode(path[w]) = n})
                        = IF n \in unassigned THEN 0 ELSE 1
    BY DEF LeavesAreShared
  <2> DEFINE W == {w \in Workers : IsValid(path[w]) /\ AssignedNode(path[w]) = n}
  <2>1. \A w \in Workers : w \in W <=> IsAt(path[w], n)
    <3>1. \A w \in Workers : PathShape(path[w])
      BY <1>1, PathPlaced DEF PathOK
    <3> QED
      BY <3>1, AssignedFacts DEF IsAt
  <2>2. IF n \in unassigned THEN \A w \in Workers : ~ IsAt(path[w], n)
        ELSE \E w \in Workers : \A v \in Workers : IsAt(path[v], n) <=> v = w
    BY <1>1 DEF Inv, LeavesInv
  <2>3. W \subseteq Workers
    OBVIOUS
  <2> HIDE DEF W
  <2>4. CASE n \in unassigned
    <3>1. W = {}
      BY <2>1, <2>2, <2>3, <2>4
    <3>2. Cardinality(W) = 0
      BY <3>1, FS_EmptySet
    <3> QED
      BY <2>4, <3>2 DEF W
  <2>5. CASE n \notin unassigned
    <3>1. PICK w \in Workers : \A v \in Workers : IsAt(path[v], n) <=> v = w
      BY <2>2, <2>5
    <3>2. W = {w}
      BY <2>1, <2>3, <3>1
    <3>3. Cardinality(W) = 1
      BY <3>2, FS_Singleton
    <3> QED
      BY <2>5, <3>3 DEF W
  <2> QED
    BY <2>4, <2>5
<1> QED
  BY <1>1, InvHolds, PTL

(* The open leaves and the wanted splits add up to the number of leaves    *)
(* that the parameters ask for.                                            *)
THEOREM SplitsStayCounted == Spec => []SplitsAreCounted
<1>1. Inv => SplitsAreCounted
  BY DEF Inv, CountInv, SplitsAreCounted
<1> QED
  BY <1>1, InvHolds, PTL

-----------------------------------------------------------------------------
(* What keeps the tree fair: below an open node, the nodes that are implied*)
(* are those whose sibling is closed; a closed node has the greatest bound;*)
(* and an open node that is split has an open child whose bound it has.    *)
SiblingsAreImplied(t) ==
  \A m \in 2..Len(t) : ~ t[t[m].parent].closed => (t[m].implied <=> t[Sibling(t, m)].closed)
ClosedAtMaximum(t) == \A n \in DOMAIN t : t[n].closed => t[n].lb = MaxInteger
Leads(t, n) == \E m \in ChildrenOf(t, n) : ~ t[m].closed /\ t[m].lb <= t[n].lb
LeadsExcept(t, X) == \A n \in DOMAIN t \ X : ~ t[n].closed /\ ~ IsLeaf(t, n) => Leads(t, n)
FairExcept(t, X) == SiblingsAreImplied(t) /\ ClosedAtMaximum(t) /\ LeadsExcept(t, X)
FairTree(t) == FairExcept(t, {})

(* A node that is split has two children, in the tree and after a change.  *)
LEMMA SplitNodeFacts ==
  ASSUME NEW t, TreeShape(t), NEW n \in DOMAIN t, ~ IsLeaf(t, n)
  PROVE  \E m \in (n + 1)..(Len(t) - 1) :
           /\ t[n].children = <<m, m + 1>> /\ ChildrenOf(t, n) = {m, m + 1}
           /\ m \in 2..Len(t) /\ m + 1 \in 2..Len(t)
           /\ t[m].parent = n /\ t[m + 1].parent = n
           /\ Sibling(t, m) = m + 1 /\ Sibling(t, m + 1) = m
<1>1. PICK m \in (n + 1)..(Len(t) - 1) :
        t[n].children = <<m, m + 1>> /\ ChildrenOf(t, n) = {m, m + 1}
  BY DEF TreeShape, IsLeaf
<1>2. /\ m \in 2..Len(t) /\ m + 1 \in 2..Len(t)
      /\ t[m].parent = n /\ t[m + 1].parent = n
  BY <1>1 DEF ChildrenOf
<1>3. <<m, m + 1>>[1] = m /\ <<m, m + 1>>[2] = m + 1 /\ m # m + 1
  BY <1>2
<1>4. Sibling(t, m) = m + 1 /\ Sibling(t, m + 1) = m
  BY <1>1, <1>2, <1>3 DEF Sibling
<1> QED
  BY <1>1, <1>2, <1>4

(* What two trees with the same nodes in the same places share.            *)
LEMMA SamePlaces ==
  ASSUME NEW t, NEW u, TreeShape(t), SameTree(t, u)
  PROVE  /\ DOMAIN t = 1..Len(t) /\ DOMAIN u = DOMAIN t /\ Len(u) = Len(t)
         /\ \A n \in DOMAIN t : ChildrenOf(u, n) = ChildrenOf(t, n) /\ (IsLeaf(u, n) <=> IsLeaf(t, n))
         /\ \A n \in 2..Len(t) :
              /\ n \in DOMAIN t /\ t[n].parent \in DOMAIN t /\ u[n].parent = t[n].parent
              /\ Sibling(u, n) = Sibling(t, n) /\ Sibling(t, n) \in DOMAIN t
<1>1. Len(t) \in Nat /\ DOMAIN t = 1..Len(t) /\ \A n \in 2..Len(t) : t[n].parent \in DOMAIN t
  BY TreeFacts
<1>2. u \in Seq(Nodes) /\ Len(u) = Len(t)
  BY DEF SameTree
<1>3. DOMAIN u = DOMAIN t
  BY <1>1, <1>2
<1>4. \A n \in DOMAIN t : ChildrenOf(u, n) = ChildrenOf(t, n) /\ (IsLeaf(u, n) <=> IsLeaf(t, n))
  BY <1>1, <1>2 DEF SameTree, ChildrenOf, IsLeaf
<1>5. ASSUME NEW n \in 2..Len(t)
      PROVE  /\ n \in DOMAIN t /\ t[n].parent \in DOMAIN t /\ u[n].parent = t[n].parent
             /\ Sibling(u, n) = Sibling(t, n) /\ Sibling(t, n) \in DOMAIN t
  <2>1. n \in DOMAIN t /\ t[n].parent \in DOMAIN t
    BY <1>1
  <2>2. u[n].parent = t[n].parent /\ u[t[n].parent].children = t[t[n].parent].children
    BY <2>1 DEF SameTree
  <2>3. Sibling(u, n) = Sibling(t, n)
    BY <2>2 DEF Sibling
  <2>4. Sibling(t, n) \in DOMAIN t
    BY <1>1, SiblingFacts
  <2> QED
    BY <2>1, <2>2, <2>3, <2>4
<1> QED
  BY <1>1, <1>2, <1>3, <1>4, <1>5

(* An open node that is split keeps an open child: two closed children     *)
(* would have closed it.                                                   *)
HasOpenChild(t, n) == \E m \in ChildrenOf(t, n) : ~ t[m].closed

(* What stays open when nodes are closed still has an open child.          *)
LEMMA OpenChildRemains ==
  ASSUME NEW t, NEW u, TreeShape(t), SameTree(t, u), NEW to_close,
         \A n \in DOMAIN t : u[n].closed <=> IsClosedWith(t, to_close, n),
         NEW n \in DOMAIN t, ~ u[n].closed, ~ IsLeaf(t, n)
  PROVE  HasOpenChild(u, n)
<1>1. PICK m \in (n + 1)..(Len(t) - 1) : t[n].children = <<m, m + 1>> /\ ChildrenOf(t, n) = {m, m + 1}
  BY SplitNodeFacts
<1>2. m \in DOMAIN t /\ m + 1 \in DOMAIN t /\ ChildrenOf(u, n) = {m, m + 1}
  BY <1>1, SamePlaces
<1>3. ~ \A i \in 1..2 : IsClosedWith(t, to_close, t[n].children[i])
  BY ClosedWithDefined
<1>4. ~ IsClosedWith(t, to_close, m) \/ ~ IsClosedWith(t, to_close, m + 1)
  <2>1. t[n].children[1] = m /\ t[n].children[2] = m + 1 /\ \A i \in 1..2 : i = 1 \/ i = 2
    BY <1>1
  <2> QED
    BY <1>3, <2>1
<1> QED
  BY <1>2, <1>4 DEF HasOpenChild

(* Closing nodes leaves a tree that leads, but for the parents of those.   *)
LEMMA CloseNodesFair ==
  ASSUME config \in Configurations, NEW t, GoodTree(t),
         NEW to_close, \A n \in DOMAIN t : n \in to_close => SolutionsIn(t, n) = {},
         NEW newly, newly = ClosedWith(t, to_close),
         NEW u, u = CloseNodes(t, newly), NEW X, FairExcept(t, X)
  PROVE  FairExcept(u, X \cup {t[n].parent : n \in newly})
<1> DEFINE Y == X \cup {t[n].parent : n \in newly}
<1>1. TreeShape(t) /\ Root = 1
  BY TreeFacts DEF GoodTree
<1>2. /\ SameTree(t, u)
      /\ \A n \in DOMAIN t :
           /\ u[n].closed <=> IsClosedWith(t, to_close, n)
           /\ u[n].implied <=> t[n].implied \/ (n # Root /\ Sibling(t, n) \in newly)
           /\ u[n].lb = IF n \in newly THEN MaxInteger ELSE t[n].lb
  BY CloseNodesFacts
<1>3. \A n \in DOMAIN t : u[n].closed <=> t[n].closed \/ n \in newly
  BY <1>2 DEF IsClosedWith
<1>4. /\ DOMAIN u = DOMAIN t /\ Len(u) = Len(t)
      /\ \A n \in DOMAIN t : ChildrenOf(u, n) = ChildrenOf(t, n) /\ (IsLeaf(u, n) <=> IsLeaf(t, n))
      /\ \A n \in 2..Len(t) :
           /\ n \in DOMAIN t /\ t[n].parent \in DOMAIN t /\ u[n].parent = t[n].parent
           /\ Sibling(u, n) = Sibling(t, n) /\ Sibling(t, n) \in DOMAIN t
  BY <1>1, <1>2, SamePlaces
<1>5. SiblingsAreImplied(u)
  <2> SUFFICES ASSUME NEW m \in 2..Len(t), ~ u[t[m].parent].closed
               PROVE  u[m].implied <=> u[Sibling(t, m)].closed
    BY <1>4 DEF SiblingsAreImplied
  <2>1. ~ t[t[m].parent].closed
    BY <1>3, <1>4
  <2>2. t[m].implied <=> t[Sibling(t, m)].closed
    BY <2>1 DEF FairExcept, SiblingsAreImplied
  <2>3. u[m].implied <=> t[m].implied \/ Sibling(t, m) \in newly
    BY <1>1, <1>2, <1>4
  <2>4. u[Sibling(t, m)].closed <=> t[Sibling(t, m)].closed \/ Sibling(t, m) \in newly
    BY <1>3, <1>4
  <2> QED
    BY <2>2, <2>3, <2>4
<1>6. ClosedAtMaximum(u)
  BY <1>2, <1>3, <1>4 DEF FairExcept, ClosedAtMaximum
<1>7. LeadsExcept(u, Y)
  <2> SUFFICES ASSUME NEW n \in DOMAIN t, n \notin Y, ~ u[n].closed, ~ IsLeaf(t, n)
               PROVE  Leads(u, n)
    BY <1>4 DEF LeadsExcept
  <2>1. PICK m \in ChildrenOf(t, n) : ~ t[m].closed /\ t[m].lb <= t[n].lb
    BY <1>3 DEF FairExcept, LeadsExcept, Leads
  <2>2. m \in DOMAIN t /\ t[m].parent = n
    BY <1>4 DEF ChildrenOf
  <2>3. n \notin newly /\ m \notin newly
    BY <1>3, <2>2
  <2>4. ~ u[m].closed /\ u[m].lb = t[m].lb /\ u[n].lb = t[n].lb
    BY <1>2, <1>3, <2>1, <2>2, <2>3
  <2> QED
    BY <1>4, <2>1, <2>4 DEF Leads
<1> QED
  BY <1>5, <1>6, <1>7 DEF FairExcept

(* Bounds that are updated let every node lead.                            *)
LEMMA UpdateBoundsFair ==
  ASSUME config \in Configurations, NEW t, GoodTree(t), NEW to_update,
         NEW u, u = UpdateBounds(t, to_update), FairExcept(t, to_update),
         \A n \in DOMAIN t : ~ t[n].closed /\ ~ IsLeaf(t, n) => HasOpenChild(t, n)
  PROVE  FairTree(u)
<1>1. TreeShape(t) /\ \A n \in DOMAIN t : t[n] \in Nodes
  BY TreeFacts DEF GoodTree
<1>2. /\ SameTree(t, u)
      /\ \A n \in DOMAIN t :
           /\ u[n].closed = t[n].closed /\ u[n].implied = t[n].implied
           /\ u[n].lb \in 0..MaxInteger /\ u[n].lb >= t[n].lb
           /\ ~ t[n].closed /\ ~ IsLeaf(t, n) => HasChildBound(t, u, to_update, n)
  BY UpdateBoundsFacts
<1>3. /\ DOMAIN u = DOMAIN t /\ Len(u) = Len(t)
      /\ \A n \in DOMAIN t : ChildrenOf(u, n) = ChildrenOf(t, n) /\ (IsLeaf(u, n) <=> IsLeaf(t, n))
      /\ \A n \in 2..Len(t) :
           /\ n \in DOMAIN t /\ t[n].parent \in DOMAIN t /\ u[n].parent = t[n].parent
           /\ Sibling(u, n) = Sibling(t, n) /\ Sibling(t, n) \in DOMAIN t
  BY <1>1, <1>2, SamePlaces
<1>4. MaxInteger \in Nat /\ \A n \in DOMAIN t : t[n].lb \in 0..MaxInteger
  BY <1>1, ConfigurationFacts DEF Nodes
<1>5. SiblingsAreImplied(u)
  BY <1>2, <1>3 DEF FairExcept, SiblingsAreImplied
<1>6. ClosedAtMaximum(u)
  <2> SUFFICES ASSUME NEW n \in DOMAIN t, t[n].closed PROVE u[n].lb = MaxInteger
    BY <1>2, <1>3 DEF ClosedAtMaximum
  <2>1. t[n].lb = MaxInteger
    BY DEF FairExcept, ClosedAtMaximum
  <2> QED
    BY <1>2, <1>4, <2>1
<1>7. LeadsExcept(u, {})
  <2> SUFFICES ASSUME NEW n \in DOMAIN t, ~ t[n].closed, ~ IsLeaf(t, n) PROVE Leads(u, n)
    BY <1>2, <1>3 DEF LeadsExcept
  <2>1. ASSUME NEW m \in ChildrenOf(t, n) PROVE m \in DOMAIN t /\ u[m].lb \in 0..MaxInteger
    BY <1>2, <1>3 DEF ChildrenOf
  <2>2. CASE \E m \in ChildrenOf(t, n) : u[m].lb <= u[n].lb
    <3>1. PICK m \in ChildrenOf(t, n) : u[m].lb <= u[n].lb
      BY <2>2
    <3>2. CASE ~ t[m].closed
      BY <1>2, <1>3, <2>1, <3>1, <3>2 DEF Leads
    <3>3. CASE t[m].closed
      <4>1. u[m].lb = MaxInteger
        BY <1>2, <1>3, <1>6, <2>1, <3>3 DEF ClosedAtMaximum
      <4>2. PICK k \in ChildrenOf(t, n) : ~ t[k].closed
        BY DEF HasOpenChild
      <4>3. u[k].lb <= u[n].lb /\ ~ u[k].closed
        BY <1>2, <1>4, <2>1, <3>1, <4>1, <4>2
      <4> QED
        BY <1>3, <4>2, <4>3 DEF Leads
    <3> QED
      BY <3>2, <3>3
  <2>3. CASE n \notin to_update /\ \A m \in ChildrenOf(t, n) : u[m].lb = t[m].lb
    <3>1. PICK m \in ChildrenOf(t, n) : ~ t[m].closed /\ t[m].lb <= t[n].lb
      BY <2>3 DEF FairExcept, LeadsExcept, Leads
    <3>2. u[m].lb = t[m].lb /\ u[n].lb >= t[n].lb /\ ~ u[m].closed
      BY <1>2, <2>1, <2>3, <3>1
    <3>3. u[m].lb <= u[n].lb
      BY <1>2, <1>4, <2>1, <3>1, <3>2
    <3> QED
      BY <1>3, <3>2, <3>3 DEF Leads
  <2> QED
    BY <1>2, <2>2, <2>3 DEF HasChildBound
<1> QED
  BY <1>5, <1>6, <1>7 DEF FairTree, FairExcept

(* A change of the tree makes it fair.                                     *)
LEMMA ChangedTreeFair ==
  ASSUME config \in Configurations, NEW t, GoodTree(t),
         NEW to_close, \A n \in DOMAIN t : n \in to_close => SolutionsIn(t, n) = {},
         NEW to_update, FairExcept(t, to_update),
         NEW u, u = ChangedTree(t, to_close, to_update)
  PROVE  FairTree(u)
<1>1. PICK newly : newly = ClosedWith(t, to_close)
  OBVIOUS
<1>2. PICK closing : closing = CloseNodes(t, newly)
  OBVIOUS
<1>3. PICK closed : closed = MoveImplications(closing)
  OBVIOUS
<1>4. PICK updated : updated = to_update \cup {t[n].parent : n \in newly}
  OBVIOUS
<1>5. u = UpdateBounds(closed, updated)
  BY <1>1, <1>2, <1>3, <1>4, Zenon DEF ChangedTree
<1>6. TreeShape(t) /\ Len(t) \in Nat /\ DOMAIN t = 1..Len(t) /\ Root \in DOMAIN t /\ Root = 1
  BY TreeFacts DEF GoodTree
<1>7. /\ SameTree(t, closing) /\ TreeShape(closing) /\ ClosedBelow(closing) /\ TreeSound(closing)
      /\ \A n \in DOMAIN t :
           /\ closing[n].closed <=> IsClosedWith(t, to_close, n)
           /\ closing[n].implied <=> t[n].implied \/ (n # Root /\ Sibling(t, n) \in newly)
           /\ closing[n].has_info <=> IF n \in newly THEN n = Root ELSE t[n].has_info
  BY <1>1, <1>2, CloseNodesFacts
<1>8. FairExcept(closing, updated)
  BY <1>1, <1>2, <1>4, CloseNodesFair
<1>9. DOMAIN closing = DOMAIN t /\ Len(closing) = Len(t)
  BY <1>6, <1>7, SamePlaces
<1>10. \A n \in DOMAIN t : closing[n].closed <=> t[n].closed \/ n \in newly
  BY <1>1, <1>7 DEF IsClosedWith
<1>11. \A n \in DOMAIN t : t[n].has_info = (n = Root \/ ~ (t[n].closed \/ t[n].implied))
  BY DEF GoodTree, InfoIsKept
<1>12. closing[Root].has_info
  BY <1>6, <1>7, <1>11
<1>13. ASSUME NEW n \in 2..Len(closing)
       PROVE  /\ closing[n].has_info => ~ closing[n].closed
              /\ ~ closing[n].closed /\ ~ closing[n].implied => closing[n].has_info
  <2>1. n \in DOMAIN t /\ n # Root
    BY <1>6, <1>9
  <2>2. t[n].has_info <=> ~ (t[n].closed \/ t[n].implied)
    BY <1>11, <2>1
  <2> QED
    BY <1>7, <1>10, <2>1, <2>2
<1>14. /\ GoodTree(closed) /\ SameTree(closing, closed)
       /\ \A n \in DOMAIN closing :
            /\ closed[n].closed = closing[n].closed /\ closed[n].implied = closing[n].implied
            /\ closed[n].lb = closing[n].lb
  BY <1>3, <1>7, <1>12, <1>13, MoveImplicationsFacts
<1>15. /\ DOMAIN closing = 1..Len(closing) /\ DOMAIN closed = DOMAIN closing /\ Len(closed) = Len(closing)
       /\ \A n \in DOMAIN closing :
            ChildrenOf(closed, n) = ChildrenOf(closing, n) /\ (IsLeaf(closed, n) <=> IsLeaf(closing, n))
       /\ \A n \in 2..Len(closing) :
            /\ n \in DOMAIN closing /\ closing[n].parent \in DOMAIN closing
            /\ closed[n].parent = closing[n].parent
            /\ Sibling(closed, n) = Sibling(closing, n) /\ Sibling(closing, n) \in DOMAIN closing
  BY <1>7, <1>14, SamePlaces
<1>16. FairExcept(closed, updated)
  <2>1. SiblingsAreImplied(closed)
    BY <1>8, <1>14, <1>15 DEF FairExcept, SiblingsAreImplied
  <2>2. ClosedAtMaximum(closed)
    BY <1>8, <1>14, <1>15 DEF FairExcept, ClosedAtMaximum
  <2>3. LeadsExcept(closed, updated)
    <3>1. \A n \in DOMAIN closing : \A m \in ChildrenOf(closing, n) : m \in DOMAIN closing
      BY <1>15 DEF ChildrenOf
    <3> QED
      BY <1>8, <1>14, <1>15, <3>1 DEF FairExcept, LeadsExcept, Leads
  <2> QED
    BY <2>1, <2>2, <2>3 DEF FairExcept
<1>17. ASSUME NEW n \in DOMAIN closed, ~ closed[n].closed, ~ IsLeaf(closed, n)
       PROVE  HasOpenChild(closed, n)
  <2>1. n \in DOMAIN t /\ n \in DOMAIN closing /\ ~ closing[n].closed /\ ~ IsLeaf(t, n)
    BY <1>6, <1>7, <1>9, <1>14, <1>15, <1>17, SamePlaces
  <2>2. HasOpenChild(closing, n)
    BY <1>6, <1>7, <2>1, OpenChildRemains
  <2>3. \A m \in ChildrenOf(closing, n) : m \in DOMAIN closing
    BY <1>15 DEF ChildrenOf
  <2> QED
    BY <1>14, <1>15, <2>1, <2>2, <2>3 DEF HasOpenChild
<1> QED
  BY <1>5, <1>14, <1>16, <1>17, UpdateBoundsFair

(* The trees of SyncTree(), of a restart, and of a split.                  *)
LEMMA SyncedTreeFair ==
  ASSUME config \in Configurations, GoodTree(nodes), FairTree(nodes),
         NEW p, PathOK(p), InTree(nodes, p), NEW u, u = SyncedTree(p)
  PROVE  FairTree(u)
<1>1. PICK t : t = WithPath(p)
  OBVIOUS
<1>2. PICK to_close : to_close = {Sibling(nodes, n) : n \in ImpliedNodes(p)}
  OBVIOUS
<1>3. PICK to_update : to_update = {nodes[DecisionNode(p, l)].parent : l \in Raised(p)}
  OBVIOUS
<1>4. u = ChangedTree(t, to_close, to_update)
  BY <1>1, <1>2, <1>3, Zenon DEF SyncedTree
<1>5. /\ GoodTree(t) /\ SameTree(nodes, t)
      /\ \A n \in DOMAIN nodes :
           /\ t[n].closed = nodes[n].closed /\ t[n].implied = nodes[n].implied
           /\ t[n].lb \in 0..MaxInteger /\ t[n].lb >= nodes[n].lb
           /\ (\A l \in Raised(p) : DecisionNode(p, l) # n) => t[n].lb = nodes[n].lb
  BY <1>1, WithPathFacts
<1>6. TreeShape(nodes) /\ ~ t[Root].implied /\ \A n \in DOMAIN nodes : nodes[n] \in Nodes
  BY <1>5, TreeFacts DEF GoodTree
<1>7. /\ DOMAIN t = DOMAIN nodes /\ Len(t) = Len(nodes)
      /\ \A n \in DOMAIN nodes :
           ChildrenOf(t, n) = ChildrenOf(nodes, n) /\ (IsLeaf(t, n) <=> IsLeaf(nodes, n))
      /\ \A n \in 2..Len(nodes) :
           /\ n \in DOMAIN nodes /\ nodes[n].parent \in DOMAIN nodes
           /\ t[n].parent = nodes[n].parent
           /\ Sibling(t, n) = Sibling(nodes, n) /\ Sibling(nodes, n) \in DOMAIN nodes
  BY <1>5, <1>6, SamePlaces
<1>8. MaxInteger \in Nat /\ \A n \in DOMAIN nodes : nodes[n].lb \in 0..MaxInteger
  BY <1>6, ConfigurationFacts DEF Nodes
<1>9. \A n \in DOMAIN t : n \in to_close => SolutionsIn(t, n) = {}
  <2>1. \A n \in DOMAIN nodes : SolutionsIn(t, n) = SolutionsIn(nodes, n)
    BY <1>5, <1>6, SameTreeFacts
  <2> QED
    BY <1>2, <1>7, <2>1, ImpliedNodesFacts
<1>10. SiblingsAreImplied(t)
  BY <1>5, <1>7 DEF FairTree, FairExcept, SiblingsAreImplied
<1>11. ClosedAtMaximum(t)
  BY <1>5, <1>7, <1>8 DEF FairTree, FairExcept, ClosedAtMaximum
<1>12. LeadsExcept(t, to_update)
  <2> SUFFICES ASSUME NEW n \in DOMAIN nodes, n \notin to_update,
                      ~ nodes[n].closed, ~ IsLeaf(nodes, n)
               PROVE  Leads(t, n)
    BY <1>5, <1>7 DEF LeadsExcept
  <2>1. PICK m \in ChildrenOf(nodes, n) : ~ nodes[m].closed /\ nodes[m].lb <= nodes[n].lb
    BY DEF FairTree, FairExcept, LeadsExcept, Leads
  <2>2. m \in DOMAIN nodes /\ nodes[m].parent = n
    BY <1>7 DEF ChildrenOf
  <2>3. \A l \in Raised(p) : DecisionNode(p, l) # m
    BY <1>3, <2>2
  <2>4. t[m].lb = nodes[m].lb /\ ~ t[m].closed /\ t[n].lb >= nodes[n].lb
    BY <1>5, <2>1, <2>2, <2>3
  <2>5. t[m].lb <= t[n].lb
    BY <1>5, <1>8, <2>1, <2>2, <2>4
  <2> QED
    BY <1>7, <2>4, <2>5 DEF Leads
<1>13. FairExcept(t, to_update)
  BY <1>10, <1>11, <1>12 DEF FairExcept
<1> QED
  BY <1>4, <1>5, <1>9, <1>13, ChangedTreeFair

(* A tree of one open node is fair.                                        *)
LEMMA LoneRootFair ==
  ASSUME NEW u, Len(u) = 1, DOMAIN u = {Root}, ~ u[Root].closed, IsLeaf(u, Root)
  PROVE  FairTree(u)
<1>1. 2..Len(u) = {}
  OBVIOUS
<1> QED
  BY <1>1 DEF FairTree, FairExcept, SiblingsAreImplied, ClosedAtMaximum, LeadsExcept

(* A leaf that is split has two open children with its bound.              *)
LEMMA SplitTreeFair ==
  ASSUME config \in Configurations, NEW t, GoodTree(t), FairTree(t), NEW n \in DOMAIN t,
         ~ t[n].closed, IsLeaf(t, n), NEW literal, NEW u, IsSplit(t, u, n, literal), TreeShape(u)
  PROVE  FairTree(u)
<1>1. PICK first : first = Len(t) + 1
  OBVIOUS
<1>2. TreeShape(t) /\ Len(t) \in Nat /\ DOMAIN t = 1..Len(t) /\ \A m \in DOMAIN t : t[m] \in Nodes
  BY TreeFacts DEF GoodTree
<1>3. /\ u \in Seq(Nodes) /\ Len(u) = Len(t) + 2
      /\ \A m \in DOMAIN t :
           /\ u[m].lb = t[m].lb /\ u[m].parent = t[m].parent
           /\ u[m].children = (IF m = n THEN <<first, first + 1>> ELSE t[m].children)
           /\ u[m].closed = t[m].closed /\ u[m].implied = t[m].implied
      /\ \A m \in {first, first + 1} :
           /\ u[m].lb = t[n].lb /\ u[m].parent = n /\ u[m].children = <<>>
           /\ ~ u[m].closed /\ ~ u[m].implied
  BY <1>1 DEF IsSplit
<1>4. /\ DOMAIN u = DOMAIN t \cup {first, first + 1} /\ 2..Len(u) = 2..Len(t) \cup {first, first + 1}
      /\ first \in Nat /\ first \notin DOMAIN t /\ first + 1 \notin DOMAIN t /\ 2..Len(t) \subseteq DOMAIN t
  <2>1. DOMAIN u = 1..Len(u) /\ Len(t) >= 1
    BY <1>2, <1>3, TreeFacts
  <2> QED
    BY <1>1, <1>2, <1>3, <2>1
<1>5. u[n].children = <<first, first + 1>> /\ ~ IsLeaf(u, n)
  <2>1. <<first, first + 1>> # <<>>
    OBVIOUS
  <2> QED
    BY <1>3, <2>1 DEF IsLeaf
<1>6. ASSUME NEW m \in 2..Len(t)
      PROVE  /\ t[m].parent \in DOMAIN t /\ t[m].parent # n /\ Sibling(u, m) = Sibling(t, m)
             /\ Sibling(t, m) \in DOMAIN t
  <2>1. t[m].parent \in DOMAIN t /\ m \in ChildrenOf(t, t[m].parent) /\ Sibling(t, m) \in DOMAIN t
    BY <1>2, SiblingFacts DEF ChildrenOf
  <2>2. t[m].parent # n
    <3>1. t[n].children = <<>>
      BY DEF IsLeaf
    <3>2. \A k : <<k, k + 1>> # <<>>
      OBVIOUS
    <3>3. ChildrenOf(t, n) = {}
      BY <1>2, <3>1, <3>2 DEF TreeShape
    <3> QED
      BY <2>1, <3>3
  <2>3. u[u[m].parent].children = t[t[m].parent].children
    BY <1>3, <1>4, <2>1, <2>2
  <2> QED
    BY <2>1, <2>2, <2>3 DEF Sibling
<1>7. Sibling(u, first) = first + 1 /\ Sibling(u, first + 1) = first
  <2>1. u[first].parent = n /\ u[first + 1].parent = n
    BY <1>3
  <2>2. <<first, first + 1>>[1] = first /\ <<first, first + 1>>[2] = first + 1 /\ first # first + 1
    BY <1>4
  <2> QED
    BY <1>5, <2>1, <2>2 DEF Sibling
<1>8. SiblingsAreImplied(u)
  <2>1. ASSUME NEW m \in 2..Len(t), ~ u[u[m].parent].closed
        PROVE  u[m].implied <=> u[Sibling(u, m)].closed
    <3>1. m \in DOMAIN t /\ u[m].parent = t[m].parent /\ ~ t[t[m].parent].closed
      BY <1>3, <1>4, <1>6, <2>1
    <3>2. t[m].implied <=> t[Sibling(t, m)].closed
      BY <3>1 DEF FairTree, FairExcept, SiblingsAreImplied
    <3> QED
      BY <1>3, <1>6, <3>1, <3>2
  <2>2. \A m \in {first, first + 1} : u[m].implied <=> u[Sibling(u, m)].closed
    BY <1>3, <1>7
  <2> QED
    BY <1>4, <2>1, <2>2 DEF SiblingsAreImplied
<1>9. ClosedAtMaximum(u)
  BY <1>3, <1>4 DEF FairTree, FairExcept, ClosedAtMaximum
<1>10. LeadsExcept(u, {})
  <2>1. Leads(u, n)
    <3>1. first \in ChildrenOf(u, n) /\ u[first].lb = u[n].lb /\ ~ u[first].closed
      BY <1>3, <1>4 DEF ChildrenOf
    <3>2. u[n].lb \in Int
      BY <1>2, <1>3, ConfigurationFacts DEF Nodes
    <3> QED
      BY <3>1, <3>2 DEF Leads
  <2>2. ASSUME NEW m \in DOMAIN t, m # n, ~ u[m].closed, ~ IsLeaf(u, m) PROVE Leads(u, m)
    <3>1. ~ t[m].closed /\ ~ IsLeaf(t, m)
      BY <1>3, <2>2 DEF IsLeaf
    <3>2. PICK k \in ChildrenOf(t, m) : ~ t[k].closed /\ t[k].lb <= t[m].lb
      BY <3>1 DEF FairTree, FairExcept, LeadsExcept, Leads
    <3>3. k \in 2..Len(t) /\ k \in DOMAIN t /\ t[k].parent = m
      BY <1>4, <3>2 DEF ChildrenOf
    <3>4. k \in ChildrenOf(u, m)
      BY <1>3, <1>4, <3>3 DEF ChildrenOf
    <3> QED
      BY <1>3, <3>2, <3>3, <3>4 DEF Leads
  <2>3. \A m \in {first, first + 1} : IsLeaf(u, m)
    BY <1>3 DEF IsLeaf
  <2> QED
    BY <1>4, <2>1, <2>2, <2>3 DEF LeadsExcept
<1> QED
  BY <1>8, <1>9, <1>10 DEF FairTree, FairExcept

-----------------------------------------------------------------------------
(* The tree is fair in every state.                                        *)
FairInv == FairTree(nodes)

(* A fair tree that becomes the nodes stays fair.                          *)
LEMMA FairInvHolds ==
  ASSUME config' = config, NEW t, nodes' = t, FairTree(t)
  PROVE  FairInv'
BY DEF FairInv, FairTree, FairExcept, SiblingsAreImplied, ClosedAtMaximum, LeadsExcept, Leads,
       MaxInteger, ChildrenOf, Sibling, IsLeaf

(* A path that is brought to the tree.                                     *)
LEMMA SyncTreeFair ==
  ASSUME Inv, FairInv, NEW w \in Workers, SyncTree(w)
  PROVE  FairInv'
<1>1. PICK t : t = SyncedTree(path[w])
  OBVIOUS
<1>2. PICK leaf : leaf = AssignedNode(path[w])
  OBVIOUS
<1>3. /\ IsValid(path[w]) /\ config' = config
      /\ \/ nodes' = t
         \/ ~ t[leaf].closed /\ nodes' = <<[t[Root] EXCEPT !.children = <<>>]>>
  BY <1>1, <1>2 DEF SyncTree, ProcessNodeChanges, RestartLockHeld
<1>4. config \in Configurations /\ GoodTree(nodes) /\ FairTree(nodes)
  BY DEF Inv, TreeInv, TypeOK, FairInv
<1>5. PathOK(path[w]) /\ PathShape(path[w]) /\ InTree(nodes, path[w])
  BY <1>3, PathPlaced DEF PathOK, IsPlaced, IsStale
<1>6. FairTree(t) /\ GoodTree(t) /\ SameTree(nodes, t)
  BY <1>1, <1>4, <1>5, SyncedTreeFair, SyncedTreeFacts
<1>7. CASE nodes' = t
  BY <1>3, <1>6, <1>7, FairInvHolds
<1>8. CASE ~ t[leaf].closed /\ nodes' = <<[t[Root] EXCEPT !.children = <<>>]>>
  <2>1. leaf \in DOMAIN t
    <3>1. leaf = LastNode(path[w])
      BY <1>2, <1>3, <1>5, AssignedFacts
    <3>2. LastNode(path[w]) \in DOMAIN nodes
      BY <1>4, <1>5, AncestorsOnPath DEF GoodTree
    <3>3. DOMAIN nodes = 1..Len(nodes) /\ DOMAIN t = 1..Len(t)
      BY <1>4, <1>6, TypesOfTree
    <3> QED
      BY <1>6, <3>1, <3>2, <3>3 DEF SameTree
  <2>2. ~ t[Root].closed
    BY <1>6, <1>8, <2>1, AllIsClosedBelowRoot DEF GoodTree
  <2>3. PICK u : u = <<[t[Root] EXCEPT !.children = <<>>]>>
    OBVIOUS
  <2>4. FairTree(u)
    BY <1>6, <2>2, <2>3, RestartedTree, LoneRootFair
  <2> QED
    BY <1>3, <1>8, <2>3, <2>4, FairInvHolds
<1> QED
  BY <1>3, <1>7, <1>8

(* A subtree that is closed.                                               *)
LEMMA CloseTreeFair ==
  ASSUME Inv, FairInv, NEW w \in Workers, NEW l \in 1..MaxLevel(path[w]), CloseTree(w, l)
  PROVE  FairInv'
<1>1. PICK p, n : p = path[w] /\ n = DecisionNode(p, l)
  OBVIOUS
<1>2. /\ Below(p, l) = {} /\ config' = config
      /\ Id(n) < offset => nodes' = nodes
      /\ ~ (Id(n) < offset) => nodes' = ChangedTree(nodes, {n}, {})
  BY <1>1 DEF CloseTree, ProcessNodeChanges
<1>3. /\ config \in Configurations /\ GoodTree(nodes) /\ FairTree(nodes) /\ offset \in Nat
  BY DEF Inv, TreeInv, TypeOK, FairInv
<1>4. CASE Id(n) < offset
  BY <1>2, <1>3, <1>4, FairInvHolds
<1>5. CASE ~ (Id(n) < offset)
  <2>1. PathOK(p) /\ PathShape(p) /\ IsPlaced(nodes, p)
    BY <1>1, PathPlaced DEF PathOK
  <2>2. /\ DecisionIndex(p, l) \in 1..Len(p.trail) /\ DOMAIN p.trail = 1..Len(p.trail)
        /\ Len(p.trail) \in Nat /\ p.trail[DecisionIndex(p, l)].id \in Nat
        /\ MaxLevel(p) \in Nat /\ l \in 1..MaxLevel(p)
    BY <1>1, <2>1, PathFacts
  <2>3. Id(n) = p.trail[DecisionIndex(p, l)].id /\ n = NodeAt(p, DecisionIndex(p, l))
    BY <1>1, <1>3, <2>2 DEF Id, DecisionNode, Index, NodeAt
  <2>4. IsValid(p) /\ InTree(nodes, p)
    BY <1>5, <2>1, <2>2, <2>3 DEF IsPlaced, IsStale
  <2>5. PICK closing, none, u : closing = {n} /\ none = {} /\ u = ChangedTree(nodes, closing, none)
    OBVIOUS
  <2>6. \A m \in DOMAIN nodes : m \in closing => SolutionsIn(nodes, m) = {}
    BY <1>1, <1>2, <1>3, <2>1, <2>2, <2>4, <2>5, SolutionsOnPath DEF GoodTree
  <2>7. FairExcept(nodes, none)
    BY <1>3, <2>5 DEF FairTree
  <2>8. FairTree(u)
    BY <1>3, <2>5, <2>6, <2>7, ChangedTreeFair
  <2> QED
    BY <1>2, <1>5, <2>5, <2>8, FairInvHolds
<1> QED
  BY <1>4, <1>5

(* A split that is accepted.                                               *)
LEMMA ProposeSplitFair ==
  ASSUME Inv, FairInv, NEW w \in Workers, NEW literal \in config.branches, ProposeSplit(w, literal)
  PROVE  FairInv'
<1>1. PICK p, n, first, u :
        p = path[w] /\ n = AssignedNode(p) /\ first = Len(nodes) + 1 /\ u = nodes'
  OBVIOUS
<1>2. IsValid(p) /\ ~ nodes[n].closed /\ IsLeaf(nodes, n) /\ config' = config
  BY <1>1 DEF ProposeSplit
<1>3. u = [nodes EXCEPT ![n].children = <<first, first + 1>>]
            \o <<NewNode(literal, nodes[n].lb, n), NewNode(Negated(literal), nodes[n].lb, n)>>
  BY <1>1 DEF ProposeSplit
<1>4. config \in Configurations /\ GoodTree(nodes) /\ TreeShape(nodes) /\ FairTree(nodes)
  BY DEF Inv, TreeInv, TypeOK, FairInv, GoodTree
<1>5. PathOK(p) /\ PathShape(p) /\ IsPlaced(nodes, p)
  BY <1>1, PathPlaced DEF PathOK
<1>6. InTree(nodes, p) /\ n = LastNode(p)
  BY <1>1, <1>2, <1>5, AssignedFacts DEF IsPlaced, IsStale
<1>7. n \in DOMAIN nodes
  BY <1>4, <1>5, <1>6, AncestorsOnPath
<1>8. literal \in Literals(config.variables)
  BY <1>4, ConfigurationFacts DEF ConfigurationOK
<1>9. IsSplit(nodes, u, n, literal)
  BY <1>1, <1>3, <1>4, <1>7, <1>8, SplitTreeFields
<1>10. GoodTree(u)
  BY <1>2, <1>4, <1>7, <1>8, <1>9, SplitTreeOK
<1>11. FairTree(u)
  BY <1>2, <1>4, <1>7, <1>9, <1>10, SplitTreeFair DEF GoodTree
<1> QED
  BY <1>1, <1>2, <1>11, FairInvHolds

(* Fair at first, and after every step.                                    *)
LEMMA FairInit ==
  ASSUME Init
  PROVE  FairInv
<1>1. config \in Configurations /\ best = NoSolution /\ nodes = <<NewNode(NoLiteral, 0, 0)>>
  BY DEF Init
<1> QED
  BY <1>1, FirstTree, LoneRootFair DEF FairInv

(* Every step keeps the tree fair.                                         *)
LEMMA FairNext ==
  ASSUME Inv, FairInv, [Next]_vars
  PROVE  FairInv'
<1>1. ASSUME config' = config, nodes' = nodes PROVE FairInv'
  BY <1>1, FairInvHolds DEF FairInv
<1>2. ASSUME NEW w \in Workers, SyncInvalid(w) PROVE FairInv'
  BY <1>1, <1>2 DEF SyncInvalid, treeVars
<1>3. ASSUME NEW w \in Workers, SyncTree(w) PROVE FairInv'
  BY <1>3, SyncTreeFair
<1>4. ASSUME NEW w \in Workers, ReplaceTree(w) PROVE FairInv'
  BY <1>1, <1>4 DEF ReplaceTree
<1>5. ASSUME NEW w \in Workers, NEW literal \in config.branches, ProposeSplit(w, literal)
      PROVE  FairInv'
  BY <1>5, ProposeSplitFair
<1>6. ASSUME NEW w \in Workers, NEW l \in 1..MaxLevel(path[w]), CloseTree(w, l) PROVE FairInv'
  BY <1>6, CloseTreeFair
<1>7. ASSUME NEW w \in Workers, NEW l \in 1..MaxLevel(path[w]), LevelIsImplied(w, l) PROVE FairInv'
  BY <1>1, <1>7 DEF LevelIsImplied, treeVars
<1>8. ASSUME NEW w \in Workers, NEW l \in 1..MaxLevel(path[w]), NEW literal \in config.shared,
             ShareImplication(w, l, literal)
      PROVE  FairInv'
  BY <1>1, <1>8 DEF ShareImplication, treeVars
<1>9. ASSUME NEW w \in Workers, NEW l \in 1..MaxLevel(path[w]), NEW lb \in config.bounds,
             RaiseObjectiveLb(w, l, lb)
      PROVE  FairInv'
  BY <1>1, <1>9 DEF RaiseObjectiveLb, treeVars
<1>10. ASSUME NEW s \in Feasible, NewSolution(s) PROVE FairInv'
  BY <1>1, <1>10 DEF NewSolution, treeVars
<1>11. CASE UNCHANGED vars
  BY <1>1, <1>11 DEF vars, treeVars
<1> QED
  BY <1>2, <1>3, <1>4, <1>5, <1>6, <1>7, <1>8, <1>9, <1>10, <1>11 DEF Next

-----------------------------------------------------------------------------
(* The open leaves below a node.                                           *)
LeavesBelow(t, n) ==
  {m \in DOMAIN t : ~ t[m].closed /\ IsLeaf(t, m) /\ n \in Ancestors(t, m)}

(* The leaves below a child are below its parent, and none below both.     *)
LEMMA LeavesBelowFacts ==
  ASSUME NEW t, TreeShape(t)
  PROVE  /\ \A n : IsFiniteSet(LeavesBelow(t, n)) /\ Cardinality(LeavesBelow(t, n)) \in Nat
         /\ \A n \in DOMAIN t : ~ t[n].closed /\ IsLeaf(t, n) => n \in LeavesBelow(t, n)
         /\ \A n \in 2..Len(t) :
              /\ LeavesBelow(t, n) \subseteq LeavesBelow(t, t[n].parent)
              /\ LeavesBelow(t, n) \cap LeavesBelow(t, Sibling(t, n)) = {}
<1>1. /\ ParentsComeFirst(t) /\ Len(t) \in Nat /\ DOMAIN t = 1..Len(t) /\ Root = 1
      /\ \A n \in 2..Len(t) : t[n].parent \in DOMAIN t /\ t[n].parent < n
  BY TreeFacts
<1>2. ASSUME NEW n
      PROVE  IsFiniteSet(LeavesBelow(t, n)) /\ Cardinality(LeavesBelow(t, n)) \in Nat
  <2>1. IsFiniteSet(1..Len(t))
    BY <1>1, FS_Interval
  <2>2. LeavesBelow(t, n) \in SUBSET (1..Len(t))
    BY <1>1 DEF LeavesBelow
  <2> QED
    BY <2>1, <2>2, FS_Subset, FS_CardinalityType
<1>3. \A n \in DOMAIN t : ~ t[n].closed /\ IsLeaf(t, n) => n \in LeavesBelow(t, n)
  BY <1>1, AncestorsFacts DEF LeavesBelow
<1>4. ASSUME NEW n \in 2..Len(t) PROVE LeavesBelow(t, n) \subseteq LeavesBelow(t, t[n].parent)
  <2> SUFFICES ASSUME NEW m \in DOMAIN t, n \in Ancestors(t, m)
               PROVE  t[n].parent \in Ancestors(t, m)
    BY DEF LeavesBelow
  <2>1. n \in DOMAIN t /\ n # Root /\ t[n].parent \in DOMAIN t
    BY <1>1
  <2>2. t[n].parent \in Ancestors(t, n)
    <3>1. Ancestors(t, n) = {n} \cup Ancestors(t, t[n].parent)
      BY <1>1, <2>1, AncestorsDefined
    <3> QED
      BY <1>1, <2>1, <3>1, AncestorsFacts
  <2> QED
    BY <1>1, <2>2, AncestorsFacts
<1>5. ASSUME NEW n \in 2..Len(t)
      PROVE  LeavesBelow(t, n) \cap LeavesBelow(t, Sibling(t, n)) = {}
  <2>1. PICK s : s = Sibling(t, n)
    OBVIOUS
  <2>2. /\ s \in 2..Len(t) /\ s # n /\ t[s].parent = t[n].parent
        /\ t[n].parent \in DOMAIN t /\ t[n].parent < n /\ t[n].parent < s
    BY <1>1, <2>1, SiblingFacts
  <2> DEFINE Good == {k \in DOMAIN t : ~ (n \in Ancestors(t, k) /\ s \in Ancestors(t, k))}
  <2>3. ASSUME NEW k \in 1..Len(t), \A m \in 1..(k - 1) : m \in Good PROVE k \in Good
    <3>1. k \in DOMAIN t
      BY <1>1
    <3>2. CASE k = Root
      <4>1. Ancestors(t, k) = {k}
        BY <1>1, <3>1, <3>2, AncestorsDefined
      <4> QED
        BY <1>1, <2>2, <3>1, <3>2, <4>1
    <3>3. CASE k # Root
      <4>1. k \in 2..Len(t) /\ t[k].parent \in 1..(k - 1) /\ t[k].parent \in DOMAIN t
        BY <1>1, <3>3
      <4>2. Ancestors(t, k) = {k} \cup Ancestors(t, t[k].parent)
        BY <1>1, <3>1, <3>3, AncestorsDefined
      <4>3. ~ (n \in Ancestors(t, t[k].parent) /\ s \in Ancestors(t, t[k].parent))
        BY <2>3, <4>1
      <4>4. \A m \in Ancestors(t, t[k].parent) : m <= t[k].parent
        BY <1>1, <4>1, AncestorsFacts
      <4>5. k = n => s \notin Ancestors(t, t[k].parent)
        BY <1>1, <2>2, <4>4
      <4>6. k = s => n \notin Ancestors(t, t[k].parent)
        BY <1>1, <2>2, <4>4
      <4> QED
        BY <2>2, <3>1, <4>2, <4>3, <4>5, <4>6
    <3> QED
      BY <3>2, <3>3
  <2>4. 1..Len(t) \subseteq Good
    <3> HIDE DEF Good
    <3> QED
      BY <1>1, <2>3, IntervalInduction
  <2> QED
    BY <1>1, <2>1, <2>4 DEF LeavesBelow
<1> QED
  BY <1>2, <1>3, <1>4, <1>5

(* Some open leaf below an open node has no greater a bound.               *)
LEMMA SomeLeafLeads ==
  ASSUME config \in Configurations, NEW t, TreeShape(t), FairTree(t),
         NEW n \in DOMAIN t, ~ t[n].closed
  PROVE  \E m \in LeavesBelow(t, n) : t[m].lb <= t[n].lb
<1> DEFINE Good == {k \in DOMAIN t : ~ t[k].closed => \E m \in LeavesBelow(t, k) : t[m].lb <= t[k].lb}
<1>1. /\ Len(t) \in Nat /\ DOMAIN t = 1..Len(t) /\ MaxInteger \in Nat
      /\ \A k \in DOMAIN t : t[k].lb \in 0..MaxInteger
  BY TreeFacts, ConfigurationFacts DEF Nodes
<1>2. ASSUME NEW k \in 1..Len(t), \A m \in (k + 1)..Len(t) : m \in Good PROVE k \in Good
  <2> SUFFICES ASSUME ~ t[k].closed PROVE \E m \in LeavesBelow(t, k) : t[m].lb <= t[k].lb
    BY <1>1
  <2>1. CASE IsLeaf(t, k)
    BY <1>1, <2>1, LeavesBelowFacts
  <2>2. CASE ~ IsLeaf(t, k)
    <3>1. PICK c \in ChildrenOf(t, k) : ~ t[c].closed /\ t[c].lb <= t[k].lb
      BY <1>1, <2>2 DEF FairTree, FairExcept, LeadsExcept, Leads
    <3>2. c \in 2..Len(t) /\ c \in DOMAIN t /\ t[c].parent = k
      BY <1>1, <3>1 DEF ChildrenOf
    <3>3. c \in Good
      <4>1. c > k
        BY <3>2, TreeFacts
      <4>2. c \in (k + 1)..Len(t)
        BY <1>1, <3>2, <4>1
      <4> QED
        BY <1>2, <4>2
    <3>4. PICK m \in LeavesBelow(t, c) : t[m].lb <= t[c].lb
      BY <3>1, <3>3
    <3>5. m \in LeavesBelow(t, k) /\ m \in DOMAIN t
      BY <3>2, <3>4, LeavesBelowFacts DEF LeavesBelow
    <3> QED
      BY <1>1, <3>1, <3>2, <3>4, <3>5
  <2> QED
    BY <2>1, <2>2
<1>3. 1..Len(t) \subseteq Good
  <2> HIDE DEF Good
  <2> QED
    BY <1>1, <1>2, DownwardInduction
<1> QED
  BY <1>1, <1>3

(* Weights of the nodes such that a leaf weighs at most one, and an open   *)
(* node no more than its open children: there are as many open leaves.     *)
WeighsNoMore(t, W, n) ==
  IF IsLeaf(t, n) THEN W[n] <= 1
  ELSE \E m \in ChildrenOf(t, n) :
         /\ ~ t[m].closed
         /\ W[n] <= (IF t[Sibling(t, m)].closed THEN W[m] ELSE W[m] + W[Sibling(t, m)])

(* A node weighs no more than it has open leaves.                          *)
LEMMA LeavesOfWeight ==
  ASSUME NEW t, TreeShape(t), NEW W \in [DOMAIN t -> Nat],
         \A n \in DOMAIN t : ~ t[n].closed => WeighsNoMore(t, W, n),
         NEW n \in DOMAIN t, ~ t[n].closed
  PROVE  W[n] <= Cardinality(LeavesBelow(t, n))
<1> DEFINE Good == {k \in DOMAIN t : ~ t[k].closed => W[k] <= Cardinality(LeavesBelow(t, k))}
<1>1. Len(t) \in Nat /\ DOMAIN t = 1..Len(t)
  BY TreeFacts
<1>2. ASSUME NEW k \in 1..Len(t), \A m \in (k + 1)..Len(t) : m \in Good PROVE k \in Good
  <2> SUFFICES ASSUME ~ t[k].closed PROVE W[k] <= Cardinality(LeavesBelow(t, k))
    BY <1>1
  <2>1. W[k] \in Nat /\ k \in DOMAIN t /\ WeighsNoMore(t, W, k)
    BY <1>1
  <2>2. /\ IsFiniteSet(LeavesBelow(t, k)) /\ Cardinality(LeavesBelow(t, k)) \in Nat
    BY LeavesBelowFacts
  <2>3. CASE IsLeaf(t, k)
    <3>1. {k} \in SUBSET LeavesBelow(t, k)
      BY <2>1, <2>3, LeavesBelowFacts
    <3>2. Cardinality({k}) = 1 /\ Cardinality({k}) <= Cardinality(LeavesBelow(t, k))
      BY <2>2, <3>1, FS_Subset, FS_Singleton
    <3> QED
      BY <2>1, <2>2, <2>3, <3>2 DEF WeighsNoMore
  <2>4. CASE ~ IsLeaf(t, k)
    <3>1. PICK m \in ChildrenOf(t, k) :
            /\ ~ t[m].closed
            /\ W[k] <= (IF t[Sibling(t, m)].closed THEN W[m] ELSE W[m] + W[Sibling(t, m)])
      BY <2>1, <2>4 DEF WeighsNoMore
    <3>2. PICK s : s = Sibling(t, m)
      OBVIOUS
    <3>3. /\ m \in 2..Len(t) /\ s \in 2..Len(t) /\ t[m].parent = k /\ t[s].parent = k /\ k < m /\ k < s
      <4>1. m \in 2..Len(t) /\ t[m].parent = k
        BY <3>1 DEF ChildrenOf
      <4>2. s \in 2..Len(t) /\ t[s].parent = k
        BY <3>2, <4>1, SiblingFacts
      <4> QED
        BY <4>1, <4>2, TreeFacts
    <3>4. /\ m \in (k + 1)..Len(t) /\ s \in (k + 1)..Len(t)
          /\ W[m] \in Nat /\ W[s] \in Nat
      BY <1>1, <3>3
    <3>5. m \in Good /\ s \in Good
      BY <1>2, <3>4
    <3>6. PICK A, B, C : A = LeavesBelow(t, m) /\ B = LeavesBelow(t, s) /\ C = LeavesBelow(t, k)
      OBVIOUS
    <3>7. /\ IsFiniteSet(A) /\ IsFiniteSet(B) /\ IsFiniteSet(C) /\ A \subseteq C /\ B \subseteq C
          /\ A \cap B = {}
          /\ Cardinality(A) \in Nat /\ Cardinality(B) \in Nat /\ Cardinality(C) \in Nat
      BY <3>2, <3>3, <3>6, LeavesBelowFacts
    <3>8. W[m] <= Cardinality(A) /\ (~ t[s].closed => W[s] <= Cardinality(B))
      BY <3>1, <3>5, <3>6
    <3>9. Cardinality(A \cup B) = Cardinality(A) + Cardinality(B)
      <4>1. Cardinality(A \cap B) = 0
        BY <3>7, FS_EmptySet
      <4>2. Cardinality(A \cup B) = Cardinality(A) + Cardinality(B) - Cardinality(A \cap B)
        BY <3>7, FS_Union
      <4> QED
        BY <3>7, <4>1, <4>2
    <3>10. Cardinality(A) + Cardinality(B) <= Cardinality(C)
      <4>1. A \cup B \in SUBSET C
        BY <3>7
      <4>2. Cardinality(A \cup B) <= Cardinality(C)
        BY <3>7, <4>1, FS_Subset
      <4> QED
        BY <3>9, <4>2
    <3>11. CASE t[s].closed
      BY <2>1, <3>1, <3>2, <3>4, <3>6, <3>7, <3>8, <3>10, <3>11
    <3>12. CASE ~ t[s].closed
      BY <2>1, <3>1, <3>2, <3>4, <3>6, <3>7, <3>8, <3>10, <3>12
    <3> QED
      BY <3>11, <3>12
  <2> QED
    BY <2>3, <2>4
<1>3. 1..Len(t) \subseteq Good
  <2> HIDE DEF Good
  <2> QED
    BY <1>1, <1>2, DownwardInduction
<1> QED
  BY <1>1, <1>3

-----------------------------------------------------------------------------
(* How many nodes of a set are on the path to a node.                      *)
CountOn(t, Q, n) == Cardinality((Ancestors(t, n) \ {Root}) \cap Q)

(* A node adds itself to what its parent counts.                           *)
LEMMA CountOnFacts ==
  ASSUME NEW t, TreeShape(t), NEW Q
  PROVE  /\ CountOn(t, Q, Root) = 0
         /\ \A n \in DOMAIN t : CountOn(t, Q, n) \in Nat
         /\ \A n \in 2..Len(t) :
              /\ n \in Q => CountOn(t, Q, n) = CountOn(t, Q, t[n].parent) + 1
              /\ n \notin Q => CountOn(t, Q, n) = CountOn(t, Q, t[n].parent)
<1> DEFINE S(n) == (Ancestors(t, n) \ {Root}) \cap Q
<1>1. /\ ParentsComeFirst(t) /\ Len(t) \in Nat /\ DOMAIN t = 1..Len(t) /\ Root = 1 /\ Root \in DOMAIN t
      /\ \A n \in 2..Len(t) : t[n].parent \in DOMAIN t /\ t[n].parent < n
  BY TreeFacts
<1>2. CountOn(t, Q, Root) = 0
  <2>1. Ancestors(t, Root) = {Root}
    BY <1>1, AncestorsDefined
  <2>2. S(Root) = {}
    BY <2>1
  <2> QED
    BY <2>2, FS_EmptySet DEF CountOn
<1>3. ASSUME NEW n \in DOMAIN t PROVE IsFiniteSet(S(n)) /\ CountOn(t, Q, n) \in Nat
  <2>1. S(n) \in SUBSET (1..Len(t))
    BY <1>1, AncestorsDefined
  <2>2. IsFiniteSet(1..Len(t))
    BY <1>1, FS_Interval
  <2>3. IsFiniteSet(S(n))
    BY <2>1, <2>2, FS_Subset
  <2> QED
    BY <2>3, FS_CardinalityType DEF CountOn
<1>4. ASSUME NEW n \in 2..Len(t)
      PROVE  /\ n \in Q => CountOn(t, Q, n) = CountOn(t, Q, t[n].parent) + 1
             /\ n \notin Q => CountOn(t, Q, n) = CountOn(t, Q, t[n].parent)
  <2>1. PICK k : k = t[n].parent
    OBVIOUS
  <2>2. n \in DOMAIN t /\ n # Root /\ k \in DOMAIN t /\ k < n
    BY <1>1, <2>1
  <2>3. Ancestors(t, n) = {n} \cup Ancestors(t, k)
    BY <1>1, <2>1, <2>2, AncestorsDefined
  <2>4. n \notin Ancestors(t, k)
    BY <1>1, <2>2, AncestorsFacts
  <2>5. CASE n \in Q
    <3>1. S(n) = S(k) \cup {n} /\ n \notin S(k)
      BY <2>2, <2>3, <2>4, <2>5
    <3>2. PICK A : A = S(k)
      OBVIOUS
    <3>3. Cardinality(A \cup {n}) = Cardinality(A) + 1
      <4>1. IsFiniteSet(A) /\ n \notin A
        BY <1>3, <2>2, <3>1, <3>2
      <4> QED
        BY <4>1, FS_AddElement
    <3> QED
      BY <2>1, <2>5, <3>1, <3>2, <3>3 DEF CountOn
  <2>6. CASE n \notin Q
    <3>1. S(n) = S(k)
      BY <2>2, <2>3, <2>4, <2>6
    <3>2. CountOn(t, Q, k) \in Nat /\ CountOn(t, Q, n) = CountOn(t, Q, k)
      BY <1>3, <2>2, <3>1 DEF CountOn
    <3> QED
      BY <2>1, <2>6, <3>2
  <2> QED
    BY <2>5, <2>6
<1> QED
  BY <1>2, <1>3, <1>4

(* The levels of the path to a node are its ancestors that are not implied.*)
NotImplied(t) == {n \in DOMAIN t : ~ t[n].implied}

(* The path to a node has one level for each of them.                      *)
LEMMA LevelsOfPath ==
  ASSUME config \in Configurations, NEW t, GoodTree(t), offset \in Nat, NEW n \in DOMAIN t
  PROVE  MaxLevel(PathTo(t, n, offset)) = CountOn(t, NotImplied(t), n)
<1> DEFINE P(m) == PathTo(t, m, offset)
           Q == NotImplied(t)
           Good == {m \in DOMAIN t : MaxLevel(P(m)) = CountOn(t, Q, m)}
<1>1. /\ TreeShape(t) /\ Len(t) \in Nat /\ DOMAIN t = 1..Len(t)
      /\ Root = 1 /\ \A m \in DOMAIN t : t[m] \in Nodes
  BY TreeFacts DEF GoodTree
<1>2. ASSUME NEW m \in 1..Len(t), \A k \in 1..(m - 1) : k \in Good PROVE m \in Good
  <2>1. CASE m = Root
    <3>1. P(m) = EmptyPath
      BY <1>1, <2>1, PathToDefined
    <3>2. MaxLevel(P(m)) = 0
      BY <3>1 DEF EmptyPath, MaxLevel
    <3> QED
      BY <1>1, <2>1, <3>2, CountOnFacts
  <2>2. CASE m # Root
    <3>1. m \in 2..Len(t) /\ m \in DOMAIN t /\ t[m].parent \in DOMAIN t /\ t[m].parent \in 1..(m - 1)
      BY <1>1, <2>2, TreeFacts
    <3>2. PICK p, q, id : p = P(t[m].parent) /\ q = P(m) /\ id = offset + m - 1
      OBVIOUS
    <3>3. q = PushNode(p, t[m], id) /\ id \in Nat
      BY <1>1, <2>2, <3>1, <3>2, PathToDefined
    <3>4. PathShape(p)
      BY <3>1, <3>2, PathToFacts DEF PathOK
    <3>5. t[m].literal \in Literals(config.variables) /\ t[m] \in Nodes
      BY <1>1, <3>1, SiblingFacts
    <3>6. MaxLevel(p) \in Nat /\ MaxLevel(q) = IF t[m].implied THEN MaxLevel(p) ELSE MaxLevel(p) + 1
      BY <3>3, <3>4, <3>5, PushNodeShape
    <3>7. MaxLevel(p) = CountOn(t, Q, t[m].parent)
      BY <1>2, <3>1, <3>2
    <3>8. CountOn(t, Q, m) = CountOn(t, Q, t[m].parent) + (IF t[m].implied THEN 0 ELSE 1)
      <4>1. m \in Q <=> ~ t[m].implied
        BY <3>1 DEF NotImplied
      <4>2. PICK N : N = Q
        OBVIOUS
      <4> HIDE DEF Q
      <4>3. /\ m \in N => CountOn(t, N, m) = CountOn(t, N, t[m].parent) + 1
            /\ m \notin N => CountOn(t, N, m) = CountOn(t, N, t[m].parent)
        BY <1>1, <3>1, CountOnFacts
      <4>4. CountOn(t, N, t[m].parent) \in Nat
        BY <1>1, <3>1, CountOnFacts
      <4> QED
        BY <4>1, <4>2, <4>3, <4>4
    <3> QED
      BY <1>1, <3>2, <3>6, <3>7, <3>8
  <2> QED
    BY <2>1, <2>2
<1>3. 1..Len(t) \subseteq Good
  <2> HIDE DEF Good
  <2> QED
    BY <1>1, <1>2, IntervalInduction
<1> QED
  BY <1>1, <1>3

-----------------------------------------------------------------------------
(* The numbers of MaxAllowedDiscrepancyPlusDepth(): Fibonacci numbers, up  *)
(* to one that is as great as the number of leaves.                        *)
NextFib(f, i) == IF i < 2 THEN i + 1 ELSE f[i - 1] + f[i - 2]
IsFib(f, k) == f = [i \in 0..k |-> NextFib(f, i)]

(* The function that the code computes exists.                             *)
LEMMA FibExists ==
  ASSUME NEW k \in Nat
  PROVE  \E f : IsFib(f, k)
<1> DEFINE UpTo(f, j) == \A i \in 0..k : i < j => f[i] = NextFib(f, i)
           Good == {j \in Nat : \E f \in [0..k -> Nat] : UpTo(f, j)}
<1>1. 0 \in Good
  <2>1. [i \in 0..k |-> 0] \in [0..k -> Nat] /\ UpTo([i \in 0..k |-> 0], 0)
    OBVIOUS
  <2> HIDE DEF UpTo
  <2> QED
    BY <2>1
<1>2. ASSUME NEW j \in Nat, j \in Good PROVE j + 1 \in Good
  <2>1. PICK f \in [0..k -> Nat] : UpTo(f, j)
    BY <1>2
  <2>2. PICK g : g = [f EXCEPT ![j] = NextFib(f, j)]
    OBVIOUS
  <2>3. g \in [0..k -> Nat]
    <3>1. j \in 0..k => NextFib(f, j) \in Nat
      BY <2>1 DEF NextFib
    <3> QED
      BY <2>1, <2>2, <3>1
  <2>4. \A i \in 0..k : i < j + 1 => g[i] = NextFib(g, i)
    <3>1. \A i \in 0..k : i < j => g[i] = f[i]
      BY <2>1, <2>2
    <3>2. j \in 0..k => g[j] = NextFib(f, j)
      BY <2>1, <2>2
    <3>3. \A i \in 0..k : i < j + 1 => NextFib(g, i) = NextFib(f, i)
      BY <3>1 DEF NextFib
    <3>4. \A i \in 0..k : i < j => f[i] = NextFib(f, i)
      BY <2>1
    <3>5. \A i \in 0..k : i < j + 1 => i < j \/ i = j
      OBVIOUS
    <3> QED
      BY <3>1, <3>2, <3>3, <3>4, <3>5
  <2> QED
    BY <2>3, <2>4
<1>3. Nat \subseteq Good
  <2> HIDE DEF Good
  <2> QED
    BY <1>1, <1>2, SetInduction
<1>4. PICK f \in [0..k -> Nat] : UpTo(f, k + 1)
  <2>1. k + 1 \in Nat
    OBVIOUS
  <2>2. k + 1 \in Good
    <3> HIDE DEF Good
    <3> QED
      BY <1>3, <2>1
  <2> QED
    BY <2>2
<1>5. \A i \in 0..k : f[i] = NextFib(f, i)
  BY <1>4
<1> QED
  BY <1>4, <1>5 DEF IsFib

(* Its values are positive and grow.                                       *)
LEMMA FibFacts ==
  ASSUME NEW k \in Nat, NEW f, IsFib(f, k)
  PROVE  f \in [0..k -> Nat] /\ \A i \in 0..k : f[i] >= i + 1
<1> DEFINE Good == {i \in Nat : \A j \in 0..k : j <= i => f[j] \in Nat /\ f[j] >= j + 1}
<1>1. \A i \in 0..k : f[i] = IF i < 2 THEN i + 1 ELSE f[i - 1] + f[i - 2]
  BY DEF IsFib, NextFib
<1>2. 0 \in Good
  BY <1>1
<1>3. ASSUME NEW i \in Nat, i \in Good PROVE i + 1 \in Good
  <2> SUFFICES ASSUME NEW j \in 0..k, j = i + 1 PROVE f[j] \in Nat /\ f[j] >= j + 1
    BY <1>3
  <2>1. CASE j < 2
    BY <1>1, <2>1
  <2>2. CASE ~ (j < 2)
    <3>1. j - 1 \in 0..k /\ j - 2 \in 0..k /\ j - 1 <= i /\ j - 2 <= i
      BY <2>2
    <3>2. f[j - 1] \in Nat /\ f[j - 1] >= (j - 1) + 1 /\ f[j - 2] \in Nat /\ f[j - 2] >= (j - 2) + 1
      BY <1>3, <3>1
    <3>3. f[j] = f[j - 1] + f[j - 2]
      BY <1>1, <2>2
    <3> QED
      BY <2>2, <3>2, <3>3
  <2> QED
    BY <2>1, <2>2
<1>4. Nat \subseteq Good
  <2> HIDE DEF Good
  <2> QED
    BY <1>2, <1>3, SetInduction
<1>5. \A i \in 0..k : f[i] \in Nat /\ f[i] >= i + 1
  BY <1>4
<1>6. f = [i \in 0..k |-> f[i]]
  BY DEF IsFib
<1> QED
  BY <1>5, <1>6

(* The greatest discrepancy plus depth: as many leaves as wanted have less.*)
LEMMA MaxAllowedFacts ==
  ASSUME NEW leaves \in Nat \ {0}, NEW A, A = MaxAllowedDiscrepancyPlusDepth(leaves)
  PROVE  A \in 0..(leaves - 1) /\ \E f : IsFib(f, leaves) /\ f[A + 1] >= leaves
<1> DEFINE fib == CHOOSE f : IsFib(f, leaves)
           S == {i \in 0..leaves : i = leaves \/ fib[i + 1] >= leaves}
<1>1. A = Min(S)
  BY Zenon DEF MaxAllowedDiscrepancyPlusDepth, IsFib, NextFib
<1>2. IsFib(fib, leaves)
  BY FibExists
<1> HIDE DEF fib
<1>3. fib \in [0..leaves -> Nat] /\ \A i \in 0..leaves : fib[i] >= i + 1
  BY <1>2, FibFacts
<1>4. (leaves - 1) \in S
  <2>1. leaves \in 0..leaves /\ fib[leaves] >= leaves + 1 /\ fib[leaves] \in Nat /\ (leaves - 1) + 1 = leaves
    BY <1>3
  <2> QED
    BY <2>1
<1>5. A \in S /\ \A i \in S : A <= i
  <2>1. IsFiniteSet(0..leaves)
    BY FS_Interval
  <2>2. S \in SUBSET (0..leaves)
    OBVIOUS
  <2> HIDE DEF S
  <2>3. IsFiniteSet(S)
    BY <2>1, <2>2, FS_Subset
  <2>4. S \in SUBSET Int
    BY <2>2
  <2>5. S # {}
    BY <1>4
  <2> QED
    BY <1>1, <2>3, <2>4, <2>5, MinOfSet
<1>6. A \in 0..(leaves - 1)
  BY <1>4, <1>5
<1>7. fib[A + 1] >= leaves
  BY <1>5, <1>6
<1> QED
  BY <1>2, <1>6, <1>7

-----------------------------------------------------------------------------
(* Powers of two.                                                          *)
NextPower(f, i) == IF i = 0 THEN 1 ELSE 2 * f[i - 1]
IsPowers(f, k) == f = [i \in 0..k |-> NextPower(f, i)]

(* The function of PowerOfTwo exists.                                      *)
LEMMA PowersExist ==
  ASSUME NEW k \in Nat
  PROVE  \E f : IsPowers(f, k)
<1> DEFINE Good == {j \in Nat : \E f : IsPowers(f, j)}
<1>1. 0 \in Good
  <2>1. [i \in 0..0 |-> 1] = [i \in 0..0 |-> IF i = 0 THEN 1 ELSE 2 * [m \in 0..0 |-> 1][i - 1]]
    OBVIOUS
  <2> QED
    BY <2>1 DEF IsPowers, NextPower
<1>2. ASSUME NEW j \in Nat, j \in Good PROVE j + 1 \in Good
  <2>1. PICK f : IsPowers(f, j)
    BY <1>2
  <2>2. PICK g : g = [i \in 0..(j + 1) |-> IF i = j + 1 THEN 2 * f[j] ELSE f[i]]
    OBVIOUS
  <2>3. \A i \in 0..j : f[i] = IF i = 0 THEN 1 ELSE 2 * f[i - 1]
    BY <2>1 DEF IsPowers, NextPower
  <2>4. \A i \in 0..j : g[i] = f[i] /\ i \in 0..(j + 1) /\ i # j + 1
    BY <2>2
  <2>5. g[j + 1] = 2 * f[j] /\ f[j] = g[j] /\ (j + 1) - 1 = j /\ j + 1 # 0
    BY <2>2, <2>4
  <2>6. ASSUME NEW i \in 0..(j + 1) PROVE g[i] = IF i = 0 THEN 1 ELSE 2 * g[i - 1]
    <3>1. CASE i = j + 1
      BY <2>5, <3>1
    <3>2. CASE i # j + 1 /\ i # 0
      <4>1. i \in 0..j /\ i - 1 \in 0..j
        BY <3>2
      <4>2. g[i] = f[i] /\ g[i - 1] = f[i - 1] /\ f[i] = 2 * f[i - 1]
        BY <2>3, <2>4, <3>2, <4>1
      <4> QED
        BY <3>2, <4>2
    <3>3. CASE i = 0
      <4>1. i \in 0..j
        BY <3>3
      <4> QED
        BY <2>3, <2>4, <3>3, <4>1
    <3> QED
      BY <3>1, <3>2, <3>3
  <2>7. \A i \in 0..(j + 1) : g[i] = NextPower(g, i)
    BY <2>6 DEF NextPower
  <2>8. IsPowers(g, j + 1)
    <3>1. g = [i \in 0..(j + 1) |-> g[i]]
      BY <2>2
    <3> QED
      BY <2>7, <3>1 DEF IsPowers
  <2> QED
    BY <2>8
<1>3. Nat \subseteq Good
  <2> HIDE DEF Good
  <2> QED
    BY <1>1, <1>2, SetInduction
<1> QED
  BY <1>3

(* Each power is twice the one before.                                     *)
LEMMA PowerOfTwoDefined ==
  /\ PowerOfTwo(0) = 1
  /\ \A k \in Nat : PowerOfTwo(k + 1) = 2 * PowerOfTwo(k)
<1> DEFINE power(k) == CHOOSE f : IsPowers(f, k)
<1>1. \A k : PowerOfTwo(k) = power(k)[k]
  BY Zenon DEF PowerOfTwo, IsPowers, NextPower
<1>2. \A k \in Nat : IsPowers(power(k), k)
  BY PowersExist
<1> HIDE DEF power
<1>3. \A k \in Nat : \A i \in 0..k : power(k)[i] = IF i = 0 THEN 1 ELSE 2 * power(k)[i - 1]
  BY <1>2 DEF IsPowers, NextPower
<1>4. PowerOfTwo(0) = 1
  BY <1>1, <1>3
<1>5. ASSUME NEW k \in Nat PROVE PowerOfTwo(k + 1) = 2 * PowerOfTwo(k)
  <2> DEFINE Good == {i \in Nat : i <= k => power(k)[i] = power(k + 1)[i]}
  <2>1. 0 \in Good
    BY <1>3
  <2>2. ASSUME NEW i \in Nat, i \in Good PROVE i + 1 \in Good
    <3> SUFFICES ASSUME i + 1 <= k PROVE power(k)[i + 1] = power(k + 1)[i + 1]
      OBVIOUS
    <3>1. i + 1 \in 0..k /\ i + 1 \in 0..(k + 1) /\ k + 1 \in Nat /\ i + 1 # 0 /\ (i + 1) - 1 = i
      OBVIOUS
    <3>2. power(k)[i + 1] = 2 * power(k)[i] /\ power(k + 1)[i + 1] = 2 * power(k + 1)[i]
      BY <1>3, <3>1
    <3> QED
      BY <2>2, <3>2
  <2>3. Nat \subseteq Good
    <3> HIDE DEF Good
    <3> QED
      BY <2>1, <2>2, SetInduction
  <2>4. power(k)[k] = power(k + 1)[k]
    BY <2>3
  <2>5. k + 1 \in 0..(k + 1) /\ k + 1 \in Nat /\ k + 1 # 0 /\ (k + 1) - 1 = k
    OBVIOUS
  <2>6. power(k + 1)[k + 1] = 2 * power(k + 1)[k]
    BY <1>3, <2>5
  <2> QED
    BY <1>1, <2>4, <2>6
<1> QED
  BY <1>4, <1>5

(* They exceed their exponent and grow with it.                            *)
LEMMA PowerOfTwoFacts ==
  /\ \A k \in Nat : PowerOfTwo(k) \in Nat /\ PowerOfTwo(k) >= k + 1
  /\ \A j, k \in Nat : j <= k => PowerOfTwo(j) <= PowerOfTwo(k)
<1> DEFINE Good == {k \in Nat : PowerOfTwo(k) \in Nat /\ PowerOfTwo(k) >= k + 1}
<1>1. 0 \in Good
  BY PowerOfTwoDefined
<1>2. ASSUME NEW k \in Nat, k \in Good PROVE k + 1 \in Good
  BY <1>2, PowerOfTwoDefined
<1>3. Nat \subseteq Good
  <2> HIDE DEF Good
  <2> QED
    BY <1>1, <1>2, SetInduction
<1>4. \A k \in Nat : PowerOfTwo(k) \in Nat /\ PowerOfTwo(k) >= k + 1
  BY <1>3
<1>5. ASSUME NEW j \in Nat PROVE \A k \in Nat : j <= k => PowerOfTwo(j) <= PowerOfTwo(k)
  <2> DEFINE Above == {k \in Nat : j <= k => PowerOfTwo(j) <= PowerOfTwo(k)}
  <2>1. 0 \in Above
    <3>1. j <= 0 => j = 0
      OBVIOUS
    <3> QED
      BY <1>4, <3>1
  <2>2. ASSUME NEW k \in Nat, k \in Above PROVE k + 1 \in Above
    <3>1. PowerOfTwo(k) \in Nat /\ PowerOfTwo(j) \in Nat /\ PowerOfTwo(k + 1) = 2 * PowerOfTwo(k)
      BY <1>4, PowerOfTwoDefined
    <3>2. j <= k + 1 => j <= k \/ j = k + 1
      OBVIOUS
    <3>3. PowerOfTwo(k) <= PowerOfTwo(k + 1) /\ PowerOfTwo(k + 1) \in Nat
      BY <3>1
    <3>4. CASE j <= k
      BY <2>2, <3>1, <3>3, <3>4
    <3>5. CASE j = k + 1
      BY <3>3, <3>5
    <3> QED
      BY <3>2, <3>4, <3>5
  <2>3. Nat \subseteq Above
    <3> HIDE DEF Above
    <3> QED
      BY <2>1, <2>2, SetInduction
  <2> QED
    BY <2>3
<1> QED
  BY <1>4, <1>5

-----------------------------------------------------------------------------
(* Rules that keep the tree in shape, and why they leave it leaves enough. *)

(* An open node that was split has an open child whose sibling either is   *)
(* closed, and implies it, or is open too; neither is implied then.        *)
BothOrOne(t, n, m, s) ==
  /\ m \in ChildrenOf(t, n) /\ s = Sibling(t, m) /\ ~ t[m].closed
  /\ m \in 2..Len(t) /\ s \in 2..Len(t) /\ t[m].parent = n /\ t[s].parent = n
  /\ t[s].closed => t[m].implied
  /\ ~ t[s].closed => ~ t[m].implied /\ ~ t[s].implied

(* Every open node that was split is of one kind or the other.             *)
LEMMA OpenSplitNode ==
  ASSUME config \in Configurations, NEW t, TreeShape(t), FairTree(t),
         NEW n \in DOMAIN t, ~ t[n].closed, ~ IsLeaf(t, n)
  PROVE  \E m, s : BothOrOne(t, n, m, s)
<1>1. /\ SiblingsAreImplied(t) /\ Leads(t, n)
  BY DEF FairTree, FairExcept, LeadsExcept
<1>2. PICK a \in (n + 1)..(Len(t) - 1) :
           /\ t[n].children = <<a, a + 1>> /\ ChildrenOf(t, n) = {a, a + 1}
           /\ a \in 2..Len(t) /\ a + 1 \in 2..Len(t)
           /\ t[a].parent = n /\ t[a + 1].parent = n
           /\ Sibling(t, a) = a + 1 /\ Sibling(t, a + 1) = a
  BY SplitNodeFacts
<1>3. PICK m \in {a, a + 1} : ~ t[m].closed
  BY <1>1, <1>2 DEF Leads
<1>4. PICK s \in {a, a + 1} : s = Sibling(t, m) /\ m = Sibling(t, s)
  BY <1>2
<1>5. /\ m \in 2..Len(t) /\ s \in 2..Len(t) /\ t[m].parent = n /\ t[s].parent = n
  BY <1>2
<1>6. (t[m].implied <=> t[s].closed) /\ (t[s].implied <=> t[m].closed)
  BY <1>1, <1>4, <1>5 DEF SiblingsAreImplied
<1> QED
  BY <1>2, <1>3, <1>4, <1>5, <1>6 DEF BothOrOne

(* A measure of the nodes that an only open child keeps, and two open      *)
(* children increase by j and k: weights that decrease with it no faster   *)
(* than their sum allows, to 1 at the leaves, count leaves of the tree.    *)
Increases(t, M, j, k) ==
  \A n \in DOMAIN t : \A m, s : BothOrOne(t, n, m, s) =>
    /\ t[s].closed => M[m] = M[n]
    /\ ~ t[s].closed => \/ M[m] = M[n] + j /\ M[s] = M[n] + k
                        \/ M[s] = M[n] + j /\ M[m] = M[n] + k

(* The weight of the root is at most the number of open leaves.            *)
LEMMA LeavesOfMeasure ==
  ASSUME config \in Configurations, NEW t, TreeShape(t), FairTree(t), ~ t[Root].closed,
         NEW M \in [DOMAIN t -> Nat], NEW j \in Nat, NEW k \in Nat, Increases(t, M, j, k),
         NEW g \in [Nat -> Nat], \A i \in Nat : g[i] <= g[i + j] + g[i + k],
         \A n \in LeavesBelow(t, Root) : g[M[n]] <= 1
  PROVE  g[M[Root]] <= Cardinality(LeavesBelow(t, Root))
<1>1. PICK W : W = [n \in DOMAIN t |-> g[M[n]]]
  OBVIOUS
<1>2. W \in [DOMAIN t -> Nat]
  BY <1>1
<1>3. ASSUME NEW n \in DOMAIN t, ~ t[n].closed PROVE WeighsNoMore(t, W, n)
  <2>1. CASE IsLeaf(t, n)
    <3>1. Root \in Ancestors(t, n)
      BY AncestorsFacts, TreeFacts
    <3>2. n \in LeavesBelow(t, Root)
      BY <1>3, <2>1, <3>1 DEF LeavesBelow
    <3> QED
      BY <1>1, <2>1, <3>2 DEF WeighsNoMore
  <2>2. CASE ~ IsLeaf(t, n)
    <3>1. PICK m, s : BothOrOne(t, n, m, s)
      BY <1>3, <2>2, OpenSplitNode
    <3>2. /\ m \in ChildrenOf(t, n) /\ s = Sibling(t, m) /\ ~ t[m].closed
          /\ m \in DOMAIN t /\ s \in DOMAIN t
      <4>1. DOMAIN t = 1..Len(t) /\ Len(t) \in Nat
        BY TreeFacts
      <4> QED
        BY <3>1, <4>1 DEF BothOrOne
    <3>3. /\ t[s].closed => M[m] = M[n]
          /\ ~ t[s].closed => \/ M[m] = M[n] + j /\ M[s] = M[n] + k
                              \/ M[s] = M[n] + j /\ M[m] = M[n] + k
      BY <3>1 DEF Increases
    <3>4. W[n] = g[M[n]] /\ W[m] = g[M[m]] /\ W[s] = g[M[s]]
      BY <1>1, <3>2
    <3>5. /\ M[n] \in Nat /\ M[n] + j \in Nat /\ M[n] + k \in Nat
          /\ g[M[n]] \in Nat /\ g[M[n] + j] \in Nat /\ g[M[n] + k] \in Nat
          /\ g[M[n]] <= g[M[n] + j] + g[M[n] + k]
      BY <3>2
    <3>6. t[s].closed => W[n] <= W[m]
      BY <3>3, <3>4, <3>5
    <3>7. ~ t[s].closed => W[n] <= W[m] + W[s]
      BY <3>3, <3>4, <3>5
    <3>8. W[n] <= (IF t[Sibling(t, m)].closed THEN W[m] ELSE W[m] + W[Sibling(t, m)])
      BY <3>2, <3>6, <3>7
    <3> QED
      BY <2>2, <3>2, <3>8 DEF WeighsNoMore
  <2> QED
    BY <2>1, <2>2
<1>4. Root \in DOMAIN t
  BY TreeFacts
<1>5. W[Root] <= Cardinality(LeavesBelow(t, Root))
  BY <1>2, <1>3, <1>4, LeavesOfWeight
<1> QED
  BY <1>1, <1>4, <1>5

(* The levels of a node, and its discrepancies.                            *)
Depths(t) == [n \in DOMAIN t |-> CountOn(t, NotImplied(t), n)]

(* An only open child is implied and adds no level; two add one each.      *)
LEMMA DepthsFacts ==
  ASSUME NEW t, TreeShape(t)
  PROVE  Depths(t) \in [DOMAIN t -> Nat] /\ Depths(t)[Root] = 0 /\ Increases(t, Depths(t), 1, 1)
<1> DEFINE Q == NotImplied(t)
<1>1. PICK N : N = Q
  OBVIOUS
<1>2. PICK M : M = Depths(t)
  OBVIOUS
<1>3. /\ CountOn(t, N, Root) = 0
      /\ \A n \in DOMAIN t : CountOn(t, N, n) \in Nat
      /\ \A n \in 2..Len(t) :
           /\ n \in N => CountOn(t, N, n) = CountOn(t, N, t[n].parent) + 1
           /\ n \notin N => CountOn(t, N, n) = CountOn(t, N, t[n].parent)
  BY CountOnFacts
<1>4. \A n \in DOMAIN t : M[n] = CountOn(t, N, n)
  BY <1>1, <1>2 DEF Depths
<1>5. M \in [DOMAIN t -> Nat] /\ M[Root] = 0
  <2>1. Root \in DOMAIN t
    BY TreeFacts
  <2> QED
    BY <1>1, <1>2, <1>3, <1>4, <2>1 DEF Depths
<1>6. ASSUME NEW n \in DOMAIN t, NEW m, NEW s, BothOrOne(t, n, m, s)
      PROVE  /\ t[s].closed => M[m] = M[n]
             /\ ~ t[s].closed => M[m] = M[n] + 1 /\ M[s] = M[n] + 1
  <2>1. /\ m \in 2..Len(t) /\ s \in 2..Len(t) /\ t[m].parent = n /\ t[s].parent = n
        /\ t[s].closed => t[m].implied
        /\ ~ t[s].closed => ~ t[m].implied /\ ~ t[s].implied
    BY <1>6 DEF BothOrOne
  <2>2. m \in DOMAIN t /\ s \in DOMAIN t
    BY <2>1, TreeFacts
  <2>3. t[s].closed => m \notin N
    BY <1>1, <2>1, <2>2 DEF NotImplied
  <2>4. ~ t[s].closed => m \in N /\ s \in N
    BY <1>1, <2>1, <2>2 DEF NotImplied
  <2> QED
    BY <1>3, <1>4, <2>1, <2>2, <2>3, <2>4
<1>7. Increases(t, M, 1, 1)
  BY <1>6 DEF Increases
<1> QED
  BY <1>2, <1>5, <1>7

(* Of two siblings one is a discrepancy.                                   *)
LEMMA OneIsDiscrepancy ==
  ASSUME TreeShape(nodes), config \in Configurations, NEW n \in DOMAIN nodes, ~ IsLeaf(nodes, n),
         NEW m \in ChildrenOf(nodes, n), NEW s, s = Sibling(nodes, m)
  PROVE  IsDiscrepancy(m) <=> ~ IsDiscrepancy(s)
<1>1. PICK a \in (n + 1)..(Len(nodes) - 1) :
           /\ nodes[n].children = <<a, a + 1>> /\ ChildrenOf(nodes, n) = {a, a + 1}
           /\ a \in 2..Len(nodes) /\ a + 1 \in 2..Len(nodes)
           /\ nodes[a].parent = n /\ nodes[a + 1].parent = n
           /\ Sibling(nodes, a) = a + 1 /\ Sibling(nodes, a + 1) = a
  BY SplitNodeFacts
<1>2. PICK b : b = a + 1
  OBVIOUS
<1>3. a # b /\ Head(nodes[n].children) = a
  BY <1>1, <1>2
<1>4. nodes[a].lb \in Int /\ nodes[b].lb \in Int
  <2>1. a \in DOMAIN nodes /\ b \in DOMAIN nodes
    BY <1>1, <1>2, TreeFacts
  <2>2. nodes[a] \in Nodes /\ nodes[b] \in Nodes
    BY <2>1, TreeFacts
  <2>3. MaxInteger \in Nat
    BY CostsAreBounded DEF MaxInteger
  <2> QED
    BY <2>2, <2>3 DEF Nodes
<1>5. IsDiscrepancy(a) <=> nodes[a].lb # nodes[b].lb /\ nodes[a].lb > nodes[b].lb
  BY <1>1, <1>2, <1>3 DEF IsDiscrepancy
<1>6. IsDiscrepancy(b) <=> nodes[a].lb = nodes[b].lb \/ nodes[b].lb > nodes[a].lb
  BY <1>1, <1>2, <1>3 DEF IsDiscrepancy
<1>7. IsDiscrepancy(a) <=> ~ IsDiscrepancy(b)
  BY <1>4, <1>5, <1>6
<1>8. (m = a /\ s = b) \/ (m = b /\ s = a)
  BY <1>1, <1>2
<1> QED
  BY <1>7, <1>8

(* A decision of two children counts for both, and a discrepancy for one.  *)
Discrepancies(t) == {m \in DOMAIN t : ~ t[m].implied /\ IsDiscrepancy(m)}
DepthsAndDiscrepancies ==
  [n \in DOMAIN nodes |-> Depths(nodes)[n] + CountOn(nodes, Discrepancies(nodes), n)]

(* The discrepancy of the model is such a count.                           *)
LEMMA DiscrepancyIsCounted ==
  ASSUME TreeShape(nodes), NEW n \in DOMAIN nodes
  PROVE  Discrepancy(n) = CountOn(nodes, Discrepancies(nodes), n)
<1>1. Ancestors(nodes, n) \subseteq DOMAIN nodes
  BY TreeFacts, AncestorsDefined
<1>2. {m \in Ancestors(nodes, n) \ {Root} : ~ nodes[m].implied /\ IsDiscrepancy(m)}
        = (Ancestors(nodes, n) \ {Root}) \cap Discrepancies(nodes)
  BY <1>1 DEF Discrepancies
<1> QED
  BY <1>2 DEF Discrepancy, CountOn

(* Of two open children one adds 1 to the sum, the other 2.                *)
LEMMA DepthsAndDiscrepanciesFacts ==
  ASSUME config \in Configurations, TreeShape(nodes)
  PROVE  /\ DepthsAndDiscrepancies \in [DOMAIN nodes -> Nat] /\ DepthsAndDiscrepancies[Root] = 0
         /\ Increases(nodes, DepthsAndDiscrepancies, 1, 2)
<1>1. PICK N : N = Discrepancies(nodes)
  OBVIOUS
<1>2. PICK M, D : M = DepthsAndDiscrepancies /\ D = Depths(nodes)
  OBVIOUS
<1>3. /\ CountOn(nodes, N, Root) = 0
      /\ \A n \in DOMAIN nodes : CountOn(nodes, N, n) \in Nat
      /\ \A n \in 2..Len(nodes) :
           /\ n \in N => CountOn(nodes, N, n) = CountOn(nodes, N, nodes[n].parent) + 1
           /\ n \notin N => CountOn(nodes, N, n) = CountOn(nodes, N, nodes[n].parent)
  BY CountOnFacts
<1>4. D \in [DOMAIN nodes -> Nat] /\ D[Root] = 0 /\ Increases(nodes, D, 1, 1)
  BY <1>2, DepthsFacts
<1>5. \A n \in DOMAIN nodes : M[n] = D[n] + CountOn(nodes, N, n)
  BY <1>1, <1>2 DEF DepthsAndDiscrepancies
<1>6. M \in [DOMAIN nodes -> Nat] /\ M[Root] = 0
  <2>1. Root \in DOMAIN nodes
    BY TreeFacts
  <2>2. M = [n \in DOMAIN nodes |-> M[n]]
    BY <1>2 DEF DepthsAndDiscrepancies
  <2>3. ASSUME NEW n \in DOMAIN nodes PROVE M[n] \in Nat
    <3>1. D[n] \in Nat /\ CountOn(nodes, N, n) \in Nat
      BY <1>3, <1>4
    <3> QED
      BY <1>5, <3>1
  <2> QED
    BY <1>3, <1>4, <1>5, <2>1, <2>2, <2>3
<1>7. ASSUME NEW n \in DOMAIN nodes, NEW m, NEW s, BothOrOne(nodes, n, m, s)
      PROVE  /\ nodes[s].closed => M[m] = M[n]
             /\ ~ nodes[s].closed => \/ M[m] = M[n] + 1 /\ M[s] = M[n] + 2
                                     \/ M[s] = M[n] + 1 /\ M[m] = M[n] + 2
  <2>1. /\ m \in ChildrenOf(nodes, n) /\ s = Sibling(nodes, m)
        /\ m \in 2..Len(nodes) /\ s \in 2..Len(nodes)
        /\ nodes[m].parent = n /\ nodes[s].parent = n
        /\ nodes[s].closed => nodes[m].implied
        /\ ~ nodes[s].closed => ~ nodes[m].implied /\ ~ nodes[s].implied
    BY <1>7 DEF BothOrOne
  <2>2. m \in DOMAIN nodes /\ s \in DOMAIN nodes
    BY <2>1, TreeFacts
  <2>3. ~ IsLeaf(nodes, n)
    <3>1. \A a : <<a, a + 1>> # <<>>
      OBVIOUS
    <3>2. nodes[n].children = <<>> => ChildrenOf(nodes, n) = {}
      BY <3>1 DEF TreeShape
    <3> QED
      BY <2>1, <3>2 DEF IsLeaf
  <2>4. IsDiscrepancy(m) <=> ~ IsDiscrepancy(s)
    BY <2>1, <2>3, OneIsDiscrepancy
  <2>5. /\ nodes[s].closed => D[m] = D[n]
        /\ ~ nodes[s].closed => D[m] = D[n] + 1 /\ D[s] = D[n] + 1
    BY <1>4, <1>7 DEF Increases
  <2>6. nodes[s].closed => m \notin N
    BY <1>1, <2>1, <2>2 DEF Discrepancies
  <2>7. ~ nodes[s].closed => (m \in N /\ s \notin N) \/ (s \in N /\ m \notin N)
    BY <1>1, <2>1, <2>2, <2>4 DEF Discrepancies
  <2>8. /\ CountOn(nodes, N, n) \in Nat /\ D[n] \in Nat
        /\ M[n] = D[n] + CountOn(nodes, N, n)
        /\ M[m] = D[m] + CountOn(nodes, N, m)
        /\ M[s] = D[s] + CountOn(nodes, N, s)
    BY <1>3, <1>4, <1>5, <2>2
  <2>9. /\ m \in N => CountOn(nodes, N, m) = CountOn(nodes, N, n) + 1
        /\ m \notin N => CountOn(nodes, N, m) = CountOn(nodes, N, n)
        /\ s \in N => CountOn(nodes, N, s) = CountOn(nodes, N, n) + 1
        /\ s \notin N => CountOn(nodes, N, s) = CountOn(nodes, N, n)
    BY <1>3, <2>1
  <2> QED
    BY <2>5, <2>6, <2>7, <2>8, <2>9
<1>8. Increases(nodes, M, 1, 2)
  BY <1>7 DEF Increases
<1> QED
  BY <1>2, <1>6, <1>8

(* Weights that grow by the numbers of Fibonacci, or double.               *)
LEMMA FibWeights ==
  ASSUME NEW leaves \in Nat \ {0}, NEW A, A = MaxAllowedDiscrepancyPlusDepth(leaves)
  PROVE  \E g \in [Nat -> Nat] : /\ \A i \in Nat : g[i] <= g[i + 1] + g[i + 2]
                                 /\ \A i \in Nat : i > A => g[i] = 1
                                 /\ g[0] >= leaves
<1>1. A \in 0..(leaves - 1)
  BY MaxAllowedFacts
<1>2. PICK f : IsFib(f, leaves) /\ f[A + 1] >= leaves
  BY MaxAllowedFacts
<1>3. f \in [0..leaves -> Nat]
  BY <1>2, FibFacts
<1>4. \A i \in 0..leaves : f[i] = IF i < 2 THEN i + 1 ELSE f[i - 1] + f[i - 2]
  BY <1>2 DEF IsFib, NextFib
<1>5. PICK g : g = [i \in Nat |-> IF i > A THEN 1 ELSE f[A + 1 - i]]
  OBVIOUS
<1>6. /\ \A i \in Nat : i > A => g[i] = 1
      /\ \A i \in 0..A : g[i] = f[A + 1 - i] /\ A + 1 - i \in 1..leaves
  BY <1>1, <1>5
<1>7. g \in [Nat -> Nat]
  <2>1. \A i \in Nat : g[i] \in Nat
    <3>1. \A i \in Nat : i > A \/ i \in 0..A
      BY <1>1
    <3>2. \A i \in 0..A : g[i] \in Nat
      BY <1>3, <1>6
    <3> QED
      BY <1>6, <3>1, <3>2
  <2> QED
    BY <1>5, <2>1
<1>8. ASSUME NEW i \in Nat PROVE g[i] <= g[i + 1] + g[i + 2]
  <2>1. CASE i > A
    BY <1>1, <1>6, <2>1
  <2>2. CASE i = A
    <3>1. g[i] = f[1] /\ g[i + 1] = 1 /\ g[i + 2] = 1
      BY <1>1, <1>6, <2>2
    <3>2. f[1] = 2
      BY <1>4
    <3> QED
      BY <3>1, <3>2
  <2>3. CASE i < A
    <3>1. /\ A + 1 - i \in 0..leaves /\ ~ (A + 1 - i < 2)
          /\ (A + 1 - i) - 1 = A + 1 - (i + 1) /\ (A + 1 - i) - 2 = A + 1 - (i + 2)
          /\ i \in 0..A /\ i + 1 \in 0..A
      BY <1>1, <2>3
    <3>2. f[A + 1 - i] = f[A + 1 - (i + 1)] + f[A + 1 - (i + 2)]
      BY <1>4, <3>1
    <3>3. g[i] = f[A + 1 - i] /\ g[i + 1] = f[A + 1 - (i + 1)]
      BY <1>6, <3>1
    <3>4. g[i + 2] = f[A + 1 - (i + 2)]
      <4>1. CASE i + 2 > A
        <5>1. A + 1 - (i + 2) = 0 /\ i + 2 \in Nat
          BY <1>1, <2>3, <4>1
        <5>2. f[0] = 1
          BY <1>4
        <5> QED
          BY <1>6, <4>1, <5>1, <5>2
      <4>2. CASE ~ (i + 2 > A)
        <5>1. i + 2 \in 0..A
          BY <1>1, <4>2
        <5> QED
          BY <1>6, <5>1
      <4> QED
        BY <4>1, <4>2
    <3>5. g[i] \in Nat /\ g[i + 1] \in Nat /\ g[i + 2] \in Nat
      BY <1>7
    <3> QED
      BY <3>2, <3>3, <3>4, <3>5
  <2> QED
    BY <1>1, <2>1, <2>2, <2>3
<1>9. g[0] >= leaves
  <2>1. 0 \in 0..A /\ A + 1 - 0 = A + 1
    BY <1>1
  <2> QED
    BY <1>2, <1>6, <2>1
<1> QED
  BY <1>6, <1>7, <1>8, <1>9

(* Weights that double, up to a depth.                                     *)
LEMMA PowerWeights ==
  ASSUME NEW D \in Nat
  PROVE  \E g \in [Nat -> Nat] : /\ \A i \in Nat : g[i] <= g[i + 1] + g[i + 1]
                                 /\ \A i \in Nat : i >= D => g[i] = 1
                                 /\ g[0] = PowerOfTwo(D)
<1>1. PICK g : g = [i \in Nat |-> IF i >= D THEN 1 ELSE PowerOfTwo(D - i)]
  OBVIOUS
<1>2. \A k \in Nat : PowerOfTwo(k) \in Nat
  BY PowerOfTwoFacts
<1>3. PowerOfTwo(0) = 1 /\ \A k \in Nat : PowerOfTwo(k + 1) = 2 * PowerOfTwo(k)
  BY PowerOfTwoDefined
<1>4. /\ \A i \in Nat : i >= D => g[i] = 1
      /\ \A i \in Nat : i < D => g[i] = PowerOfTwo(D - i)
  BY <1>1
<1>5. g \in [Nat -> Nat]
  <2>1. \A i \in Nat : g[i] \in Nat
    <3>1. \A i \in Nat : i >= D \/ (i < D /\ D - i \in Nat)
      OBVIOUS
    <3> QED
      BY <1>2, <1>4, <3>1
  <2> QED
    BY <1>1, <2>1
<1>6. ASSUME NEW i \in Nat PROVE g[i] <= g[i + 1] + g[i + 1]
  <2>1. CASE i >= D
    BY <1>4, <2>1
  <2>2. CASE i < D
    <3>1. PICK k \in Nat : k = D - (i + 1) /\ D - i = k + 1
      BY <2>2
    <3>2. g[i] = 2 * PowerOfTwo(k) /\ PowerOfTwo(k) \in Nat
      BY <1>2, <1>3, <1>4, <2>2, <3>1
    <3>3. g[i + 1] = PowerOfTwo(k)
      <4>1. CASE i + 1 >= D
        <5>1. k = 0
          BY <3>1, <4>1
        <5> QED
          BY <1>3, <1>4, <4>1, <5>1
      <4>2. CASE ~ (i + 1 >= D)
        BY <1>4, <3>1, <4>2
      <4> QED
        BY <4>1, <4>2
    <3> QED
      BY <3>2, <3>3
  <2> QED
    BY <2>1, <2>2
<1>7. g[0] = PowerOfTwo(D)
  <2>1. D - 0 = D /\ (0 >= D => D = 0)
    OBVIOUS
  <2> QED
    BY <1>3, <1>4, <2>1
<1> QED
  BY <1>4, <1>5, <1>6, <1>7

-----------------------------------------------------------------------------
(* A tree of balanced shape has no more leaves than wanted only when the   *)
(* tolerance allows a level more, or the number of leaves is a power of 2. *)
BalanceIsPossible ==
  \A c \in Configurations : c.strategy = "BALANCED_TREE" =>
    c.balance_tolerance > 0 \/ \E k \in Nat : c.leaves = PowerOfTwo(k)

(* A leaf that the rule refuses is so deep that 2^depth leaves are wanted  *)
(* at most.                                                                *)
LEMMA RefusedIsDeep ==
  ASSUME BalanceIsPossible, config \in Configurations, config.strategy = "BALANCED_TREE",
         NEW d \in Nat, ~ PowerOfTwo(d + 1) <= config.leaves * PowerOfTwo(config.balance_tolerance)
  PROVE  PowerOfTwo(d) >= config.leaves
<1>1. PICK n, tol : n = config.leaves /\ tol = config.balance_tolerance
  OBVIOUS
<1>2. n \in Nat \ {0} /\ tol \in Nat
  BY <1>1, TreeAssumption DEF ConfigurationOK
<1>3. /\ \A k \in Nat : PowerOfTwo(k) \in Nat /\ PowerOfTwo(k) >= k + 1
      /\ \A j, k \in Nat : j <= k => PowerOfTwo(j) <= PowerOfTwo(k)
  BY PowerOfTwoFacts
<1>4. PowerOfTwo(0) = 1 /\ \A k \in Nat : PowerOfTwo(k + 1) = 2 * PowerOfTwo(k)
  BY PowerOfTwoDefined
<1>5. ~ PowerOfTwo(d + 1) <= n * PowerOfTwo(tol)
  BY <1>1
<1>6. PowerOfTwo(d + 1) = 2 * PowerOfTwo(d) /\ PowerOfTwo(d) \in Nat
  BY <1>3, <1>4
<1>7. CASE tol > 0
  <2>1. PICK k \in Nat : tol = k + 1
    <3>1. tol - 1 \in Nat /\ tol = (tol - 1) + 1
      BY <1>2, <1>7
    <3> QED
      BY <3>1
  <2>2. PICK c : c = PowerOfTwo(k)
    OBVIOUS
  <2>3. c \in Nat /\ c >= 1 /\ PowerOfTwo(tol) = 2 * c
    BY <1>3, <1>4, <2>1, <2>2
  <2>4. n * (2 * c) = 2 * (n * c) /\ n * c \in Nat /\ n * c >= n
    BY <1>2, <2>3
  <2> QED
    BY <1>1, <1>2, <1>5, <1>6, <2>3, <2>4
<1>8. CASE tol = 0
  <2>1. PICK k \in Nat : n = PowerOfTwo(k)
    <3>1. tol > 0 \/ \E k \in Nat : config.leaves = PowerOfTwo(k)
      BY <1>1 DEF BalanceIsPossible
    <3>2. ~ tol > 0
      BY <1>8
    <3> QED
      BY <1>1, <3>1, <3>2
  <2>2. ~ PowerOfTwo(d + 1) <= PowerOfTwo(k)
    BY <1>2, <1>4, <1>5, <1>8, <2>1
  <2>3. ~ d + 1 <= k
    BY <1>3, <2>2
  <2>4. PowerOfTwo(k) <= PowerOfTwo(d)
    BY <1>3, <2>3
  <2> QED
    BY <1>1, <2>1, <2>4
<1> QED
  BY <1>2, <1>7, <1>8

(* The rule that keeps the tree in shape does not refuse every leaf.       *)
LEMMA SomeLeafIsAccepted ==
  ASSUME BalanceIsPossible, Inv, FairInv
  PROVE  SomeLeafCanBeSplit
<1> SUFFICES ASSUME ~ nodes[Root].closed, splits_wanted > 0,
                    \A n \in OpenLeaves : ~ AcceptsSplit(PathTo(nodes, n, offset), n)
             PROVE  FALSE
  BY DEF SomeLeafCanBeSplit
<1>1. /\ config \in Configurations /\ offset \in Nat /\ splits_wanted \in 0..config.leaves
      /\ GoodTree(nodes) /\ TreeShape(nodes) /\ FairTree(nodes)
      /\ Cardinality(OpenLeaves) + splits_wanted = config.leaves
  BY DEF Inv, TypeOK, TreeInv, GoodTree, FairInv, CountInv
<1>2. /\ config.leaves \in Nat \ {0} /\ config.strategy \in Strategies
      /\ config.balance_tolerance \in Nat
  BY <1>1, TreeAssumption DEF ConfigurationOK
<1>3. Root \in DOMAIN nodes
  BY <1>1, TreeFacts
<1>4. LeavesBelow(nodes, Root) = OpenLeaves
  <2>1. \A n \in DOMAIN nodes : Root \in Ancestors(nodes, n)
    BY <1>1, TreeFacts, AncestorsFacts
  <2> QED
    BY <2>1 DEF LeavesBelow, OpenLeaves, CanBeAssigned
<1>5. Cardinality(OpenLeaves) \in Nat
  BY <1>1, <1>4, LeavesBelowFacts
<1>6. Cardinality(OpenLeaves) < config.leaves
  BY <1>1, <1>2, <1>5
<1>7. \A n \in OpenLeaves : /\ n \in DOMAIN nodes
                            /\ MaxLevel(PathTo(nodes, n, offset)) = Depths(nodes)[n]
                            /\ Depths(nodes)[n] \in Nat
  <2>1. ASSUME NEW n \in OpenLeaves
        PROVE  /\ n \in DOMAIN nodes
               /\ MaxLevel(PathTo(nodes, n, offset)) = Depths(nodes)[n]
               /\ Depths(nodes)[n] \in Nat
    <3>1. n \in DOMAIN nodes
      BY DEF OpenLeaves
    <3>2. MaxLevel(PathTo(nodes, n, offset)) = CountOn(nodes, NotImplied(nodes), n)
      BY <1>1, <3>1, LevelsOfPath
    <3>3. Depths(nodes) \in [DOMAIN nodes -> Nat]
      BY <1>1, DepthsFacts
    <3> QED
      BY <3>1, <3>2, <3>3 DEF Depths
  <2> QED
    BY <2>1
<1>8. PICK m \in OpenLeaves : nodes[m].lb <= nodes[Root].lb
  BY <1>1, <1>3, <1>4, SomeLeafLeads
<1>9. CASE config.strategy = "OBJECTIVE_LB"
  BY <1>8, <1>9 DEF AcceptsSplit
<1>10. CASE config.strategy = "FIRST_PROPOSAL"
  BY <1>8, <1>10 DEF AcceptsSplit
<1>11. CASE config.strategy = "DISCREPANCY"
  <2>1. PICK A : A = MaxAllowedDiscrepancyPlusDepth(config.leaves)
    OBVIOUS
  <2>2. PICK g \in [Nat -> Nat] : /\ \A i \in Nat : g[i] <= g[i + 1] + g[i + 2]
                                  /\ \A i \in Nat : i > A => g[i] = 1
                                  /\ g[0] >= config.leaves
    BY <1>2, <2>1, FibWeights
  <2>3. A \in Nat
    BY <1>2, <2>1, MaxAllowedFacts
  <2>4. PICK M : M = DepthsAndDiscrepancies
    OBVIOUS
  <2>5. M \in [DOMAIN nodes -> Nat] /\ M[Root] = 0 /\ Increases(nodes, M, 1, 2)
    BY <1>1, <2>4, DepthsAndDiscrepanciesFacts
  <2>6. ASSUME NEW n \in LeavesBelow(nodes, Root) PROVE g[M[n]] <= 1
    <3>1. n \in OpenLeaves /\ n \in DOMAIN nodes
      BY <1>4, <1>7
    <3>2. ~ Discrepancy(n) + MaxLevel(PathTo(nodes, n, offset)) <= A + config.balance_tolerance
      BY <1>11, <2>1, <3>1 DEF AcceptsSplit
    <3>3. M[n] = Depths(nodes)[n] + CountOn(nodes, Discrepancies(nodes), n)
      BY <2>4, <3>1 DEF DepthsAndDiscrepancies
    <3>4. Discrepancy(n) = CountOn(nodes, Discrepancies(nodes), n)
      BY <1>1, <3>1, DiscrepancyIsCounted
    <3>5. CountOn(nodes, Discrepancies(nodes), n) \in Nat
      BY <1>1, <3>1, CountOnFacts
    <3>6. M[n] > A /\ M[n] \in Nat
      BY <1>2, <1>7, <2>3, <2>5, <3>1, <3>2, <3>3, <3>4, <3>5
    <3> QED
      BY <2>2, <3>6
  <2>7. g[M[Root]] <= Cardinality(LeavesBelow(nodes, Root))
    BY <1>1, <2>2, <2>5, <2>6, LeavesOfMeasure
  <2> QED
    BY <1>2, <1>4, <1>5, <1>6, <2>2, <2>5, <2>7
<1>12. CASE config.strategy = "BALANCED_TREE"
  <2>1. PICK D \in {k \in Nat : PowerOfTwo(k) >= config.leaves} :
             \A k \in {j \in Nat : PowerOfTwo(j) >= config.leaves} : D <= k
    <3>1. \A k \in Nat : PowerOfTwo(k) \in Nat /\ PowerOfTwo(k) >= k + 1
      BY PowerOfTwoFacts
    <3>2. config.leaves \in {k \in Nat : PowerOfTwo(k) >= config.leaves}
      <4>1. PICK n \in Nat : n = config.leaves
        BY <1>2
      <4>2. PowerOfTwo(n) \in Nat /\ PowerOfTwo(n) >= n + 1
        BY <3>1
      <4>3. PowerOfTwo(n) >= n
        BY <4>2
      <4> QED
        BY <4>1, <4>3
    <3> QED
      BY <3>2, LeastElement
  <2>2. PICK g \in [Nat -> Nat] : /\ \A i \in Nat : g[i] <= g[i + 1] + g[i + 1]
                                  /\ \A i \in Nat : i >= D => g[i] = 1
                                  /\ g[0] = PowerOfTwo(D)
    BY <2>1, PowerWeights
  <2>3. PICK M : M = Depths(nodes)
    OBVIOUS
  <2>4. M \in [DOMAIN nodes -> Nat] /\ M[Root] = 0 /\ Increases(nodes, M, 1, 1)
    BY <1>1, <2>3, DepthsFacts
  <2>5. ASSUME NEW n \in LeavesBelow(nodes, Root) PROVE g[M[n]] <= 1
    <3>1. n \in OpenLeaves /\ n \in DOMAIN nodes
      BY <1>4, <1>7
    <3>2. PICK d \in Nat : d = M[n] /\ d = MaxLevel(PathTo(nodes, n, offset))
      BY <1>7, <2>3, <3>1
    <3>3. ~ PowerOfTwo(d + 1) <= config.leaves * PowerOfTwo(config.balance_tolerance)
      BY <1>12, <3>1, <3>2 DEF AcceptsSplit
    <3>4. PowerOfTwo(d) >= config.leaves
      BY <1>1, <1>12, <3>3, RefusedIsDeep
    <3>5. d >= D
      BY <2>1, <3>4
    <3> QED
      BY <2>2, <3>2, <3>5
  <2>6. g[M[Root]] <= Cardinality(LeavesBelow(nodes, Root))
    BY <1>1, <2>2, <2>4, <2>5, LeavesOfMeasure
  <2> QED
    BY <1>2, <1>4, <1>5, <1>6, <2>1, <2>2, <2>4, <2>6
<1> QED
  BY <1>2, <1>9, <1>10, <1>11, <1>12 DEF Strategies

(* While splits are wanted, the rule that keeps the tree in shape does not *)
(* refuse every open leaf, when a balanced tree is given its tolerance or a*)
(* power of two of leaves: no worker proposes splits in vain for ever.     *)
THEOREM SomeLeafIsSplit == BalanceIsPossible => (Spec => []SomeLeafCanBeSplit)
<1> SUFFICES ASSUME BalanceIsPossible PROVE Spec => []SomeLeafCanBeSplit
  OBVIOUS
<1>1. Init => Inv /\ FairInv
  BY InitInv, FairInit
<1>2. Inv /\ FairInv /\ [Next]_vars => (Inv /\ FairInv)'
  BY NextInv, FairNext
<1>3. Inv /\ FairInv => SomeLeafCanBeSplit
  BY SomeLeafIsAccepted
<1> QED
  BY <1>1, <1>2, <1>3, PTL DEF Spec
=============================================================================
