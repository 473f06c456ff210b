----------------------------- MODULE SharedTree -----------------------------
(***************************************************************************)
(* The shared tree search of CP-SAT (ortools/sat/work_assignment.{h,cc}):  *)
(* a SharedTreeManager keeps a binary tree of decisions, a SharedTreeWorker*)
(* explores the subtree of the leaf it is assigned and reports, when it is *)
(* back at level zero, what it learned about the nodes on its path.        *)
(*                                                                         *)
(* The engine of a worker is external.  From the decisions of its path up  *)
(* to a level it may deduce whatever holds for the solutions that satisfy  *)
(* them and improve on the best one; what it deduced before a solution was *)
(* found is weaker, and remains true.  Literals are of Boolean variables.  *)
(***************************************************************************)
EXTENDS Integers, SequencesExt, FiniteSetsExt

CONSTANTS
  Workers,
  Configurations   \* the problem to solve, and the parameters

Literals(vars) == vars \X BOOLEAN
Negated(lit) == <<lit[1], ~lit[2]>>
NoLiteral == <<>>

(* A configuration has Boolean variables, the cost of each solution, what  *)
(* the engine may branch on, share and claim as a bound, and the parameters*)
(* of the shared tree, for all workers together, with the constants of     *)
(* work_assignment.cc on restarts.                                         *)
NoSolutionOf(c) == 1 + Max({0} \cup {c.cost[s] : s \in DOMAIN c.cost})
MaxIntegerOf(c) == NoSolutionOf(c)        \* kMaxIntegerValue

Strategies == {"DISCREPANCY", "OBJECTIVE_LB", "BALANCED_TREE", "FIRST_PROPOSAL"}
ConfigurationOK(c) ==
  /\ DOMAIN c.cost \subseteq [c.variables -> BOOLEAN] /\ IsFiniteSet(DOMAIN c.cost)
  /\ \A s \in DOMAIN c.cost : c.cost[s] \in Nat
  /\ c.branches \cup c.shared \subseteq Literals(c.variables)
  /\ c.bounds \subseteq 0..MaxIntegerOf(c)
  /\ c.trail_sharing \in BOOLEAN /\ (c.shared # {} => c.trail_sharing)
  /\ c.leaves \in Nat \ {0} /\ c.max_nodes \in Nat
  /\ c.initial_restarts \in Nat /\ c.syncs_per_restart \in Nat
  /\ c.strategy \in Strategies /\ c.balance_tolerance \in Nat

ASSUME TreeAssumption ==
  /\ Workers # {} /\ IsFiniteSet(Workers)
  /\ \A c \in Configurations : ConfigurationOK(c)

VARIABLES
  config,
  nodes,         \* nodes_, numbered from 1, the root
  offset,        \* node_id_offset_
  unassigned,    \* unassigned_leaves_
  splits_wanted, \* num_splits_wanted_
  num_restarts,  \* num_restarts_
  num_syncs,     \* num_syncs_since_restart_, up to where it makes a restart
  path,          \* assigned_tree_ of each worker
  pc,            \* a worker searches, or is about to replace its subtree
  best,          \* the cost of the best solution
  solved         \* NotifyThatImprovingProblemIsInfeasible() was called

treeVars == <<nodes, offset, unassigned, splits_wanted>>
restartVars == <<num_restarts, num_syncs>>
searchVars == <<best, solved>>
vars == <<config, treeVars, restartVars, path, pc, searchVars>>

Feasible == DOMAIN config.cost
Cost == config.cost
NoSolution == NoSolutionOf(config)
MaxInteger == MaxIntegerOf(config)
Improving == {s \in Feasible : Cost[s] < best}
Satisfies(s, lits) == \A lit \in lits : s[lit[1]] = lit[2]

-----------------------------------------------------------------------------
(* ProtoTrail: the nodes below the root with their literals, and for each  *)
(* level where it starts, with its decision.  Level 0 has no decision; what*)
(* is implied there is only known.                                         *)

EmptyPath == [trail |-> <<>>, levels |-> <<>>, known |-> {}]

MaxLevel(p) == Len(p.levels)
DecisionIndex(p, l) == p.levels[l].first
Decision(p, l) == p.trail[DecisionIndex(p, l)].literal
Decisions(p, l) == {Decision(p, k) : k \in 1..l}
Implications(p, l) == p.levels[l].implications
ObjectiveLb(p, l) == p.levels[l].lb

(* The entries of the trail that belong to level l, for NodeIds().         *)
Start(p, l) == IF l = 0 THEN 1 ELSE DecisionIndex(p, l)
End(p, l) == IF l = MaxLevel(p) THEN Len(p.trail) ELSE DecisionIndex(p, l + 1) - 1
Entries(p, l) == Start(p, l)..End(p, l)

PushLevel(p, literal, lb, id) ==
  [trail  |-> Append(p.trail, [id |-> id, literal |-> literal]),
   levels |-> Append(p.levels,
                [first |-> Len(p.trail) + 1, implications |-> {},
                 lb |-> Max({lb} \cup {ObjectiveLb(p, l) : l \in {MaxLevel(p)} \ {0}})]),
   known  |-> p.known]

(* Mistake: the node of the decision is forgotten with its level.          *)
MistakeSetLevelImplied(p, l) ==
  LET levels == RemoveAt(p.levels, l)
  IN [p EXCEPT !.trail = RemoveAt(@, DecisionIndex(p, l)),
               !.levels = [k \in DOMAIN levels |->
                             [levels[k] EXCEPT !.first = IF k < l THEN @ ELSE @ - 1]]]
(* The decision and the implications of level l hold at the level above.   *)
SetLevelImplied(p, l) ==
  LET implied == {Decision(p, l)} \cup Implications(p, l)
      above == [k \in DOMAIN p.levels |->
                  IF k # l - 1 THEN p.levels[k]
                  ELSE [first |-> DecisionIndex(p, k),
                        implications |-> Implications(p, k) \cup implied,
                        lb |-> Max({ObjectiveLb(p, k), ObjectiveLb(p, l)})]]
  IN [trail |-> p.trail, levels |-> RemoveAt(above, l),
      known |-> p.known \cup {lit \in implied : l = 1}]

(* Mistake: a level is mixed up with its place in implications_.           *)
MistakeAddImplications(p, l, lits) ==
  [p EXCEPT !.levels = [k \in DOMAIN p.levels |->
     [p.levels[k] EXCEPT !.implications = @ \cup {lit \in lits : k = l - 1}]]]
(* What is known at level 0 is no implication, but is not added again.     *)
AddImplications(p, l, lits) ==
  LET new == {lit \in lits : lit \notin p.known /\ \A k \in 1..l : lit \notin Implications(p, k)}
  IN [trail |-> p.trail,
      levels |-> [k \in DOMAIN p.levels |->
                    [first |-> DecisionIndex(p, k), lb |-> ObjectiveLb(p, k),
                     implications |-> Implications(p, k) \cup {lit \in new : k = l}]],
      known |-> p.known]

-----------------------------------------------------------------------------
(* The tree.                                                               *)

Root == 1
Id(n) == offset + n - 1
Index(id) == id - offset + 1
IsLeaf(t, n) == t[n].children = <<>>
Sibling(t, n) ==
  LET children == t[t[n].parent].children
  IN IF children[1] = n THEN children[2] ELSE children[1]

(* The nodes from the root to n.  A node follows its parent in t.          *)
Ancestors(t, n) ==
  LET up[m \in DOMAIN t] == {m} \cup (IF m = Root THEN {} ELSE up[t[m].parent])
  IN up[n]

(* GetTrailInfo(): the closest node that keeps implications.               *)
TrailInfo(t, n) == Max({m \in Ancestors(t, n) : t[m].has_info})

NewNode(literal, lb, parent) ==
  [literal |-> literal, lb |-> lb, parent |-> parent, children |-> <<>>,
   closed |-> FALSE, implied |-> FALSE, has_info |-> TRUE, implications |-> {}]

(* AssignLeaf(), for one more node on the path.                            *)
PushNode(p, node, id) ==
  LET pushed == PushLevel(p, node.literal, node.lb, id)
      assigned == IF node.implied THEN SetLevelImplied(pushed, MaxLevel(pushed)) ELSE pushed
  IN IF node.has_info /\ config.trail_sharing
     THEN AddImplications(assigned, MaxLevel(assigned), node.implications) ELSE assigned

PathTo(t, leaf, first_id) ==
  LET to[n \in DOMAIN t] ==
        IF n = Root THEN EmptyPath
        ELSE PushNode(to[t[n].parent], t[n], first_id + n - 1)
  IN to[leaf]

(* GetAssignedNodes().  After a restart the root is what is left of a path.*)
IsValid(p) == p.trail # <<>> => Last(p.trail).id >= offset
AssignedNodes(p) ==
  <<Root>> \o (IF IsValid(p) THEN [i \in DOMAIN p.trail |-> Index(p.trail[i].id)]
               ELSE <<>>)
AssignedNode(p) == Last(AssignedNodes(p))

(* The root keeps the solutions that a node with no parent has.            *)
Init ==
  /\ config \in Configurations
  /\ nodes = <<NewNode(NoLiteral, 0, 0)>>
  /\ offset = 0
  /\ unassigned = {Root}
  /\ splits_wanted = config.leaves - 1
  /\ num_restarts = 0 /\ num_syncs = 0
  /\ path = [w \in Workers |-> EmptyPath]
  /\ pc = [w \in Workers |-> "search"]
  /\ best = NoSolution /\ solved = FALSE

-----------------------------------------------------------------------------
(* ProcessNodeChanges(), in three parts.                                   *)

(* The nodes closed with those of to_close: what is below them, and nodes  *)
(* with two closed children.  Children follow their parent: two passes.    *)
ClosedWith(t, to_close) ==
  LET below == {n \in DOMAIN t : Ancestors(t, n) \cap to_close # {}}
      both[n \in DOMAIN t] ==
        \/ t[n].closed \/ n \in below
        \/ ~ IsLeaf(t, n) /\ \A i \in 1..2 : both[t[n].children[i]]
  IN {n \in DOMAIN t : both[n] /\ ~ t[n].closed}

(* Their siblings are implied.                                             *)
CloseNodes(t, newly) ==
  [n \in DOMAIN t |->
     LET m == [t[n] EXCEPT !.implied = @ \/ (n # Root /\ Sibling(t, n) \in newly)]
     IN IF n \in newly
        THEN [m EXCEPT !.closed = TRUE, !.lb = MaxInteger, !.has_info = (n = Root),
                       !.implications = {}]
        ELSE m]

(* Mistake: only trail info with implications is given up.                 *)
MistakeMoveImplications(t) ==
  [n \in DOMAIN t |-> [t[n] EXCEPT !.has_info =
                         @ /\ (n = Root \/ ~ t[n].implied \/ t[n].implications = {})]]
(* Implications of an implied node move up to where trail info is kept.    *)
(* Those of the root are exchanged by the SharedBoundsManager.             *)
MoveImplications(t) ==
  LET moves == {n \in DOMAIN t : n # Root /\ t[n].implied /\ t[n].has_info}
      kept == [n \in DOMAIN t |-> [t[n] EXCEPT !.has_info = @ /\ n \notin moves]]
      moved(n) == UNION {t[m].implications :
                           m \in {k \in moves : TrailInfo(kept, k) = n}}
  IN [n \in DOMAIN t |->
        [kept[n] EXCEPT !.implications =
           IF n = Root \/ n \in moves THEN {} ELSE @ \cup moved(n)]]

(* Mistake: a node gets the better of the bounds of its children.          *)
MistakeChildBound(bounds) == Max(bounds)
ChildBound(bounds) == Min(bounds)

(* From the nodes of to_update upward, as long as a bound improves.        *)
UpdateBounds(t, to_update) ==
  LET lb[n \in DOMAIN t] ==
        LET children == ToSet(t[n].children)
        IN IF /\ children # {} /\ ~ t[n].closed
              /\ n \in to_update \/ \E m \in children : lb[m] > t[m].lb
           THEN Max({t[n].lb, ChildBound({lb[m] : m \in children})})
           ELSE t[n].lb
  IN [n \in DOMAIN t |-> [t[n] EXCEPT !.lb = lb[n]]]

(* What becomes of the tree when these nodes are closed, or updated.       *)
ChangedTree(t, to_close, to_update) ==
  LET newly == ClosedWith(t, to_close)
      closed == MoveImplications(CloseNodes(t, newly))
  IN UpdateBounds(closed, to_update \cup {t[n].parent : n \in newly})

(* Mistake: every closed node is counted as a leaf.                        *)
MistakeProcessNodeChanges(t) ==
  /\ nodes' = t
  /\ splits_wanted' = splits_wanted + Cardinality({n \in DOMAIN t : t[n].closed /\ ~ nodes[n].closed})
  /\ solved' = (solved \/ t[Root].closed)
(* ProcessNodeChanges() makes t of the nodes: closing leaves makes room for*)
(* as many splits, and closing the root solves the problem.                *)
ProcessNodeChanges(t) ==
  LET newly == {n \in DOMAIN t : t[n].closed /\ ~ nodes[n].closed}
  IN /\ nodes' = t
     /\ splits_wanted' = splits_wanted + Cardinality({n \in newly : IsLeaf(t, n)})
     /\ solved' = (solved \/ Root \in newly)

-----------------------------------------------------------------------------
(* The methods of the manager.                                             *)

(* RestartLockHeld().  The root keeps its bound.                           *)
RestartLockHeld(t) ==
  /\ offset' = offset + Len(t)
  /\ nodes' = <<[t[Root] EXCEPT !.children = <<>>]>>
  /\ unassigned' = {}
  /\ splits_wanted' = config.leaves - 1
  /\ num_restarts' = num_restarts + 1
  /\ num_syncs' = 0

(* The counter only matters up to the value that makes a restart.          *)
SyncsOfARestart == Cardinality(Workers) * (config.syncs_per_restart + 1)

(* What a path brings to the tree: the implications and the bounds of its  *)
(* levels, and the nodes at a level that are not its decision.             *)
DecisionNode(p, l) == Index(p.trail[DecisionIndex(p, l)].id)
DecisionNodes(p) == {DecisionNode(p, l) : l \in 1..MaxLevel(p)}
ImpliedNodes(p) == {Index(p.trail[i].id) : i \in DOMAIN p.trail} \ DecisionNodes(p)

(* The levels with a better bound than their node, or with implications    *)
(* that node n keeps.                                                      *)
Raised(p) == {l \in 1..MaxLevel(p) : nodes[DecisionNode(p, l)].lb < ObjectiveLb(p, l)}
KeptAt(p, n) ==
  {l \in 1..MaxLevel(p) : \E i \in Entries(p, l) :
     LET m == Index(p.trail[i].id) IN ~ nodes[m].closed /\ TrailInfo(nodes, m) = n}

WithPath(p) ==
  [n \in DOMAIN nodes |->
     [nodes[n] EXCEPT
        !.lb = Max({@} \cup {ObjectiveLb(p, l) : l \in {k \in Raised(p) : DecisionNode(p, k) = n}}),
        !.implications = @ \cup UNION {Implications(p, l) : l \in KeptAt(p, n)}]]

(* Between the locks of SyncTree() and ReplaceTree(): a worker with no     *)
(* level replaces its subtree, any other does if its clauses are bad.      *)
ShouldReplaceSubtree(w, p) ==
  \E replace \in {TRUE, MaxLevel(p) = 0} :
    pc' = [pc EXCEPT ![w] = IF replace THEN "replace" ELSE "search"]

SetPath(w, p) == path' = [path EXCEPT ![w] = p]

(* SyncTree() of a path that a restart made invalid.                       *)
SyncInvalid(w) ==
  /\ pc[w] = "search" /\ ~ IsValid(path[w])
  /\ SetPath(w, EmptyPath) /\ ShouldReplaceSubtree(w, EmptyPath)
  /\ UNCHANGED <<config, treeVars, restartVars, searchVars>>

(* The tree with what the path brings, and its consequences.               *)
SyncedTree(p) ==
  ChangedTree(WithPath(p), {Sibling(nodes, n) : n \in ImpliedNodes(p)},
              {nodes[DecisionNode(p, l)].parent : l \in Raised(p)})

(* SyncTree(): what was learned goes into the tree; then the subtree is    *)
(* closed, or the tree is restarted, or the path is read from the tree.    *)
SyncTree(w) ==
  /\ pc[w] = "search" /\ IsValid(path[w])
  /\ \E t \in {SyncedTree(path[w])} :
       LET leaf == AssignedNode(path[w])
           syncs == Min({num_syncs + 1, SyncsOfARestart})
           restart == syncs = SyncsOfARestart /\ num_restarts < config.initial_restarts
       IN \/ /\ t[leaf].closed
             /\ ProcessNodeChanges(t)
             /\ SetPath(w, EmptyPath)
             /\ UNCHANGED <<offset, unassigned, restartVars>>
          \/ /\ ~ t[leaf].closed /\ restart
             /\ RestartLockHeld(t)
             /\ SetPath(w, EmptyPath)
             /\ UNCHANGED solved
          \/ /\ ~ t[leaf].closed /\ ~ restart
             /\ ProcessNodeChanges(t)
             /\ num_syncs' = syncs
             /\ SetPath(w, PathTo(t, leaf, offset))
             /\ UNCHANGED <<offset, unassigned, num_restarts>>
  /\ ShouldReplaceSubtree(w, path'[w])
  /\ UNCHANGED <<config, best>>

(* ReplaceTree(): a leaf that is given up can be assigned again.           *)
CanBeAssigned(n) == ~ nodes[n].closed /\ IsLeaf(nodes, n)
(* Mistake: a leaf that has become implied is not given back.              *)
MistakeGivenUp(p) == {n \in {AssignedNode(p)} : MaxLevel(p) > 0 /\ CanBeAssigned(n)}
GivenUp(p) == {n \in {AssignedNode(p)} : n # Root /\ CanBeAssigned(n)}

(* Entries that are closed or split are of no use: all go at once.         *)
ReplaceTree(w) ==
  LET leaves == {n \in unassigned \cup GivenUp(path[w]) : CanBeAssigned(n)}
  IN /\ pc[w] = "replace"
     /\ \/ \E leaf \in leaves :
             /\ SetPath(w, PathTo(nodes, leaf, offset))
             /\ unassigned' = leaves \ {leaf}
        \/ /\ leaves = {}
           /\ SetPath(w, EmptyPath)
           /\ unassigned' = {}
     /\ pc' = [pc EXCEPT ![w] = "search"]
     /\ UNCHANGED <<config, nodes, offset, splits_wanted, restartVars, searchVars>>

(* The rules that keep the tree in shape.  Nodes of one discrepancy plus   *)
(* depth come in the numbers of Fibonacci.                                 *)
(* Mistake: the number of leaves is compared with that of the next depth.  *)
MistakeMaxAllowedDiscrepancyPlusDepth(num_leaves) ==
  LET fib[i \in 0..(num_leaves + 1)] == IF i < 2 THEN i + 1 ELSE fib[i - 1] + fib[i - 2]
  IN Min({i \in 0..num_leaves : i = num_leaves \/ fib[i + 2] > num_leaves})
MaxAllowedDiscrepancyPlusDepth(num_leaves) ==
  LET fib[i \in 0..num_leaves] == IF i < 2 THEN i + 1 ELSE fib[i - 1] + fib[i - 2]
  IN Min({i \in 0..num_leaves : i = num_leaves \/ fib[i + 1] >= num_leaves})

IsDiscrepancy(n) ==
  LET sibling == nodes[Sibling(nodes, n)]
  IN IF nodes[n].lb = sibling.lb THEN n # Head(nodes[nodes[n].parent].children)
     ELSE nodes[n].lb > sibling.lb

Discrepancy(n) ==
  Cardinality({m \in Ancestors(nodes, n) \ {Root} :
                 ~ nodes[m].implied /\ IsDiscrepancy(m)})

(* A depth is compared with a number of leaves as its power of two.        *)
PowerOfTwo(k) ==
  LET power[i \in 0..k] == IF i = 0 THEN 1 ELSE 2 * power[i - 1] IN power[k]

AcceptsSplit(p, n) ==
  CASE config.strategy = "DISCREPANCY" ->
         Discrepancy(n) + MaxLevel(p) <=
           MaxAllowedDiscrepancyPlusDepth(config.leaves) + config.balance_tolerance
    [] config.strategy = "OBJECTIVE_LB" -> nodes[n].lb <= nodes[Root].lb
    [] config.strategy = "BALANCED_TREE" ->
         PowerOfTwo(MaxLevel(p) + 1) <= config.leaves * PowerOfTwo(config.balance_tolerance)
    [] OTHER -> TRUE

HasRoom == Len(nodes) + 2 <= config.max_nodes

(* ProposeSplit(), when the proposal is accepted.  The literal is a        *)
(* decision that the engine takes below the last level of the path.        *)
ProposeSplit(w, literal) ==
  LET p == path[w]
      n == AssignedNode(p)
      first == Len(nodes) + 1
  IN /\ pc[w] = "search" /\ IsValid(p)
     /\ \A l \in 1..MaxLevel(p) :
          {literal, Negated(literal)} \cap
            ({Decision(p, l)} \cup Implications(p, l)) = {}
     /\ ~ nodes[n].closed /\ IsLeaf(nodes, n)
     /\ HasRoom /\ splits_wanted > 0 /\ AcceptsSplit(p, n)
     /\ nodes' = [nodes EXCEPT ![n].children = <<first, first + 1>>]
                   \o <<NewNode(literal, nodes[n].lb, n),
                        NewNode(Negated(literal), nodes[n].lb, n)>>
     /\ unassigned' = unassigned \cup {first + 1}
     /\ splits_wanted' = splits_wanted - 1
     /\ SetPath(w, PushLevel(p, literal, nodes[n].lb, Id(first)))
     /\ UNCHANGED <<config, offset, restartVars, pc, searchVars>>

-----------------------------------------------------------------------------
(* What a worker deduces at a level of its path.                           *)

Below(p, l) == {s \in Improving : Satisfies(s, Decisions(p, l))}

(* CloseTree(): a decision, an implication or the objective bound of the   *)
(* level is in conflict with the levels below.                             *)
CloseTree(w, l) ==
  LET p == path[w]
      n == DecisionNode(p, l)
  IN /\ pc[w] = "search" /\ Below(p, l) = {}
     /\ SetPath(w, EmptyPath)
     /\ IF Id(n) < offset THEN UNCHANGED <<nodes, splits_wanted, solved>>
        ELSE ProcessNodeChanges(ChangedTree(nodes, {n}, {}))
     /\ UNCHANGED <<config, offset, unassigned, restartVars, pc, best>>

(* SyncWithLocalTrail(): the next decision is implied by the levels before.*)
LevelIsImplied(w, l) ==
  LET p == path[w]
  IN /\ pc[w] = "search"
     /\ \A s \in Below(p, l - 1) : Satisfies(s, {Decision(p, l)})
     /\ SetPath(w, SetLevelImplied(p, l))
     /\ UNCHANGED <<config, treeVars, restartVars, pc, searchVars>>

(* SyncWithLocalTrail(): a literal of the trail is shared.                 *)
ShareImplication(w, l, literal) ==
  LET p == path[w]
  IN /\ pc[w] = "search"
     /\ \A s \in Below(p, l) : Satisfies(s, {literal})
     /\ \A k \in 1..l :
          /\ literal # Decision(p, k)
          /\ Negated(literal) \notin {Decision(p, k)} \cup Implications(p, k)
     /\ SetPath(w, AddImplications(p, l, {literal}))
     /\ UNCHANGED <<config, treeVars, restartVars, pc, searchVars>>

(* AddImplications(): the bound of the objective at a level.               *)
RaiseObjectiveLb(w, l, lb) ==
  LET p == path[w]
  IN /\ pc[w] = "search" /\ lb > ObjectiveLb(p, l)
     /\ \A s \in Below(p, l) : Cost[s] >= lb
     /\ SetPath(w, [p EXCEPT !.levels[l].lb = lb])
     /\ UNCHANGED <<config, treeVars, restartVars, pc, searchVars>>

(* Some worker finds a solution.                                           *)
NewSolution(s) ==
  /\ s \in Improving /\ best' = Cost[s]
  /\ UNCHANGED <<config, treeVars, restartVars, path, pc, solved>>

Next ==
  \/ \E w \in Workers :
       \/ SyncInvalid(w) \/ SyncTree(w) \/ ReplaceTree(w)
       \/ \E literal \in config.branches : ProposeSplit(w, literal)
       \/ \E l \in 1..MaxLevel(path[w]) :
            \/ CloseTree(w, l) \/ LevelIsImplied(w, l)
            \/ \E literal \in config.shared : ShareImplication(w, l, literal)
            \/ \E lb \in config.bounds : RaiseObjectiveLb(w, l, lb)
  \/ \E s \in Feasible : NewSolution(s)

Spec == Init /\ [][Next]_vars

-----------------------------------------------------------------------------
(* Properties.                                                             *)

Nodes ==
  [literal : Literals(config.variables) \cup {NoLiteral}, lb : 0..MaxInteger,
   parent : Nat, children : Seq(Nat), closed : BOOLEAN, implied : BOOLEAN,
   has_info : BOOLEAN, implications : SUBSET Literals(config.variables)]
TrailEntries == [id : Nat, literal : Literals(config.variables)]
PathLevels ==
  [first : Nat, implications : SUBSET Literals(config.variables), lb : 0..MaxInteger]
Paths ==
  [trail : Seq(TrailEntries), levels : Seq(PathLevels),
   known : SUBSET Literals(config.variables)]

(* The types of the state.  trail_info is "only set for open, non-implied  *)
(* nodes" and for the root: AssignLeaf() would add the implications of     *)
(* another node to a level that the path does not have.                    *)
TypeOK ==
  /\ config \in Configurations
  /\ nodes \in Seq(Nodes) /\ Len(nodes) \in 1..Max({1, config.max_nodes})
  /\ \A n \in DOMAIN nodes :
       /\ nodes[n].parent \in 0..(n - 1)
       /\ nodes[n].children \in {<<>>} \cup {<<m, m + 1>> : m \in (n + 1)..(Len(nodes) - 1)}
       /\ nodes[n].has_info = (n = Root \/ ~ (nodes[n].closed \/ nodes[n].implied))
  /\ offset \in Nat /\ unassigned \subseteq DOMAIN nodes
  /\ splits_wanted \in 0..config.leaves
  /\ num_restarts \in 0..config.initial_restarts /\ num_syncs \in 0..SyncsOfARestart
  /\ path \in [Workers -> Paths]
  /\ pc \in [Workers -> {"search", "replace"}]
  /\ best \in 0..NoSolution /\ solved \in BOOLEAN

OpenLeaves == {n \in DOMAIN nodes : CanBeAssigned(n)}
SolutionsAt(n) ==
  {s \in Improving : Satisfies(s, {nodes[m].literal : m \in Ancestors(nodes, n) \ {Root}})}

(* No solution that improves on the best one is lost: none is in a closed  *)
(* subtree, an implied node has all those of its parent, and the bound and *)
(* the implications of a node hold for those it has.                       *)
NoSolutionIsLost ==
  /\ solved => Improving = {}
  /\ \A n \in DOMAIN nodes :
       /\ nodes[n].closed => SolutionsAt(n) = {}
       /\ nodes[n].implied => SolutionsAt(n) = SolutionsAt(nodes[n].parent)
       /\ \A s \in SolutionsAt(n) :
            Cost[s] >= nodes[n].lb /\ Satisfies(s, nodes[n].implications)

(* What a worker is told, or has found, about a level of its path follows  *)
(* from the decisions up to that level, and from nothing else it was told. *)
PathsAreSound ==
  \A w \in Workers : \A l \in 1..MaxLevel(path[w]) : \A s \in Below(path[w], l) :
    /\ Satisfies(s, Implications(path[w], l))
    /\ Cost[s] >= ObjectiveLb(path[w], l)

(* A path that no restart made invalid leads from the root to a node: as   *)
(* GetAssignedNodes() checks, each node exists and is below the one before;*)
(* and the path has the literals of its nodes.                             *)
PathsFollowTheTree ==
  \A w \in Workers : IsValid(path[w]) =>
    LET assigned == AssignedNodes(path[w])
    IN \A i \in DOMAIN path[w].trail :
         /\ assigned[i + 1] \in DOMAIN nodes
         /\ nodes[assigned[i + 1]].parent = assigned[i]
         /\ nodes[assigned[i + 1]].literal = path[w].trail[i].literal

(* Workers "will avoid exploring the same subtrees as one another"         *)
(* (sat_parameters.proto): an open leaf other than the root is either      *)
(* unassigned or the assignment of exactly one worker.                     *)
LeavesAreShared ==
  \A n \in OpenLeaves \ {Root} :
    Cardinality({w \in Workers : IsValid(path[w]) /\ AssignedNode(path[w]) = n})
      = IF n \in unassigned THEN 0 ELSE 1

(* "we try to maintain the same number of leaves": the open leaves and the *)
(* wanted splits add up, whatever is closed and restarted.                 *)
SplitsAreCounted ==
  ~ nodes[Root].closed => Cardinality(OpenLeaves) + splits_wanted = config.leaves

(* While splits are wanted, some leaf can be split: the rule that keeps    *)
(* the tree in shape never refuses them all.  SPLIT_STRATEGY_BALANCED_TREE *)
(* needs a tolerance, unless the number of leaves is a power of 2.         *)
SomeLeafCanBeSplit ==
  ~ nodes[Root].closed /\ splits_wanted > 0 =>
    \E n \in OpenLeaves : AcceptsSplit(PathTo(nodes, n, offset), n)
=============================================================================
