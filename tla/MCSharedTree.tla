---------------------------- MODULE MCSharedTree ----------------------------
(* Small problems for SharedTree, and searches of them.                    *)
EXTENDS SharedTree

CONSTANTS x, y, z, w1, w2

Solution(a, b) == [v \in {x, y} |-> IF v = x THEN a ELSE b]

(* Three solutions of two variables; the best one is in a corner.          *)
Costs == (Solution(FALSE, TRUE) :> 1) @@ (Solution(TRUE, FALSE) :> 2)
           @@ (Solution(TRUE, TRUE) :> 2)

(* A third variable that tells whether both are true.                      *)
Conjunction == [s \in {s \in [{x, y, z} -> BOOLEAN] : s[z] = (s[x] /\ s[y]) /\ (s[x] \/ s[y])}
                  |-> IF s[x] THEN 2 ELSE 1]

Plain == [variables |-> {x, y}, cost |-> Costs, leaves |-> 3, max_nodes |-> 5,
          branches |-> {<<x, TRUE>>, <<y, TRUE>>}, shared |-> {}, bounds |-> {},
          trail_sharing |-> FALSE, initial_restarts |-> 0, syncs_per_restart |-> 0,
          strategy |-> "BALANCED_TREE", balance_tolerance |-> 1]

(* The shape of the tree, bounds, implications, and restarts.              *)
Searches ==
  {[Plain EXCEPT !.leaves = 4, !.strategy = "DISCREPANCY", !.balance_tolerance = 0],
   [Plain EXCEPT !.bounds = {2}, !.strategy = "OBJECTIVE_LB"],
   [Plain EXCEPT !.variables = {x, y, z}, !.cost = Conjunction,
                 !.trail_sharing = TRUE, !.shared = {<<z, TRUE>>}],
   [Plain EXCEPT !.leaves = 2, !.initial_restarts = 1, !.syncs_per_restart = 1,
                 !.strategy = "FIRST_PROPOSAL"]}

Symmetry == Permutations(Workers)
=============================================================================
