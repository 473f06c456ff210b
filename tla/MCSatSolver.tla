---------------------------- MODULE MCSatSolver ----------------------------
(* Small problems for SatSolver, each with what it is there for.           *)
EXTENDS SatSolver

Plain == [late |-> {}, any_level |-> FALSE,
          questions |-> << <<>> >>, branches |-> {-v : v \in Variables},
          minimization_algorithm |-> "RECURSIVE",
          binary_minimization_algorithm |-> "BINARY_MINIMIZATION_FIRST",
          subsumption_during_conflict_analysis |-> TRUE,
          max_restarts |-> 1, max_clean_ups |-> 1]

(* Learned clauses subsume clauses of the problem, and stay reasons.       *)
Subsumed == [clauses |->
   <<{1, 2, 3}, {-4, 1, 3}, {-3, -1, 5}, {-5, -4, -2}, {-3, -2, 5}, {-5, -3, -2, -1},
     {-1, 3, 4, 5}, {-3, 1, 2, 4}>>] @@ Plain

(* Conflicts that are not minimised, and jumps over several levels.        *)
Jumping == [clauses |->
   <<{1, 4, 5}, {2, 3, 4}, {-4, 3, 5}, {-5, -3, 4}, {-5, -2, 1, 4}, {3, 4, 5}, {-5, 1, 4},
     {-5, -1, 3}, {-2, 1, 5}>>,
   minimization_algorithm |-> "NONE",
   binary_minimization_algorithm |-> "NO_BINARY_MINIMIZATION"] @@ Plain

(* No solution, and long clauses that may be forgotten on the way there.   *)
Unsatisfiable == [clauses |->
   <<{-2, 5, 3}, {-5, 3, 4}, {1, 2, 3}, {5, -1, 3}, {-4, -2, 1}, {4, -2, -3},
     {1, 2, -3}, {-3, 2, -1}, {-4, 5, -2}, {-1, -5, -4}>>,
   max_restarts |-> 0, minimization_algorithm |-> "SIMPLE",
   binary_minimization_algorithm |-> "NO_BINARY_MINIMIZATION"] @@ Plain

(* Assumptions that clash, some of which are not needed for that, and that *)
(* are known to be true or false already.                                  *)
Assumed == [clauses |->
   <<{-5, -2, 3, 4}, {-1, 2, 3}, {-2, -1}, {3, 4, 5}, {-5, -3, 2}, {-5, -4, 3},
     {1, 2, 4, 5}, {-3, 2, 4, 1}, {1, 5, -4}, {3}>>,
   questions |-> << <<4, 5, 1>>, <<4, -2>>, <<3>>, <<2, -3>>, <<-4, -2>> >>] @@ Plain

(* The literal 5 is created during the search, for 1 and 2 together.       *)
Created == [clauses |->
   <<{-4, 1, 3}, {-3, 2}, {3, 4, 1}, {-1, 4, 3}>>,
   late |-> {{-5, 1}, {-5, 2}, {5, -1, -2}}] @@ Plain

(* Refuted while it is loaded.                                             *)
Contradictory == [clauses |-> <<{1, -2, 3}, {1, 2}, {1, -2}, {-1}>>] @@ Plain

(* A clause that is a reason at level zero and then removed as always true.*)
Fixed == [clauses |-> <<{4, 5}, {4, -5}, {-4, -1}, {-4, -2}, {1, 2, 3}>>] @@ Plain

Problems == {Subsumed, Jumping, Unsatisfiable, Assumed, Created, Contradictory, Fixed}

(* The literal 4 is created after 1 and 2, which imply it, are fixed.      *)
CreatedLate == [clauses |-> <<{1}, {2}>>, late |-> {{4, -1, -2}}, any_level |-> TRUE] @@ Plain
LateProblems == {CreatedLate}
=============================================================================
