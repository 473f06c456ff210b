---------------------- MODULE SharedSolutionRepository ----------------------
(***************************************************************************)
(* The pool of best solutions shared by the workers of a CP-SAT search:    *)
(* SharedSolutionRepository of ortools/sat/synchronization.h.              *)
(*                                                                         *)
(* A solution is a record [rank, values].  The vectors variable_values are *)
(* numbered in their lexicographic order, so that the comparison the code  *)
(* makes on them is the comparison of their numbers.                       *)
(*                                                                         *)
(* Both vectors of the class are sets here.  new_solutions_ is only ever   *)
(* appended to, then sorted into solutions_ with the duplicates removed,   *)
(* and solutions_ is always the increasing enumeration of a set.           *)
(***************************************************************************)
EXTENDS Integers, FiniteSets

CONSTANT NumSolutionsToKeep    \* num_solutions_to_keep_

(* solution_pool_size is validated to be at least 1, and the other pools   *)
(* are built with the literal 10.                                          *)
ASSUME NumSolutionsToKeepAssumption == NumSolutionsToKeep \in Nat \ {0}

(* Solution::operator<                                                     *)
Before(a, b) == \/ a.rank < b.rank
                \/ a.rank = b.rank /\ a.values < b.values

(* Mistake: the pool is sorted the wrong way round.                        *)
MistakePosition(s, S) == Cardinality({t \in S : Before(s, t)})

(* The index a solution gets when S is sorted.                             *)
Position(s, S) == Cardinality({t \in S : Before(t, s)})

(* solutions_ after STLStableSortAndRemoveDuplicates() and resize().       *)
KeepBest(S) == {s \in S : Position(s, S) < NumSolutionsToKeep}

(* Mistake: the rank of a new solution is left at its default.             *)
MistakeAddedTo(new, s) == new \cup {[s EXCEPT !.rank = 0]}

(* The two pools after Add(), and the current one after Synchronize().     *)
AddedTo(new, s) == new \cup {s}
Merged(pool, new) == IF new = {} THEN pool ELSE KeepBest(pool \cup new)

(* GetSolution(0): the solution no other one of the pool is before.        *)
IsFirst(s, pool) == /\ s \in pool
                    /\ \A t \in pool : ~ Before(t, s)
=============================================================================
