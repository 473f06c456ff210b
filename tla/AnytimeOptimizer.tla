-------------------------- MODULE AnytimeOptimizer --------------------------
(***************************************************************************)
(* What a search promises to whoever reads its answer while it runs: the   *)
(* solutions found so far, the best objective among them, a lower bound    *)
(* that nothing undercuts, and a verdict that is right whenever it is read.*)
(* There is nothing here of workers, windows, copies or synchronization:   *)
(* CpSatSearch implements this module.                                     *)
(***************************************************************************)
EXTENDS Integers

CONSTANTS
  Obj,        \* the objective of each solution
  Infinity    \* the best objective when there is no solution

VARIABLES
  problem,    \* the model and the gap limits; it never changes
  found,      \* the solutions reported so far
  best,       \* the objective of the best of them
  bound,      \* a lower bound of the objective
  verdict     \* what the search claims

vars == <<problem, found, best, bound, verdict>>

Magnitude(x) == IF x >= 0 THEN x ELSE -x

(* The gap limits of the user: absolute, or relative to the objective.     *)
AcceptableGap(value, lower) ==
  LET scale == Magnitude(value + problem.offset)
      gap == Magnitude(value - lower)
  IN \/ gap <= problem.absolute_gap_limit
     \/ gap * problem.relative_gap_limit[2] <
          problem.relative_gap_limit[1] * (IF scale <= 1 THEN 1 ELSE scale)

(* The claims that are true of a state.                                    *)
Claims(V, F, b, l) ==
  /\ V = "INFEASIBLE" => problem.feasible = {}
  /\ V \in {"FEASIBLE", "OPTIMAL"} <=> F # {}
  /\ V = "OPTIMAL" =>
       IF problem.has_objective
       THEN (\A s \in problem.feasible : b <= Obj[s]) \/ AcceptableGap(b, l)
       ELSE problem.enumerate_all => problem.feasible \subseteq F

(* A claim is never taken back, only made stronger.                        *)
Strengthens(from, to) ==
  \/ from = to
  \/ from = "UNKNOWN"
  \/ from = "FEASIBLE" /\ to = "OPTIMAL"

ClaimSomethingTrue ==
  /\ Strengthens(verdict, verdict')
  /\ Claims(verdict', found', best', bound')
  /\ UNCHANGED problem

Init ==
  /\ found = {} /\ best = Infinity /\ verdict = "UNKNOWN"
  /\ problem.has_objective => \A s \in problem.feasible : bound <= Obj[s]

(* A solution, new or not, better or not.                                  *)
Report(s) ==
  /\ found' = found \cup {s}
  /\ best' = IF problem.has_objective /\ Obj[s] < best THEN Obj[s] ELSE best
  /\ UNCHANGED bound
  /\ ClaimSomethingTrue

(* A proof: of a better bound, or that there is nothing better to find.    *)
Prove ==
  /\ bound <= bound'
  /\ problem.has_objective => \A s \in problem.feasible : bound' <= Obj[s]
  /\ UNCHANGED <<found, best>>
  /\ ClaimSomethingTrue

Next == Prove \/ \E s \in problem.feasible : Report(s)

Spec == Init /\ [][Next]_vars
=============================================================================
