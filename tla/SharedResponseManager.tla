------------------------ MODULE SharedResponseManager ------------------------
(***************************************************************************)
(* SharedResponseManager of ortools/sat/synchronization.{h,cc}: the one    *)
(* object through which the workers of a CP-SAT search report solutions,   *)
(* objective bounds and proofs, and from which the final response is read. *)
(*                                                                         *)
(* Every method takes mutex_ for its whole duration, so each is one atomic *)
(* action.  The module has no Next: who calls what, and what a caller      *)
(* knows when it calls, is the business of CpSatSearch.                    *)
(*                                                                         *)
(* Objective values are the inner, minimised ones.  ScaleObjectiveValue()  *)
(* is a translation by an offset: a scaling factor multiplies both   *)
(* gaps alike and is taken to be 1.                                        *)
(***************************************************************************)
EXTENDS SharedSolutionRepository

CONSTANTS
  Solutions,           \* the assignments that may be feasible, numbered in
                       \* the lexicographic order of their values
  Obj,                 \* the inner objective of each of them
  KMin, KMax,          \* kMinIntegerValue, kMaxIntegerValue
  Configurations       \* the models and the parameters a search may start from

(* A configuration is what does not change during a search.                *)
ConfigurationOK(c) ==
  /\ c.feasible \subseteq Solutions        \* the feasible solutions
  /\ c.has_objective \in BOOLEAN           \* objective_or_null_ != nullptr
  /\ c.enumerate_all \in BOOLEAN           \* enumerate_all_solutions
  /\ c.always_synchronize \in BOOLEAN      \* always_synchronize_
  /\ c.offset \in Int                      \* objective offset of the user
  /\ c.absolute_gap_limit \in Nat          \* absolute_gap_limit_, rounded down
  /\ c.relative_gap_limit \in Nat \X (Nat \ {0})   \* <<num, den>>

ASSUME ManagerAssumption ==
  /\ KMin \in Int /\ KMax \in Int
  /\ Solutions \subseteq Int
  /\ Obj \in [Solutions -> Int]
  /\ \A s \in Solutions : KMin < Obj[s] /\ Obj[s] < KMax
  /\ \A c \in Configurations : ConfigurationOK(c)

VARIABLES
  config,                       \* the configuration of this search
  best_status,                  \* best_status_
  synchronized_best_status,     \* synchronized_best_status_
  inner_lb, inner_ub,           \* inner_objective_{lower,upper}_bound_
  best_objective,               \* best_solution_objective_value_
  synchronized_lb,              \* synchronized_inner_objective_lower_bound_
  synchronized_ub,              \* synchronized_inner_objective_upper_bound_
  num_solutions,                \* num_solutions_
  solutions, new_solutions,     \* the two pools of solutions_
  first_solution_should_stop,   \* first_solution_solvers_should_stop_
  time_limit_stopped            \* shared_time_limit_->Stop() was called

verdictVars == <<best_status, synchronized_best_status>>
boundVars == <<inner_lb, inner_ub, best_objective>>
syncBoundVars == <<synchronized_lb, synchronized_ub>>
poolVars == <<solutions, new_solutions>>
flagVars == <<first_solution_should_stop, time_limit_stopped>>
managerVars ==
  <<verdictVars, boundVars, syncBoundVars, num_solutions, poolVars, flagVars>>

Feasible == config.feasible
HasObjective == config.has_objective
EnumerateAll == config.enumerate_all
AlwaysSynchronize == config.always_synchronize

Status == {"UNKNOWN", "FEASIBLE", "OPTIMAL", "INFEASIBLE"}
Solved(status) == status \in {"OPTIMAL", "INFEASIBLE"}

(* Mistake: a proof after OPTIMAL is taken for a proof without solution.   *)
MistakeHasSolution(status) == status = "FEASIBLE"
HasSolution(status) == status \in {"FEASIBLE", "OPTIMAL"}

Smaller(a, b) == IF a <= b THEN a ELSE b
Larger(a, b) == IF a >= b THEN a ELSE b
Abs(a) == IF a >= 0 THEN a ELSE -a

(* What NewSolution() stores for a solution: rank 0 without an objective.  *)
Entry(s) == [rank |-> IF HasObjective THEN Obj[s] ELSE 0, values |-> s]

-----------------------------------------------------------------------------
(* The conditions of TestGapLimitsIfNeeded() on a best value and a lower   *)
(* bound, without its early returns.                                       *)
WithinGap(best, lb) ==
  LET gap == Abs(best - lb)
  IN \/ gap <= config.absolute_gap_limit
     \/ gap * config.relative_gap_limit[2]
          < config.relative_gap_limit[1] * Larger(1, Abs(best + config.offset))

(* TestGapLimitsIfNeeded() reports OPTIMAL.                                *)
GapLimitReached(best, lb, ub) ==
  /\ config.absolute_gap_limit # 0 \/ config.relative_gap_limit[1] # 0
  /\ best < KMax /\ KMin < lb /\ lb <= ub
  /\ WithinGap(best, lb)

(* Mistake: the copy is updated without looking at always_synchronize_.    *)
MistakeUpdateBestStatus(status) ==
  best_status' = status /\ synchronized_best_status' = status

(* UpdateBestStatus()                                                      *)
UpdateBestStatus(status) ==
  /\ best_status' = status
  /\ synchronized_best_status' =
       IF AlwaysSynchronize THEN status ELSE synchronized_best_status

(* TestGapLimitsIfNeeded() at the end of a call that would leave `status'  *)
(* otherwise.  Stop() is only called when nobody else synchronizes.        *)
ReportStatusAndTestGap(status, best, lb, ub) ==
  LET reached == GapLimitReached(best, lb, ub)
  IN /\ IF reached THEN UpdateBestStatus("OPTIMAL") ELSE UpdateBestStatus(status)
     /\ time_limit_stopped' = (time_limit_stopped \/ (reached /\ AlwaysSynchronize))

-----------------------------------------------------------------------------
(* UpdateInnerObjectiveBounds(): the call brings nothing new.              *)
BoundsAreIgnored(lb, ub) ==
  \/ inner_lb > inner_ub
  \/ lb <= inner_lb /\ ub >= inner_ub

(* Mistakes: the lower bound may pass the best solution, and a worker that *)
(* is late may raise the upper bound again.                                *)
MistakeUpdatedLb(lb) == IF lb > inner_lb THEN lb ELSE inner_lb
MistakeUpdatedUb(ub) == ub

(* The bounds the manager holds after the call.                            *)
UpdatedLb(lb) == IF lb > inner_lb THEN Smaller(best_objective, lb) ELSE inner_lb
UpdatedUb(ub) == IF ub < inner_ub THEN ub ELSE inner_ub

(* Mistake: off by one, a single possible value is taken for none.         *)
MistakeBoundsCross(lb, ub) == UpdatedLb(lb) >= UpdatedUb(ub)
BoundsCross(lb, ub) == UpdatedLb(lb) > UpdatedUb(ub)

IgnoreInnerObjectiveBounds(lb, ub) ==
  /\ BoundsAreIgnored(lb, ub)
  /\ UNCHANGED managerVars

(* Mistake: the status is read from its synchronized copy.                 *)
MistakeCrossInnerObjectiveBounds(lb, ub) ==
  /\ ~ BoundsAreIgnored(lb, ub)
  /\ BoundsCross(lb, ub)
  /\ UpdateBestStatus(IF HasSolution(synchronized_best_status)
                      THEN "OPTIMAL" ELSE "INFEASIBLE")
  /\ UNCHANGED time_limit_stopped

(* The two bounds cross: the improving problem has no solution.            *)
CrossInnerObjectiveBounds(lb, ub) ==
  /\ ~ BoundsAreIgnored(lb, ub)
  /\ BoundsCross(lb, ub)
  /\ UpdateBestStatus(IF HasSolution(best_status) THEN "OPTIMAL" ELSE "INFEASIBLE")
  /\ UNCHANGED time_limit_stopped

TightenInnerObjectiveBounds(lb, ub) ==
  /\ ~ BoundsAreIgnored(lb, ub)
  /\ ~ BoundsCross(lb, ub)
  /\ IF GapLimitReached(best_objective, UpdatedLb(lb), UpdatedUb(ub))
     THEN /\ UpdateBestStatus("OPTIMAL")
          /\ time_limit_stopped' = (time_limit_stopped \/ AlwaysSynchronize)
     ELSE UNCHANGED <<verdictVars, time_limit_stopped>>

UpdateInnerObjectiveBounds(lb, ub) ==
  \/ IgnoreInnerObjectiveBounds(lb, ub)
  \/ /\ \/ CrossInnerObjectiveBounds(lb, ub)
        \/ TightenInnerObjectiveBounds(lb, ub)
     /\ inner_lb' = UpdatedLb(lb)
     /\ inner_ub' = UpdatedUb(ub)
     /\ IF AlwaysSynchronize
        THEN synchronized_lb' = UpdatedLb(lb) /\ synchronized_ub' = UpdatedUb(ub)
        ELSE UNCHANGED syncBoundVars
     /\ UNCHANGED <<best_objective, num_solutions, poolVars,
                    first_solution_should_stop>>

-----------------------------------------------------------------------------
(* NotifyThatImprovingProblemIsInfeasible().  The synchronized bounds are  *)
(* not touched, even when always_synchronize_ is set.                      *)
NotifyThatImprovingProblemIsInfeasible ==
  /\ IF HasSolution(best_status)
     THEN UpdateBestStatus("OPTIMAL") /\ inner_lb' = best_objective
     ELSE UpdateBestStatus("INFEASIBLE") /\ UNCHANGED inner_lb
  /\ UNCHANGED <<inner_ub, best_objective, syncBoundVars, num_solutions,
                 poolVars, flagVars>>

-----------------------------------------------------------------------------
(* NewSolution() of a solution that does not improve: it is pooled only.   *)

(* Mistake: off by one, the test of the upper bound is strict.             *)
MistakeIsImproving(s) == HasObjective => Obj[s] < inner_ub
IsImproving(s) == HasObjective => Obj[s] <= inner_ub

PoolSolution(s) ==
  /\ ~ IsImproving(s)
  /\ new_solutions' = AddedTo(new_solutions, Entry(s))
  /\ UNCHANGED <<verdictVars, boundVars, syncBoundVars, num_solutions,
                 solutions, flagVars>>

(* The tail of NewSolution(), common to both kinds of problem.             *)
RecordSolution(s) ==
  LET new == AddedTo(new_solutions, Entry(s))
  IN /\ IF AlwaysSynchronize
        THEN /\ solutions' = Merged(solutions, new)
             /\ new_solutions' = {}
             /\ first_solution_should_stop' = TRUE
        ELSE /\ new_solutions' = new
             /\ UNCHANGED <<solutions, first_solution_should_stop>>
     /\ num_solutions' = num_solutions + 1
     /\ UNCHANGED <<inner_lb, syncBoundVars>>

(* The status NewSolution() reports before it tests the gap limits.        *)
ImprovedStatus(s) == IF inner_lb > Obj[s] - 1 THEN "OPTIMAL" ELSE "FEASIBLE"

ImproveObjective(s) ==
  /\ HasObjective
  /\ IsImproving(s)
  /\ best_objective' = Obj[s]
  /\ inner_ub' = Obj[s] - 1
  /\ ReportStatusAndTestGap(ImprovedStatus(s), Obj[s], inner_lb, Obj[s] - 1)
  /\ RecordSolution(s)

SatisfyProblem(s) ==
  /\ ~ HasObjective
  /\ UpdateBestStatus(IF EnumerateAll THEN "FEASIBLE" ELSE "OPTIMAL")
  /\ RecordSolution(s)
  /\ UNCHANGED <<inner_ub, best_objective, time_limit_stopped>>

NewSolution(s) == PoolSolution(s) \/ ImproveObjective(s) \/ SatisfyProblem(s)

-----------------------------------------------------------------------------
(* Synchronize().  The pool is not synchronized here: the caller does it,  *)
(* afterwards and without mutex_.                                          *)
Synchronize ==
  /\ synchronized_lb' = inner_lb
  /\ synchronized_ub' = inner_ub
  /\ synchronized_best_status' = best_status
  /\ first_solution_should_stop' =
       (first_solution_should_stop \/ solutions # {})
  /\ UNCHANGED <<best_status, boundVars, num_solutions, poolVars,
                 time_limit_stopped>>

(* MutableSolutionsRepository()->Synchronize()                             *)
SynchronizePool ==
  /\ solutions' = Merged(solutions, new_solutions)
  /\ new_solutions' = {}
  /\ UNCHANGED <<verdictVars, boundVars, syncBoundVars, num_solutions, flagVars>>

(* ModelSharedTimeLimit::Stop()                                            *)
StopTimeLimit ==
  /\ time_limit_stopped' = TRUE
  /\ UNCHANGED <<verdictVars, boundVars, syncBoundVars, num_solutions,
                 poolVars, first_solution_should_stop>>

ProblemIsSolved == Solved(synchronized_best_status)

(* The manager once InitializeObjective() has loaded a domain.             *)
ManagerInit(domain_min, domain_max) ==
  /\ best_status = "UNKNOWN" /\ synchronized_best_status = "UNKNOWN"
  /\ inner_lb = (IF HasObjective THEN domain_min ELSE KMin)
  /\ inner_ub = (IF HasObjective THEN domain_max ELSE KMax)
  /\ synchronized_lb = inner_lb /\ synchronized_ub = inner_ub
  /\ best_objective = KMax
  /\ num_solutions = 0
  /\ solutions = {} /\ new_solutions = {}
  /\ first_solution_should_stop = FALSE
  /\ time_limit_stopped = FALSE
=============================================================================
