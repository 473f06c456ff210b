---------------------------- MODULE CpSatSearch ----------------------------
(***************************************************************************)
(* A CP-SAT search as its SharedResponseManager sees it: the workers that  *)
(* load the model, import objective bounds, prove bounds and find          *)
(* solutions (cp_model_solver_helpers.cc), and the main thread that        *)
(* schedules them, runs the synchronization agent and finally reads the    *)
(* response (cp_model_solver.cc, subsolver.cc).                            *)
(*                                                                         *)
(* The engine of a worker is external: it may report any feasible solution *)
(* (an LNS fragment may have been generated long ago), and any bound that  *)
(* follows from the window [lb, ub] of objective values it has been told   *)
(* to search.  What it was told may be out of date by the time it reports. *)
(***************************************************************************)
EXTENDS SharedResponseManager

CONSTANTS
  Workers,             \* subsolvers that may use a thread
  DomainMin, DomainMax,\* objective domain of the presolved model
  ClaimedBounds        \* the values a worker may claim as an objective bound

(* Further parts of a configuration.                                       *)
SearchConfigurationOK(c) ==
  /\ c.workers \subseteq Workers           \* num_workers of them
  /\ c.workers # {}
  /\ c.full \subseteq c.workers            \* FullProblemSolver; the rest is LNS
  /\ c.first_solution \subseteq c.full     \* stop_at_first_solution_
  /\ c.interleave_search \in BOOLEAN
  /\ c.hinted \subseteq c.feasible         \* a complete hint, or {}
  /\ c.always_synchronize = (~ c.interleave_search \/ Cardinality(c.workers) = 1)
  /\ c.enumerate_all => /\ ~ c.has_objective
                        /\ Cardinality(c.workers) = 1 /\ c.full = c.workers

ASSUME SearchAssumption ==
  /\ IsFiniteSet(Workers)
  /\ DomainMin \in Int /\ DomainMax \in Int
  /\ KMin < DomainMin /\ DomainMin <= DomainMax /\ DomainMax < KMax
  /\ \A s \in Solutions : DomainMin <= Obj[s] /\ Obj[s] <= DomainMax
  /\ ClaimedBounds \subseteq Int
  /\ \A c \in Configurations : SearchConfigurationOK(c)

VARIABLES
  main,      \* where the main thread is
  round,     \* what the main thread saw when it began to synchronize
  worker,    \* the state of each worker
  reported   \* history: every solution given to NewSolution()

searchVars == <<config, main, round, worker, reported>>
vars == <<managerVars, searchVars>>

Present == config.workers
FullWorkers == config.full
FirstSolutionWorkers == config.first_solution
InterleaveSearch == config.interleave_search

MainStates == {"hint", "launch", "wait", "pool", "schedule", "done"}
Rounds == {"quiet", "busy", "timeout"}
Tasks == {"idle", "searching", "synchronizing", "importing", "stopping"}

(* A full worker that was never scheduled; one that loads the model, when  *)
(* it may already follow the hint; one that is in SolveLoadedCpModel().    *)
Phases == {"new", "loading", "solving"}

Idle(w) == worker[w].task = "idle"
AllIdle == \A w \in Present : Idle(w)
NoneIdle == \A w \in Present : ~ Idle(w)

(* SequentialLoop() and DeterministicLoop() only synchronize between two   *)
(* batches of tasks; NonDeterministicLoop() does it while tasks run.       *)
BatchLoop == InterleaveSearch \/ Cardinality(Present) = 1

(* A single-thread search that is not interleaved has no subsolver but the *)
(* main one, hence no synchronization agent.                               *)
HasSynchronizationPoint == InterleaveSearch \/ Cardinality(Present) > 1

(* The engine of w runs.  That of LNS does so once its fragment is built.  *)
Searching(w) == /\ worker[w].task = "searching"
                /\ w \in FullWorkers \/ worker[w].phase = "solving"

Goto(w, task) == worker' = [worker EXCEPT ![w].task = task]

(* The solutions w has not excluded from its search.                       *)
Open(w) ==
  IF HasObjective
  THEN {s \in Feasible : worker[w].lb <= Obj[s] /\ Obj[s] <= worker[w].ub}
  ELSE Feasible \ (IF EnumerateAll THEN reported ELSE {})

Init ==
  /\ config \in Configurations
  /\ ManagerInit(DomainMin, DomainMax)
  /\ main = "hint" /\ round = "quiet"
  /\ reported = {}
  /\ worker = [w \in Workers |->
       [task |-> "idle", phase |-> "new",
        lb |-> IF HasObjective THEN DomainMin ELSE KMin,
        ub |-> IF HasObjective THEN DomainMax ELSE KMax]]

-----------------------------------------------------------------------------
(* Before the search: SolutionHintIsCompleteAndFeasible() with a manager,  *)
(* which is not used when all solutions are to be enumerated.              *)
LoadHint ==
  /\ main = "hint"
  /\ main' = "launch"
  /\ \/ \E s \in config.hinted :
          /\ ~ EnumerateAll
          /\ NewSolution(s)
          /\ reported' = reported \cup {s}
     \/ /\ config.hinted = {} \/ EnumerateAll
        /\ UNCHANGED <<managerVars, reported>>
  /\ UNCHANGED <<config, round, worker>>

(* The search is skipped altogether when the limit is already reached.     *)
LaunchSubsolvers ==
  /\ main = "launch"
  /\ main' = IF time_limit_stopped THEN "done" ELSE "wait"
  /\ UNCHANGED <<config, managerVars, round, worker, reported>>

(* The wall clock, the deterministic clock or the user stops the search.   *)
ReachTimeLimit ==
  /\ main # "done"
  /\ ~ time_limit_stopped
  /\ StopTimeLimit
  /\ UNCHANGED searchVars

-----------------------------------------------------------------------------
(* The synchronization agent calls SharedResponseManager::Synchronize()    *)
(* and then Synchronize() of the pool; workers run in between.             *)
MainSynchronizeResponse ==
  /\ main = "wait"
  /\ BatchLoop => AllIdle
  /\ IF HasSynchronizationPoint THEN Synchronize ELSE UNCHANGED managerVars
  /\ round' = IF AllIdle THEN "quiet"
              ELSE IF NoneIdle THEN "timeout" ELSE "busy"
  /\ main' = "pool"
  /\ UNCHANGED <<config, worker, reported>>

MainSynchronizePool ==
  /\ main = "pool"
  /\ IF HasSynchronizationPoint THEN SynchronizePool ELSE UNCHANGED managerVars
  /\ main' = IF round = "timeout" THEN "wait" ELSE "schedule"
  /\ UNCHANGED <<config, round, worker, reported>>

(* SharedClasses::SearchIsDone(), which also stops the time limit.         *)
SearchIsDone == ProblemIsSolved \/ time_limit_stopped

(* Mistake: the time limit is left running.                                *)
MistakeStopIfSolved == UNCHANGED managerVars
StopIfSolved == IF ProblemIsSolved THEN StopTimeLimit ELSE UNCHANGED managerVars

(* Those that only look for a first solution and have been told to stop.   *)
MayStop(w) == w \in FirstSolutionWorkers /\ first_solution_should_stop

(* TaskIsAvailable() of the subsolvers.                                    *)
Available ==
  {w \in Present : /\ ~ SearchIsDone /\ ~ MayStop(w)
                   /\ Idle(w)
                   /\ w \in FullWorkers /\ ~ InterleaveSearch
                        => worker[w].phase = "new"}

(* One task at a time, or a whole batch of them.                           *)
MainSchedule ==
  /\ main = "schedule"
  /\ \E B \in SUBSET Available :
       /\ B # {}
       /\ ~ BatchLoop => Cardinality(B) = 1
       /\ worker' = [w \in Workers |->
            IF w \in B
            THEN [task |-> "searching", phase |-> "loading",
                  lb |-> worker[w].lb, ub |-> worker[w].ub]
            ELSE worker[w]]
  /\ main' = "wait"
  /\ UNCHANGED <<config, managerVars, round, reported>>

(* Nothing to schedule: the loop ends if no task was running before the    *)
(* last synchronization.                                                   *)
MainFindNoTask ==
  /\ main = "schedule"
  /\ Available = {}
  /\ StopIfSolved
  /\ main' = IF round = "quiet" THEN "done" ELSE "wait"
  /\ UNCHANGED <<config, round, worker, reported>>

(* max_num_deterministic_batches                                           *)
MainReachBatchLimit ==
  /\ main = "schedule"
  /\ InterleaveSearch
  /\ StopIfSolved
  /\ main' = "done"
  /\ UNCHANGED <<config, round, worker, reported>>

-----------------------------------------------------------------------------
(* The early returns of SolveLoadedCpModel() and of an LNS task; the second*)
(* calls SearchIsDone(), which stops the time limit.                       *)
StartSearch(w) ==
  /\ worker[w].task = "searching" /\ worker[w].phase = "loading"
  /\ IF SearchIsDone
     THEN /\ Goto(w, "idle")
          /\ IF w \in FullWorkers THEN UNCHANGED managerVars ELSE StopIfSolved
     ELSE /\ worker' = [worker EXCEPT ![w].phase = "solving"]
          /\ UNCHANGED managerVars
  /\ UNCHANGED <<config, main, round, reported>>

(* broadcast_objective_lower_bound: the engine has raised the level-zero   *)
(* lower bound of its objective variable.                                  *)
BroadcastObjectiveBounds(w, lb, ub) ==
  /\ HasObjective
  /\ Searching(w) /\ w \in FullWorkers
  /\ worker[w].lb < lb /\ ub <= worker[w].ub
  /\ \A s \in Open(w) : lb <= Obj[s] /\ Obj[s] <= ub
  /\ UpdateInnerObjectiveBounds(lb, ub)
  /\ worker' = [worker EXCEPT
       ![w].lb = lb, ![w].ub = ub,
       ![w].task = IF InterleaveSearch THEN "searching" ELSE "synchronizing"]
  /\ UNCHANGED <<config, main, round, reported>>

(* "If we are not in interleave_search we synchronize right away."         *)
SynchronizeAfterBroadcast(w) ==
  /\ worker[w].task = "synchronizing"
  /\ Synchronize
  /\ Goto(w, "searching")
  /\ UNCHANGED <<config, main, round, reported>>

(* import_objective_bounds reads the two bounds under two locks, and stops *)
(* at the first one that is in conflict with the window.                   *)
ImportLowerBound(w) ==
  /\ HasObjective
  /\ Searching(w) /\ w \in FullWorkers
  /\ worker' = [worker EXCEPT
       ![w].lb = Larger(worker[w].lb, synchronized_lb),
       ![w].task = IF synchronized_lb > worker[w].ub
                   THEN "searching" ELSE "importing"]
  /\ UNCHANGED <<config, managerVars, main, round, reported>>

ImportUpperBound(w) ==
  /\ worker[w].task = "importing"
  /\ worker' = [worker EXCEPT
       ![w].ub = Smaller(worker[w].ub, synchronized_ub),
       ![w].task = "searching"]
  /\ UNCHANGED <<config, managerVars, main, round, reported>>

(* solution_observer.  A worker that optimises then searches for something *)
(* better; one that only satisfies is done unless it enumerates.           *)
FindSolution(w, s) ==
  /\ Searching(w)
  /\ HasObjective \/ s \in Open(w)
  /\ NewSolution(s)
  /\ reported' = reported \cup {s}
  /\ IF EnumerateAll \/ w \notin FullWorkers
     THEN UNCHANGED worker
     ELSE IF HasObjective
     THEN worker' = [worker EXCEPT ![w].ub = Smaller(worker[w].ub, Obj[s] - 1)]
     ELSE Goto(w, "idle")
  /\ UNCHANGED <<config, main, round>>

(* The engine has shown that its window holds no solution.                 *)
ProveInfeasible(w) ==
  /\ Searching(w) /\ w \in FullWorkers
  /\ Open(w) = {}
  /\ NotifyThatImprovingProblemIsInfeasible
  /\ Goto(w, "idle")
  /\ UNCHANGED <<config, main, round, reported>>

(* An LNS fragment that is not reduced is the whole problem.  Its optimum  *)
(* has been reported, or is the base solution, taken from the pool.        *)
ConcludeFragment(w) ==
  /\ Searching(w) /\ w \notin FullWorkers
  /\ \E s \in reported : HasObjective => \A t \in Feasible : Obj[s] <= Obj[t]
  /\ NotifyThatImprovingProblemIsInfeasible
  /\ Goto(w, "stopping")
  /\ UNCHANGED <<config, main, round, reported>>

(* ... and the task then stops everybody.                                  *)
StopSearch(w) ==
  /\ worker[w].task = "stopping"
  /\ StopTimeLimit
  /\ Goto(w, "idle")
  /\ UNCHANGED <<config, main, round, reported>>

(* A task ends at the limit, at the end of its chunk, or of its fragment.  *)
FinishTask(w) ==
  /\ worker[w].task = "searching"
  /\ InterleaveSearch \/ time_limit_stopped \/ w \notin FullWorkers \/ MayStop(w)
  /\ Goto(w, "idle")
  /\ UNCHANGED <<config, managerVars, main, round, reported>>

WorkerNext(w) ==
  \/ StartSearch(w)
  \/ \E lb, ub \in ClaimedBounds : BroadcastObjectiveBounds(w, lb, ub)
  \/ SynchronizeAfterBroadcast(w)
  \/ ImportLowerBound(w)
  \/ ImportUpperBound(w)
  \/ \E s \in Feasible : FindSolution(w, s)
  \/ ProveInfeasible(w)
  \/ ConcludeFragment(w)
  \/ StopSearch(w)
  \/ FinishTask(w)

MainNext ==
  \/ LoadHint
  \/ LaunchSubsolvers
  \/ MainSynchronizeResponse
  \/ MainSynchronizePool
  \/ MainSchedule
  \/ MainFindNoTask
  \/ MainReachBatchLimit

(* The process goes on with the response; nothing more happens here.       *)
Terminated == main = "done" /\ UNCHANGED vars

Next ==
  \/ MainNext
  \/ ReachTimeLimit
  \/ \E w \in Present : WorkerNext(w)
  \/ Terminated

Spec == Init /\ [][Next]_vars

(* The main thread polls every 100 ms, so it never waits for ever while it *)
(* could go on.  A worker comes back to level zero again and again, where  *)
(* it imports; it sees at once that a window is empty; and it ends its     *)
(* task some time after it was told to.  Nothing else is promised: it may  *)
(* never find a solution or a bound.                                       *)
Fairness ==
  /\ WF_vars(MainNext)
  /\ \A w \in Workers :
       /\ WF_vars(StartSearch(w))
       /\ WF_vars(SynchronizeAfterBroadcast(w))
       /\ SF_vars(ImportLowerBound(w))
       /\ WF_vars(ImportUpperBound(w))
       /\ SF_vars(worker[w].lb > worker[w].ub /\ ProveInfeasible(w))
       /\ WF_vars(StopSearch(w))
       /\ SF_vars(FinishTask(w))

FairSpec == Spec /\ Fairness

-----------------------------------------------------------------------------
PoolOf(S) == {Entry(s) : s \in S}

ManagerTypeOK ==
  /\ best_status \in Status /\ synchronized_best_status \in Status
  /\ inner_lb \in Int /\ inner_ub \in Int /\ best_objective \in Int
  /\ synchronized_lb \in Int /\ synchronized_ub \in Int
  /\ num_solutions \in Nat
  /\ first_solution_should_stop \in BOOLEAN
  /\ time_limit_stopped \in BOOLEAN

PoolTypeOK ==
  /\ solutions \subseteq PoolOf(reported)
  /\ new_solutions \subseteq PoolOf(reported)
  /\ reported \subseteq Feasible

WorkerTypeOK ==
  worker \in [Workers -> [task : Tasks, phase : Phases, lb : Int, ub : Int]]

(* Types; and the pools hold nothing but feasible solutions that were      *)
(* given to NewSolution(), each with its own rank.                         *)
TypeOK ==
  /\ config \in Configurations
  /\ ManagerTypeOK /\ PoolTypeOK /\ WorkerTypeOK
  /\ main \in MainStates /\ round \in Rounds

(* A window of objective values covers the solutions that would improve on *)
(* the best one.  This is all that can be said of what a worker was told,  *)
(* and it is enough: the best objective only ever decreases, so a window   *)
(* that covered the improving solutions once covers them for ever.         *)
Covers(lb, ub) ==
  \A s \in Feasible : Obj[s] < best_objective => lb <= Obj[s] /\ Obj[s] <= ub

BoundsInv ==
  HasObjective =>
    /\ Covers(inner_lb, inner_ub)
    /\ Covers(synchronized_lb, synchronized_ub)
    /\ \A w \in Workers : Covers(worker[w].lb, worker[w].ub)
    /\ synchronized_lb <= inner_lb
    /\ inner_lb <= best_objective
    /\ inner_ub < best_objective
    /\ \A s \in reported : best_objective <= Obj[s]

(* What the verdict means besides: the search has a solution when one was  *)
(* reported, and only then.                                                *)
StatusInv ==
  /\ HasSolution(best_status) <=> reported # {}
  /\ reported = {} => num_solutions = 0
  /\ best_status = "INFEASIBLE" => Feasible = {}

(* What NewSolution() asserts with its two DCHECKs, for whatever solution  *)
(* the next worker reports: one that passes the test of the upper bound is *)
(* not below the lower bound, and improves on the best one.                *)
ImprovingSolutionsRespectBounds ==
  HasObjective =>
    \A s \in Feasible :
      Obj[s] <= inner_ub => inner_lb <= Obj[s] /\ Obj[s] < best_objective

(* "so that we always report globally valid lower bound": the manager's    *)
(* bound and the one workers import stay below every feasible solution,    *)
(* although a worker proves its bounds under an out-of-date upper bound.   *)
LowerBoundIsGlobal ==
  HasObjective =>
    \A s \in Feasible : inner_lb <= Obj[s] /\ synchronized_lb <= Obj[s]

(* The test that ignores "any non-strictly improving solution" never drops *)
(* one that was better: the best objective is that of the best solution    *)
(* ever reported.                                                          *)
BestIsBestReported ==
  HasObjective =>
    IF reported = {} THEN best_objective = KMax
    ELSE /\ \E s \in reported : Obj[s] = best_objective
         /\ \A s \in reported : best_objective <= Obj[s]

(* The verdict is right: INFEASIBLE when there is no solution, OPTIMAL when*)
(* no better one than the best exists, or all of them were enumerated, or  *)
(* the best is within a gap limit of the lower bound.                      *)
VerdictIsSound ==
  /\ best_status = "INFEASIBLE" => Feasible = {}
  /\ best_status = "OPTIMAL" =>
       IF HasObjective
       THEN \/ \A s \in Feasible : best_objective <= Obj[s]
            \/ WithinGap(best_objective, inner_lb)
       ELSE IF EnumerateAll THEN Feasible \subseteq reported ELSE reported # {}

(* CHECK_EQ(num_solutions_, 0) of NotifyThatImprovingProblemIsInfeasible():*)
(* a proof of infeasibility never meets a solution already accepted.       *)
NoProofAgainstASolution ==
  \A w \in Workers :
    /\ Searching(w) /\ w \in FullWorkers /\ Open(w) = {}
    /\ ~ HasSolution(best_status)
    => num_solutions = 0 /\ Feasible = {}

(* The response read at the end is of one piece: with the status FEASIBLE  *)
(* or OPTIMAL it carries a solution, whose objective is the one reported.  *)
ResponseIsConsistent ==
  main = "done" /\ HasSolution(best_status) =>
    \E s \in solutions :
      /\ IsFirst(s, solutions)
      /\ HasObjective => s.rank = best_objective

(* What a reader of the response is promised at any time, in the words of  *)
(* AnytimeOptimizer.  Without an objective, the manager's bounds say       *)
(* nothing to him.                                                         *)
Optimizer == INSTANCE AnytimeOptimizer WITH
  Infinity <- KMax,
  problem <- config,
  found <- reported,
  best <- best_objective,
  bound <- IF HasObjective THEN inner_lb ELSE KMin,
  verdict <- best_status

(* The search implements it.  In particular "the status always start at    *)
(* UNKNOWN and can only evolve as follow: UNKNOWN -> FEASIBLE -> OPTIMAL,  *)
(* UNKNOWN -> INFEASIBLE" whichever worker calls, however late, although   *)
(* NewSolution() assigns FEASIBLE without a look at the old status; and    *)
(* each verdict is right when it is assigned.                              *)
ImplementsOptimizer == Optimizer!Spec

(* Determinism of the interleaved search: between two synchronizations by  *)
(* the main thread nothing a worker can read of the manager changes.       *)
SynchronizedView ==
  <<synchronized_best_status, synchronized_lb, synchronized_ub, solutions,
    first_solution_should_stop>>
MainSynchronizes == main \in {"wait", "pool"} /\ main' # main

WorkersSeeOnlySynchronizedState ==
  [][~ AlwaysSynchronize /\ ~ MainSynchronizes => UNCHANGED SynchronizedView]_vars

(* Once the problem is solved, the search ends.                            *)
SolvedSearchEnds == Solved(best_status) ~> main = "done"
=============================================================================
