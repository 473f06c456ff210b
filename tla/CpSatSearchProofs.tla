------------------------- MODULE CpSatSearchProofs -------------------------
(***************************************************************************)
(* What holds of every search, whatever its workers, its solutions, its    *)
(* domain, its gap limits and the values workers claim as bounds: first of *)
(* the bounds, then of the answer, and that it implements AnytimeOptimizer.*)
(***************************************************************************)
EXTENDS CpSatSearch, SetLemmas

USE DEF Status, MainStates, Rounds, Tasks, Phases

(* The configuration of the search is one that the assumptions are about.  *)
LEMMA ConfigurationFacts ==
  ASSUME config \in Configurations
  PROVE  /\ Feasible \subseteq Solutions
         /\ HasObjective \in BOOLEAN /\ EnumerateAll \in BOOLEAN
         /\ AlwaysSynchronize \in BOOLEAN
         /\ config.absolute_gap_limit \in Nat /\ config.offset \in Int
         /\ config.relative_gap_limit[1] \in Nat
         /\ config.relative_gap_limit[2] \in Nat \ {0}
         /\ config.hinted \subseteq Feasible
         /\ Present \subseteq Workers
         /\ \A s \in Feasible : Obj[s] \in Int /\ KMin < Obj[s] /\ Obj[s] < KMax
         /\ \A s \in Feasible : DomainMin <= Obj[s] /\ Obj[s] <= DomainMax
BY ManagerAssumption, SearchAssumption
   DEF ConfigurationOK, SearchConfigurationOK, Feasible, HasObjective,
       EnumerateAll, AlwaysSynchronize, Present

(* The pools only ever hold what was added to them.                        *)
LEMMA MergedIsSubset ==
  ASSUME NEW pool, NEW new
  PROVE  Merged(pool, new) \subseteq pool \cup new
BY DEF Merged, KeepBest

-----------------------------------------------------------------------------
\* TypeOK holds at first.
LEMMA InitTypeOK == Init => TypeOK
<1> SUFFICES ASSUME Init PROVE TypeOK
  OBVIOUS
<1> USE ManagerAssumption, SearchAssumption, ConfigurationFacts DEF Init, ManagerInit
<1>1. ManagerTypeOK
  BY DEF ManagerTypeOK
<1>2. PoolTypeOK
  BY DEF PoolTypeOK
<1>3. WorkerTypeOK
  BY DEF WorkerTypeOK
<1> QED
  BY <1>1, <1>2, <1>3 DEF TypeOK

(* The calls a worker or the main thread makes keep the manager well typed.*)
LEMMA UpdateKeepsType ==
  ASSUME TypeOK, NEW lb \in Int, NEW ub \in Int,
         UpdateInnerObjectiveBounds(lb, ub)
  PROVE  ManagerTypeOK' /\ UNCHANGED poolVars
<1> USE DEF TypeOK
<1>1. CASE IgnoreInnerObjectiveBounds(lb, ub)
  BY <1>1 DEF IgnoreInnerObjectiveBounds, ManagerTypeOK, managerVars, verdictVars,
       boundVars, syncBoundVars, poolVars, flagVars
<1>2. UpdatedLb(lb) \in Int /\ UpdatedUb(ub) \in Int
  BY DEF UpdatedLb, UpdatedUb, Smaller, ManagerTypeOK
<1>3. CASE \/ CrossInnerObjectiveBounds(lb, ub)
           \/ TightenInnerObjectiveBounds(lb, ub)
  <2>1. best_status' \in Status /\ synchronized_best_status' \in Status
        /\ time_limit_stopped' \in BOOLEAN
    BY <1>3, ConfigurationFacts DEF CrossInnerObjectiveBounds,
       TightenInnerObjectiveBounds, UpdateBestStatus, verdictVars, ManagerTypeOK
  <2> QED
    BY <1>1, <1>2, <1>3, <2>1 DEF UpdateInnerObjectiveBounds, ManagerTypeOK,
       syncBoundVars, poolVars
<1> QED
  BY <1>1, <1>3 DEF UpdateInnerObjectiveBounds

\* NotifyThatImprovingProblemIsInfeasible keeps the types and the pools.
LEMMA NotifyKeepsType ==
  ASSUME TypeOK, NotifyThatImprovingProblemIsInfeasible
  PROVE  ManagerTypeOK' /\ UNCHANGED poolVars
BY ConfigurationFacts
   DEF TypeOK, NotifyThatImprovingProblemIsInfeasible, UpdateBestStatus, ManagerTypeOK,
       syncBoundVars, flagVars, poolVars

(* The entry of a solution stays in the pools of its search.               *)
LEMMA EntriesKept ==
  ASSUME UNCHANGED config, NEW S, NEW T, S \subseteq T
  PROVE  PoolOf(S) \subseteq PoolOf(T) /\ PoolOf(S)' = PoolOf(S')
BY DEF PoolOf, Entry, HasObjective

\* NewSolution keeps the types: what it puts into the pools was reported.
LEMMA NewSolutionKeepsType ==
  ASSUME TypeOK, UNCHANGED config, NEW s \in Feasible, NewSolution(s),
         reported' = reported \cup {s}
  PROVE  ManagerTypeOK' /\ PoolTypeOK'
<1> USE ConfigurationFacts DEF TypeOK
<1> DEFINE new == AddedTo(new_solutions, Entry(s))
<1>1. PoolOf(reported) \cup {Entry(s)} \subseteq PoolOf(reported)'
  BY DEF PoolOf, Entry, HasObjective
<1>2. reported' \subseteq Feasible'
  BY DEF PoolTypeOK, Feasible
<1>3. new \subseteq PoolOf(reported)' /\ solutions \subseteq PoolOf(reported)'
  BY <1>1 DEF PoolTypeOK, AddedTo
<1>4. Merged(solutions, new) \subseteq PoolOf(reported)'
  BY <1>3, MergedIsSubset
<1>5. CASE PoolSolution(s)
  BY <1>2, <1>3, <1>5 DEF PoolSolution, ManagerTypeOK, PoolTypeOK, verdictVars,
     boundVars, syncBoundVars, flagVars
<1>6. ASSUME RecordSolution(s)
      PROVE  /\ PoolTypeOK'
             /\ num_solutions' \in Nat /\ inner_lb' \in Int
             /\ synchronized_lb' \in Int /\ synchronized_ub' \in Int
             /\ first_solution_should_stop' \in BOOLEAN
  <2>1. \/ solutions' = Merged(solutions, new) /\ new_solutions' = {}
        \/ solutions' = solutions /\ new_solutions' = new
    BY <1>6 DEF RecordSolution
  <2>2. PoolTypeOK'
    BY <1>2, <1>3, <1>4, <2>1 DEF PoolTypeOK
  <2>3. first_solution_should_stop' \in BOOLEAN
    BY <1>6 DEF RecordSolution, ManagerTypeOK
  <2> QED
    BY <1>6, <2>2, <2>3 DEF RecordSolution, ManagerTypeOK, syncBoundVars
<1>7. CASE ImproveObjective(s)
  BY <1>6, <1>7 DEF ImproveObjective, ReportStatusAndTestGap, UpdateBestStatus,
     ImprovedStatus, ManagerTypeOK
<1>8. CASE SatisfyProblem(s)
  BY <1>6, <1>8 DEF SatisfyProblem, UpdateBestStatus, ManagerTypeOK
<1> QED
  BY <1>5, <1>7, <1>8 DEF NewSolution

\* The response manager's Synchronize keeps the types and the pools.
LEMMA SynchronizeKeepsType ==
  ASSUME TypeOK, Synchronize
  PROVE  ManagerTypeOK' /\ UNCHANGED poolVars
BY DEF TypeOK, Synchronize, ManagerTypeOK, boundVars, poolVars

\* Synchronize of the solution pool keeps the types: what it merges was
\* reported.
LEMMA SynchronizePoolKeepsType ==
  ASSUME TypeOK, SynchronizePool
  PROVE  /\ ManagerTypeOK'
         /\ solutions' \subseteq PoolOf(reported)
         /\ new_solutions' \subseteq PoolOf(reported)
BY MergedIsSubset DEF TypeOK, SynchronizePool, ManagerTypeOK, PoolTypeOK,
   verdictVars, boundVars, syncBoundVars, flagVars

\* Stopping the time limit keeps the types and the pools.
LEMMA StopKeepsType ==
  ASSUME TypeOK, StopTimeLimit
  PROVE  ManagerTypeOK' /\ UNCHANGED poolVars
BY DEF TypeOK, StopTimeLimit, ManagerTypeOK, poolVars, verdictVars, boundVars,
   syncBoundVars

\* A step that leaves the manager alone keeps its types.
LEMMA UnchangedKeepsType ==
  ASSUME TypeOK, UNCHANGED managerVars
  PROVE  ManagerTypeOK' /\ UNCHANGED poolVars
BY DEF TypeOK, managerVars, ManagerTypeOK, poolVars, verdictVars, boundVars,
   syncBoundVars, flagVars

\* A step that leaves the pools alone keeps their types.
LEMMA PoolsUnchanged ==
  ASSUME PoolTypeOK, UNCHANGED <<config, poolVars, reported>>
  PROVE  PoolTypeOK'
BY DEF PoolTypeOK, PoolOf, Entry, HasObjective, Feasible, poolVars

-----------------------------------------------------------------------------
\* Every step of the driver keeps TypeOK.
LEMMA MainKeepsType == ASSUME TypeOK, MainNext PROVE TypeOK'
<1> USE DEF TypeOK
<1>1. CASE LoadHint
  <2>1. ManagerTypeOK' /\ PoolTypeOK'
    BY <1>1, NewSolutionKeepsType, UnchangedKeepsType, PoolsUnchanged,
       ConfigurationFacts DEF LoadHint
  <2> QED
    BY <1>1, <2>1 DEF LoadHint, WorkerTypeOK
<1>2. CASE LaunchSubsolvers
  BY <1>2, UnchangedKeepsType, PoolsUnchanged DEF LaunchSubsolvers, WorkerTypeOK
<1>3. CASE MainSynchronizeResponse
  BY <1>3, SynchronizeKeepsType, UnchangedKeepsType, PoolsUnchanged
     DEF MainSynchronizeResponse, WorkerTypeOK
<1>4. CASE MainSynchronizePool
  <2>1. ManagerTypeOK' /\ PoolTypeOK'
    <3>1. CASE SynchronizePool
      BY <1>4, <3>1, SynchronizePoolKeepsType
         DEF MainSynchronizePool, PoolTypeOK, PoolOf, Entry, HasObjective, Feasible
    <3>2. CASE UNCHANGED managerVars
      BY <1>4, <3>2, UnchangedKeepsType, PoolsUnchanged DEF MainSynchronizePool
    <3> QED
      BY <1>4, <3>1, <3>2 DEF MainSynchronizePool
  <2> QED
    BY <1>4, <2>1 DEF MainSynchronizePool, WorkerTypeOK
<1>5. CASE MainSchedule
  <2>1. WorkerTypeOK'
    <3>1. PICK B \in SUBSET Available :
            worker' = [v \in Workers |->
              IF v \in B
              THEN [task |-> "searching", phase |-> "loading",
                    lb |-> worker[v].lb, ub |-> worker[v].ub]
              ELSE worker[v]]
      BY <1>5 DEF MainSchedule
    <3> QED
      BY <3>1 DEF WorkerTypeOK
  <2> QED
    BY <1>5, <2>1, UnchangedKeepsType, PoolsUnchanged DEF MainSchedule
<1>6. CASE MainFindNoTask
  BY <1>6, UnchangedKeepsType, StopKeepsType, PoolsUnchanged
     DEF MainFindNoTask, StopIfSolved, WorkerTypeOK
<1>7. CASE MainReachBatchLimit
  BY <1>7, UnchangedKeepsType, StopKeepsType, PoolsUnchanged
     DEF MainReachBatchLimit, StopIfSolved, WorkerTypeOK
<1> QED
  BY <1>1, <1>2, <1>3, <1>4, <1>5, <1>6, <1>7 DEF MainNext

\* Every step of a worker keeps TypeOK.
LEMMA WorkerKeepsType ==
  ASSUME TypeOK, NEW w \in Workers, WorkerNext(w)
  PROVE  TypeOK'
<1> USE SearchAssumption DEF TypeOK
<1>1. CASE \E lb, ub \in ClaimedBounds : BroadcastObjectiveBounds(w, lb, ub)
  <2>1. PICK lb \in ClaimedBounds, ub \in ClaimedBounds :
          BroadcastObjectiveBounds(w, lb, ub)
    BY <1>1
  <2>2. WorkerTypeOK'
    <3> DEFINE task == IF InterleaveSearch THEN "searching" ELSE "synchronizing"
    <3>1. task \in Tasks
      OBVIOUS
    <3>2. lb \in Int /\ ub \in Int
      OBVIOUS
    <3>3. worker[w] \in [task : Tasks, phase : Phases, lb : Int, ub : Int]
      BY DEF WorkerTypeOK
    <3> DEFINE new == [worker[w] EXCEPT !.lb = lb, !.ub = ub, !.task = task]
    <3> HIDE DEF task
    <3>4. new \in [task : Tasks, phase : Phases, lb : Int, ub : Int]
      BY <3>1, <3>2, <3>3
    <3>5. worker' = [worker EXCEPT ![w] = new]
      BY <2>1 DEF BroadcastObjectiveBounds, WorkerTypeOK, task
    <3> HIDE DEF new
    <3> QED
      BY <3>4, <3>5 DEF WorkerTypeOK
  <2>3. UpdateInnerObjectiveBounds(lb, ub) /\ lb \in Int /\ ub \in Int
    BY <2>1 DEF BroadcastObjectiveBounds
  <2>4. ManagerTypeOK' /\ UNCHANGED poolVars
    BY <2>3, UpdateKeepsType
  <2> QED
    BY <2>1, <2>2, <2>4, PoolsUnchanged DEF BroadcastObjectiveBounds
<1>2. CASE SynchronizeAfterBroadcast(w)
  BY <1>2, SynchronizeKeepsType, PoolsUnchanged
     DEF SynchronizeAfterBroadcast, Goto, WorkerTypeOK
<1>3. CASE ImportLowerBound(w)
  <2>1. WorkerTypeOK'
    <3> DEFINE task == IF synchronized_lb > worker[w].ub
                       THEN "searching" ELSE "importing"
               lb == Larger(worker[w].lb, synchronized_lb)
    <3>1. task \in Tasks /\ lb \in Int
      BY DEF Larger, WorkerTypeOK, ManagerTypeOK
    <3>2. worker' = [worker EXCEPT ![w].lb = lb, ![w].task = task]
      BY <1>3 DEF ImportLowerBound
    <3> HIDE DEF task, lb
    <3> QED
      BY <3>1, <3>2 DEF WorkerTypeOK
  <2> QED
    BY <1>3, <2>1, UnchangedKeepsType, PoolsUnchanged DEF ImportLowerBound
<1>4. CASE ImportUpperBound(w)
  BY <1>4, UnchangedKeepsType, PoolsUnchanged
     DEF ImportUpperBound, Smaller, WorkerTypeOK, ManagerTypeOK
<1>5. CASE \E s \in Feasible : FindSolution(w, s)
  <2>1. PICK s \in Feasible : FindSolution(w, s)
    BY <1>5
  <2>2. ManagerTypeOK' /\ PoolTypeOK'
    BY <2>1, NewSolutionKeepsType DEF FindSolution
  <2>3. WorkerTypeOK'
    BY <2>1, ConfigurationFacts DEF FindSolution, Goto, Smaller, WorkerTypeOK
  <2> QED
    BY <2>1, <2>2, <2>3 DEF FindSolution
<1>6. CASE ProveInfeasible(w)
  BY <1>6, NotifyKeepsType, PoolsUnchanged DEF ProveInfeasible, Goto, WorkerTypeOK
<1>7. CASE FinishTask(w)
  BY <1>7, UnchangedKeepsType, PoolsUnchanged DEF FinishTask, Goto, WorkerTypeOK
<1>8. CASE StartSearch(w)
  BY <1>8, UnchangedKeepsType, StopKeepsType, PoolsUnchanged
     DEF StartSearch, StopIfSolved, Goto, WorkerTypeOK
<1>9. CASE ConcludeFragment(w)
  BY <1>9, NotifyKeepsType, PoolsUnchanged DEF ConcludeFragment, Goto, WorkerTypeOK
<1>10. CASE StopSearch(w)
  BY <1>10, StopKeepsType, PoolsUnchanged DEF StopSearch, Goto, WorkerTypeOK
<1> QED
  BY <1>1, <1>2, <1>3, <1>4, <1>5, <1>6, <1>7, <1>8, <1>9, <1>10 DEF WorkerNext

(* Every variable keeps its type, and the pools hold nothing but feasible  *)
(* solutions that were reported to NewSolution().                          *)
THEOREM TypeCorrect == Spec => []TypeOK
<1>1. TypeOK /\ [Next]_vars => TypeOK'
  <2> SUFFICES ASSUME TypeOK, [Next]_vars PROVE TypeOK'
    OBVIOUS
  <2> USE DEF TypeOK
  <2>1. CASE UNCHANGED vars
    BY <2>1, UnchangedKeepsType, PoolsUnchanged DEF vars, searchVars, WorkerTypeOK
  <2>2. CASE MainNext
    BY <2>2, MainKeepsType
  <2>3. CASE ReachTimeLimit
    BY <2>3, StopKeepsType, PoolsUnchanged DEF ReachTimeLimit, searchVars, WorkerTypeOK
  <2>4. CASE \E w \in Present : WorkerNext(w)
    BY <2>4, WorkerKeepsType, ConfigurationFacts
  <2> QED
    BY <2>1, <2>2, <2>3, <2>4 DEF Next, Terminated
<1> QED
  BY <1>1, InitTypeOK, PTL DEF Spec

-----------------------------------------------------------------------------
(* Without an objective there is nothing to say about bounds, and there is *)
(* an objective in the next state when there is one now.                   *)
LEMMA NextKeepsConfiguration ==
  ASSUME [Next]_vars PROVE config' = config
BY DEF Next, vars, searchVars, MainNext, LoadHint, LaunchSubsolvers,
   MainSynchronizeResponse, MainSynchronizePool, MainSchedule, MainFindNoTask,
   MainReachBatchLimit, ReachTimeLimit, Terminated, WorkerNext,
   BroadcastObjectiveBounds, SynchronizeAfterBroadcast, ImportLowerBound,
   ImportUpperBound, FindSolution, ProveInfeasible, FinishTask, StartSearch,
   ConcludeFragment, StopSearch

\* BoundsInv holds at first.
LEMMA InitBounds == Init => BoundsInv
BY ManagerAssumption, SearchAssumption, ConfigurationFacts
   DEF Init, ManagerInit, BoundsInv, Covers

(* A step that only touches what the bounds do not depend on.              *)
LEMMA BoundsUnchanged ==
  ASSUME BoundsInv, UNCHANGED <<config, boundVars, syncBoundVars, reported>>,
         \A w \in Workers :
           worker'[w].lb = worker[w].lb /\ worker'[w].ub = worker[w].ub
  PROVE  BoundsInv'
BY DEF BoundsInv, Covers, Feasible, HasObjective, boundVars, syncBoundVars

(* Synchronize() hands on bounds that cover what the manager's own cover.  *)
LEMMA SynchronizeKeepsBounds ==
  ASSUME BoundsInv, TypeOK, Synchronize, UNCHANGED <<config, reported>>,
         \A w \in Workers :
           worker'[w].lb = worker[w].lb /\ worker'[w].ub = worker[w].ub
  PROVE  BoundsInv'
BY DEF BoundsInv, Covers, Feasible, HasObjective, boundVars, Synchronize,
   TypeOK, ManagerTypeOK

(* No window changes, but for those that become [lb, ub].                  *)
WindowsStayOrBecome(lb, ub) ==
  \A w \in Workers : \/ worker'[w].lb = worker[w].lb /\ worker'[w].ub = worker[w].ub
                     \/ worker'[w].lb = lb /\ worker'[w].ub = ub

(* UpdateInnerObjectiveBounds() of a window that covers.                   *)
LEMMA UpdateKeepsBounds ==
  ASSUME BoundsInv, TypeOK, HasObjective, UNCHANGED <<config, reported>>,
         NEW lb \in Int, NEW ub \in Int, Covers(lb, ub),
         UpdateInnerObjectiveBounds(lb, ub), WindowsStayOrBecome(lb, ub)
  PROVE  BoundsInv'
<1> USE ConfigurationFacts DEF TypeOK, ManagerTypeOK
<1>1. best_objective' = best_objective
  BY DEF UpdateInnerObjectiveBounds, IgnoreInnerObjectiveBounds, managerVars, boundVars
<1>2. \/ inner_lb' = inner_lb /\ inner_ub' = inner_ub
      \/ inner_lb' = UpdatedLb(lb) /\ inner_ub' = UpdatedUb(ub)
  BY DEF UpdateInnerObjectiveBounds, IgnoreInnerObjectiveBounds, managerVars, boundVars
<1>3. \/ synchronized_lb' = synchronized_lb /\ synchronized_ub' = synchronized_ub
      \/ synchronized_lb' = inner_lb' /\ synchronized_ub' = inner_ub'
  BY DEF UpdateInnerObjectiveBounds, IgnoreInnerObjectiveBounds, managerVars, syncBoundVars
<1>4. /\ Covers(UpdatedLb(lb), UpdatedUb(ub))
      /\ inner_lb <= UpdatedLb(lb) /\ UpdatedLb(lb) <= best_objective
      /\ UpdatedUb(ub) < best_objective
      /\ UpdatedLb(lb) \in Int /\ UpdatedUb(ub) \in Int
  BY DEF BoundsInv, Covers, UpdatedLb, UpdatedUb, Smaller
<1>5. /\ Covers(inner_lb', inner_ub')
      /\ inner_lb <= inner_lb' /\ inner_lb' <= best_objective
      /\ inner_ub' < best_objective
  BY <1>2, <1>4 DEF BoundsInv
<1>6. /\ Covers(synchronized_lb', synchronized_ub')
      /\ synchronized_lb' <= inner_lb'
  BY <1>2, <1>3, <1>4, <1>5 DEF BoundsInv
<1>7. \A w \in Workers : Covers(worker'[w].lb, worker'[w].ub)
  BY DEF BoundsInv, WindowsStayOrBecome
<1> QED
  BY <1>1, <1>5, <1>6, <1>7 DEF BoundsInv, Covers, Feasible, HasObjective

(* NewSolution() lowers the best objective, if it changes it at all.       *)
LEMMA NewSolutionKeepsBounds ==
  ASSUME BoundsInv, TypeOK, UNCHANGED config, NEW s \in Feasible, NewSolution(s),
         reported' = reported \cup {s},
         \A w \in Workers :
           \/ worker'[w].lb = worker[w].lb /\ worker'[w].ub = worker[w].ub
           \/ /\ worker'[w].lb = worker[w].lb
              /\ worker'[w].ub = Smaller(worker[w].ub, Obj[s] - 1)
  PROVE  BoundsInv'
<1> SUFFICES ASSUME HasObjective PROVE BoundsInv'
  BY DEF BoundsInv, HasObjective
<1> USE ConfigurationFacts DEF TypeOK, ManagerTypeOK
<1>1. /\ inner_lb' = inner_lb
      /\ synchronized_lb' = synchronized_lb /\ synchronized_ub' = synchronized_ub
  BY DEF NewSolution, PoolSolution, ImproveObjective, SatisfyProblem, RecordSolution,
     boundVars, syncBoundVars
<1>2. \/ /\ Obj[s] > inner_ub
         /\ best_objective' = best_objective /\ inner_ub' = inner_ub
      \/ /\ Obj[s] <= inner_ub
         /\ best_objective' = Obj[s] /\ inner_ub' = Obj[s] - 1
  BY DEF NewSolution, PoolSolution, ImproveObjective, SatisfyProblem, IsImproving,
     boundVars
<1>3. best_objective' \in Int /\ best_objective' <= best_objective
      /\ best_objective' <= Obj[s]
  BY <1>2 DEF BoundsInv, Covers
<1>4. Covers(inner_lb, inner_ub)' /\ inner_ub' < best_objective'
      /\ inner_lb' <= best_objective'
  BY <1>1, <1>2, <1>3 DEF BoundsInv, Covers, Feasible
<1>5. Covers(synchronized_lb, synchronized_ub)'
  BY <1>1, <1>3 DEF BoundsInv, Covers, Feasible
<1>6. ASSUME NEW w \in Workers PROVE Covers(worker[w].lb, worker[w].ub)'
  BY <1>3 DEF BoundsInv, Covers, Feasible, Smaller, WorkerTypeOK
<1>7. \A t \in reported' : best_objective' <= Obj[t]
  BY <1>3 DEF BoundsInv, PoolTypeOK
<1> QED
  BY <1>1, <1>4, <1>5, <1>6, <1>7 DEF BoundsInv, Covers, Feasible

(* There is nothing better than the best solution: that is what an empty   *)
(* window shows, if it covers, and an optimum that was reported.           *)
NothingImproves ==
  HasObjective => \A s \in Feasible : best_objective <= Obj[s]

\* A worker whose window holds no solution has proved that none improves.
LEMMA EmptyWindowMeansNothingImproves ==
  ASSUME BoundsInv, TypeOK, NEW w \in Workers, Open(w) = {}
  PROVE  NothingImproves
BY ConfigurationFacts
   DEF TypeOK, ManagerTypeOK, BoundsInv, Covers, Open, NothingImproves

\* Once an optimal solution is reported none improves.
LEMMA OptimumMeansNothingImproves ==
  ASSUME BoundsInv, TypeOK, NEW s \in reported,
         HasObjective => \A t \in Feasible : Obj[s] <= Obj[t]
  PROVE  NothingImproves
BY ConfigurationFacts
   DEF TypeOK, ManagerTypeOK, PoolTypeOK, BoundsInv, NothingImproves

\* Declaring the improving problem infeasible, when it is, keeps BoundsInv.
LEMMA NotifyKeepsBounds ==
  ASSUME BoundsInv, TypeOK, UNCHANGED <<config, reported>>, NothingImproves,
         NotifyThatImprovingProblemIsInfeasible,
         \A v \in Workers :
           worker'[v].lb = worker[v].lb /\ worker'[v].ub = worker[v].ub
  PROVE  BoundsInv'
<1> SUFFICES ASSUME HasObjective PROVE BoundsInv'
  BY DEF BoundsInv, HasObjective
<1> USE ConfigurationFacts DEF TypeOK, ManagerTypeOK
<1>1. \A s \in Feasible : best_objective <= Obj[s]
  BY DEF NothingImproves
<1>2. inner_lb' = inner_lb \/ inner_lb' = best_objective
  BY DEF NotifyThatImprovingProblemIsInfeasible
<1>3. UNCHANGED <<inner_ub, best_objective, synchronized_lb, synchronized_ub>>
  BY DEF NotifyThatImprovingProblemIsInfeasible, syncBoundVars
<1> QED
  BY <1>1, <1>2, <1>3 DEF BoundsInv, Covers, Feasible

\* Every step of the driver keeps BoundsInv.
LEMMA MainKeepsBounds ==
  ASSUME BoundsInv, TypeOK, MainNext PROVE BoundsInv'
<1>1. CASE LoadHint
  BY <1>1, NewSolutionKeepsBounds, BoundsUnchanged, ConfigurationFacts
     DEF LoadHint, managerVars, TypeOK
<1>2. CASE LaunchSubsolvers
  BY <1>2, BoundsUnchanged DEF LaunchSubsolvers, managerVars
<1>3. CASE MainSynchronizeResponse
  BY <1>3, SynchronizeKeepsBounds, BoundsUnchanged
     DEF MainSynchronizeResponse, managerVars
<1>4. CASE MainSynchronizePool
  BY <1>4, BoundsUnchanged DEF MainSynchronizePool, SynchronizePool, managerVars
<1>5. CASE MainSchedule
  BY <1>5, BoundsUnchanged DEF MainSchedule, managerVars, TypeOK, WorkerTypeOK
<1>6. CASE MainFindNoTask
  BY <1>6, BoundsUnchanged
     DEF MainFindNoTask, StopIfSolved, StopTimeLimit, managerVars
<1>7. CASE MainReachBatchLimit
  BY <1>7, BoundsUnchanged
     DEF MainReachBatchLimit, StopIfSolved, StopTimeLimit, managerVars
<1> QED
  BY <1>1, <1>2, <1>3, <1>4, <1>5, <1>6, <1>7 DEF MainNext

(* Goto() does not touch the windows.                                      *)
LEMMA GotoKeepsWindows ==
  ASSUME WorkerTypeOK, NEW w \in Workers, NEW task, Goto(w, task)
  PROVE  \A v \in Workers :
           worker'[v].lb = worker[v].lb /\ worker'[v].ub = worker[v].ub
BY DEF Goto, WorkerTypeOK

\* Every step of a worker keeps BoundsInv.
LEMMA WorkerKeepsBounds ==
  ASSUME BoundsInv, TypeOK, NEW w \in Workers, WorkerNext(w)
  PROVE  BoundsInv'
<1> USE DEF TypeOK
<1>1. CASE \E lb, ub \in ClaimedBounds : BroadcastObjectiveBounds(w, lb, ub)
  <2>1. PICK lb \in ClaimedBounds, ub \in ClaimedBounds :
          BroadcastObjectiveBounds(w, lb, ub)
    BY <1>1
  <2>2. /\ lb \in Int /\ ub \in Int /\ HasObjective
        /\ UNCHANGED <<config, reported>>
        /\ UpdateInnerObjectiveBounds(lb, ub)
        /\ \A s \in Open(w) : lb <= Obj[s] /\ Obj[s] <= ub
    BY <2>1, SearchAssumption DEF BroadcastObjectiveBounds
  <2>3. Covers(lb, ub)
    BY <2>2 DEF BoundsInv, Covers, Open
  <2>4. WindowsStayOrBecome(lb, ub)
    BY <2>1 DEF BroadcastObjectiveBounds, WorkerTypeOK, WindowsStayOrBecome
  <2> QED
    BY <2>2, <2>3, <2>4, UpdateKeepsBounds
<1>2. CASE SynchronizeAfterBroadcast(w)
  BY <1>2, SynchronizeKeepsBounds, GotoKeepsWindows DEF SynchronizeAfterBroadcast
<1>3. CASE ImportLowerBound(w)
  <2>1. /\ HasObjective
        /\ UNCHANGED <<config, boundVars, syncBoundVars, reported>>
        /\ worker'[w].lb = Larger(worker[w].lb, synchronized_lb)
        /\ worker'[w].ub = worker[w].ub
        /\ \A v \in Workers \ {w} : worker'[v] = worker[v]
    BY <1>3 DEF ImportLowerBound, WorkerTypeOK, managerVars
  <2>2. Covers(worker'[w].lb, worker'[w].ub)
    BY <2>1 DEF BoundsInv, Covers, Larger
  <2> QED
    BY <2>1, <2>2 DEF BoundsInv, Covers, Feasible, HasObjective, boundVars,
       syncBoundVars
<1>4. CASE ImportUpperBound(w)
  <2>1. /\ UNCHANGED <<config, boundVars, syncBoundVars, reported>>
        /\ worker'[w].ub = Smaller(worker[w].ub, synchronized_ub)
        /\ worker'[w].lb = worker[w].lb
        /\ \A v \in Workers \ {w} : worker'[v] = worker[v]
    BY <1>4 DEF ImportUpperBound, WorkerTypeOK, managerVars
  <2>2. HasObjective => Covers(worker'[w].lb, worker'[w].ub)
    BY <2>1 DEF BoundsInv, Covers, Smaller
  <2> QED
    BY <2>1, <2>2 DEF BoundsInv, Covers, Feasible, HasObjective, boundVars,
       syncBoundVars
<1>5. CASE \E s \in Feasible : FindSolution(w, s)
  <2>1. PICK s \in Feasible : FindSolution(w, s)
    BY <1>5
  <2>2. \A v \in Workers :
          \/ worker'[v].lb = worker[v].lb /\ worker'[v].ub = worker[v].ub
          \/ /\ worker'[v].lb = worker[v].lb
             /\ worker'[v].ub = Smaller(worker[v].ub, Obj[s] - 1)
    BY <2>1, GotoKeepsWindows DEF FindSolution, WorkerTypeOK
  <2> QED
    BY <2>1, <2>2, NewSolutionKeepsBounds DEF FindSolution
<1>6. CASE ProveInfeasible(w)
  BY <1>6, EmptyWindowMeansNothingImproves, NotifyKeepsBounds, GotoKeepsWindows
     DEF ProveInfeasible
<1>7. CASE ConcludeFragment(w)
  BY <1>7, OptimumMeansNothingImproves, NotifyKeepsBounds, GotoKeepsWindows
     DEF ConcludeFragment
<1>8. CASE StartSearch(w)
  <2>1. /\ UNCHANGED <<config, boundVars, syncBoundVars, reported>>
        /\ \A v \in Workers :
             worker'[v].lb = worker[v].lb /\ worker'[v].ub = worker[v].ub
    BY <1>8, GotoKeepsWindows
       DEF StartSearch, StopIfSolved, StopTimeLimit, managerVars, WorkerTypeOK
  <2> QED
    BY <2>1, BoundsUnchanged
<1>9. CASE StopSearch(w) \/ FinishTask(w)
  BY <1>9, BoundsUnchanged, GotoKeepsWindows
     DEF StopSearch, StopTimeLimit, FinishTask, managerVars
<1> QED
  BY <1>1, <1>2, <1>3, <1>4, <1>5, <1>6, <1>7, <1>8, <1>9 DEF WorkerNext

(* Every window anybody holds, however old, covers the improving solutions.*)
THEOREM BoundsCover == Spec => []BoundsInv
<1>1. TypeOK /\ BoundsInv /\ [Next]_vars => BoundsInv'
  <2> SUFFICES ASSUME TypeOK, BoundsInv, [Next]_vars PROVE BoundsInv'
    OBVIOUS
  <2>1. CASE UNCHANGED vars
    BY <2>1, BoundsUnchanged DEF vars, searchVars, managerVars
  <2>2. CASE MainNext
    BY <2>2, MainKeepsBounds
  <2>3. CASE ReachTimeLimit
    BY <2>3, BoundsUnchanged DEF ReachTimeLimit, StopTimeLimit, searchVars
  <2>4. CASE \E w \in Present : WorkerNext(w)
    BY <2>4, WorkerKeepsBounds, ConfigurationFacts DEF TypeOK
  <2> QED
    BY <2>1, <2>2, <2>3, <2>4 DEF Next, Terminated
<1> QED
  BY <1>1, InitBounds, TypeCorrect, PTL DEF Spec

(* The bound reported to the user and the bound workers import are below   *)
(* every feasible solution.                                                *)
THEOREM LowerBoundsAreGlobal == Spec => []LowerBoundIsGlobal
<1>1. TypeOK /\ BoundsInv => LowerBoundIsGlobal
  BY ConfigurationFacts DEF BoundsInv, Covers, LowerBoundIsGlobal, TypeOK, ManagerTypeOK
<1> QED
  BY <1>1, TypeCorrect, BoundsCover, PTL

(* The two assertions of NewSolution() never fail, whichever worker calls  *)
(* it and whatever it knows.                                               *)
THEOREM NewSolutionAssertionsHold == Spec => []ImprovingSolutionsRespectBounds
<1>1. TypeOK /\ BoundsInv => ImprovingSolutionsRespectBounds
  BY ConfigurationFacts
     DEF BoundsInv, Covers, ImprovingSolutionsRespectBounds, TypeOK, ManagerTypeOK
<1> QED
  BY <1>1, TypeCorrect, BoundsCover, PTL

-----------------------------------------------------------------------------
(* Determinism.  When the manager is not always synchronized the search is *)
(* interleaved, and then no worker synchronizes the manager by itself.     *)
NobodySynchronizes ==
  ~ AlwaysSynchronize => \A w \in Workers : worker[w].task # "synchronizing"

\* Only an interleaved search defers the synchronization of the manager.
LEMMA NotSynchronizedIsInterleaved ==
  ASSUME config \in Configurations, ~ AlwaysSynchronize
  PROVE  InterleaveSearch
BY SearchAssumption DEF SearchConfigurationOK, AlwaysSynchronize, InterleaveSearch

\* Every step keeps NobodySynchronizes.
LEMMA StepKeepsNobodySynchronizes ==
  ASSUME TypeOK, NobodySynchronizes, [Next]_vars
  PROVE  NobodySynchronizes'
<1> SUFFICES ASSUME ~ AlwaysSynchronize, NEW v \in Workers
             PROVE  worker'[v].task # "synchronizing"
  BY NextKeepsConfiguration DEF NobodySynchronizes, AlwaysSynchronize
<1> USE NotSynchronizedIsInterleaved DEF TypeOK, WorkerTypeOK, NobodySynchronizes
<1>1. CASE UNCHANGED vars \/ ReachTimeLimit
  BY <1>1 DEF vars, searchVars, ReachTimeLimit
<1>2. CASE MainNext
  BY <1>2 DEF MainNext, LoadHint, LaunchSubsolvers, MainSynchronizeResponse,
     MainSynchronizePool, MainSchedule, MainFindNoTask, MainReachBatchLimit
<1>3. ASSUME NEW w \in Workers, WorkerNext(w) PROVE worker'[v].task # "synchronizing"
  <2>1. CASE \E lb, ub \in ClaimedBounds : BroadcastObjectiveBounds(w, lb, ub)
    BY <2>1 DEF BroadcastObjectiveBounds
  <2>2. CASE SynchronizeAfterBroadcast(w) \/ ImportUpperBound(w)
             \/ ProveInfeasible(w) \/ FinishTask(w) \/ StartSearch(w)
             \/ ConcludeFragment(w) \/ StopSearch(w)
    BY <2>2 DEF SynchronizeAfterBroadcast, ImportUpperBound, ProveInfeasible,
       FinishTask, StartSearch, ConcludeFragment, StopSearch, Goto
  <2>3. CASE ImportLowerBound(w)
    BY <2>3 DEF ImportLowerBound
  <2>4. CASE \E s \in Feasible : FindSolution(w, s)
    BY <2>4 DEF FindSolution, Goto
  <2> QED
    BY <1>3, <2>1, <2>2, <2>3, <2>4 DEF WorkerNext
<1> QED
  BY <1>1, <1>2, <1>3, ConfigurationFacts DEF Next, Terminated

\* While nobody synchronizes, no step changes what the workers see.
LEMMA StepKeepsView ==
  ASSUME TypeOK, NobodySynchronizes, [Next]_vars,
         ~ AlwaysSynchronize, ~ MainSynchronizes
  PROVE  UNCHANGED SynchronizedView
<1> USE DEF SynchronizedView, verdictVars, syncBoundVars, poolVars, flagVars
<1>1. ASSUME NEW s, NewSolution(s) PROVE UNCHANGED SynchronizedView
  BY <1>1 DEF NewSolution, PoolSolution, ImproveObjective, SatisfyProblem,
     RecordSolution, ReportStatusAndTestGap, UpdateBestStatus
<1>2. ASSUME StopTimeLimit \/ UNCHANGED managerVars PROVE UNCHANGED SynchronizedView
  BY <1>2 DEF StopTimeLimit, managerVars
<1>3. CASE UNCHANGED vars \/ ReachTimeLimit
  BY <1>2, <1>3 DEF vars, ReachTimeLimit
<1>4. CASE MainNext
  BY <1>1, <1>2, <1>4 DEF MainNext, LoadHint, LaunchSubsolvers,
     MainSynchronizeResponse, MainSynchronizePool, MainSchedule, MainFindNoTask,
     MainReachBatchLimit, StopIfSolved, MainSynchronizes
<1>5. ASSUME NEW w \in Workers, WorkerNext(w) PROVE UNCHANGED SynchronizedView
  <2>1. CASE \E lb, ub \in ClaimedBounds : BroadcastObjectiveBounds(w, lb, ub)
    BY <2>1 DEF BroadcastObjectiveBounds, UpdateInnerObjectiveBounds,
       IgnoreInnerObjectiveBounds, CrossInnerObjectiveBounds,
       TightenInnerObjectiveBounds, UpdateBestStatus, managerVars
  <2>2. CASE ProveInfeasible(w) \/ ConcludeFragment(w)
    BY <2>2 DEF ProveInfeasible, ConcludeFragment, NotifyThatImprovingProblemIsInfeasible,
       UpdateBestStatus
  <2>3. ~ SynchronizeAfterBroadcast(w)
    BY DEF SynchronizeAfterBroadcast, NobodySynchronizes
  <2>4. CASE \E s \in Feasible : FindSolution(w, s)
    BY <1>1, <2>4 DEF FindSolution
  <2> QED
    BY <1>2, <1>5, <2>1, <2>2, <2>3, <2>4
       DEF WorkerNext, ImportLowerBound, ImportUpperBound, FinishTask, StartSearch,
           StopIfSolved, StopSearch
<1> QED
  BY <1>3, <1>4, <1>5, ConfigurationFacts DEF Next, Terminated, TypeOK

(* In an interleaved search no worker sees what another one has done since *)
(* the main thread last synchronized: what it computes does not depend on  *)
(* how the threads were scheduled.                                         *)
THEOREM InterleavedSearchIsDeterministic == Spec => WorkersSeeOnlySynchronizedState
<1>1. Init => NobodySynchronizes
  BY DEF Init, NobodySynchronizes
<1>2. TypeOK /\ NobodySynchronizes /\ [Next]_vars => NobodySynchronizes'
  BY StepKeepsNobodySynchronizes
<1>3. TypeOK /\ NobodySynchronizes /\ [Next]_vars
        => [~ AlwaysSynchronize /\ ~ MainSynchronizes
              => UNCHANGED SynchronizedView]_vars
  BY StepKeepsView
<1> QED
  BY <1>1, <1>2, <1>3, TypeCorrect, PTL DEF Spec, WorkersSeeOnlySynchronizedState

-----------------------------------------------------------------------------
(* The answer of every search is right: what its best objective is, when   *)
(* it may claim optimality, and that a proof of infeasibility never meets  *)
(* a solution.  It rests on the bounds: a worker that proves something     *)
(* proves it about the window it was told to search, and BoundsInv says    *)
(* what follows from that about the solutions themselves.  Last, that the  *)
(* response that is read at the end has the best of them.                  *)
VerdictInv == StatusInv /\ BestIsBestReported /\ VerdictIsSound

(* All that the verdict depends on.                                        *)
answerVars ==
  <<config, best_status, inner_lb, best_objective, num_solutions, reported>>

(* A gap that was small enough stays so when the lower bound rises.        *)
LEMMA ProductIsMonotone ==
  ASSUME NEW a \in Nat, NEW b \in Nat, NEW d \in Nat, a <= b
  PROVE  a * d <= b * d
OBVIOUS

\* A gap that is reached stays reached when the lower bound rises.
LEMMA GapIsMonotone ==
  ASSUME config \in Configurations,
         NEW best \in Int, NEW a \in Int, NEW b \in Int,
         a <= b, b <= best, WithinGap(best, a)
  PROVE  WithinGap(best, b)
<1> DEFINE den == config.relative_gap_limit[2]
           limit == config.relative_gap_limit[1] * Larger(1, Abs(best + config.offset))
<1>1. /\ Abs(best - b) \in Nat /\ Abs(best - a) \in Nat
      /\ Abs(best - b) <= Abs(best - a)
  BY DEF Abs
<1>2. den \in Nat /\ config.absolute_gap_limit \in Nat
  BY ConfigurationFacts
<1>3. Abs(best - b) * den <= Abs(best - a) * den
  BY <1>1, <1>2, ProductIsMonotone
<1>4. /\ Abs(best - b) * den \in Int /\ Abs(best - a) * den \in Int
      /\ limit \in Int
  <2>1. config.relative_gap_limit[1] \in Int /\ config.offset \in Int
    BY ConfigurationFacts
  <2>2. Larger(1, Abs(best + config.offset)) \in Int
    BY <2>1 DEF Larger, Abs
  <2> QED
    BY <1>1, <1>2, <2>1, <2>2
<1>5. \/ Abs(best - a) <= config.absolute_gap_limit
      \/ Abs(best - a) * den < limit
  BY DEF WithinGap
<1> HIDE DEF den, limit
<1>6. \/ Abs(best - b) <= config.absolute_gap_limit
      \/ Abs(best - b) * den < limit
  BY <1>1, <1>2, <1>3, <1>4, <1>5
<1> QED
  BY <1>6 DEF WithinGap, den, limit

-----------------------------------------------------------------------------
\* A step that leaves the answer alone keeps VerdictInv.
LEMMA VerdictUnchanged ==
  ASSUME VerdictInv, UNCHANGED answerVars PROVE VerdictInv'
BY DEF VerdictInv, answerVars, StatusInv, BestIsBestReported, VerdictIsSound,
   WithinGap, Feasible, HasObjective, EnumerateAll

(* With an objective and no solution reported, nothing has been excluded.  *)
LEMMA NothingReported ==
  ASSUME TypeOK, BestIsBestReported, HasObjective, reported = {}, NEW s \in Feasible
  PROVE  Obj[s] < best_objective
BY ConfigurationFacts DEF TypeOK, BestIsBestReported

\* A bound that covers the improving solutions keeps VerdictInv.
LEMMA UpdateKeepsVerdict ==
  ASSUME TypeOK, BoundsInv, VerdictInv, HasObjective, UNCHANGED <<config, reported>>,
         NEW lb \in Int, NEW ub \in Int, Covers(lb, ub),
         UpdateInnerObjectiveBounds(lb, ub)
  PROVE  VerdictInv'
<1>1. CASE IgnoreInnerObjectiveBounds(lb, ub)
  BY <1>1, VerdictUnchanged DEF IgnoreInnerObjectiveBounds, managerVars, verdictVars,
     boundVars, answerVars
<1>2. CASE ~ IgnoreInnerObjectiveBounds(lb, ub)
  <2> USE DEF TypeOK, ManagerTypeOK
  <2>1. /\ inner_lb' = UpdatedLb(lb)
        /\ UNCHANGED <<best_objective, num_solutions>>
    BY <1>2 DEF UpdateInnerObjectiveBounds
  <2>2. /\ UpdatedLb(lb) \in Int /\ inner_lb <= UpdatedLb(lb)
        /\ UpdatedLb(lb) <= best_objective
        /\ Covers(UpdatedLb(lb), UpdatedUb(ub)) /\ UpdatedUb(ub) \in Int
    BY ConfigurationFacts DEF BoundsInv, Covers, UpdatedLb, UpdatedUb, Smaller
  <2>3. BestIsBestReported'
    BY <2>1 DEF VerdictInv, BestIsBestReported, HasObjective
  <2>4. CASE CrossInnerObjectiveBounds(lb, ub)
    <3>1. \A s \in Feasible : best_objective <= Obj[s]
      BY <2>2, <2>4, ConfigurationFacts
         DEF CrossInnerObjectiveBounds, BoundsCross, Covers
    <3>2. best_status' = IF HasSolution(best_status) THEN "OPTIMAL" ELSE "INFEASIBLE"
      BY <2>4 DEF CrossInnerObjectiveBounds, UpdateBestStatus
    <3>3. reported = {} => Feasible = {}
      BY <3>1, NothingReported, ConfigurationFacts DEF VerdictInv
    <3> QED
      BY <2>1, <2>3, <3>1, <3>2, <3>3
         DEF VerdictInv, StatusInv, HasSolution, VerdictIsSound, Feasible, HasObjective
  <2>5. CASE TightenInnerObjectiveBounds(lb, ub)
    <3>1. \/ best_status' = best_status
          \/ /\ best_status' = "OPTIMAL"
             /\ best_objective < KMax
             /\ WithinGap(best_objective, UpdatedLb(lb))
      BY <2>5 DEF TightenInnerObjectiveBounds, GapLimitReached, UpdateBestStatus,
         verdictVars
    <3>2. StatusInv'
      BY <2>1, <3>1 DEF VerdictInv, StatusInv, HasSolution, BestIsBestReported, Feasible
    <3>3. best_status' = "OPTIMAL" =>
            \/ \A s \in Feasible : best_objective <= Obj[s]
            \/ WithinGap(best_objective, UpdatedLb(lb))
      BY <2>2, <3>1, GapIsMonotone DEF VerdictInv, VerdictIsSound
    <3>4. WithinGap(best_objective, UpdatedLb(lb)) => WithinGap(best_objective, inner_lb)'
      BY <2>1 DEF WithinGap
    <3>5. best_status' = "INFEASIBLE" => Feasible = {}
      BY <3>1 DEF VerdictInv, StatusInv
    <3>6. VerdictIsSound'
      BY <2>1, <3>3, <3>4, <3>5 DEF VerdictIsSound, Feasible, HasObjective
    <3> QED
      BY <2>3, <3>2, <3>6 DEF VerdictInv
  <2> QED
    BY <1>2, <2>4, <2>5 DEF UpdateInnerObjectiveBounds
<1> QED
  BY <1>1, <1>2

(* A worker whose window is empty has shown that nothing improves; when    *)
(* there is no objective, that nothing is left to enumerate.               *)
LEMMA EmptyWindow ==
  ASSUME TypeOK, BoundsInv, NEW w \in Workers, Open(w) = {}
  PROVE  /\ HasObjective => \A s \in Feasible : best_objective <= Obj[s]
         /\ ~ HasObjective => Feasible \subseteq reported
         /\ ~ HasObjective /\ ~ EnumerateAll => Feasible = {}
BY ConfigurationFacts DEF TypeOK, ManagerTypeOK, BoundsInv, Covers, Open

\* A worker that exhausts its window while no solution is known has proved that
\* there is none.
LEMMA EmptyWindowWithoutSolution ==
  ASSUME TypeOK, BoundsInv, VerdictInv, NEW w \in Workers, Open(w) = {},
         ~ HasSolution(best_status)
  PROVE  num_solutions = 0 /\ Feasible = {}
<1>1. reported = {} /\ num_solutions = 0
  BY DEF VerdictInv, StatusInv
<1>2. HasObjective \in BOOLEAN
  BY ConfigurationFacts DEF TypeOK
<1>3. CASE HasObjective
  <2> SUFFICES ASSUME NEW s \in Feasible PROVE FALSE
    BY <1>1
  <2> QED
    BY <1>1, <1>3, EmptyWindow, NothingReported, ConfigurationFacts
       DEF VerdictInv, TypeOK, ManagerTypeOK
<1>4. CASE ~ HasObjective
  BY <1>1, <1>4, EmptyWindow
<1> QED
  BY <1>2, <1>3, <1>4

(* Notify...() when nothing improves, once a solution is known or all of   *)
(* them are.                                                               *)
LEMMA NotifyKeepsVerdict ==
  ASSUME TypeOK, VerdictInv, UNCHANGED <<config, reported>>, NothingImproves,
         HasObjective \/ ~ EnumerateAll \/ Feasible \subseteq reported,
         reported = {} => Feasible = {},
         NotifyThatImprovingProblemIsInfeasible
  PROVE  VerdictInv'
<1>1. /\ UNCHANGED <<best_objective, num_solutions>>
      /\ best_status' = IF HasSolution(best_status) THEN "OPTIMAL" ELSE "INFEASIBLE"
  BY DEF NotifyThatImprovingProblemIsInfeasible, UpdateBestStatus
<1>2. BestIsBestReported'
  BY <1>1 DEF VerdictInv, BestIsBestReported, HasObjective
<1>3. StatusInv'
  BY <1>1 DEF VerdictInv, StatusInv, HasSolution, Feasible
<1>4. HasObjective \in BOOLEAN /\ EnumerateAll \in BOOLEAN
  BY ConfigurationFacts DEF TypeOK
<1>5. VerdictIsSound'
  BY <1>1, <1>3, <1>4 DEF VerdictInv, VerdictIsSound, StatusInv, HasSolution,
     NothingImproves, Feasible, HasObjective, EnumerateAll
<1> QED
  BY <1>2, <1>3, <1>5 DEF VerdictInv

\* A worker that exhausts its window keeps VerdictInv.
LEMMA ProveInfeasibleKeepsVerdict ==
  ASSUME TypeOK, BoundsInv, VerdictInv, NEW w \in Workers, ProveInfeasible(w)
  PROVE  VerdictInv'
<1>1. NothingImproves
  BY EmptyWindowMeansNothingImproves DEF ProveInfeasible
<1>2. HasObjective \/ ~ EnumerateAll \/ Feasible \subseteq reported
  BY EmptyWindow DEF ProveInfeasible
<1>3. reported = {} => Feasible = {}
  BY EmptyWindowWithoutSolution DEF ProveInfeasible, VerdictInv, StatusInv
<1> QED
  BY <1>1, <1>2, <1>3, NotifyKeepsVerdict DEF ProveInfeasible

\* The end of a fragment keeps VerdictInv.
LEMMA ConcludeFragmentKeepsVerdict ==
  ASSUME TypeOK, BoundsInv, VerdictInv, NEW w \in Present, ConcludeFragment(w)
  PROVE  VerdictInv'
<1>1. NothingImproves /\ reported # {}
  BY OptimumMeansNothingImproves DEF ConcludeFragment
<1>2. HasObjective \/ ~ EnumerateAll
  BY SearchAssumption DEF TypeOK, SearchConfigurationOK, ConcludeFragment,
     FullWorkers, Present, HasObjective, EnumerateAll
<1> QED
  BY <1>1, <1>2, NotifyKeepsVerdict DEF ConcludeFragment

-----------------------------------------------------------------------------
(* NewSolution(): what is pooled only was no better than the best.         *)
LEMMA NewSolutionKeepsVerdict ==
  ASSUME TypeOK, BoundsInv, VerdictInv, UNCHANGED config, NEW s \in Feasible,
         NewSolution(s), reported' = reported \cup {s}
  PROVE  VerdictInv'
<1> USE ConfigurationFacts DEF TypeOK, ManagerTypeOK
<1>1. CASE PoolSolution(s)
  <2>1. /\ HasObjective /\ Obj[s] > inner_ub
        /\ UNCHANGED <<best_status, inner_lb, best_objective, num_solutions>>
    BY <1>1 DEF PoolSolution, IsImproving, verdictVars, boundVars
  <2>2. best_objective <= Obj[s]
    BY <2>1 DEF BoundsInv, Covers
  <2>3. reported # {}
    BY <2>1, <2>2, NothingReported DEF VerdictInv
  <2>4. BestIsBestReported'
    BY <2>1, <2>2, <2>3 DEF VerdictInv, BestIsBestReported, HasObjective
  <2> QED
    BY <2>1, <2>3, <2>4 DEF VerdictInv, StatusInv, VerdictIsSound, WithinGap,
       Feasible, HasObjective
<1>2. CASE ImproveObjective(s)
  <2>1. /\ HasObjective /\ best_objective' = Obj[s] /\ inner_lb' = inner_lb
        /\ Obj[s] <= inner_ub
    BY <1>2 DEF ImproveObjective, RecordSolution, IsImproving
  <2>2. \/ best_status' = ImprovedStatus(s)
        \/ best_status' = "OPTIMAL" /\ WithinGap(Obj[s], inner_lb)
    BY <1>2 DEF ImproveObjective, ReportStatusAndTestGap, GapLimitReached,
       UpdateBestStatus
  <2>3. Obj[s] < best_objective
    BY <2>1 DEF BoundsInv
  <2>4. BestIsBestReported'
    <3>1. \A t \in reported : Obj[t] \in Int /\ best_objective <= Obj[t]
      BY <2>1, <2>3 DEF VerdictInv, BestIsBestReported, PoolTypeOK
    <3>2. \A t \in reported' : best_objective' <= Obj[t]
      BY <2>1, <2>3, <3>1
    <3> QED
      BY <2>1, <3>2 DEF BestIsBestReported, HasObjective
  <2>5. StatusInv'
    BY <2>2 DEF StatusInv, HasSolution, ImprovedStatus
  <2>6. ImprovedStatus(s) = "OPTIMAL" => \A t \in Feasible : Obj[s] <= Obj[t]
    BY <2>1, <2>3 DEF ImprovedStatus, BoundsInv, Covers
  <2>7. WithinGap(Obj[s], inner_lb) => WithinGap(best_objective, inner_lb)'
    BY <2>1 DEF WithinGap
  <2>8. VerdictIsSound'
    BY <2>1, <2>2, <2>6, <2>7
       DEF VerdictIsSound, ImprovedStatus, Feasible, HasObjective
  <2> QED
    BY <2>4, <2>5, <2>8 DEF VerdictInv
<1>3. CASE SatisfyProblem(s)
  <2>1. /\ ~ HasObjective
        /\ best_status' = IF EnumerateAll THEN "FEASIBLE" ELSE "OPTIMAL"
    BY <1>3 DEF SatisfyProblem, UpdateBestStatus
  <2> QED
    BY <2>1 DEF VerdictInv, StatusInv, BestIsBestReported, VerdictIsSound,
       HasSolution, Feasible, HasObjective, EnumerateAll
<1> QED
  BY <1>1, <1>2, <1>3 DEF NewSolution

-----------------------------------------------------------------------------
\* VerdictInv holds at first.
LEMMA InitVerdict == Init => VerdictInv
BY DEF Init, ManagerInit, VerdictInv, StatusInv, HasSolution, BestIsBestReported,
   VerdictIsSound

(* The calls that leave the answer alone.                                  *)
LEMMA OtherCallsKeepAnswer ==
  ASSUME UNCHANGED <<config, reported>>,
         \/ Synchronize \/ SynchronizePool \/ StopTimeLimit
         \/ UNCHANGED managerVars
  PROVE  UNCHANGED answerVars
BY DEF Synchronize, SynchronizePool, StopTimeLimit, managerVars, verdictVars,
   boundVars, answerVars

\* Every step keeps VerdictInv.
LEMMA StepKeepsVerdict ==
  ASSUME TypeOK, BoundsInv, VerdictInv, [Next]_vars PROVE VerdictInv'
<1>1. CASE LoadHint
  BY <1>1, NewSolutionKeepsVerdict, OtherCallsKeepAnswer, VerdictUnchanged,
     ConfigurationFacts DEF LoadHint, TypeOK
<1>2. CASE MainNext /\ ~ LoadHint
  BY <1>2, OtherCallsKeepAnswer, VerdictUnchanged DEF MainNext, LaunchSubsolvers,
     MainSynchronizeResponse, MainSynchronizePool, MainSchedule, MainFindNoTask,
     MainReachBatchLimit, StopIfSolved
<1>3. CASE ReachTimeLimit \/ UNCHANGED vars
  BY <1>3, OtherCallsKeepAnswer, VerdictUnchanged DEF ReachTimeLimit, vars, searchVars
<1>4. ASSUME NEW w \in Present, WorkerNext(w) PROVE VerdictInv'
  <2> w \in Workers
    BY ConfigurationFacts DEF TypeOK
  <2>1. CASE \E lb, ub \in ClaimedBounds : BroadcastObjectiveBounds(w, lb, ub)
    <3>1. PICK lb \in ClaimedBounds, ub \in ClaimedBounds :
            BroadcastObjectiveBounds(w, lb, ub)
      BY <2>1
    <3>2. /\ lb \in Int /\ ub \in Int /\ HasObjective /\ UNCHANGED <<config, reported>>
          /\ UpdateInnerObjectiveBounds(lb, ub)
      BY <3>1, SearchAssumption DEF BroadcastObjectiveBounds
    <3>3. \A s \in Open(w) : lb <= Obj[s] /\ Obj[s] <= ub
      BY <3>1 DEF BroadcastObjectiveBounds
    <3>4. Covers(lb, ub)
      BY <3>2, <3>3 DEF BoundsInv, Covers, Open
    <3> QED
      BY <3>2, <3>4, UpdateKeepsVerdict
  <2>2. CASE \E s \in Feasible : FindSolution(w, s)
    BY <2>2, NewSolutionKeepsVerdict DEF FindSolution
  <2>3. CASE ProveInfeasible(w)
    BY <2>3, ProveInfeasibleKeepsVerdict
  <2>4. CASE ConcludeFragment(w)
    BY <2>4, ConcludeFragmentKeepsVerdict
  <2>5. CASE \/ SynchronizeAfterBroadcast(w) \/ ImportLowerBound(w)
             \/ ImportUpperBound(w) \/ FinishTask(w)
             \/ StartSearch(w) \/ StopSearch(w)
    BY <2>5, OtherCallsKeepAnswer, VerdictUnchanged DEF SynchronizeAfterBroadcast,
       ImportLowerBound, ImportUpperBound, FinishTask, StartSearch, StopIfSolved,
       StopSearch
  <2> QED
    BY <1>4, <2>1, <2>2, <2>3, <2>4, <2>5 DEF WorkerNext
<1> QED
  BY <1>1, <1>2, <1>3, <1>4 DEF Next, Terminated

\* VerdictInv holds throughout.
LEMMA VerdictInvariant == Spec => []VerdictInv
<1>1. TypeOK /\ BoundsInv /\ VerdictInv /\ [Next]_vars => VerdictInv'
  BY StepKeepsVerdict
<1> QED
  BY <1>1, InitVerdict, TypeCorrect, BoundsCover, PTL DEF Spec

(* The best objective is that of the best solution any worker reported,    *)
(* although NewSolution() only compares with the upper bound.              *)
THEOREM BestObjectiveIsBestReported == Spec => []BestIsBestReported
<1>1. VerdictInv => BestIsBestReported
  BY DEF VerdictInv
<1> QED
  BY <1>1, VerdictInvariant, PTL

(* INFEASIBLE and OPTIMAL are only ever claimed when they are true.        *)
THEOREM VerdictsAreSound == Spec => []VerdictIsSound
<1>1. VerdictInv => VerdictIsSound
  BY DEF VerdictInv
<1> QED
  BY <1>1, VerdictInvariant, PTL

(* The CHECK_EQ of NotifyThatImprovingProblemIsInfeasible() cannot fail.   *)
THEOREM ProofsNeverMeetASolution == Spec => []NoProofAgainstASolution
<1>1. TypeOK /\ BoundsInv /\ VerdictInv => NoProofAgainstASolution
  BY EmptyWindowWithoutSolution DEF NoProofAgainstASolution
<1> QED
  BY <1>1, TypeCorrect, BoundsCover, VerdictInvariant, PTL

-----------------------------------------------------------------------------
(* The response.  When a search is interleaved and starts from a hint, the *)
(* status is that of the hint before anything is synchronized: finding 1.  *)
NoHintWhenInterleaved ==
  \A c \in Configurations : c.always_synchronize \/ c.hinted = {}

(* A pool has a solution as good as the best one reported.                 *)
HasRank(pool, best) == \E e \in pool : HasObjective => e.rank = best
HasBest(pool) == HasRank(pool, best_objective)

(* Where the best solution is: always in one of the pools, and in the one  *)
(* that is read whenever workers synchronize by themselves, or the main    *)
(* thread has just done it and no task is left.                            *)
ResponseInv ==
  /\ IsFiniteSet(reported)
  /\ reported # {} => HasBest(solutions \cup new_solutions)
  /\ AlwaysSynchronize /\ reported # {} => HasBest(solutions)
  /\ ~ AlwaysSynchronize =>
       /\ main \in {"hint", "launch"} => reported = {}
       /\ main # "wait" => AllIdle
       /\ main \in {"schedule", "done"} => new_solutions = {}

(* A finite set of solutions has a first one.                              *)
LEMMA SomeIsFirst ==
  ASSUME NEW P, IsFiniteSet(P), P # {}, \A e \in P : e.rank \in Int /\ e.values \in Int
  PROVE  \E e \in P : IsFirst(e, P)
<1> DEFINE rank == [e \in P |-> e.rank]
           R == {rank[e] : e \in P}
           value == [e \in P |-> e.values]
<1>1. \A e \in P : rank[e] = e.rank /\ value[e] = e.values
  OBVIOUS
<1>2. DOMAIN rank = P /\ DOMAIN value = P
  OBVIOUS
<1> HIDE DEF rank, value
<1>3. IsFiniteSet(R) /\ R \subseteq Int /\ R # {}
  BY <1>1, <1>2, ImagesAreFinite
<1>4. PICK e \in P : \A f \in P : e.rank <= f.rank
  <2> HIDE DEF R
  <2>1. PICK r \in R : \A y \in R : r <= y
    BY <1>3, MinOfSet
  <2> USE DEF R
  <2>2. PICK e \in P : r = rank[e]
    BY <2>1
  <2>3. \A f \in P : r <= rank[f]
    BY <2>1
  <2> QED
    BY <1>1, <2>2, <2>3
<1> DEFINE Q == {f \in P : f.rank = e.rank}
           V == {value[f] : f \in Q}
<1>5. IsFiniteSet(Q) /\ Q # {} /\ Q \subseteq P
  BY FS_Subset
<1>6. IsFiniteSet(V) /\ V \subseteq Int /\ V # {}
  <2> DEFINE v == [f \in Q |-> value[f]]
  <2>1. DOMAIN v = Q /\ V = {v[f] : f \in Q}
    OBVIOUS
  <2> HIDE DEF v
  <2>2. IsFiniteSet(V)
    BY <1>5, <2>1, ImagesAreFinite
  <2> QED
    BY <1>1, <1>5, <2>2
<1>7. PICK f \in Q : \A g \in Q : f.values <= g.values
  <2>1. PICK v \in V : \A y \in V : v <= y
    <3> HIDE DEF V
    <3> QED
      BY <1>6, MinOfSet
  <2>2. PICK f \in Q : v = value[f]
    BY <2>1
  <2>3. \A g \in Q : v <= value[g]
    BY <2>1
  <2> QED
    BY <1>1, <1>5, <2>2, <2>3
<1>8. \A g \in P : ~ Before(g, f)
  <2> SUFFICES ASSUME NEW g \in P, Before(g, f) PROVE FALSE
    OBVIOUS
  <2>1. f \in P /\ f.rank = e.rank /\ f.values \in Int /\ g.values \in Int
    BY <1>7
  <2>2. g.rank = f.rank /\ g.values < f.values
    BY <1>4, <2>1 DEF Before
  <2>3. g \in Q
    BY <2>1, <2>2
  <2> QED
    BY <1>7, <2>1, <2>2, <2>3
<1> QED
  BY <1>7, <1>8 DEF IsFirst

(* A pool of entries of solutions S, none better than `best'.              *)
LEMMA PoolFacts ==
  ASSUME config \in Configurations, NEW best \in Int,
         NEW S, S \subseteq Feasible, IsFiniteSet(S), \A s \in S : HasObjective => best <= Obj[s],
         NEW P, P \subseteq PoolOf(S)
  PROVE  /\ IsFiniteSet(P)
         /\ \A e \in P : /\ e.rank \in Int /\ e.values \in Int
                         /\ HasObjective => best <= e.rank
<1> DEFINE f == [s \in S |-> Entry(s)]
<1>1. DOMAIN f = S /\ \A s \in S : f[s] = Entry(s)
  OBVIOUS
<1> HIDE DEF f
<1>2. PoolOf(S) = {f[s] : s \in S}
  BY <1>1 DEF PoolOf
<1>3. IsFiniteSet(P)
  BY <1>1, <1>2, ImagesAreFinite, FS_Subset
<1>4. ASSUME NEW e \in P
      PROVE  e.rank \in Int /\ e.values \in Int /\ (HasObjective => best <= e.rank)
  <2>1. PICK s \in S : e = Entry(s)
    BY DEF PoolOf
  <2>2. s \in Int /\ Obj[s] \in Int
    BY ConfigurationFacts, ManagerAssumption
  <2> QED
    BY <2>1, <2>2 DEF Entry
<1> QED
  BY <1>3, <1>4

(* The first of a pool that has a solution as good as the best is one.     *)
LEMMA FirstIsBest ==
  ASSUME config \in Configurations, NEW best \in Int,
         NEW S, S \subseteq Feasible, IsFiniteSet(S), \A s \in S : HasObjective => best <= Obj[s],
         NEW P, P \subseteq PoolOf(S), HasRank(P, best)
  PROVE  \E e \in P : IsFirst(e, P) /\ (HasObjective => e.rank = best)
<1>1. /\ IsFiniteSet(P)
      /\ \A e \in P : /\ e.rank \in Int /\ e.values \in Int
                      /\ HasObjective => best <= e.rank
  BY PoolFacts
<1>2. PICK b \in P : HasObjective => b.rank = best
  BY DEF HasRank
<1>3. PICK e \in P : IsFirst(e, P)
  BY <1>1, <1>2, SomeIsFirst
<1>4. e.rank <= b.rank
  BY <1>1, <1>2, <1>3 DEF IsFirst, Before
<1> QED
  BY <1>1, <1>2, <1>3, <1>4

(* Synchronize() of the pool keeps a solution as good as the best.         *)
LEMMA MergedHasRank ==
  ASSUME config \in Configurations, NEW best \in Int,
         NEW S, S \subseteq Feasible, IsFiniteSet(S), \A s \in S : HasObjective => best <= Obj[s],
         NEW pool, NEW new, pool \cup new \subseteq PoolOf(S), HasRank(pool \cup new, best)
  PROVE  HasRank(Merged(pool, new), best)
<1> DEFINE P == pool \cup new
<1>1. PICK e \in P : IsFirst(e, P) /\ (HasObjective => e.rank = best)
  BY FirstIsBest
<1>2. Position(e, P) = 0
  <2>1. {t \in P : Before(t, e)} = {}
    BY <1>1 DEF IsFirst
  <2> QED
    BY <2>1, FS_EmptySet DEF Position
<1>3. e \in KeepBest(P)
  BY <1>2, NumSolutionsToKeepAssumption DEF KeepBest
<1>4. new = {} => P = pool
  OBVIOUS
<1> QED
  BY <1>1, <1>3, <1>4 DEF HasRank, Merged

-----------------------------------------------------------------------------
(* The parts that an action does not touch.                                *)
responseVars == <<config, solutions, new_solutions, best_objective, reported, main, worker>>

\* A step that leaves the response alone keeps ResponseInv.
LEMMA ResponseUnchanged ==
  ASSUME ResponseInv, UNCHANGED responseVars PROVE ResponseInv'
BY DEF ResponseInv, responseVars, HasBest, HasRank, HasObjective, AlwaysSynchronize, AllIdle, Idle, Present

(* When the main thread synchronizes alone, it does so between two batches.*)
LEMMA BatchFacts ==
  ASSUME TypeOK, ~ AlwaysSynchronize
  PROVE  BatchLoop /\ HasSynchronizationPoint /\ ~ EnumerateAll
BY SearchAssumption DEF TypeOK, SearchConfigurationOK, AlwaysSynchronize, EnumerateAll,
   BatchLoop, HasSynchronizationPoint, InterleaveSearch, Present

(* A call of NewSolution() leaves the best solution where it is, or brings *)
(* a better one to the pool that the caller reads.                         *)
LEMMA NewSolutionKeepsBest ==
  ASSUME TypeOK, TypeOK', BoundsInv, VerdictInv, VerdictInv', ResponseInv, UNCHANGED config,
         NEW s \in Feasible, NewSolution(s), reported' = reported \cup {s}
  PROVE  /\ IsFiniteSet(reported')
         /\ HasBest(solutions \cup new_solutions)'
         /\ AlwaysSynchronize => HasBest(solutions)'
<1>1. IsFiniteSet(reported')
  BY FS_AddElement DEF ResponseInv
<1> DEFINE new == AddedTo(new_solutions, Entry(s))
<1>2. Entry(s) \in new /\ (HasObjective => Entry(s).rank = Obj[s])
  BY DEF AddedTo, Entry
<1>3. CASE PoolSolution(s)
  <2>1. /\ HasObjective /\ Obj[s] > inner_ub
        /\ UNCHANGED <<solutions, best_objective>> /\ new_solutions' = new
    BY <1>3, ConfigurationFacts DEF PoolSolution, IsImproving, boundVars, TypeOK, ManagerTypeOK
  <2>2. best_objective <= Obj[s]
    BY <2>1, ConfigurationFacts DEF BoundsInv, Covers, TypeOK, ManagerTypeOK
  <2>3. reported # {}
    BY <2>1, <2>2, NothingReported, ConfigurationFacts DEF VerdictInv, TypeOK, ManagerTypeOK
  <2>4. HasBest(solutions \cup new_solutions)
    BY <2>3 DEF ResponseInv
  <2>5. HasBest(solutions \cup new_solutions)'
    BY <2>1, <2>4 DEF HasBest, HasRank, HasObjective, AddedTo
  <2>6. AlwaysSynchronize => HasBest(solutions)'
    BY <2>1, <2>3 DEF ResponseInv, HasBest, HasRank, HasObjective
  <2> QED
    BY <1>1, <2>5, <2>6
<1>4. CASE ImproveObjective(s) \/ SatisfyProblem(s)
  <2>1. RecordSolution(s) /\ (HasObjective => best_objective' = Obj[s])
    BY <1>4 DEF ImproveObjective, SatisfyProblem
  <2>2. HasRank(new, best_objective')
    BY <1>2, <2>1 DEF HasRank
  <2>3. CASE AlwaysSynchronize
    <3>1. solutions' = Merged(solutions, new) /\ new_solutions' = {}
      BY <2>1, <2>3 DEF RecordSolution
    <3>2. /\ config \in Configurations /\ best_objective' \in Int
          /\ reported' \subseteq Feasible
          /\ \A t \in reported' : HasObjective => best_objective' <= Obj[t]
      BY DEF TypeOK, PoolTypeOK, ManagerTypeOK, VerdictInv, BestIsBestReported, Feasible,
             HasObjective
    <3>3. solutions \cup new \subseteq PoolOf(reported')
      BY DEF TypeOK, PoolTypeOK, PoolOf, AddedTo
    <3>4. HasRank(solutions \cup new, best_objective')
      BY <2>2 DEF HasRank
    <3>5. HasRank(Merged(solutions, new), best_objective')
      <4> HIDE DEF new
      <4>1. PICK best, S, P : best = best_objective' /\ S = reported' /\ P = new
        OBVIOUS
      <4> QED
        BY <1>1, <3>2, <3>3, <3>4, <4>1, MergedHasRank
    <3> QED
      BY <1>1, <3>1, <3>5 DEF HasBest, HasRank, HasObjective
  <2>4. CASE ~ AlwaysSynchronize
    <3>1. new_solutions' = new
      BY <2>1, <2>4 DEF RecordSolution
    <3>2. HasBest(solutions \cup new_solutions)'
      BY <2>2, <3>1 DEF HasBest, HasRank, HasObjective
    <3> QED
      BY <1>1, <2>4, <3>2
  <2> QED
    BY <2>3, <2>4
<1> QED
  BY <1>3, <1>4 DEF NewSolution

(* No solution was reported before the search starts.                      *)
LEMMA InitResponse == Init => ResponseInv
<1> SUFFICES ASSUME Init PROVE ResponseInv
  OBVIOUS
<1>1. Present \subseteq Workers
  BY ConfigurationFacts DEF Init
<1> QED
  BY <1>1, FS_EmptySet DEF Init, ManagerInit, ResponseInv, AllIdle, Idle

(* What other calls do to the pools.                                       *)
LEMMA OtherCallsKeepPools ==
  ASSUME Synchronize \/ StopTimeLimit \/ UNCHANGED managerVars
  PROVE  UNCHANGED <<solutions, new_solutions, best_objective>>
BY DEF Synchronize, StopTimeLimit, managerVars, boundVars, poolVars

(* The main thread, which alone synchronizes when a search is interleaved. *)
LEMMA MainKeepsResponse ==
  ASSUME NoHintWhenInterleaved, TypeOK, TypeOK', BoundsInv, VerdictInv, VerdictInv', ResponseInv,
         MainNext
  PROVE  ResponseInv'
<1>1. CASE LoadHint
  <2>1. UNCHANGED <<config, worker>> /\ main = "hint" /\ main' = "launch"
    BY <1>1 DEF LoadHint
  <2>2. CASE \E s \in config.hinted : NewSolution(s) /\ reported' = reported \cup {s}
    <3>1. PICK s \in config.hinted : NewSolution(s) /\ reported' = reported \cup {s}
      BY <2>2
    <3>2. s \in Feasible /\ AlwaysSynchronize
      BY ConfigurationFacts DEF TypeOK, NoHintWhenInterleaved, AlwaysSynchronize
    <3> QED
      BY <2>1, <3>1, <3>2, NewSolutionKeepsBest DEF ResponseInv, AlwaysSynchronize
  <2>3. CASE UNCHANGED <<managerVars, reported>>
    BY <2>1, <2>3, OtherCallsKeepPools
       DEF ResponseInv, HasBest, HasRank, HasObjective, AlwaysSynchronize, AllIdle, Idle, Present
  <2> QED
    BY <1>1, <2>2, <2>3 DEF LoadHint
<1>2. CASE LaunchSubsolvers
  <2>1. ~ AlwaysSynchronize => reported = {} /\ new_solutions = {} /\ AllIdle
    BY <1>2 DEF LaunchSubsolvers, ResponseInv, TypeOK, PoolTypeOK, PoolOf
  <2> QED
    BY <1>2, <2>1, OtherCallsKeepPools DEF LaunchSubsolvers,
       ResponseInv, HasBest, HasRank, HasObjective, AlwaysSynchronize, AllIdle, Idle, Present
<1>3. CASE MainSynchronizeResponse
  <2>1. ~ AlwaysSynchronize => AllIdle
    BY <1>3, BatchFacts DEF MainSynchronizeResponse
  <2> QED
    BY <1>3, <2>1, OtherCallsKeepPools DEF MainSynchronizeResponse,
       ResponseInv, HasBest, HasRank, HasObjective, AlwaysSynchronize, AllIdle, Idle, Present
<1>4. CASE MainSynchronizePool
  <2>1. UNCHANGED <<config, worker, reported>> /\ main = "pool" /\ main' \in {"wait", "schedule"}
    BY <1>4 DEF MainSynchronizePool
  <2>2. CASE UNCHANGED managerVars
    <3>1. AlwaysSynchronize \/ SynchronizePool
      BY <1>4, BatchFacts DEF MainSynchronizePool
    <3>2. UNCHANGED <<solutions, new_solutions, best_objective>>
      BY <2>2, OtherCallsKeepPools
    <3>3. ~ AlwaysSynchronize => new_solutions' = {}
      BY <3>1 DEF SynchronizePool
    <3> QED
      BY <2>1, <3>2, <3>3 DEF ResponseInv, HasBest, HasRank, HasObjective, AlwaysSynchronize,
         AllIdle, Idle, Present
  <2>3. CASE SynchronizePool
    <3>1. /\ solutions' = Merged(solutions, new_solutions) /\ new_solutions' = {}
          /\ best_objective' = best_objective
      BY <2>3 DEF SynchronizePool, boundVars
    <3>2. reported # {} => HasBest(solutions)'
      <4> SUFFICES ASSUME reported # {} PROVE HasBest(solutions)'
        OBVIOUS
      <4>1. /\ config \in Configurations /\ best_objective \in Int /\ reported \subseteq Feasible
            /\ \A t \in reported : HasObjective => best_objective <= Obj[t]
            /\ solutions \cup new_solutions \subseteq PoolOf(reported)
        BY DEF TypeOK, PoolTypeOK, ManagerTypeOK, VerdictInv, BestIsBestReported
      <4>2. HasRank(solutions \cup new_solutions, best_objective) /\ IsFiniteSet(reported)
        BY DEF ResponseInv, HasBest
      <4>3. HasRank(Merged(solutions, new_solutions), best_objective)
        BY <4>1, <4>2, MergedHasRank
      <4> QED
        BY <2>1, <3>1, <4>3 DEF HasBest, HasRank, HasObjective
    <3> QED
      BY <2>1, <3>1, <3>2 DEF ResponseInv, HasBest, HasRank, HasObjective, AlwaysSynchronize,
         AllIdle, Idle, Present
  <2> QED
    BY <1>4, <2>2, <2>3 DEF MainSynchronizePool
<1>5. CASE MainSchedule
  BY <1>5, OtherCallsKeepPools DEF MainSchedule,
     ResponseInv, HasBest, HasRank, HasObjective, AlwaysSynchronize
<1>6. CASE MainFindNoTask \/ MainReachBatchLimit
  BY <1>6, OtherCallsKeepPools DEF MainFindNoTask, MainReachBatchLimit, StopIfSolved,
     ResponseInv, HasBest, HasRank, HasObjective, AlwaysSynchronize, AllIdle, Idle, Present
<1> QED
  BY <1>1, <1>2, <1>3, <1>4, <1>5, <1>6 DEF MainNext

(* A worker that acts is not idle, so that the main thread waits for it.   *)
LEMMA WorkerKeepsResponse ==
  ASSUME TypeOK, TypeOK', BoundsInv, VerdictInv, VerdictInv', ResponseInv,
         NEW w \in Present, WorkerNext(w)
  PROVE  ResponseInv'
<1>1. UNCHANGED <<config, main>> /\ ~ Idle(w)
  BY DEF WorkerNext, StartSearch, BroadcastObjectiveBounds, SynchronizeAfterBroadcast,
     ImportLowerBound, ImportUpperBound, FindSolution, ProveInfeasible, ConcludeFragment,
     StopSearch, FinishTask, Searching, Idle
<1>2. ~ AlwaysSynchronize => main = "wait"
  BY <1>1 DEF ResponseInv, AllIdle
<1>3. CASE UNCHANGED <<solutions, new_solutions, best_objective, reported>>
  BY <1>1, <1>2, <1>3 DEF ResponseInv, HasBest, HasRank, HasObjective, AlwaysSynchronize
<1>4. CASE \E s \in Feasible : FindSolution(w, s)
  <2>1. PICK s \in Feasible : NewSolution(s) /\ reported' = reported \cup {s}
    BY <1>4 DEF FindSolution
  <2> QED
    BY <1>1, <1>2, <2>1, NewSolutionKeepsBest DEF ResponseInv, AlwaysSynchronize
<1>5. CASE \E lb, ub \in ClaimedBounds : BroadcastObjectiveBounds(w, lb, ub)
  BY <1>3, <1>5 DEF BroadcastObjectiveBounds, UpdateInnerObjectiveBounds,
     IgnoreInnerObjectiveBounds, managerVars, boundVars, poolVars
<1>6. CASE ProveInfeasible(w) \/ ConcludeFragment(w)
  BY <1>3, <1>6 DEF ProveInfeasible, ConcludeFragment,
     NotifyThatImprovingProblemIsInfeasible, poolVars
<1>7. CASE \/ SynchronizeAfterBroadcast(w) \/ ImportLowerBound(w) \/ ImportUpperBound(w)
           \/ StartSearch(w) \/ StopSearch(w) \/ FinishTask(w)
  BY <1>3, <1>7, OtherCallsKeepPools DEF SynchronizeAfterBroadcast, ImportLowerBound,
     ImportUpperBound, StartSearch, StopSearch, FinishTask, StopIfSolved
<1> QED
  BY <1>4, <1>5, <1>6, <1>7 DEF WorkerNext

(* ResponseInv is inductive, with the invariants proved so far.            *)
LEMMA ResponseStep ==
  ASSUME NoHintWhenInterleaved, TypeOK, TypeOK', BoundsInv, VerdictInv, VerdictInv', ResponseInv,
         [Next]_vars
  PROVE  ResponseInv'
<1>1. CASE MainNext
  BY <1>1, MainKeepsResponse
<1>2. CASE \E w \in Present : WorkerNext(w)
  BY <1>2, WorkerKeepsResponse
<1>3. CASE ReachTimeLimit \/ UNCHANGED vars
  BY <1>3, OtherCallsKeepPools, ResponseUnchanged DEF ReachTimeLimit, vars, searchVars,
     responseVars
<1> QED
  BY <1>1, <1>2, <1>3 DEF Next, Terminated

(* The response that is read at the end has the best solution when it has  *)
(* a status that says so, unless an interleaved search had a hint.         *)
THEOREM ResponsesAreConsistent ==
  ASSUME NoHintWhenInterleaved PROVE Spec => []ResponseIsConsistent
<1>1. TypeOK /\ TypeOK' /\ BoundsInv /\ VerdictInv /\ VerdictInv' /\ ResponseInv /\ [Next]_vars
        => ResponseInv'
  BY ResponseStep
<1>2. TypeOK /\ VerdictInv /\ ResponseInv => ResponseIsConsistent
  <2> SUFFICES ASSUME TypeOK, VerdictInv, ResponseInv, main = "done", HasSolution(best_status)
               PROVE  \E e \in solutions :
                        IsFirst(e, solutions) /\ (HasObjective => e.rank = best_objective)
    BY DEF ResponseIsConsistent
  <2>1. reported # {}
    BY DEF VerdictInv, StatusInv
  <2>2. HasRank(solutions, best_objective)
    <3>1. AlwaysSynchronize \/ solutions \cup new_solutions = solutions
      BY DEF ResponseInv
    <3> QED
      BY <2>1, <3>1 DEF ResponseInv, HasBest
  <2>3. /\ config \in Configurations /\ best_objective \in Int /\ reported \subseteq Feasible
        /\ \A t \in reported : HasObjective => best_objective <= Obj[t]
        /\ solutions \subseteq PoolOf(reported) /\ IsFiniteSet(reported)
    BY DEF TypeOK, PoolTypeOK, ManagerTypeOK, VerdictInv, BestIsBestReported, ResponseInv
  <2> QED
    BY <2>2, <2>3, FirstIsBest
<1> QED
  BY <1>1, <1>2, InitResponse, TypeCorrect, BoundsCover, VerdictInvariant, PTL DEF Spec

-----------------------------------------------------------------------------
(* Every search implements AnytimeOptimizer: each of its steps reports a   *)
(* solution, proves something, or is a stutter.  That what it claims is    *)
(* true is VerdictInv; what is left is that a claim is never taken back.   *)
(* NewSolution() assigns FEASIBLE whatever the status is, so this needs an *)
(* argument: a better solution found under the status OPTIMAL is one that  *)
(* the gap limits left open, and it is within the gap limits again.        *)

(* A better solution shrinks the gap by as much as the objective, hence    *)
(* the relative gap too, unless the user accepts one of more than 100%.    *)
NarrowGaps ==
  \A c \in Configurations : c.relative_gap_limit[1] <= c.relative_gap_limit[2]

(* The lower bound that TestGapLimitsIfNeeded() reads was loaded.          *)
BoundIsLoaded == HasObjective => DomainMin <= inner_lb

-----------------------------------------------------------------------------
(* The relative gap of a better value a, when that of b was small enough.  *)
LEMMA RelativeGapShrinks ==
  ASSUME NEW num \in Nat, NEW den \in Nat, num <= den,
         NEW l \in Int, NEW a \in Int, NEW b \in Int, NEW o \in Int,
         l <= a, a <= b,
         Abs(b - l) * den < num * Larger(1, Abs(b + o))
  PROVE  Abs(a - l) * den < num * Larger(1, Abs(a + o))
<1> DEFINE k == b - a
           e == a - l
           M == Larger(1, Abs(b + o))
           N == Larger(1, Abs(a + o))
<1>1. /\ k \in Nat /\ e \in Nat /\ M \in Nat /\ N \in Nat
      /\ M <= N + k
      /\ Abs(a - l) = e /\ Abs(b - l) = e + k
  BY DEF Abs, Larger
<1>2. (e + k) * den < num * M
  BY <1>1
<1> HIDE DEF k, e, M, N
<1>3. M * num <= (N + k) * num
  BY <1>1, ProductIsMonotone
<1>4. num * k <= den * k
  BY <1>1, ProductIsMonotone
<1>5. /\ e * den \in Int /\ k * den \in Int /\ num * N \in Int
      /\ num * k \in Int /\ num * M \in Int
  BY <1>1
<1>6. /\ (e + k) * den = e * den + k * den
      /\ (N + k) * num = num * N + num * k
      /\ M * num = num * M /\ den * k = k * den
  BY <1>1
<1>7. e * den < num * N
  BY <1>2, <1>3, <1>4, <1>5, <1>6
<1> QED
  BY <1>1, <1>7 DEF N

\* When the gap limits allow it, a better solution reaches the gap that a worse
\* one reached.
LEMMA GapShrinks ==
  ASSUME NarrowGaps, config \in Configurations,
         NEW l \in Int, NEW a \in Int, NEW b \in Int,
         l <= a, a <= b, WithinGap(b, l)
  PROVE  WithinGap(a, l)
<1> USE ConfigurationFacts
<1>1. config.relative_gap_limit[1] <= config.relative_gap_limit[2]
  BY DEF NarrowGaps
<1>2. CASE Abs(b - l) <= config.absolute_gap_limit
  <2>1. Abs(a - l) <= config.absolute_gap_limit
    BY <1>2 DEF Abs
  <2> QED
    BY <2>1 DEF WithinGap
<1>3. CASE Abs(b - l) * config.relative_gap_limit[2] <
             config.relative_gap_limit[1] * Larger(1, Abs(b + config.offset))
  <2>1. Abs(a - l) * config.relative_gap_limit[2] <
             config.relative_gap_limit[1] * Larger(1, Abs(a + config.offset))
    BY <1>1, <1>3, RelativeGapShrinks
  <2> QED
    BY <2>1 DEF WithinGap
<1> QED
  BY <1>2, <1>3 DEF WithinGap

(* Without a gap limit only equality is within the gap.                    *)
LEMMA GapNeedsALimit ==
  ASSUME config \in Configurations, NEW b \in Int, NEW l \in Int, l < b,
         WithinGap(b, l)
  PROVE  config.absolute_gap_limit # 0 \/ config.relative_gap_limit[1] # 0
<1> USE ConfigurationFacts
<1> SUFFICES ASSUME config.absolute_gap_limit = 0, config.relative_gap_limit[1] = 0
             PROVE  FALSE
  OBVIOUS
<1> DEFINE gap == Abs(b - l)
           den == config.relative_gap_limit[2]
           N == Larger(1, Abs(b + config.offset))
<1>1. gap \in Nat /\ gap > 0 /\ N \in Int /\ den \in Nat
  BY DEF Abs, Larger
<1>2. gap <= 0 \/ gap * den < 0 * N
  BY DEF WithinGap
<1> HIDE DEF gap, den, N
<1>3. gap * den \in Nat /\ 0 * N = 0
  BY <1>1
<1> QED
  BY <1>1, <1>2, <1>3

-----------------------------------------------------------------------------
(* A better solution found when the status is OPTIMAL leaves it OPTIMAL.   *)
LEMMA ImprovementKeepsOptimal ==
  ASSUME NarrowGaps, TypeOK, BoundsInv, VerdictInv, BoundIsLoaded,
         best_status = "OPTIMAL", NEW s \in Feasible, ImproveObjective(s)
  PROVE  best_status' = "OPTIMAL"
<1> USE ConfigurationFacts DEF TypeOK, ManagerTypeOK
<1>1. HasObjective /\ Obj[s] <= inner_ub
  BY DEF ImproveObjective, IsImproving
<1>2. Obj[s] < best_objective /\ inner_lb <= Obj[s]
  BY <1>1 DEF BoundsInv, Covers
<1>3. WithinGap(best_objective, inner_lb)
  BY <1>1, <1>2 DEF VerdictInv, VerdictIsSound
<1>4. /\ WithinGap(Obj[s], inner_lb)
      /\ config.absolute_gap_limit # 0 \/ config.relative_gap_limit[1] # 0
  BY <1>2, <1>3, GapShrinks, GapNeedsALimit
<1>5. KMin < inner_lb /\ Obj[s] < KMax
  BY <1>1, SearchAssumption, ManagerAssumption DEF BoundIsLoaded
<1>6. CASE inner_lb <= Obj[s] - 1
  <2>1. GapLimitReached(Obj[s], inner_lb, Obj[s] - 1)
    BY <1>4, <1>5, <1>6 DEF GapLimitReached
  <2> QED
    BY <2>1 DEF ImproveObjective, ReportStatusAndTestGap, UpdateBestStatus
<1>7. CASE inner_lb > Obj[s] - 1
  BY <1>7 DEF ImproveObjective, ReportStatusAndTestGap, UpdateBestStatus, ImprovedStatus
<1> QED
  BY <1>6, <1>7

(* What a call to NewSolution() is for the reader of the response.         *)
Reports(s) ==
  /\ reported' = reported \cup {s}
  /\ best_objective' = IF HasObjective /\ Obj[s] < best_objective
                       THEN Obj[s] ELSE best_objective
  /\ UNCHANGED inner_lb
  /\ Optimizer!Strengthens(best_status, best_status')

\* NewSolution is the optimizer's report of a solution.
LEMMA NewSolutionReports ==
  ASSUME NarrowGaps, TypeOK, BoundsInv, VerdictInv, BoundIsLoaded,
         NEW s \in Feasible, NewSolution(s), reported' = reported \cup {s},
         EnumerateAll /\ ~ HasObjective => s \notin reported
  PROVE  Reports(s)
<1> USE ConfigurationFacts DEF TypeOK, ManagerTypeOK
<1>1. best_status # "INFEASIBLE"
  BY DEF VerdictInv, StatusInv
<1>2. CASE PoolSolution(s)
  <2>1. HasObjective /\ best_objective <= Obj[s]
    BY <1>2 DEF PoolSolution, IsImproving, BoundsInv, Covers
  <2> QED
    BY <1>2, <2>1 DEF PoolSolution, verdictVars, boundVars, Reports,
       Optimizer!Strengthens
<1>3. CASE ImproveObjective(s)
  <2>1. /\ best_objective' = Obj[s] /\ inner_lb' = inner_lb
        /\ HasObjective /\ Obj[s] < best_objective
    BY <1>3 DEF ImproveObjective, RecordSolution, IsImproving, BoundsInv
  <2>2. best_status' \in {"FEASIBLE", "OPTIMAL"}
    BY <1>3 DEF ImproveObjective, ReportStatusAndTestGap, UpdateBestStatus,
       ImprovedStatus
  <2>3. best_status = "OPTIMAL" => best_status' = "OPTIMAL"
    BY <1>3, ImprovementKeepsOptimal
  <2>4. Optimizer!Strengthens(best_status, best_status')
    BY <1>1, <2>2, <2>3 DEF Status, Optimizer!Strengthens
  <2> QED
    BY <2>1, <2>4 DEF Reports
<1>4. CASE SatisfyProblem(s)
  <2>1. /\ best_objective' = best_objective /\ inner_lb' = inner_lb /\ ~ HasObjective
        /\ best_status' = IF EnumerateAll THEN "FEASIBLE" ELSE "OPTIMAL"
    BY <1>4 DEF SatisfyProblem, RecordSolution, UpdateBestStatus
  <2>2. EnumerateAll => best_status # "OPTIMAL"
    BY <2>1 DEF VerdictInv, VerdictIsSound
  <2>3. Optimizer!Strengthens(best_status, best_status')
    BY <1>1, <2>1, <2>2 DEF Status, Optimizer!Strengthens
  <2> QED
    BY <2>1, <2>3 DEF Reports
<1> QED
  BY <1>2, <1>3, <1>4 DEF NewSolution

-----------------------------------------------------------------------------
(* What every other call is for him.                                       *)
Proves ==
  /\ UNCHANGED <<reported, best_objective>>
  /\ HasObjective => inner_lb <= inner_lb'
  /\ Optimizer!Strengthens(best_status, best_status')

\* A call that leaves the answer alone proves nothing new.
LEMMA QuietCallProves ==
  ASSUME TypeOK, UNCHANGED answerVars PROVE Proves
BY DEF TypeOK, ManagerTypeOK, answerVars, Proves, Optimizer!Strengthens

\* A new bound of the objective only adds to what is proved.
LEMMA UpdateProves ==
  ASSUME TypeOK, BoundsInv, VerdictInv, HasObjective, UNCHANGED <<config, reported>>,
         NEW lb \in Int, NEW ub \in Int, UpdateInnerObjectiveBounds(lb, ub)
  PROVE  Proves
<1> USE DEF TypeOK, ManagerTypeOK
<1>1. CASE IgnoreInnerObjectiveBounds(lb, ub)
  BY <1>1, QuietCallProves DEF IgnoreInnerObjectiveBounds, managerVars, verdictVars,
     boundVars, answerVars
<1>2. CASE ~ IgnoreInnerObjectiveBounds(lb, ub)
  <2>1. inner_lb' = UpdatedLb(lb) /\ UNCHANGED best_objective
    BY <1>2 DEF UpdateInnerObjectiveBounds
  <2>2. inner_lb <= inner_lb'
    BY <2>1 DEF BoundsInv, UpdatedLb, Smaller
  <2>3. CASE CrossInnerObjectiveBounds(lb, ub)
    <3>1. best_status' = IF HasSolution(best_status) THEN "OPTIMAL" ELSE "INFEASIBLE"
      BY <2>3 DEF CrossInnerObjectiveBounds, UpdateBestStatus
    <3> QED
      BY <2>1, <2>2, <3>1 DEF Status, Proves, HasSolution, Optimizer!Strengthens
  <2>4. CASE TightenInnerObjectiveBounds(lb, ub)
    <3>1. \/ best_status' = best_status
          \/ best_status' = "OPTIMAL" /\ best_objective < KMax
      BY <2>4 DEF TightenInnerObjectiveBounds, GapLimitReached, UpdateBestStatus,
         verdictVars
    <3>2. best_objective < KMax => HasSolution(best_status)
      BY DEF VerdictInv, StatusInv, BestIsBestReported
    <3> QED
      BY <2>1, <2>2, <3>1, <3>2 DEF Status, Proves, HasSolution, Optimizer!Strengthens
  <2> QED
    BY <1>2, <2>3, <2>4 DEF UpdateInnerObjectiveBounds
<1> QED
  BY <1>1, <1>2

\* Declaring the improving problem infeasible only adds to what is proved.
LEMMA NotifyProves ==
  ASSUME TypeOK, BoundsInv, UNCHANGED <<config, reported>>,
         NotifyThatImprovingProblemIsInfeasible
  PROVE  Proves
<1> USE DEF TypeOK, ManagerTypeOK
<1>1. /\ best_status' = IF HasSolution(best_status) THEN "OPTIMAL" ELSE "INFEASIBLE"
      /\ UNCHANGED best_objective
      /\ inner_lb' = best_objective \/ inner_lb' = inner_lb
  BY DEF NotifyThatImprovingProblemIsInfeasible, UpdateBestStatus
<1>2. HasObjective => inner_lb <= inner_lb'
  BY <1>1 DEF BoundsInv
<1> QED
  BY <1>1, <1>2 DEF Status, Proves, HasSolution, Optimizer!Strengthens

-----------------------------------------------------------------------------
(* The steps of the search are steps of AnytimeOptimizer.                  *)
AnswerStep == Proves \/ \E s \in Feasible : Reports(s)

\* Every step of the driver is a report or a proof.
LEMMA MainReportsOrProves ==
  ASSUME NarrowGaps, TypeOK, BoundsInv, VerdictInv, BoundIsLoaded, MainNext
  PROVE  AnswerStep
<1> USE DEF AnswerStep
<1>1. CASE LoadHint
  <2>1. config' = config /\ config.hinted \subseteq Feasible
    BY <1>1, ConfigurationFacts DEF LoadHint, TypeOK
  <2>2. CASE UNCHANGED <<managerVars, reported>>
    BY <2>1, <2>2, QuietCallProves DEF managerVars, verdictVars, boundVars, answerVars
  <2>3. CASE ~ UNCHANGED <<managerVars, reported>>
    <3>1. PICK s \in config.hinted :
            ~ EnumerateAll /\ NewSolution(s) /\ reported' = reported \cup {s}
      BY <1>1, <2>3 DEF LoadHint
    <3> QED
      BY <2>1, <3>1, NewSolutionReports
  <2> QED
    BY <2>2, <2>3
<1>2. CASE ~ LoadHint
  BY <1>2, OtherCallsKeepAnswer, QuietCallProves DEF MainNext, LaunchSubsolvers,
     MainSynchronizeResponse, MainSynchronizePool, MainSchedule, MainFindNoTask,
     MainReachBatchLimit, StopIfSolved
<1> QED
  BY <1>1, <1>2

\* Every step of a worker is a report or a proof.
LEMMA WorkerReportsOrProves ==
  ASSUME NarrowGaps, TypeOK, BoundsInv, VerdictInv, BoundIsLoaded,
         NEW w \in Present, WorkerNext(w)
  PROVE  AnswerStep
<1> USE DEF AnswerStep
<1>1. CASE \E lb, ub \in ClaimedBounds : BroadcastObjectiveBounds(w, lb, ub)
  <2>1. PICK lb \in ClaimedBounds, ub \in ClaimedBounds :
          BroadcastObjectiveBounds(w, lb, ub)
    BY <1>1
  <2>2. /\ lb \in Int /\ ub \in Int /\ HasObjective /\ UNCHANGED <<config, reported>>
        /\ UpdateInnerObjectiveBounds(lb, ub)
    BY <2>1, SearchAssumption DEF BroadcastObjectiveBounds
  <2> QED
    BY <2>2, UpdateProves
<1>2. CASE \E s \in Feasible : FindSolution(w, s)
  <2>1. PICK s \in Feasible : FindSolution(w, s)
    BY <1>2
  <2>2. EnumerateAll /\ ~ HasObjective => s \notin reported
    BY <2>1 DEF FindSolution, Open
  <2> QED
    BY <2>1, <2>2, NewSolutionReports DEF FindSolution
<1>3. CASE ProveInfeasible(w) \/ ConcludeFragment(w)
  BY <1>3, NotifyProves DEF ProveInfeasible, ConcludeFragment
<1>4. CASE \/ SynchronizeAfterBroadcast(w) \/ ImportLowerBound(w)
           \/ ImportUpperBound(w) \/ FinishTask(w)
           \/ StartSearch(w) \/ StopSearch(w)
  BY <1>4, OtherCallsKeepAnswer, QuietCallProves DEF SynchronizeAfterBroadcast,
     ImportLowerBound, ImportUpperBound, FinishTask, StartSearch, StopIfSolved,
     StopSearch
<1> QED
  BY <1>1, <1>2, <1>3, <1>4 DEF WorkerNext

\* Every step is a report or a proof.
LEMMA StepReportsOrProves ==
  ASSUME NarrowGaps, TypeOK, BoundsInv, VerdictInv, BoundIsLoaded, [Next]_vars
  PROVE  AnswerStep
<1>1. CASE ReachTimeLimit \/ UNCHANGED vars
  BY <1>1, OtherCallsKeepAnswer, QuietCallProves
     DEF ReachTimeLimit, vars, searchVars, AnswerStep
<1> QED
  BY <1>1, MainReportsOrProves, WorkerReportsOrProves DEF Next, Terminated

\* The objective bound, once loaded, stays loaded.
LEMMA BoundStaysLoaded ==
  ASSUME TypeOK, TypeOK', BoundIsLoaded, UNCHANGED config, AnswerStep
  PROVE  BoundIsLoaded'
BY SearchAssumption
   DEF TypeOK, ManagerTypeOK, BoundIsLoaded, AnswerStep, Proves, Reports, HasObjective

(* What the answer claims is true of the state it is read in.              *)
LEMMA AnswerIsTrue ==
  ASSUME VerdictInv', UNCHANGED config
  PROVE  Optimizer!Claims(best_status', reported', best_objective',
                          (IF HasObjective THEN inner_lb ELSE KMin)')
BY DEF VerdictInv, StatusInv, VerdictIsSound, HasSolution, WithinGap, Larger, Abs,
   Feasible, HasObjective, EnumerateAll, Optimizer!Claims, Optimizer!AcceptableGap,
   Optimizer!Magnitude

\* A report or a proof is a step of the abstract optimizer.
LEMMA StepIsOptimizerStep ==
  ASSUME VerdictInv', LowerBoundIsGlobal', TypeOK, UNCHANGED config, AnswerStep
  PROVE  Optimizer!Next
<1>1. Optimizer!ClaimSomethingTrue
  BY AnswerIsTrue DEF Optimizer!ClaimSomethingTrue, AnswerStep, Proves, Reports
<1>2. CASE Proves
  BY <1>1, <1>2, ManagerAssumption DEF Proves, LowerBoundIsGlobal, Feasible,
     HasObjective, Optimizer!Next, Optimizer!Prove
<1>3. ASSUME NEW s \in Feasible, Reports(s) PROVE Optimizer!Next
  BY <1>1, <1>3 DEF Reports, Feasible, HasObjective, Optimizer!Next, Optimizer!Report
<1> QED
  BY <1>2, <1>3 DEF AnswerStep

(* The status, the best objective and the lower bound of a CP-SAT search   *)
(* are at any time those of a sequential optimizer that never takes a      *)
(* claim back, however many workers call the manager and however late.     *)
THEOREM SearchImplementsOptimizer ==
  ASSUME NarrowGaps PROVE Spec => ImplementsOptimizer
<1>1. Init => BoundIsLoaded /\ Optimizer!Init
  BY SearchAssumption, ConfigurationFacts DEF Init, ManagerInit, BoundIsLoaded,
     Optimizer!Init, Feasible, HasObjective
<1>2. TypeOK /\ BoundsInv /\ VerdictInv /\ BoundIsLoaded /\ [Next]_vars
        => UNCHANGED config /\ AnswerStep
  BY StepReportsOrProves, NextKeepsConfiguration
<1>3. TypeOK /\ TypeOK' /\ BoundIsLoaded /\ UNCHANGED config /\ AnswerStep
        => BoundIsLoaded'
  BY BoundStaysLoaded
<1>4. VerdictInv' /\ LowerBoundIsGlobal' /\ TypeOK /\ UNCHANGED config /\ AnswerStep
        => Optimizer!Next
  BY StepIsOptimizerStep
<1> QED
  BY <1>1, <1>2, <1>3, <1>4, TypeCorrect, BoundsCover, LowerBoundsAreGlobal,
     VerdictInvariant, PTL
     DEF Spec, ImplementsOptimizer, Optimizer!Spec
=============================================================================
