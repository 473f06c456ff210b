---------------------------- MODULE SharedBounds ----------------------------
(***************************************************************************)
(* SharedBoundsManager of ortools/sat/synchronization.{h,cc}: the bounds   *)
(* of variables at level zero, which full workers export and import        *)
(* (cp_model_solver_helpers.cc), which the NeighborhoodGeneratorHelper     *)
(* imports, and which a neighborhood task fixes when it has solved an      *)
(* independent part of the problem (cp_model_lns.cc, cp_model_solver.cc).  *)
(*                                                                         *)
(* A bound is only meant to keep the solutions that improve on the best    *)
(* one, and a fixing one of them.  The engine of a full worker is external:*)
(* it deduces what follows from its own bounds, which may be out of date.  *)
(* The variables are those a worker maps to integer variables.             *)
(***************************************************************************)
EXTENDS Integers, FiniteSets, FiniteSetsExt, TLC

CONSTANTS
  Vars,            \* the variables of the presolved model, numbered
  Scopes,          \* the variables of each constraint
  FullWorkers,
  LnsWorkers,      \* neighborhood tasks that may run at a time
  Configurations   \* the problem to solve, and how

(* A box gives each variable a lower and an upper bound.                   *)
IntIntervals == [lb : Int, ub : Int]
Boxes == [Vars -> IntIntervals]
Inside(s, b) == \A v \in Vars : b[v].lb <= s[v] /\ s[v] <= b[v].ub
Interval(lb, ub) == [lb |-> lb, ub |-> ub]
Meet(i, j) == Interval(Max({i.lb, j.lb}), Min({i.ub, j.ub}))
IsEmpty(i) == i.lb > i.ub
IsFixed(i) == i.lb = i.ub

(* A problem has a box as its domain, solutions, functions on Vars, and    *)
(* their inner objective.                                                  *)
ProblemOK(p) ==
  /\ p.domain \in Boxes
  /\ p.feasible \subseteq [Vars -> Int] /\ p.cost \in [p.feasible -> Int]
  /\ \A s \in p.feasible : Inside(s, p.domain)

(* Each constraint is about the variables of one scope, and the objective  *)
(* is linear: two solutions may exchange their values on C when no         *)
(* constraint would tell.                                                  *)
Combined(s, t, C) == [v \in Vars |-> IF v \in C THEN t[v] ELSE s[v]]
Agree(s, t, C) == \A v \in C : s[v] = t[v]
FollowsScopes(p) ==
  \A s, t \in p.feasible, C \in SUBSET Vars :
    (\A S \in Scopes : Agree(s, t, S \cap C) \/ Agree(s, t, S \ C)) =>
      LET x == Combined(s, t, C)
          y == Combined(t, s, C)
      IN {x, y} \subseteq p.feasible /\ p.cost[x] + p.cost[y] = p.cost[s] + p.cost[t]

(* The permutations of the symmetry field of the model.                    *)
IsSymmetry(f, p) ==
  \A s \in p.feasible : LET t == [v \in Vars |-> s[f[v]]]
                        IN t \in p.feasible /\ p.cost[t] = p.cost[s]

ConfigurationOK(c) ==
  /\ ProblemOK(c.problem) /\ FollowsScopes(c.problem)
  /\ c.full \subseteq FullWorkers /\ c.lns \subseteq LnsWorkers
  /\ c.interleave_search \in BOOLEAN
  /\ c.orbits \subseteq SUBSET Vars        \* those of more than one variable
  /\ \A O, P \in c.orbits : O = P \/ O \cap P = {}
  /\ \A O \in c.orbits : \A u, v \in O : \E f \in Permutations(Vars) :
       f[u] = v /\ IsSymmetry(f, c.problem) /\ c.problem.domain[u] = c.problem.domain[v]

Helper == "neighborhood_helper"

ASSUME BoundsAssumption ==
  /\ Helper \notin FullWorkers
  /\ Vars \subseteq Int /\ IsFiniteSet(Vars)
  /\ Scopes \subseteq SUBSET Vars
  /\ \A c \in Configurations : ConfigurationOK(c)

VARIABLES
  config,
  bounds,          \* lower_bounds_, upper_bounds_
  changed,         \* changed_variables_since_last_synchronize_
  synchronized,    \* synchronized_lower_bounds_, synchronized_upper_bounds_
  id_to_changed,   \* id_to_changed_variables_
  main,            \* where the main thread is on its way to synchronize
  worker,          \* what each full worker is doing
  box,             \* bounds at level zero of each full worker, and those of
                   \* model_proto_with_only_variables_ of the helper
  graph,           \* variables that were constant in RecomputeHelperData()
  task,            \* each neighborhood task
  pool,            \* the best solution, if there is one
  solved           \* NotifyThatImprovingProblemIsInfeasible() was called

managerVars == <<bounds, changed, synchronized, id_to_changed>>
helperVars == <<graph, task>>
searchVars == <<pool, solved>>
vars == <<config, managerVars, main, worker, box, helperVars, searchVars>>

Domain == config.problem.domain
Feasible == config.problem.feasible
Cost == config.problem.cost

Ids == FullWorkers \cup {Helper}
Registered ==
  {Helper} \cup {w \in config.full : worker[w] \in {"searching", "exporting", "done"}}

HasSymmetry == config.orbits # {}
OrbitOf(v) == {u \in Vars : u = v \/ \E O \in config.orbits : {u, v} \subseteq O}
Representative(v) == Min(OrbitOf(v))     \* var_to_representative_
Expanded(b) == [v \in Vars |-> b[Representative(v)]]

(* A solution that improves on the best one.                               *)
IsImproving(s) == \A t \in pool : Cost[s] < Cost[t]
Improving == {s \in Feasible : IsImproving(s)}

(* NewSolution(), with a pool of one solution.                             *)
NewSolution(s) == pool' = IF IsImproving(s) THEN {s} ELSE pool

(* An interleaved search synchronizes between two batches of tasks only.   *)
TasksMayRun == ~ config.interleave_search \/ main = "search"

NoTask == [state |-> "idle", box |-> Domain, fixable |-> {}, found |-> {}]

Init ==
  /\ config \in Configurations
  /\ bounds = Domain /\ synchronized = Domain
  /\ changed = {} /\ id_to_changed = [i \in Ids |-> {}]
  /\ main = "search"
  /\ worker = [w \in FullWorkers |-> "loading"]
  /\ box = [i \in Ids |-> Domain]
  /\ graph = {v \in Vars : IsFixed(Domain[v])}
  /\ task = [l \in LnsWorkers |-> NoTask]
  /\ pool = {} /\ solved = FALSE

-----------------------------------------------------------------------------
(* The methods of the manager.                                             *)

(* What the bounds b reported of all variables make of those of v, "in the *)
(* presence of symmetry we only update the representative".                *)
Tightened(v, b) ==
  LET orbit == OrbitOf(v)
  IN Interval(Max({bounds[v].lb} \cup {b[u].lb : u \in orbit}),
              Min({bounds[v].ub} \cup {b[u].ub : u \in orbit}))

(* Every change of the bounds is noted for the next Synchronize().         *)
SetBounds(b) ==
  /\ bounds' = b
  /\ changed' = changed \cup {v \in Vars : b[v] # bounds[v]}
  /\ UNCHANGED <<synchronized, id_to_changed>>

(* Mistake: a variable is updated instead of its representative.           *)
MistakeReportPotentialNewBounds(b) ==
  SetBounds([v \in Vars |-> Interval(Max({bounds[v].lb, b[v].lb}),
                                     Min({bounds[v].ub, b[v].ub}))])
(* ReportPotentialNewBounds().  A worker reports the variables it modified;*)
(* those it reported before, or imported, bring nothing new.               *)
ReportPotentialNewBounds(b) ==
  SetBounds([v \in Vars |->
               IF v = Representative(v) THEN Tightened(v, b) ELSE bounds[v]])

IsCompatible(s, C) == \A v \in C : bounds[v].lb <= s[v] /\ s[v] <= bounds[v].ub

FixVariablesFromPartialSolution(s, C) ==
  IF IsCompatible(s, C)
  THEN SetBounds([v \in Vars |->
                    IF v \in C THEN Interval(s[v], s[v]) ELSE bounds[v]])
  ELSE UNCHANGED managerVars

Synchronize ==
  /\ synchronized' = [v \in Vars |-> IF v \in changed THEN bounds[v] ELSE synchronized[v]]
  /\ id_to_changed' = [i \in Ids |->
        IF i \in Registered THEN id_to_changed[i] \cup changed ELSE {}]
  /\ changed' = {}
  /\ UNCHANGED bounds

(* Mistake: a callback that registers late starts with nothing to import.  *)
MistakeChangedBefore == {}
(* RegisterNewId(): what was changed before.                               *)
ChangedBefore == {v \in Vars : synchronized[v] # Domain[v]}
RegisterNewId(i) ==
  /\ id_to_changed' = [id_to_changed EXCEPT ![i] = ChangedBefore]
  /\ UNCHANGED <<bounds, changed, synchronized>>

(* GetChangedBounds(), with "all symmetric version if any".                *)
ChangedBounds(i) ==
  [v \in Vars |-> IF Representative(v) \in id_to_changed[i]
                  THEN synchronized[Representative(v)] ELSE Domain[v]]
GetChangedBounds(i) ==
  /\ id_to_changed' = [id_to_changed EXCEPT ![i] = {}]
  /\ UNCHANGED <<bounds, changed, synchronized>>

-----------------------------------------------------------------------------
(* Full workers.                                                           *)
Searching(w) == worker[w] \in {"loading", "searching"} /\ TasksMayRun
BoundsCross(w) == \E v \in Vars : IsEmpty(box[w][v])

(* The engine, or LoadCpModel(), deduces a bound at level zero.            *)
Deduce(w, v, i) ==
  /\ Searching(w)
  /\ i # box[w][v]
  /\ i = Meet(i, box[w][v]) /\ ~ IsEmpty(i)
  /\ \A s \in Improving : Inside(s, box[w]) => i.lb <= s[v] /\ s[v] <= i.ub
  /\ box' = [box EXCEPT ![w][v] = i]
  /\ UNCHANGED <<config, managerVars, main, worker, helperVars, searchVars>>

(* broadcast_level_zero_bounds: once when it is registered, before the     *)
(* import is, then whenever something was deduced.  "If we are not in      *)
(* interleave_search we synchronize right away."                           *)
AfterExport(state) == IF state = "loading" THEN "registering" ELSE "searching"
ExportBounds(w) ==
  /\ Searching(w) /\ ~ BoundsCross(w)
  /\ ReportPotentialNewBounds(box[w])
  /\ worker' = [worker EXCEPT
       ![w] = IF config.interleave_search THEN AfterExport(@)
              ELSE IF @ = "loading" THEN "exporting_all" ELSE "exporting"]
  /\ UNCHANGED <<config, main, box, helperVars, searchVars>>

SynchronizeAfterExport(w) ==
  /\ worker[w] \in {"exporting_all", "exporting"}
  /\ Synchronize
  /\ worker' = [worker EXCEPT
       ![w] = IF @ = "exporting_all" THEN "registering" ELSE "searching"]
  /\ UNCHANGED <<config, main, box, helperVars, searchVars>>

(* RegisterVariableBoundsLevelZeroImport()                                 *)
RegisterImport(w) ==
  /\ worker[w] = "registering"
  /\ RegisterNewId(w)
  /\ worker' = [worker EXCEPT ![w] = "searching"]
  /\ UNCHANGED <<config, main, box, helperVars, searchVars>>

(* import_level_zero_bounds.  Bounds that cross end the import: the worker *)
(* has nothing left to do but ProveInfeasible.                             *)
ImportBounds(w) ==
  /\ Searching(w) /\ worker[w] = "searching" /\ ~ BoundsCross(w)
  /\ GetChangedBounds(w)
  /\ box' = [box EXCEPT ![w] = [v \in Vars |-> Meet(@[v], ChangedBounds(w)[v])]]
  /\ UNCHANGED <<config, main, worker, helperVars, searchVars>>

FindSolution(w, s) ==
  /\ Searching(w) /\ worker[w] = "searching"
  /\ Inside(s, box[w])
  /\ NewSolution(s)
  /\ UNCHANGED <<config, managerVars, main, worker, box, helperVars, solved>>

(* No solution within the bounds of w improves.                            *)
ProveInfeasible(w) ==
  /\ Searching(w) /\ worker[w] = "searching"
  /\ \A s \in Improving : ~ Inside(s, box[w])
  /\ solved' = TRUE
  /\ worker' = [worker EXCEPT ![w] = "done"]
  /\ UNCHANGED <<config, managerVars, main, box, helperVars, pool>>

-----------------------------------------------------------------------------
(* The synchronization agent, then NeighborhoodGeneratorHelper, which      *)
(* updates its domains under one mutex and its graph under another.        *)
MainSynchronize ==
  /\ main = "search"
  /\ config.interleave_search =>
       /\ \A w \in config.full : worker[w] \in {"loading", "searching", "done"}
       /\ \A l \in config.lns : task[l].state = "idle"
  /\ Synchronize
  /\ main' = "import"
  /\ UNCHANGED <<config, worker, box, helperVars, searchVars>>

(* "We do not want to have empty domain in the proto": such bounds are     *)
(* ignored.                                                                *)
MeetOrOld(i, j) == IF IsEmpty(Meet(i, j)) THEN i ELSE Meet(i, j)

HelperImport ==
  /\ main = "import"
  /\ IF solved
     THEN main' = "search" /\ UNCHANGED <<managerVars, box>>
     ELSE /\ GetChangedBounds(Helper)
          /\ box' = [box EXCEPT ![Helper] = [v \in Vars |->
                       MeetOrOld(@[v], ChangedBounds(Helper)[v])]]
          /\ main' = "recompute"
  /\ UNCHANGED <<config, worker, helperVars, searchVars>>

(* RecomputeHelperData(), if new variables have been fixed.                *)
RecomputeHelperData ==
  /\ main = "recompute"
  /\ graph' = {v \in Vars : IsFixed(box[Helper][v])}
  /\ main' = "search"
  /\ UNCHANGED <<config, managerVars, worker, box, task, searchVars>>

-----------------------------------------------------------------------------
(* A neighborhood task: FixGivenVariables() first reads the domains ...    *)
Closest(value, i) ==
  IF value < i.lb THEN i.lb ELSE IF value > i.ub THEN i.ub ELSE value

ReadDomains(l, base, relaxed) ==
  /\ TasksMayRun /\ ~ solved
  /\ task[l].state = "idle"
  /\ task' = [task EXCEPT
       ![l].state = "generating",
       ![l].box = [v \in Vars |->
          IF v \in relaxed THEN box[Helper][v]
          ELSE LET value == Closest(base[v], box[Helper][v])
               IN Interval(value, value)]]
  /\ UNCHANGED <<config, managerVars, main, worker, box, graph, searchVars>>

(* The graph links the variables of a constraint that are not constant.    *)
(* Independent sets of variables are unions of components_.                *)
Independent(C) ==
  /\ C \cap graph = {}
  /\ \A S \in Scopes : S \ graph \subseteq C \/ (S \ graph) \cap C = {}
Relaxed(b) == {v \in Vars : ~ IsFixed(b[v])}

(* Mistake: a component that is relaxed in part only is taken as well.     *)
MistakeFixableIn(b) == Relaxed(b) \ graph
(* variables_that_can_be_fixed_to_local_optimum                            *)
FixableIn(b) == UNION {C \in SUBSET Relaxed(b) : Independent(C)}

(* ... and then the components.                                            *)
DetectComponents(l) ==
  /\ task[l].state = "generating"
  /\ task' = [task EXCEPT ![l].state = "solving", ![l].fixable = FixableIn(task[l].box)]
  /\ UNCHANGED <<config, managerVars, main, worker, box, graph, searchVars>>

(* The fragment is solved to optimality.                                   *)
IsOptimalIn(s, b) ==
  Inside(s, b) /\ \A t \in Feasible : Inside(t, b) => Cost[s] <= Cost[t]

FixFragment(l, s) ==
  /\ task[l].state = "solving"
  /\ IsOptimalIn(s, task[l].box)
  /\ IF HasSymmetry \/ task[l].fixable = {}
     THEN UNCHANGED managerVars
     ELSE FixVariablesFromPartialSolution(s, task[l].fixable)
  /\ task' = [task EXCEPT ![l].state = "reporting", ![l].found = {s}]
  /\ UNCHANGED <<config, main, worker, box, graph, searchVars>>

ReportFragment(l) ==
  /\ task[l].state = "reporting"
  /\ \E s \in task[l].found : NewSolution(s)
  /\ task' = [task EXCEPT ![l] = NoTask]
  /\ UNCHANGED <<config, managerVars, main, worker, box, graph, solved>>

(* It is infeasible, or not solved in time.                                *)
GiveUpFragment(l) ==
  /\ task[l].state = "solving"
  /\ task' = [task EXCEPT ![l] = NoTask]
  /\ UNCHANGED <<config, managerVars, main, worker, box, graph, searchVars>>

-----------------------------------------------------------------------------
Intervals(i) == {Interval(lb, ub) : lb, ub \in i.lb .. i.ub}

WorkerNext(w) ==
  \/ \E v \in Vars : \E i \in Intervals(box[w][v]) : Deduce(w, v, i)
  \/ ExportBounds(w)
  \/ SynchronizeAfterExport(w)
  \/ RegisterImport(w)
  \/ ImportBounds(w)
  \/ \E s \in Feasible : FindSolution(w, s)
  \/ ProveInfeasible(w)

TaskNext(l) ==
  \/ \E base \in pool, relaxed \in SUBSET Vars : ReadDomains(l, base, relaxed)
  \/ DetectComponents(l)
  \/ \E s \in Feasible : FixFragment(l, s)
  \/ ReportFragment(l)
  \/ GiveUpFragment(l)

MainNext == MainSynchronize \/ HelperImport \/ RecomputeHelperData

Next ==
  \/ \E w \in config.full : WorkerNext(w)
  \/ \E l \in config.lns : TaskNext(l)
  \/ MainNext

Spec == Init /\ [][Next]_vars

-----------------------------------------------------------------------------
WorkerStates ==
  {"loading", "exporting_all", "registering", "searching", "exporting", "done"}
TaskStates == {"idle", "generating", "solving", "reporting"}

ManagerTypeOK ==
  /\ bounds \in Boxes /\ synchronized \in Boxes
  /\ changed \subseteq Vars /\ id_to_changed \in [Ids -> SUBSET Vars]
  /\ HasSymmetry => \A v \in changed : v = Representative(v)
SearchTypeOK ==
  /\ config \in Configurations
  /\ main \in {"search", "import", "recompute"}
  /\ worker \in [FullWorkers -> WorkerStates]
  /\ box \in [Ids -> Boxes]
  /\ graph \subseteq Vars
  /\ pool \subseteq Feasible /\ solved \in BOOLEAN
TaskTypeOK ==
  task \in [LnsWorkers -> [state : TaskStates, box : Boxes,
                           fixable : SUBSET Vars, found : SUBSET Feasible]]
TypeOK == ManagerTypeOK /\ SearchTypeOK /\ TaskTypeOK

(* "we can just fix the variable listed here to that optimal solution",    *)
(* "reject future incompatible fixing": as long as a solution improves, one*)
(* that does is within all the bounds that are shared, and within those of *)
(* every worker, although each deduces bounds and solves fragments from    *)
(* what it was told last.                                                  *)
AnImprovementIsKept ==
  Improving # {} =>
    \E s \in Improving :
      /\ Inside(s, Expanded(bounds)) /\ Inside(s, Expanded(synchronized))
      /\ \A w \in config.full : Inside(s, box[w])

(* "OPTIMAL: An optimal feasible solution has been found": a worker proves *)
(* within its bounds that nothing improves only when nothing does.         *)
ProofsAreSound == solved => Improving = {}

Knows(i, j) == LET known == Meet(i, j) IN i = known \/ IsEmpty(known)

(* "returns the set of bounds improvements since the last time this method *)
(* was called with the same id": what is not in a set of changes is known. *)
NoChangeIsMissed ==
  /\ \A v \in Vars \ changed : synchronized[v] = bounds[v]
  /\ \A i \in Registered : \A v \in Vars :
       Representative(v) \notin id_to_changed[i] =>
         Knows(box[i][v], synchronized[Representative(v)])
=============================================================================
