# OR-tools in TLA+

TLA+ models of the heart of OR-tools: how the workers of a CP-SAT search share
what they find, how they divide the search among them, how the tasks they run are
scheduled, how a verdict comes out of it, and the clause learning solver that each
of them runs.  The models are checked with TLC on small instances and
their main safety properties are proved with TLAPS for all of them.

File names below are relative to `src/ortools/`; line numbers are those of the
sources the modules were translated from.  `PROJECT.json` maps every definition
to its lines.

## 1. The system

OR-tools is a set of optimisation engines behind a few front ends.  Most of its
4500 files are sequential algorithms on large data.  The part whose correctness
depends on orders of events, and which a test hardly reaches, is the portfolio
search of CP-SAT (`sat/`): up to dozens of workers of different kinds solve the
same model at the same time and talk through shared classes.

### 1.1 Components of the CP-SAT search

**Response manager** (`SharedResponseManager`, `sat/synchronization.{h,cc}`).
State: the status of the search (`best_status_`), the bounds of the objective
(`inner_objective_lower_bound_`, `..._upper_bound_`), the best objective, the
number of solutions, a synchronized copy of what workers may read, and the
solution pool.  Operations: `UpdateInnerObjectiveBounds`,
`NotifyThatImprovingProblemIsInfeasible`, `NewSolution`, `Synchronize`, readers.
Every method takes one mutex, but callers combine several: they read two bounds
under two locks, search for seconds under what they read, and report later.
Correct when: the verdict is true, the lower bound is globally valid although
it was proved under an upper bound that is out of date, no improving solution is
dropped, a verdict is never taken back, and the response agrees with the verdict.

**Solution pool** (`SharedSolutionRepository`, `synchronization.h`).  State: the
kept solutions, sorted by rank, and `new_solutions_`, which nobody sees before
`Synchronize()`.  Correct when the first solution is the best one and nothing
that was given is lost but for worse ones.

**Workers** (`FullProblemSolver`, `LnsSolver` of `sat/cp_model_solver.cc`;
`sat/cp_model_solver_helpers.cc`).  A worker loads the model, imports bounds and
clauses at level zero through callbacks, runs an engine, and reports.  Correct
when its window of objective values never excludes a solution that would still
improve, and it stops when the search is over.

**Driver** (`SolveCpModel`, `SolveCpModelParallel`, `LaunchSubsolvers`).  Gives
the hint to the manager, creates the subsolvers, and runs a loop over them.  In
an *interleaved* search (`interleave_search`) workers run by chunks and only see
what the main thread has synchronized between two batches: the search is then
meant to be deterministic.

**Clause sharing** (`SharedClausesManager`, `UniqueClauseStream`).  State: an
array of binary clauses, a deque of batches of longer ("glue") clauses, pending
batches, and two or three indices per worker into these.  Operations: register,
add, read the unseen ones, synchronize (merges pending batches, pops those that
everybody has read and moves the indices).  Correct when a worker is given every
clause once, in order, and nothing it still reads is erased.

**Subsolver loops** (`sat/subsolver.{h,cc}`).  `SequentialLoop`,
`DeterministicLoop`, `NonDeterministicLoop`: synchronize the subsolvers, free
those that are done, pick one, generate a task, run it or give it to the pool.
State: the subsolvers, two counters of tasks in flight, a mutex.  Correct when
no task outlives its subsolver, a full solver has one task at a time, no task
waits behind another, batches do not overlap, and the loop ends.

**Thread pool** (`base/threadpool.{h,cc}`).  A queue, a condition variable,
threads.  Correct when every task runs once, and the destructor returns.

**Shared variable bounds** (`SharedBoundsManager`).  Level-zero bounds of every
variable, the set changed since the last synchronization, one set per importing
callback, orbits of symmetric variables, and fixing from a partial solution.
Correct when bounds only tighten, keep the solutions that are to be kept, and
every callback gets every change.

**Shared tree search** (`SharedTreeManager`, `SharedTreeWorker`,
`sat/work_assignment.{h,cc}`).  A tree of decisions that workers split, close,
leave and that is restarted.  Correct when a subtree is only closed if it was
explored, leaves are assigned fairly, and a closed root means infeasible.

**SAT core** (`SatSolver`, `ClauseManager`, `BinaryImplicationGraph`,
`sat/sat_solver.{h,cc}`, `sat/clause.{h,cc}`).  The engine of the full workers,
sequential but incremental.  State: the trail of assigned literals with their
levels and reasons, the clauses with two watched literals each, the lists of
implications, where each propagator is on the trail, the assumptions of the
question.  Operations: add a clause, propagate, branch, analyse a conflict and
learn from it, jump back, restart, forget learned clauses, simplify by what is
fixed, answer under assumptions.  Correct when each answer is right for all the
clauses added so far, whatever happened before, and there is one.

**Time limits** (`util/time_limit.{h,cc}`, `ModelSharedTimeLimit`).  A flag that
anybody may set, clocks, a running maximum that makes the check conservative.

### 1.2 Other components, which no module models

| Component | Where | Why not |
|---|---|---|
| Rest of the SAT core | `sat/pb_constraint.cc`, `sat_inprocessing.cc`, `simplification.cc`, `restart.cc` | more propagators and rewritings of the same clauses; when to restart is a heuristic |
| Clause stream | `UniqueClauseStream` in `synchronization.cc` | a random sample of clauses: which ones it keeps affects no answer |
| Integer and constraint propagation | `sat/integer.cc`, ... | the same; the integer trail is a candidate |
| Optimisation algorithms | `sat/optimization.cc`, `max_hs.cc`, `lb_tree_search.cc` | abstracted to what they report |
| Local search, generation of neighborhoods | `sat/cp_model_lns.cc`, `feasibility_jump.cc`, `rins.cc` | abstracted to what a task reports |
| Presolve and postsolve | `sat/cp_model_presolve.cc`, ... | sequential rewriting of data |
| Symmetry, probing, cliques, LP | `sat/cp_model_symmetries.cc`, ... | sequential inference |
| GLOP, PDLP | `glop/`, `pdlp/` | floating point |
| Constraint solver, routing | `constraint_solver/`, `routing/` | single-threaded; the demon queue is a candidate |
| Graph algorithms | `graph/` | pure; the two-thread bidirectional Dijkstra is a candidate |
| Linear solver wrapper, MathOpt | `linear_solver/`, `math_opt/` | translation; interrupters with callbacks are a candidate |
| FlatZinc, set cover, knapsack, packing, scheduling, bop | ... | front ends and stand-alone sequential solvers |
| Wrappers, build files, examples, data | | no logic of their own |

### 1.3 How they interact

```
                    driver (main thread)
   LaunchSubsolvers |                 ^ ProblemIsSolved, response
                    v                 |
   subsolver loop --- Synchronize() ---> response manager, clauses, bounds
        | TaskIsAvailable / GenerateTask        ^   |
        v                                       |   | read at level zero
   thread pool ----> task of a worker ----------+<--+
                     report bound, solution, proof, clause
   time limit: polled by every worker; set by the clock, the user, the manager,
               SearchIsDone() and a neighborhood that is the whole problem
```

Shared state is only reached through methods that take a mutex.  What makes it
hard is between the calls: a worker acts on what it read some time ago; two
methods that belong together are called one after the other; the main thread
frees, synchronizes and erases while tasks run; anybody may end the search at
any time; and in interleaved searches nothing a task does may be seen by those
that run beside it.  There are no messages that get lost and nothing is
persisted: crashes are outside of what this code handles.

### 1.4 Hazards

`PROJECT.json` lists what can go wrong in this code and is hard to test, at its
line, with the properties that would catch it, or the reason why none does yet.
The main groups: bounds and proofs that are out of date when they are reported;
the status written by four methods in any order; the response and the pool
synchronized apart; indices into arrays whose front is erased; subsolvers freed
while tasks are counted by other threads; results that end between a test and the
step that relies on it; paths of a shared tree that outlive its restarts, and
leaves that are listed twice or not at all; in the SAT core, watches that no
backjump repairs, clauses forgotten while the trail refers to them, learned clauses
that replace those of the problem, and questions asked again after other answers.

## 2. Modules

| Module | Models | State and actions |
|---|---|---|
| `SharedSolutionRepository` | the solution pool | operators on sets of entries: `AddedTo` (`Add`), `Merged` (`Synchronize`), `IsFirst` (`GetSolution(0)`) |
| `SharedResponseManager` | the response manager | its variables are the members; `UpdateInnerObjectiveBounds`, `NotifyThatImprovingProblemIsInfeasible`, `NewSolution`, `Synchronize`, `SynchronizePool`: one operator per method, as an action |
| `CpSatSearch` | workers and driver around the manager | `main`: where the main thread is; `worker[w]`: the task, the phase and the window `lb..ub` of each worker; one action per step between two locks |
| `SharedClauses` | `SharedClausesManager` and its callers | arrays as sequences, the deque as two counters; one action per method |
| `SharedBounds` | `SharedBoundsManager`, the callbacks of full workers, `NeighborhoodGeneratorHelper` and the tasks of neighborhoods | `bounds`, `synchronized`, `changed`, `id_to_changed` are its members; `box[i]` what each importer knows; `task[l]` the fragment of each neighborhood; one action per step between two locks |
| `SharedTree` | `SharedTreeManager`, `ProtoTrail`, `SharedTreeWorker` | `nodes`, `unassigned`, `splits_wanted`, `offset` are members of the manager; `path[w]` is the `ProtoTrail` of a worker: its trail of nodes with their literals, its levels, each with where it starts on the trail, and what is known at level zero; one action per method and per deduction |
| `SatSolver` | `SatSolver`, `ClauseManager`, `BinaryImplicationGraph` | the clause database, the trail, two propagation indices, the conflict, the assumptions; one action per call of a propagator, branching, conflict and public method |
| `ThreadPool` | the pool | `tasks`, `thread`, `work`; used by the next one |
| `SubsolverLoop` | the three loops | `main` is the program counter of the main thread, `num_in_flight` and `in_flight` the two counters |
| `AnytimeOptimizer` | what a search promises (abstract) | the solutions found, the best objective, a bound, a verdict; `Report` and `Prove` |
| `SatOracle` | what the SAT solver promises (abstract) | the clauses, the assumptions, an answer with its witness |
| `MC...` | | the small instances |
| `CpSatSearchProofs`, `SharedClausesProofs`, `SharedBoundsProofs`, `SubsolverLoopProofs`, `SharedTreeProofs`, `SatSolverProofs` | | theorems about the module each is named after |
| `SatLemmas` | | lemmas on the operators of `SatSolver`: the propagators, the simplification, the assumptions, the analysis of a conflict, the backjump, and what an assignment satisfies |
| `SetLemmas` | | induction on a set of numbers, recursive functions, minima and maxima: for the proofs of `CpSatSearch`, `SharedBounds`, `SharedTree` and `SatSolver` |

`CpSatSearch` extends `SharedResponseManager`, which extends
`SharedSolutionRepository`; `SubsolverLoop` extends `ThreadPool`.  The engine of
a worker is external to these models: it may report any feasible solution, and any
bound or proof that follows from the window it was told to search.  `SatSolver` is
a model of the engine itself.

Two modules are shown to implement an abstract one.  `CpSatSearch` implements
`AnytimeOptimizer` (`ImplementsOptimizer`): the abstract state is the solutions
reported, the best objective, the lower bound and the status of the manager; what
workers read, copy and synchronize is invisible there, so that every step of it
maps to a stutter, a `Report` or a `Prove`.  `SatSolver` implements `SatOracle`
(`AnswersAreRight`): a whole search maps to stutters, and its end to one answer,
whose witness is the assignment on the trail, or the core computed from the last
conflict.

A definition whose name begins with `Mistake` is the wrong version of the one
that follows it: a mutation with which the property named in `PROJECT.json`
("mutants") fails.  No specification uses it.

### 2.1 What is abstracted

*Solutions* are model values with an objective; *clauses* are model values; glue
clauses are only counted by batch, with a Boolean that says whether the batch
holds one.  *The objective* is the inner one, an integer: scaling only matters
for the relative gap limit, whose offset and factor are kept as integers.
*Scores* that choose the next subsolver are replaced by any choice.  *Time* is a
flag that may be set at any moment.  Left out altogether: logging, statistics,
the gap integral, solution callbacks (they only read), solution postsolve, unsat
cores, `SetQueueCapacity` (nothing calls it), deletion of first-solution
subsolvers in `SubsolverLoop` (the reason to free one is any end of its work).

`SharedBounds` has a problem as a set of solutions with their costs, a box as the
domain, and the variables of each constraint, from which components are computed.
Variables are those that a worker maps to integers (Booleans are imported as
fixed literals), the best solution is a pool of one, and the objective domain
does not constrain (when it does, no variable is listed to be fixed).  The engine
may deduce any bound that keeps the improving solutions of its own box.  The
constraints that become trivially true are not removed from the graph, so that
components are larger than in the code, never smaller.

`SharedTree` describes the engine of a worker by what it may deduce: from the
decisions of its path up to a level, whatever holds of the solutions that satisfy
them and improve on the best one.  Whether the clauses a worker learns are good
enough to keep its subtree is a choice.  `SyncTree` counts its calls, and the model
keeps the counter only up to the value that makes a restart.  Left out: the phases
and the choice of the literal that a worker branches on, implied literals of
integer variables, and the extra callback that each call of `Search()` registers.
The comment of `work_assignment.cc:53` says that the tree restarts when it is full;
`SyncTree()` only does so for the first ten restarts, and so does the model.

`SatSolver` chooses freely what heuristics decide: any literal to branch on, any
moment to restart, and at a clean up any set of learned clauses that are no reason.
A clause is *removable* when it is redundant, whatever its LBD.  Left out: limits
(`LIMIT_REACHED`), pseudo-Boolean and at-most-one constraints, equivalent literals,
the minimisations other than `MINIMIZE_CONFLICT_FIRST`, simple and recursive ones,
DRAT, phases and activities, inprocessing.  The clauses added during the search are
those of literals created there, which are neither unit nor false at a lower level
(`LateFor`); finding 5 shows what happens to others.  `ProcessNewlyFixedVariables`
also detaches clauses that are reasons at level zero, where no reason is ever read:
`ReasonsExplainTheTrail` asks for the clause of a literal above that level only.

`SharedClauses` uses that the arguments of `RegisterNewId` always say that a
worker does not terminate early: `FullProblemSolver` asks
`local_model_.GetOrCreate<CpModelProto>()->has_objective()`
(`sat/cp_model_solver.cc:1131`), and no such object was ever registered in the
local model, so that it is a new and empty one (see finding 3).

### 2.2 Granularity

One action is what a thread does under one lock, with the thread-local work next
to it.  Where a method takes its mutex twice (`SharedClausesManager::
Synchronize`), or where callers combine two methods
(`RegisterObjectiveBoundsImport`, the two calls of the synchronization agent),
there are several actions, and others run in between.  In `SubsolverLoop` the
body of a task and the function of the loop around it are two actions, because
the second takes the mutex again; a notification of a condition variable is an
action apart from the push it follows, as it is outside of the mutex.  In
`SatSolver`, where nothing runs beside the solver, the steps are those between which
its invariants are meant to hold: a propagator has looked at one literal, a conflict
has been learned from.

## 3. Runs

Each run asks a question of its own.

| Run | Question | Answer |
|---|---|---|
| `search_safety` | are the verdict, the bounds and the response right, whatever workers report and when, and does the search implement `AnytimeOptimizer`? | yes, in ten kinds of search |
| `search_ends` | does a search end once somebody solved the problem? | yes |
| `search_hinted` | is the response consistent when an interleaved search is cut short after a hint? | no: finding 1 |
| `clauses` | do the indices survive merging and erasing batches, late registration and leaving, and does everybody get every binary clause, once? | yes |
| `clauses_interleaved` | do imports not depend on the order of concurrent calls? | they do: finding 2 |
| `clauses_first_solution` | are first-solution workers not waited for? | they are: finding 3 |
| `bounds_safety` | do shared bounds and partial fixings keep a solution that improves, and reach everybody? | yes, with workers that run in parallel, and with neighborhoods in an interleaved search |
| `bounds_parallel_lns` | the same with a neighborhood beside the main thread? | no: finding 4 |
| `tree` | is no solution lost, no leaf forgotten or explored twice, and no split refused for ever, when workers share a tree? | yes, with each strategy |
| `sat` | is every answer of the SAT solver right, and is there one, for every order of decisions, restarts and clean ups? | yes |
| `sat_late_clause` | the same when any clause that is not false may be added during the search? | no: finding 5 |
| `loop` | do the loops free, count, separate, synchronize and end as promised? | yes |

### 3.1 Bounds, and why they are enough

*Search.*  Two workers, as every hazard is between two reports or between a
report and the main thread.  Two solutions with the objectives 4 and 2, in a
domain 1..4: there is a value below the optimum that can be proved impossible, a
gap between the two that a bound may fall in, and a value on which lower and
upper bound meet.  `ClaimedBounds` are the values workers may prove.
`search_safety` runs ten configurations: with a hint, with an absolute gap limit,
infeasible, without objective, enumerating, with a neighborhood worker, with a
first-solution worker, and three interleaved ones.  `NumSolutionsToKeep` is 1,
so that the pool drops something.

*Clauses.*  Two workers, one of them a first-solution worker that may leave early.
`MinBatches` is 1 instead of 64, as only its comparison with the number of batches
matters; with four batches, two of which are pending before each merge, one is
erased before a worker reads another.  There are two binary clauses, which are
needed for an order, and one when glue clauses are shared too (`FewBinaryClauses`):
the two kinds meet in what a worker is doing, not in their contents.  The two runs
of findings have a third worker.

*Bounds.*  Two variables.  `Alike`, with three values each, has two solutions of
least cost, that exclude each other, and one that can only be reached by fixing
both variables; it is solved by a full worker and a neighborhood of an
interleaved search.  `Binary` has two values and is solved by two full workers
in parallel.  Each is solved with and without its symmetry.  `Linked` is the
problem of finding 4: what the first variable may be depends on the second.  One
neighborhood is enough for two incompatible fixings: the second task starts
before the main thread has imported the first.

*Shared tree.*  Two workers, so that a subtree is split, left and taken over.  With
two variables a tree has up to five nodes: deep enough that closing a node implies
its sibling and makes the levels of a path above and below it collapse.  Of the
three solutions the best is where one of the two is true.  The configurations
(`Searches`) cover the four split strategies, a bound that is shared, implications
that are shared through a third variable, and a restart.  A balanced tree with
tolerance 0 refuses to be split when the number of leaves is no power of two, as a
test of the repository expects; the runs give it a tolerance of 1.

*SAT.*  Clauses of one to four literals on five variables, mostly of three or four:
that is the least where a clause is watched, propagates at one level, and is visited
again at another.
The problems were chosen among random ones for what happens in them: `Subsumed`
learns clauses that subsume those of the problem and stay reasons, `Jumping` jumps
over levels without minimisation, `Unsatisfiable` forgets clauses on its way,
`Assumed` asks five questions, whose assumptions clash with the clauses or one
another, are implied or are not needed, `Created` adds the clauses of a literal
during the search, `Contradictory` is refuted as it is loaded, and `Fixed` removes a
clause that is the reason of a literal fixed at level zero.  One restart per
question and one clean up are enough for either to come at any point.  A branch
takes any variable and the polarity false.

*Loop.*  Two threads, one full solver, one neighborhood solver, one
synchronization agent; six tasks, which is more than two batches of three.
`Configurations` has the parallel loop, the interleaved one with two threads,
the interleaved one with a single thread and a single batch, and the sequential
one.

### 3.2 Properties

Of `CpSatSearch`:

* `LowerBoundIsGlobal`: workers prove bounds below their own, older, upper bound,
  which says nothing of solutions above it.  The bound that is kept is never
  above a feasible solution.
* `BestIsBestReported`: `NewSolution` ignores what is not below the upper bound,
  and the upper bound is also moved by bounds of workers.  It never ignores a
  solution that is better than the best.
* `VerdictIsSound`, `NoProofAgainstASolution`: `INFEASIBLE` and `OPTIMAL` are
  true, although proofs refer to the window of the prover and come late.
* `ImprovingSolutionsRespectBounds`: the `DCHECK`s of `NewSolution`.
* `ResponseIsConsistent`: status, best objective and first solution of the pool
  belong together when the search is over.
* `ImplementsOptimizer`: whoever reads the status, the best objective and the bound
  at any time sees an anytime optimizer: the bound never drops, the best objective
  only changes with a solution, and a claim is true and never taken back, which is
  the invariant in the comment above `NotifyThatImprovingProblemIsInfeasible`.
* `WorkersSeeOnlySynchronizedState`: the contract of interleaved searches.
* `SolvedSearchEnds`: liveness.

Of `SharedClauses`: `BatchBeingReadIsKept`, `BatchesAreReadInOrder`,
`BinaryClausesAreExact` (none is missed and none is given twice),
`EveryClauseIsShared` (liveness), and the ranges of the indices in `TypeOK`.

Of `SharedBounds`: `AnImprovementIsKept` (while a solution improves on the best
one, one that does is within all bounds that are shared and within those of
every worker), `ProofsAreSound`, `NoChangeIsMissed` (a variable that is in no set
of changes is known to everybody).

Of `SharedTree`:

* `NoSolutionIsLost`: what workers close, imply and bound, each from a path it read
  some time ago, never covers a solution that improves on the best one.
* `PathsAreSound`: what a level of a path says follows from its decisions alone,
  also after levels were merged.
* `PathsFollowTheTree`: a path that is valid leads from the root to a node of the
  tree as it is now, whatever others closed, implied and restarted.
* `LeavesAreShared`: an open leaf is unassigned or has exactly one worker.
* `SplitsAreCounted`: a counter kept by increments agrees with the tree.
* `SomeLeafCanBeSplit`: the rules on its shape never refuse every leaf, while leaves
  are closed and implied at any depth.
* `TypeOK` says where implications may be kept, which `AssignLeaf` relies on.

Of `SatSolver`:

* `DatabaseIsEquivalent`: clauses that are learned, replaced, forgotten, shortened
  and moved to the implications always have the solutions of the problem.
* `NothingIsLeftToPropagate`: with all propagators done no clause is unit or false,
  although watches are only repaired lazily and never moved back.
* `ReasonsExplainTheTrail`: conflict analysis reads what is still there.
* `LearnedClausesAreNew`: a learned clause contains no clause that is there, without
  which learning would not be progress.
* `AnswersAreRight`: the refinement of `SatOracle`, with sound cores.
* `EveryQuestionIsAnswered`: liveness.

Of `SubsolverLoop`: `NoTaskOfAFreedSubsolver`, `OneTaskOfAFullSolver`,
`EveryQueuedTaskHasAThread`, `BatchesDoNotOverlap`,
`AllIsSynchronizedAtTheEnd`, `SearchDoneEndsLoop` (liveness).

### 3.3 Fairness

*Search.*  Weak fairness of the main thread, which polls every 100 ms and never
waits for ever while it could go on, and of the steps a worker is in the middle
of.  A worker comes back to level zero again and again, by restarts, and imports
there (`SF` of `ImportLowerBound`); it sees at once that its window is empty
(`SF` of `ProveInfeasible` under `lb > ub`); and its task ends some time after it
was told to, by the limit or at the end of its chunk (`SF` of `FinishTask`),
since every engine polls the limit.  Nothing makes a worker find a solution or a
bound, and nothing makes the time limit be reached: what ends a search that was
solved is the program itself.

*Clauses.*  The main thread synchronizes again and again; a worker that searches
comes back to level zero (`SF` of `GetUnseenBinaryClauses`) and goes through the
batches it is given (`WF` of `GetUnseenClauses`).

*Shared tree.*  None: nothing makes a worker explore its subtree to the end.

*SAT.*  `WF_vars(Next)`: a single thread that goes on.  The bounds on restarts and
clean ups are those of the code in spirit: it restarts and cleans up after more and
more conflicts.

*Loop.*  Every thread is run by the operating system (`WF`), but a task is only
assumed to return once the search is done (`WF` of `search_done /\ RunTask`).  A
thread that wants a mutex which the main thread takes and releases again and
again gets it (`SF` of `LeaveTask`).  Spurious wake-ups are not assumed, and are
not needed: the notification is.

## 4. Findings

Each is the counterexample of a run that checks what a comment or a document of
the repository says.

1. `search_hinted`.  In an interleaved search a complete hint sets the status to
   `FEASIBLE` before the search but stays in `new_solutions_`; when the limit is
   reached before the first synchronization, the response is `FEASIBLE` without
   a solution (`sat/cp_model_solver.cc:2974`).
2. `clauses_interleaved`.  Two tasks of a batch add binary clauses to a common
   array; the order, and whether a worker is given its own clause again, depend
   on which comes first (`sat/synchronization.cc:1277`).
3. `clauses_first_solution`.  The flag `may_terminate_early` of `RegisterNewId`
   is never set (`sat/cp_model_solver.cc:1131`), so that the batches of
   first-solution workers are waited for before pending batches are merged.
4. `bounds_parallel_lns`.  `FixGivenVariables` reads the domains under one mutex
   and the components under another (`sat/cp_model_lns.cc:1131`).  When the main
   thread makes a variable constant in between, a variable is listed as
   independent that is not, and is fixed to what is best for an old value of the
   other one.  `OPTIMAL` is then reported although a better solution exists.
5. `sat_late_clause`.  `AddClauseDuringSearch` promises to work at any level, but
   keeps literals that are false at level zero (`sat/sat_solver.cc:160`).  A clause
   that is unit there is enqueued at the current level only; after a backjump to
   level zero its two watched literals are no longer both free, and
   `RemoveFixedLiteralsAndTestIfTrue` takes an assigned watch to mean that the
   clause is true and deletes it.  The answer is `FEASIBLE` with a false clause.

Two more deviations, which the models have the steps for and no run is spent on.
With `relative_gap_limit` above 1 a better solution may be outside of the gap that
the worse one was within, and `NewSolution` writes `FEASIBLE` over `OPTIMAL`
(`sat/synchronization.cc:678`): the reason for the assumption `NarrowGaps` below.
And in an interleaved search a neighborhood that is the whole problem stops the
time limit of the tasks that run beside it (`sat/cp_model_solver.cc:1680`), whose
results then depend on timing.

## 5. Proofs

Six modules hold theorems about the models, `SatLemmas` the lemmas on operators for one
of them, and `SetLemmas` those on sets that four of them share, for every value of the
constants that the assumptions allow: every set of workers, solutions, clauses, variables or threads, every
objective, domain, symmetry and configuration.

| Theorem | Property |
|---|---|
| *`CpSatSearchProofs`* | |
| `TypeCorrect` | `TypeOK`, with the contents of the pools |
| `BoundsCover` | `BoundsInv` |
| `LowerBoundsAreGlobal` | `LowerBoundIsGlobal` |
| `NewSolutionAssertionsHold` | `ImprovingSolutionsRespectBounds` |
| `InterleavedSearchIsDeterministic` | `WorkersSeeOnlySynchronizedState` |
| `BestObjectiveIsBestReported` | `BestIsBestReported` |
| `VerdictsAreSound` | `VerdictIsSound` |
| `ProofsNeverMeetASolution` | `NoProofAgainstASolution` |
| `ResponsesAreConsistent` | `ResponseIsConsistent` |
| `SearchImplementsOptimizer` | `ImplementsOptimizer` |
| *`SharedClausesProofs`* | |
| `TypeCorrect` | `TypeOK` |
| `BatchesBeingReadAreKept` | `BatchBeingReadIsKept` |
| `BatchesAreInOrder` | `BatchesAreReadInOrder` |
| `BinaryClausesAreGivenOnce` | `BinaryClausesAreExact` |
| *`SharedBoundsProofs`* | |
| `TypeCorrect` | `TypeOK` |
| `NoChangesAreMissed` | `NoChangeIsMissed` |
| `AnImprovementIsAlwaysKept` | `AnImprovementIsKept` |
| `ProofsAreAlwaysSound` | `ProofsAreSound` |
| *`SharedTreeProofs`* | |
| `TypesHoldAlways` | `TypeOK` |
| `SolutionsAreKept` | `NoSolutionIsLost` |
| `PathsStaySound` | `PathsAreSound` |
| `PathsStayInTheTree` | `PathsFollowTheTree` |
| `LeavesStayShared` | `LeavesAreShared` |
| `SplitsStayCounted` | `SplitsAreCounted` |
| `SomeLeafIsSplit` | `SomeLeafCanBeSplit` |
| *`SubsolverLoopProofs`* | |
| `TypeCorrect` | `TypeOK` |
| `QueuedTasksHaveThreads` | `EveryQueuedTaskHasAThread` |
| `BatchesAreSeparate` | `BatchesDoNotOverlap` |
| `FreedSubsolversHaveNoTask` | `NoTaskOfAFreedSubsolver` |
| `FullSolversHaveOneTask` | `OneTaskOfAFullSolver` |
| `AllIsSynchronized` | `AllIsSynchronizedAtTheEnd` |
| *`SatSolverProofs`* | |
| `SolverIsOK` | `SolverOK` |
| `TypesAreOK` | `TypeOK` |
| `ReasonsExplain` | `ReasonsExplainTheTrail` |
| `SearchIsOK` | `SearchOK` |
| `LearningIsSound` | `SolutionsAreKept`: one half of `DatabaseIsEquivalent`, and the answer `INFEASIBLE` |
| `SolverIsComplete` | `SolverOK /\ CompleteOK`, with `ClausesAreNotLate` |
| `PropagationIsComplete` | `NothingIsLeftToPropagate`, with `ClausesAreNotLate` |
| `LearnedAreNew` | `LearnedClausesAreNew`, with `ClausesAreNotLate` |
| `NothingIsLost` | `NothingIsForgotten`, with `ClausesAreNotLate` |
| `DatabaseStaysEquivalent` | `DatabaseIsEquivalent`, with `ClausesAreNotLate` |
| `QuestionIsKept` | `QuestionOK` |
| `CoresAreRight` | `CoreIsRight` |
| `SolverImplementsOracle` | `AnswersAreRight`, with `ClausesAreNotLate` |

The assumptions of `CpSatSearch` are `ManagerAssumption` and `SearchAssumption`:
objectives are integers inside the domain, the two infinities lie outside of it, gap
limits are not negative, and a configuration is one that the parameters can give.
They do not bound any number.  `SearchImplementsOptimizer` also assumes `NarrowGaps`:
no relative gap limit is above 1, as it is false otherwise (section 4).
`ResponsesAreConsistent` assumes `NoHintWhenInterleaved`: a search that starts from a
hint is one in which workers synchronize by themselves, as it is false otherwise
(finding 1); all searches that are not interleaved are among those it is about.
`ClausesAssumption`, `PoolAssumption` and `LoopAssumption` are the types of the
constants, as is `SatAssumption` (finitely many variables; clauses, late clauses and
questions of any number and size), and so is `TreeAssumption`, which also says that there are finitely many
workers and solutions and that literals are only shared when the parameters say so;
`MaxBatches` and `MaxTasks` may be any numbers.  `BoundsAssumption` says
what a problem is: solutions within the domain; an exchange of values between two
solutions that no constraint can tell gives two solutions, with the same sum of
objectives, as the objective is linear (`FollowsScopes`); orbits that do not overlap,
whose variables have the same domain and are mapped to one another by symmetries.
Two theorems of `SharedBoundsProofs` also assume `NoParallelNeighborhoods`: a search
with neighborhoods is interleaved, as they are false otherwise (finding 4).

**The argument for `CpSatSearch`.**  None of the properties is inductive.  The difficulty is that a
worker's window `lb..ub` is a copy of bounds the manager had at two different
times.  `BoundsInv` says what is still true of such a copy: it covers every
solution that would improve on the best one *now*.  As the best objective only
decreases, a window that covered the improving solutions once does so for ever,
so that staleness is harmless; and each bound that a worker proves from a
covering window covers again.  The manager takes the minimum of a proved bound
and the best objective (`UpdatedLb`), which turns "no improving solution is
below" into "no solution is below": `LowerBoundIsGlobal`.

`VerdictInv` adds `StatusInv` (the status says whether anything was reported) and
the two verdict properties, which need each other: a proof by crossing bounds is
a proof of optimality only because the best objective is that of the best
solution reported.  A verdict by gap limit stays true while the best objective
is the same, as the lower bound only rises: `GapIsMonotone`.  When the best
objective changes, `NewSolution` writes the status again.

**The response.**  `ResponseIsConsistent` is about a pool that nobody may have
synchronized.  `ResponseInv` says where the best solution is: in one of the two vectors
of the pool, and in the one that is read as soon as it is reported when workers
synchronize by themselves; otherwise nothing is reported before the main thread waits
for the first time, nobody works when it does not wait, and nothing is left to merge
when it goes on.  Merging keeps the first of what it merges (`MergedHasRank`), which is
as good as the best one reported by `BestIsBestReported`.

**The refinement.**  What is left to show for `SearchImplementsOptimizer` is that
no claim is taken back.  A better solution could only do that by leaving the gap
that the worse one was within; with a limit of at most 1 the tolerated gap shrinks
no faster than the objective (`RelativeGapShrinks`), so that what was within it
stays (`ImprovementKeepsOptimal`), provided that the lower bound of the manager is
at least that of the domain when the gap is tested (`BoundIsLoaded`).  Each action
then maps to a `Report`, a `Prove` or a stutter, and the claims of the state it
leads to are true by the invariants above.

Each proof has one lemma per operation of the manager, used by one step per
action of the search.

**The argument for `SharedClauses`.**  The index of a worker into the deque is moved
by whoever erases a batch, so that by itself it says nothing from one step to the
next.  Counted with the batches that were erased it is one more than the number of
the last batch the worker was given (`IndexIsLastRead`): erasing moves both sides,
reading increments both.  It follows that batches come in order, and that what is
erased was read by all.  A worker that has not registered is skipped by that
argument, and needs `IndicesOfNewWorkers`.  For binary clauses, the array has no
duplicates (`AddedOnce`) and what a worker was given is among its first entries, up
to its index (`ImportedAreProcessed`), so that the next ones are new.

**The argument for `SharedBounds`.**  `NoChangeIsMissed` only needs that boxes
shrink.  `AnImprovementIsKept` is far from inductive: that *one* improving solution
is within all bounds says nothing of what a worker deduces next, or of which one a
fixing leaves.  The invariant has four parts.  A solution that improves and is within
the bounds of the manager is *kept*; for every solution that improves there is one
that is kept and not worse (`SomeIsKept`), which survives whatever solution is found
next; all that are kept are within the synchronized bounds and every box
(`KeptByAll`), so that what a worker deduces and exports never removes one; and with
symmetry, when nothing is fixed, all that improve are kept (`SymmetriesKeepAll`),
because variables of an orbit take each other's values in solutions that are not
worse (`OrbitsExchange`).  A fixing removes solutions that are kept.  That each has a
replacement is `FragmentsExchange`: the optimal solution of the fragment exchanges
its values on the independent part with any solution that is kept; no constraint can
tell, since the variables that the graph takes for constants have the same value in
both; and the fragment's optimality bounds what the exchange may cost.  This is where
the domains and the graph must have been read of the same state
(`FragmentsFollowTheGraph`), which the batches of an interleaved search guarantee
(`TasksEndFirst`) and a parallel one does not.

**The argument for `SharedTree`.**  `NoSolutionIsLost` compares the tree with the
solutions, but what changes the tree is the path of a worker, read long ago, from
which other levels were removed since.  So the invariant (`Inv`) speaks of each on
its own, and of how they meet.

A *good* tree (`GoodTree`) has the shape of a binary tree whose nodes follow their
parents and whose siblings decide a literal either way; what is below a closed node
is closed; the nodes that keep trail info are exactly the root and those neither
closed nor implied; and what it says of a node holds for the solutions of that node
that still improve.  A *good* path (`PathOK`) has levels that start one after the
other, what it says of a level holds below the decisions up to that level
(`PathsAreSound`), and the literal of *every* entry up to the end of a level, not only
that of its decision, follows from those decisions (`TrailFollows`).  The last part is
what the properties do not say and everything needs: a level that was removed leaves
its literal on the trail, and it is because that literal follows from the decisions
left that the solutions of a node are below the level that its entry now belongs to,
and that the last node has all solutions below the last level (`SolutionsOnPath`).  By
the first, what a path brings is true of the nodes it is brought to; by the second,
what a worker proves of its decisions closes or bounds the right node.

Every operation is then a function from good trees and paths to good ones:
`WithPathFacts` and `ChangedTreeFacts` (the latter from one lemma on each pass of
`ProcessNodeChanges`: `ClosedWithFacts`, `CloseNodesFacts`, `MoveImplicationsFacts`,
`UpdateBoundsFacts`) for trees; `PushLevelOK`, `SetLevelImpliedOK`,
`AddImplicationsOK`, `RaiseObjectiveLbOK` and `PathToFacts` for paths.  That a closed
node has no improving solution when its two children are closed, or when a node above
it is, and that implications may move up across implied nodes, are the facts about
solutions behind them (`SolutionsOfSiblings`, `SolutionsOfTrailInfo`).  As nodes are
only added, never moved, a path of the tree stays one (`InTreeGrows`); after a restart
all its identifiers are below the offset (`IsStale`), and it is cleared before it is
used.  A better solution only removes solutions from consideration
(`FewerImproving`).  For the leaves, `LeavesInv` says which worker is *at* an open
leaf, and `CountInv` counts without the exception for a closed root that
`SplitsAreCounted` makes.

`SomeLeafCanBeSplit` is about the shape of the tree as a whole.  A rule that refuses a
leaf says that the leaf is deep, has many discrepancies, or a bound above that of the
root; that *every* leaf is so has to contradict the number of leaves.  A second invariant
(`FairInv`) describes the shape: below an open node, the implied nodes are exactly those
with a closed sibling (`SiblingsAreImplied`), closed nodes have the greatest bound, and
an open node that was split has an open child whose bound is not above its own
(`LeadsExcept`: in the middle of `ProcessNodeChanges` the parents of what was just
closed are the exception, until `UpdateBounds` has visited them).  For `OBJECTIVE_LB` and
`FIRST_PROPOSAL` this gives the leaf (`SomeLeafLeads`).  For the other two it makes the
open nodes a tree in which an only child adds nothing to the depth, and of two children
both add one level and exactly one adds a discrepancy.  A node then has at least as many
open leaves as it weighs, for any weights that an only child keeps and two children
share (`LeavesOfWeight`, `LeavesOfMeasure`): weights that double up to a depth
(`PowerWeights`), or that grow by the numbers of Fibonacci up to what
`MaxAllowedDiscrepancyPlusDepth` returns (`FibWeights`).  If all leaves were refused, all
of them would weigh 1 and the root as much as the leaves that are wanted, while
`CountInv` says that there are fewer as long as splits are wanted.  The hypothesis,
`BalanceIsPossible`, is that a balanced tree has a tolerance above 0 (its default is 1)
or a power of two of leaves.  Without it the rule does refuse all leaves: with 3 wanted
and no tolerance, both that the first split makes.

*Ancestors*, the closing of parents, bounds and the path to a leaf are defined by
recursion on the tree.  The induction theorems of the library take an operator, which
the provers cannot instantiate; `SetLemmas` derives from the least element of a set of
numbers an induction on *sets* (`SetInduction`), and from it that a recursive function
is what its equation says when the value at a number only depends on smaller ones
(`UpwardRecursion`), or on larger ones (`DownwardRecursion`).  `AncestorsDefined`,
`ClosedWithDefined` and `PathToDefined` apply it.

**The argument for `SubsolverLoop`.**  `num_in_flight` is incremented by the main
thread before it generates a task and decremented by a thread after the task has
returned, so that it agrees with no single variable.  `CountInv` says what it counts
at each point of the main thread: tasks in the queue, tasks still to be scheduled,
threads at work, and the task that is being generated.  With it come the room for one
more task that the parallel loop has found when it polled, and that nothing is left
once it decides to end.  `SubsolverCountInv` says the same of each subsolver, from
which a subsolver that is freed has no task anywhere; a full solver is taken for
completed only when it has none (`UniqueInv`); and once no task is left, results that
are not synchronized are those of subsolvers the main thread has still to call
(`SyncedInv`).

**The argument for `SatSolver`.**  A reason is an index into the clauses, and a watcher
another one, while clauses are reordered by every scan of watchers, shortened when
variables are fixed, detached when they are subsumed or forgotten, and the trail is cut
under all of them.  `DatabaseOK` says how the four arrays fit: a trail has each variable
once, in the order of levels; an attached clause has three distinct literals at least, and
exactly its first two have a watcher of it; a blocking literal is in the clause or false
for good; no literal implies itself or its negation; and each entry of the trail is
explained by what its type says (`EntryIsExplained`), where the clause of an entry at
level zero may be gone.  Each operator of the propagators keeps it.  A clause is only
reordered by a scan that found its other watched literal not true, so that it is no
reason yet (`NoReasonYet`); it is shortened at level zero and only when neither watched
literal is assigned (`ShrunkClause`); a forgotten clause is no reason because a reason
has what it propagated in front (`ForgottenAreNotReasons`); and a subsumed one is the
reason of no entry below the level of the conflict (`MayBeSubsumed`), all of which the
backjump leaves (`BackjumpIsOK`).

The analysis of a conflict is followed down the trail (`ExpansionOK`): marked variables
are assigned, those pending are of the highest level and, while there is more than one,
below the place reached, so that exactly one is left at the end (`FirstUIPIsOK`).  All
other literals are false below that level, each once, which minimisation keeps
(`ShortenedIsOK`).  Hence what is learned has one free literal after the backjump, the
first one, and of the others the second watched one is of the highest level
(`WatchedOrderFacts`), so that it may be attached and propagate.  The loops are recursive
functions, each of which the lemmas on recursion define (`InspectionsLoop` and the nine
after it).

*That learning is sound* is a second invariant (`SearchOK`) on top of that one.
`KnownOK` says of each solution of the problem that it satisfies the clauses, the
implications and what is fixed (`Models`), and the failing clause of a conflict unless
that comes from the assumptions.  What is learned is the last of a chain of clauses
each of which follows: the marks of `ComputeFirstUIPConflict` stand for a clause that
every model of the database satisfies, one resolution for each entry of the trail that
is expanded (`ExpansionFollows`).  This only holds when no *decision* is expanded, as a
decision has no reason to resolve with, and that is what the other part of the invariant
is for: from the first level above the assumptions on, the decision is the first entry
of its level (`LevelsOK`), so that it is the last one that the expansion can reach, when
one pending variable is left.  A literal that minimisation drops is implied by the
others: its reason has only literals that are kept, or dropped for the same cause, which
an induction along the trail turns into a resolution with each (`SimpleFollows`,
`RecursiveFollows`; a literal dropped by `MINIMIZE_CONFLICT_FIRST` is at level zero or
implied by those that are kept, `FirstFollows`).  A model of the database is then still
one after a clause was learned, subsumed, forgotten, shortened or moved to the
implications, as each of these keeps or weakens what the database says, or adds what
follows of it; and `INFEASIBLE` is answered for a conflict at level zero, which no model
satisfies.

*That propagation is complete* is a third invariant (`CompleteOK`).  `SettledTo` says
what each propagator has done up to its index: no literal of the graph that is true so
far implies one that is not true, and the clauses whose watched literal is false so far
have a true blocking or other literal that is not of a later level.  The level in this
condition is what makes it hold after a backjump that repairs nothing: what satisfied
the clause is still there whenever what falsified the watched literal is.  So the
invariant is stated up to a level (`SettledLevel`): of the whole trail when there is no
conflict, and of the levels below the last one otherwise, as a propagator stops in the
middle of its list when it fails.  Entries that are still to be propagated are at the
current level, and a backjump goes below it, to a level where everything is settled.
What is learned fits there: it is attached with a free literal and the last of the false
ones, or with two that are free.  With both propagators done, a clause that is false or
unit would have a false watched literal and nothing that satisfies it
(`SettledPropagates`).  That a learned clause is new follows: at the level of the
backjump all literals of the learned clause but the first are false and that one is
free, so that a clause that was part of it would have propagated or failed there
(`NothingInside`).

*That nothing is forgotten* is a fourth invariant (`NothingIsForgotten`).  A clause that
may be removed says nothing for certain, so what has to imply the problem is the rest of
the database (`CoreModels`): the clauses that are not removable, the implications and
what is fixed.  A clause is subsumed only by a learned one whose literals it all has
(`LearnedSubsumes`), and `IsRedundant` makes the learned one removable only if all that
it takes the place of were.  A clause that is shortened
keeps its free literals, and those it loses are false at level zero; one that is moved
to the implications says the same there; and a removed variable leaves the graph only
where it is fixed.  The remaining case is `IsAlwaysTrue`, where a clause is detached
because a *watched* literal is assigned at level zero, whichever way: that it is then
true is not a matter of the simplification but of the propagation before it, so the proof
needs `CompleteOK`, and with it `ClausesAreNotLate`.

*The answers.*  `QuestionOK` relates the trail to what was asked: as long as there are
assumptions, the decisions up to level one are among them, and above level zero all of
them are on the trail by level one; once there are none left, all are true at level
zero.  Backjumps may go to level zero, from where the assumptions are taken again, and
it is for this that `StillAssumed` may only drop them when nothing was decided.  A leaf
is then a solution in which the assumptions hold: the trail is an assignment
(`FullTrail`), with nothing left to propagate it satisfies the database
(`LeafSatisfies`), which is equivalent to the problem.  A core is what
`GetDecisionsFixing` finds going down the trail from the conflict: what it has marked is
closed under reasons (`FixingOK`), so that a model of the database in which the
decisions among them hold has all of what they propagated, up to the false literals it
started from (`DecisionsFix`), and no solution contains them.  Each action of the solver
is then a step of `SatOracle` or changes nothing that it sees (`NextIsOracleStep`).
`CoresAreRight` and `LearningIsSound` need no hypothesis: `ASSUMPTIONS_UNSAT` and
`INFEASIBLE` are right even with late clauses.  Only `FEASIBLE` is not.

`ClausesAreNotLate` is the hypothesis that no configuration has `any_level`.  With it a
clause that is added while levels are open is one that would not have propagated at a
lower level (`LateFor`).  Without it the property is false, as the run `sat_late_clause`
shows: finding 5 is that the code does not ensure it.

**Only model-checked**: liveness (`EveryClauseIsShared`, `EveryQuestionIsAnswered`,
`SearchDoneEndsLoop`, `SolvedSearchEnds`), which, with what rests on `ENABLED`, is out of reach of the prover.  All
safety properties of the runs, and both refinements, are proved.

## 6. Plan

The thread pool and the solution pool were written first, then the manager, the
search and its proofs, the clauses, the loops and the bounds: the verdict is what a
user relies on, and everything else feeds it.  The shared tree, the SAT core and the
two abstract specifications came next, then the proofs about the tree and the SAT core.
What is left, in this order:

1. The running maximum of the time limit (`util/time_limit.h`), as a numeric model of
   when a check is made, and nested limits.
2. The integer trail with its level-zero bounds and lazy literals (`sat/integer.cc`),
   next to `SatSolver`.
3. The demon queue of the original constraint solver; bidirectional Dijkstra with its
   two threads; the interrupters of MathOpt with their callbacks.

**Not modelled, and why.**  Most of the repository is sequential rewriting of large
data (presolve, propagators, routing heuristics), numerical code in floating point
(GLOP, PDLP, LP relaxations) or thin translation: their difficulty is in the data,
which explicit-state checking does not reach, and the properties worth stating of
them are those of each rewriting rule.  `UniqueClauseStream` is a bounded random
sample whose contents affect no answer.  The components of section 1.2 say which is
which.
