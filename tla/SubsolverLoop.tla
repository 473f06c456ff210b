---------------------------- MODULE SubsolverLoop ----------------------------
(***************************************************************************)
(* The scheduling loops of ortools/sat/subsolver.cc: SequentialLoop(),     *)
(* DeterministicLoop() and NonDeterministicLoop().  The main thread        *)
(* synchronizes the subsolvers, frees those that are done, and gives the   *)
(* tasks of the others to a ThreadPool.                                    *)
(*                                                                         *)
(* A task is named by the subsolver that generated it.  The scores of      *)
(* NextSubsolverToSchedule() are left out: whoever has a task may be next. *)
(***************************************************************************)
EXTENDS ThreadPool, FiniteSets

CONSTANTS
  FullSolvers,      \* FullProblemSolver: one task at a time, freed when done
  Order,            \* all the subsolvers, in creation order
  MaxTasks,         \* bound: the tasks generated in one search
  Configurations    \* which loop is called, and with what

ConfigurationOK(c) ==
  /\ c.loop \in {"sequential", "deterministic", "non_deterministic"}
  /\ c.threads \subseteq Threads           \* num_threads of them
  /\ c.loop = "sequential" <=> c.threads = {}
  /\ c.loop = "non_deterministic" => Cardinality(c.threads) > 1
  /\ c.split_in_chunks \in BOOLEAN         \* the full solvers are interleaved
  /\ c.loop = "deterministic" => c.split_in_chunks
  /\ c.loop = "non_deterministic" => ~ c.split_in_chunks
  /\ c.batch_size \in Nat \ {0}
  /\ c.max_num_batches \in Nat

Subsolvers == {Order[i] : i \in 1..Len(Order)}

(* Synchronization points are subsolvers without tasks.  The other ones    *)
(* that are not full solvers, as LnsSolver, run many tasks at a time.      *)
ASSUME LoopAssumption ==
  /\ IsFiniteSet(Threads)
  /\ Order \in Seq(Subsolvers)
  /\ Tasks \subseteq Subsolvers /\ FullSolvers \subseteq Tasks
  /\ MaxTasks \in Nat
  /\ \A c \in Configurations : ConfigurationOK(c)

VARIABLES
  config,
  main,                 \* where the main thread is
  to_synchronize,       \* the subsolvers SynchronizeAll() has still to call
  best,                 \* the subsolver that is scheduled next
  to_run,               \* the tasks not yet given to the pool
  batch_index,
  all_done,             \* "true if no task is pending right now"
  mutex_held,           \* the main thread holds `mutex'
  num_in_flight,        \* also the blocking_counter of a batch
  in_flight,            \* num_in_flight_per_subsolvers
  subsolvers,           \* those that are not reset yet
  search_done,          \* SharedClasses::SearchIsDone()
  completed,            \* full solvers with previous_task_is_completed_
  first_chunk,          \* full solvers with solving_first_chunk_
  task_id,
  body_done,            \* threads whose task has returned, but not the
                        \* function of the loop around it
  results               \* history: subsolvers with the result of a task that
                        \* their Synchronize() has not incorporated

countVars == <<num_in_flight, in_flight>>
solverVars == <<search_done, completed, first_chunk, results>>
batchVars == <<to_run, batch_index>>
mainVars == <<main, to_synchronize, best, batchVars, all_done, mutex_held, task_id>>
vars == <<poolVars, config, mainVars, countVars, subsolvers, solverVars, body_done>>

NonDeterministic == config.loop = "non_deterministic"
Deterministic == config.loop = "deterministic"
NumThreads == Cardinality(config.threads)

MainStates ==
  {"poll", "timeout", "synchronize", "clear", "next", "count", "generate",
   "inline", "schedule", "notify", "batch", "finish",
   "notify_finish", "join", "done"}

Init ==
  /\ config \in Configurations
  /\ PoolInit(config.threads)
  /\ main = IF NonDeterministic THEN "poll" ELSE "synchronize"
  /\ to_synchronize = IF NonDeterministic THEN <<>> ELSE Order
  /\ best = NoTask /\ to_run = <<>> /\ batch_index = 0
  /\ all_done = FALSE /\ mutex_held = FALSE
  /\ num_in_flight = 0 /\ in_flight = [s \in Subsolvers |-> 0]
  /\ subsolvers = Subsolvers /\ search_done = FALSE
  /\ completed = FullSolvers /\ first_chunk = FullSolvers
  /\ task_id = 0
  /\ body_done = {} /\ results = {}

(* The limit is reached, or the problem is found to be solved.             *)
EndSearch ==
  /\ main # "done"
  /\ ~ search_done
  /\ search_done' = TRUE
  /\ UNCHANGED <<poolVars, config, mainVars, countVars, subsolvers, completed,
                 first_chunk, body_done, results>>

-----------------------------------------------------------------------------
(* The top of NonDeterministicLoop(): wait, at most 100 ms, for a thread.  *)

(* Mistake: one task too many.                                             *)
MistakeThreadIsFree == num_in_flight <= NumThreads
ThreadIsFree == num_in_flight < NumThreads

Poll ==
  /\ main = "poll"
  /\ IF ThreadIsFree
     THEN main' = "synchronize" /\ all_done' = (num_in_flight = 0)
     ELSE main' = "timeout" /\ UNCHANGED all_done
  /\ to_synchronize' = Order
  /\ UNCHANGED <<poolVars, config, best, batchVars, mutex_held, task_id,
                 countVars, subsolvers, solverVars, body_done>>

(* SynchronizeAll(), one subsolver after the other, but for those freed.   *)
SynchronizeOne ==
  /\ main \in {"synchronize", "timeout"}
  /\ to_synchronize # <<>>
  /\ to_synchronize' = Tail(to_synchronize)
  /\ results' = results \ ({Head(to_synchronize)} \cap subsolvers)
  /\ UNCHANGED <<poolVars, config, main, best, batchVars, all_done, mutex_held,
                 task_id, countVars, subsolvers, search_done, completed,
                 first_chunk, body_done>>

EndSynchronize ==
  /\ main \in {"synchronize", "timeout"}
  /\ to_synchronize = <<>>
  /\ main' = IF main = "timeout" THEN "poll" ELSE "clear"
  /\ UNCHANGED <<poolVars, config, to_synchronize, best, batchVars, all_done,
                 mutex_held, task_id, countVars, subsolvers, solverVars, body_done>>

(* Mistake: the tasks in flight are not looked at.                         *)
MistakeMayBeFreed(s) == s \in FullSolvers /\ search_done
MayBeFreed(s) == in_flight[s] = 0 /\ s \in FullSolvers /\ search_done

(* "We abort the loop after the last synchronize."                         *)
LastBatch ==
  Deterministic /\ config.max_num_batches > 0
                /\ batch_index >= config.max_num_batches

(* ClearSubsolversThatAreDone(), with `mutex' when there are threads.      *)
Clear ==
  /\ main = "clear"
  /\ subsolvers' = {s \in subsolvers : ~ MayBeFreed(s)}
  /\ mutex_held' = NonDeterministic
  /\ main' = IF LastBatch THEN "finish" ELSE "next"
  /\ UNCHANGED <<poolVars, config, to_synchronize, best, batchVars, all_done,
                 task_id, countVars, solverVars, body_done>>

(* TaskIsAvailable()                                                       *)
TaskIsAvailable(s) ==
  /\ s \in subsolvers \cap Tasks
  /\ ~ search_done
  /\ task_id < MaxTasks
  /\ s \in FullSolvers => /\ s \in completed
                          /\ s \in first_chunk \/ config.split_in_chunks

(* NextSubsolverToSchedule(), which releases `mutex' at its end.           *)
FindTask ==
  /\ main = "next"
  /\ \E s \in Subsolvers : TaskIsAvailable(s) /\ best' = s
  /\ main' = "count"
  /\ mutex_held' = FALSE
  /\ UNCHANGED <<poolVars, config, to_synchronize, batchVars, all_done, task_id,
                 countVars, subsolvers, solverVars, body_done>>

(* Mistake: only what is in flight now counts, synchronized or not.        *)
MistakeAllIsDone == num_in_flight = 0
AllIsDone == all_done

(* "The stopping condition is that we do not have anything else to generate*)
(* once all the task are done and synchronized."                           *)
FindNoTask ==
  /\ main = "next"
  /\ \A s \in Subsolvers : ~ TaskIsAvailable(s)
  /\ main' = CASE NonDeterministic -> IF AllIsDone THEN "finish" ELSE "poll"
               [] Deterministic -> IF to_run = <<>> THEN "finish" ELSE "schedule"
               [] OTHER -> "join"
  /\ num_in_flight' = IF Deterministic THEN Len(to_run) ELSE num_in_flight
  /\ mutex_held' = FALSE
  /\ UNCHANGED <<poolVars, config, to_synchronize, best, batchVars, all_done,
                 task_id, in_flight, subsolvers, solverVars, body_done>>

-----------------------------------------------------------------------------
(* Mistake: a task is only counted when it ends.                           *)
MistakeCountedIn(s) == in_flight
CountedIn(s) == [in_flight EXCEPT ![s] = @ + 1]

(* The task of `best' is counted, generated, and run.                      *)
CountTask ==
  /\ main = "count"
  /\ main' = "generate"
  /\ in_flight' = IF NonDeterministic \/ Deterministic
                  THEN CountedIn(best) ELSE in_flight
  /\ num_in_flight' = IF NonDeterministic THEN num_in_flight + 1 ELSE num_in_flight
  /\ UNCHANGED <<poolVars, config, to_synchronize, best, batchVars, all_done,
                 mutex_held, task_id, subsolvers, solverVars, body_done>>

(* Mistake: a full solver does not note that it has a task.                *)
MistakeStillCompleted(s) == completed
StillCompleted(s) == completed \ {s}

(* The blocking_counter of a batch starts with all its tasks.              *)
GenerateTask ==
  /\ main = "generate"
  /\ task_id' = task_id + 1
  /\ completed' = StillCompleted(best)
  /\ to_run' = Append(to_run, best)
  /\ LET full == Len(to_run') = config.batch_size
     IN /\ main' = CASE NonDeterministic -> "schedule"
                     [] Deterministic -> IF full THEN "schedule" ELSE "next"
                     [] OTHER -> "inline"
        /\ num_in_flight' = IF Deterministic /\ full THEN Len(to_run') ELSE num_in_flight
  /\ UNCHANGED <<poolVars, config, to_synchronize, best, batch_index, all_done,
                 mutex_held, in_flight, subsolvers, search_done, first_chunk,
                 results, body_done>>

(* What the task of s leaves behind when it returns.                       *)
CompleteTask(s) ==
  /\ completed' = completed \cup ({s} \cap FullSolvers)
  /\ first_chunk' = first_chunk \ {s}
  /\ results' = results \cup {s}
  /\ UNCHANGED search_done

(* SequentialLoop() runs the task itself.                                  *)
RunInline ==
  /\ main = "inline"
  /\ CompleteTask(best)
  /\ to_run' = <<>>
  /\ main' = "synchronize"
  /\ to_synchronize' = Order
  /\ UNCHANGED <<poolVars, config, best, batch_index, all_done, mutex_held,
                 task_id, countVars, subsolvers, body_done>>

(* ThreadPool::Schedule(), then its condition_.notify_all().               *)
Schedule ==
  /\ main = "schedule"
  /\ PushTask(Head(to_run))
  /\ main' = "notify"
  /\ to_run' = Tail(to_run)
  /\ UNCHANGED <<config, to_synchronize, best, batch_index, all_done, mutex_held,
                 task_id, countVars, subsolvers, solverVars, body_done>>

NotifyThreads ==
  /\ main \in {"notify", "notify_finish"}
  /\ NotifyAll
  /\ main' = CASE main = "notify_finish" -> "join"
               [] main = "notify" /\ to_run # <<>> -> "schedule"
               [] OTHER -> IF Deterministic THEN "batch" ELSE "poll"
  /\ UNCHANGED <<config, to_synchronize, best, batchVars, all_done, mutex_held,
                 task_id, countVars, subsolvers, solverVars, body_done>>

(* Mistake: the batch is taken to be over when the queue is empty.         *)
MistakeBatchIsOver == tasks = <<>>
BatchIsOver == num_in_flight = 0

(* blocking_counter.Wait()                                                 *)
WaitForBatch ==
  /\ main = "batch"
  /\ BatchIsOver
  /\ in_flight' = [s \in Subsolvers |-> 0]
  /\ batch_index' = batch_index + 1
  /\ main' = "synchronize"
  /\ to_synchronize' = Order
  /\ UNCHANGED <<poolVars, config, best, to_run, all_done, mutex_held, task_id,
                 num_in_flight, subsolvers, solverVars, body_done>>

(* The pool is destroyed, then LaunchSubsolvers() frees what is left.      *)
Finish ==
  /\ main = "finish"
  /\ AskToFinish
  /\ main' = "notify_finish"
  /\ UNCHANGED <<config, to_synchronize, best, batchVars, all_done, mutex_held,
                 task_id, countVars, subsolvers, solverVars, body_done>>

Join ==
  /\ main = "join"
  /\ AllJoined
  /\ main' = "done"
  /\ subsolvers' = {}
  /\ UNCHANGED <<poolVars, config, to_synchronize, best, batchVars, all_done,
                 mutex_held, task_id, countVars, solverVars, body_done>>

MainNext ==
  \/ Poll \/ SynchronizeOne \/ EndSynchronize \/ Clear
  \/ FindTask \/ FindNoTask
  \/ CountTask \/ GenerateTask \/ RunInline
  \/ Schedule \/ NotifyThreads \/ WaitForBatch
  \/ Finish \/ Join

-----------------------------------------------------------------------------
(* The threads.                                                            *)
GetNextTask(t) ==
  /\ TakeTask(t) \/ WaitForTask(t) \/ EndThread(t)
  /\ UNCHANGED <<config, mainVars, countVars, subsolvers, solverVars, body_done>>

WakeForNoReason(t) ==
  /\ WakeUp(t)
  /\ UNCHANGED <<config, mainVars, countVars, subsolvers, solverVars, body_done>>

RunTask(t) ==
  /\ thread[t] = "working" /\ t \notin body_done
  /\ CompleteTask(work[t])
  /\ body_done' = body_done \cup {t}
  /\ UNCHANGED <<poolVars, config, mainVars, countVars, subsolvers>>

CountedOut(s) == [in_flight EXCEPT ![s] = @ - 1]

(* ... and the function around it says so, under `mutex' or not.           *)
LeaveTask(t) ==
  /\ thread[t] = "working" /\ t \in body_done
  /\ ~ mutex_held
  /\ num_in_flight' = num_in_flight - 1
  /\ in_flight' = IF NonDeterministic THEN CountedOut(work[t]) ELSE in_flight
  /\ FinishWork(t)
  /\ body_done' = body_done \ {t}
  /\ UNCHANGED <<config, mainVars, subsolvers, solverVars>>

ThreadNext(t) ==
  GetNextTask(t) \/ WakeForNoReason(t) \/ RunTask(t) \/ LeaveTask(t)

Terminated == main = "done" /\ UNCHANGED vars

Next ==
  \/ MainNext
  \/ EndSearch
  \/ \E t \in config.threads : ThreadNext(t)
  \/ Terminated

Spec == Init /\ [][Next]_vars

(* Nobody is stopped for ever, but a task may run until the search is done.*)
(* `mutex' is taken again and again by the main thread, which sleeps or    *)
(* waits in between: a thread that wants it gets it.                       *)
Fairness ==
  /\ WF_vars(MainNext)
  /\ \A t \in Threads :
       /\ WF_vars(GetNextTask(t))
       /\ WF_vars(search_done /\ RunTask(t))
       /\ SF_vars(LeaveTask(t))

FairSpec == Spec /\ Fairness

-----------------------------------------------------------------------------
InPool == {tasks[i] : i \in 1..Len(tasks)} \cup {work[t] : t \in config.threads}

FlagsOK == all_done \in BOOLEAN /\ mutex_held \in BOOLEAN /\ search_done \in BOOLEAN

MainTypeOK ==
  /\ config \in Configurations /\ main \in MainStates
  /\ to_synchronize \in Seq(Subsolvers) /\ to_run \in Seq(Tasks)
  /\ best \in Tasks \cup {NoTask}
  /\ batch_index \in Nat /\ task_id \in 0..MaxTasks

SolversTypeOK ==
  /\ subsolvers \subseteq Subsolvers /\ results \subseteq Tasks
  /\ completed \subseteq FullSolvers /\ first_chunk \subseteq FullSolvers
  /\ body_done \subseteq config.threads

CountsTypeOK == num_in_flight \in Nat /\ in_flight \in [Subsolvers -> Nat]

TypeOK == PoolTypeOK /\ FlagsOK /\ MainTypeOK /\ SolversTypeOK /\ CountsTypeOK

(* DCHECK(subsolvers[best] != nullptr): a subsolver is never freed while a *)
(* task of it is in the queue or in a thread.                              *)
NoTaskOfAFreedSubsolver == InPool \subseteq subsolvers \cup {NoTask}

(* "No need for mutex since we only run one task at the time": two threads *)
(* are never in a task of the same full solver.                            *)
OneTaskOfAFullSolver ==
  \A s \in FullSolvers : \A t, u \in config.threads :
    /\ work[t] = s /\ t \notin body_done
    /\ work[u] = s /\ u \notin body_done
    => t = u

(* A task never waits for another one to end: a full solver may run until  *)
(* the end of the search, yet every task in the queue has a thread.        *)
EveryQueuedTaskHasAThread ==
  NonDeterministic =>
    Len(tasks) <= Cardinality({t \in config.threads : thread[t] # "working"})

(* "we can't start the task right away since if a task finish before we    *)
(* schedule everything, we will not be deterministic": no task runs while  *)
(* the main thread synchronizes or generates the tasks of a batch.         *)
BatchesDoNotOverlap ==
  Deterministic /\ main \in {"synchronize", "clear", "next", "count", "generate"}
    => InPool \subseteq {NoTask}

(* The loop is left when all tasks are done and synchronized.              *)
AllIsSynchronizedAtTheEnd ==
  main \in {"finish", "notify_finish", "join"}
    => InPool \subseteq {NoTask} /\ results \cap subsolvers = {}

(* Once the search is done, the loop ends and its threads are joined.      *)
SearchDoneEndsLoop == search_done ~> main = "done"
=============================================================================
