----------------------------- MODULE ThreadPool -----------------------------
(***************************************************************************)
(* ThreadPool of ortools/base/threadpool.{h,cc}: threads that take tasks   *)
(* from a queue, a mutex, and a condition variable.                        *)
(*                                                                         *)
(* Nobody calls SetQueueCapacity(): the capacity is 2e9, Schedule() never  *)
(* waits, and capacity_condition_ is left out.                             *)
(*                                                                         *)
(* What happens under mutex_ is one action.  A call of notify_all() is made*)
(* after mutex_ is released, hence is an action of its own: in between,    *)
(* other threads run.  The module has no Next: SubsolverLoop is the one    *)
(* thread that schedules.                                                  *)
(***************************************************************************)
EXTENDS Integers, Sequences

CONSTANTS
  Threads,       \* the threads a pool may have
  Tasks,         \* what it may be given to run
  NoTask         \* nullptr

ASSUME PoolAssumption == NoTask \notin Tasks

VARIABLES
  all_workers,            \* the threads that StartWorkers() started
  tasks,                  \* tasks_
  waiting_to_finish,      \* waiting_to_finish_
  thread,                 \* where each thread is
  work                    \* the task it runs

threadVars == <<thread, work>>
poolVars == <<all_workers, tasks, waiting_to_finish, threadVars>>

(* About to call GetNextTask() or back from wait(); in wait(); at work; the*)
(* function RunWorker() has returned.                                      *)
ThreadStates == {"ready", "waiting", "working", "ended"}

(* StartWorkers()                                                          *)
PoolInit(threads) ==
  /\ all_workers = threads
  /\ tasks = <<>>
  /\ waiting_to_finish = FALSE
  /\ thread = [t \in Threads |-> "ready"]
  /\ work = [t \in Threads |-> NoTask]

PoolTypeOK ==
  /\ all_workers \subseteq Threads
  /\ tasks \in Seq(Tasks)
  /\ waiting_to_finish \in BOOLEAN
  /\ thread \in [Threads -> ThreadStates]
  /\ work \in [Threads -> Tasks \cup {NoTask}]

-----------------------------------------------------------------------------
(* GetNextTask() finds a task.                                             *)
TakeTask(t) ==
  /\ thread[t] = "ready"
  /\ tasks # <<>>
  /\ tasks' = Tail(tasks)
  /\ thread' = [thread EXCEPT ![t] = "working"]
  /\ work' = [work EXCEPT ![t] = Head(tasks)]
  /\ UNCHANGED <<all_workers, waiting_to_finish>>

(* ... or none, and waits.                                                 *)
WaitForTask(t) ==
  /\ thread[t] = "ready"
  /\ tasks = <<>>
  /\ ~ waiting_to_finish
  /\ thread' = [thread EXCEPT ![t] = "waiting"]
  /\ UNCHANGED <<all_workers, tasks, waiting_to_finish, work>>

(* A condition variable may wake up for no reason.                         *)
WakeUp(t) ==
  /\ thread[t] = "waiting"
  /\ thread' = [thread EXCEPT ![t] = "ready"]
  /\ UNCHANGED <<all_workers, tasks, waiting_to_finish, work>>

(* ... or none ever again.                                                 *)
EndThread(t) ==
  /\ thread[t] = "ready"
  /\ tasks = <<>>
  /\ waiting_to_finish
  /\ thread' = [thread EXCEPT ![t] = "ended"]
  /\ UNCHANGED <<all_workers, tasks, waiting_to_finish, work>>

(* The function given to Schedule() returns.                               *)
FinishWork(t) ==
  /\ thread' = [thread EXCEPT ![t] = "ready"]
  /\ work' = [work EXCEPT ![t] = NoTask]
  /\ UNCHANGED <<all_workers, tasks, waiting_to_finish>>

-----------------------------------------------------------------------------
(* Schedule()                                                              *)
PushTask(task) ==
  /\ tasks' = Append(tasks, task)
  /\ UNCHANGED <<all_workers, waiting_to_finish, threadVars>>

(* Mistake: a thread that waits is not woken up.                           *)
MistakeNotifyAll == UNCHANGED poolVars

(* condition_.notify_all()                                                 *)
NotifyAll ==
  /\ thread' = [t \in Threads |-> IF thread[t] = "waiting" THEN "ready"
                                                           ELSE thread[t]]
  /\ UNCHANGED <<all_workers, tasks, waiting_to_finish, work>>

(* ~ThreadPool() asks the threads to finish, then joins them all.          *)
AskToFinish ==
  /\ waiting_to_finish' = TRUE
  /\ UNCHANGED <<all_workers, tasks, threadVars>>

AllJoined == \A t \in all_workers : thread[t] = "ended"
=============================================================================
