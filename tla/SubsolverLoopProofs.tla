------------------------ MODULE SubsolverLoopProofs ------------------------
(***************************************************************************)
(* The loops over the subsolvers, for every number of threads, subsolvers  *)
(* and tasks.  All rests on what the two counters count, in a loop where   *)
(* the main thread counts a task before it generates it and the threads    *)
(* count it out after it has returned: Counted and CountedBySubsolver.     *)
(***************************************************************************)
EXTENDS SubsolverLoop, SequenceTheorems, FiniteSetTheorems, TLAPS

Busy == {t \in config.threads : thread[t] = "working"}
Sequential == config.loop = "sequential"

(* Who has work, of the threads that were started.                         *)
ThreadsInv ==
  /\ \A t \in Threads : thread[t] = "working" <=> work[t] # NoTask
  /\ \A t \in Threads : thread[t] = "working" => t \in config.threads
  /\ body_done \subseteq Busy

(* What `best' is once it is chosen.                                       *)
BestIsAvailable ==
  /\ main \in {"count", "generate"} =>
       /\ best \in Tasks \cap subsolvers /\ task_id < MaxTasks
       /\ best \in FullSolvers => best \in completed
  /\ main = "inline" => best \in Tasks

(* What each loop does with the tasks it generates, and where it goes.     *)
ToRunInv ==
  /\ NonDeterministic => /\ main \notin {"inline", "batch"}
                         /\ to_run = IF main = "schedule" THEN <<best>> ELSE <<>>
  /\ Deterministic => /\ main \notin {"poll", "timeout", "inline"}
                      /\ main = "schedule" => to_run # <<>>
                      /\ main \notin {"next", "count", "generate", "schedule", "notify"} =>
                           to_run = <<>>
  /\ Sequential => /\ main \in {"synchronize", "clear", "next", "count", "generate", "inline",
                               "join", "done"}
                   /\ to_run = IF main = "inline" THEN <<best>> ELSE <<>>
                   /\ tasks = <<>>

FlowInv == PoolTypeOK /\ MainTypeOK /\ SolversTypeOK /\ ThreadsInv /\ BestIsAvailable /\ ToRunInv

-----------------------------------------------------------------------------
(* A configuration is one of the three loops; only the sequential one has  *)
(* no thread.                                                              *)
LEMMA ConfigurationFacts ==
  ASSUME config \in Configurations
  PROVE  /\ config.loop \in {"sequential", "deterministic", "non_deterministic"}
         /\ config.threads \subseteq Threads /\ IsFiniteSet(config.threads)
         /\ config.loop = "sequential" <=> config.threads = {}
         /\ config.batch_size \in Nat \ {0}
<1>1. ConfigurationOK(config)
  BY LoopAssumption
<1>2. IsFiniteSet(config.threads)
  BY <1>1, LoopAssumption, FS_Subset DEF ConfigurationOK
<1> QED
  BY <1>1, <1>2 DEF ConfigurationOK

\* FlagsOK holds throughout.
LEMMA FlagsInvariant == Spec => []FlagsOK
<1>1. Init => FlagsOK
  BY DEF Init, FlagsOK
<1>2. FlagsOK /\ [Next]_vars => FlagsOK'
  <2> SUFFICES ASSUME FlagsOK, [Next]_vars PROVE FlagsOK'
    OBVIOUS
  <2> USE DEF FlagsOK, mainVars, solverVars
  <2>1. CASE UNCHANGED vars
    BY <2>1 DEF vars
  <2>2. CASE MainNext
    BY <2>2 DEF MainNext, Poll, SynchronizeOne, EndSynchronize, Clear, FindTask, FindNoTask,
       CountTask, GenerateTask, RunInline, CompleteTask, Schedule, NotifyThreads, WaitForBatch,
       Finish, Join, NonDeterministic
  <2>3. CASE EndSearch
    BY <2>3 DEF EndSearch
  <2>4. ASSUME NEW t \in config.threads, ThreadNext(t) PROVE FlagsOK'
    BY <2>4 DEF ThreadNext, GetNextTask, WakeForNoReason, RunTask, CompleteTask, LeaveTask
  <2> QED
    BY <2>1, <2>2, <2>3, <2>4 DEF Next, Terminated
<1> QED
  BY <1>1, <1>2, PTL DEF Spec

-----------------------------------------------------------------------------
(* The flow of control.                                                    *)

\* FlowInv holds at first.
LEMMA InitFlow == Init => FlowInv
<1> SUFFICES ASSUME Init PROVE FlowInv
  OBVIOUS
<1>1. PoolTypeOK /\ ThreadsInv
  BY ConfigurationFacts, EmptySeq, PoolAssumption
     DEF Init, PoolInit, PoolTypeOK, ThreadStates, ThreadsInv
<1>2. MainTypeOK /\ BestIsAvailable
  BY LoopAssumption, EmptySeq DEF Init, MainTypeOK, BestIsAvailable, MainStates
<1>3. SolversTypeOK
  BY DEF Init, SolversTypeOK
<1>4. ToRunInv
  BY DEF Init, PoolInit, ToRunInv, NonDeterministic, Deterministic, Sequential
<1> QED
  BY <1>1, <1>2, <1>3, <1>4 DEF FlowInv

(* Where the main thread goes next, in each loop.                          *)
LEMMA FindNoTaskGoes ==
  ASSUME FindNoTask
  PROVE  /\ NonDeterministic => main' = IF all_done THEN "finish" ELSE "poll"
         /\ Deterministic => main' = IF to_run = <<>> THEN "finish" ELSE "schedule"
         /\ ~ NonDeterministic /\ ~ Deterministic => main' = "join"
BY DEF FindNoTask, NonDeterministic, Deterministic, AllIsDone

\* Where the driver of each loop goes once a task has been generated.
LEMMA GenerateTaskGoes ==
  ASSUME GenerateTask
  PROVE  /\ NonDeterministic => main' = "schedule"
         /\ Deterministic => main' = IF Len(to_run') = config.batch_size THEN "schedule" ELSE "next"
         /\ ~ NonDeterministic /\ ~ Deterministic => main' = "inline"
BY DEF GenerateTask, NonDeterministic, Deterministic

\* Where the driver goes once it has woken the threads of the pool.
LEMMA NotifyThreadsGoes ==
  ASSUME NotifyThreads
  PROVE  /\ main = "notify_finish" => main' = "join"
         /\ main = "notify" =>
              main' = IF to_run # <<>> THEN "schedule" ELSE IF Deterministic THEN "batch" ELSE "poll"
BY DEF NotifyThreads

\* No step changes the configuration.
LEMMA ConfigurationIsKept == ASSUME [Next]_vars PROVE config' = config
<1> USE DEF mainVars, solverVars, countVars
<1>1. CASE UNCHANGED vars
  BY <1>1 DEF vars
<1>2. CASE MainNext
  BY <1>2 DEF MainNext, Poll, SynchronizeOne, EndSynchronize, Clear, FindTask, FindNoTask,
     CountTask, GenerateTask, RunInline, Schedule, NotifyThreads, WaitForBatch, Finish, Join
<1>3. CASE EndSearch
  BY <1>3 DEF EndSearch
<1>4. ASSUME NEW t \in config.threads, ThreadNext(t) PROVE config' = config
  BY <1>4 DEF ThreadNext, GetNextTask, WakeForNoReason, RunTask, LeaveTask
<1> QED
  BY <1>1, <1>2, <1>3, <1>4 DEF Next, Terminated

(* The main thread only wakes up threads, and pushes the first of to_run.  *)
LEMMA MainKeepsThreads ==
  ASSUME PoolTypeOK, MainTypeOK, ToRunInv, MainNext
  PROVE  /\ PoolTypeOK'
         /\ work' = work /\ body_done' = body_done
         /\ \A t \in Threads : thread'[t] = "working" <=> thread[t] = "working"
         /\ tasks' = IF main = "schedule" THEN Append(tasks, Head(to_run)) ELSE tasks
<1> USE DEF poolVars, threadVars, PoolTypeOK, ThreadStates
<1>1. CASE Schedule
  <2>1. to_run # <<>> /\ to_run \in Seq(Tasks)
    <3>1. config.loop \in {"sequential", "deterministic", "non_deterministic"}
      BY ConfigurationFacts DEF MainTypeOK
    <3>2. main = "schedule"
      BY <1>1 DEF Schedule
    <3>3. <<best>> # <<>>
      OBVIOUS
    <3>4. to_run # <<>>
      BY <3>1, <3>2, <3>3 DEF ToRunInv, NonDeterministic, Deterministic, Sequential
    <3> QED
      BY <3>4 DEF MainTypeOK
  <2>2. Head(to_run) \in Tasks
    BY <2>1
  <2> QED
    BY <1>1, <2>2 DEF Schedule, PushTask
<1>2. CASE NotifyThreads
  BY <1>2 DEF NotifyThreads, NotifyAll
<1>3. CASE Finish
  BY <1>3 DEF Finish, AskToFinish
<1>4. CASE Poll \/ SynchronizeOne \/ EndSynchronize \/ Clear \/ FindTask \/ FindNoTask
  BY <1>4 DEF Poll, SynchronizeOne, EndSynchronize, Clear, FindTask, FindNoTask
<1>5. CASE CountTask \/ GenerateTask \/ RunInline \/ WaitForBatch \/ Join
  BY <1>5 DEF CountTask, GenerateTask, RunInline, WaitForBatch, Join
<1> QED
  BY <1>1, <1>2, <1>3, <1>4, <1>5 DEF MainNext

\* Every step of a thread of the pool keeps the types of the pool's state.
LEMMA ThreadsKeepPool ==
  ASSUME PoolTypeOK, MainTypeOK, NEW t \in config.threads, ThreadNext(t)
  PROVE  PoolTypeOK'
<1> USE ConfigurationFacts DEF poolVars, threadVars, PoolTypeOK, ThreadStates, MainTypeOK
<1>1. CASE TakeTask(t)
  <2>1. Head(tasks) \in Tasks /\ Tail(tasks) \in Seq(Tasks)
    BY <1>1 DEF TakeTask
  <2> QED
    BY <1>1, <2>1 DEF TakeTask
<1>2. CASE WaitForTask(t) \/ EndThread(t) \/ WakeUp(t) \/ FinishWork(t)
  BY <1>2 DEF WaitForTask, EndThread, WakeUp, FinishWork
<1>3. CASE UNCHANGED poolVars
  BY <1>3
<1> QED
  BY <1>1, <1>2, <1>3 DEF ThreadNext, GetNextTask, WakeForNoReason, RunTask, LeaveTask

(* Where to_run and `best' are in each loop.                               *)
LEMMA MainStepFlow ==
  ASSUME FlowInv, MainNext
  PROVE  FlowInv'
<1>1. /\ config' = config
      /\ NonDeterministic' = NonDeterministic /\ Deterministic' = Deterministic
      /\ Sequential' = Sequential
      /\ config.loop \in {"sequential", "deterministic", "non_deterministic"}
  BY ConfigurationIsKept, ConfigurationFacts
     DEF Next, NonDeterministic, Deterministic, Sequential, FlowInv, MainTypeOK
<1>2. /\ PoolTypeOK' /\ work' = work /\ body_done' = body_done
      /\ \A t \in Threads : thread'[t] = "working" <=> thread[t] = "working"
      /\ tasks' = IF main = "schedule" THEN Append(tasks, Head(to_run)) ELSE tasks
  BY MainKeepsThreads DEF FlowInv
<1>3. ThreadsInv'
  BY <1>1, <1>2, ConfigurationFacts DEF FlowInv, ThreadsInv, Busy, MainTypeOK
<1>4. MainTypeOK'
  <2> USE DEF FlowInv, MainTypeOK, MainStates, batchVars
  <2>1. CASE SynchronizeOne
    <3>1. Tail(to_synchronize) \in Seq(Subsolvers)
      BY <2>1 DEF SynchronizeOne
    <3> QED
      BY <2>1, <3>1 DEF SynchronizeOne, mainVars
  <2>2. CASE GenerateTask
    <3>1. best \in Tasks /\ task_id < MaxTasks
      BY <2>2 DEF GenerateTask, BestIsAvailable
    <3>2. Append(to_run, best) \in Seq(Tasks) /\ task_id + 1 \in 0..MaxTasks
      BY <3>1, LoopAssumption
    <3>3. main' \in MainStates
      BY <1>1, <2>2, GenerateTaskGoes DEF NonDeterministic, Deterministic
    <3> QED
      BY <1>1, <2>2, <3>2, <3>3 DEF GenerateTask
  <2>3. CASE Schedule
    <3>1. to_run # <<>>
      BY <1>1, <2>3 DEF Schedule, ToRunInv, NonDeterministic, Deterministic, Sequential
    <3>2. Tail(to_run) \in Seq(Tasks)
      BY <3>1
    <3> QED
      BY <1>1, <2>3, <3>2 DEF Schedule
  <2>4. CASE NotifyThreads
    <3>1. main' \in MainStates
      BY <2>4, NotifyThreadsGoes DEF NotifyThreads
    <3> QED
      BY <1>1, <2>4, <3>1 DEF NotifyThreads
  <2>5. CASE FindNoTask
    <3>1. main' \in MainStates
      BY <1>1, <2>5, FindNoTaskGoes DEF NonDeterministic, Deterministic
    <3> QED
      BY <1>1, <2>5, <3>1 DEF FindNoTask
  <2>6. CASE FindTask
    BY <1>1, <2>6 DEF FindTask, TaskIsAvailable
  <2>7. CASE Poll \/ EndSynchronize \/ Clear \/ CountTask \/ Finish \/ Join
    BY <1>1, <2>7, LoopAssumption DEF Poll, EndSynchronize, Clear, CountTask, Finish, Join
  <2>8. CASE RunInline
    <3>1. <<>> \in Seq(Tasks) /\ Order \in Seq(Subsolvers)
      BY LoopAssumption
    <3> QED
      BY <1>1, <2>8, <3>1 DEF RunInline
  <2>9. CASE WaitForBatch
    <3>1. batch_index' \in Nat
      BY <2>9 DEF WaitForBatch
    <3>2. to_synchronize' \in Seq(Subsolvers) /\ main' = "synchronize"
      BY <2>9, LoopAssumption DEF WaitForBatch
    <3>3. UNCHANGED <<to_run, best, task_id>>
      BY <2>9 DEF WaitForBatch
    <3> QED
      BY <1>1, <3>1, <3>2, <3>3
  <2> QED
    BY <2>1, <2>2, <2>3, <2>4, <2>5, <2>6, <2>7, <2>8, <2>9 DEF MainNext
<1>5. SolversTypeOK'
  <2> USE <1>1, <1>2, LoopAssumption DEF FlowInv, SolversTypeOK, solverVars, BestIsAvailable
  <2>1. CASE SynchronizeOne
    BY <2>1 DEF SynchronizeOne
  <2>2. CASE Poll \/ EndSynchronize \/ Clear \/ FindTask \/ FindNoTask \/ CountTask
    BY <2>2 DEF Poll, EndSynchronize, Clear, FindTask, FindNoTask, CountTask
  <2>3. CASE GenerateTask
    BY <2>3 DEF GenerateTask, StillCompleted
  <2>4. CASE RunInline
    BY <2>4 DEF RunInline, CompleteTask
  <2>5. CASE Schedule \/ NotifyThreads \/ WaitForBatch \/ Finish \/ Join
    BY <2>5 DEF Schedule, NotifyThreads, WaitForBatch, Finish, Join
  <2> QED
    BY <2>1, <2>2, <2>3, <2>4, <2>5 DEF MainNext
<1>6. BestIsAvailable'
  <2> USE DEF FlowInv, BestIsAvailable
  <2>1. CASE FindTask
    BY <2>1 DEF FindTask, TaskIsAvailable, solverVars
  <2>2. CASE CountTask
    BY <2>2 DEF CountTask, solverVars
  <2>3. CASE GenerateTask
    <3>1. main' \in {"schedule", "next", "inline"}
      BY <1>1, <2>3, GenerateTaskGoes DEF NonDeterministic, Deterministic
    <3> QED
      BY <2>3, <3>1 DEF GenerateTask
  <2>4. CASE FindNoTask
    BY <1>1, <2>4, FindNoTaskGoes DEF NonDeterministic, Deterministic
  <2>5. CASE NotifyThreads
    BY <2>5, NotifyThreadsGoes DEF NotifyThreads
  <2>6. CASE Poll \/ SynchronizeOne \/ EndSynchronize \/ Clear
    BY <2>6 DEF Poll, SynchronizeOne, EndSynchronize, Clear
  <2>7. CASE RunInline \/ Schedule \/ WaitForBatch \/ Finish \/ Join
    BY <2>7 DEF RunInline, Schedule, WaitForBatch, Finish, Join
  <2> QED
    BY <2>1, <2>2, <2>3, <2>4, <2>5, <2>6, <2>7 DEF MainNext
<1>7. ToRunInv'
  <2> USE <1>1 DEF FlowInv, ToRunInv, batchVars, Sequential, NonDeterministic, Deterministic
  <2>1. CASE Poll \/ SynchronizeOne \/ EndSynchronize
    BY <1>2, <2>1 DEF Poll, SynchronizeOne, EndSynchronize
  <2>2. CASE Clear \/ FindTask \/ CountTask
    BY <1>2, <2>2 DEF Clear, FindTask, CountTask, LastBatch
  <2>3. CASE FindNoTask
    BY <1>2, <2>3, FindNoTaskGoes DEF FindNoTask
  <2>4. CASE GenerateTask
    <3>1. to_run' = Append(to_run, best) /\ best' = best
      BY <2>4 DEF GenerateTask
    <3>2. Append(to_run, best) # <<>>
      <4>1. Len(Append(to_run, best)) = Len(to_run) + 1 /\ Len(to_run) \in Nat
        BY DEF MainTypeOK
      <4> QED
        BY <4>1
    <3>3. Append(<<>>, best) = <<best>>
      OBVIOUS
    <3>4. main = "generate" /\ tasks' = tasks
      BY <1>2, <2>4 DEF GenerateTask
    <3>5. CASE NonDeterministic
      BY <3>1, <3>3, <3>4, <3>5, <2>4, GenerateTaskGoes
    <3>6. CASE Deterministic
      BY <3>1, <3>2, <3>6, <2>4, GenerateTaskGoes
    <3>7. CASE Sequential
      BY <3>1, <3>3, <3>4, <3>7, <2>4, GenerateTaskGoes
    <3> QED
      BY <3>5, <3>6, <3>7
  <2>5. CASE RunInline
    BY <1>2, <2>5 DEF RunInline
  <2>6. CASE Schedule
    <3>1. to_run' = Tail(to_run) /\ (to_run = <<best>> => Tail(to_run) = <<>>)
      BY <2>6 DEF Schedule, MainTypeOK
    <3> QED
      BY <2>6, <3>1 DEF Schedule
  <2>7. CASE NotifyThreads
    BY <1>2, <2>7, NotifyThreadsGoes DEF NotifyThreads
  <2>8. CASE WaitForBatch \/ Finish \/ Join
    BY <1>2, <2>8 DEF WaitForBatch, Finish, Join
  <2> QED
    BY <2>1, <2>2, <2>3, <2>4, <2>5, <2>6, <2>7, <2>8 DEF MainNext
<1> QED
  BY <1>2, <1>3, <1>4, <1>5, <1>6, <1>7 DEF FlowInv

(* What the threads do is told by who is at work.                          *)
LEMMA ThreadStepFlow ==
  ASSUME FlowInv, NEW t \in config.threads, ThreadNext(t)
  PROVE  FlowInv'
<1> USE ConfigurationFacts, PoolAssumption DEF FlowInv, MainTypeOK
<1>1. /\ t \in Threads /\ UNCHANGED <<config, mainVars, subsolvers>>
      /\ ~ Sequential
  BY DEF ThreadNext, GetNextTask, WakeForNoReason, RunTask, LeaveTask, Sequential
<1>2. PoolTypeOK'
  BY ThreadsKeepPool
<1>3. ThreadsInv'
  <2> USE <1>1 DEF ThreadsInv, Busy, PoolTypeOK, ThreadStates
  <2>1. CASE GetNextTask(t)
    <3>1. CASE TakeTask(t)
      <4>1. Head(tasks) \in Tasks
        BY <3>1 DEF TakeTask
      <4> QED
        BY <2>1, <3>1, <4>1 DEF GetNextTask, TakeTask
    <3>2. CASE WaitForTask(t) \/ EndThread(t)
      BY <2>1, <3>2 DEF GetNextTask, WaitForTask, EndThread
    <3> QED
      BY <2>1, <3>1, <3>2 DEF GetNextTask
  <2>2. CASE WakeForNoReason(t)
    BY <2>2 DEF WakeForNoReason, WakeUp
  <2>3. CASE RunTask(t)
    BY <2>3 DEF RunTask, poolVars, threadVars
  <2>4. CASE LeaveTask(t)
    BY <2>4 DEF LeaveTask, FinishWork
  <2> QED
    BY <2>1, <2>2, <2>3, <2>4 DEF ThreadNext
<1>4. MainTypeOK' /\ ToRunInv'
  BY <1>1 DEF mainVars, batchVars, ToRunInv, NonDeterministic, Deterministic, Sequential
<1>5. SolversTypeOK' /\ completed \subseteq completed'
  <2> USE <1>1 DEF SolversTypeOK
  <2>1. CASE GetNextTask(t) \/ WakeForNoReason(t)
    BY <2>1 DEF GetNextTask, WakeForNoReason, solverVars
  <2>2. CASE RunTask(t)
    <3>1. work[t] \in Tasks
      BY <2>2, <1>1 DEF RunTask, ThreadsInv, PoolTypeOK
    <3> QED
      BY <2>2, <3>1 DEF RunTask, CompleteTask
  <2>3. CASE LeaveTask(t)
    BY <2>3 DEF LeaveTask, solverVars
  <2> QED
    BY <2>1, <2>2, <2>3 DEF ThreadNext
<1>6. BestIsAvailable'
  BY <1>1, <1>5 DEF mainVars, BestIsAvailable
<1> QED
  BY <1>2, <1>3, <1>4, <1>5, <1>6

\* Every step keeps FlowInv.
LEMMA FlowStep == ASSUME FlowInv, [Next]_vars PROVE FlowInv'
<1> USE DEF FlowInv, PoolTypeOK, MainTypeOK, SolversTypeOK, ThreadsInv, Busy, BestIsAvailable,
            ToRunInv, NonDeterministic, Deterministic, Sequential
<1>1. CASE UNCHANGED vars
  BY <1>1 DEF vars, poolVars, threadVars, mainVars, batchVars, solverVars
<1>2. CASE EndSearch
  BY <1>2 DEF EndSearch, poolVars, threadVars, mainVars, batchVars, solverVars
<1> QED
  BY <1>1, <1>2, MainStepFlow, ThreadStepFlow DEF Next, Terminated

\* FlowInv holds throughout.
LEMMA FlowInvariant == Spec => []FlowInv
<1>1. FlowInv /\ [Next]_vars => FlowInv'
  BY FlowStep
<1> QED
  BY <1>1, InitFlow, PTL DEF Spec

-----------------------------------------------------------------------------
(* Sequences: what is in them, and how many times.                         *)
Positions(q, s) == {i \in 1..Len(q) : q[i] = s}

\* Appending to the second of two sequences appends to their concatenation.
LEMMA ConcatWithAppend ==
  ASSUME NEW S, NEW q \in Seq(S), NEW r \in Seq(S), NEW e \in S
  PROVE  q \o Append(r, e) = Append(q \o r, e)
<1> <<e>> \in Seq(S)
  OBVIOUS
<1>1. Append(r, e) = r \o <<e>>
  BY AppendIsConcat
<1>2. q \o r \in Seq(S)
  BY ConcatProperties
<1>3. Append(q \o r, e) = (q \o r) \o <<e>>
  BY <1>2, AppendIsConcat
<1>4. (q \o r) \o <<e>> = q \o (r \o <<e>>)
  BY ConcatAssociative
<1> QED
  BY <1>1, <1>3, <1>4

\* Moving an element from the front of the second sequence to the back of the
\* first leaves the concatenation as it is.
LEMMA ConcatWithMovedHead ==
  ASSUME NEW S, NEW q \in Seq(S), NEW r \in Seq(S), r # <<>>
  PROVE  Append(q, Head(r)) \o Tail(r) = q \o r
<1> DEFINE h == Head(r)
<1>1. h \in S /\ Tail(r) \in Seq(S) /\ <<h>> \in Seq(S)
  OBVIOUS
<1>2. r = <<h>> \o Tail(r)
  <2> DEFINE c == <<h>> \o Tail(r)
  <2>1. /\ c \in Seq(S) /\ Len(c) = 1 + Len(Tail(r))
        /\ \A i \in 1..(1 + Len(Tail(r))) : c[i] = IF i <= 1 THEN <<h>>[i] ELSE Tail(r)[i - 1]
    BY <1>1, ConcatProperties
  <2>2. /\ Len(Tail(r)) = Len(r) - 1 /\ Len(r) \in Nat
        /\ \A i \in 1..Len(Tail(r)) : Tail(r)[i] = r[i + 1]
    BY HeadTailProperties, LenProperties
  <2>3. h = r[1]
    OBVIOUS
  <2>4. ASSUME NEW i \in 1..Len(r) PROVE c[i] = r[i]
    <3>1. CASE i = 1
      BY <2>1, <2>2, <2>3, <3>1
    <3>2. CASE i > 1
      <4>1. i - 1 \in 1..Len(Tail(r)) /\ (i - 1) + 1 = i
        BY <2>2, <3>2
      <4> QED
        BY <2>1, <2>2, <3>2, <4>1
    <3> QED
      BY <3>1, <3>2
  <2> HIDE DEF c
  <2> QED
    BY <2>1, <2>2, <2>4, SeqEqual DEF c
<1>3. Append(q, h) = q \o <<h>>
  BY <1>1, AppendIsConcat
<1>4. (q \o <<h>>) \o Tail(r) = q \o (<<h>> \o Tail(r))
  BY <1>1, ConcatAssociative
<1> QED
  BY <1>2, <1>3, <1>4

\* Taking the first element of the first sequence takes the first element of
\* the concatenation.
LEMMA TailOfConcat ==
  ASSUME NEW S, NEW q \in Seq(S), NEW r \in Seq(S), q # <<>>
  PROVE  /\ q \o r # <<>>
         /\ Tail(q \o r) = Tail(q) \o r
         /\ Head(q) = (q \o r)[1]
<1>1. Tail(q) \in Seq(S) /\ q \o r \in Seq(S)
  BY HeadTailProperties, ConcatProperties
<1>2. q \o r # <<>>
  BY ConcatEqualIffEmpty
<1>3. Tail(q \o r) \in Seq(S) /\ Tail(q) \o r \in Seq(S)
  BY <1>1, <1>2, HeadTailProperties, ConcatProperties
<1>4. /\ Len(q) \in Nat \ {0} /\ Len(r) \in Nat
      /\ Len(q \o r) = Len(q) + Len(r)
      /\ Len(Tail(q)) = Len(q) - 1
      /\ Len(Tail(q \o r)) = Len(q) + Len(r) - 1
      /\ Len(Tail(q) \o r) = Len(q) + Len(r) - 1
  <2>1. Len(q) \in Nat \ {0} /\ Len(r) \in Nat
    BY EmptySeq, LenProperties
  <2>2. Len(q \o r) = Len(q) + Len(r) /\ Len(Tail(q)) = Len(q) - 1
    BY ConcatProperties, HeadTailProperties
  <2>3. Len(Tail(q \o r)) = Len(q \o r) - 1
    BY <1>1, <1>2, HeadTailProperties
  <2>4. Len(Tail(q) \o r) = Len(Tail(q)) + Len(r)
    BY <1>1, ConcatProperties
  <2> QED
    BY <2>1, <2>2, <2>3, <2>4
<1>5. ASSUME NEW i \in 1..(Len(q) + Len(r) - 1)
      PROVE  Tail(q \o r)[i] = (Tail(q) \o r)[i]
  <2>1. Tail(q \o r)[i] = (q \o r)[i + 1]
    BY <1>1, <1>2, <1>4, HeadTailProperties
  <2>2. (q \o r)[i + 1] = IF i + 1 <= Len(q) THEN q[i + 1] ELSE r[(i + 1) - Len(q)]
    BY <1>4, ConcatProperties
  <2>3. (Tail(q) \o r)[i] = IF i <= Len(q) - 1 THEN Tail(q)[i] ELSE r[i - (Len(q) - 1)]
    BY <1>1, <1>4, ConcatProperties
  <2>4. i <= Len(q) - 1 => Tail(q)[i] = q[i + 1]
    BY <1>4, HeadTailProperties
  <2>5. (i + 1) - Len(q) = i - (Len(q) - 1) /\ (i + 1 <= Len(q) <=> i <= Len(q) - 1)
    BY <1>4
  <2> QED
    BY <2>1, <2>2, <2>3, <2>4, <2>5
<1>6. Head(q) = (q \o r)[1]
  <2>1. Head(q) = q[1]
    OBVIOUS
  <2>2. (q \o r)[1] = q[1]
    BY <1>4, ConcatProperties
  <2> QED
    BY <2>1, <2>2
<1> QED
  BY <1>2, <1>3, <1>4, <1>5, <1>6, SeqEqual

\* A subsolver occurs finitely often in a sequence of tasks.
LEMMA PositionsAreFinite ==
  ASSUME NEW S, NEW q \in Seq(S), NEW s
  PROVE  IsFiniteSet(Positions(q, s)) /\ Cardinality(Positions(q, s)) \in Nat
<1>1. IsFiniteSet(1..Len(q))
  BY FS_Interval, LenProperties
<1>2. Positions(q, s) \in SUBSET (1..Len(q))
  BY DEF Positions
<1>3. IsFiniteSet(Positions(q, s))
  BY <1>1, <1>2, FS_Subset
<1> QED
  BY <1>3, FS_CardinalityType

\* Appending a task adds one to the number of tasks of its subsolver.
LEMMA PositionsAfterAppend ==
  ASSUME NEW S, NEW q \in Seq(S), NEW e \in S, NEW s
  PROVE  Cardinality(Positions(Append(q, e), s)) =
           Cardinality(Positions(q, s)) + IF e = s THEN 1 ELSE 0
<1> DEFINE a == Append(q, e)
           n == Len(q)
           P == Positions(q, s)
<1>1. /\ n \in Nat /\ Len(a) = n + 1
      /\ \A i \in 1..n : a[i] = q[i]
      /\ a[n + 1] = e
  BY AppendProperties, LenProperties
<1>2. 1..(n + 1) = (1..n) \cup {n + 1} /\ n + 1 \notin 1..n
  BY <1>1
<1>3. Positions(a, s) = IF e = s THEN P \cup {n + 1} ELSE P
  <2> HIDE DEF a, n
  <2> QED
    BY <1>1, <1>2 DEF Positions, n
<1>4. IsFiniteSet(P) /\ Cardinality(P) \in Nat
  BY PositionsAreFinite
<1>5. n + 1 \notin P
  BY <1>2 DEF Positions
<1> HIDE DEF a, n, P
<1>6. Cardinality(P \cup {n + 1}) = Cardinality(P) + 1
  BY <1>4, <1>5, FS_AddElement
<1> QED
  BY <1>3, <1>4, <1>6 DEF a, P

\* Taking the first task takes one from the number of tasks of its subsolver.
LEMMA PositionsAfterTail ==
  ASSUME NEW S, NEW q \in Seq(S), q # <<>>, NEW s
  PROVE  Cardinality(Positions(Tail(q), s)) =
           Cardinality(Positions(q, s)) - IF q[1] = s THEN 1 ELSE 0
<1> DEFINE n == Len(q)
           P == Positions(q, s) \ {1}
           T == Positions(Tail(q), s)
           f == [i \in T |-> i + 1]
<1>1. /\ n \in Nat \ {0} /\ Len(Tail(q)) = n - 1
      /\ \A i \in 1..(n - 1) : Tail(q)[i] = q[i + 1]
  BY HeadTailProperties, EmptySeq
<1>2. /\ T = {i \in 1..(n - 1) : q[i + 1] = s}
      /\ P = {i \in 2..n : q[i] = s}
  BY <1>1 DEF Positions
<1>3. IsFiniteSet(Positions(q, s)) /\ Cardinality(Positions(q, s)) \in Nat
  BY PositionsAreFinite
<1>4. Tail(q) \in Seq(S)
  BY HeadTailProperties
<1>5. IsFiniteSet(T)
  BY <1>4, PositionsAreFinite
<1> HIDE DEF P, T, n
<1>6. f \in [T -> P]
  BY <1>1, <1>2
<1>7. ASSUME NEW i \in T, NEW j \in T, f[i] = f[j] PROVE i = j
  BY <1>1, <1>2, <1>7
<1>8. ASSUME NEW k \in P PROVE \E i \in T : f[i] = k
  <2>1. k - 1 \in T
    BY <1>1, <1>2
  <2>2. f[k - 1] = k
    BY <1>1, <1>2, <2>1
  <2> QED
    BY <2>1, <2>2
<1> HIDE DEF f
<1>9. f \in Bijection(T, P)
  BY <1>6, <1>7, <1>8 DEF Bijection, Injection, Surjection, IsInjective
<1>10. Cardinality(P) = Cardinality(T)
  BY <1>5, <1>9, FS_Bijection DEF ExistsBijection
<1>11. Cardinality(P) = IF 1 \in Positions(q, s) THEN Cardinality(Positions(q, s)) - 1
                                                ELSE Cardinality(Positions(q, s))
  BY <1>3, FS_RemoveElement DEF P
<1>12. 1 \in Positions(q, s) <=> q[1] = s
  BY <1>1 DEF Positions, n
<1> QED
  BY <1>3, <1>10, <1>11, <1>12 DEF T

-----------------------------------------------------------------------------
(* The tasks that were generated and that no thread has taken, in order.   *)
Queue == tasks \o to_run

\* The tasks that wait are those of the pool, then those not yet scheduled.
LEMMA QueueType ==
  ASSUME FlowInv
  PROVE  /\ Queue \in Seq(Tasks) /\ Len(Queue) = Len(tasks) + Len(to_run)
         /\ Len(tasks) \in Nat /\ Len(to_run) \in Nat
         /\ \A i \in 1..Len(tasks) : i \in 1..Len(Queue) /\ Queue[i] = tasks[i]
<1>1. tasks \in Seq(Tasks) /\ to_run \in Seq(Tasks)
  BY DEF FlowInv, PoolTypeOK, MainTypeOK
<1> QED
  BY <1>1, ConcatProperties, LenProperties DEF Queue

\* What a step of the driver does to the tasks that wait: it adds the generated
\* one, or runs the only one itself, or leaves them.
LEMMA QueueAfterMainStep ==
  ASSUME FlowInv, MainNext
  PROVE  /\ main = "generate" => Queue' = Append(Queue, best)
         /\ main = "inline" => Queue' = <<>>
         /\ main \notin {"generate", "inline"} => Queue' = Queue
<1>1. tasks \in Seq(Tasks) /\ to_run \in Seq(Tasks)
  BY DEF FlowInv, PoolTypeOK, MainTypeOK
<1>2. tasks' = IF main = "schedule" THEN Append(tasks, Head(to_run)) ELSE tasks
  BY MainKeepsThreads DEF FlowInv
<1>3. CASE GenerateTask
  <2>1. best \in Tasks /\ main = "generate" /\ to_run' = Append(to_run, best)
    BY <1>3 DEF GenerateTask, FlowInv, BestIsAvailable
  <2> QED
    BY <1>1, <1>2, <2>1, ConcatWithAppend DEF Queue
<1>4. CASE RunInline
  <2>1. main = "inline" /\ to_run' = <<>>
    BY <1>4 DEF RunInline
  <2>2. tasks = <<>>
    <3>1. config.loop \in {"sequential", "deterministic", "non_deterministic"}
      BY ConfigurationFacts DEF FlowInv, MainTypeOK
    <3> QED
      BY <2>1, <3>1 DEF FlowInv, ToRunInv, Sequential, NonDeterministic, Deterministic
  <2>3. <<>> \o <<>> = <<>>
    OBVIOUS
  <2> QED
    BY <1>2, <2>1, <2>2, <2>3 DEF Queue
<1>5. CASE Schedule
  <2>1. main = "schedule" /\ to_run' = Tail(to_run)
    BY <1>5 DEF Schedule
  <2>2. to_run # <<>>
    <3>1. config.loop \in {"sequential", "deterministic", "non_deterministic"}
      BY ConfigurationFacts DEF FlowInv, MainTypeOK
    <3>2. <<best>> # <<>>
      OBVIOUS
    <3> QED
      BY <2>1, <3>1, <3>2 DEF FlowInv, ToRunInv, Sequential, NonDeterministic, Deterministic
  <2> QED
    BY <1>1, <1>2, <2>1, <2>2, ConcatWithMovedHead DEF Queue
<1>6. CASE ~ (GenerateTask \/ RunInline \/ Schedule)
  <2>1. to_run' = to_run /\ main \notin {"generate", "inline", "schedule"}
    BY <1>6 DEF MainNext, Poll, SynchronizeOne, EndSynchronize, Clear, FindTask, FindNoTask,
       CountTask, NotifyThreads, WaitForBatch, Finish, Join, batchVars
  <2> QED
    BY <1>2, <2>1 DEF Queue
<1> QED
  BY <1>3, <1>4, <1>5, <1>6

(* What a step of a thread does: take the first task, leave one, or neither.*)
Takes(t) == GetNextTask(t) /\ TakeTask(t)

\* A thread that takes a task takes the first one that waits.
LEMMA ThreadTakes ==
  ASSUME FlowInv, NEW t \in config.threads, Takes(t)
  PROVE  /\ Queue # <<>> /\ Queue[1] \in Tasks
         /\ Queue' = Tail(Queue)
         /\ Len(tasks') = Len(tasks) - 1
         /\ t \notin Busy /\ Busy' = Busy \cup {t} /\ body_done' = body_done
         /\ work[t] = NoTask /\ work' = [work EXCEPT ![t] = Queue[1]]
         /\ t \notin body_done
<1> USE DEF FlowInv, PoolTypeOK, MainTypeOK
<1>1. /\ t \in Threads /\ thread[t] = "ready" /\ tasks # <<>>
      /\ tasks' = Tail(tasks) /\ thread' = [thread EXCEPT ![t] = "working"]
      /\ work' = [work EXCEPT ![t] = Head(tasks)]
      /\ config' = config /\ to_run' = to_run /\ body_done' = body_done
  BY ConfigurationFacts DEF Takes, GetNextTask, TakeTask, mainVars, batchVars
<1>2. /\ Queue # <<>> /\ Tail(Queue) = Tail(tasks) \o to_run /\ Head(tasks) = Queue[1]
      /\ Head(tasks) \in Tasks /\ Len(Tail(tasks)) = Len(tasks) - 1
  BY <1>1, TailOfConcat, HeadTailProperties DEF Queue
<1>3. t \notin Busy /\ Busy' = Busy \cup {t} /\ work[t] = NoTask /\ t \notin body_done
  BY <1>1, ConfigurationFacts DEF Busy, ThreadsInv
<1> QED
  BY <1>1, <1>2, <1>3 DEF Queue

\* Every other step of a thread leaves the waiting tasks alone; one that leaves
\* a task makes the thread idle.
LEMMA ThreadDoesNotTake ==
  ASSUME FlowInv, NEW t \in config.threads, ThreadNext(t), ~ Takes(t)
  PROVE  /\ tasks' = tasks /\ Queue' = Queue
         /\ LeaveTask(t) => /\ t \in Busy /\ Busy' = Busy \ {t}
                            /\ work[t] \in Tasks /\ work' = [work EXCEPT ![t] = NoTask]
         /\ ~ LeaveTask(t) => Busy' = Busy /\ work' = work
<1> USE ConfigurationFacts DEF FlowInv, PoolTypeOK, MainTypeOK
<1>1. t \in Threads /\ config' = config /\ to_run' = to_run
  BY DEF ThreadNext, GetNextTask, WakeForNoReason, RunTask, LeaveTask, mainVars, batchVars
<1>2. CASE WaitForTask(t) \/ EndThread(t) \/ WakeUp(t)
  <2>1. ~ LeaveTask(t)
    BY <1>2 DEF LeaveTask, WaitForTask, EndThread, WakeUp
  <2>2. tasks' = tasks /\ work' = work /\ Busy' = Busy
    BY <1>1, <1>2 DEF WaitForTask, EndThread, WakeUp, Busy
  <2> QED
    BY <1>1, <2>1, <2>2 DEF Queue
<1>3. CASE RunTask(t)
  <2>1. ~ LeaveTask(t)
    BY <1>3 DEF LeaveTask, RunTask
  <2> QED
    BY <1>1, <1>3, <2>1 DEF RunTask, poolVars, threadVars, Queue, Busy
<1>4. CASE LeaveTask(t)
  <2>1. thread[t] = "working" /\ FinishWork(t)
    BY <1>4 DEF LeaveTask
  <2>2. t \in Busy /\ work[t] \in Tasks
    BY <1>1, <2>1 DEF Busy, ThreadsInv
  <2>3. Busy' = Busy \ {t}
    BY <1>1, <2>1 DEF Busy, FinishWork
  <2> QED
    BY <1>1, <1>4, <2>1, <2>2, <2>3 DEF FinishWork, Queue
<1> QED
  BY <1>2, <1>3, <1>4 DEF ThreadNext, GetNextTask, WakeForNoReason, Takes

-----------------------------------------------------------------------------
(* What num_in_flight counts.                                              *)

(* A batch is counted when it is complete: until it is over, its tasks are *)
(* the only ones.                                                          *)
Counted ==
  /\ NonDeterministic =>
       num_in_flight = Len(tasks) + Len(to_run) + Cardinality(Busy)
                       + (IF main = "generate" THEN 1 ELSE 0)
  /\ Deterministic =>
       IF main \in {"schedule", "notify", "batch"}
       THEN num_in_flight = Len(tasks) + Len(to_run) + Cardinality(Busy)
       ELSE num_in_flight = 0 /\ tasks = <<>> /\ Busy = {}
  /\ Sequential => num_in_flight = 0

(* From Poll() to the next task, there is a thread for one more.           *)
Room ==
  NonDeterministic =>
    /\ num_in_flight <= NumThreads
    /\ main \in {"synchronize", "clear", "next", "count"} => num_in_flight < NumThreads

(* Once it is 0, `all_done' remains true until a task is generated.        *)
Idle ==
  NonDeterministic =>
    /\ all_done /\ main \in {"synchronize", "clear", "next"} => num_in_flight = 0
    /\ main \in {"finish", "notify_finish", "join", "done"} => num_in_flight = 0

CountInv == Counted /\ Room /\ Idle

\* At most as many threads are busy as the pool has.
LEMMA Numbers ==
  ASSUME FlowInv
  PROVE  /\ IsFiniteSet(Busy) /\ Cardinality(Busy) \in Nat
         /\ Cardinality(Busy) <= NumThreads /\ NumThreads \in Nat
<1>1. IsFiniteSet(config.threads)
  BY ConfigurationFacts DEF FlowInv, MainTypeOK
<1>2. Busy \in SUBSET config.threads
  BY DEF Busy
<1> QED
  BY <1>1, <1>2, FS_Subset, FS_CardinalityType DEF NumThreads

\* When nothing is in flight the pool holds no task and no thread is at work.
LEMMA NoneAtWork ==
  ASSUME FlowInv, CountInv,
         \/ num_in_flight = 0 /\ (Deterministic => main # "batch")
         \/ Deterministic /\ main \notin {"schedule", "notify", "batch"}
  PROVE  tasks = <<>> /\ Busy = {} /\ InPool \subseteq {NoTask}
<1>1. tasks = <<>> /\ Busy = {}
  <2>1. /\ Len(tasks) \in Nat /\ Len(to_run) \in Nat /\ Cardinality(Busy) \in Nat
        /\ IsFiniteSet(Busy) /\ tasks \in Seq(Tasks)
    BY QueueType, Numbers DEF FlowInv, PoolTypeOK
  <2>2. config.loop \in {"sequential", "deterministic", "non_deterministic"}
    BY ConfigurationFacts DEF FlowInv, MainTypeOK
  <2>3. CASE NonDeterministic
    <3>1. Len(tasks) = 0 /\ Cardinality(Busy) = 0
      BY <2>1, <2>3 DEF CountInv, Counted, NonDeterministic, Deterministic
    <3> QED
      BY <2>1, <3>1, FS_EmptySet, EmptySeq
  <2>4. CASE Deterministic
    <3>1. CASE main \notin {"schedule", "notify", "batch"}
      BY <2>4, <3>1 DEF CountInv, Counted
    <3>2. CASE main \in {"schedule", "notify"}
      <4>1. Len(tasks) = 0 /\ Cardinality(Busy) = 0
        BY <2>1, <2>4, <3>2 DEF CountInv, Counted
      <4> QED
        BY <2>1, <4>1, FS_EmptySet, EmptySeq
    <3> QED
      BY <2>4, <3>1, <3>2
  <2>5. CASE Sequential
    <3>1. config.threads = {}
      BY <2>5, ConfigurationFacts DEF Sequential, FlowInv, MainTypeOK
    <3> QED
      BY <2>5, <3>1 DEF FlowInv, ToRunInv, Busy
  <2> QED
    BY <2>2, <2>3, <2>4, <2>5 DEF Sequential, NonDeterministic, Deterministic
<1>2. \A t \in config.threads : work[t] = NoTask
  BY <1>1, ConfigurationFacts DEF FlowInv, MainTypeOK, ThreadsInv, Busy
<1>3. 1..Len(tasks) = {}
  BY <1>1, EmptySeq
<1> QED
  BY <1>1, <1>2, <1>3 DEF InPool

(* The steps of the main thread.                                           *)
LEMMA LengthsAfterMainStep ==
  ASSUME FlowInv, MainNext
  PROVE  /\ Len(tasks') = Len(tasks) + (IF main = "schedule" THEN 1 ELSE 0)
         /\ main \notin {"generate", "inline", "schedule"} => to_run' = to_run
         /\ main = "generate" => Len(to_run') = Len(to_run) + 1
         /\ main = "inline" => Len(to_run') = 0
         /\ main = "schedule" => Len(to_run') = Len(to_run) - 1
         /\ main # "schedule" => tasks' = tasks
<1>1. /\ tasks \in Seq(Tasks) /\ to_run \in Seq(Tasks)
      /\ tasks' = IF main = "schedule" THEN Append(tasks, Head(to_run)) ELSE tasks
  BY MainKeepsThreads DEF FlowInv, PoolTypeOK, MainTypeOK
<1>2. CASE GenerateTask
  <2>1. best \in Tasks /\ main = "generate" /\ to_run' = Append(to_run, best)
    BY <1>2 DEF GenerateTask, FlowInv, BestIsAvailable
  <2> QED
    BY <1>1, <2>1, AppendProperties
<1>3. CASE RunInline
  <2>1. main = "inline" /\ to_run' = <<>> /\ Len(<<>>) = 0
    BY <1>3 DEF RunInline
  <2> QED
    BY <1>1, <2>1
<1>4. CASE Schedule
  <2>1. main = "schedule" /\ to_run' = Tail(to_run)
    BY <1>4 DEF Schedule
  <2>2. to_run # <<>>
    <3>1. config.loop \in {"sequential", "deterministic", "non_deterministic"}
      BY ConfigurationFacts DEF FlowInv, MainTypeOK
    <3>2. <<best>> # <<>>
      OBVIOUS
    <3> QED
      BY <2>1, <3>1, <3>2 DEF FlowInv, ToRunInv, Sequential, NonDeterministic, Deterministic
  <2>3. Head(to_run) \in Tasks /\ Len(Tail(to_run)) = Len(to_run) - 1
    BY <1>1, <2>2, HeadTailProperties
  <2> QED
    BY <1>1, <2>1, <2>3, AppendProperties
<1>5. CASE ~ (GenerateTask \/ RunInline \/ Schedule)
  <2>1. to_run' = to_run /\ main \notin {"generate", "inline", "schedule"}
    BY <1>5 DEF MainNext, Poll, SynchronizeOne, EndSynchronize, Clear, FindTask, FindNoTask,
       CountTask, NotifyThreads, WaitForBatch, Finish, Join, batchVars
  <2> QED
    BY <1>1, <2>1, LenProperties
<1> QED
  BY <1>2, <1>3, <1>4, <1>5

\* Every step of the driver keeps CountInv.
LEMMA MainStepCounts ==
  ASSUME FlowInv, CountInv, MainNext
  PROVE  CountInv'
<1>1. /\ config' = config
      /\ NonDeterministic' = NonDeterministic /\ Deterministic' = Deterministic
      /\ Sequential' = Sequential /\ NumThreads' = NumThreads
      /\ Busy' = Busy
  BY ConfigurationIsKept, ConfigurationFacts, MainKeepsThreads
     DEF Next, NonDeterministic, Deterministic, Sequential, NumThreads, Busy, FlowInv, MainTypeOK
<1>2. /\ Len(tasks) \in Nat /\ Len(to_run) \in Nat
      /\ Cardinality(Busy) \in Nat /\ NumThreads \in Nat
      /\ to_run \in Seq(Tasks) /\ main \in MainStates
  BY QueueType, Numbers DEF FlowInv, MainTypeOK
<1>3. /\ ~ (NonDeterministic /\ Deterministic) /\ ~ (NonDeterministic /\ Sequential)
      /\ ~ (Deterministic /\ Sequential)
      /\ NonDeterministic \/ Deterministic \/ Sequential
  BY ConfigurationFacts DEF FlowInv, MainTypeOK, NonDeterministic, Deterministic, Sequential
<1>4. CASE NonDeterministic
  <2> USE <1>1, <1>2, <1>3, <1>4, LengthsAfterMainStep
      DEF FlowInv, ToRunInv, CountInv, Counted, Room, Idle
  <2>1. CASE Poll
    BY <2>1 DEF Poll, ThreadIsFree, countVars
  <2>2. CASE SynchronizeOne \/ EndSynchronize
    BY <2>2 DEF SynchronizeOne, EndSynchronize, countVars
  <2>3. CASE Clear \/ FindTask
    <3>1. ~ LastBatch
      BY DEF LastBatch
    <3>2. /\ num_in_flight' = num_in_flight /\ all_done' = all_done
          /\ main \in {"clear", "next"}
          /\ main' = IF main = "clear" THEN "next" ELSE "count"
      <4>1. CASE Clear
        BY <3>1, <4>1 DEF Clear, countVars
      <4>2. CASE FindTask
        BY <4>2 DEF FindTask, countVars
      <4> QED
        BY <2>3, <4>1, <4>2
    <3>3. Len(to_run') = Len(to_run) /\ Len(tasks') = Len(tasks)
      BY <3>2
    <3>4. Counted'
      BY <3>2, <3>3
    <3>5. Room' /\ Idle'
      BY <3>2
    <3> QED
      BY <3>4, <3>5
  <2>4. CASE FindNoTask
    <3>1. main = "next" /\ num_in_flight' = num_in_flight /\ all_done' = all_done
      BY <2>4 DEF FindNoTask
    <3> QED
      BY <2>4, <3>1, FindNoTaskGoes
  <2>5. CASE CountTask
    <3>1. main = "count" /\ main' = "generate" /\ num_in_flight' = num_in_flight + 1
      BY <2>5 DEF CountTask
    <3> QED
      BY <3>1
  <2>6. CASE GenerateTask
    <3>1. main = "generate" /\ main' = "schedule" /\ num_in_flight' = num_in_flight
      BY <2>6, GenerateTaskGoes DEF GenerateTask
    <3>2. Len(to_run') = Len(to_run) + 1 /\ Len(tasks') = Len(tasks)
      BY <3>1
    <3>3. Counted'
      BY <3>1, <3>2
    <3>4. Room' /\ Idle'
      BY <3>1
    <3> QED
      BY <3>3, <3>4
  <2>7. CASE Schedule
    <3>1. main = "schedule" /\ main' = "notify" /\ num_in_flight' = num_in_flight
      BY <2>7 DEF Schedule, countVars
    <3>2. Len(to_run') = Len(to_run) - 1 /\ Len(tasks') = Len(tasks) + 1
      BY <3>1
    <3>3. Counted'
      BY <3>1, <3>2
    <3>4. Room' /\ Idle'
      BY <3>1
    <3> QED
      BY <3>3, <3>4
  <2>8. CASE NotifyThreads
    <3>1. /\ main \in {"notify", "notify_finish"} /\ main' \in {"poll", "join"}
          /\ main' = "join" => main = "notify_finish"
          /\ num_in_flight' = num_in_flight
      BY <2>8, NotifyThreadsGoes DEF NotifyThreads, countVars
    <3>2. Len(to_run') = Len(to_run) /\ Len(tasks') = Len(tasks)
      BY <3>1
    <3>3. Counted'
      BY <3>1, <3>2
    <3>4. Room'
      BY <3>1
    <3>5. Idle'
      BY <3>1
    <3> QED
      BY <3>3, <3>4, <3>5
  <2>9. CASE Finish \/ Join
    <3>1. /\ main \in {"finish", "join"} /\ main' \in {"notify_finish", "done"}
          /\ num_in_flight' = num_in_flight
      BY <2>9 DEF Finish, Join, countVars
    <3>2. Len(to_run') = Len(to_run) /\ Len(tasks') = Len(tasks)
      BY <3>1
    <3>3. Counted'
      BY <3>1, <3>2
    <3>4. Room'
      BY <3>1
    <3>5. Idle'
      BY <3>1
    <3> QED
      BY <3>3, <3>4, <3>5
  <2>10. CASE RunInline \/ WaitForBatch
    BY <2>10 DEF RunInline, WaitForBatch
  <2> QED
    BY <2>1, <2>2, <2>3, <2>4, <2>5, <2>6, <2>7, <2>8, <2>9, <2>10 DEF MainNext
<1>5. CASE Deterministic
  <2> USE <1>1, <1>2, <1>3, <1>5, LengthsAfterMainStep
      DEF FlowInv, ToRunInv, CountInv, Counted, Room, Idle
  <2>1. Cardinality({}) = 0 /\ Len(<<>>) = 0
    BY FS_EmptySet
  <2>2. CASE SynchronizeOne \/ EndSynchronize \/ Clear \/ FindTask
    BY <2>2 DEF SynchronizeOne, EndSynchronize, Clear, FindTask, countVars
  <2>3. CASE FindNoTask
    <3>1. main = "next" /\ num_in_flight' = Len(to_run)
      BY <2>3 DEF FindNoTask
    <3>2. main' = IF to_run = <<>> THEN "finish" ELSE "schedule"
      BY <2>3, FindNoTaskGoes
    <3>3. /\ tasks = <<>> /\ tasks' = <<>> /\ Busy = {} /\ to_run' = to_run
          /\ num_in_flight = 0
      BY <3>1
    <3>4. Len(tasks') = 0 /\ Cardinality(Busy') = 0 /\ Len(to_run') = Len(to_run)
      BY <2>1, <3>3
    <3>5. Counted'
      BY <2>1, <3>1, <3>2, <3>3, <3>4
    <3> QED
      BY <3>5
  <2>4. CASE CountTask
    BY <2>4 DEF CountTask
  <2>5. CASE GenerateTask
    <3>1. main = "generate" /\ main' \in {"schedule", "next"}
      BY <2>5, GenerateTaskGoes DEF GenerateTask
    <3>2. num_in_flight' = IF main' = "schedule" THEN Len(to_run') ELSE num_in_flight
      BY <2>5, GenerateTaskGoes DEF GenerateTask
    <3>3. tasks = <<>> /\ tasks' = <<>> /\ Busy = {} /\ num_in_flight = 0
      BY <3>1
    <3>4. Len(tasks') = 0 /\ Cardinality(Busy') = 0 /\ Len(to_run') = Len(to_run) + 1
      BY <2>1, <3>1, <3>3
    <3>5. Counted'
      BY <3>1, <3>2, <3>3, <3>4
    <3> QED
      BY <3>5
  <2>6. CASE Schedule
    BY <2>6 DEF Schedule, countVars
  <2>7. CASE NotifyThreads
    <3>1. main \in {"notify", "notify_finish"} /\ num_in_flight' = num_in_flight
      BY <2>7 DEF NotifyThreads, countVars
    <3>2. main' \in {"schedule", "batch", "join"} /\ (main' = "join" <=> main = "notify_finish")
      BY <2>7, <3>1, NotifyThreadsGoes
    <3> QED
      BY <3>1, <3>2
  <2>8. CASE WaitForBatch
    <3>1. /\ main = "batch" /\ main' = "synchronize"
          /\ num_in_flight' = num_in_flight /\ num_in_flight = 0
      BY <2>8 DEF WaitForBatch, BatchIsOver
    <3>2. Len(tasks) = 0 /\ Cardinality(Busy) = 0
      BY <3>1
    <3>3. tasks = <<>> /\ Busy = {}
      BY <3>2, Numbers, FS_EmptySet, EmptySeq DEF PoolTypeOK
    <3> QED
      BY <3>1, <3>3
  <2>9. CASE Finish \/ Join
    BY <2>9 DEF Finish, Join, countVars
  <2>10. CASE Poll \/ RunInline
    BY <2>10 DEF Poll, RunInline
  <2> QED
    BY <2>2, <2>3, <2>4, <2>5, <2>6, <2>7, <2>8, <2>9, <2>10 DEF MainNext
<1>6. CASE Sequential
  <2>1. num_in_flight' = num_in_flight
    BY <1>3, <1>6 DEF FlowInv, ToRunInv, MainNext, Poll, SynchronizeOne, EndSynchronize, Clear,
       FindTask, FindNoTask, CountTask, GenerateTask, RunInline, Schedule, NotifyThreads,
       WaitForBatch, Finish, Join, countVars
  <2> QED
    BY <1>1, <1>3, <1>6, <2>1 DEF CountInv, Counted, Room, Idle
<1> QED
  BY <1>3, <1>4, <1>5, <1>6

(* A thread moves a task from the queue to itself, or counts one out.      *)
LEMMA ThreadStepCounts ==
  ASSUME FlowInv, CountInv, NEW t \in config.threads, ThreadNext(t)
  PROVE  CountInv'
<1>1. /\ config' = config /\ UNCHANGED mainVars
      /\ NonDeterministic' = NonDeterministic /\ Deterministic' = Deterministic
      /\ Sequential' = Sequential /\ NumThreads' = NumThreads
      /\ main' = main /\ to_run' = to_run /\ all_done' = all_done
  BY DEF ThreadNext, GetNextTask, WakeForNoReason, RunTask, LeaveTask, NonDeterministic,
     Deterministic, Sequential, NumThreads, mainVars, batchVars
<1>2. ~ Sequential
  BY ConfigurationFacts DEF FlowInv, MainTypeOK, Sequential
<1>3. /\ Len(tasks) \in Nat /\ Len(to_run) \in Nat /\ tasks \in Seq(Tasks)
      /\ Cardinality(Busy) \in Nat /\ NumThreads \in Nat /\ IsFiniteSet(Busy)
  BY QueueType, Numbers DEF FlowInv, PoolTypeOK
<1> USE DEF CountInv, Counted, Room, Idle
<1>4. CASE Takes(t)
  <2>1. num_in_flight' = num_in_flight
    BY <1>4 DEF Takes, GetNextTask, countVars
  <2>2. /\ Len(tasks') = Len(tasks) - 1
        /\ Cardinality(Busy') = Cardinality(Busy) + 1
    BY <1>3, <1>4, ThreadTakes, FS_AddElement
  <2>3. tasks # <<>>
    BY <1>4 DEF Takes, TakeTask
  <2>4. Deterministic => main \in {"schedule", "notify", "batch"}
    BY <2>3
  <2>5. Counted'
    BY <1>1, <1>2, <1>3, <2>1, <2>2, <2>4
  <2> QED
    BY <1>1, <2>1, <2>5
<1>5. CASE LeaveTask(t)
  <2>1. ~ Takes(t)
    BY <1>5 DEF LeaveTask, Takes, TakeTask
  <2>2. /\ num_in_flight' = num_in_flight - 1 /\ tasks' = tasks /\ t \in Busy
        /\ Busy' = Busy \ {t}
    BY <1>5, <2>1, ThreadDoesNotTake DEF LeaveTask
  <2>3. Cardinality(Busy') = Cardinality(Busy) - 1
    BY <1>3, <2>2, FS_RemoveElement
  <2>4. Deterministic => main \in {"schedule", "notify", "batch"}
    BY <2>2
  <2>5. Counted'
    BY <1>1, <1>2, <1>3, <2>2, <2>3, <2>4
  <2>6. num_in_flight # 0
    <3>1. Cardinality(Busy) # 0
      BY <1>3, <2>2, FS_EmptySet
    <3>2. ~ NonDeterministic => Deterministic
      BY <1>2, ConfigurationFacts DEF FlowInv, MainTypeOK, Sequential, NonDeterministic,
         Deterministic
    <3>3. CASE NonDeterministic
      BY <1>3, <3>1, <3>3
    <3>4. CASE Deterministic
      BY <1>3, <2>4, <3>1, <3>4
    <3> QED
      BY <3>2, <3>3, <3>4
  <2>7. NonDeterministic => num_in_flight \in Nat
    BY <1>3
  <2>8. Room' /\ Idle'
    BY <1>1, <1>3, <2>2, <2>6, <2>7
  <2> QED
    BY <2>5, <2>8
<1>6. CASE ~ Takes(t) /\ ~ LeaveTask(t)
  <2>1. tasks' = tasks /\ Busy' = Busy
    BY <1>6, ThreadDoesNotTake
  <2>2. num_in_flight' = num_in_flight
    BY <1>6 DEF ThreadNext, GetNextTask, WakeForNoReason, RunTask, countVars
  <2> QED
    BY <1>1, <2>1, <2>2
<1> QED
  BY <1>4, <1>5, <1>6

\* Every step keeps CountInv.
LEMMA CountStep == ASSUME FlowInv, CountInv, [Next]_vars PROVE CountInv'
<1> USE DEF CountInv, Counted, Room, Idle, Busy, NonDeterministic, Deterministic, Sequential,
            NumThreads
<1>1. CASE UNCHANGED vars
  BY <1>1 DEF vars, poolVars, threadVars, mainVars, batchVars, countVars
<1>2. CASE EndSearch
  BY <1>2 DEF EndSearch, poolVars, threadVars, mainVars, batchVars, countVars
<1> QED
  BY <1>1, <1>2, MainStepCounts, ThreadStepCounts DEF Next, Terminated

\* CountInv holds throughout.
LEMMA CountInvariant == Spec => []CountInv
<1>1. Init => CountInv
  <2> SUFFICES ASSUME Init PROVE CountInv
    OBVIOUS
  <2>1. Busy = {} /\ Cardinality({}) = 0 /\ Len(<<>>) = 0
    BY ConfigurationFacts, FS_EmptySet DEF Init, PoolInit, Busy
  <2>2. Counted
    BY <2>1 DEF Init, PoolInit, Counted, NonDeterministic, Deterministic, Sequential
  <2>3. FlowInv
    BY InitFlow
  <2>4. NumThreads \in Nat
    BY <2>3, Numbers
  <2> QED
    BY <2>2, <2>4 DEF Init, CountInv, Room, Idle, NonDeterministic
<1>2. FlowInv /\ CountInv /\ [Next]_vars => CountInv'
  BY CountStep
<1> QED
  BY <1>1, <1>2, FlowInvariant, PTL DEF Spec

(* A task is generated only when there is a thread for it: whatever is in  *)
(* the queue of the pool has one that is not at work.                      *)
THEOREM QueuedTasksHaveThreads == Spec => []EveryQueuedTaskHasAThread
<1>1. FlowInv /\ CountInv => EveryQueuedTaskHasAThread
  <2> SUFFICES ASSUME FlowInv, CountInv, NonDeterministic
               PROVE  Len(tasks) <= Cardinality({t \in config.threads : thread[t] # "working"})
    BY DEF EveryQueuedTaskHasAThread
  <2>1. {t \in config.threads : thread[t] # "working"} = config.threads \ Busy
    BY DEF Busy
  <2>2. config.threads \cap Busy = Busy /\ IsFiniteSet(config.threads)
    BY ConfigurationFacts DEF Busy, FlowInv, MainTypeOK
  <2>3. Cardinality(config.threads \ Busy) = NumThreads - Cardinality(Busy)
    BY <2>2, FS_Difference DEF NumThreads
  <2>4. /\ Len(tasks) \in Nat /\ Len(to_run) \in Nat /\ Cardinality(Busy) \in Nat
        /\ NumThreads \in Nat
    BY QueueType, Numbers
  <2>5. Len(tasks) + Cardinality(Busy) <= num_in_flight /\ num_in_flight <= NumThreads
    BY <2>4 DEF CountInv, Counted, Room
  <2>6. num_in_flight \in Nat
    BY <2>4 DEF CountInv, Counted
  <2>7. Len(tasks) <= NumThreads - Cardinality(Busy)
    BY <2>4, <2>5, <2>6
  <2> QED
    BY <2>1, <2>3, <2>7
<1> QED
  BY <1>1, FlowInvariant, CountInvariant, PTL

(* In a deterministic loop, the subsolvers are synchronized and generate   *)
(* their tasks when none is in the pool.                                   *)
THEOREM BatchesAreSeparate == Spec => []BatchesDoNotOverlap
<1>1. FlowInv /\ CountInv => BatchesDoNotOverlap
  BY NoneAtWork DEF BatchesDoNotOverlap
<1> QED
  BY <1>1, FlowInvariant, CountInvariant, PTL

-----------------------------------------------------------------------------
(* What num_in_flight_per_subsolvers counts when tasks are not in batches. *)
WorkersOn(s) == {t \in config.threads : work[t] = s}

CountedBySubsolver ==
  NonDeterministic =>
    \A s \in Tasks :
      in_flight[s] = Cardinality(Positions(Queue, s)) + Cardinality(WorkersOn(s))
                     + (IF main = "generate" /\ best = s THEN 1 ELSE 0)

SubsolverCountInv == in_flight \in [Subsolvers -> Nat] /\ CountedBySubsolver

\* The tasks of a subsolver that wait, and the threads at work on one, are
\* finite in number.
LEMMA SubsolverNumbers ==
  ASSUME FlowInv, NEW s \in Tasks
  PROVE  /\ Cardinality(Positions(Queue, s)) \in Nat
         /\ IsFiniteSet(WorkersOn(s)) /\ Cardinality(WorkersOn(s)) \in Nat
<1>1. IsFiniteSet(config.threads)
  BY ConfigurationFacts DEF FlowInv, MainTypeOK
<1>2. WorkersOn(s) \in SUBSET config.threads
  BY DEF WorkersOn
<1> QED
  BY <1>1, <1>2, FS_Subset, FS_CardinalityType, QueueType, PositionsAreFinite

\* Every step of the driver keeps SubsolverCountInv.
LEMMA MainStepCountsBySubsolver ==
  ASSUME FlowInv, SubsolverCountInv, MainNext
  PROVE  SubsolverCountInv'
<1>1. /\ config' = config /\ NonDeterministic' = NonDeterministic /\ work' = work
      /\ \A s : WorkersOn(s)' = WorkersOn(s)
      /\ ~ (NonDeterministic /\ Deterministic)
      /\ best \in Tasks => best \in Subsolvers
      /\ in_flight \in [Subsolvers -> Nat]
  BY ConfigurationIsKept, MainKeepsThreads, LoopAssumption
     DEF Next, NonDeterministic, Deterministic, FlowInv, WorkersOn, SubsolverCountInv
<1>2. CASE CountTask
  <2>1. best \in Tasks /\ best' = best /\ main = "count" /\ main' = "generate"
    BY <1>2 DEF CountTask, FlowInv, BestIsAvailable
  <2>2. Queue' = Queue
    BY <2>1, QueueAfterMainStep
  <2>3. in_flight' = in_flight \/ in_flight' = [in_flight EXCEPT ![best] = @ + 1]
    BY <1>2 DEF CountTask, CountedIn
  <2>4. in_flight' \in [Subsolvers -> Nat]
    BY <1>1, <2>1, <2>3
  <2>5. ASSUME NonDeterministic, NEW s \in Tasks
        PROVE  in_flight'[s] = Cardinality(Positions(Queue, s)) + Cardinality(WorkersOn(s))
                               + (IF best = s THEN 1 ELSE 0)
    <3>1. in_flight' = [in_flight EXCEPT ![best] = @ + 1]
      BY <1>2, <2>5 DEF CountTask, CountedIn
    <3>2. s \in Subsolvers
      BY LoopAssumption
    <3>3. in_flight'[s] = in_flight[s] + (IF best = s THEN 1 ELSE 0)
      BY <1>1, <2>1, <3>1, <3>2
    <3>4. in_flight[s] = Cardinality(Positions(Queue, s)) + Cardinality(WorkersOn(s))
      BY <2>1, <2>5, SubsolverNumbers DEF SubsolverCountInv, CountedBySubsolver
    <3> QED
      BY <3>3, <3>4
  <2> QED
    BY <1>1, <2>1, <2>2, <2>4, <2>5 DEF SubsolverCountInv, CountedBySubsolver
<1>3. CASE GenerateTask
  <2>1. /\ best \in Tasks /\ best' = best /\ main = "generate" /\ in_flight' = in_flight
        /\ Queue' = Append(Queue, best)
    BY <1>3, QueueAfterMainStep DEF GenerateTask, FlowInv, BestIsAvailable
  <2>2. NonDeterministic => main' = "schedule"
    BY <1>3, GenerateTaskGoes
  <2>3. ASSUME NonDeterministic, NEW s \in Tasks
        PROVE  in_flight[s] = Cardinality(Positions(Append(Queue, best), s))
                              + Cardinality(WorkersOn(s))
    <3>1. Cardinality(Positions(Append(Queue, best), s)) =
            Cardinality(Positions(Queue, s)) + (IF best = s THEN 1 ELSE 0)
      BY <2>1, QueueType, PositionsAfterAppend
    <3>2. in_flight[s] = Cardinality(Positions(Queue, s)) + Cardinality(WorkersOn(s))
                         + (IF best = s THEN 1 ELSE 0)
      BY <2>1, <2>3 DEF SubsolverCountInv, CountedBySubsolver
    <3> QED
      BY <3>1, <3>2, SubsolverNumbers
  <2>4. ASSUME NonDeterministic', NEW s \in Tasks
        PROVE  in_flight'[s] = Cardinality(Positions(Queue', s)) + Cardinality(WorkersOn(s)')
                               + (IF main' = "generate" /\ best' = s THEN 1 ELSE 0)
    <3>1. in_flight'[s] = Cardinality(Positions(Queue', s)) + Cardinality(WorkersOn(s)')
      BY <1>1, <2>1, <2>3, <2>4
    <3>2. Cardinality(Positions(Queue', s)) \in Nat /\ Cardinality(WorkersOn(s)') \in Nat
      <4>1. Append(Queue, best) \in Seq(Tasks)
        BY <2>1, QueueType, AppendProperties
      <4> QED
        BY <1>1, <2>1, <4>1, PositionsAreFinite, SubsolverNumbers
    <3> QED
      BY <1>1, <2>2, <2>4, <3>1, <3>2
  <2> QED
    BY <1>1, <2>1, <2>4 DEF SubsolverCountInv, CountedBySubsolver, Positions
<1>4. CASE WaitForBatch
  <2>1. ~ NonDeterministic
    BY <1>4 DEF WaitForBatch, FlowInv, ToRunInv
  <2> QED
    BY <1>1, <1>4, <2>1 DEF WaitForBatch, SubsolverCountInv, CountedBySubsolver
<1>5. CASE RunInline
  <2>1. ~ NonDeterministic /\ in_flight' = in_flight
    BY <1>5 DEF RunInline, FlowInv, ToRunInv, countVars
  <2> QED
    BY <1>1, <2>1 DEF SubsolverCountInv, CountedBySubsolver
<1>6. CASE ~ (CountTask \/ GenerateTask \/ WaitForBatch \/ RunInline)
  <2>1. /\ in_flight' = in_flight /\ main \notin {"generate", "inline"}
    BY <1>6 DEF MainNext, Poll, SynchronizeOne, EndSynchronize, Clear, FindTask, FindNoTask,
       Schedule, NotifyThreads, Finish, Join, countVars
  <2>2. NonDeterministic => main' # "generate"
    <3>1. CASE FindNoTask
      BY <3>1, FindNoTaskGoes
    <3>2. CASE NotifyThreads
      BY <3>2, NotifyThreadsGoes DEF NotifyThreads
    <3>3. CASE Poll \/ SynchronizeOne \/ EndSynchronize \/ Clear \/ FindTask \/ Schedule
      BY <3>3 DEF Poll, SynchronizeOne, EndSynchronize, Clear, FindTask, Schedule
    <3>4. CASE Finish \/ Join
      BY <3>4 DEF Finish, Join
    <3> QED
      BY <1>6, <3>1, <3>2, <3>3, <3>4 DEF MainNext
  <2>3. Queue' = Queue
    BY <2>1, QueueAfterMainStep
  <2> QED
    BY <1>1, <2>1, <2>2, <2>3 DEF SubsolverCountInv, CountedBySubsolver
<1> QED
  BY <1>2, <1>3, <1>4, <1>5, <1>6

\* Every step of a thread keeps SubsolverCountInv.
LEMMA ThreadStepCountsBySubsolver ==
  ASSUME FlowInv, SubsolverCountInv, NEW t \in config.threads, ThreadNext(t)
  PROVE  SubsolverCountInv'
<1>1. /\ config' = config /\ NonDeterministic' = NonDeterministic
      /\ main' = main /\ best' = best
      /\ in_flight \in [Subsolvers -> Nat]
  BY DEF ThreadNext, GetNextTask, WakeForNoReason, RunTask, LeaveTask, NonDeterministic,
     mainVars, SubsolverCountInv
<1>2. /\ t \in Threads /\ work \in [Threads -> Tasks \cup {NoTask}] /\ NoTask \notin Tasks
      /\ config.threads \subseteq Threads /\ Queue \in Seq(Tasks)
  BY ConfigurationFacts, PoolAssumption, QueueType DEF FlowInv, PoolTypeOK, MainTypeOK
<1>3. CASE Takes(t)
  <2>1. in_flight' = in_flight
    BY <1>3 DEF Takes, GetNextTask, countVars
  <2>2. ASSUME NonDeterministic', NEW s \in Tasks
        PROVE  in_flight'[s] = Cardinality(Positions(Queue', s)) + Cardinality(WorkersOn(s)')
                               + (IF main' = "generate" /\ best' = s THEN 1 ELSE 0)
    <3>1. in_flight[s] = Cardinality(Positions(Queue, s)) + Cardinality(WorkersOn(s))
                         + (IF main = "generate" /\ best = s THEN 1 ELSE 0)
      BY <1>1, <2>2 DEF SubsolverCountInv, CountedBySubsolver
    <3>2. Cardinality(Positions(Queue', s)) =
            Cardinality(Positions(Queue, s)) - (IF Queue[1] = s THEN 1 ELSE 0)
      BY <1>2, <1>3, ThreadTakes, PositionsAfterTail
    <3>3. Cardinality(WorkersOn(s)') =
            Cardinality(WorkersOn(s)) + (IF Queue[1] = s THEN 1 ELSE 0)
      <4>1. work' = [work EXCEPT ![t] = Queue[1]] /\ work[t] = NoTask
        BY <1>3, ThreadTakes
      <4>2. t \notin WorkersOn(s)
        BY <1>2, <4>1 DEF WorkersOn
      <4>3. WorkersOn(s)' = IF Queue[1] = s THEN WorkersOn(s) \cup {t} ELSE WorkersOn(s)
        BY <1>1, <1>2, <4>1 DEF WorkersOn
      <4>4. Cardinality(WorkersOn(s) \cup {t}) = Cardinality(WorkersOn(s)) + 1
        BY <4>2, SubsolverNumbers, FS_AddElement
      <4> QED
        BY <4>3, <4>4, SubsolverNumbers
    <3>4. Cardinality(Positions(Queue, s)) \in Nat /\ Cardinality(WorkersOn(s)) \in Nat
      BY SubsolverNumbers
    <3> QED
      BY <1>1, <2>1, <3>1, <3>2, <3>3, <3>4
  <2> QED
    BY <1>1, <2>1, <2>2 DEF SubsolverCountInv, CountedBySubsolver, Positions
<1>4. CASE LeaveTask(t)
  <2>1. ~ Takes(t)
    BY <1>4 DEF LeaveTask, Takes, TakeTask
  <2>2. Queue' = Queue /\ work[t] \in Tasks /\ work' = [work EXCEPT ![t] = NoTask]
    BY <1>4, <2>1, ThreadDoesNotTake
  <2>3. work[t] \in Subsolvers
    BY <2>2, LoopAssumption
  <2>4. CASE ~ NonDeterministic
    BY <1>1, <1>4, <2>4 DEF LeaveTask, SubsolverCountInv, CountedBySubsolver
  <2>5. CASE NonDeterministic
    <3>1. in_flight' = [in_flight EXCEPT ![work[t]] = @ - 1]
      BY <1>4, <2>5 DEF LeaveTask, CountedOut
    <3>2. ASSUME NEW s \in Tasks
          PROVE  /\ in_flight'[s] = Cardinality(Positions(Queue, s)) + Cardinality(WorkersOn(s)')
                                    + (IF main = "generate" /\ best = s THEN 1 ELSE 0)
                 /\ in_flight'[s] \in Nat
      <4>1. in_flight[s] = Cardinality(Positions(Queue, s)) + Cardinality(WorkersOn(s))
                           + (IF main = "generate" /\ best = s THEN 1 ELSE 0)
        BY <2>5 DEF SubsolverCountInv, CountedBySubsolver
      <4>2. WorkersOn(s)' = IF work[t] = s THEN WorkersOn(s) \ {t} ELSE WorkersOn(s)
        BY <1>1, <1>2, <2>2 DEF WorkersOn
      <4>3. work[t] = s => t \in WorkersOn(s)
        BY DEF WorkersOn
      <4>4. work[t] = s => /\ Cardinality(WorkersOn(s) \ {t}) = Cardinality(WorkersOn(s)) - 1
                           /\ Cardinality(WorkersOn(s)) # 0
        BY <4>3, SubsolverNumbers, FS_RemoveElement, FS_EmptySet
      <4>5. in_flight'[s] = in_flight[s] - (IF work[t] = s THEN 1 ELSE 0)
        <5>1. s \in Subsolvers
          BY LoopAssumption
        <5> QED
          BY <1>1, <2>3, <3>1, <5>1
      <4>6. Cardinality(Positions(Queue, s)) \in Nat /\ Cardinality(WorkersOn(s)) \in Nat
        BY SubsolverNumbers
      <4>7. Cardinality(WorkersOn(s)') =
              Cardinality(WorkersOn(s)) - (IF work[t] = s THEN 1 ELSE 0)
        BY <4>2, <4>4, <4>6
      <4>8. Cardinality(WorkersOn(s)') \in Nat
        BY <4>4, <4>6, <4>7
      <4> QED
        BY <4>1, <4>5, <4>6, <4>7, <4>8
    <3>3. in_flight' \in [Subsolvers -> Nat]
      <4>1. in_flight'[work[t]] \in Nat
        BY <2>2, <3>2
      <4> QED
        BY <1>1, <2>3, <3>1, <4>1
    <3> QED
      BY <1>1, <2>2, <3>2, <3>3 DEF SubsolverCountInv, CountedBySubsolver
  <2> QED
    BY <2>4, <2>5
<1>5. CASE ~ Takes(t) /\ ~ LeaveTask(t)
  <2>1. Queue' = Queue /\ work' = work
    BY <1>5, ThreadDoesNotTake
  <2>2. in_flight' = in_flight
    BY <1>5 DEF ThreadNext, GetNextTask, WakeForNoReason, RunTask, countVars
  <2> QED
    BY <1>1, <2>1, <2>2 DEF SubsolverCountInv, CountedBySubsolver, WorkersOn
<1> QED
  BY <1>3, <1>4, <1>5

\* SubsolverCountInv holds throughout.
LEMMA SubsolverCountInvariant == Spec => []SubsolverCountInv
<1>1. Init => SubsolverCountInv
  <2> SUFFICES ASSUME Init PROVE SubsolverCountInv
    OBVIOUS
  <2>1. tasks = <<>> /\ to_run = <<>> /\ main # "generate" /\ in_flight = [s \in Subsolvers |-> 0]
    BY DEF Init, PoolInit
  <2>2. Queue = <<>>
    <3>1. <<>> \o <<>> = <<>>
      OBVIOUS
    <3> QED
      BY <2>1, <3>1 DEF Queue
  <2>3. ASSUME NEW s \in Tasks
        PROVE  Positions(Queue, s) = {} /\ WorkersOn(s) = {} /\ s \in Subsolvers
    <3>1. Positions(<<>>, s) = {}
      BY EmptySeq DEF Positions
    <3> QED
      BY <2>2, <3>1, ConfigurationFacts, PoolAssumption, LoopAssumption
         DEF Init, PoolInit, WorkersOn
  <2>4. Cardinality({}) = 0
    BY FS_EmptySet
  <2>5. in_flight \in [Subsolvers -> Nat]
    BY <2>1
  <2>6. ASSUME NEW s \in Tasks
        PROVE  /\ in_flight[s] = 0 /\ Cardinality(Positions(Queue, s)) = 0
               /\ Cardinality(WorkersOn(s)) = 0
    BY <2>1, <2>3, <2>4
  <2>7. ~ (main = "generate")
    BY <2>1
  <2> QED
    BY <2>5, <2>6, <2>7 DEF SubsolverCountInv, CountedBySubsolver
<1>2. FlowInv /\ SubsolverCountInv /\ [Next]_vars => SubsolverCountInv'
  <2> SUFFICES ASSUME FlowInv, SubsolverCountInv, [Next]_vars PROVE SubsolverCountInv'
    OBVIOUS
  <2> USE DEF SubsolverCountInv, CountedBySubsolver, Queue, WorkersOn, NonDeterministic
  <2>1. CASE UNCHANGED vars
    BY <2>1 DEF vars, poolVars, threadVars, mainVars, batchVars, countVars
  <2>2. CASE EndSearch
    BY <2>2 DEF EndSearch, poolVars, threadVars, mainVars, batchVars, countVars
  <2> QED
    BY <2>1, <2>2, MainStepCountsBySubsolver, ThreadStepCountsBySubsolver DEF Next, Terminated
<1> QED
  BY <1>1, <1>2, FlowInvariant, PTL DEF Spec

(* All the variables stay in their ranges; no counter ever goes under 0.   *)
THEOREM TypeCorrect == Spec => []TypeOK
<1>1. FlagsOK /\ FlowInv /\ CountInv /\ SubsolverCountInv => TypeOK
  <2> SUFFICES ASSUME FlagsOK, FlowInv, CountInv, SubsolverCountInv PROVE TypeOK
    OBVIOUS
  <2>1. num_in_flight \in Nat
    <3>1. Len(tasks) \in Nat /\ Len(to_run) \in Nat /\ Cardinality(Busy) \in Nat
      BY QueueType, Numbers
    <3>2. NonDeterministic \/ Deterministic \/ Sequential
      BY ConfigurationFacts DEF FlowInv, MainTypeOK, NonDeterministic, Deterministic, Sequential
    <3> QED
      BY <3>1, <3>2 DEF CountInv, Counted
  <2> QED
    BY <2>1 DEF TypeOK, FlowInv, SubsolverCountInv, CountsTypeOK
<1> QED
  BY <1>1, FlagsInvariant, FlowInvariant, CountInvariant, SubsolverCountInvariant, PTL

-----------------------------------------------------------------------------
(* A subsolver is freed only when nothing of it is left to do.             *)
AliveInv ==
  /\ \A i \in 1..Len(Queue) : Queue[i] \in subsolvers
  /\ \A t \in config.threads : work[t] \in subsolvers \cup {NoTask}

\* When nothing is in flight no task waits and no thread has one.
LEMMA EmptyQueue ==
  ASSUME FlowInv, CountInv, to_run = <<>>,
         \/ num_in_flight = 0 /\ (Deterministic => main # "batch")
         \/ Deterministic /\ main \notin {"schedule", "notify", "batch"}
  PROVE  Len(Queue) = 0 /\ \A t \in config.threads : work[t] = NoTask
<1>1. tasks = <<>> /\ InPool \subseteq {NoTask}
  BY NoneAtWork
<1>2. Len(Queue) = 0
  BY <1>1, QueueType, EmptySeq
<1> QED
  BY <1>1, <1>2 DEF InPool

\* Every step of the driver keeps AliveInv: a subsolver is reset only while no
\* task of it is in the pool.
LEMMA MainStepAlive ==
  ASSUME FlowInv, CountInv, SubsolverCountInv, AliveInv, MainNext
  PROVE  AliveInv'
<1>1. config' = config /\ work' = work
  BY ConfigurationIsKept, MainKeepsThreads DEF Next, FlowInv
<1>2. config.loop \in {"sequential", "deterministic", "non_deterministic"}
  BY ConfigurationFacts DEF FlowInv, MainTypeOK
<1>3. CASE GenerateTask
  <2>1. /\ best \in Tasks \cap subsolvers /\ subsolvers' = subsolvers
        /\ Queue' = Append(Queue, best)
    BY <1>3, QueueAfterMainStep DEF GenerateTask, FlowInv, BestIsAvailable
  <2>2. /\ Len(Queue') = Len(Queue) + 1 /\ Len(Queue) \in Nat
        /\ \A i \in 1..Len(Queue) : Queue'[i] = Queue[i]
        /\ Queue'[Len(Queue) + 1] = best
    BY <2>1, QueueType, AppendProperties
  <2>3. \A i \in 1..Len(Queue') : i \in 1..Len(Queue) \/ i = Len(Queue) + 1
    BY <2>2
  <2> QED
    BY <1>1, <2>1, <2>2, <2>3 DEF AliveInv
<1>4. CASE RunInline
  <2>1. subsolvers' = subsolvers /\ Queue' = <<>>
    BY <1>4, QueueAfterMainStep DEF RunInline
  <2>2. 1..Len(Queue') = {}
    BY <2>1, EmptySeq
  <2> QED
    BY <1>1, <2>1, <2>2 DEF AliveInv
<1>5. CASE Clear
  <2>1. /\ main = "clear" /\ subsolvers' = {s \in subsolvers : ~ MayBeFreed(s)}
        /\ Queue' = Queue
    BY <1>5, QueueAfterMainStep DEF Clear
  <2>2. CASE NonDeterministic
    <3>1. ASSUME NEW s \in Tasks, MayBeFreed(s)
          PROVE  /\ \A i \in 1..Len(Queue) : Queue[i] # s
                 /\ \A t \in config.threads : work[t] # s
      <4>1. Cardinality(Positions(Queue, s)) = 0 /\ Cardinality(WorkersOn(s)) = 0
        BY <2>1, <2>2, <3>1, SubsolverNumbers
           DEF MayBeFreed, SubsolverCountInv, CountedBySubsolver
      <4>2. IsFiniteSet(Positions(Queue, s)) /\ IsFiniteSet(WorkersOn(s))
        BY QueueType, PositionsAreFinite, SubsolverNumbers
      <4>3. Positions(Queue, s) = {} /\ WorkersOn(s) = {}
        BY <4>1, <4>2, FS_EmptySet
      <4> QED
        BY <4>3 DEF Positions, WorkersOn
    <3>2. \A i \in 1..Len(Queue) : Queue[i] \in Tasks
      BY QueueType, ElementOfSeq
    <3>3. \A t \in config.threads : work[t] \in Tasks \cup {NoTask}
      BY ConfigurationFacts DEF FlowInv, PoolTypeOK, MainTypeOK
    <3> QED
      BY <1>1, <2>1, <3>1, <3>2, <3>3 DEF AliveInv
  <2>3. CASE ~ NonDeterministic
    <3>1. to_run = <<>>
      BY <1>2, <2>1, <2>3
         DEF FlowInv, ToRunInv, NonDeterministic, Deterministic, Sequential
    <3>2. num_in_flight = 0
      BY <1>2, <2>1, <2>3
         DEF CountInv, Counted, NonDeterministic, Deterministic, Sequential
    <3>3. Len(Queue) = 0 /\ \A t \in config.threads : work[t] = NoTask
      BY <2>1, <3>1, <3>2, EmptyQueue
    <3> QED
      BY <1>1, <2>1, <3>3 DEF AliveInv
  <2> QED
    BY <2>2, <2>3
<1>6. CASE Join
  <2>1. main = "join" /\ Queue' = Queue
    BY <1>6, QueueAfterMainStep DEF Join
  <2>2. to_run = <<>>
    BY <1>2, <2>1 DEF FlowInv, ToRunInv, NonDeterministic, Deterministic, Sequential
  <2>3. num_in_flight = 0
    BY <1>2, <2>1 DEF CountInv, Counted, Idle, NonDeterministic, Deterministic, Sequential
  <2>4. Len(Queue) = 0 /\ \A t \in config.threads : work[t] = NoTask
    BY <2>1, <2>2, <2>3, EmptyQueue
  <2> QED
    BY <1>1, <2>1, <2>4 DEF AliveInv
<1>7. CASE ~ (GenerateTask \/ RunInline \/ Clear \/ Join)
  <2>1. subsolvers' = subsolvers /\ main \notin {"generate", "inline"}
    BY <1>7 DEF MainNext, Poll, SynchronizeOne, EndSynchronize, FindTask, FindNoTask, CountTask,
       Schedule, NotifyThreads, WaitForBatch, Finish
  <2>2. Queue' = Queue
    BY <2>1, QueueAfterMainStep
  <2> QED
    BY <1>1, <2>1, <2>2 DEF AliveInv
<1> QED
  BY <1>3, <1>4, <1>5, <1>6, <1>7

\* Every step of a thread keeps AliveInv.
LEMMA ThreadStepAlive ==
  ASSUME FlowInv, AliveInv, NEW t \in config.threads, ThreadNext(t)
  PROVE  AliveInv'
<1>1. config' = config /\ subsolvers' = subsolvers
  BY DEF ThreadNext, GetNextTask, WakeForNoReason, RunTask, LeaveTask
<1>2. /\ t \in Threads /\ work \in [Threads -> Tasks \cup {NoTask}]
      /\ config.threads \subseteq Threads /\ Queue \in Seq(Tasks)
  BY ConfigurationFacts, QueueType DEF FlowInv, PoolTypeOK, MainTypeOK
<1>3. CASE Takes(t)
  <2>1. /\ Queue # <<>> /\ Queue' = Tail(Queue)
        /\ work' = [work EXCEPT ![t] = Queue[1]]
    BY <1>3, ThreadTakes
  <2>2. /\ Len(Queue) \in Nat \ {0} /\ Len(Queue') = Len(Queue) - 1
        /\ \A i \in 1..Len(Queue') : Queue'[i] = Queue[i + 1]
    BY <1>2, <2>1, EmptySeq, HeadTailProperties
  <2>3. /\ 1 \in 1..Len(Queue)
        /\ \A i \in 1..Len(Queue') : i + 1 \in 1..Len(Queue)
    BY <2>2
  <2> QED
    BY <1>1, <1>2, <2>1, <2>2, <2>3 DEF AliveInv
<1>4. CASE ~ Takes(t)
  <2>1. Queue' = Queue /\ (work' = work \/ work' = [work EXCEPT ![t] = NoTask])
    BY <1>4, ThreadDoesNotTake
  <2> QED
    BY <1>1, <1>2, <2>1 DEF AliveInv
<1> QED
  BY <1>3, <1>4

(* ClearSubsolversThatAreDone() never frees a subsolver that has a task in *)
(* the pool.                                                               *)
THEOREM FreedSubsolversHaveNoTask == Spec => []NoTaskOfAFreedSubsolver
<1>1. Init => AliveInv
  <2> SUFFICES ASSUME Init PROVE AliveInv
    OBVIOUS
  <2>1. FlowInv /\ tasks = <<>> /\ to_run = <<>>
    BY InitFlow DEF Init, PoolInit
  <2>2. Len(Queue) = 0
    BY <2>1, QueueType, EmptySeq
  <2>3. \A t \in config.threads : work[t] = NoTask
    BY ConfigurationFacts DEF Init, PoolInit
  <2> QED
    BY <2>2, <2>3 DEF AliveInv
<1>2. FlowInv /\ CountInv /\ SubsolverCountInv /\ AliveInv /\ [Next]_vars => AliveInv'
  <2> SUFFICES ASSUME FlowInv, CountInv, SubsolverCountInv, AliveInv, [Next]_vars PROVE AliveInv'
    OBVIOUS
  <2> USE DEF AliveInv, Queue
  <2>1. CASE UNCHANGED vars
    BY <2>1 DEF vars, poolVars, threadVars, mainVars, batchVars
  <2>2. CASE EndSearch
    BY <2>2 DEF EndSearch, poolVars, threadVars, mainVars, batchVars
  <2> QED
    BY <2>1, <2>2, MainStepAlive, ThreadStepAlive DEF Next, Terminated
<1>3. FlowInv /\ AliveInv => NoTaskOfAFreedSubsolver
  BY QueueType DEF AliveInv, NoTaskOfAFreedSubsolver, InPool
<1> QED
  BY <1>1, <1>2, <1>3, FlowInvariant, CountInvariant, SubsolverCountInvariant, PTL DEF Spec

-----------------------------------------------------------------------------
(* A full solver is "completed" only when it has no task anywhere.         *)
Active == Busy \ body_done

OnceInQueue(s) == \A i, j \in 1..Len(Queue) : Queue[i] = s /\ Queue[j] = s => i = j
OnceAtWork(s) == \A t, u \in Active : work[t] = s /\ work[u] = s => t = u
NotInQueue(s) == \A i \in 1..Len(Queue) : Queue[i] # s
NotAtWork(s) == \A t \in Active : work[t] # s

UniqueInv ==
  \A s \in FullSolvers :
    /\ OnceInQueue(s) /\ OnceAtWork(s)
    /\ NotInQueue(s) \/ NotAtWork(s)
    /\ s \in completed => NotInQueue(s) /\ NotAtWork(s)

\* Every step of the driver keeps UniqueInv.
LEMMA MainStepUnique ==
  ASSUME FlowInv, UniqueInv, MainNext
  PROVE  UniqueInv'
<1>1. config' = config /\ work' = work /\ Active' = Active
  BY ConfigurationIsKept, ConfigurationFacts, MainKeepsThreads
     DEF Next, FlowInv, MainTypeOK, Active, Busy
<1>2. CASE GenerateTask
  <2>1. /\ best \in Tasks /\ (best \in FullSolvers => best \in completed)
        /\ completed' = completed \ {best}
        /\ Queue' = Append(Queue, best)
    BY <1>2, QueueAfterMainStep DEF GenerateTask, FlowInv, BestIsAvailable, StillCompleted
  <2>2. /\ Len(Queue') = Len(Queue) + 1 /\ Len(Queue) \in Nat
        /\ \A i \in 1..Len(Queue) : Queue'[i] = Queue[i]
        /\ Queue'[Len(Queue) + 1] = best
    BY <2>1, QueueType, AppendProperties
  <2>3. \A i \in 1..Len(Queue') : i \in 1..Len(Queue) \/ i = Len(Queue) + 1
    BY <2>2
  <2>4. ASSUME NEW s \in FullSolvers, s = best
        PROVE  /\ OnceInQueue(s)' /\ OnceAtWork(s)' /\ NotAtWork(s)'
               /\ s \notin completed'
    <3>1. NotInQueue(s) /\ NotAtWork(s)
      BY <2>1, <2>4 DEF UniqueInv
    <3>2. OnceInQueue(s)'
      BY <2>2, <2>3, <3>1 DEF OnceInQueue, NotInQueue
    <3> QED
      BY <1>1, <2>1, <2>4, <3>1, <3>2 DEF OnceAtWork, NotAtWork
  <2>5. ASSUME NEW s \in FullSolvers, s # best
        PROVE  /\ OnceInQueue(s)' /\ OnceAtWork(s)'
               /\ NotInQueue(s)' \/ NotAtWork(s)'
               /\ s \in completed' => NotInQueue(s)' /\ NotAtWork(s)'
    <3>1. OnceInQueue(s)'
      BY <2>2, <2>3, <2>5 DEF UniqueInv, OnceInQueue
    <3>2. NotInQueue(s) => NotInQueue(s)'
      BY <2>2, <2>3, <2>5 DEF NotInQueue
    <3>3. NotAtWork(s)' = NotAtWork(s) /\ OnceAtWork(s)' = OnceAtWork(s)
      BY <1>1 DEF NotAtWork, OnceAtWork
    <3> QED
      BY <2>1, <3>1, <3>2, <3>3 DEF UniqueInv
  <2> QED
    BY <2>4, <2>5 DEF UniqueInv
<1>3. CASE RunInline
  <2>1. main = "inline" /\ Queue' = <<>>
    BY <1>3, QueueAfterMainStep DEF RunInline
  <2>2. Sequential
    <3>1. config.loop \in {"sequential", "deterministic", "non_deterministic"}
      BY ConfigurationFacts DEF FlowInv, MainTypeOK
    <3> QED
      BY <2>1, <3>1 DEF FlowInv, ToRunInv, Sequential, NonDeterministic, Deterministic
  <2>3. Active' = {}
    BY <1>1, <2>2, ConfigurationFacts DEF Active, Busy, Sequential, FlowInv, MainTypeOK
  <2>4. 1..Len(Queue') = {}
    BY <2>1, EmptySeq
  <2> QED
    BY <2>3, <2>4 DEF UniqueInv, OnceInQueue, OnceAtWork, NotInQueue, NotAtWork
<1>4. CASE ~ (GenerateTask \/ RunInline)
  <2>1. completed' = completed /\ main \notin {"generate", "inline"}
    BY <1>4 DEF MainNext, Poll, SynchronizeOne, EndSynchronize, Clear, FindTask, FindNoTask,
       CountTask, Schedule, NotifyThreads, WaitForBatch, Finish, Join, solverVars
  <2>2. Queue' = Queue
    BY <2>1, QueueAfterMainStep
  <2> QED
    BY <1>1, <2>1, <2>2 DEF UniqueInv, OnceInQueue, OnceAtWork, NotInQueue, NotAtWork
<1> QED
  BY <1>2, <1>3, <1>4

\* Every step of a thread keeps UniqueInv.
LEMMA ThreadStepUnique ==
  ASSUME FlowInv, UniqueInv, NEW t \in config.threads, ThreadNext(t)
  PROVE  UniqueInv'
<1>1. config' = config
  BY DEF ThreadNext, GetNextTask, WakeForNoReason, RunTask, LeaveTask
<1>2. /\ t \in Threads /\ work \in [Threads -> Tasks \cup {NoTask}]
      /\ config.threads \subseteq Threads /\ Queue \in Seq(Tasks)
      /\ Active \subseteq Threads
  BY ConfigurationFacts, QueueType DEF FlowInv, PoolTypeOK, MainTypeOK, Active, Busy
<1>3. CASE Takes(t)
  <2>1. /\ Queue # <<>> /\ Queue' = Tail(Queue)
        /\ work' = [work EXCEPT ![t] = Queue[1]]
        /\ t \notin Active /\ Active' = Active \cup {t}
    BY <1>3, ThreadTakes DEF Active
  <2>2. completed' = completed
    BY <1>3 DEF Takes, GetNextTask, solverVars
  <2>3. /\ Len(Queue) \in Nat \ {0} /\ Len(Queue') = Len(Queue) - 1
        /\ \A i \in 1..Len(Queue') : Queue'[i] = Queue[i + 1]
    BY <1>2, <2>1, EmptySeq, HeadTailProperties
  <2>4. /\ 1 \in 1..Len(Queue)
        /\ \A i \in 1..Len(Queue') : i + 1 \in 1..Len(Queue) /\ i + 1 # 1
        /\ \A i, j \in 1..Len(Queue') : i + 1 = j + 1 => i = j
    BY <2>3
  <2>5. /\ work'[t] = Queue[1]
        /\ \A u \in Active : work'[u] = work[u]
    BY <1>2, <2>1
  <2>6. ASSUME NEW s \in FullSolvers
        PROVE  /\ OnceInQueue(s)' /\ OnceAtWork(s)'
               /\ NotInQueue(s)' \/ NotAtWork(s)'
               /\ s \in completed' => NotInQueue(s)' /\ NotAtWork(s)'
    <3>1. OnceInQueue(s) /\ OnceAtWork(s) /\ (NotInQueue(s) \/ NotAtWork(s))
      BY DEF UniqueInv
    <3>2. OnceInQueue(s)'
      BY <2>3, <2>4, <3>1 DEF OnceInQueue
    <3>3. CASE Queue[1] = s
      <4>1. NotAtWork(s) /\ s \notin completed
        BY <2>4, <3>1, <3>3 DEF NotInQueue, UniqueInv
      <4>2. NotInQueue(s)'
        BY <2>3, <2>4, <3>1, <3>3 DEF NotInQueue, OnceInQueue
      <4>3. OnceAtWork(s)'
        BY <2>1, <2>5, <4>1 DEF OnceAtWork, NotAtWork
      <4> QED
        BY <2>2, <3>2, <4>1, <4>2, <4>3
    <3>4. CASE Queue[1] # s
      <4>1. NotInQueue(s) => NotInQueue(s)'
        BY <2>3, <2>4 DEF NotInQueue
      <4>2. NotAtWork(s) => NotAtWork(s)'
        BY <2>1, <2>5, <3>4 DEF NotAtWork
      <4>3. OnceAtWork(s)'
        BY <2>1, <2>5, <3>1, <3>4 DEF OnceAtWork
      <4> QED
        BY <2>2, <3>1, <3>2, <4>1, <4>2, <4>3 DEF UniqueInv
    <3> QED
      BY <3>3, <3>4
  <2> QED
    BY <2>6 DEF UniqueInv
<1>4. CASE RunTask(t)
  <2>1. ~ Takes(t) /\ ~ LeaveTask(t)
    BY <1>4 DEF RunTask, Takes, TakeTask, LeaveTask
  <2>2. Queue' = Queue /\ work' = work /\ Busy' = Busy
    BY <2>1, ThreadDoesNotTake
  <2>3. t \in Active /\ Active' = Active \ {t}
    BY <1>4, <2>2 DEF RunTask, Active, Busy
  <2>4. completed' = completed \cup ({work[t]} \cap FullSolvers)
    BY <1>4 DEF RunTask, CompleteTask
  <2>5. ASSUME NEW s \in FullSolvers
        PROVE  /\ OnceInQueue(s)' /\ OnceAtWork(s)'
               /\ NotInQueue(s)' \/ NotAtWork(s)'
               /\ s \in completed' => NotInQueue(s)' /\ NotAtWork(s)'
    <3>1. OnceInQueue(s) /\ OnceAtWork(s) /\ (NotInQueue(s) \/ NotAtWork(s))
      BY DEF UniqueInv
    <3>2. OnceInQueue(s)' /\ OnceAtWork(s)'
      BY <2>2, <2>3, <3>1 DEF OnceInQueue, OnceAtWork
    <3>3. (NotInQueue(s) => NotInQueue(s)') /\ (NotAtWork(s) => NotAtWork(s)')
      BY <2>2, <2>3 DEF NotInQueue, NotAtWork
    <3>4. CASE work[t] = s
      <4>1. NotInQueue(s)
        BY <2>3, <3>1, <3>4 DEF NotAtWork
      <4>2. NotAtWork(s)'
        BY <2>2, <2>3, <3>1, <3>4 DEF NotAtWork, OnceAtWork
      <4> QED
        BY <3>2, <3>3, <4>1, <4>2
    <3>5. CASE work[t] # s
      BY <2>4, <3>1, <3>2, <3>3, <3>5 DEF UniqueInv
    <3> QED
      BY <3>4, <3>5
  <2> QED
    BY <2>5 DEF UniqueInv
<1>5. CASE ~ Takes(t) /\ ~ RunTask(t)
  <2>1. completed' = completed
    BY <1>5 DEF ThreadNext, GetNextTask, WakeForNoReason, LeaveTask, solverVars
  <2>2. Queue' = Queue
    BY <1>5, ThreadDoesNotTake
  <2>3. Active' = Active /\ \A u \in Active : work'[u] = work[u]
    <3>1. CASE LeaveTask(t)
      <4>1. t \in body_done /\ body_done' = body_done \ {t}
        BY <3>1 DEF LeaveTask
      <4>2. Busy' = Busy \ {t} /\ work' = [work EXCEPT ![t] = NoTask]
        BY <1>5, <3>1, ThreadDoesNotTake
      <4>3. Active' = Active /\ t \notin Active
        BY <4>1, <4>2 DEF Active
      <4> QED
        BY <1>2, <4>2, <4>3
    <3>2. CASE ~ LeaveTask(t)
      <4>1. Busy' = Busy /\ work' = work
        BY <1>5, <3>2, ThreadDoesNotTake
      <4>2. body_done' = body_done
        BY <1>5, <3>2 DEF ThreadNext, GetNextTask, WakeForNoReason
      <4> QED
        BY <4>1, <4>2 DEF Active
    <3> QED
      BY <3>1, <3>2
  <2>4. ASSUME NEW s \in FullSolvers
        PROVE  /\ OnceInQueue(s)' = OnceInQueue(s) /\ NotInQueue(s)' = NotInQueue(s)
               /\ OnceAtWork(s) => OnceAtWork(s)'
               /\ NotAtWork(s) => NotAtWork(s)'
    BY <2>2, <2>3 DEF OnceInQueue, NotInQueue, OnceAtWork, NotAtWork
  <2> QED
    BY <2>1, <2>4 DEF UniqueInv
<1> QED
  BY <1>3, <1>4, <1>5

(* "No need for mutex since we only run one task at the time".             *)
THEOREM FullSolversHaveOneTask == Spec => []OneTaskOfAFullSolver
<1>1. Init => UniqueInv
  <2> SUFFICES ASSUME Init PROVE UniqueInv
    OBVIOUS
  <2>1. FlowInv /\ tasks = <<>> /\ to_run = <<>>
    BY InitFlow DEF Init, PoolInit
  <2>2. 1..Len(Queue) = {}
    BY <2>1, QueueType, EmptySeq
  <2>3. Active = {}
    BY ConfigurationFacts DEF Init, PoolInit, Active, Busy
  <2> QED
    BY <2>2, <2>3 DEF UniqueInv, OnceInQueue, OnceAtWork, NotInQueue, NotAtWork
<1>2. FlowInv /\ UniqueInv /\ [Next]_vars => UniqueInv'
  <2> SUFFICES ASSUME FlowInv, UniqueInv, [Next]_vars PROVE UniqueInv'
    OBVIOUS
  <2>1. CASE UNCHANGED vars
    <3>1. Queue' = Queue /\ Active' = Active /\ work' = work /\ completed' = completed
      BY <2>1 DEF vars, poolVars, threadVars, mainVars, batchVars, solverVars, Queue, Active, Busy
    <3> QED
      BY <3>1 DEF UniqueInv, OnceInQueue, OnceAtWork, NotInQueue, NotAtWork
  <2>2. CASE EndSearch
    <3>1. Queue' = Queue /\ Active' = Active /\ work' = work /\ completed' = completed
      BY <2>2 DEF EndSearch, poolVars, threadVars, mainVars, batchVars, Queue, Active, Busy
    <3> QED
      BY <3>1 DEF UniqueInv, OnceInQueue, OnceAtWork, NotInQueue, NotAtWork
  <2> QED
    BY <2>1, <2>2, MainStepUnique, ThreadStepUnique DEF Next, Terminated
<1>3. FlowInv /\ UniqueInv => OneTaskOfAFullSolver
  <2> SUFFICES ASSUME FlowInv, UniqueInv, NEW s \in FullSolvers,
                      NEW t \in config.threads, NEW u \in config.threads,
                      work[t] = s, t \notin body_done, work[u] = s, u \notin body_done
               PROVE  t = u
    BY DEF OneTaskOfAFullSolver
  <2>1. t \in Active /\ u \in Active
    BY ConfigurationFacts, LoopAssumption, PoolAssumption
       DEF FlowInv, MainTypeOK, ThreadsInv, Active, Busy
  <2> QED
    BY <2>1 DEF UniqueInv, OnceAtWork
<1> QED
  BY <1>1, <1>2, <1>3, FlowInvariant, PTL DEF Spec

-----------------------------------------------------------------------------
(* When no task is left in the pool, SynchronizeAll() sees all the results.*)
Unsynchronized == results \cap subsolvers
StillToCall == {to_synchronize[i] : i \in 1..Len(to_synchronize)}
Settled == ~ NonDeterministic \/ all_done

SyncedInv ==
  /\ Settled /\ main = "synchronize" => Unsynchronized \subseteq StillToCall
  /\ Settled /\ main \in {"clear", "next"} => Unsynchronized = {}
  /\ ~ NonDeterministic /\ main \in {"count", "generate"} => Unsynchronized = {}
  /\ main \in {"finish", "notify_finish", "join"} => Unsynchronized = {}

\* Every step of the driver keeps SyncedInv.
LEMMA MainStepSynced ==
  ASSUME FlowInv, SyncedInv, MainNext
  PROVE  SyncedInv'
<1>1. /\ config' = config
      /\ NonDeterministic' = NonDeterministic /\ Deterministic' = Deterministic
      /\ config.loop \in {"sequential", "deterministic", "non_deterministic"}
  BY ConfigurationIsKept, ConfigurationFacts
     DEF Next, NonDeterministic, Deterministic, FlowInv, MainTypeOK
<1>2. /\ to_synchronize \in Seq(Subsolvers) /\ subsolvers \subseteq Subsolvers
      /\ results \subseteq Tasks
  BY DEF FlowInv, MainTypeOK, SolversTypeOK
<1>3. SolversTypeOK'
  BY MainStepFlow DEF FlowInv
<1>4. to_synchronize' = Order => Unsynchronized' \subseteq StillToCall'
  BY <1>3 DEF Unsynchronized, StillToCall, Subsolvers, SolversTypeOK
<1>5. CASE Poll \/ WaitForBatch \/ RunInline
  <2>1. to_synchronize' = Order /\ main' \in {"synchronize", "timeout"}
    BY <1>5 DEF Poll, WaitForBatch, RunInline
  <2> QED
    BY <1>4, <2>1 DEF SyncedInv
<1>6. CASE SynchronizeOne
  <2> DEFINE h == Head(to_synchronize)
  <2>1. /\ to_synchronize # <<>> /\ to_synchronize' = Tail(to_synchronize)
        /\ results' = results \ ({h} \cap subsolvers) /\ subsolvers' = subsolvers
        /\ main \in {"synchronize", "timeout"} /\ main' = main /\ all_done' = all_done
    BY <1>6 DEF SynchronizeOne
  <2>2. /\ Len(to_synchronize) \in Nat \ {0}
        /\ Len(to_synchronize') = Len(to_synchronize) - 1
        /\ \A i \in 1..Len(to_synchronize') : to_synchronize'[i] = to_synchronize[i + 1]
    BY <1>2, <2>1, EmptySeq, HeadTailProperties
  <2>3. h = to_synchronize[1]
    BY <1>2, <2>1
  <2>4. StillToCall \subseteq StillToCall' \cup {h}
    <3>1. ASSUME NEW i \in 1..Len(to_synchronize)
          PROVE  to_synchronize[i] \in StillToCall' \cup {h}
      <4>1. CASE i = 1
        BY <2>3, <4>1
      <4>2. CASE i > 1
        <5>1. i - 1 \in 1..Len(to_synchronize') /\ (i - 1) + 1 = i
          BY <2>2, <4>2
        <5>2. to_synchronize'[i - 1] = to_synchronize[i]
          BY <2>2, <5>1
        <5> QED
          BY <5>1, <5>2 DEF StillToCall
      <4> QED
        BY <2>2, <4>1, <4>2
    <3> QED
      BY <3>1 DEF StillToCall
  <2>5. Unsynchronized' = Unsynchronized \ {h}
    BY <2>1 DEF Unsynchronized
  <2> HIDE DEF h
  <2> QED
    BY <1>1, <2>1, <2>4, <2>5 DEF SyncedInv, Settled
<1>7. CASE EndSynchronize
  <2>1. /\ to_synchronize = <<>> /\ main \in {"synchronize", "timeout"}
        /\ main' = IF main = "timeout" THEN "poll" ELSE "clear"
        /\ Unsynchronized' = Unsynchronized /\ all_done' = all_done
    BY <1>7 DEF EndSynchronize, solverVars, Unsynchronized
  <2>2. StillToCall = {}
    <3>1. 1..Len(to_synchronize) = {}
      BY <2>1, EmptySeq
    <3> QED
      BY <3>1 DEF StillToCall
  <2> QED
    BY <1>1, <2>1, <2>2 DEF SyncedInv, Settled
<1>8. CASE Clear
  <2>1. /\ main = "clear" /\ main' = IF LastBatch THEN "finish" ELSE "next"
        /\ Unsynchronized' \subseteq Unsynchronized /\ all_done' = all_done
    BY <1>8 DEF Clear, solverVars, Unsynchronized
  <2>2. LastBatch => ~ NonDeterministic
    BY DEF LastBatch, Deterministic, NonDeterministic
  <2> QED
    BY <1>1, <2>1, <2>2 DEF SyncedInv, Settled
<1>9. CASE FindTask \/ CountTask
  <2>1. Unsynchronized' = Unsynchronized /\ all_done' = all_done
    BY <1>9 DEF FindTask, CountTask, solverVars, Unsynchronized
  <2>2. CASE FindTask
    BY <1>1, <2>1, <2>2 DEF FindTask, SyncedInv, Settled
  <2>3. CASE CountTask
    BY <1>1, <2>1, <2>3 DEF CountTask, SyncedInv, Settled
  <2> QED
    BY <1>9, <2>2, <2>3
<1>10. CASE FindNoTask
  <2>1. main = "next" /\ Unsynchronized' = Unsynchronized /\ all_done' = all_done
    BY <1>10 DEF FindNoTask, solverVars, Unsynchronized
  <2>2. /\ main' \in {"finish", "poll", "schedule", "join"}
        /\ main' \in {"finish", "join"} => Settled
    BY <1>1, <1>10, FindNoTaskGoes DEF Settled, NonDeterministic, Deterministic
  <2> QED
    BY <1>1, <2>1, <2>2 DEF SyncedInv
<1>11. CASE GenerateTask
  <2>1. main = "generate" /\ Unsynchronized' = Unsynchronized
    BY <1>11 DEF GenerateTask, Unsynchronized
  <2>2. main' \in {"schedule", "next", "inline"} /\ (main' = "next" => ~ NonDeterministic)
    BY <1>1, <1>11, GenerateTaskGoes DEF NonDeterministic, Deterministic
  <2> QED
    BY <1>1, <2>1, <2>2 DEF SyncedInv
<1>12. CASE Schedule \/ NotifyThreads \/ Finish \/ Join
  <2>1. Schedule \/ NotifyThreads \/ Finish => Unsynchronized' = Unsynchronized
    BY DEF Schedule, NotifyThreads, Finish, solverVars, Unsynchronized
  <2>2. CASE Schedule \/ Join
    BY <2>2 DEF Schedule, Join, SyncedInv
  <2>3. CASE Finish
    BY <2>1, <2>3 DEF Finish, SyncedInv
  <2>4. CASE NotifyThreads
    <3>1. /\ main' \in {"schedule", "batch", "poll", "join"}
          /\ main' = "join" => main = "notify_finish"
      BY <2>4, NotifyThreadsGoes DEF NotifyThreads
    <3> QED
      BY <2>1, <2>4, <3>1 DEF SyncedInv
  <2> QED
    BY <1>12, <2>2, <2>3, <2>4
<1> QED
  BY <1>5, <1>6, <1>7, <1>8, <1>9, <1>10, <1>11, <1>12 DEF MainNext

\* Every step of a thread keeps SyncedInv.
LEMMA ThreadStepSynced ==
  ASSUME FlowInv, CountInv, SyncedInv, NEW t \in config.threads, ThreadNext(t)
  PROVE  SyncedInv'
<1>1. /\ config' = config /\ subsolvers' = subsolvers /\ UNCHANGED mainVars
      /\ NonDeterministic' = NonDeterministic
  BY DEF ThreadNext, GetNextTask, WakeForNoReason, RunTask, LeaveTask, NonDeterministic
<1>2. CASE RunTask(t)
  <2>1. t \in Busy
    BY <1>2 DEF RunTask, Busy
  <2>2. config.loop \in {"deterministic", "non_deterministic"}
    BY ConfigurationFacts DEF FlowInv, MainTypeOK
  <2>3. /\ num_in_flight = 0 => Deterministic /\ main = "batch"
        /\ Deterministic => main \in {"schedule", "notify", "batch"}
    BY <2>1, NoneAtWork
  <2>4. /\ ~ (Settled /\ main \in {"synchronize", "clear", "next"})
        /\ ~ (~ NonDeterministic /\ main \in {"count", "generate"})
        /\ main \notin {"finish", "notify_finish", "join"}
    BY <2>2, <2>3
       DEF CountInv, Idle, FlowInv, ToRunInv, Settled, NonDeterministic, Deterministic
  <2> QED
    BY <1>1, <2>4 DEF SyncedInv, Settled, mainVars
<1>3. CASE ~ RunTask(t)
  <2>1. results' = results
    BY <1>3 DEF ThreadNext, GetNextTask, WakeForNoReason, LeaveTask, solverVars
  <2> QED
    BY <1>1, <2>1 DEF SyncedInv, Settled, mainVars, Unsynchronized, StillToCall
<1> QED
  BY <1>2, <1>3

(* The loop ends when no task is left and the results of all have been     *)
(* incorporated by those that are not freed.                               *)
THEOREM AllIsSynchronized == Spec => []AllIsSynchronizedAtTheEnd
<1>1. Init => SyncedInv
  BY DEF Init, SyncedInv, Unsynchronized, NonDeterministic
<1>2. FlowInv /\ CountInv /\ SyncedInv /\ [Next]_vars => SyncedInv'
  <2> SUFFICES ASSUME FlowInv, CountInv, SyncedInv, [Next]_vars PROVE SyncedInv'
    OBVIOUS
  <2> USE DEF SyncedInv, Settled, Unsynchronized, StillToCall, NonDeterministic
  <2>1. CASE UNCHANGED vars
    BY <2>1 DEF vars, mainVars, solverVars
  <2>2. CASE EndSearch
    BY <2>2 DEF EndSearch, mainVars
  <2> QED
    BY <2>1, <2>2, MainStepSynced, ThreadStepSynced DEF Next, Terminated
<1>3. FlowInv /\ CountInv /\ SyncedInv => AllIsSynchronizedAtTheEnd
  <2> SUFFICES ASSUME FlowInv, CountInv, SyncedInv, main \in {"finish", "notify_finish", "join"}
               PROVE  InPool \subseteq {NoTask} /\ results \cap subsolvers = {}
    BY DEF AllIsSynchronizedAtTheEnd
  <2>1. num_in_flight = 0
    BY ConfigurationFacts DEF FlowInv, MainTypeOK, CountInv, Counted, Idle,
       NonDeterministic, Deterministic, Sequential
  <2> QED
    BY <2>1, NoneAtWork DEF SyncedInv, Unsynchronized
<1> QED
  BY <1>1, <1>2, <1>3, FlowInvariant, CountInvariant, PTL DEF Spec
=============================================================================
