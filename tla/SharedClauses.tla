--------------------------- MODULE SharedClauses ---------------------------
(***************************************************************************)
(* SharedClausesManager of ortools/sat/synchronization.{h,cc}: the binary  *)
(* and the glue clauses that the full workers of a CP-SAT search learn,    *)
(* export, and import when they are at level zero.                         *)
(*                                                                         *)
(* Every method takes mutex_ and is one action, but for Synchronize(),     *)
(* which takes it twice.  A worker is its own id.  The deque batches_ is   *)
(* only pushed at one end and popped at the other, so it is described by   *)
(* how many batches went through each end: batches are numbered from 1 in  *)
(* the order they were merged, and batches_[i] is number erased + i + 1.   *)
(***************************************************************************)
EXTENDS Integers, Sequences, FiniteSets

CONSTANTS
  Workers,             \* full workers of the search
  FirstSolutionWorkers,\* those with stop_at_first_solution_
  Clauses,             \* binary clauses, each with its literals in order
  MinBatches,          \* kMinBatches
  MaxBatches           \* bound: the glue batches of one search

ASSUME ClausesAssumption ==
  /\ IsFiniteSet(Workers)
  /\ FirstSolutionWorkers \subseteq Workers
  /\ MinBatches \in Nat /\ MaxBatches \in Nat

VARIABLES
  always_synchronize,  \* always_synchronize_
  share_glue_clauses,  \* the parameter
  worker,              \* what each worker is doing
  main,                \* where the main thread is on its way to synchronize
  added,               \* added_binary_clauses_, also its set
  last_visible,        \* last_visible_binary_clause_
  last_processed,      \* id_to_last_processed_binary_clause_
  num_pending,         \* the length of pending_batches_
  has_pending,         \* pending_batches_ holds a clause
  merging,             \* batches_to_merge holds a clause
  merged, erased,      \* the batches pushed to and popped from batches_
  last_returned,       \* id_to_last_returned_batch_
  last_finished,       \* id_to_last_finished_batch_
  derived,             \* history: the binary clauses a worker learned itself
  imported,            \* history: those it was given, in order
  last_read            \* history: the number of the last batch it was given

configVars == <<always_synchronize, share_glue_clauses>>
binaryVars == <<added, last_visible, last_processed, derived, imported>>
pendingVars == <<num_pending, has_pending>>
glueVars ==
  <<pendingVars, merging, merged, erased, last_returned, last_finished, last_read>>
vars == <<configVars, worker, main, binaryVars, glueVars>>

NumBatches == merged - erased
Elements(s) == {s[i] : i \in 1..Len(s)}
Smaller(a, b) == IF a <= b THEN a ELSE b

Registered == {w \in Workers : worker[w] # "new"}

(* The argument of RegisterNewId().  FullProblemSolver asks has_objective()*)
(* of the CpModelProto that GetOrCreate() finds in the local model.  None  *)
(* was ever registered there, so it is a new and empty one.                *)
LocalProtoHasObjective == FALSE
MayTerminateEarly(w) == w \in FirstSolutionWorkers /\ LocalProtoHasObjective

(* num_full_workers_                                                       *)
NumFullWorkers == Cardinality({w \in Registered : ~ MayTerminateEarly(w)})

(* The interleaved search synchronizes between two batches of tasks only.  *)
TasksMayRun == always_synchronize \/ main = "search"
Searching(w) == worker[w] = "searching" /\ TasksMayRun

Init ==
  /\ always_synchronize \in BOOLEAN /\ share_glue_clauses \in BOOLEAN
  /\ worker = [w \in Workers |-> "new"]
  /\ main = "search"
  /\ added = <<>> /\ last_visible = 0
  /\ last_processed = [w \in Workers |-> 0]
  /\ num_pending = 0 /\ has_pending = FALSE /\ merging = FALSE
  /\ merged = 0 /\ erased = 0
  /\ last_returned = [w \in Workers |-> -1]
  /\ last_finished = [w \in Workers |-> -1]
  /\ derived = [w \in Workers |-> {}]
  /\ imported = [w \in Workers |-> <<>>]
  /\ last_read = [w \in Workers |-> 0]

-----------------------------------------------------------------------------
(* Mistake: a worker that comes late is spared the older clauses.          *)
MistakeFirstToProcess == last_visible
FirstToProcess == 0

(* RegisterNewId(), when the task of w has loaded the model.               *)
RegisterNewId(w) ==
  /\ worker[w] = "new"
  /\ TasksMayRun
  /\ worker' = [worker EXCEPT ![w] = "searching"]
  /\ last_processed' = [last_processed EXCEPT ![w] = FirstToProcess]
  /\ last_returned' = [last_returned EXCEPT ![w] = -1]
  /\ last_finished' = [last_finished EXCEPT ![w] = -1]
  /\ last_read' = [last_read EXCEPT ![w] = erased]
  /\ UNCHANGED <<configVars, main, added, last_visible, derived, imported,
                 pendingVars, merging, merged, erased>>

(* Mistake: whoever adds a clause is taken to have seen those before it.   *)
MistakeProcessedAfterAdding(processed, size) == size + 1

(* "If the worker is already up to date with clauses to import, we can     *)
(* mark this new clause as already seen."                                  *)
ProcessedAfterAdding(processed, size) ==
  IF processed = size THEN processed + 1 ELSE processed

(* AddBinaryClause(), which the search of w calls for a clause it learned. *)
AddBinaryClause(w, c) ==
  /\ Searching(w)
  /\ derived' = [derived EXCEPT ![w] = @ \cup {c}]
  /\ IF c \in Elements(added)
     THEN UNCHANGED <<added, last_visible, last_processed>>
     ELSE /\ added' = Append(added, c)
          /\ last_visible' = IF always_synchronize THEN last_visible + 1
                                                   ELSE last_visible
          /\ last_processed' = [last_processed EXCEPT
                                  ![w] = ProcessedAfterAdding(@, Len(added))]
  /\ UNCHANGED <<configVars, worker, main, imported, glueVars>>

(* The clauses a worker is given of those that are visible in s.           *)
Unseen(processed, s) == SubSeq(s, processed + 1, Len(s))

ProcessedAfterImport == last_visible

(* GetUnseenBinaryClauses().  When glue clauses are shared too, the worker *)
(* goes on with them before it searches again.                             *)
GetUnseenBinaryClauses(w) ==
  /\ Searching(w)
  /\ IF last_processed[w] >= last_visible
     THEN UNCHANGED <<last_processed, imported>>
     ELSE /\ imported' = [imported EXCEPT
               ![w] = @ \o Unseen(last_processed[w], SubSeq(added, 1, last_visible))]
          /\ last_processed' = [last_processed EXCEPT ![w] = ProcessedAfterImport]
  /\ worker' = [worker EXCEPT
       ![w] = IF share_glue_clauses THEN "importing" ELSE "searching"]
  /\ UNCHANGED <<configVars, main, added, last_visible, derived, glueVars>>

(* AddBatch(): the stream of w may have nothing to export.                 *)
AddBatch(w, has_clauses) ==
  /\ share_glue_clauses
  /\ Searching(w)
  /\ merged + num_pending + (IF merging THEN 1 ELSE 0) < MaxBatches
  /\ num_pending' = num_pending + 1
  /\ has_pending' = (has_pending \/ has_clauses)
  /\ UNCHANGED <<configVars, worker, main, binaryVars, merging, merged, erased,
                 last_returned, last_finished, last_read>>

(* Mistake: off by one, the newest batch is never handed out in time.      *)
MistakeHasUnseenBatch(w) == last_returned[w] + 1 <= NumBatches
HasUnseenBatch(w) == last_returned[w] + 1 < NumBatches

(* GetUnseenClauses().  What it returns refers to an element of batches_,  *)
(* which the worker reads after mutex_ is released, until the next call.   *)
GetUnseenClauses(w) ==
  /\ worker[w] = "importing"
  /\ last_finished' = [last_finished EXCEPT ![w] = last_returned[w]]
  /\ IF HasUnseenBatch(w)
     THEN /\ last_returned' = [last_returned EXCEPT ![w] = @ + 1]
          /\ last_read' = [last_read EXCEPT ![w] = erased + last_returned[w] + 2]
          /\ UNCHANGED worker
     ELSE /\ worker' = [worker EXCEPT ![w] = "searching"]
          /\ UNCHANGED <<last_returned, last_read>>
  /\ UNCHANGED <<configVars, main, binaryVars, pendingVars, merging, merged, erased>>

(* A search for a first solution is over; so is one that an import refutes.*)
Leave(w) ==
  /\ \/ w \in FirstSolutionWorkers /\ worker[w] = "searching"
     \/ worker[w] = "importing"
  /\ worker' = [worker EXCEPT ![w] = "gone"]
  /\ UNCHANGED <<configVars, main, binaryVars, glueVars>>

-----------------------------------------------------------------------------
(* Mistake: a batch that was returned is taken to have been read.          *)
MistakeConsumedBy(w) == last_returned[w] + 1

(* The batches that w will not look at any more.                           *)
ConsumedBy(w) == last_finished[w] + 1

(* The number of batches Synchronize() erases: "min finished batch doesn't *)
(* count workers that haven't registered yet".                             *)
IsNumToErase(n) ==
  IF NumBatches <= MinBatches
  THEN n = 0
  ELSE /\ \A w \in Registered : n <= ConsumedBy(w)
       /\ n <= NumBatches - MinBatches
       /\ \/ n = NumBatches - MinBatches
          \/ \E w \in Registered : n = ConsumedBy(w)

(* Mistake: the indices are not moved with the batches.                    *)
MistakeShifted(index, n) == index
Shifted(index, n) == [w \in Workers |->
                        IF w \in Registered THEN index[w] - n ELSE index[w]]

(* The tasks of an interleaved search have used up their time: they finish *)
(* the import they are in and end.                                         *)
EndTasks ==
  /\ ~ always_synchronize
  /\ main = "search"
  /\ main' = "wait"
  /\ UNCHANGED <<configVars, worker, binaryVars, glueVars>>

(* The first critical section of Synchronize().                            *)
CollectBatches ==
  /\ IF always_synchronize
     THEN main = "search"
     ELSE main = "wait" /\ \A w \in Workers : worker[w] # "importing"
  /\ last_visible' = Len(added)
  /\ IF Cardinality(Registered) <= 1
     THEN main' = "search" /\ UNCHANGED glueVars
     ELSE /\ main' = "merge"
          /\ IF num_pending >= NumFullWorkers
             THEN merging' = has_pending /\ num_pending' = 0 /\ has_pending' = FALSE
             ELSE merging' = FALSE /\ UNCHANGED pendingVars
          /\ \E n \in 0..NumBatches :
               /\ IsNumToErase(n)
               /\ erased' = erased + n
               /\ last_returned' = Shifted(last_returned, n)
               /\ last_finished' = Shifted(last_finished, n)
          /\ UNCHANGED <<merged, last_read>>
  /\ UNCHANGED <<configVars, worker, added, last_processed, derived, imported>>

(* The second one: the clauses that were collected become one batch.       *)
MergeBatches ==
  /\ main = "merge"
  /\ merged' = IF merging THEN merged + 1 ELSE merged
  /\ merging' = FALSE
  /\ main' = "search"
  /\ UNCHANGED <<configVars, worker, binaryVars, pendingVars, erased, last_returned,
                 last_finished, last_read>>

WorkerNext(w) ==
  \/ RegisterNewId(w)
  \/ \E c \in Clauses : AddBinaryClause(w, c)
  \/ GetUnseenBinaryClauses(w)
  \/ \E has_clauses \in BOOLEAN : AddBatch(w, has_clauses)
  \/ GetUnseenClauses(w)
  \/ Leave(w)

Synchronize == EndTasks \/ CollectBatches \/ MergeBatches

Next == Synchronize \/ \E w \in Workers : WorkerNext(w)

Spec == Init /\ [][Next]_vars

(* A worker that searches comes back to level zero, where it imports, and  *)
(* the main thread synchronizes again and again: all the time, or when the *)
(* tasks of an interleaved search have used up their deterministic time.   *)
Fairness ==
  /\ WF_vars(Synchronize)
  /\ \A w \in Workers : SF_vars(GetUnseenBinaryClauses(w))
                        /\ WF_vars(GetUnseenClauses(w))

FairSpec == Spec /\ Fairness

-----------------------------------------------------------------------------
WorkerStates == {"new", "searching", "importing", "gone"}

FlagsOK ==
  /\ always_synchronize \in BOOLEAN /\ share_glue_clauses \in BOOLEAN
  /\ has_pending \in BOOLEAN /\ merging \in BOOLEAN
  /\ worker \in [Workers -> WorkerStates] /\ main \in {"search", "wait", "merge"}

BinaryTypeOK ==
  /\ added \in Seq(Clauses)
  /\ last_visible \in 0..Len(added)
  /\ last_processed \in [Workers -> 0..Len(added)]
  /\ derived \in [Workers -> SUBSET Clauses]
  /\ imported \in [Workers -> Seq(Clauses)]

GlueTypeOK ==
  /\ num_pending \in Nat
  /\ merged \in Nat /\ erased \in 0..merged
  /\ {last_returned, last_finished, last_read} \subseteq [Workers -> Int]
  /\ \A w \in Workers :
       /\ last_finished[w] \in -1..NumBatches - 1
       /\ last_returned[w] \in last_finished[w]..NumBatches - 1

(* Types, with the indices into the two arrays in their ranges.            *)
TypeOK == FlagsOK /\ BinaryTypeOK /\ GlueTypeOK

(* "It is exact for binary clauses": a clause that a worker will not be    *)
(* given any more was given to it before, or is one it learned itself; and *)
(* none is given to it twice.                                              *)
BinaryClausesAreExact ==
  \A w \in Workers :
    /\ \A i \in 1..last_processed[w] :
         added[i] \in derived[w] \cup Elements(imported[w])
    /\ \A i, j \in 1..Len(imported[w]) : imported[w][i] = imported[w][j] => i = j

(* "make sure we don't erase any batch that a worker might currently be    *)
(* reading": it is still where the index of the worker says.               *)
BatchBeingReadIsKept ==
  \A w \in Workers :
    last_finished[w] < last_returned[w] =>
      /\ last_read[w] \in erased + 1 .. merged
      /\ last_read[w] = erased + last_returned[w] + 1

(* A worker is given the glue batches one after the other, none skipped    *)
(* and none twice, from the oldest that was kept when it registered.       *)
BatchesAreReadInOrder ==
  [][\A w \in Registered :
       last_read'[w] # last_read[w] => last_read'[w] = last_read[w] + 1]_vars

(* "The search is deterministic (independently of num_workers!)": when it  *)
(* is interleaved two tasks may each add a clause before the next call of  *)
(* Synchronize().  Whichever comes first, the workers are then given the   *)
(* same.                                                                   *)
ImportsDoNotDependOnTheOrderOfCalls ==
  ~ always_synchronize =>
    \A v, w \in Workers, c, d \in Clauses \ Elements(added) :
      Searching(v) /\ Searching(w) /\ v # w /\ c # d =>
        LET size == Len(added)
            earlier == ProcessedAfterAdding(last_processed[v], size)
            later == ProcessedAfterAdding(last_processed[v], size + 1)
        IN Unseen(earlier, added \o <<c, d>>) = Unseen(later, added \o <<d, c>>)

(* "may_terminate_early": pending batches are merged as soon as there are  *)
(* as many as workers that search to the end; one that may be gone already *)
(* is not waited for.                                                      *)
OnlyFullWorkersAreWaitedFor ==
  [][main' = "merge" /\ main # "merge"
       /\ num_pending >= Cardinality(Registered \ FirstSolutionWorkers)
     => num_pending' = 0]_vars

(* A worker whose search goes on gets every binary clause in the end, also *)
(* those that were added before it registered.                             *)
Knows(w, c) == c \in derived[w] \cup Elements(imported[w])

EveryClauseIsShared ==
  \A w \in Workers, c \in Clauses :
    w \in Registered /\ c \in Elements(added)
      ~> Knows(w, c) \/ worker[w] = "gone"
=============================================================================
