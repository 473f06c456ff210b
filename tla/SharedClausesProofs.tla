------------------------ MODULE SharedClausesProofs ------------------------
(***************************************************************************)
(* The indices of SharedClausesManager, for every set of workers and every *)
(* number of batches: they stay in their ranges, a batch that is being     *)
(* read is kept, batches are read in order, and binary clauses are given   *)
(* once each.                                                              *)
(*                                                                         *)
(* The index of a worker into batches_ says the same at any time as the    *)
(* number of the last batch it was given, if the batches that were erased  *)
(* are counted; those of a worker that did not register say nothing, and   *)
(* are not moved.  The clauses that a worker was given are all among the   *)
(* first of the array, up to its index.                                    *)
(***************************************************************************)
EXTENDS SharedClauses, SequenceTheorems, TLAPS

(* The index of a worker, and the number of the batch it stands for.       *)
IndexIsLastRead ==
  \A w \in Registered : last_read[w] = erased + last_returned[w] + 1

(* What RegisterNewId() finds.                                             *)
IndicesOfNewWorkers ==
  \A w \in Workers :
    worker[w] = "new" => last_returned[w] = -1 /\ last_finished[w] = -1
NewWorkersImportedNothing ==
  \A w \in Workers : worker[w] = "new" => imported[w] = <<>>

GlueInv == GlueTypeOK /\ IndexIsLastRead /\ IndicesOfNewWorkers

(* Clauses are added once, and given from the front.                       *)
AddedOnce == \A i, j \in 1..Len(added) : added[i] = added[j] => i = j

ImportedAreProcessed ==
  \A w \in Workers : \A k \in 1..Len(imported[w]) :
    \E i \in 1..last_processed[w] : imported[w][k] = added[i]

BinaryInv ==
  /\ BinaryTypeOK /\ NewWorkersImportedNothing
  /\ AddedOnce /\ ImportedAreProcessed /\ BinaryClausesAreExact

-----------------------------------------------------------------------------
(* GetUnseenBinaryClauses() returns the visible clauses from an index on.  *)
LEMMA UnseenClauses ==
  ASSUME BinaryTypeOK, NEW w \in Workers, last_processed[w] < last_visible,
         NEW u, u = Unseen(last_processed[w], SubSeq(added, 1, last_visible))
  PROVE  /\ u \in Seq(Clauses)
         /\ Len(u) = last_visible - last_processed[w]
         /\ \A i \in 1..Len(u) : u[i] = added[last_processed[w] + i]
<1> DEFINE v == SubSeq(added, 1, last_visible)
           p == last_processed[w]
<1>1. /\ added \in Seq(Clauses) /\ Len(added) \in Nat
      /\ p \in Nat /\ last_visible \in Nat
      /\ p < last_visible /\ last_visible <= Len(added)
      /\ \A i \in 1..Len(added) : added[i] \in Clauses
  BY DEF BinaryTypeOK
<1>2. /\ v \in Seq(Clauses) /\ Len(v) = last_visible
      /\ \A i \in 1..last_visible : v[i] = added[i]
  BY <1>1, SubSeqProperties, Z3
<1>3. u = SubSeq(v, p + 1, last_visible)
  BY <1>2 DEF Unseen
<1> HIDE DEF v, p
<1>4. \A i \in p + 1 .. last_visible : v[i] \in Clauses
  BY <1>1, <1>2
<1>5. /\ u \in Seq(Clauses) /\ Len(u) = last_visible - p
      /\ \A i \in 1 .. last_visible - (p + 1) + 1 : u[i] = v[p + 1 + i - 1]
  <2>1. p + 1 \in Int /\ last_visible \in Int /\ p + 1 <= last_visible
        /\ last_visible - (p + 1) + 1 = last_visible - p
    BY <1>1
  <2>2. /\ SubSeq(v, p + 1, last_visible) \in Seq(Clauses)
        /\ Len(SubSeq(v, p + 1, last_visible)) =
             IF p + 1 <= last_visible THEN last_visible - (p + 1) + 1 ELSE 0
        /\ \A i \in 1 .. last_visible - (p + 1) + 1 :
             SubSeq(v, p + 1, last_visible)[i] = v[p + 1 + i - 1]
    BY <2>1, <1>4, SubSeqProperties, Z3
  <2> QED
    BY <2>1, <2>2, <1>3
<1>6. ASSUME NEW i \in 1..Len(u) PROVE u[i] = added[p + i]
  <2>1. /\ i \in 1 .. last_visible - (p + 1) + 1
        /\ p + 1 + i - 1 = p + i /\ p + i \in 1..last_visible
    BY <1>1, <1>5
  <2> QED
    BY <1>2, <1>5, <2>1
<1> QED
  BY <1>5, <1>6 DEF p

-----------------------------------------------------------------------------
(* Flags, and what workers and the main thread are doing.                  *)
LEMMA FlagsInvariant == Spec => []FlagsOK
<1>1. Init => FlagsOK
  BY DEF Init, FlagsOK, WorkerStates
<1>2. FlagsOK /\ [Next]_vars => FlagsOK'
  <2> SUFFICES ASSUME FlagsOK, [Next]_vars PROVE FlagsOK'
    OBVIOUS
  <2> USE DEF FlagsOK, WorkerStates, configVars, binaryVars, pendingVars, glueVars
  <2>1. CASE UNCHANGED vars
    BY <2>1 DEF vars
  <2>2. ASSUME NEW w \in Workers, WorkerNext(w) PROVE FlagsOK'
    BY <2>2 DEF WorkerNext, RegisterNewId, AddBinaryClause, GetUnseenBinaryClauses, AddBatch,
       GetUnseenClauses, Leave
  <2>3. CASE Synchronize
    BY <2>3 DEF Synchronize, EndTasks, CollectBatches, MergeBatches
  <2> QED
    BY <2>1, <2>2, <2>3 DEF Next
<1> QED
  BY <1>1, <1>2, PTL DEF Spec

-----------------------------------------------------------------------------
(* The indices into batches_.                                              *)

(* RegisterNewId().                                                        *)
LEMMA RegistrationKeepsIndices ==
  ASSUME FlagsOK, GlueInv, NEW v \in Workers, RegisterNewId(v)
  PROVE  GlueInv'
<1>1. /\ Registered' = Registered \cup {v} /\ v \notin Registered
      /\ erased' = erased /\ NumBatches' = NumBatches
  BY DEF RegisterNewId, FlagsOK, Registered, NumBatches
<1>2. /\ last_returned' = last_returned /\ last_finished' = last_finished
      /\ last_read' = [last_read EXCEPT ![v] = erased] /\ last_returned[v] = -1
  BY DEF RegisterNewId, GlueInv, GlueTypeOK, IndicesOfNewWorkers
<1>3. GlueTypeOK'
  BY <1>1, <1>2 DEF GlueInv, GlueTypeOK, RegisterNewId, pendingVars
<1>4. IndexIsLastRead'
  BY <1>1, <1>2 DEF GlueInv, GlueTypeOK, IndexIsLastRead, Registered
<1>5. IndicesOfNewWorkers'
  BY <1>2 DEF GlueInv, IndicesOfNewWorkers, RegisterNewId, FlagsOK
<1> QED
  BY <1>3, <1>4, <1>5 DEF GlueInv

(* GetUnseenClauses().                                                     *)
LEMMA ReadingKeepsIndices ==
  ASSUME FlagsOK, GlueInv, NEW v \in Workers, GetUnseenClauses(v)
  PROVE  GlueInv'
<1>1. /\ Registered' = Registered /\ v \in Registered
      /\ erased' = erased /\ merged' = merged /\ NumBatches' = NumBatches
      /\ NumBatches \in Nat /\ erased \in Nat
  BY DEF GetUnseenClauses, FlagsOK, Registered, NumBatches, GlueInv, GlueTypeOK
<1>2. /\ last_finished' = [last_finished EXCEPT ![v] = last_returned[v]]
      /\ \/ /\ last_returned[v] + 1 < NumBatches
            /\ last_returned' = [last_returned EXCEPT ![v] = last_returned[v] + 1]
            /\ last_read' = [last_read EXCEPT ![v] = erased + last_returned[v] + 2]
         \/ UNCHANGED <<last_returned, last_read>>
  BY DEF GetUnseenClauses, HasUnseenBatch
<1>3. GlueTypeOK'
  BY <1>1, <1>2 DEF GlueInv, GlueTypeOK, GetUnseenClauses, pendingVars
<1>4. IndexIsLastRead'
  BY <1>1, <1>2 DEF GlueInv, GlueTypeOK, IndexIsLastRead, Registered
<1>5. IndicesOfNewWorkers'
  BY <1>1, <1>2 DEF GlueInv, IndicesOfNewWorkers, Registered, GlueTypeOK
<1> QED
  BY <1>3, <1>4, <1>5 DEF GlueInv

(* The first critical section of Synchronize() erases what all the workers *)
(* have read, and moves their indices by as much.                          *)
LEMMA ErasingKeepsIndices ==
  ASSUME FlagsOK, GlueInv, CollectBatches
  PROVE  GlueInv'
<1>1. /\ Registered' = Registered /\ worker' = worker
      /\ merged' = merged /\ last_read' = last_read
      /\ NumBatches \in Nat /\ erased \in Nat /\ merged \in Nat /\ NumBatches = merged - erased
      /\ num_pending' \in Nat
  BY DEF CollectBatches, glueVars, pendingVars, Registered, NumBatches, GlueInv, GlueTypeOK
<1>2. CASE UNCHANGED glueVars
  BY <1>1, <1>2 DEF glueVars, pendingVars, GlueInv, GlueTypeOK, IndexIsLastRead,
     IndicesOfNewWorkers, NumBatches
<1>3. ASSUME NEW n \in 0..NumBatches, IsNumToErase(n),
             erased' = erased + n,
             last_returned' = Shifted(last_returned, n),
             last_finished' = Shifted(last_finished, n)
      PROVE  GlueInv'
  <2>1. /\ NumBatches' = NumBatches - n
        /\ \A w \in Registered : n <= last_finished[w] + 1
    <3>1. NumBatches' = NumBatches - n
      BY <1>1, <1>3 DEF NumBatches
    <3>2. \A w \in Workers : last_finished[w] \in -1..NumBatches - 1
      BY DEF GlueInv, GlueTypeOK
    <3> QED
      BY <1>3, <3>1, <3>2 DEF IsNumToErase, ConsumedBy, Registered
  <2>2. \A w \in Workers :
          IF w \in Registered
          THEN last_returned'[w] = last_returned[w] - n /\ last_finished'[w] = last_finished[w] - n
          ELSE last_returned'[w] = -1 /\ last_finished'[w] = -1
    BY <1>3 DEF Shifted, Registered, GlueInv, IndicesOfNewWorkers
  <2>3. GlueTypeOK'
    <3>1. /\ last_returned' \in [Workers -> Int] /\ last_finished' \in [Workers -> Int]
          /\ last_read' \in [Workers -> Int]
      BY <1>1, <1>3 DEF Shifted, GlueInv, GlueTypeOK
    <3>2. \A w \in Workers :
            /\ last_finished'[w] \in -1..NumBatches' - 1
            /\ last_returned'[w] \in last_finished'[w]..NumBatches' - 1
      BY <1>1, <1>3, <2>1, <2>2 DEF GlueInv, GlueTypeOK
    <3>3. num_pending' \in Nat /\ merged' \in Nat /\ erased' \in 0..merged'
      BY <1>1, <1>3
    <3> QED
      BY <3>1, <3>2, <3>3 DEF GlueTypeOK
  <2>4. IndexIsLastRead'
    BY <1>1, <1>3, <2>2 DEF GlueInv, GlueTypeOK, IndexIsLastRead, Registered
  <2>5. IndicesOfNewWorkers'
    BY <1>1, <2>2 DEF IndicesOfNewWorkers, Registered
  <2> QED
    BY <2>3, <2>4, <2>5 DEF GlueInv
<1> QED
  BY <1>2, <1>3 DEF CollectBatches

(* The steps that move no index: only more batches may be there.           *)
LEMMA OtherStepsKeepIndices ==
  ASSUME GlueInv, merged' \in {merged, merged + 1}, num_pending' \in Nat,
         UNCHANGED <<erased, last_returned, last_finished, last_read>>,
         \A w \in Workers : worker[w] = "new" <=> worker'[w] = "new"
  PROVE  GlueInv'
<1>1. /\ Registered' = Registered
      /\ merged \in Nat /\ erased \in 0..merged
      /\ NumBatches' \in {NumBatches, NumBatches + 1} /\ NumBatches \in Nat
  BY DEF GlueInv, GlueTypeOK, NumBatches, Registered
<1>2. GlueTypeOK'
  BY <1>1 DEF GlueInv, GlueTypeOK
<1>3. IndexIsLastRead' /\ IndicesOfNewWorkers'
  BY <1>1 DEF GlueInv, IndexIsLastRead, IndicesOfNewWorkers
<1> QED
  BY <1>2, <1>3 DEF GlueInv

\* GlueInv holds throughout.
LEMMA GlueInvariant == Spec => []GlueInv
<1>1. Init => GlueInv
  <2> SUFFICES ASSUME Init PROVE GlueInv
    OBVIOUS
  <2>1. NumBatches = 0 /\ Registered = {}
    BY DEF Init, NumBatches, Registered
  <2> QED
    BY <2>1 DEF Init, GlueInv, GlueTypeOK, IndexIsLastRead, IndicesOfNewWorkers
<1>2. FlagsOK /\ GlueInv /\ [Next]_vars => GlueInv'
  <2> SUFFICES ASSUME FlagsOK, GlueInv, [Next]_vars PROVE GlueInv'
    OBVIOUS
  <2>1. num_pending \in Nat /\ num_pending + 1 \in Nat
    BY DEF GlueInv, GlueTypeOK
  <2>2. CASE UNCHANGED vars
    BY <2>1, <2>2, OtherStepsKeepIndices DEF vars, glueVars, pendingVars
  <2>3. ASSUME NEW w \in Workers, WorkerNext(w) PROVE GlueInv'
    <3>1. CASE RegisterNewId(w)
      BY <3>1, RegistrationKeepsIndices
    <3>2. CASE GetUnseenClauses(w)
      BY <3>2, ReadingKeepsIndices
    <3>3. ASSUME NEW c \in Clauses, AddBinaryClause(w, c) PROVE GlueInv'
      BY <2>1, <3>3, OtherStepsKeepIndices DEF AddBinaryClause, glueVars, pendingVars
    <3>4. CASE GetUnseenBinaryClauses(w)
      BY <2>1, <3>4, OtherStepsKeepIndices
         DEF GetUnseenBinaryClauses, Searching, FlagsOK, glueVars, pendingVars
    <3>5. ASSUME NEW has_clauses \in BOOLEAN, AddBatch(w, has_clauses) PROVE GlueInv'
      BY <2>1, <3>5, OtherStepsKeepIndices DEF AddBatch
    <3>6. CASE Leave(w)
      BY <2>1, <3>6, OtherStepsKeepIndices DEF Leave, FlagsOK, glueVars, pendingVars
    <3> QED
      BY <2>3, <3>1, <3>2, <3>3, <3>4, <3>5, <3>6 DEF WorkerNext
  <2>4. CASE EndTasks
    BY <2>1, <2>4, OtherStepsKeepIndices DEF EndTasks, glueVars, pendingVars
  <2>5. CASE CollectBatches
    BY <2>5, ErasingKeepsIndices
  <2>6. CASE MergeBatches
    BY <2>1, <2>6, OtherStepsKeepIndices DEF MergeBatches, pendingVars
  <2> QED
    BY <2>2, <2>3, <2>4, <2>5, <2>6 DEF Next, Synchronize
<1> QED
  BY <1>1, <1>2, FlagsInvariant, PTL DEF Spec

(* A batch that a worker may be reading, without the mutex, is where its   *)
(* index says, however many batches were erased since it got it.           *)
THEOREM BatchesBeingReadAreKept == Spec => []BatchBeingReadIsKept
<1>1. FlagsOK /\ GlueInv => BatchBeingReadIsKept
  <2> SUFFICES ASSUME FlagsOK, GlueInv, NEW w \in Workers,
                      last_finished[w] < last_returned[w]
               PROVE  /\ last_read[w] \in erased + 1 .. merged
                      /\ last_read[w] = erased + last_returned[w] + 1
    BY DEF BatchBeingReadIsKept
  <2>1. /\ last_finished[w] \in -1..NumBatches - 1
        /\ last_returned[w] \in last_finished[w]..NumBatches - 1
        /\ merged \in Nat /\ erased \in Nat /\ NumBatches = merged - erased
    BY DEF GlueInv, GlueTypeOK, NumBatches
  <2>2. w \in Registered
    BY <2>1 DEF GlueInv, IndicesOfNewWorkers, Registered
  <2> QED
    BY <2>1, <2>2 DEF GlueInv, IndexIsLastRead
<1> QED
  BY <1>1, FlagsInvariant, GlueInvariant, PTL

(* Each worker is given one batch after the other, none skipped and none   *)
(* twice, while the main thread erases batches and moves the indices.      *)
THEOREM BatchesAreInOrder == Spec => BatchesAreReadInOrder
<1>1. GlueInv /\ [Next]_vars =>
        [\A w \in Registered : last_read'[w] # last_read[w] => last_read'[w] = last_read[w] + 1]_vars
  <2> SUFFICES ASSUME GlueInv, [Next]_vars, NEW w \in Registered, last_read'[w] # last_read[w]
               PROVE  last_read'[w] = last_read[w] + 1
    OBVIOUS
  <2>1. ~ UNCHANGED last_read
    OBVIOUS
  <2>2. PICK v \in Workers : RegisterNewId(v) \/ GetUnseenClauses(v)
    BY <2>1 DEF Next, vars, glueVars, pendingVars, binaryVars, WorkerNext, Synchronize,
       AddBinaryClause, GetUnseenBinaryClauses, AddBatch, Leave, EndTasks, CollectBatches,
       MergeBatches
  <2>3. CASE RegisterNewId(v)
    BY <2>3 DEF RegisterNewId, Registered, GlueInv, GlueTypeOK
  <2>4. CASE GetUnseenClauses(v)
    <3>1. last_read'[w] = erased + last_returned[w] + 2 /\ w \in Workers
      BY <2>4 DEF GetUnseenClauses, Registered, GlueInv, GlueTypeOK
    <3>2. last_read[w] = erased + last_returned[w] + 1
      BY DEF GlueInv, IndexIsLastRead
    <3>3. erased \in Int /\ last_returned[w] \in Int
      BY <3>1 DEF GlueInv, GlueTypeOK
    <3> QED
      BY <3>1, <3>2, <3>3
  <2> QED
    BY <2>2, <2>3, <2>4
<1> QED
  BY <1>1, GlueInvariant, PTL DEF Spec, BatchesAreReadInOrder

-----------------------------------------------------------------------------
(* Binary clauses.                                                         *)

(* A clause that is new is appended; a worker that was up to date has seen *)
(* it then, because it derived it.                                         *)
LEMMA AddingKeepsBinaryInv ==
  ASSUME BinaryInv, NEW v \in Workers, NEW c \in Clauses, AddBinaryClause(v, c),
         worker[v] # "new"
  PROVE  BinaryInv'
<1> DEFINE n == Len(added)
<1>1. /\ added \in Seq(Clauses) /\ n \in Nat /\ last_visible \in 0..n
      /\ last_processed \in [Workers -> 0..n]
      /\ derived \in [Workers -> SUBSET Clauses]
  BY DEF BinaryInv, BinaryTypeOK
<1>2. /\ imported' = imported /\ worker' = worker
      /\ derived' = [derived EXCEPT ![v] = derived[v] \cup {c}]
  BY DEF AddBinaryClause
<1>3. CASE c \in Elements(added)
  <2>1. UNCHANGED <<added, last_visible, last_processed>>
    BY <1>3 DEF AddBinaryClause
  <2> QED
    BY <1>1, <1>2, <2>1 DEF BinaryInv, BinaryTypeOK, NewWorkersImportedNothing, AddedOnce,
       ImportedAreProcessed, BinaryClausesAreExact, Elements
<1>4. CASE c \notin Elements(added)
  <2>1. /\ added' = Append(added, c)
        /\ last_visible' \in {last_visible, last_visible + 1}
        /\ last_processed' = [last_processed EXCEPT
                                ![v] = IF last_processed[v] = n THEN n + 1 ELSE last_processed[v]]
    BY <1>4 DEF AddBinaryClause, ProcessedAfterAdding
  <2>2. /\ added' \in Seq(Clauses) /\ Len(added') = n + 1 /\ added'[n + 1] = c
        /\ \A i \in 1..n : added'[i] = added[i]
    BY <1>1, <2>1
  <2>3. BinaryTypeOK' /\ NewWorkersImportedNothing'
    BY <1>1, <1>2, <2>1, <2>2 DEF BinaryInv, BinaryTypeOK, NewWorkersImportedNothing
  <2>4. AddedOnce'
    <3>1. \A i \in 1..n : added[i] # c
      BY <1>4 DEF Elements
    <3> QED
      BY <1>1, <2>2, <3>1 DEF BinaryInv, AddedOnce
  <2>5. ASSUME NEW w \in Workers
        PROVE  /\ last_processed[w] \in 0..n
               /\ last_processed'[w] \in last_processed[w]..(n + 1)
               /\ \A i \in 1..last_processed'[w] :
                    i \in 1..last_processed[w] \/ (w = v /\ i = n + 1)
    BY <1>1, <2>1
  <2>6. ImportedAreProcessed'
    <3> SUFFICES ASSUME NEW w \in Workers, NEW k \in 1..Len(imported[w])
                 PROVE  \E i \in 1..last_processed'[w] : imported[w][k] = added'[i]
      BY <1>2 DEF ImportedAreProcessed
    <3>1. PICK i \in 1..last_processed[w] : imported[w][k] = added[i]
      BY DEF BinaryInv, ImportedAreProcessed
    <3> QED
      BY <1>1, <2>2, <2>5, <3>1
  <2>7. BinaryClausesAreExact'
    <3>1. ASSUME NEW w \in Workers, NEW i \in 1..last_processed'[w]
          PROVE  added'[i] \in derived'[w] \cup Elements(imported[w])
      <4>1. CASE i \in 1..last_processed[w]
        <5>1. added[i] \in derived[w] \cup Elements(imported[w])
          BY <4>1 DEF BinaryInv, BinaryClausesAreExact
        <5>2. added'[i] = added[i] /\ derived[w] \subseteq derived'[w]
          BY <1>1, <1>2, <2>2, <2>5, <4>1
        <5> QED
          BY <5>1, <5>2
      <4>2. CASE w = v /\ i = n + 1
        BY <1>1, <1>2, <2>2, <4>2
      <4> QED
        BY <2>5, <4>1, <4>2
    <3> QED
      BY <1>2, <3>1 DEF BinaryInv, BinaryClausesAreExact, Elements
  <2> QED
    BY <2>3, <2>4, <2>6, <2>7 DEF BinaryInv
<1> QED
  BY <1>3, <1>4

(* What is imported comes after all that was processed, so none of it was  *)
(* imported before.                                                        *)
LEMMA ImportKeepsBinaryInv ==
  ASSUME BinaryInv, NEW v \in Workers, GetUnseenBinaryClauses(v), worker[v] # "new",
         worker \in [Workers -> WorkerStates]
  PROVE  BinaryInv'
<1> DEFINE p == last_processed[v]
           u == Unseen(p, SubSeq(added, 1, last_visible))
<1>1. /\ added \in Seq(Clauses) /\ Len(added) \in Nat
      /\ last_visible \in 0..Len(added) /\ p \in 0..Len(added)
      /\ last_processed \in [Workers -> 0..Len(added)]
      /\ imported \in [Workers -> Seq(Clauses)]
  BY DEF BinaryInv, BinaryTypeOK
<1>2. /\ UNCHANGED <<added, last_visible, derived>>
      /\ \A w \in Workers : worker'[w] = "new" <=> worker[w] = "new"
  BY DEF GetUnseenBinaryClauses, WorkerStates
<1>3. CASE UNCHANGED <<last_processed, imported>>
  BY <1>2, <1>3 DEF BinaryInv, BinaryTypeOK, NewWorkersImportedNothing, AddedOnce,
     ImportedAreProcessed, BinaryClausesAreExact
<1>4. CASE /\ p < last_visible
           /\ imported' = [imported EXCEPT ![v] = imported[v] \o u]
           /\ last_processed' = [last_processed EXCEPT ![v] = last_visible]
  <2>1. /\ u \in Seq(Clauses) /\ Len(u) \in Nat /\ Len(u) = last_visible - p
        /\ \A i \in 1..Len(u) : u[i] = added[p + i]
    BY <1>1, <1>4, UnseenClauses DEF BinaryInv
  <2> HIDE DEF u
  <2> DEFINE old == imported[v]
             all == old \o u
  <2>2. /\ old \in Seq(Clauses) /\ Len(old) \in Nat
        /\ all \in Seq(Clauses) /\ Len(all) = Len(old) + Len(u)
        /\ \A k \in 1..Len(old) : all[k] = old[k]
        /\ \A i \in 1..Len(u) : all[Len(old) + i] = u[i]
    BY <1>1, <2>1
  <2> HIDE DEF all
  <2>3. /\ imported'[v] = all /\ last_processed'[v] = last_visible
        /\ \A w \in Workers \ {v} : imported'[w] = imported[w] /\ last_processed'[w] = last_processed[w]
        /\ imported' \in [Workers -> Seq(Clauses)] /\ last_processed' \in [Workers -> 0..Len(added)]
    BY <1>1, <1>4, <2>2 DEF all
  <2>4. \A k \in 1..Len(old) : \E i \in 1..p : all[k] = added[i]
    BY <2>2 DEF BinaryInv, ImportedAreProcessed
  <2>5. ASSUME NEW k \in Len(old) + 1 .. Len(all)
        PROVE  /\ k - Len(old) \in 1..Len(u)
               /\ all[k] = added[p + (k - Len(old))]
               /\ p + (k - Len(old)) \in p + 1 .. last_visible
    <3>1. k - Len(old) \in 1..Len(u) /\ Len(old) + (k - Len(old)) = k
      BY <2>1, <2>2
    <3>2. all[Len(old) + (k - Len(old))] = u[k - Len(old)]
      BY <2>2, <3>1
    <3> QED
      BY <1>1, <2>1, <3>1, <3>2
  <2>6. BinaryTypeOK' /\ NewWorkersImportedNothing' /\ AddedOnce'
    BY <1>1, <1>2, <2>3 DEF BinaryInv, BinaryTypeOK, NewWorkersImportedNothing, AddedOnce
  <2>7. ImportedAreProcessed'
    <3>1. ASSUME NEW k \in 1..Len(all) PROVE \E i \in 1..last_visible : all[k] = added[i]
      <4>1. CASE k \in 1..Len(old)
        <5>1. PICK i \in 1..p : all[k] = added[i]
          BY <2>4, <4>1
        <5> QED
          BY <1>1, <1>4, <5>1
      <4>2. CASE k \in Len(old) + 1 .. Len(all)
        BY <1>1, <2>5, <4>2
      <4> QED
        BY <2>2, <4>1, <4>2
    <3>2. \A w \in Workers \ {v} : \A k \in 1..Len(imported'[w]) :
            \E i \in 1..last_processed'[w] : imported'[w][k] = added[i]
      BY <2>3 DEF BinaryInv, ImportedAreProcessed
    <3>3. \A k \in 1..Len(imported'[v]) :
            \E i \in 1..last_processed'[v] : imported'[v][k] = added[i]
      BY <2>3, <3>1
    <3> QED
      BY <1>2, <3>2, <3>3 DEF ImportedAreProcessed
  <2>8. \A i \in 1..last_visible : added[i] \in derived[v] \cup Elements(all)
    <3>1. Elements(old) \subseteq Elements(all)
      BY <2>1, <2>2 DEF Elements
    <3>2. ASSUME NEW i \in p + 1 .. last_visible PROVE added[i] \in Elements(all)
      <4>1. i - p \in 1..Len(u) /\ p + (i - p) = i /\ Len(old) + (i - p) \in 1..Len(all)
        BY <1>1, <2>1, <2>2
      <4>2. all[Len(old) + (i - p)] = added[p + (i - p)]
        BY <2>1, <2>2, <4>1
      <4> QED
        BY <4>1, <4>2 DEF Elements
    <3>3. \A i \in 1..p : added[i] \in derived[v] \cup Elements(old)
      BY DEF BinaryInv, BinaryClausesAreExact
    <3>4. \A i \in 1..last_visible : i \in 1..p \/ i \in p + 1 .. last_visible
      BY <1>1
    <3> QED
      BY <3>1, <3>2, <3>3, <3>4
  <2>9. ASSUME NEW j \in 1..Len(all), NEW k \in 1..Len(all), all[j] = all[k] PROVE j = k
    <3>1. \A a, b \in 1..Len(added) : added[a] = added[b] => a = b
      BY DEF BinaryInv, AddedOnce
    <3>2. CASE j \in 1..Len(old) /\ k \in 1..Len(old)
      BY <2>2, <2>9, <3>2 DEF BinaryInv, BinaryClausesAreExact
    <3>3. CASE j \in Len(old) + 1 .. Len(all) /\ k \in Len(old) + 1 .. Len(all)
      <4>1. p + (j - Len(old)) = p + (k - Len(old))
        <5>1. /\ p + (j - Len(old)) \in 1..Len(added) /\ p + (k - Len(old)) \in 1..Len(added)
          BY <1>1, <2>5, <3>3
        <5> QED
          BY <2>5, <2>9, <3>1, <3>3, <5>1
      <4> QED
        BY <1>1, <2>2, <4>1
    <3>4. ASSUME NEW f \in 1..Len(old), NEW g \in Len(old) + 1 .. Len(all) PROVE all[f] # all[g]
      <4>1. PICK i \in 1..p : all[f] = added[i]
        BY <2>4
      <4>2. /\ i \in 1..Len(added) /\ p + (g - Len(old)) \in 1..Len(added)
            /\ i # p + (g - Len(old))
        BY <1>1, <2>5
      <4> QED
        BY <2>5, <3>1, <4>1, <4>2
    <3> QED
      BY <2>2, <2>9, <3>2, <3>3, <3>4
  <2>10. BinaryClausesAreExact'
    BY <1>2, <2>3, <2>8, <2>9 DEF BinaryInv, BinaryClausesAreExact
  <2> QED
    BY <2>6, <2>7, <2>10 DEF BinaryInv
<1> QED
  BY <1>1, <1>3, <1>4 DEF GetUnseenBinaryClauses, ProcessedAfterImport

(* RegisterNewId(): everything is still to be given.                       *)
LEMMA RegistrationKeepsBinaryInv ==
  ASSUME BinaryInv, FlagsOK, NEW v \in Workers, RegisterNewId(v)
  PROVE  BinaryInv'
<1>1. /\ UNCHANGED <<added, last_visible, derived, imported>>
      /\ last_processed' = [last_processed EXCEPT ![v] = 0]
      /\ imported[v] = <<>> /\ Len(imported[v]) = 0
      /\ \A w \in Workers : worker'[w] = "new" => worker[w] = "new"
  BY DEF RegisterNewId, FirstToProcess, BinaryInv, NewWorkersImportedNothing, FlagsOK
<1>2. BinaryTypeOK' /\ NewWorkersImportedNothing' /\ AddedOnce'
  BY <1>1 DEF BinaryInv, BinaryTypeOK, NewWorkersImportedNothing, AddedOnce
<1>3. /\ last_processed'[v] = 0
      /\ \A w \in Workers \ {v} : last_processed'[w] = last_processed[w]
  BY <1>1 DEF BinaryInv, BinaryTypeOK
<1>4. ImportedAreProcessed'
  <2>1. \A w \in Workers \ {v} : \A k \in 1..Len(imported[w]) :
          \E i \in 1..last_processed'[w] : imported[w][k] = added[i]
    BY <1>3 DEF BinaryInv, ImportedAreProcessed
  <2>2. \A k \in 1..Len(imported[v]) : FALSE
    BY <1>1
  <2> QED
    BY <1>1, <2>1, <2>2 DEF ImportedAreProcessed
<1>5. BinaryClausesAreExact'
  <2>1. \A i \in 1..last_processed'[v] : FALSE
    BY <1>3
  <2> QED
    BY <1>1, <1>3, <2>1 DEF BinaryInv, BinaryClausesAreExact
<1> QED
  BY <1>2, <1>4, <1>5 DEF BinaryInv

(* The steps that leave the clauses and the workers as they are.           *)
LEMMA OtherStepsKeepBinaryInv ==
  ASSUME BinaryInv, UNCHANGED <<added, last_processed, derived, imported>>,
         last_visible' \in {last_visible, Len(added)},
         \A w \in Workers : worker'[w] = "new" => worker[w] = "new"
  PROVE  BinaryInv'
<1>1. BinaryTypeOK'
  BY DEF BinaryInv, BinaryTypeOK
<1> QED
  BY <1>1 DEF BinaryInv, NewWorkersImportedNothing, AddedOnce, ImportedAreProcessed,
     BinaryClausesAreExact

\* BinaryInv holds throughout.
LEMMA BinaryInvariant == Spec => []BinaryInv
<1>1. Init => BinaryInv
  <2> SUFFICES ASSUME Init PROVE BinaryInv
    OBVIOUS
  <2>1. BinaryTypeOK
    BY EmptySeq DEF Init, BinaryTypeOK
  <2>2. \A w \in Workers : last_processed[w] = 0 /\ imported[w] = <<>> /\ Len(imported[w]) = 0
    BY DEF Init
  <2>3. Len(added) = 0
    BY DEF Init
  <2> QED
    BY <2>1, <2>2, <2>3 DEF BinaryInv, NewWorkersImportedNothing, AddedOnce,
       ImportedAreProcessed, BinaryClausesAreExact
<1>2. FlagsOK /\ BinaryInv /\ [Next]_vars => BinaryInv'
  <2> SUFFICES ASSUME FlagsOK, BinaryInv, [Next]_vars PROVE BinaryInv'
    OBVIOUS
  <2>1. CASE UNCHANGED vars
    BY <2>1, OtherStepsKeepBinaryInv DEF vars, binaryVars
  <2>2. ASSUME NEW w \in Workers, WorkerNext(w) PROVE BinaryInv'
    <3>1. CASE RegisterNewId(w)
      BY <3>1, RegistrationKeepsBinaryInv
    <3>2. ASSUME NEW c \in Clauses, AddBinaryClause(w, c) PROVE BinaryInv'
      BY <3>2, AddingKeepsBinaryInv DEF AddBinaryClause, Searching
    <3>3. CASE GetUnseenBinaryClauses(w)
      BY <3>3, ImportKeepsBinaryInv DEF GetUnseenBinaryClauses, Searching, FlagsOK
    <3>4. ASSUME NEW has_clauses \in BOOLEAN, AddBatch(w, has_clauses) PROVE BinaryInv'
      BY <3>4, OtherStepsKeepBinaryInv DEF AddBatch, binaryVars
    <3>5. CASE GetUnseenClauses(w)
      BY <3>5, OtherStepsKeepBinaryInv DEF GetUnseenClauses, binaryVars, FlagsOK
    <3>6. CASE Leave(w)
      BY <3>6, OtherStepsKeepBinaryInv DEF Leave, binaryVars, FlagsOK
    <3> QED
      BY <2>2, <3>1, <3>2, <3>3, <3>4, <3>5, <3>6 DEF WorkerNext
  <2>3. CASE Synchronize
    BY <2>3, OtherStepsKeepBinaryInv DEF Synchronize, EndTasks, CollectBatches, MergeBatches, binaryVars
  <2> QED
    BY <2>1, <2>2, <2>3 DEF Next
<1> QED
  BY <1>1, <1>2, FlagsInvariant, PTL DEF Spec

(* Every index into the two arrays is in its range, at any time.           *)
THEOREM TypeCorrect == Spec => []TypeOK
<1>1. FlagsOK /\ GlueInv /\ BinaryInv => TypeOK
  BY DEF GlueInv, BinaryInv, TypeOK
<1> QED
  BY <1>1, FlagsInvariant, GlueInvariant, BinaryInvariant, PTL

(* What a worker is taken to know of the binary clauses it was given once, *)
(* or had learned itself, whenever it registers, adds and imports.         *)
THEOREM BinaryClausesAreGivenOnce == Spec => []BinaryClausesAreExact
<1>1. BinaryInv => BinaryClausesAreExact
  BY DEF BinaryInv
<1> QED
  BY <1>1, BinaryInvariant, PTL
=============================================================================
