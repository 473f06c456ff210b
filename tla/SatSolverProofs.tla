--------------------------- MODULE SatSolverProofs --------------------------
(***************************************************************************)
(* The theorems on SatSolver.  First its invariant, an action at a time.   *)
(* Second that learning is sound: each step keeps the solutions of the     *)
(* problem among those of the database.  Third that propagation is         *)
(* complete: what the propagators have done holds up to the last level     *)
(* that they finished, across backjumps, learned clauses and clean ups.    *)
(* So no clause of the database is part of one that is learned.  Fourth    *)
(* that nothing is forgotten: what cannot be removed implies the clauses   *)
(* of the problem, so that the database stays equivalent to it.  Fifth that*)
(* the answers are right: with what is known of the question the solver    *)
(* implements SatOracle.                                                   *)
(***************************************************************************)
EXTENDS SatLemmas, TLAPS

-----------------------------------------------------------------------------
(* The invariant: the database is as the propagators need it, whatever runs*)
(* but a search is at level zero, and a failing clause is false.           *)
TypesOK ==
  /\ config \in Configurations /\ removable \subseteq Attached(Now)
  /\ binary_index \in 0..Len(trail) /\ clause_index \in 0..Len(trail)
  /\ status \in Running \cup {"FEASIBLE", "INFEASIBLE", "ASSUMPTIONS_UNSAT"}
  /\ assumptions \in Seq(Literals)
  /\ loaded \in 0..Len(config.clauses) /\ asked \in 0..Len(config.questions)
  /\ status = "resetting" => asked > 0

LevelZeroOK == status \in {"loading", "resetting"} => CurrentLevel(trail) = 0
ConflictOK == status \in Running /\ conflict # <<>> => FailureIsKnown(Now, conflict, failing)
SolverOK == TypesOK /\ DatabaseOK(Now) /\ LevelZeroOK /\ ConflictOK

(* The fields of Now.                                                      *)
LEMMA NowFields ==
  /\ Now.clauses = clauses /\ Now.watchers = watchers
  /\ Now.implications = implications /\ Now.trail = trail
BY DEF Now

(* Types of a configuration.                                               *)
LEMMA ConfigurationFacts ==
  ASSUME config \in Configurations
  PROVE  /\ Len(config.clauses) \in Nat /\ \A i \in 1..Len(config.clauses) : config.clauses[i] \subseteq Literals
         /\ Len(config.questions) \in Nat
         /\ \A i \in 1..Len(config.questions) : config.questions[i] \in Seq(Literals)
         /\ config.branches \subseteq Literals
         /\ \A c \in config.late : c \subseteq Literals /\ Cardinality(c) > 1
<1>1. ConfigurationOK(config)
  BY SatAssumption
<1> QED
  BY <1>1 DEF ConfigurationOK

(* The invariant of the database, after a step.                            *)
LEMMA AttachedNow ==
  ASSUME NEW d, d \in Databases, Now' = d
  PROVE  Attached(Now)' = Attached(d) /\ DatabaseOK(Now)' = DatabaseOK(d)
<1>1. Attached(Now)' = Attached(Now')
  BY DEF Attached, IsRemoved, Now
<1>2. DatabaseOK(Now)' = DatabaseOK(Now')
  OBVIOUS
<1> QED
  BY <1>1, <1>2
-----------------------------------------------------------------------------
(* The invariant holds initially.                                          *)
LEMMA InitIsOK ==
  ASSUME Init
  PROVE  SolverOK
<1>1. /\ config \in Configurations /\ clauses = <<>> /\ removable = {} /\ trail = <<>>
      /\ watchers = [l \in Literals |-> <<>>] /\ implications = [l \in Literals |-> <<>>]
      /\ binary_index = 0 /\ clause_index = 0 /\ conflict = <<>> /\ failing = 0
      /\ status = "loading" /\ assumptions = <<>> /\ loaded = 0 /\ asked = 0
  BY DEF Init
<1>2. Len(trail) = 0 /\ Len(clauses) = 0 /\ \A l \in Literals : watchers[l] = <<>> /\ implications[l] = <<>>
  BY <1>1
<1>3. ToSet(<<>>) = {}
  BY DEF ToSet
<1>4. Attached(Now) = {}
  BY <1>2, NowFields DEF Attached
<1>5. Now \in Databases
  <2>1. clauses \in Seq(Seq(Literals)) /\ trail \in Seq(Entries)
    BY <1>1
  <2>2. watchers \in [Literals -> Seq(Watchers)] /\ implications \in [Literals -> Seq(Literals)]
    BY <1>1
  <2> QED
    BY <2>1, <2>2 DEF Now, Databases
<1>6. IsTrail(Now.trail)
  BY <1>1, <1>2, NowFields DEF IsTrail, TrailOK
<1>7. ClausesOK(Now) /\ WatchesOK(Now)
  <2>1. \A l \in Literals : Len(Now.watchers[l]) = 0
    BY <1>2, NowFields
  <2> QED
    BY <1>4, <2>1 DEF ClausesOK, WatchesOK
<1>8. GraphOK(Now)
  BY <1>2, <1>3, NowFields DEF GraphOK
<1>9. ReasonsOK(Now)
  BY <1>2, NowFields DEF ReasonsOK
<1>10. DatabaseOK(Now)
  BY <1>5, <1>6, <1>7, <1>8, <1>9 DEF DatabaseOK
<1>11. TypesOK
  <2>1. Len(config.clauses) \in Nat /\ Len(config.questions) \in Nat
    BY <1>1, ConfigurationFacts
  <2> QED
    BY <1>1, <1>2, <1>4, <2>1 DEF TypesOK, Running
<1>12. LevelZeroOK /\ ConflictOK
  BY <1>1 DEF LevelZeroOK, ConflictOK, CurrentLevel
<1> QED
  BY <1>10, <1>11, <1>12 DEF SolverOK

(* PropagateBinary keeps it, and a conflict is an implication that is      *)
(* false.                                                                  *)
LEMMA PropagateBinaryIsOK ==
  ASSUME SolverOK, PropagateBinary
  PROVE  SolverOK'
<1> DEFINE d == Now
           r == Propagations(d, binary_index)[Cardinality(Variables)]
           e == WithTrailOf(d, r.trail)
<1>1. /\ status \in Running /\ conflict = <<>> /\ binary_index < Len(trail)
      /\ trail' = r.trail /\ binary_index' = r.index /\ conflict' = r.conflict /\ failing' = 0
      /\ UNCHANGED <<clauses, watchers, implications, removable, clause_index, inputVars,
                     status, assumptions, num_processed, restarts, clean_ups>>
  BY DEF PropagateBinary
<1>2. TypesOK /\ DatabaseOK(d) /\ LevelZeroOK
  BY DEF SolverOK
<1>3. d.trail = trail /\ d.clauses = clauses /\ d.watchers = watchers /\ d.implications = implications
  BY NowFields
<1>4. d \in Databases /\ IsTrail(trail) /\ Len(trail) \in Nat /\ r = Propagations(d, binary_index)[Cardinality(Variables)]
  BY <1>2, <1>3, TrailEntries DEF DatabaseOK
<1>5. Now' = e
  <2>1. Now' = [clauses |-> d.clauses, watchers |-> d.watchers, implications |-> d.implications, trail |-> r.trail]
    BY <1>1, <1>3 DEF Now
  <2>2. d = [clauses |-> d.clauses, watchers |-> d.watchers, implications |-> d.implications, trail |-> d.trail]
    BY <1>3 DEF Now
  <2> QED
    BY <2>1, <2>2 DEF WithTrailOf
<1> HIDE DEF d, r
<1>6. binary_index \in Nat /\ binary_index <= Len(d.trail)
  BY <1>1, <1>2, <1>3, <1>4 DEF TypesOK
<1>7. PropagationOK(d, binary_index, r) /\ IsTrail(r.trail)
  BY <1>2, <1>4, <1>6, PropagationsAreOK
<1>8. /\ DatabaseOK(e) /\ GrownSince(d, r.trail, "BINARY") /\ r.index \in binary_index..Len(r.trail)
      /\ r.conflict # <<>> => BinaryConflict(d, r.trail, r.conflict)
  BY <1>7 DEF PropagationOK, ImpliedOK
<1>9. e \in Databases /\ e.trail = r.trail /\ e.clauses = d.clauses /\ e.implications = d.implications /\ Attached(e) = Attached(d)
  BY <1>4, <1>7, WithTrail DEF WithTrailOf, IsTrail
<1> HIDE DEF e
<1>10. DatabaseOK(Now)' /\ Attached(Now)' = Attached(Now)
  BY <1>5, <1>8, <1>9, AttachedNow DEF d
<1>11. Len(r.trail) \in Nat /\ Len(trail) <= Len(r.trail) /\ CurrentLevel(r.trail) = CurrentLevel(trail)
  BY <1>3, <1>4, <1>7, <1>8, TrailEntries DEF GrownSince, Begins
<1>12. TypesOK'
  <2>1. binary_index' \in 0..Len(trail')
    BY <1>1, <1>6, <1>8, <1>11
  <2>2. clause_index' \in 0..Len(trail')
    BY <1>1, <1>2, <1>4, <1>11 DEF TypesOK
  <2> QED
    BY <1>1, <1>2, <1>10, <2>1, <2>2 DEF TypesOK, inputVars
<1>13. LevelZeroOK'
  BY <1>1, <1>2, <1>11 DEF LevelZeroOK
<1>14. ConflictOK'
  <2> SUFFICES ASSUME r.conflict # <<>> PROVE FailureIsKnown(Now', conflict', failing')
    BY <1>1 DEF ConflictOK
  <2>1. PICK l \in Literals, m \in Literals :
          r.conflict = <<-l, m>> /\ m \in ToSet(d.implications[l]) /\ IsTrue(r.trail, l) /\ IsFalse(r.trail, m)
    BY <1>8 DEF BinaryConflict
  <2>2. -l \in Literals /\ -(-l) = l /\ -l # m
    BY <1>2, <2>1, LiteralFacts DEF DatabaseOK, GraphOK
  <2> DEFINE a == -l
             s == <<a, m>>
  <2>3. IsFalse(r.trail, a) /\ a \in Literals /\ a # m
    BY <2>1, <2>2 DEF IsFalse
  <2> HIDE DEF a
  <2>4. s \in Seq(Literals) /\ s # <<>> /\ Distinct(s) /\ Len(s) = 2
    BY <2>3 DEF Distinct
  <2>5. \A i \in 1..Len(s) : IsFalse(r.trail, s[i])
    BY <2>1, <2>3
  <2>6. r.conflict = s
    BY <2>1 DEF a
  <2> HIDE DEF s
  <2>7. \A x \in ToSet(s) : IsFalse(r.trail, x)
    BY <2>4, <2>5, ToSetFacts
  <2>8. FalseLiterals(r.trail, s)
    BY <2>4, <2>7 DEF FalseLiterals
  <2>9. Now'.trail = r.trail
    BY <1>5, <1>9
  <2> QED
    BY <1>1, <2>4, <2>6, <2>8, <2>9 DEF FailureIsKnown
<1> QED
  BY <1>10, <1>12, <1>13, <1>14 DEF SolverOK

(* PropagateClauses keeps it, and a conflict is an attached clause that is *)
(* false.                                                                  *)
LEMMA PropagateClausesIsOK ==
  ASSUME SolverOK, PropagateClauses
  PROVE  SolverOK'
<1> DEFINE d == Now
           F == -trail[clause_index + 1].literal
           r == PropagateOnFalse(d, F)
           e == AsDatabase(d, r)
<1>1. /\ status \in Running /\ clause_index < Len(trail) /\ clause_index' = clause_index + 1
      /\ clauses' = r.clauses /\ watchers' = r.watchers /\ trail' = r.trail
      /\ conflict' = r.conflict /\ failing' = r.failing
      /\ UNCHANGED <<implications, removable, binary_index, inputVars, status, assumptions, num_processed,
                     restarts, clean_ups>>
  BY DEF PropagateClauses
<1>2. TypesOK /\ DatabaseOK(d) /\ LevelZeroOK
  BY DEF SolverOK
<1>3. d.trail = trail /\ d.implications = implications /\ r = PropagateOnFalse(d, F) /\ e = AsDatabase(d, r)
  BY NowFields
<1>4. d \in Databases /\ IsTrail(trail) /\ Len(trail) \in Nat
  BY <1>2, <1>3, TrailEntries DEF DatabaseOK
<1>5. Now' = e
  <2>1. Now' = [clauses |-> r.clauses, watchers |-> r.watchers, implications |-> implications', trail |-> r.trail]
    BY <1>1 DEF Now
  <2>2. implications' = d.implications
    BY <1>1, <1>3
  <2> QED
    BY <2>1, <2>2 DEF AsDatabase
<1>6. clause_index \in Nat /\ clause_index + 1 \in 1..Len(trail)
  BY <1>1, <1>2, <1>4 DEF TypesOK
<1>7. F \in Literals /\ IsFalse(d.trail, F)
  <2>1. trail[clause_index + 1].literal \in Literals
    BY <1>4, <1>6, TrailEntries
  <2>2. F \in Literals /\ -F = trail[clause_index + 1].literal
    BY <2>1, LiteralFacts
  <2> QED
    BY <1>3, <1>6, <2>2 DEF IsFalse, IsTrue
<1> HIDE DEF d, r, F, e
<1>8. /\ DatabaseOK(e) /\ e.trail = r.trail /\ GrownSince(d, r.trail, "CLAUSE") /\ SameClausesSince(d, e)
      /\ r.conflict \in Seq(Literals)
      /\ r.conflict # <<>> =>
           /\ r.failing \in Attached(e) /\ r.conflict = e.clauses[r.failing]
           /\ \A l \in ToSet(r.conflict) : IsFalse(e.trail, l)
  <2>1. DatabaseOK(d)
    BY <1>2
  <2>2. F \in Literals
    BY <1>7
  <2>3. IsFalse(d.trail, F)
    BY <1>7
  <2>4. r = PropagateOnFalse(d, F)
    BY <1>3
  <2>5. e = AsDatabase(d, r)
    BY <1>3
  <2>6. DatabaseOK(e) /\ e.trail = r.trail
    BY <2>1, <2>2, <2>3, <2>4, <2>5, PropagateOnFalseIsOK
  <2>7. GrownSince(d, r.trail, "CLAUSE") /\ SameClausesSince(d, e)
    BY <2>1, <2>2, <2>3, <2>4, <2>5, PropagateOnFalseIsOK
  <2>8. r.conflict \in Seq(Literals)
    BY <2>1, <2>2, <2>3, <2>4, <2>5, PropagateOnFalseIsOK
  <2>9. ASSUME r.conflict # <<>>
        PROVE  /\ r.failing \in Attached(e) /\ r.conflict = e.clauses[r.failing]
               /\ \A l \in ToSet(r.conflict) : IsFalse(e.trail, l)
    <3>1. r.failing \in Attached(e)
      BY <2>1, <2>2, <2>3, <2>4, <2>5, <2>9, PropagateOnFalseIsOK
    <3>2. r.conflict = e.clauses[r.failing]
      BY <2>1, <2>2, <2>3, <2>4, <2>5, <2>9, PropagateOnFalseIsOK
    <3>3. ASSUME NEW l \in ToSet(r.conflict) PROVE IsFalse(e.trail, l)
      BY <2>1, <2>2, <2>3, <2>4, <2>5, <2>9, <3>3, PropagateOnFalseIsOK
    <3> QED
      BY <3>1, <3>2, <3>3
  <2> QED
    BY <2>6, <2>7, <2>8, <2>9
<1>9. e \in Databases /\ IsTrail(r.trail) /\ ClausesOK(e)
  BY <1>8 DEF DatabaseOK
<1>10. DatabaseOK(Now)' /\ Attached(Now)' = Attached(Now)
  <2>1. Attached(Now)' = Attached(e) /\ DatabaseOK(Now)'
    BY <1>5, <1>8, <1>9, AttachedNow
  <2> QED
    BY <1>8, <2>1 DEF SameClausesSince, d
<1>11. Len(r.trail) \in Nat /\ Len(trail) <= Len(r.trail) /\ CurrentLevel(r.trail) = CurrentLevel(trail)
  BY <1>3, <1>4, <1>8, <1>9, TrailEntries DEF GrownSince, Begins
<1>12. TypesOK'
  <2>1. binary_index' \in 0..Len(trail')
    BY <1>1, <1>2, <1>4, <1>11 DEF TypesOK
  <2>2. clause_index' \in 0..Len(trail')
    BY <1>1, <1>6, <1>11
  <2> QED
    BY <1>1, <1>2, <1>10, <2>1, <2>2 DEF TypesOK, inputVars
<1>13. LevelZeroOK'
  BY <1>1, <1>2, <1>11 DEF LevelZeroOK
<1>14. ConflictOK'
  <2> SUFFICES ASSUME r.conflict # <<>> PROVE FailureIsKnown(Now', conflict', failing')
    BY <1>1 DEF ConflictOK
  <2>1. /\ r.failing \in Attached(e) /\ r.conflict = e.clauses[r.failing]
        /\ \A l \in ToSet(r.conflict) : IsFalse(e.trail, l)
    BY <1>8
  <2>2. Distinct(r.conflict)
    BY <1>9, <2>1 DEF ClausesOK
  <2>3. FalseLiterals(e.trail, r.conflict)
    BY <1>8, <2>1, <2>2 DEF FalseLiterals
  <2> QED
    BY <1>1, <1>5, <2>1, <2>3 DEF FailureIsKnown
<1> QED
  BY <1>10, <1>12, <1>13, <1>14 DEF SolverOK

(* Load keeps it: clauses are added at level zero.                         *)
LEMMA LoadIsOK ==
  ASSUME SolverOK, Load
  PROVE  SolverOK'
<1> DEFINE d == Now
           c == config.clauses[loaded + 1]
           e == AddProblemClause(d, c)
<1>1. /\ status = "loading" /\ conflict = <<>> /\ loaded < Len(config.clauses) /\ loaded' = loaded + 1
      /\ IF \A l \in c : IsFalse(trail, l)
         THEN status' = "INFEASIBLE" /\ UNCHANGED database
         ELSE DatabaseBecomes(e) /\ UNCHANGED status
      /\ UNCHANGED <<removable, indices, failure, config, asked, late, assumptions>>
  BY DEF Load, Propagated
<1>2. TypesOK /\ DatabaseOK(d) /\ LevelZeroOK
  BY DEF SolverOK
<1>3. d.trail = trail /\ e = AddProblemClause(d, c)
  BY NowFields
<1>4. d \in Databases /\ IsTrail(trail) /\ Len(trail) \in Nat
  BY <1>2, <1>3, TrailEntries DEF DatabaseOK
<1>5. c \subseteq Literals /\ loaded' \in 0..Len(config.clauses)
  <2>1. config \in Configurations /\ loaded \in 0..Len(config.clauses)
    BY <1>2 DEF TypesOK
  <2>2. Len(config.clauses) \in Nat
    BY <2>1, ConfigurationFacts
  <2>3. loaded + 1 \in 1..Len(config.clauses)
    BY <1>1, <2>1, <2>2
  <2> QED
    BY <1>1, <2>1, <2>3, ConfigurationFacts
<1>6. CurrentLevel(trail) = 0
  BY <1>1, <1>2 DEF LevelZeroOK
<1>7. CASE \A l \in c : IsFalse(trail, l)
  <2>1. status' = "INFEASIBLE" /\ UNCHANGED database
    BY <1>1, <1>7
  <2>2. Now' = Now /\ trail' = trail
    BY <2>1 DEF Now, database
  <2>3. DatabaseOK(Now)' /\ Attached(Now)' = Attached(Now)
    BY <1>2, <1>4, <2>2, AttachedNow
  <2>4. TypesOK'
    BY <1>1, <1>2, <1>5, <2>1, <2>2, <2>3 DEF TypesOK, indices
  <2>5. LevelZeroOK' /\ ConflictOK'
    BY <2>1 DEF LevelZeroOK, ConflictOK, Running
  <2> QED
    BY <2>3, <2>4, <2>5 DEF SolverOK
<1>8. CASE ~\A l \in c : IsFalse(trail, l)
  <2>1. DatabaseBecomes(e) /\ status' = status
    BY <1>1, <1>8
  <2>2. \E l \in c : ~IsFalse(d.trail, l)
    BY <1>3, <1>8
  <2> HIDE DEF c, d, e
  <2>3. DatabaseOK(e) /\ CurrentLevel(e.trail) = 0 /\ Begins(d.trail, e.trail) /\ Attached(d) \subseteq Attached(e)
    BY <1>2, <1>3, <1>5, <1>6, <2>2, AddProblemClauseIsOK
  <2>4. e \in Databases /\ IsTrail(e.trail)
    BY <2>3 DEF DatabaseOK
  <2>5. Now' = e /\ trail' = e.trail
    BY <2>1, <2>4, NowBecomes
  <2>6. DatabaseOK(Now)' /\ Attached(Now)' = Attached(e)
    BY <2>3, <2>4, <2>5, AttachedNow
  <2>7. Len(trail') \in Nat /\ Len(trail) <= Len(trail')
    BY <1>3, <1>4, <2>3, <2>4, <2>5, TrailEntries DEF Begins
  <2>8. TypesOK'
    <3>1. removable' \subseteq Attached(Now)'
      BY <1>1, <1>2, <2>3, <2>6 DEF TypesOK, d
    <3>2. binary_index' \in 0..Len(trail') /\ clause_index' \in 0..Len(trail')
      BY <1>1, <1>2, <1>4, <2>7 DEF TypesOK, indices
    <3> QED
      BY <1>1, <1>2, <1>5, <2>1, <3>1, <3>2 DEF TypesOK
  <2>9. LevelZeroOK' /\ ConflictOK'
    BY <1>1, <2>3, <2>5 DEF LevelZeroOK, ConflictOK, failure
  <2> QED
    BY <2>6, <2>8, <2>9 DEF SolverOK
<1> QED
  BY <1>7, <1>8

(* The propagators' Untrail() leaves their indices on the trail.           *)
LEMMA IndicesFacts ==
  ASSUME TypesOK, Len(trail) \in Nat, NEW n \in Nat, IndicesUpTo(n)
  PROVE  binary_index' \in 0..n /\ clause_index' \in 0..n
<1>1. binary_index \in Nat /\ clause_index \in Nat
  BY DEF TypesOK
<1>2. ASSUME NEW i \in Nat PROVE Min({i, n}) \in 0..n
  <2>1. Min({i, n}) \in {i, n} /\ Min({i, n}) <= n
    BY MinOfTwo
  <2> QED
    BY <2>1
<1> QED
  BY <1>1, <1>2 DEF IndicesUpTo

(* Ask keeps it: the trail is cut at level zero.                           *)
LEMMA AskIsOK ==
  ASSUME SolverOK, Ask
  PROVE  SolverOK'
<1> DEFINE d == Now
           e == WithTrailOf(d, Backtracked(trail, 0))
           level == 0
           kept == Backtracked(trail, level)
<1>1. /\ asked < Len(config.questions) /\ asked' = asked + 1 /\ status' = "resetting" /\ assumptions' = <<>>
      /\ conflict' = <<>> /\ failing' = 0 /\ trail' = kept /\ IndicesUpTo(Len(kept))
      /\ UNCHANGED <<clauses, watchers, implications, removable, config, loaded>>
  BY DEF Ask
<1>2. TypesOK /\ DatabaseOK(d)
  BY DEF SolverOK
<1>3. /\ d.trail = trail /\ d.clauses = clauses /\ d.watchers = watchers /\ d.implications = implications
  BY NowFields
<1>4. d \in Databases /\ IsTrail(trail) /\ Len(trail) \in Nat
  BY <1>2, <1>3, TrailEntries DEF DatabaseOK
<1>5. Now' = e
  <2>1. Now' = [clauses |-> d.clauses, watchers |-> d.watchers, implications |-> d.implications, trail |-> kept]
    BY <1>1, <1>3 DEF Now
  <2>2. d = [clauses |-> d.clauses, watchers |-> d.watchers, implications |-> d.implications, trail |-> d.trail]
    BY <1>3 DEF Now
  <2> QED
    BY <2>1, <2>2 DEF WithTrailOf
<1>6. level \in Nat /\ kept = Backtracked(trail, level) /\ e = WithTrailOf(d, kept)
  OBVIOUS
<1>7. level = 0
  OBVIOUS
<1> HIDE DEF d, e, kept, level
<1>8. /\ IsTrail(kept) /\ Begins(kept, trail) /\ CurrentLevel(kept) <= level
      /\ \A i \in 1..Len(trail) : trail[i].level <= level <=> i <= Len(kept)
  BY <1>4, <1>6, BacktrackedFacts
<1>9. CurrentLevel(kept) = 0 /\ Len(kept) \in Nat
  BY <1>7, <1>8, CurrentLevelFacts, TrailEntries
<1>10. DatabaseOK(e) /\ e \in Databases
  <2>1. \A i \in 1..Len(d.trail) : d.trail[i].level = 0 => i <= Len(kept)
    BY <1>3, <1>7, <1>8
  <2>2. e = [d EXCEPT !.trail = kept]
    BY <1>6 DEF WithTrailOf
  <2>3. Begins(kept, d.trail)
    BY <1>3, <1>8
  <2>4. DatabaseOK(e)
    BY <1>2, <1>8, <2>1, <2>2, <2>3, CutTrail
  <2> QED
    BY <2>4 DEF DatabaseOK
<1>11. Attached(e) = Attached(d)
  BY <1>4, <1>6, <1>8, WithTrail DEF WithTrailOf, IsTrail
<1>12. DatabaseOK(Now)' /\ Attached(Now)' = Attached(Now)
  BY <1>5, <1>10, <1>11, AttachedNow DEF d
<1>13. TypesOK'
  <2>1. binary_index' \in 0..Len(kept) /\ clause_index' \in 0..Len(kept)
    BY <1>1, <1>2, <1>4, <1>9, IndicesFacts
  <2>2. asked' \in 0..Len(config.questions)
    <3>1. Len(config.questions) \in Nat
      BY <1>2, ConfigurationFacts DEF TypesOK
    <3> QED
      BY <1>1, <1>2, <3>1 DEF TypesOK
  <2>3. removable' \subseteq Attached(Now)'
    BY <1>1, <1>2, <1>12 DEF TypesOK
  <2>4. assumptions' \in Seq(Literals)
    BY <1>1
  <2> QED
    BY <1>1, <1>2, <2>1, <2>2, <2>3, <2>4 DEF TypesOK, Running
<1>14. LevelZeroOK' /\ ConflictOK'
  BY <1>1, <1>9 DEF LevelZeroOK, ConflictOK
<1> QED
  BY <1>12, <1>13, <1>14 DEF SolverOK

(* Start keeps it.                                                         *)
LEMMA StartIsOK ==
  ASSUME SolverOK, Start
  PROVE  SolverOK'
<1> DEFINE d == Now
           e == ProcessNewlyFixedVariables(d)
<1>1. /\ status = "resetting" /\ conflict = <<>> /\ status' = "searching" /\ assumptions' = config.questions[asked]
      /\ IF assumptions' = <<>> THEN UNCHANGED <<database, removable, num_processed>>
         ELSE DatabaseBecomes(e) /\ removable' = StillRemovable(e)
      /\ UNCHANGED <<indices, failure, inputVars, clean_ups>>
  BY DEF Start, Propagated
<1>2. TypesOK /\ DatabaseOK(d) /\ LevelZeroOK
  BY DEF SolverOK
<1>3. d.trail = trail /\ d.clauses = clauses /\ e = ProcessNewlyFixedVariables(d)
  BY NowFields
<1>4. d \in Databases /\ IsTrail(trail) /\ Len(trail) \in Nat
  BY <1>2, <1>3, TrailEntries DEF DatabaseOK
<1>5. CurrentLevel(trail) = 0
  BY <1>1, <1>2 DEF LevelZeroOK
<1> HIDE DEF d, e
<1>6. DatabaseOK(Now)' /\ trail' = trail /\ removable' \subseteq Attached(Now)'
  <2>1. CASE assumptions' = <<>>
    <3>1. Now' = Now /\ trail' = trail /\ removable' = removable
      BY <1>1, <2>1 DEF Now, database
    <3>2. DatabaseOK(Now)' /\ Attached(Now)' = Attached(Now)
      BY <1>2, <1>4, <3>1, AttachedNow DEF d
    <3> QED
      BY <1>2, <3>1, <3>2 DEF TypesOK
  <2>2. CASE assumptions' # <<>>
    <3>1. DatabaseBecomes(e) /\ removable' = StillRemovable(e)
      BY <1>1, <2>2
    <3>2. CurrentLevel(d.trail) = 0
      BY <1>3, <1>5
    <3>3. DatabaseOK(e) /\ e.trail = d.trail /\ Len(e.clauses) = Len(d.clauses)
      BY <1>2, <1>3, <3>2, ProcessedIsOK
    <3>4. e \in Databases
      BY <3>3 DEF DatabaseOK
    <3>5. Now' = e /\ trail' = e.trail
      BY <3>1, <3>4, NowBecomes
    <3>6. DatabaseOK(Now)' /\ Attached(Now)' = Attached(e)
      BY <3>3, <3>4, <3>5, AttachedNow
    <3>7. removable \subseteq 1..Len(e.clauses)
      BY <1>2, <3>3 DEF TypesOK, Attached, d
    <3> QED
      BY <1>3, <3>1, <3>3, <3>4, <3>5, <3>6, <3>7, RemovableStays
  <2> QED
    BY <2>1, <2>2
<1>7. assumptions' \in Seq(Literals)
  <2>1. config \in Configurations /\ asked \in 0..Len(config.questions) /\ Len(config.questions) \in Nat
    BY <1>2, ConfigurationFacts DEF TypesOK
  <2>2. asked \in 1..Len(config.questions)
    BY <1>1, <1>2, <2>1 DEF TypesOK
  <2> QED
    BY <1>1, <2>1, <2>2, ConfigurationFacts
<1>8. TypesOK'
  BY <1>1, <1>2, <1>6, <1>7 DEF TypesOK, Running, indices, inputVars
<1>9. LevelZeroOK' /\ ConflictOK'
  BY <1>1 DEF LevelZeroOK, ConflictOK, failure
<1> QED
  BY <1>6, <1>8, <1>9 DEF SolverOK

(* ReapplyAssumptions keeps it.                                            *)
LEMMA ReapplyAssumptionsIsOK ==
  ASSUME SolverOK, ReapplyAssumptions
  PROVE  SolverOK'
<1> DEFINE d == Now
           r == WithAssumptions(trail, assumptions)
           e == WithTrailOf(d, r.trail)
<1>1. /\ status = "searching" /\ CurrentLevel(trail) = 0 /\ trail' = r.trail
      /\ \/ status' = "ASSUMPTIONS_UNSAT" /\ assumptions' = assumptions
         \/ /\ status' = status /\ conflict' = <<>>
            /\ assumptions' \in {<<>>, assumptions}
      /\ UNCHANGED <<clauses, watchers, implications, removable, indices, inputVars>>
  <2>1. conflict = <<>> /\ status = "searching"
    BY DEF ReapplyAssumptions, Searching, Propagated
  <2>2. \/ status' = "ASSUMPTIONS_UNSAT" /\ assumptions' = assumptions
        \/ status' = status /\ conflict' = conflict /\ assumptions' = StillAssumed(r.trail)
    BY DEF ReapplyAssumptions, failure
  <2>3. StillAssumed(r.trail) \in {<<>>, assumptions}
    BY DEF StillAssumed
  <2> QED
    BY <2>1, <2>2, <2>3 DEF ReapplyAssumptions, NeedAssumptions
<1>2. TypesOK /\ DatabaseOK(d)
  BY DEF SolverOK
<1>3. /\ d.trail = trail /\ d.clauses = clauses /\ d.watchers = watchers /\ d.implications = implications
  BY NowFields
<1>4. d \in Databases /\ IsTrail(trail) /\ Len(trail) \in Nat /\ assumptions \in Seq(Literals)
  BY <1>2, <1>3, TrailEntries DEF DatabaseOK, TypesOK
<1>5. Now' = e
  <2>1. Now' = [clauses |-> d.clauses, watchers |-> d.watchers, implications |-> d.implications, trail |-> r.trail]
    BY <1>1, <1>3 DEF Now
  <2>2. d = [clauses |-> d.clauses, watchers |-> d.watchers, implications |-> d.implications, trail |-> d.trail]
    BY <1>3 DEF Now
  <2> QED
    BY <2>1, <2>2 DEF WithTrailOf
<1>6. r = WithAssumptions(d.trail, assumptions) /\ e = WithTrailOf(d, r.trail) /\ CurrentLevel(d.trail) = 0
  BY <1>1, <1>3
<1> HIDE DEF d, r, e
<1>7. AssumedOK(d, assumptions, r, Len(assumptions))
  BY <1>2, <1>4, <1>6, AssumptionsAreOK
<1>8. DatabaseOK(e) /\ Begins(d.trail, r.trail)
  BY <1>6, <1>7 DEF AssumedOK
<1>9. e \in Databases /\ IsTrail(e.trail)
  BY <1>8 DEF DatabaseOK
<1>10. e.trail = r.trail /\ Attached(e) = Attached(d)
  <2>1. r.trail \in Seq(Entries)
    BY <1>7 DEF AssumedOK, Assumeds
  <2> QED
    BY <1>4, <1>6, <2>1, WithTrail DEF WithTrailOf
<1>11. DatabaseOK(Now)' /\ Attached(Now)' = Attached(Now)
  BY <1>5, <1>8, <1>9, <1>10, AttachedNow DEF d
<1>12. Len(trail') \in Nat /\ Len(trail) <= Len(trail')
  BY <1>1, <1>3, <1>4, <1>8, <1>9, <1>10, TrailEntries DEF Begins
<1>13. TypesOK'
  <2>1. binary_index' \in 0..Len(trail') /\ clause_index' \in 0..Len(trail')
    BY <1>1, <1>2, <1>4, <1>12 DEF TypesOK, indices
  <2>2. assumptions' \in Seq(Literals)
    <3>1. <<>> \in Seq(Literals) /\ assumptions \in Seq(Literals)
      BY <1>4
    <3>2. assumptions' = <<>> \/ assumptions' = assumptions
      BY <1>1
    <3> QED
      BY <3>1, <3>2, Zenon
  <2>3. /\ status' \in Running \cup {"FEASIBLE", "INFEASIBLE", "ASSUMPTIONS_UNSAT"}
        /\ status' # "resetting"
    BY <1>1 DEF Running
  <2> QED
    BY <1>1, <1>2, <1>11, <2>1, <2>2, <2>3 DEF TypesOK, inputVars
<1>14. LevelZeroOK' /\ ConflictOK'
  BY <1>1 DEF LevelZeroOK, ConflictOK, Running
<1> QED
  BY <1>11, <1>13, <1>14 DEF SolverOK

(* Leaf keeps it.                                                          *)
LEMMA LeafIsOK ==
  ASSUME SolverOK, Leaf
  PROVE  SolverOK'
<1>1. /\ status' = "FEASIBLE"
      /\ UNCHANGED <<database, removable, indices, failure, inputVars, assumptions>>
  BY DEF Leaf
<1>2. TypesOK /\ DatabaseOK(Now) /\ Now \in Databases
  BY DEF SolverOK, DatabaseOK
<1>3. Now' = Now /\ trail' = trail
  BY <1>1 DEF Now, database
<1>4. DatabaseOK(Now)' /\ Attached(Now)' = Attached(Now)
  BY <1>2, <1>3, AttachedNow
<1>5. TypesOK'
  BY <1>1, <1>2, <1>3, <1>4 DEF TypesOK, indices, inputVars
<1>6. LevelZeroOK' /\ ConflictOK'
  BY <1>1 DEF LevelZeroOK, ConflictOK, Running
<1> QED
  BY <1>4, <1>5, <1>6 DEF SolverOK

(* EnqueueNewDecision keeps it, with a restart and a simplification or     *)
(* without.                                                                *)
LEMMA EnqueueNewDecisionIsOK ==
  ASSUME SolverOK, NEW restart \in BOOLEAN, NEW process \in BOOLEAN, NEW l \in config.branches,
         EnqueueNewDecision(restart, process, l)
  PROVE  SolverOK'
<1> DEFINE d == Now
           assumption_level == IF assumptions = <<>> THEN 0 ELSE 1
           kept == IF restart THEN Backtracked(trail, assumption_level) ELSE trail
           level == CurrentLevel(kept)
           g == [d EXCEPT !.trail = kept]
           e == IF process THEN ProcessNewlyFixedVariables(g) ELSE g
           next == level + 1
           type == "DECISION"
           u == Enqueued(kept, l, next, type, 0)
           n == WithTrailOf(e, u)
<1>1. /\ status = "searching" /\ conflict = <<>>
      /\ process => level = 0 /\ num_processed < Len(kept)
      /\ ~IsAssigned(kept, l)
      /\ DatabaseBecomes([e EXCEPT !.trail = Enqueued(@, l, level + 1, "DECISION", 0)])
      /\ removable' = StillRemovable(e)
      /\ IndicesUpTo(Len(kept))
      /\ UNCHANGED <<failure, inputVars, status, assumptions>>
  BY DEF EnqueueNewDecision, Searching, Propagated
<1>2. TypesOK /\ DatabaseOK(d)
  BY DEF SolverOK
<1>3. /\ d.trail = trail /\ d.clauses = clauses
  BY NowFields
<1>4. d \in Databases /\ IsTrail(trail) /\ Len(trail) \in Nat
  BY <1>2, <1>3, TrailEntries DEF DatabaseOK
<1>5. assumption_level \in Nat
  OBVIOUS
<1> HIDE DEF d, assumption_level
<1>6. /\ IsTrail(kept) /\ Begins(kept, trail)
      /\ \A i \in 1..Len(trail) : trail[i].level = 0 => i <= Len(kept)
  <2>1. CASE restart
    <3>1. kept = Backtracked(trail, assumption_level)
      BY <2>1
    <3> HIDE DEF kept
    <3>2. /\ IsTrail(kept) /\ Begins(kept, trail)
          /\ \A i \in 1..Len(trail) : trail[i].level <= assumption_level <=> i <= Len(kept)
      BY <1>4, <1>5, <3>1, BacktrackedFacts
    <3>3. \A i \in 1..Len(trail) : trail[i].level = 0 => i <= Len(kept)
      BY <1>5, <3>2
    <3> QED
      BY <3>2, <3>3
  <2>2. CASE ~restart
    <3>1. kept = trail
      BY <2>2
    <3>2. Begins(trail, trail)
      BY <1>4 DEF Begins
    <3> QED
      BY <1>4, <3>1, <3>2
  <2> QED
    BY <2>1, <2>2
<1>7. g = [d EXCEPT !.trail = kept]
  OBVIOUS
<1>8. (process /\ e = ProcessNewlyFixedVariables(g)) \/ e = g
  OBVIOUS
<1>9. u = Enqueued(kept, l, next, type, 0) /\ n = WithTrailOf(e, u) /\ type = "DECISION"
  OBVIOUS
<1>10. [e EXCEPT !.trail = Enqueued(@, l, level + 1, "DECISION", 0)] = [e EXCEPT !.trail = Enqueued(e.trail, l, next, type, 0)]
  OBVIOUS
<1> HIDE DEF kept, g, e
<1>11. Len(kept) \in Nat /\ Len(kept) <= Len(trail) /\ level \in Nat /\ level <= Len(kept)
  BY <1>4, <1>6, TrailEntries, CurrentLevelFacts DEF Begins
<1>12. DatabaseOK(g) /\ g.trail = kept /\ g.clauses = d.clauses /\ Attached(g) = Attached(d)
  <2>1. Begins(kept, d.trail) /\ \A i \in 1..Len(d.trail) : d.trail[i].level = 0 => i <= Len(kept)
    BY <1>3, <1>6
  <2>2. DatabaseOK(g)
    BY <1>2, <1>6, <1>7, <2>1, CutTrail
  <2> QED
    BY <1>4, <1>6, <1>7, <2>2, WithTrail DEF IsTrail
<1>13. DatabaseOK(e) /\ e.trail = kept /\ Len(e.clauses) = Len(d.clauses)
  <2>1. CASE process /\ e = ProcessNewlyFixedVariables(g)
    <3>1. CurrentLevel(g.trail) = 0
      BY <1>1, <1>12, <2>1
    <3>2. DatabaseOK(e) /\ e.trail = g.trail /\ Len(e.clauses) = Len(g.clauses)
      BY <1>12, <2>1, <3>1, ProcessedIsOK
    <3> QED
      BY <1>12, <3>2
  <2>2. CASE e = g
    BY <1>12, <2>2
  <2> QED
    BY <1>8, <2>1, <2>2
<1>14. l \in Literals /\ ~IsAssigned(e.trail, l)
  <2>1. config \in Configurations
    BY <1>2 DEF TypesOK
  <2> QED
    BY <1>1, <1>13, <2>1, ConfigurationFacts
<1>15. /\ next \in Nat /\ next > 0 /\ next >= CurrentLevel(e.trail) /\ next <= Len(e.trail) + 1
  BY <1>11, <1>13
<1>16. u = Enqueued(e.trail, l, next, type, 0)
  BY <1>9, <1>13
<1>17. DatabaseBecomes(n)
  BY <1>1, <1>10, <1>16 DEF WithTrailOf
<1> HIDE DEF next, type, u, n
<1>18. /\ DatabaseOK(n) /\ Begins(e.trail, u) /\ n.trail = u /\ n.clauses = e.clauses /\ Attached(n) = Attached(e)
  <2>1. (type = "DECISION" /\ next > 0) \/ (type = "UNIT" /\ next = 0)
    BY <1>9, <1>15
  <2>2. n = WithTrailOf(e, u)
    BY <1>9
  <2> QED
    BY <1>13, <1>14, <1>15, <1>16, <2>1, <2>2, FreeEntry, SMTT(20)
<1>19. n \in Databases /\ e \in Databases /\ IsTrail(n.trail)
  BY <1>13, <1>18 DEF DatabaseOK
<1>20. Now' = n /\ trail' = n.trail
  BY <1>17, <1>19, NowBecomes
<1>21. DatabaseOK(Now)' /\ Attached(Now)' = Attached(n)
  BY <1>18, <1>19, <1>20, AttachedNow
<1>22. removable' \subseteq Attached(Now)'
  <2>1. removable \subseteq 1..Len(e.clauses)
    BY <1>2, <1>13 DEF TypesOK, Attached, d
  <2> QED
    BY <1>1, <1>18, <1>19, <1>21, <2>1, RemovableStays
<1>23. binary_index' \in 0..Len(trail') /\ clause_index' \in 0..Len(trail')
  <2>1. binary_index' \in 0..Len(kept) /\ clause_index' \in 0..Len(kept)
    BY <1>1, <1>2, <1>4, <1>11, IndicesFacts
  <2>2. Len(trail') \in Nat /\ Len(kept) <= Len(trail')
    BY <1>11, <1>13, <1>18, <1>19, <1>20, TrailEntries DEF Begins
  <2> QED
    BY <1>11, <2>1, <2>2
<1>24. TypesOK'
  BY <1>1, <1>2, <1>22, <1>23 DEF TypesOK, inputVars
<1>25. LevelZeroOK' /\ ConflictOK'
  BY <1>1 DEF LevelZeroOK, ConflictOK, failure
<1> QED
  BY <1>21, <1>24, <1>25 DEF SolverOK

(* ProcessCurrentConflict keeps it: what is detached is no reason after the*)
(* backjump, and what is learned propagates.                               *)
LEMMA ProcessCurrentConflictIsOK ==
  ASSUME SolverOK, ProcessCurrentConflict
  PROVE  SolverOK'
<1> DEFINE d == Now
           levels == {LevelOf(trail, l) : l \in ToSet(conflict)}
           highest == Max(levels)
           gives_up == highest = 0 \/ (highest = 1 /\ assumptions # <<>>)
<1>1. /\ status \in Running /\ conflict # <<>>
      /\ IF gives_up
         THEN /\ status' = IF highest = 0 THEN "INFEASIBLE" ELSE "ASSUMPTIONS_UNSAT"
              /\ UNCHANGED <<database, removable, indices, failure, clean_ups>>
         ELSE BackjumpAndLearn
      /\ UNCHANGED <<inputVars, assumptions, num_processed, restarts>>
  BY DEF ProcessCurrentConflict
<1>2. TypesOK /\ DatabaseOK(d) /\ LevelZeroOK /\ FailureIsKnown(d, conflict, failing)
  BY <1>1 DEF SolverOK, ConflictOK
<1>3. d.trail = trail /\ d.clauses = clauses
  BY NowFields
<1>4. d \in Databases /\ IsTrail(trail) /\ Len(trail) \in Nat
  BY <1>2, <1>3, TrailEntries DEF DatabaseOK
<1> HIDE DEF d
<1>5. CASE gives_up
  <2>1. /\ status' \in {"INFEASIBLE", "ASSUMPTIONS_UNSAT"}
        /\ UNCHANGED <<database, removable, indices, failure, clean_ups>>
    BY <1>1, <1>5
  <2>2. Now' = Now /\ trail' = trail
    BY <2>1 DEF Now, database
  <2>3. DatabaseOK(Now)' /\ Attached(Now)' = Attached(Now)
    BY <1>2, <1>4, <2>2, AttachedNow DEF d
  <2>4. TypesOK'
    BY <1>1, <1>2, <2>1, <2>2, <2>3 DEF TypesOK, indices, inputVars
  <2>5. LevelZeroOK' /\ ConflictOK'
    BY <2>1 DEF LevelZeroOK, ConflictOK, Running
  <2> QED
    BY <2>3, <2>4, <2>5 DEF SolverOK
<1>6. CASE ~gives_up
  <2>1. BackjumpAndLearn
    BY <1>1, <1>6
  <2>2. \E l \in ToSet(conflict) : LevelOf(d.trail, l) > 0
    <3>1. conflict \in Seq(Literals) /\ \A l \in ToSet(conflict) : IsFalse(trail, l)
      BY <1>2, <1>3 DEF FailureIsKnown, FalseLiterals
    <3>2. ASSUME NEW l \in ToSet(conflict) PROVE LevelOf(trail, l) \in Nat /\ LevelOf(trail, l) <= CurrentLevel(trail)
      <4>1. l \in Literals /\ IsAssigned(trail, l)
        BY <3>1, ToSetFacts DEF IsAssigned
      <4> QED
        BY <1>4, <4>1, TrailFacts, CurrentLevelFacts
    <3>3. levels \subseteq Nat /\ levels # {}
      <4>1. ToSet(conflict) # {}
        BY <1>1, <3>1, ToSetFacts
      <4> QED
        BY <3>2, <4>1
    <3>4. IsFiniteSet(levels)
      <4>1. levels \subseteq 0..CurrentLevel(trail) /\ CurrentLevel(trail) \in Nat
        BY <1>4, <3>2, CurrentLevelFacts
      <4>2. IsFiniteSet(0..CurrentLevel(trail))
        BY <4>1, FS_Interval
      <4> QED
        BY <4>1, <4>2, FS_Subset
    <3>5. highest \in levels
      <4>1. levels \in SUBSET Int
        BY <3>3
      <4> HIDE DEF levels
      <4> QED
        BY <3>3, <3>4, <4>1, MaxOfSet
    <3>6. highest \in Nat /\ highest # 0
      BY <1>6, <3>3, <3>5
    <3>7. PICK l \in ToSet(conflict) : highest = LevelOf(trail, l)
      BY <3>5
    <3>8. LevelOf(trail, l) > 0
      BY <3>6, <3>7
    <3> QED
      BY <1>3, <3>8
  <2> DEFINE r == Learned(d)
             subsumed == IF config.subsumption_during_conflict_analysis THEN r.subsumed ELSE {}
             level == ComputeBacktrackLevel(trail, r.conflict)
             kept == Backtracked(trail, level)
             g == WithTrailOf(d, kept)
             e == Detach(g, subsumed)
  <2>3. /\ LearnClause(e, r.conflict, IsRedundant(subsumed)) /\ IndicesUpTo(Len(kept))
        /\ conflict' = <<>> /\ status' = status
    BY <2>1 DEF BackjumpAndLearn, WithTrailOf, d
  <2>4. subsumed \subseteq r.subsumed
    OBVIOUS
  <2>5. /\ r = Learned(d) /\ level = ComputeBacktrackLevel(d.trail, r.conflict)
        /\ kept = Backtracked(d.trail, level) /\ g = WithTrailOf(d, kept) /\ e = Detach(g, subsumed)
    BY <1>3
  <2> HIDE DEF r, subsumed, level, kept, g, e
  <2>6. PICK top \in Nat \ {0} : LearnedOK(d, top, r)
    BY <1>2, <2>2, <2>5, LearnedIsOK
  <2>7. /\ DatabaseOK(g) /\ g.trail = kept /\ g.clauses = d.clauses
        /\ IsTrail(kept) /\ Len(kept) \in Nat /\ Len(kept) <= Len(d.trail)
        /\ Asserting(kept, r.conflict) /\ NotReasons(kept, r.subsumed)
    BY <1>2, <2>5, <2>6, BackjumpIsOK
  <2>8. DatabaseOK(e)
    <3>1. \A i \in 1..Len(g.trail) : g.trail[i].type = "CLAUSE" /\ g.trail[i].level > 0 => g.trail[i].by \notin subsumed
      BY <2>4, <2>7 DEF NotReasons
    <3> QED
      BY <2>5, <2>7, <3>1, DetachIsOK
  <2>9. e.trail = kept /\ Len(e.clauses) = Len(d.clauses)
    <3>1. g \in Databases
      BY <2>7 DEF DatabaseOK
    <3>2. e.trail = g.trail /\ Len(e.clauses) = Len(g.clauses)
      BY <2>5, <3>1, DetachFields
    <3> QED
      BY <2>7, <3>2
  <2>10. removable \subseteq 1..Len(e.clauses)
    BY <1>2, <2>9 DEF TypesOK, Attached, d
  <2>11. Asserting(e.trail, r.conflict)
    BY <2>7, <2>9
  <2>12. DatabaseOK(Now') /\ Begins(e.trail, trail') /\ removable' \subseteq Attached(Now)'
    BY <2>3, <2>8, <2>10, <2>11, LearnClauseIsOK
  <2>13. DatabaseOK(Now)' /\ IsTrail(trail')
    <3>1. DatabaseOK(Now)'
      BY <2>12
    <3>2. Now'.trail = trail'
      BY DEF Now
    <3>3. IsTrail(Now'.trail)
      BY <2>12 DEF DatabaseOK
    <3> QED
      BY <3>1, <3>2, <3>3
  <2>14. binary_index' \in 0..Len(trail') /\ clause_index' \in 0..Len(trail')
    <3>1. binary_index' \in 0..Len(kept) /\ clause_index' \in 0..Len(kept)
      BY <1>2, <1>4, <2>3, <2>7, IndicesFacts
    <3>2. Len(trail') \in Nat /\ Len(kept) <= Len(trail')
      BY <2>7, <2>9, <2>12, <2>13, TrailEntries DEF Begins
    <3> QED
      BY <2>7, <3>1, <3>2
  <2>15. TypesOK'
    BY <1>1, <1>2, <2>3, <2>12, <2>14 DEF TypesOK, inputVars
  <2>16. ConflictOK'
    BY <2>3 DEF ConflictOK
  <2>17. LevelZeroOK'
    <3>1. PICK l \in ToSet(conflict) : LevelOf(trail, l) > 0
      BY <1>3, <2>2
    <3>2. l \in Literals /\ IsAssigned(trail, l)
      BY <1>2, <1>3, ToSetFacts DEF FailureIsKnown, FalseLiterals, IsAssigned
    <3>3. LevelOf(trail, l) <= CurrentLevel(trail) /\ LevelOf(trail, l) \in Nat /\ CurrentLevel(trail) \in Nat
      BY <1>4, <3>2, TrailFacts, CurrentLevelFacts
    <3>4. CurrentLevel(trail) # 0
      BY <3>1, <3>3
    <3>5. status \notin {"loading", "resetting"}
      BY <1>2, <3>4 DEF LevelZeroOK
    <3> QED
      BY <2>3, <3>5 DEF LevelZeroOK
  <2> QED
    BY <2>13, <2>15, <2>16, <2>17 DEF SolverOK
<1> QED
  BY <1>5, <1>6

(* AddClauseDuringSearch keeps it, whatever the level.                     *)
LEMMA AddClauseDuringSearchIsOK ==
  ASSUME SolverOK, NEW c \in config.late, AddClauseDuringSearch(c)
  PROVE  SolverOK'
<1> DEFINE d == Now
           s == Sorted(c)
<1>1. PICK e : /\ e = IF CurrentLevel(trail) = 0 THEN AddProblemClause(d, c)
                      ELSE IF Cardinality(c) = 2 THEN AddBinaryClause(d, s[1], s[2]) ELSE Attach(d, s)
               /\ DatabaseBecomes(e)
  BY DEF AddClauseDuringSearch
<1>2. /\ status = "searching" /\ conflict = <<>> /\ \E l \in c : ~IsFalse(trail, l)
      /\ UNCHANGED <<removable, indices, failure, config, loaded, asked, status, assumptions>>
  BY DEF AddClauseDuringSearch, Searching, Propagated
<1>3. TypesOK /\ DatabaseOK(d)
  BY DEF SolverOK
<1>4. d.trail = trail
  BY NowFields
<1>5. d \in Databases /\ IsTrail(trail) /\ Len(trail) \in Nat
  BY <1>3, <1>4, TrailEntries DEF DatabaseOK
<1>6. c \subseteq Literals /\ Cardinality(c) > 1
  BY <1>3, ConfigurationFacts DEF TypesOK
<1>7. s \in Seq(Literals) /\ Len(s) = Cardinality(c) /\ ToSet(s) = c /\ Distinct(s)
  BY <1>6, SortedFacts
<1> HIDE DEF d, s
<1>8. DatabaseOK(e) /\ Begins(trail, e.trail) /\ Attached(d) \subseteq Attached(e)
  <2>1. CASE CurrentLevel(trail) = 0
    <3>1. e = AddProblemClause(d, c) /\ CurrentLevel(d.trail) = 0 /\ \E l \in c : ~IsFalse(d.trail, l)
      BY <1>1, <1>2, <1>4, <2>1
    <3> QED
      BY <1>3, <1>4, <1>6, <3>1, AddProblemClauseIsOK
  <2>2. CASE CurrentLevel(trail) # 0 /\ Cardinality(c) = 2
    <3>1. s[1] \in Literals /\ s[2] \in Literals /\ s[1] # s[2]
      <4>1. Len(s) = 2 /\ s \in Seq(Literals) /\ Distinct(s)
        BY <1>7, <2>2
      <4>2. 1 \in 1..Len(s) /\ 2 \in 1..Len(s)
        BY <4>1
      <4>3. s[1] \in Literals /\ s[2] \in Literals
        BY <4>1, <4>2
      <4>4. s[1] # s[2]
        BY <4>1, <4>2 DEF Distinct
      <4> QED
        BY <4>3, <4>4
    <3>2. e = AddBinaryClause(d, s[1], s[2])
      BY <1>1, <2>2
    <3>3. DatabaseOK(e)
      BY <1>3, <3>1, <3>2, AddBinaryClauseIsOK
    <3>4. Begins(d.trail, e.trail) /\ Attached(e) = Attached(d)
      BY <1>3, <3>1, <3>2, AddBinaryGrows
    <3> QED
      BY <1>4, <3>3, <3>4
  <2>3. CASE CurrentLevel(trail) # 0 /\ Cardinality(c) # 2
    <3>1. Len(s) \in Nat /\ Len(s) >= 3
      BY <1>6, <1>7, <2>3
    <3>2. \E i \in 1..Len(s) : ~IsFalse(d.trail, s[i])
      <4>1. PICK l \in ToSet(s) : ~IsFalse(d.trail, l)
        BY <1>2, <1>4, <1>7
      <4>2. PICK i \in 1..Len(s) : s[i] = l
        BY <1>7, <4>1, ToSetFacts
      <4> QED
        BY <4>1, <4>2
    <3>3. e = Attach(d, s)
      BY <1>1, <2>3
    <3> DEFINE n == Len(d.clauses) + 1
    <3>4. n = Len(d.clauses) + 1
      OBVIOUS
    <3> HIDE DEF n
    <3>5. DatabaseOK(e) /\ Begins(d.trail, e.trail) /\ Attached(e) = Attached(d) \cup {n}
      BY <1>3, <1>7, <3>1, <3>2, <3>3, <3>4, AttachIsOK
    <3> QED
      BY <1>4, <3>5
  <2> QED
    BY <2>1, <2>2, <2>3
<1>9. e \in Databases /\ IsTrail(e.trail)
  BY <1>8 DEF DatabaseOK
<1>10. Now' = e /\ trail' = e.trail
  BY <1>1, <1>9, NowBecomes
<1>11. DatabaseOK(Now)' /\ Attached(Now)' = Attached(e)
  BY <1>8, <1>9, <1>10, AttachedNow
<1>12. Len(trail') \in Nat /\ Len(trail) <= Len(trail')
  BY <1>5, <1>8, <1>9, <1>10, TrailEntries DEF Begins
<1>13. TypesOK'
  <2>1. binary_index' \in 0..Len(trail') /\ clause_index' \in 0..Len(trail')
    BY <1>2, <1>3, <1>5, <1>12 DEF TypesOK, indices
  <2>2. removable' \subseteq Attached(Now)'
    BY <1>2, <1>3, <1>8, <1>11 DEF TypesOK, d
  <2> QED
    BY <1>2, <1>3, <2>1, <2>2 DEF TypesOK
<1>14. LevelZeroOK' /\ ConflictOK'
  BY <1>2 DEF LevelZeroOK, ConflictOK, failure
<1> QED
  BY <1>11, <1>13, <1>14 DEF SolverOK

(* A stuttering step keeps it.                                             *)
LEMMA StutteringIsOK ==
  ASSUME SolverOK, UNCHANGED vars
  PROVE  SolverOK'
<1>1. /\ UNCHANGED <<clauses, watchers, implications, trail, removable, binary_index, clause_index, conflict, failing>>
      /\ UNCHANGED <<config, loaded, asked, status, assumptions>>
  BY DEF vars, database, indices, failure, inputVars
<1>2. Now' = Now /\ TypesOK /\ DatabaseOK(Now) /\ LevelZeroOK /\ ConflictOK
  BY <1>1 DEF Now, SolverOK
<1>3. DatabaseOK(Now)' /\ Attached(Now)' = Attached(Now)
  BY <1>2, AttachedNow DEF DatabaseOK
<1>4. TypesOK' /\ LevelZeroOK'
  BY <1>1, <1>2, <1>3 DEF TypesOK, LevelZeroOK
<1>5. ConflictOK'
  BY <1>1, <1>2 DEF ConflictOK, FailureIsKnown
<1> QED
  BY <1>3, <1>4, <1>5 DEF SolverOK

(* So every step keeps the invariant.                                      *)
LEMMA NextIsOK ==
  ASSUME SolverOK, [Next]_vars
  PROVE  SolverOK'
<1>1. CASE PropagateBinary
  BY <1>1, PropagateBinaryIsOK
<1>2. CASE PropagateClauses
  BY <1>2, PropagateClausesIsOK
<1>3. CASE Load
  BY <1>3, LoadIsOK
<1>4. CASE Ask
  BY <1>4, AskIsOK
<1>5. CASE Start
  BY <1>5, StartIsOK
<1>6. CASE ReapplyAssumptions
  BY <1>6, ReapplyAssumptionsIsOK
<1>7. CASE Leaf
  BY <1>7, LeafIsOK
<1>8. CASE \E restart, process \in BOOLEAN, l \in config.branches : EnqueueNewDecision(restart, process, l)
  BY <1>8, EnqueueNewDecisionIsOK
<1>9. CASE ProcessCurrentConflict
  BY <1>9, ProcessCurrentConflictIsOK
<1>10. CASE \E c \in config.late : AddClauseDuringSearch(c)
  BY <1>10, AddClauseDuringSearchIsOK
<1>11. CASE UNCHANGED vars
  BY <1>11, StutteringIsOK
<1> QED
  BY <1>1, <1>2, <1>3, <1>4, <1>5, <1>6, <1>7, <1>8, <1>9, <1>10, <1>11 DEF Next

(* The inductive invariant holds in every state of every search.           *)
THEOREM SolverIsOK == Spec => []SolverOK
<1>1. Init => SolverOK
  BY InitIsOK
<1>2. SolverOK /\ [Next]_vars => SolverOK'
  BY NextIsOK
<1> QED
  BY <1>1, <1>2, PTL DEF Spec
-----------------------------------------------------------------------------
(* It implies the type invariant.                                          *)
LEMMA TypesFollow ==
  ASSUME SolverOK
  PROVE  TypeOK
<1> DEFINE d == Now
<1>1. TypesOK /\ d \in Databases /\ IsTrail(d.trail) /\ WatchesOK(d) /\ ReasonsOK(d)
  BY DEF SolverOK, DatabaseOK
<1>2. d.trail = trail /\ d.clauses = clauses /\ d.watchers = watchers /\ d.implications = implications
  BY NowFields
<1> HIDE DEF d
<1>3. clauses \in Seq(Seq(Literals)) /\ \A l \in Literals : implications[l] \in Seq(Literals)
  BY <1>1, <1>2, DatabaseTypes
<1>4. \A i \in 1..Len(trail) : EntryOK(trail[i])
  <2> SUFFICES ASSUME NEW i \in 1..Len(trail) PROVE EntryOK(trail[i])
    OBVIOUS
  <2> DEFINE x == trail[i]
  <2>1. x.literal \in Literals /\ x.level \in Nat /\ x.by \in Int /\ x \in Entries
    BY <1>1, <1>2, TrailEntries
  <2>2. x.level <= Cardinality(Variables)
    BY <1>1, <1>2, TrailIsBounded
  <2>3. Cardinality(Variables) \in Nat
    BY FS_CardinalityType, SatAssumption
  <2>4. EntryIsExplained(d, i) /\ d.trail[i] = x
    BY <1>1, <1>2 DEF ReasonsOK
  <2>5. x.type \in {"DECISION", "UNIT", "BINARY", "CLAUSE"}
    BY <2>1 DEF Entries
  <2> HIDE DEF x
  <2>6. x.level \in 0..Cardinality(Variables)
    BY <2>1, <2>2, <2>3
  <2>7. \/ x.type \in {"DECISION", "UNIT"} /\ x.by = 0
        \/ x.type = "BINARY" /\ x.by \in Literals
        \/ x.type = "CLAUSE" /\ x.by \in (IF x.level = 0 THEN 1..Len(clauses) ELSE Attached(d))
    <3>1. /\ x.type = "CLAUSE" => x.by \in 1..Len(clauses) /\ (x.level > 0 => x.by \in Attached(d))
          /\ x.type = "BINARY" => x.by \in Literals
          /\ x.type \in {"DECISION", "UNIT"} => x.by = 0
      BY <1>2, <2>4 DEF EntryIsExplained
    <3>2. x.level = 0 \/ x.level > 0
      BY <2>1
    <3> QED
      BY <2>5, <3>1, <3>2
  <2> QED
    BY <2>1, <2>6, <2>7 DEF EntryOK, x, d
<1>5. ASSUME NEW l \in Literals
      PROVE  /\ \A i, j \in 1..Len(watchers[l]) : watchers[l][i].clause = watchers[l][j].clause => i = j
             /\ \A c \in 1..Len(clauses) :
                  (\E i \in 1..Len(watchers[l]) : watchers[l][i].clause = c)
                    <=> c \in Attached(d) /\ l \in {clauses[c][1], clauses[c][2]}
  <2>1. \A i, j \in 1..Len(watchers[l]) : watchers[l][i].clause = watchers[l][j].clause => i = j
    BY <1>1, <1>2 DEF WatchesOK
  <2>2. \A i \in 1..Len(watchers[l]) :
          watchers[l][i].clause \in Attached(d) /\ l \in Watches(d, watchers[l][i].clause)
    BY <1>1, <1>2 DEF WatchesOK, WatcherOK
  <2>3. \A c \in Attached(d) : l \in Watches(d, c) => \E i \in 1..Len(watchers[l]) : watchers[l][i].clause = c
    BY <1>1, <1>2 DEF WatchesOK
  <2> QED
    BY <1>2, <2>1, <2>2, <2>3 DEF Watches
<1> QED
  BY <1>1, <1>3, <1>4, <1>5 DEF TypeOK, TypesOK, d

(* It implies that reasons explain the trail.                              *)
LEMMA ReasonsFollow ==
  ASSUME SolverOK
  PROVE  ReasonsExplainTheTrail
<1> DEFINE d == Now
<1>1. d \in Databases /\ IsTrail(d.trail) /\ ReasonsOK(d) /\ ClausesOK(d)
  BY DEF SolverOK, DatabaseOK
<1>2. d.trail = trail /\ d.clauses = clauses
  BY NowFields
<1> HIDE DEF d
<1>3. ASSUME NEW i \in 1..Len(trail)
      PROVE  /\ \A l \in ToSet(Reason(d, i)) : \E j \in 1..i - 1 : trail[j].literal = -l
             /\ trail[i].type = "CLAUSE" /\ trail[i].level > 0 =>
                  trail[i].by \in Attached(d) /\ trail[i].literal = Head(clauses[trail[i].by])
  <2>1. EntryIsExplained(d, i)
    BY <1>1, <1>2 DEF ReasonsOK
  <2>2. PICK q : q = Reason(d, i)
    OBVIOUS
  <2> QED
    BY <1>1, <1>2, <2>1 DEF EntryIsExplained
<1> QED
  BY <1>3 DEF ReasonsExplainTheTrail, d

(* Types, and the watches: a clause that is attached is watched by its     *)
(* first two literals, once each, and nothing else is watched.             *)
THEOREM TypesAreOK == Spec => []TypeOK
<1>1. SolverOK => TypeOK
  BY TypesFollow
<1> QED
  BY <1>1, SolverIsOK, PTL

(* Reasons explain the trail: a clause that propagated a literal is still  *)
(* there, has it in front, and its others were false before.               *)
THEOREM ReasonsExplain == Spec => []ReasonsExplainTheTrail
<1>1. SolverOK => ReasonsExplainTheTrail
  BY ReasonsFollow
<1> QED
  BY <1>1, SolverIsOK, PTL

-----------------------------------------------------------------------------
(* The analysis of a conflict: what is learned follows.                    *)

(* A literal that was propagated is satisfied when its reason is not.      *)
LEMMA ReasonIsSatisfied ==
  ASSUME NEW s \in Assignments, NEW d, DatabaseOK(d), Models(s, d), NEW i \in 1..Len(d.trail),
         d.trail[i].type # "DECISION", d.trail[i].literal \notin s
  PROVE  \E m \in ToSet(Reason(d, i)) : m \in s
<1> DEFINE t == d.trail
           x == t[i].literal
           c == t[i].by
<1>1. /\ d \in Databases /\ IsTrail(t) /\ ClausesOK(d) /\ EntryIsExplained(d, i)
      /\ t[i] \in Entries /\ x \in Literals /\ t[i].level \in Nat
  BY TrailEntries DEF DatabaseOK, ReasonsOK
<1>2. t[i].level > 0
  <2>1. t[i].level # 0
    BY DEF Models, SatisfiesFixed
  <2> QED
    BY <1>1, <2>1
<1>3. CASE t[i].type = "CLAUSE"
  <2>1. c \in Attached(d) /\ d.clauses[c][1] = x
    BY <1>1, <1>2, <1>3 DEF EntryIsExplained
  <2>2. PICK m \in ToSet(d.clauses[c]) : m \in s
    BY <2>1 DEF Models, Satisfies
  <2>3. m # d.clauses[c][1]
    BY <2>1, <2>2
  <2>4. m \in ToSet(Reason(d, i))
    BY <1>1, <1>3, <2>1, <2>2, <2>3, ReasonOfClause
  <2> QED
    BY <2>2, <2>4
<1>4. CASE t[i].type = "BINARY"
  <2>1. c \in Literals /\ x \in ToSet(d.implications[-c])
    BY <1>1, <1>2, <1>4 DEF EntryIsExplained
  <2>2. -c \in Literals
    BY <2>1, LiteralFacts
  <2>3. -c \notin s
    BY <1>1, <2>1, <2>2 DEF Models, SatisfiesGraph
  <2>4. c \in s
    BY <2>1, <2>3, AssignmentFacts
  <2>5. Reason(d, i) = <<c>>
    BY <1>4 DEF Reason
  <2>6. c \in ToSet(Reason(d, i))
    BY <2>1, <2>5, SingletonFacts
  <2> QED
    BY <2>4, <2>6
<1>5. t[i].type = "CLAUSE" \/ t[i].type = "BINARY"
  <2>1. t[i].type \in {"DECISION", "UNIT", "BINARY", "CLAUSE"}
    BY <1>1 DEF Entries
  <2>2. t[i].type # "UNIT"
    BY <1>1, <1>2 DEF EntryIsExplained
  <2> QED
    BY <2>1, <2>2
<1> QED
  BY <1>3, <1>4, <1>5

(* The clause that the expansions stand for: the literals of lower levels  *)
(* and the false literals of the pending variables.                        *)
PartFollows(s, t, e) ==
  (\E l \in ToSet(e.lower) : l \in s) \/ (\E v \in e.pending : FalseOf(t, v) \in s)

(* The marked variables of lower levels are those of its literals.         *)
LowerAreMarked(t, highest, e) ==
  \A v \in e.marked : LevelOf(t, v) < highest => FalseOf(t, v) \in ToSet(e.lower)

(* What one clause adds.                                                   *)
LEMMA ExpandedLiterals ==
  ASSUME NEW d, DatabaseOK(d), NEW t, t = d.trail, NEW highest \in Nat, NEW k, NEW e, PartOK(d, highest, e),
         NEW clause, FalseLiterals(t, clause), LowerAreMarked(t, highest, e), NEW id,
         NEW q, q = Expanded(t, highest, k, e, clause, id)
  PROVE  ToSet(e.lower) \subseteq ToSet(q.lower) /\ LowerAreMarked(t, highest, q)
<1> DEFINE positive == {l \in ToSet(clause) : LevelOf(t, l) > 0}
           unmarked == {l \in positive : VariableOf(l) \notin e.marked}
           new == Only(clause, unmarked)
           below == {l \in ToSet(new) : LevelOf(t, l) < highest}
           more == Only(new, below)
<1>1. q = WithNew(t, highest, k, e, Cardinality(positive), new, id)
  <2>1. q = The({WithNew(t, highest, k, e, Cardinality(positive), x, id) : x \in {new}})
    BY DEF Expanded
  <2>2. {WithNew(t, highest, k, e, Cardinality(positive), x, id) : x \in {new}}
          = {WithNew(t, highest, k, e, Cardinality(positive), new, id)}
    OBVIOUS
  <2> QED
    BY <2>1, <2>2, TheOfOne
<1>2. /\ q.marked = e.marked \cup {VariableOf(l) : l \in ToSet(new)}
      /\ q.lower = e.lower \o more
  BY <1>1 DEF WithNew
<1> HIDE DEF positive, unmarked, below, more, new
<1>3. IsTrail(t) /\ clause \in Seq(Literals) /\ \A l \in ToSet(clause) : IsFalse(t, l)
  BY DEF DatabaseOK, FalseLiterals
<1>4. new \in Seq(Literals) /\ \A x : x \in ToSet(new) <=> x \in ToSet(clause) /\ x \in unmarked
  BY <1>3, OnlyFacts DEF new
<1>5. more \in Seq(Literals) /\ \A x : x \in ToSet(more) <=> x \in ToSet(new) /\ x \in below
  BY <1>4, OnlyFacts DEF more
<1>6. e.lower \in Seq(Literals)
  BY DEF PartOK
<1>7. \A l : l \in ToSet(q.lower) <=> l \in ToSet(e.lower) \/ l \in ToSet(more)
  <2> DEFINE u == e.lower
             w == q.lower
  <2>1. w = u \o more /\ u \in Seq(Literals)
    BY <1>2, <1>6
  <2> HIDE DEF u, w
  <2>2. \A l : l \in ToSet(w) <=> l \in ToSet(u) \/ l \in ToSet(more)
    BY <1>5, <2>1, ConcatenationFacts
  <2> QED
    BY <2>2 DEF u, w
<1>8. ASSUME NEW v \in q.marked, LevelOf(t, v) < highest PROVE FalseOf(t, v) \in ToSet(q.lower)
  <2>1. CASE v \in e.marked
    BY <1>7, <1>8, <2>1 DEF LowerAreMarked
  <2>2. CASE v \notin e.marked
    <3>1. PICK l \in ToSet(new) : v = VariableOf(l)
      BY <1>2, <1>8, <2>2
    <3>2. l \in Literals /\ IsFalse(t, l)
      BY <1>3, <1>4, <3>1, ToSetFacts
    <3>3. FalseOf(t, v) = l /\ LevelOf(t, v) = LevelOf(t, l)
      BY <1>3, <3>1, <3>2, FalseOfFacts
    <3>4. l \in below
      BY <1>8, <3>1, <3>3 DEF below
    <3> QED
      BY <1>5, <1>7, <3>1, <3>3, <3>4
  <2> QED
    BY <2>1, <2>2
<1> QED
  BY <1>7, <1>8 DEF LowerAreMarked
(* From a level on, the decision is the first entry of its level; many     *)
(* assumptions share the first one.                                        *)
OneDecisionFrom(t, n) ==
  \A i, j \in 1..Len(t) :
    j < i /\ t[i].level = t[j].level /\ t[i].level >= n => t[i].type # "DECISION"

(* One step down the trail resolves with the reason of a pending variable, *)
(* which is not a decision as another one is pending.                      *)
LEMMA ExpansionFollows ==
  ASSUME NEW s \in Assignments, NEW d, DatabaseOK(d), Models(s, d),
         NEW highest \in Nat, highest > 0, OneDecisionFrom(d.trail, highest), NEW k \in 1..Len(d.trail),
         NEW e, ExpansionOK(d, highest, k, e), LowerAreMarked(d.trail, highest, e),
         PartFollows(s, d.trail, e), NEW q, q = ExpandedNext(d, highest, e, k)
  PROVE  PartFollows(s, d.trail, q) /\ LowerAreMarked(d.trail, highest, q)
<1> DEFINE t == d.trail
           w == VariableOf(t[k].literal)
           reason == Reason(d, k)
<1>1. /\ IsTrail(t) /\ Len(t) \in Nat /\ t[k].literal \in Literals /\ t[k].level \in Nat
      /\ SatisfiesFixed(s, t)
  BY TrailEntries DEF DatabaseOK, Models
<1>2. PartOK(d, highest, e) /\ e.pending \subseteq e.marked /\ e.marked \subseteq Variables
      /\ \A v \in e.pending : LevelOf(t, v) = highest /\ v \in Variables /\ IsAssigned(t, v)
  BY DEF ExpansionOK, PartOK
<1>3. ASSUME NEW v \in e.pending
      PROVE  /\ TrailIndex(t, v) \in 1..Len(t) /\ (TrailIndex(t, v) = k => v = w)
             /\ t[TrailIndex(t, v)].level = highest
  <2>1. v \in Variables /\ v \in Literals /\ VariableOf(v) = v /\ IsAssigned(t, v)
    BY <1>1, <1>2, VariableFacts
  <2>2. TrailIndex(t, v) \in 1..Len(t) /\ t[TrailIndex(t, v)].literal \in {v, -v}
        /\ LevelOf(t, v) = t[TrailIndex(t, v)].level
    BY <1>1, <2>1, TrailFacts
  <2>3. VariableOf(t[TrailIndex(t, v)].literal) = v
    BY <2>1, <2>2, LiteralFacts
  <2> QED
    BY <1>2, <2>2, <2>3
<1>4. CASE w \notin e.marked \/ Cardinality(e.pending) = 1
  BY <1>4 DEF ExpandedNext
<1>5. CASE w \in e.marked /\ Cardinality(e.pending) # 1
  <2>1. \A v \in e.pending : TrailIndex(t, v) <= k
    BY <1>5 DEF ExpansionOK
  <2>2. q = Expanded(t, highest, k - 1, e, reason, ReasonClauseOrNull(d, k))
    BY <1>5 DEF ExpandedNext
  <2>3. PICK u \in e.pending : u # w
    <3>1. e.pending # {w}
      BY <1>5, FS_Singleton
    <3> QED
      BY <3>1 DEF ExpansionOK
  <2>4. /\ TrailIndex(t, u) < k /\ TrailIndex(t, u) \in 1..Len(t) /\ t[TrailIndex(t, u)].level = highest
        /\ t[k].level >= highest
    <3>1. TrailIndex(t, u) <= k /\ TrailIndex(t, u) # k /\ TrailIndex(t, u) \in 1..Len(t)
          /\ t[TrailIndex(t, u)].level = highest
      BY <1>3, <2>1, <2>3
    <3> QED
      BY <1>1, <3>1 DEF IsTrail, TrailOK
  <2>5. FalseLiterals(t, reason)
    BY <1>1, <2>4, ReasonIsFalse
  <2>6. ReasonClauseOrNull(d, k) # 0 => MayBeSubsumed(d, highest, ReasonClauseOrNull(d, k))
    <3>1. ReasonClauseOrNull(d, k) # 0 => MayBeSubsumed(d, t[k].level, ReasonClauseOrNull(d, k))
      BY <1>1, <2>4, ReasonIsFalse
    <3>2. \A i \in 1..Len(t) : t[i].level \in Nat
      BY <1>1, TrailEntries
    <3> QED
      BY <1>1, <2>4, <3>1, <3>2 DEF MayBeSubsumed
  <2>7. Joined(t, highest, k - 1, e, reason, q)
    BY <1>2, <2>2, <2>5, <2>6, ExpandedIsOK
  <2>8. ToSet(e.lower) \subseteq ToSet(q.lower) /\ LowerAreMarked(t, highest, q)
    BY <1>2, <2>2, <2>5, ExpandedLiterals
  <2>9. CASE \E l \in ToSet(e.lower) : l \in s
    BY <2>8, <2>9 DEF PartFollows
  <2>10. ASSUME NEW v \in e.pending, FalseOf(t, v) \in s PROVE PartFollows(s, t, q)
    <3>1. CASE TrailIndex(t, v) # k
      <4>1. TrailIndex(t, v) <= k - 1 /\ LevelOf(t, v) = highest /\ v \in e.marked
        BY <1>2, <1>3, <2>1, <3>1
      <4>2. v \in q.pending
        BY <2>7, <4>1 DEF Joined
      <4> QED
        BY <2>10, <4>2 DEF PartFollows
    <3>2. CASE TrailIndex(t, v) = k
      <4>1. t[k].level = highest
        BY <1>3, <3>2
      <4>2. t[k].type # "DECISION"
        BY <2>4, <4>1 DEF OneDecisionFrom
      <4>3. t[k].literal \notin s
        BY <1>1, <2>10, <3>2, AssignmentFacts DEF FalseOf
      <4>4. PICK m \in ToSet(reason) : m \in s
        BY <4>2, <4>3, ReasonIsSatisfied
      <4>5. m \in Literals /\ IsFalse(t, m) /\ TrailIndex(t, m) < k
        BY ReasonFacts
      <4>6. /\ FalseOf(t, VariableOf(m)) = m /\ TrailIndex(t, m) \in 1..Len(t)
            /\ LevelOf(t, m) = t[TrailIndex(t, m)].level /\ LevelOf(t, m) \in Nat
            /\ LevelOf(t, VariableOf(m)) = LevelOf(t, m) /\ TrailIndex(t, VariableOf(m)) = TrailIndex(t, m)
        BY <1>1, <4>5, FalseOfFacts
      <4>7. LevelOf(t, m) <= highest
        BY <1>1, <4>1, <4>5, <4>6 DEF IsTrail, TrailOK
      <4>8. LevelOf(t, m) # 0
        BY <1>1, <4>4, <4>5, FalseForAssignment
      <4>9. VariableOf(m) \in q.marked
        BY <2>7, <4>4, <4>6, <4>8 DEF Joined
      <4>10. CASE LevelOf(t, m) = highest
        <5>1. TrailIndex(t, m) <= k - 1
          BY <4>5, <4>6
        <5>2. VariableOf(m) \in q.pending
          BY <2>7, <4>6, <4>9, <4>10, <5>1 DEF Joined
        <5> QED
          BY <4>4, <4>6, <5>2 DEF PartFollows
      <4>11. CASE LevelOf(t, m) # highest
        <5>1. m \in ToSet(q.lower)
          BY <2>8, <4>6, <4>7, <4>9, <4>11 DEF LowerAreMarked
        <5> QED
          BY <4>4, <5>1 DEF PartFollows
      <4> QED
        BY <4>10, <4>11
    <3> QED
      BY <3>1, <3>2
  <2> QED
    BY <2>8, <2>9, <2>10 DEF PartFollows
<1> QED
  BY <1>4, <1>5

(* All steps.                                                              *)
LEMMA ExpansionsFollow ==
  ASSUME NEW s \in Assignments, NEW d, DatabaseOK(d), Models(s, d),
         NEW highest \in Nat, highest > 0, OneDecisionFrom(d.trail, highest), NEW top \in 1..Len(d.trail),
         NEW first, ExpansionOK(d, highest, top, first), LowerAreMarked(d.trail, highest, first),
         PartFollows(s, d.trail, first), NEW e, e = Expansions(d, highest, first, top)[0]
  PROVE  PartFollows(s, d.trail, e) /\ LowerAreMarked(d.trail, highest, e)
<1>1. top \in Nat /\ Len(d.trail) \in Nat
  BY TrailEntries DEF DatabaseOK
<1>2. PICK f : /\ f[top] = first
               /\ \A i \in 0..(top - 1) : f[i] = ExpandedNext(d, highest, f[i + 1], i + 1)
               /\ Expansions(d, highest, first, top) = f
  BY <1>1, ExpansionsLoop
<1> DEFINE Q(k, x) == /\ ExpansionOK(d, highest, k, x) /\ LowerAreMarked(d.trail, highest, x)
                      /\ PartFollows(s, d.trail, x)
           P(n) == Q(top - n, f[top - n])
           S == {n \in Nat : n <= top => P(n)}
<1> HIDE DEF Q
<1>3. 0 \in S
  <2>1. top - 0 = top
    BY <1>1
  <2>2. Q(top, first)
    BY DEF Q
  <2> QED
    BY <1>2, <2>1, <2>2
<1>4. \A n \in Nat : n \in S => n + 1 \in S
  <2> HIDE DEF P
  <2> SUFFICES ASSUME NEW n \in Nat, P(n), n + 1 <= top PROVE P(n + 1)
    BY <1>1
  <2> USE DEF P
  <2> DEFINE k == top - n
             before == f[k]
             after == f[k - 1]
  <2>1. k \in 1..Len(d.trail) /\ k - 1 \in 0..(top - 1) /\ (k - 1) + 1 = k /\ top - (n + 1) = k - 1
    BY <1>1
  <2>2. Q(k, before)
    OBVIOUS
  <2>3. after = ExpandedNext(d, highest, before, k)
    BY <1>2, <2>1
  <2> HIDE DEF k, before, after, P
  <2>4. ExpansionOK(d, highest, k, before) /\ LowerAreMarked(d.trail, highest, before)
        /\ PartFollows(s, d.trail, before)
    BY <2>2 DEF Q
  <2>5. ExpansionOK(d, highest, k - 1, after)
    BY <2>1, <2>3, <2>4, ExpansionIsOK
  <2>6. PartFollows(s, d.trail, after) /\ LowerAreMarked(d.trail, highest, after)
    BY <2>1, <2>3, <2>4, ExpansionFollows
  <2>7. Q(k - 1, after)
    BY <2>5, <2>6 DEF Q
  <2> QED
    BY <2>1, <2>7 DEF P, after
<1>5. top \in S
  <2> HIDE DEF S
  <2> QED
    BY <1>1, <1>3, <1>4, SetInduction
<1>6. top - top = 0
  BY <1>1
<1>7. P(top)
  BY <1>1, <1>5
<1>8. Q(0, e)
  BY <1>2, <1>6, <1>7
<1> QED
  BY <1>8 DEF Q
(* What is marked below the highest level is in the learned clause, or its *)
(* false literal is not satisfied: what the other literals imply of it.    *)
Covers(s, t, highest, r) ==
  \A v \in r.marked : LevelOf(t, v) < highest =>
    FalseOf(t, v) \in ToSet(Tail(r.conflict)) \/ FalseOf(t, v) \notin s

(* The learned clause: a literal, then a sequence of which the first       *)
(* element goes to the end.                                                *)
Rotation(s, z) == <<z>> \o (IF s = <<>> THEN <<>> ELSE Append(Tail(s), Head(s)))

(* Its literals are those of the sequence and the new one.                 *)
LEMMA RotationFacts ==
  ASSUME NEW s \in Seq(Literals), NEW z \in Literals, NEW u, u = Rotation(s, z)
  PROVE  /\ u \in Seq(Literals) /\ u # <<>> /\ \A x : x \in ToSet(u) <=> x = z \/ x \in ToSet(s)
         /\ \A x \in ToSet(s) : x # z => x \in ToSet(Tail(u))
<1> DEFINE rest == IF s = <<>> THEN <<>> ELSE Append(Tail(s), Head(s))
           one == <<z>>
           q == u
           tail == Tail(q)
<1>1. rest \in Seq(Literals) /\ \A x : x \in ToSet(rest) <=> x \in ToSet(s)
  <2>1. CASE s = <<>>
    BY <2>1
  <2>2. CASE s # <<>>
    <3> DEFINE front == Tail(s)
               last == s[1]
    <3>1. /\ front \in Seq(Literals) /\ Head(s) = last /\ last \in Literals
          /\ \A x : x \in ToSet(s) <=> x = last \/ x \in ToSet(front)
      BY <2>2, TailFacts
    <3>2. rest = Append(front, last)
      BY <2>2, <3>1
    <3> HIDE DEF front, last
    <3>3. Append(front, last) \in Seq(Literals) /\ ToSet(Append(front, last)) = ToSet(front) \cup {last}
      BY <3>1, AppendFacts
    <3> HIDE DEF rest
    <3> QED
      BY <3>1, <3>2, <3>3
  <2> QED
    BY <2>1, <2>2
<1>2. one \in Seq(Literals) /\ Len(one) = 1 /\ one[1] = z /\ \A x : x \in ToSet(one) <=> x = z
  BY SingletonFacts
<1>3. q = one \o rest /\ tail = Tail(q)
  BY DEF Rotation
<1> HIDE DEF rest, one, tail, q
<1>a. one \in Seq(Literals) /\ rest \in Seq(Literals) /\ q = one \o rest
  BY <1>1, <1>2, <1>3
<1>4. q \in Seq(Literals) /\ Len(q) = Len(one) + Len(rest)
  BY <1>a, ConcatenationFacts
<1>5. \A x : x \in ToSet(q) <=> x \in ToSet(one) \/ x \in ToSet(rest)
  BY <1>a, ConcatenationFacts
<1>6. \A i \in 1..Len(one) : q[i] = one[i]
  BY <1>a, ConcatenationFacts
<1>7. q[1] = z
  BY <1>2, <1>6
<1>8. q # <<>>
  BY <1>1, <1>2, <1>4
<1>9. \A x : x \in ToSet(q) <=> x = q[1] \/ x \in ToSet(tail)
  BY <1>3, <1>4, <1>8, TailFacts
<1> QED
  BY <1>1, <1>2, <1>4, <1>5, <1>7, <1>8, <1>9 DEF tail, q

(* The clause that the expansions end with: the false literal of what is   *)
(* pending, and the lower ones.                                            *)
LEMMA FirstUIPLiterals ==
  ASSUME NEW d, DatabaseOK(d), NEW highest \in Nat, highest > 0,
         NEW e, ExpansionOK(d, highest, 0, e), NEW r, r = FirstUIPConflict(d.trail, e)
  PROVE  /\ r.marked = e.marked /\ r.subsumed = e.subsumed /\ e.pending # {}
         /\ \A y \in ToSet(e.lower) : y \in ToSet(r.conflict) /\ y \in ToSet(Tail(r.conflict))
         /\ \A v \in e.pending : FalseOf(d.trail, v) \in ToSet(r.conflict)
         /\ \A y \in ToSet(r.conflict) : y \in ToSet(e.lower) \/ \E v \in e.pending : y = FalseOf(d.trail, v)
<1> DEFINE t == d.trail
           uip == CHOOSE i \in 1..Len(t) : VariableOf(t[i].literal) \in e.pending
           head == -t[uip].literal
           rest == IF e.lower = <<>> THEN <<>> ELSE Append(Tail(e.lower), Head(e.lower))
<1>1. r.conflict = <<head>> \o rest /\ r.marked = e.marked /\ r.subsumed = e.subsumed
  BY DEF FirstUIPConflict
<1>2. /\ e.marked \subseteq Variables /\ \A v \in e.marked : IsAssigned(t, v)
      /\ e.lower \in Seq(Literals) /\ \A l \in ToSet(e.lower) : IsLower(t, highest, l)
      /\ e.pending \subseteq e.marked /\ \A v \in e.pending : LevelOf(t, v) = highest
      /\ e.pending # {}
  BY DEF ExpansionOK, PartOK
<1>3. IsTrail(t)
  BY DEF DatabaseOK
<1>4. ASSUME NEW v \in e.pending
      PROVE  /\ v \in Variables /\ v \in Literals /\ VariableOf(v) = v /\ TrailIndex(t, v) \in 1..Len(t)
             /\ VariableOf(t[TrailIndex(t, v)].literal) = v
  <2>1. v \in Variables /\ IsAssigned(t, v)
    BY <1>2
  <2>2. v \in Literals /\ VariableOf(v) = v
    BY <1>3, <2>1, VariableFacts
  <2>3. TrailIndex(t, v) \in 1..Len(t) /\ t[TrailIndex(t, v)].literal \in {v, -v}
    BY <1>3, <2>1, <2>2, TrailFacts
  <2> QED
    BY <2>1, <2>2, <2>3, LiteralFacts
<1>5. uip \in 1..Len(t) /\ VariableOf(t[uip].literal) \in e.pending
  <2>1. PICK v \in e.pending : TRUE
    BY <1>2
  <2>2. TrailIndex(t, v) \in 1..Len(t) /\ VariableOf(t[TrailIndex(t, v)].literal) \in e.pending
    BY <1>4, <2>1
  <2> QED
    BY <2>2
<1> HIDE DEF uip
<1>6. head \in Literals /\ IsTrue(t, t[uip].literal) /\ t[uip].literal \in Literals
  BY <1>3, <1>5, TrailEntries DEF IsTrue
<1>7. Cardinality(e.pending) = 1
  <2> SUFFICES ASSUME Cardinality(e.pending) # 1 PROVE FALSE
    OBVIOUS
  <2>1. \A v \in e.pending : TrailIndex(t, v) <= 0
    BY DEF ExpansionOK
  <2> QED
    BY <1>2, <1>4, <2>1
<1>8. \A v \in e.pending : FalseOf(t, v) = head
  <2> TAKE v \in e.pending
  <2>1. v = VariableOf(t[uip].literal)
    <3>1. IsFiniteSet(e.pending)
      BY <1>2, LiteralsAreFinite, FS_Subset
    <3>2. \E x : e.pending = {x}
      BY <1>7, <3>1, FS_Singleton
    <3> QED
      BY <1>5, <3>2
  <2>2. TrailIndex(t, v) = TrailIndex(t, t[uip].literal)
    BY <1>3, <1>6, <2>1, VariableFacts
  <2>3. TrailIndex(t, t[uip].literal) = uip
    BY <1>3, <1>5, <1>6, TrailFacts
  <2> QED
    BY <2>2, <2>3 DEF FalseOf
<1>9. head \notin ToSet(e.lower)
  <2> SUFFICES ASSUME head \in ToSet(e.lower) PROVE FALSE
    OBVIOUS
  <2>1. LevelOf(t, head) \in 1..(highest - 1)
    BY <1>2 DEF IsLower
  <2>2. LevelOf(t, head) = LevelOf(t, t[uip].literal)
    BY <1>3, <1>6, TrailFacts
  <2>3. LevelOf(t, t[uip].literal) = LevelOf(t, VariableOf(t[uip].literal))
    BY <1>3, <1>6, VariableFacts
  <2>4. LevelOf(t, VariableOf(t[uip].literal)) = highest
    BY <1>2, <1>5
  <2> QED
    BY <2>1, <2>2, <2>3, <2>4
<1>10. /\ \A y : y \in ToSet(r.conflict) <=> y = head \/ y \in ToSet(e.lower)
       /\ \A y \in ToSet(e.lower) : y # head => y \in ToSet(Tail(r.conflict))
  <2> DEFINE u == r.conflict
             w == e.lower
             x == head
  <2>1. w \in Seq(Literals) /\ x \in Literals /\ u = Rotation(w, x)
    BY <1>1, <1>2, <1>6 DEF Rotation
  <2> HIDE DEF u, w, x
  <2>3. \A y : y \in ToSet(u) <=> y = x \/ y \in ToSet(w)
    BY <2>1, RotationFacts
  <2>4. \A y \in ToSet(w) : y # x => y \in ToSet(Tail(u))
    BY <2>1, RotationFacts
  <2> QED
    BY <2>3, <2>4 DEF u, w, x
<1>11. \A y \in ToSet(e.lower) : y # head
  BY <1>9
<1>12. \E v \in e.pending : FalseOf(t, v) = head
  BY <1>2, <1>8
<1> QED
  BY <1>1, <1>2, <1>8, <1>10, <1>11, <1>12

(* It follows, with what is marked below the highest level.                *)
LEMMA FirstUIPFollows ==
  ASSUME NEW s, NEW d, DatabaseOK(d), NEW highest \in Nat, highest > 0,
         NEW e, ExpansionOK(d, highest, 0, e), LowerAreMarked(d.trail, highest, e),
         PartFollows(s, d.trail, e), NEW r, r = FirstUIPConflict(d.trail, e)
  PROVE  Satisfies(s, r.conflict) /\ Covers(s, d.trail, highest, r)
<1>1. /\ r.marked = e.marked
      /\ \A y \in ToSet(e.lower) : y \in ToSet(r.conflict) /\ y \in ToSet(Tail(r.conflict))
      /\ \A v \in e.pending : FalseOf(d.trail, v) \in ToSet(r.conflict)
  BY FirstUIPLiterals
<1>2. Satisfies(s, r.conflict)
  BY <1>1 DEF PartFollows, Satisfies
<1>3. Covers(s, d.trail, highest, r)
  BY <1>1 DEF LowerAreMarked, Covers
<1> QED
  BY <1>2, <1>3

(* Minimisation: what is taken away is implied to be false by what stays.  *)
(* An entry of the trail that is implied: its reason has literals that are *)
(* fixed, marked or implied themselves.                                    *)
IsImplied(d, marked, implied, i) ==
  /\ i \in 1..Len(d.trail) /\ d.trail[i].type # "DECISION"
  /\ \A m \in ToSet(Reason(d, i)) :
       LevelOf(d.trail, m) = 0 \/ VariableOf(m) \in marked \/ TrailIndex(d.trail, m) \in implied

(* An assignment that avoids what stays satisfies all that is implied, up  *)
(* the trail, so it does not satisfy what is taken away either.            *)
LEMMA ShortenedFollows ==
  ASSUME NEW s \in Assignments, NEW d, DatabaseOK(d), Models(s, d), NEW highest \in Nat,
         NEW r, LearnedOK(d, highest, r), Satisfies(s, r.conflict), Covers(s, d.trail, highest, r),
         NEW others, NEW e, Shortened(r, others, e),
         NEW implied, \A i \in implied : IsImplied(d, r.marked, implied, i),
         \A l \in ToSet(Tail(r.conflict)) : l \in others \/ TrailIndex(d.trail, l) \in implied
  PROVE  Satisfies(s, e.conflict)
<1> SUFFICES ASSUME ~Satisfies(s, e.conflict) PROVE FALSE
  OBVIOUS
<1> DEFINE t == d.trail
           c == r.conflict
           q == e.conflict
           tail == Tail(c)
           back == Tail(q)
<1>1. IsTrail(t) /\ Len(t) \in Nat /\ SatisfiesFixed(s, t)
  BY TrailEntries DEF DatabaseOK, Models
<1>2. /\ c \in Seq(Literals) /\ c # <<>> /\ tail = Tail(c) /\ \A l \in ToSet(tail) : IsLower(t, highest, l)
  BY DEF LearnedOK
<1>3. /\ LearnedOK(d, highest, e) /\ q[1] = c[1]
      /\ \A l : l \in ToSet(back) <=> l \in ToSet(tail) /\ l \in others
  <2>1. e.conflict = HeadAnd(r.conflict, others) /\ e.subsumed = r.subsumed
    BY DEF Shortened
  <2> QED
    BY <2>1, HeadAndIsOK
<1>4. q \in Seq(Literals) /\ q # <<>> /\ back = Tail(q)
  BY <1>3 DEF LearnedOK
<1> HIDE DEF c, q, tail, back
<1>5. \A l : l \in ToSet(c) <=> l = c[1] \/ l \in ToSet(tail)
  BY <1>2, TailFacts
<1>6. \A l : l \in ToSet(q) <=> l = q[1] \/ l \in ToSet(back)
  BY <1>4, TailFacts
<1>7. \A l \in ToSet(q) : l \notin s
  BY DEF Satisfies, q
<1>8. ASSUME NEW l \in ToSet(tail)
      PROVE  /\ l \in Literals /\ IsFalse(t, l) /\ LevelOf(t, l) < highest /\ FalseOf(t, l) = l
             /\ TrailIndex(t, l) \in 1..Len(t) /\ t[TrailIndex(t, l)].literal = -l
             /\ LevelOf(t, l) = t[TrailIndex(t, l)].level
  <2>1. l \in Literals
    BY <1>2, <1>5, ToSetFacts
  <2>2. IsFalse(t, l) /\ LevelOf(t, l) < highest
    BY <1>2 DEF IsLower
  <2> QED
    BY <1>1, <2>1, <2>2, FalseOfFacts
<1> DEFINE places == implied \cup {TrailIndex(t, l) : l \in ToSet(tail)}
           P(i) == i \in places /\ t[i].level < highest => t[i].literal \in s
           S == {i \in 1..Len(t) : P(i)}
<1>9. \A n \in 1..Len(t) : (\A m \in 1..(n - 1) : m \in S) => n \in S
  <2> HIDE DEF P, places
  <2> SUFFICES ASSUME NEW n \in 1..Len(t), \A m \in 1..(n - 1) : P(m) PROVE P(n)
    <3>1. ASSUME NEW n \in 1..Len(t), \A m \in 1..(n - 1) : m \in S PROVE \A m \in 1..(n - 1) : P(m)
      BY <3>1
    <3> QED
      BY <3>1
  <2> SUFFICES ASSUME n \in places, t[n].level < highest, t[n].literal \notin s PROVE FALSE
    BY DEF P
  <2>1. n \in implied
    <3> SUFFICES ASSUME n \notin implied PROVE FALSE
      OBVIOUS
    <3>1. PICK l \in ToSet(tail) : n = TrailIndex(t, l)
      BY DEF places
    <3>2. l \in others
      BY <3>1 DEF tail, c
    <3>3. l \in ToSet(q)
      BY <1>3, <1>6, <3>1, <3>2
    <3>4. l \notin s /\ l \in Literals
      BY <1>7, <1>8, <3>1, <3>3
    <3>5. t[n].literal = -l
      BY <1>8, <3>1
    <3> QED
      BY <3>4, <3>5, AssignmentFacts
  <2>2. IsImplied(d, r.marked, implied, n)
    BY <2>1
  <2>3. PICK m \in ToSet(Reason(d, n)) : m \in s
    <3>1. d.trail[n].type # "DECISION"
      BY <2>2 DEF IsImplied
    <3> QED
      BY <3>1, ReasonIsSatisfied
  <2>4. m \in Literals /\ IsFalse(t, m) /\ TrailIndex(t, m) < n
    BY ReasonFacts
  <2>5. /\ FalseOf(t, VariableOf(m)) = m /\ TrailIndex(t, m) \in 1..Len(t)
        /\ t[TrailIndex(t, m)].literal = -m /\ LevelOf(t, m) = t[TrailIndex(t, m)].level
        /\ LevelOf(t, m) \in Nat /\ LevelOf(t, VariableOf(m)) = LevelOf(t, m)
    BY <1>1, <2>4, FalseOfFacts
  <2>6. LevelOf(t, m) # 0
    BY <1>1, <2>3, <2>4, FalseForAssignment
  <2>7. LevelOf(t, m) < highest
    <3>1. t[TrailIndex(t, m)].level <= t[n].level
      BY <1>1, <2>4, <2>5 DEF IsTrail, TrailOK
    <3>2. t[n].level \in Nat
      BY <1>1, TrailEntries
    <3> QED
      BY <2>5, <3>1, <3>2
  <2>8. ASSUME TrailIndex(t, m) \in places PROVE FALSE
    <3>1. TrailIndex(t, m) \in 1..(n - 1)
      BY <1>1, <2>4, <2>5
    <3>2. P(TrailIndex(t, m))
      BY <3>1
    <3>3. -m \in s
      BY <2>5, <2>7, <2>8, <3>2 DEF P
    <3> QED
      BY <2>3, <2>4, <3>3, AssignmentFacts
  <2>9. CASE VariableOf(m) \in r.marked
    <3>1. m \in ToSet(tail)
      BY <2>3, <2>5, <2>7, <2>9 DEF Covers, tail, c
    <3>2. TrailIndex(t, m) \in places
      BY <3>1 DEF places
    <3> QED
      BY <2>8, <3>2
  <2>10. CASE TrailIndex(t, m) \in implied
    <3>1. TrailIndex(t, m) \in places
      BY <2>10 DEF places
    <3> QED
      BY <2>8, <3>1
  <2> QED
    BY <2>2, <2>6, <2>9, <2>10 DEF IsImplied
<1>10. 1..Len(t) \subseteq S
  <2> HIDE DEF S
  <2> QED
    BY <1>1, <1>9, IntervalInduction
<1>11. PICK l \in ToSet(c) : l \in s
  BY DEF Satisfies, c
<1>12. l # c[1]
  BY <1>3, <1>6, <1>7, <1>11
<1>13. l \in ToSet(tail)
  BY <1>5, <1>11, <1>12
<1>14. -l \in s
  <2>1. TrailIndex(t, l) \in places /\ TrailIndex(t, l) \in 1..Len(t)
        /\ t[TrailIndex(t, l)].level < highest /\ t[TrailIndex(t, l)].literal = -l
    BY <1>8, <1>13
  <2>2. P(TrailIndex(t, l))
    BY <1>10, <2>1
  <2> HIDE DEF places
  <2> QED
    BY <2>1, <2>2
<1> QED
  BY <1>8, <1>11, <1>13, <1>14, AssignmentFacts
(* The simple minimisation.                                                *)
LEMMA SimpleFollows ==
  ASSUME NEW s \in Assignments, NEW d, DatabaseOK(d), Models(s, d), NEW highest \in Nat,
         NEW r, IsLearned(r), LearnedOK(d, highest, r), Satisfies(s, r.conflict), Covers(s, d.trail, highest, r),
         NEW e, e = MinimizeConflictSimple(d, r)
  PROVE  Satisfies(s, e.conflict)
<1> DEFINE Gone(l) ==
             LET reason == Reason(d, TrailIndex(d.trail, l))
             IN /\ LevelOf(d.trail, l) # CurrentLevel(d.trail) /\ reason # <<>>
                /\ \A m \in ToSet(reason) : LevelOf(d.trail, m) = 0 \/ VariableOf(m) \in r.marked
           others == {l \in ToSet(r.conflict) : ~Gone(l)}
           tail == Tail(r.conflict)
           implied == {TrailIndex(d.trail, l) : l \in {l \in ToSet(tail) : Gone(l)}}
<1>1. e = [r EXCEPT !.conflict = HeadAnd(r.conflict, others)]
  BY DEF MinimizeConflictSimple
<1> HIDE DEF others
<1>2. e.conflict = HeadAnd(r.conflict, others) /\ e.subsumed = r.subsumed /\ IsLearned(e)
  BY <1>1 DEF IsLearned
<1>3. Shortened(r, others, e)
  BY <1>2 DEF Shortened
<1> HIDE DEF Gone
<1>4. \A l \in ToSet(tail) : l \in ToSet(r.conflict) /\ l \in Literals /\ IsFalse(d.trail, l)
  <2> DEFINE c == r.conflict
  <2>1. c \in Seq(Literals) /\ c # <<>> /\ tail = Tail(c) /\ \A l \in ToSet(tail) : IsLower(d.trail, highest, l)
    BY DEF LearnedOK
  <2> HIDE DEF c, tail
  <2>2. \A l : l \in ToSet(c) <=> l = c[1] \/ l \in ToSet(tail)
    BY <2>1, TailFacts
  <2>3. ToSet(c) \subseteq Literals
    BY <2>1, ToSetFacts
  <2> QED
    BY <2>1, <2>2, <2>3 DEF IsLower, c
<1>5. \A l \in ToSet(tail) : l \in others \/ TrailIndex(d.trail, l) \in implied
  BY <1>4 DEF others
<1>6. ASSUME NEW i \in implied PROVE IsImplied(d, r.marked, implied, i)
  <2>1. PICK l \in ToSet(tail) : i = TrailIndex(d.trail, l) /\ Gone(l)
    OBVIOUS
  <2>2. i \in 1..Len(d.trail)
    BY <1>4, <2>1, FalseOfFacts DEF DatabaseOK
  <2>3. /\ Reason(d, i) # <<>>
        /\ \A m \in ToSet(Reason(d, i)) : LevelOf(d.trail, m) = 0 \/ VariableOf(m) \in r.marked
    BY <2>1 DEF Gone
  <2>4. d.trail[i].type # "DECISION"
    BY <2>3 DEF Reason
  <2> QED
    BY <2>2, <2>3, <2>4 DEF IsImplied
<1>7. \A i \in implied : IsImplied(d, r.marked, implied, i)
  BY <1>6
<1> HIDE DEF implied
<1>8. \A l \in ToSet(Tail(r.conflict)) : l \in others \/ TrailIndex(d.trail, l) \in implied
  BY <1>5
<1> QED
  BY <1>3, <1>7, <1>8, ShortenedFollows

(* What CanBeInfered() collects is implied.                                *)
LEMMA InferedIsImplied ==
  ASSUME NEW d, DatabaseOK(d), NEW marked, NEW infered, infered = CanBeInfered(d, marked)
  PROVE  \A i \in infered : IsImplied(d, marked, infered, i)
<1> DEFINE n == Len(d.trail)
<1>1. n \in Nat
  BY TrailEntries DEF DatabaseOK
<1>2. PICK f : /\ f[0] = {}
               /\ \A i \in 1..n : f[i] = f[i - 1] \cup {j \in {i} : InferedFrom(d, marked, j, f[i - 1])}
               /\ CanBeInfered(d, marked) = f[n]
  BY <1>1, InferedLoop
<1> DEFINE P(k) == \A i \in f[k] : i \in 1..k /\ InferedFrom(d, marked, i, f[i - 1])
           Q(k) == \A j \in 0..k : f[j] \subseteq f[k]
           S == {k \in Nat : k <= n => P(k) /\ Q(k)}
<1>3. 0 \in S
  BY <1>2
<1>4. \A k \in Nat : k \in S => k + 1 \in S
  <2> HIDE DEF P, Q
  <2> SUFFICES ASSUME NEW k \in Nat, P(k), Q(k), k + 1 <= n PROVE P(k + 1) /\ Q(k + 1)
    BY <1>1
  <2>1. f[k + 1] = f[k] \cup {j \in {k + 1} : InferedFrom(d, marked, j, f[k])}
    <3>1. k + 1 \in 1..n /\ (k + 1) - 1 = k
      BY <1>1
    <3> QED
      BY <1>2, <3>1
  <2>2. P(k + 1)
    <3>1. ASSUME NEW i \in f[k + 1] PROVE i \in 1..(k + 1) /\ InferedFrom(d, marked, i, f[i - 1])
      <4>1. CASE i \in f[k]
        BY <4>1 DEF P
      <4>2. CASE i \notin f[k]
        <5>1. i = k + 1 /\ InferedFrom(d, marked, i, f[k])
          BY <2>1, <4>2
        <5>2. i - 1 = k
          BY <5>1
        <5> QED
          BY <5>1, <5>2
      <4> QED
        BY <4>1, <4>2
    <3> QED
      BY <3>1 DEF P
  <2>3. Q(k + 1)
    <3>1. ASSUME NEW j \in 0..(k + 1) PROVE f[j] \subseteq f[k + 1]
      <4>1. CASE j = k + 1
        BY <4>1
      <4>2. CASE j # k + 1
        <5>1. j \in 0..k
          BY <4>2
        <5> QED
          BY <2>1, <5>1 DEF Q
      <4> QED
        BY <4>1, <4>2
    <3> QED
      BY <3>1 DEF Q
  <2> QED
    BY <2>2, <2>3
<1>5. P(n) /\ Q(n)
  <2> HIDE DEF P, Q, S
  <2>1. n \in S
    BY <1>1, <1>3, <1>4, SetInduction
  <2> QED
    BY <1>1, <2>1 DEF S
<1>6. ASSUME NEW i \in infered PROVE IsImplied(d, marked, infered, i)
  <2>1. i \in 1..n /\ InferedFrom(d, marked, i, f[i - 1])
    BY <1>2, <1>5
  <2>2. f[i - 1] \subseteq infered
    <3>1. i - 1 \in 0..n
      BY <1>1, <2>1
    <3> QED
      BY <1>2, <1>5, <3>1
  <2> QED
    BY <2>1, <2>2 DEF IsImplied, InferedFrom
<1> QED
  BY <1>6

(* The recursive minimisation.                                             *)
LEMMA RecursiveFollows ==
  ASSUME NEW s \in Assignments, NEW d, DatabaseOK(d), Models(s, d), NEW highest \in Nat,
         NEW r, IsLearned(r), LearnedOK(d, highest, r), Satisfies(s, r.conflict), Covers(s, d.trail, highest, r),
         NEW e, e = MinimizeConflictRecursively(d, r)
  PROVE  Satisfies(s, e.conflict)
<1> DEFINE infered == CanBeInfered(d, r.marked)
           others == {l \in ToSet(r.conflict) : TrailIndex(d.trail, l) \notin infered}
           tail == Tail(r.conflict)
<1>1. e = WithoutInfered(d.trail, r, infered)
  <2>1. e = The({WithoutInfered(d.trail, r, x) : x \in {infered}})
    BY DEF MinimizeConflictRecursively
  <2>2. {WithoutInfered(d.trail, r, x) : x \in {infered}} = {WithoutInfered(d.trail, r, infered)}
    OBVIOUS
  <2> QED
    BY <2>1, <2>2, TheOfOne
<1>2. \A i \in infered : IsImplied(d, r.marked, infered, i)
  BY InferedIsImplied
<1> HIDE DEF infered
<1>3. e = [r EXCEPT !.conflict = HeadAnd(r.conflict, others)]
  BY <1>1 DEF WithoutInfered
<1> HIDE DEF others
<1>4. e.conflict = HeadAnd(r.conflict, others) /\ e.subsumed = r.subsumed /\ IsLearned(e)
  BY <1>3 DEF IsLearned
<1>5. Shortened(r, others, e)
  BY <1>4 DEF Shortened
<1>6. \A l \in ToSet(tail) : l \in ToSet(r.conflict)
  <2> DEFINE c == r.conflict
  <2>1. c \in Seq(Literals) /\ c # <<>> /\ tail = Tail(c)
    BY DEF LearnedOK
  <2> HIDE DEF c, tail
  <2>2. \A l : l \in ToSet(c) <=> l = c[1] \/ l \in ToSet(tail)
    BY <2>1, TailFacts
  <2> QED
    BY <2>2 DEF c
<1>7. \A l \in ToSet(Tail(r.conflict)) : l \in others \/ TrailIndex(d.trail, l) \in infered
  BY <1>6 DEF others
<1> QED
  BY <1>2, <1>5, <1>7, ShortenedFollows
(* What a satisfied literal implies is satisfied.                          *)
LEMMA DescendantsAreSatisfied ==
  ASSUME NEW s \in Assignments, NEW d \in Databases, SatisfiesGraph(s, d), NEW root \in s,
         NEW reachable, reachable = MarkDescendants(d.implications, root)
  PROVE  reachable \subseteq s
<1> DEFINE n == Cardinality(Literals)
           g == d.implications
<1>1. n \in Nat
  BY LiteralsAreFinite
<1>2. PICK f : /\ f[0] = {root}
               /\ \A i \in 1..n : f[i] = f[i - 1] \cup UNION {ToSet(g[l]) : l \in f[i - 1]}
               /\ MarkDescendants(g, root) = f[n]
  BY <1>1, DescendantsLoop
<1> DEFINE P(i) == f[i] \subseteq s
           S == {i \in Nat : i <= n => P(i)}
<1>3. 0 \in S
  BY <1>2
<1>4. \A i \in Nat : i \in S => i + 1 \in S
  <2> SUFFICES ASSUME NEW i \in Nat, f[i] \subseteq s, i + 1 <= n PROVE f[i + 1] \subseteq s
    BY <1>1
  <2>1. f[i + 1] = f[i] \cup UNION {ToSet(g[l]) : l \in f[i]}
    <3>1. i + 1 \in 1..n /\ (i + 1) - 1 = i
      BY <1>1
    <3> QED
      BY <1>2, <3>1
  <2>2. ASSUME NEW l \in f[i], NEW m \in ToSet(g[l]) PROVE m \in s
    <3>1. l \in s /\ l \in Literals
      BY AssignmentFacts
    <3>2. m \in Literals
      BY <3>1, DatabaseTypes, ToSetFacts
    <3> QED
      BY <3>1, <3>2 DEF SatisfiesGraph
  <2> QED
    BY <2>1, <2>2
<1>5. n \in S
  <2> HIDE DEF S
  <2> QED
    BY <1>1, <1>3, <1>4, SetInduction
<1> QED
  BY <1>1, <1>2, <1>5

(* The binary minimisation.                                                *)
LEMMA FirstFollows ==
  ASSUME NEW s \in Assignments, NEW d, DatabaseOK(d), Models(s, d), NEW highest \in Nat,
         NEW r, IsLearned(r), LearnedOK(d, highest, r), Satisfies(s, r.conflict), Covers(s, d.trail, highest, r),
         NEW e, e = MinimizeConflictFirst(d, r)
  PROVE  /\ Satisfies(s, e.conflict)
         /\ r.conflict[1] \notin s => Covers(s, d.trail, highest, e)
<1> DEFINE t == d.trail
           c == r.conflict
           q == e.conflict
           tail == Tail(c)
           back == Tail(q)
           root == -Head(c)
           reachable == MarkDescendants(d.implications, root)
           others == {l \in Literals : -l \notin reachable}
<1>1. e = WithoutReachable(d.trail, r, reachable)
  <2>1. e = The({WithoutReachable(d.trail, r, x) : x \in {reachable}})
    BY DEF MinimizeConflictFirst
  <2>2. {WithoutReachable(d.trail, r, x) : x \in {reachable}} = {WithoutReachable(d.trail, r, reachable)}
    OBVIOUS
  <2> QED
    BY <2>1, <2>2, TheOfOne
<1>2. reachable = MarkDescendants(d.implications, root)
  OBVIOUS
<1> HIDE DEF reachable
<1>3. e = [r EXCEPT !.conflict = HeadAnd(r.conflict, others),
                    !.marked = r.marked \cup {VariableOf(l) : l \in {m \in reachable : IsTrue(d.trail, m)}}]
  BY <1>1 DEF WithoutReachable
<1> HIDE DEF others
<1>4. /\ e.conflict = HeadAnd(r.conflict, others) /\ e.subsumed = r.subsumed
      /\ e.marked = r.marked \cup {VariableOf(l) : l \in {m \in reachable : IsTrue(d.trail, m)}}
  BY <1>3 DEF IsLearned
<1>5. IsTrail(t) /\ d \in Databases /\ SatisfiesGraph(s, d)
  BY DEF DatabaseOK, Models
<1>6. c \in Seq(Literals) /\ c # <<>> /\ tail = Tail(c) /\ \A l \in ToSet(tail) : IsFalse(t, l)
  BY DEF LearnedOK, IsLower
<1>7. /\ LearnedOK(d, highest, e) /\ q[1] = c[1]
      /\ \A l : l \in ToSet(back) <=> l \in ToSet(tail) /\ l \in others
  BY <1>4, HeadAndIsOK
<1>8. q \in Seq(Literals) /\ q # <<>> /\ back = Tail(q)
  BY <1>7 DEF LearnedOK
<1> HIDE DEF c, q, tail, back
<1>9. (\A l : l \in ToSet(c) <=> l = c[1] \/ l \in ToSet(tail)) /\ Head(c) = c[1] /\ c[1] \in Literals
  BY <1>6, TailFacts
<1>10. \A l : l \in ToSet(q) <=> l = q[1] \/ l \in ToSet(back)
  BY <1>8, TailFacts
<1>11. \A l \in ToSet(tail) : l \in Literals
  BY <1>6, <1>9, ToSetFacts
<1>12. ASSUME NEW m \in reachable, c[1] \notin s PROVE m \in s /\ m \in Literals
  <2>1. root \in s
    BY <1>9, <1>12, AssignmentFacts
  <2>2. reachable \subseteq s
    <3> HIDE DEF root
    <3> QED
      BY <1>2, <1>5, <2>1, DescendantsAreSatisfied
  <2> QED
    BY <1>12, <2>2, AssignmentFacts
<1>13. Satisfies(s, e.conflict)
  <2>1. CASE c[1] \in s
    <3>1. c[1] \in ToSet(q)
      BY <1>7, <1>10
    <3> QED
      BY <2>1, <3>1 DEF Satisfies, q
  <2>2. CASE c[1] \notin s
    <3>1. PICK l \in ToSet(c) : l \in s
      BY DEF Satisfies, c
    <3>2. l \in ToSet(tail) /\ l \in Literals
      BY <1>9, <1>11, <2>2, <3>1
    <3>3. -l \notin reachable
      <4>1. -l \notin s
        BY <3>1, <3>2, AssignmentFacts
      <4> QED
        BY <1>12, <2>2, <4>1
    <3>4. l \in ToSet(q)
      BY <1>7, <1>10, <3>2, <3>3 DEF others
    <3> QED
      BY <3>1, <3>4 DEF Satisfies, q
  <2> QED
    BY <2>1, <2>2
<1>14. ASSUME c[1] \notin s PROVE Covers(s, t, highest, e)
  <2> SUFFICES ASSUME NEW v \in e.marked, LevelOf(t, v) < highest
               PROVE  FalseOf(t, v) \in ToSet(back) \/ FalseOf(t, v) \notin s
    BY DEF Covers, back, q
  <2>1. CASE v \in r.marked
    <3> SUFFICES ASSUME FalseOf(t, v) \in ToSet(tail), FalseOf(t, v) \in s, FalseOf(t, v) \notin ToSet(back)
                 PROVE  FALSE
      BY <2>1 DEF Covers, tail, c
    <3>1. FalseOf(t, v) \in Literals /\ FalseOf(t, v) \notin others
      BY <1>7, <1>11
    <3>2. -FalseOf(t, v) \in reachable
      BY <3>1 DEF others
    <3> QED
      BY <1>12, <1>14, <3>1, <3>2, AssignmentFacts
  <2>2. CASE v \notin r.marked
    <3>1. PICK m \in reachable : IsTrue(t, m) /\ v = VariableOf(m)
      BY <1>4, <2>2
    <3>2. m \in s /\ m \in Literals /\ -m \in Literals /\ VariableOf(-m) = v
      BY <1>12, <1>14, <3>1, LiteralFacts
    <3>3. IsFalse(t, -m)
      BY <1>5, <3>1, <3>2, TrailFacts
    <3>4. FalseOf(t, v) = -m
      BY <1>5, <3>2, <3>3, FalseOfFacts
    <3> QED
      BY <3>2, <3>4, AssignmentFacts
  <2> QED
    BY <2>1, <2>2
<1> QED
  BY <1>13, <1>14 DEF c
(* The clause that the first UIP computation ends with follows.            *)
LEMMA ConflictFollows ==
  ASSUME NEW s \in Assignments, NEW d, DatabaseOK(d), Models(s, d), NEW n \in Nat \ {0}, OneDecisionFrom(d.trail, n),
         NEW literals, NEW by, FailureIsKnown(d, literals, by), Satisfies(s, literals),
         \E l \in ToSet(literals) : LevelOf(d.trail, l) >= n,
         NEW r, r = ComputeFirstUIPConflict(d, literals, by)
  PROVE  \E highest \in Nat \ {0} :
           LearnedOK(d, highest, r) /\ Satisfies(s, r.conflict) /\ Covers(s, d.trail, highest, r)
<1> DEFINE t == d.trail
<1>1. IsTrail(t) /\ Len(t) \in Nat /\ SatisfiesFixed(s, t) /\ \A i \in 1..Len(t) : t[i].level \in Nat
  BY TrailEntries DEF DatabaseOK, Models
<1>2. FalseLiterals(t, literals) /\ \A l \in ToSet(literals) : l \in Literals /\ IsFalse(t, l)
  BY ToSetFacts DEF FailureIsKnown, FalseLiterals
<1>3. ASSUME NEW l \in ToSet(literals)
      PROVE  /\ FalseOf(t, VariableOf(l)) = l /\ LevelOf(t, l) \in Nat
             /\ LevelOf(t, VariableOf(l)) = LevelOf(t, l) /\ TrailIndex(t, VariableOf(l)) = TrailIndex(t, l)
  BY <1>1, <1>2, FalseOfFacts
<1>4. PICK high \in ToSet(literals) : LevelOf(t, high) >= n
  OBVIOUS
<1>5. \E l \in ToSet(literals) : LevelOf(t, l) > 0
  BY <1>3, <1>4
<1>6. PICK highest \in Nat \ {0}, top \in 1..Len(t) :
        \E nothing, first, e : Analysed(d, literals, highest, nothing, first, top, e, r)
  BY <1>5, ConflictIsAnalysed
<1>7. PICK nothing, first, e : Analysed(d, literals, highest, nothing, first, top, e, r)
  BY <1>6
<1>8. /\ \A l \in ToSet(literals) : LevelOf(t, l) <= highest /\ TrailIndex(t, l) <= top
      /\ PartOK(d, highest, nothing) /\ nothing.marked = {}
      /\ Joined(t, highest, top, nothing, literals, first)
      /\ ExpansionOK(d, highest, top, first)
      /\ e = Expansions(d, highest, first, top)[0] /\ r = FirstUIPConflict(t, e)
  BY <1>7 DEF Analysed
<1>9. PICK known : first = Expanded(t, highest, top, nothing, literals, known)
  BY <1>7 DEF Analysed
<1>10. OneDecisionFrom(t, highest)
  <2>1. highest >= n
    BY <1>3, <1>4, <1>8
  <2> QED
    BY <1>1, <2>1 DEF OneDecisionFrom
<1>11. LowerAreMarked(t, highest, first)
  <2>1. LowerAreMarked(t, highest, nothing)
    BY <1>8 DEF LowerAreMarked
  <2>2. highest \in Nat /\ PartOK(d, highest, nothing) /\ FalseLiterals(t, literals) /\ t = d.trail
    BY <1>2, <1>8
  <2>3. first = Expanded(t, highest, top, nothing, literals, known)
    BY <1>9
  <2> HIDE DEF t
  <2> QED
    BY <2>1, <2>2, <2>3, ExpandedLiterals
<1>12. PartFollows(s, t, first)
  <2>1. PICK l \in ToSet(literals) : l \in s
    BY DEF Satisfies
  <2>2. LevelOf(t, l) # 0
    BY <1>1, <1>2, <2>1, FalseForAssignment
  <2>3. VariableOf(l) \in first.marked
    BY <1>3, <1>8, <2>2 DEF Joined
  <2>4. CASE LevelOf(t, l) = highest
    <3>1. VariableOf(l) \in first.pending
      BY <1>3, <1>8, <2>3, <2>4 DEF Joined
    <3> QED
      BY <1>3, <2>1, <3>1 DEF PartFollows
  <2>5. CASE LevelOf(t, l) # highest
    <3>1. l \in ToSet(first.lower)
      BY <1>3, <1>8, <1>11, <2>3, <2>5 DEF LowerAreMarked
    <3> QED
      BY <2>1, <3>1 DEF PartFollows
  <2> QED
    BY <2>4, <2>5
<1>13. highest \in Nat /\ highest > 0
  OBVIOUS
<1>14. PartFollows(s, t, e) /\ LowerAreMarked(t, highest, e)
  BY <1>8, <1>10, <1>11, <1>12, <1>13, ExpansionsFollow
<1>15. ExpansionOK(d, highest, 0, e)
  BY <1>8, <1>13, ExpansionsAreOK
<1>16. Satisfies(s, r.conflict) /\ Covers(s, t, highest, r)
  BY <1>8, <1>13, <1>14, <1>15, FirstUIPFollows
<1>17. LearnedOK(d, highest, r)
  BY <1>8, <1>13, <1>15, FirstUIPIsOK
<1> QED
  BY <1>16, <1>17

(* A clause keeps its first literal when it is shortened.                  *)
LEMMA HeadIsSatisfied ==
  ASSUME NEW s, NEW d, NEW highest, NEW r, LearnedOK(d, highest, r), r.conflict[1] \in s,
         NEW others, NEW e, Shortened(r, others, e)
  PROVE  e.conflict[1] \in s /\ Satisfies(s, e.conflict)
<1> DEFINE q == e.conflict
           back == Tail(q)
<1>1. LearnedOK(d, highest, e) /\ q[1] = r.conflict[1]
  BY HeadAndIsOK DEF Shortened
<1>2. q \in Seq(Literals) /\ q # <<>> /\ back = Tail(q)
  BY <1>1 DEF LearnedOK
<1> HIDE DEF q, back
<1>3. q[1] \in ToSet(q)
  BY <1>2, TailFacts
<1> QED
  BY <1>1, <1>3 DEF Satisfies, q

(* What the configured minimisation returns follows.                       *)
LEMMA MinimizedFollows ==
  ASSUME NEW s \in Assignments, NEW d, DatabaseOK(d), Models(s, d), NEW highest \in Nat,
         NEW r, IsLearned(r), LearnedOK(d, highest, r), Satisfies(s, r.conflict),
         r.conflict[1] \in s \/ Covers(s, d.trail, highest, r),
         NEW e, e = MinimizeConflict(d, r)
  PROVE  Satisfies(s, e.conflict)
<1>1. e = r \/ e = MinimizeConflictSimple(d, r) \/ e = MinimizeConflictRecursively(d, r)
  BY DEF MinimizeConflict
<1>2. CASE r.conflict[1] \in s
  <2>1. e = r \/ \E others : Shortened(r, others, e)
    BY <1>1, MinimizedSimple, MinimizedRecursively
  <2> QED
    BY <1>2, <2>1, HeadIsSatisfied
<1>3. CASE Covers(s, d.trail, highest, r)
  BY <1>1, <1>3, SimpleFollows, RecursiveFollows
<1> QED
  BY <1>2, <1>3

(* What is learned follows, however it is minimised.                       *)
LEMMA LearnedFollows ==
  ASSUME NEW s \in Assignments, NEW d, DatabaseOK(d), Models(s, d), NEW n \in Nat \ {0}, OneDecisionFrom(d.trail, n),
         FailureIsKnown(d, conflict, failing), Satisfies(s, conflict),
         \E l \in ToSet(conflict) : LevelOf(d.trail, l) >= n,
         NEW r, r = Learned(d)
  PROVE  Satisfies(s, r.conflict)
<1> DEFINE first == ComputeFirstUIPConflict(d, conflict, failing)
           Choice(x) == IF config.binary_minimization_algorithm = "BINARY_MINIMIZATION_FIRST"
                        THEN MinimizeConflictFirst(d, x) ELSE x
           chosen == Choice(first)
<1>1. r = MinimizeConflict(d, chosen)
  <2>1. r = The({MinimizeConflict(d, q) : q \in {Choice(x) : x \in {first}}})
    BY DEF Learned
  <2>2. {Choice(x) : x \in {first}} = {chosen}
    OBVIOUS
  <2>3. {MinimizeConflict(d, q) : q \in {chosen}} = {MinimizeConflict(d, chosen)}
    OBVIOUS
  <2> QED
    BY <2>1, <2>2, <2>3, TheOfOne
<1>2. chosen = first \/ chosen = MinimizeConflictFirst(d, first)
  OBVIOUS
<1>3. first = ComputeFirstUIPConflict(d, conflict, failing)
  OBVIOUS
<1> HIDE DEF chosen, first, Choice
<1>4. IsLearned(first)
  BY <1>3, FirstUIPIsLearned
<1>5. PICK highest \in Nat \ {0} :
        LearnedOK(d, highest, first) /\ Satisfies(s, first.conflict) /\ Covers(s, d.trail, highest, first)
  BY <1>3, ConflictFollows
<1>6. LearnedOK(d, highest, chosen) /\ IsLearned(chosen)
  <2>1. chosen = first \/ \E others : Shortened(first, others, chosen)
    BY <1>2, <1>4, MinimizedFirst
  <2> QED
    BY <1>4, <1>5, <2>1, ShortenedIsOK
<1>7. Satisfies(s, chosen.conflict) /\ (chosen.conflict[1] \in s \/ Covers(s, d.trail, highest, chosen))
  <2>1. CASE chosen = first
    BY <1>5, <2>1
  <2>2. CASE chosen = MinimizeConflictFirst(d, first)
    <3>1. Satisfies(s, chosen.conflict) /\ (first.conflict[1] \notin s => Covers(s, d.trail, highest, chosen))
      BY <1>4, <1>5, <2>2, FirstFollows
    <3>2. PICK others : Shortened(first, others, chosen)
      BY <1>4, <2>2, MinimizedFirst
    <3>3. first.conflict[1] \in s => chosen.conflict[1] \in s
      BY <1>5, <3>2, HeadIsSatisfied
    <3> QED
      BY <3>1, <3>3
  <2> QED
    BY <1>2, <2>1, <2>2
<1> QED
  BY <1>1, <1>5, <1>6, <1>7, MinimizedFollows
-----------------------------------------------------------------------------
(* The decisions of the trail.                                             *)
NoDecisionSince(t, u) ==
  Begins(t, u) /\ \A j \in 1..Len(u) : j > Len(t) => u[j].type # "DECISION"

(* A trail that goes on without decisions, or is cut.                      *)
LEMMA OneDecisionStays ==
  ASSUME NEW t, IsTrail(t), NEW u, IsTrail(u), NEW n \in Nat, OneDecisionFrom(t, n)
  PROVE  /\ NoDecisionSince(t, u) => OneDecisionFrom(u, n)
         /\ Begins(u, t) => OneDecisionFrom(u, n)
<1>1. Len(t) \in Nat /\ Len(u) \in Nat
  BY TrailEntries
<1>2. ASSUME NoDecisionSince(t, u) PROVE OneDecisionFrom(u, n)
  <2> SUFFICES ASSUME NEW i \in 1..Len(u), NEW j \in 1..Len(u), j < i, u[i].level = u[j].level, u[i].level >= n,
                      u[i].type = "DECISION"
               PROVE  FALSE
    BY DEF OneDecisionFrom
  <2>1. i \in 1..Len(t) /\ j \in 1..Len(t)
    BY <1>1, <1>2 DEF NoDecisionSince
  <2>2. u[i] = t[i] /\ u[j] = t[j]
    BY <1>2, <2>1 DEF NoDecisionSince, Begins
  <2> QED
    BY <2>1, <2>2 DEF OneDecisionFrom
<1>3. ASSUME Begins(u, t) PROVE OneDecisionFrom(u, n)
  <2>1. \A i \in 1..Len(u) : i \in 1..Len(t) /\ u[i] = t[i]
    BY <1>1, <1>3 DEF Begins
  <2> QED
    BY <2>1 DEF OneDecisionFrom
<1> QED
  BY <1>2, <1>3

(* All levels are below.                                                   *)
LEMMA LowLevels ==
  ASSUME NEW t, IsTrail(t), NEW n \in Nat, CurrentLevel(t) < n
  PROVE  OneDecisionFrom(t, n)
<1>1. CurrentLevel(t) \in Nat /\ \A i \in 1..Len(t) : t[i].level <= CurrentLevel(t) /\ t[i].level \in Nat
  BY CurrentLevelFacts, TrailEntries
<1> QED
  BY <1>1 DEF OneDecisionFrom

(* A decision at a new level.                                              *)
LEMMA DecisionAtNewLevel ==
  ASSUME NEW t, IsTrail(t), NEW u, IsTrail(u), Begins(t, u), Len(u) = Len(t) + 1,
         CurrentLevel(t) < u[Len(u)].level, NEW n \in Nat, OneDecisionFrom(t, n)
  PROVE  OneDecisionFrom(u, n)
<1>1. Len(t) \in Nat /\ Len(u) \in Nat /\ u[Len(u)].level \in Nat /\ CurrentLevel(t) \in Nat
  <2>1. Len(t) \in Nat /\ Len(u) \in Nat
    BY TrailEntries
  <2>2. Len(u) \in 1..Len(u)
    BY <2>1
  <2> QED
    BY <2>1, <2>2, TrailEntries, CurrentLevelFacts
<1> SUFFICES ASSUME NEW i \in 1..Len(u), NEW j \in 1..Len(u), j < i, u[i].level = u[j].level, u[i].level >= n,
                    u[i].type = "DECISION"
             PROVE  FALSE
  BY DEF OneDecisionFrom
<1>2. j \in 1..Len(t) /\ u[j] = t[j] /\ t[j].level <= CurrentLevel(t) /\ t[j].level \in Nat
  <2>1. j \in 1..Len(t)
    BY <1>1
  <2> QED
    BY <2>1, CurrentLevelFacts, TrailEntries DEF Begins
<1>3. i # Len(u)
  BY <1>1, <1>2
<1>4. i \in 1..Len(t) /\ u[i] = t[i]
  BY <1>1, <1>3 DEF Begins
<1> QED
  BY <1>2, <1>4 DEF OneDecisionFrom

(* Adding a clause of two literals decides nothing.                        *)
LEMMA AddBinaryAddsNoDecision ==
  ASSUME NEW d, DatabaseOK(d), NEW a \in Literals, NEW b \in Literals, a # b,
         NEW e, e = AddBinaryClause(d, a, b)
  PROVE  NoDecisionSince(d.trail, e.trail)
<1> DEFINE t == d.trail
           level == CurrentLevel(t)
           g == WithImplications(d, a, b)
<1>1. d \in Databases /\ IsTrail(t) /\ Len(t) \in Nat
  BY TrailEntries DEF DatabaseOK
<1>2. level \in Nat /\ level <= Len(t) + 1 /\ level >= level
  BY <1>1, CurrentLevelFacts
<1>3. NoDecisionSince(t, t)
  BY <1>1 DEF NoDecisionSince, Begins
<1>4. CASE a = -b
  <2>1. e = d
    BY <1>4 DEF AddBinaryClause
  <2> QED
    BY <1>3, <2>1
<1>5. CASE a # -b
  <2>1. g = WithImplications(d, a, b)
    OBVIOUS
  <2> HIDE DEF g
  <2>2. \/ e = g
        \/ ~IsAssigned(t, b) /\ e = [g EXCEPT !.trail = Enqueued(t, b, level, "BINARY", a)]
        \/ ~IsAssigned(t, a) /\ e = [g EXCEPT !.trail = Enqueued(t, a, level, "BINARY", b)]
    BY <1>1, <1>5, <2>1, AddBinaryClauseCases
  <2>3. g \in Databases /\ g.trail = t
    BY <1>1, <2>1, WithImplicationsFields
  <2> HIDE DEF level
  <2>4. ASSUME NEW x \in Literals, NEW y \in Literals, ~IsAssigned(t, x),
               e = [g EXCEPT !.trail = Enqueued(t, x, level, "BINARY", y)]
        PROVE  NoDecisionSince(t, e.trail)
    <3> DEFINE type == "BINARY"
               u == Enqueued(t, x, level, type, y)
    <3>1. y \in Int /\ u = Enqueued(t, x, level, type, y) /\ e = [g EXCEPT !.trail = u]
          /\ type \in {"DECISION", "UNIT", "BINARY", "CLAUSE"} /\ type # "DECISION"
      BY <2>4, LiteralFacts
    <3>2. level >= CurrentLevel(t)
      BY <1>2 DEF level
    <3>3. IsTrail(t) /\ ~IsAssigned(t, x)
      BY <1>1, <2>4
    <3> HIDE DEF u, t, type
    <3>4. IsTrail(u) /\ Begins(t, u) /\ Len(u) = Len(t) + 1 /\ u[Len(u)].type = type
      BY <1>2, <3>1, <3>2, <3>3, EnqueuedFacts
    <3>5. e.trail = u
      BY <2>3, <3>1, <3>4, WithTrail DEF IsTrail
    <3>6. NoDecisionSince(t, u)
      BY <1>1, <3>1, <3>4 DEF NoDecisionSince
    <3> QED
      BY <3>5, <3>6 DEF t
  <2> QED
    BY <1>3, <2>2, <2>3, <2>4
<1> QED
  BY <1>4, <1>5

(* So no level gets a second decision.                                     *)
LEMMA AddBinaryLevels ==
  ASSUME NEW d, DatabaseOK(d), NEW a \in Literals, NEW b \in Literals, a # b,
         NEW e, e = AddBinaryClause(d, a, b), NEW n \in Nat, OneDecisionFrom(d.trail, n)
  PROVE  OneDecisionFrom(e.trail, n)
<1>1. NoDecisionSince(d.trail, e.trail)
  BY AddBinaryAddsNoDecision
<1>2. IsTrail(d.trail) /\ IsTrail(e.trail)
  BY AddBinaryClauseIsOK DEF DatabaseOK
<1> QED
  BY <1>1, <1>2, OneDecisionStays

(* A clause that is attached adds none.                                    *)
LEMMA AttachLevels ==
  ASSUME NEW d, DatabaseOK(d), NEW literals \in Seq(Literals), Len(literals) >= 3, Distinct(literals),
         \E i \in 1..Len(literals) : ~IsFalse(d.trail, literals[i]),
         NEW e, e = Attach(d, literals), NEW n \in Nat, OneDecisionFrom(d.trail, n)
  PROVE  OneDecisionFrom(e.trail, n)
<1> DEFINE c == Len(d.clauses) + 1
           t == d.trail
           u == e.trail
           lits == e.clauses[c]
<1>1. DatabaseOK(e) /\ Begins(t, u) /\ GrownByOne(t, u, lits)
  <2>1. c = Len(d.clauses) + 1
    OBVIOUS
  <2> HIDE DEF c
  <2> QED
    BY <2>1, AttachIsOK
<1>2. IsTrail(t) /\ IsTrail(u) /\ Len(t) \in Nat /\ Len(u) \in Nat
  BY <1>1, TrailEntries DEF DatabaseOK
<1>3. OneDecisionFrom(t, n)
  OBVIOUS
<1> HIDE DEF lits, t, u
<1>4. u = t \/ (Len(u) = Len(t) + 1 /\ u[Len(u)].type = "CLAUSE")
  BY <1>1 DEF GrownByOne
<1>5. NoDecisionSince(t, u)
  BY <1>1, <1>2, <1>4 DEF NoDecisionSince
<1>6. OneDecisionFrom(u, n)
  BY <1>2, <1>3, <1>5, OneDecisionStays
<1> QED
  BY <1>6 DEF u
(* What is learned and attached is satisfied, and is not a decision.       *)
LEMMA LearnClauseFollows ==
  ASSUME NEW d, DatabaseOK(d), NEW literals, Asserting(d.trail, literals), NEW is_redundant,
         LearnClause(d, literals, is_redundant)
  PROVE  /\ \A n \in Nat \ {0} : OneDecisionFrom(d.trail, n) => OneDecisionFrom(trail', n)
         /\ \A s \in Assignments : Models(s, d) /\ Satisfies(s, literals) => Models(s, Now')
<1> DEFINE t == d.trail
           l == literals[1]
           Levels(u) == \A n \in Nat \ {0} : OneDecisionFrom(t, n) => OneDecisionFrom(u, n)
           Follows(e) == \A s \in Assignments : Models(s, d) /\ Satisfies(s, literals) => Models(s, e)
<1>1. d \in Databases /\ IsTrail(t) /\ Len(t) \in Nat /\ CurrentLevel(t) \in Nat
  BY TrailEntries, CurrentLevelFacts DEF DatabaseOK
<1>2. /\ literals \in Seq(Literals) /\ literals # <<>> /\ Distinct(literals) /\ ~IsAssigned(t, l)
      /\ Len(literals) = 1 => CurrentLevel(t) = 0
  BY DEF Asserting
<1>3. Len(literals) \in Nat /\ Len(literals) > 0
  BY <1>2
<1>4. \A i \in 1..Len(literals) : literals[i] \in Literals
  BY <1>2
<1>5. l \in Literals
  BY <1>3, <1>4
<1> HIDE DEF l, Levels, Follows
<1>6. ASSUME Len(literals) = 1,
             DatabaseBecomes([d EXCEPT !.trail = Enqueued(@, literals[1], 0, "UNIT", 0)])
      PROVE  Levels(trail') /\ Follows(Now')
  <2> DEFINE level == 0
             type == "UNIT"
             by == 0
             u == Enqueued(t, l, level, type, by)
             e == WithTrailOf(d, u)
  <2>1. u = Enqueued(t, l, level, type, by) /\ e = WithTrailOf(d, u) /\ by = 0 /\ by \in Int
    OBVIOUS
  <2>2. level \in Nat /\ level >= CurrentLevel(t) /\ level <= Len(t) + 1 /\ level = 0
        /\ ((type = "DECISION" /\ level > 0) \/ (type = "UNIT" /\ level = 0))
        /\ type \in {"DECISION", "UNIT", "BINARY", "CLAUSE"}
    BY <1>1, <1>2, <1>6
  <2>3. [d EXCEPT !.trail = Enqueued(@, literals[1], 0, "UNIT", 0)] = e
    BY DEF WithTrailOf, l
  <2> HIDE DEF e, u, level, type, by
  <2>4. ~IsAssigned(t, l)
    BY <1>2
  <2>5. /\ DatabaseOK(e) /\ IsTrail(u) /\ CurrentLevel(u) = level /\ e.trail = u /\ e.clauses = d.clauses
        /\ e.implications = d.implications /\ Attached(e) = Attached(d)
    BY <1>5, <2>1, <2>2, <2>4, FreeEntry
  <2>6. e \in Databases /\ DatabaseBecomes(e)
    BY <1>6, <2>3, <2>5 DEF DatabaseOK
  <2>7. Now' = e /\ trail' = u
    BY <2>5, <2>6, NowBecomes
  <2>8. Levels(u)
    <3> SUFFICES ASSUME NEW n \in Nat \ {0} PROVE OneDecisionFrom(u, n)
      BY DEF Levels
    <3>1. CurrentLevel(u) < n
      BY <2>2, <2>5
    <3> QED
      BY <2>5, <3>1, LowLevels
  <2>9. Follows(e)
    <3> SUFFICES ASSUME NEW s \in Assignments, Models(s, d), Satisfies(s, literals) PROVE Models(s, e)
      BY DEF Follows
    <3>1. l \in s
      <4>1. PICK x \in ToSet(literals) : x \in s
        BY DEF Satisfies
      <4>2. PICK i \in 1..Len(literals) : literals[i] = x
        BY <1>2, <4>1, ToSetFacts
      <4> QED
        BY <1>6, <4>1, <4>2 DEF l
    <3>2. SatisfiesFixed(s, t) /\ SatisfiesGraph(s, d) /\ \A c \in Attached(d) : Satisfies(s, d.clauses[c])
      BY DEF Models
    <3>3. level = 0 => l \in s
      BY <3>1
    <3>4. SatisfiesFixed(s, u)
      BY <1>1, <1>5, <2>1, <2>2, <2>4, <3>2, <3>3, EnqueuedFollows
    <3> QED
      BY <2>5, <3>2, <3>4 DEF Models, SatisfiesGraph
  <2> QED
    BY <2>7, <2>8, <2>9
<1>7. ASSUME Len(literals) = 2, NEW e, e = AddBinaryClause(d, literals[1], literals[2]), DatabaseBecomes(e)
      PROVE  Levels(trail') /\ Follows(Now')
  <2> DEFINE m == literals[2]
  <2>1. m \in Literals /\ l # m
    BY <1>2, <1>4, <1>7 DEF Distinct, l
  <2>2. e = AddBinaryClause(d, l, m)
    BY <1>7 DEF l
  <2>3. \A x \in ToSet(literals) : x = l \/ x = m
    <3> SUFFICES ASSUME NEW x \in ToSet(literals) PROVE x = l \/ x = m
      OBVIOUS
    <3>1. PICK i \in 1..Len(literals) : literals[i] = x
      BY <1>2, ToSetFacts
    <3>2. i = 1 \/ i = 2
      BY <1>7
    <3> QED
      BY <3>1, <3>2 DEF l
  <2> HIDE DEF m
  <2>4. e \in Databases
    BY <1>5, <2>1, <2>2, AddBinaryGrows
  <2>5. Now' = e /\ trail' = e.trail
    BY <1>7, <2>4, NowBecomes
  <2>6. Levels(e.trail)
    <3> SUFFICES ASSUME NEW n \in Nat \ {0}, OneDecisionFrom(d.trail, n) PROVE OneDecisionFrom(e.trail, n)
      BY DEF Levels
    <3>1. n \in Nat
      OBVIOUS
    <3> QED
      BY <1>5, <2>1, <2>2, <3>1, AddBinaryLevels
  <2>7. Follows(e)
    <3> SUFFICES ASSUME NEW s \in Assignments, Models(s, d), Satisfies(s, literals) PROVE Models(s, e)
      BY DEF Follows
    <3>1. l \in s \/ m \in s
      BY <2>3 DEF Satisfies
    <3> QED
      BY <1>5, <2>1, <2>2, <3>1, BinaryModels
  <2> QED
    BY <2>5, <2>6, <2>7
<1>8. ASSUME Len(literals) > 2, NEW forgotten, forgotten \subseteq MayBeForgotten(d),
             NEW e, e = Attach(Detach(d, forgotten), literals), DatabaseBecomes(e)
      PROVE  Levels(trail') /\ Follows(Now')
  <2> DEFINE g == Detach(d, forgotten)
             new == Len(g.clauses) + 1
  <2>1. NotReasons(t, forgotten)
    BY <1>8, ForgottenAreNotReasons
  <2>2. g = Detach(d, forgotten) /\ e = Attach(g, literals) /\ new = Len(g.clauses) + 1
    BY <1>8
  <2> HIDE DEF g, new
  <2>3. DatabaseOK(g)
    BY <2>1, <2>2, DetachIsOK DEF NotReasons
  <2>4. g.trail = t
    BY <1>1, <2>2, DetachFields
  <2>5. Len(literals) >= 3
    BY <1>3, <1>8
  <2>6. \E i \in 1..Len(literals) : ~IsFalse(g.trail, literals[i])
    <3>1. 1 \in 1..Len(literals)
      BY <1>3
    <3> QED
      BY <1>2, <2>4, <3>1 DEF IsAssigned, l
  <2>7. DatabaseOK(e)
    BY <1>2, <2>2, <2>3, <2>5, <2>6, AttachIsOK
  <2>8. e \in Databases
    BY <2>7 DEF DatabaseOK
  <2>9. Now' = e /\ trail' = e.trail
    BY <1>8, <2>8, NowBecomes
  <2>10. Levels(e.trail)
    <3> SUFFICES ASSUME NEW n \in Nat \ {0}, OneDecisionFrom(t, n) PROVE OneDecisionFrom(e.trail, n)
      BY DEF Levels
    <3>1. n \in Nat /\ OneDecisionFrom(g.trail, n)
      BY <2>4
    <3> QED
      BY <1>2, <2>2, <2>3, <2>5, <2>6, <3>1, AttachLevels
  <2>11. Follows(e)
    <3> SUFFICES ASSUME NEW s \in Assignments, Models(s, d), Satisfies(s, literals) PROVE Models(s, e)
      BY DEF Follows
    <3>1. Models(s, g)
      BY <1>1, <2>2, DetachedModels
    <3> QED
      BY <1>2, <2>2, <2>3, <2>5, <2>6, <3>1, AttachedModels
  <2> QED
    BY <2>9, <2>10, <2>11
<1>9. \/ /\ Len(literals) = 1
         /\ DatabaseBecomes([d EXCEPT !.trail = Enqueued(@, literals[1], 0, "UNIT", 0)])
      \/ /\ Len(literals) = 2
         /\ \E e \in {AddBinaryClause(d, literals[1], literals[2])} : DatabaseBecomes(e)
      \/ /\ Len(literals) > 2
         /\ \E forgotten \in SUBSET MayBeForgotten(d) :
              \E e \in {Attach(Detach(d, forgotten), literals)} : DatabaseBecomes(e)
  BY DEF LearnClause
<1>10. Levels(trail') /\ Follows(Now')
  BY <1>6, <1>7, <1>8, <1>9
<1> QED
  BY <1>10 DEF Levels, Follows
-----------------------------------------------------------------------------
(* The actions.  From the first level of choices on, above that of the     *)
(* assumptions, the decision is the first entry of its level.              *)
FirstChoice == IF assumptions = <<>> THEN 1 ELSE 2
LevelsOK == OneDecisionFrom(trail, FirstChoice)
SearchOK == SolverOK /\ LevelsOK /\ KnownOK

(* What is known of a solution of the problem.                             *)
LEMMA KnownFacts ==
  ASSUME KnownOK, NEW s \in SolutionsOf(Problem)
  PROVE  /\ s \in Assignments /\ \A c \in Problem : c \cap s # {}
         /\ Models(s, Now) /\ status # "INFEASIBLE"
         /\ status \in Running /\ conflict # <<>> => Satisfies(s, conflict)
BY DEF KnownOK, KnownBy, SolutionsOf

(* What has to be known of it after a step.                                *)
LEMMA KnownNext ==
  ASSUME \A s \in SolutionsOf(Problem') :
           /\ Models(s, Now') /\ status' # "INFEASIBLE"
           /\ status' \in Running /\ conflict' # <<>> => Satisfies(s, conflict')
  PROVE  KnownOK'
BY DEF KnownOK, KnownBy

(* The problem grows by the clauses that are added.                        *)
LEMMA SameProblem ==
  ASSUME UNCHANGED <<config, loaded, late>>
  PROVE  SolutionsOf(Problem') = SolutionsOf(Problem)
BY DEF Problem

(* A solution of a larger problem is one of the smaller.                   *)
LEMMA LargerProblem ==
  ASSUME NEW P, NEW Q, NEW c, P \subseteq Q, c \in Q, NEW s \in SolutionsOf(Q)
  PROVE  s \in SolutionsOf(P) /\ s \in Assignments /\ c \cap s # {}
BY DEF SolutionsOf

(* A trail that is cut has fewer entries at level zero.                    *)
LEMMA CutModels ==
  ASSUME NEW s, NEW d \in Databases, Models(s, d), NEW kept, IsTrail(kept), Begins(kept, d.trail),
         NEW e, e = WithTrailOf(d, kept)
  PROVE  Models(s, e)
<1>1. e \in Databases /\ e.trail = kept /\ e.clauses = d.clauses /\ e.implications = d.implications
      /\ Attached(e) = Attached(d)
  BY WithTrail DEF WithTrailOf, IsTrail
<1>2. SatisfiesFixed(s, kept)
  <2>1. Len(kept) \in 0..Len(d.trail) /\ \A i \in 1..Len(kept) : kept[i] = d.trail[i]
    BY DEF Begins
  <2>2. \A i \in 1..Len(kept) : i \in 1..Len(d.trail)
    BY <2>1
  <2> QED
    BY <2>1, <2>2 DEF SatisfiesFixed, Models
<1> QED
  BY <1>1, <1>2 DEF Models, SatisfiesGraph

(* A step that leaves the database, the problem and the assumptions alone. *)
LEMMA DatabaseStays ==
  ASSUME LevelsOK, UNCHANGED database
  PROVE  /\ Now' = Now /\ trail' = trail
         /\ assumptions' = assumptions => LevelsOK'
<1>1. Now' = Now /\ trail' = trail
  BY DEF Now, database
<1> QED
  BY <1>1 DEF LevelsOK, FirstChoice

(* The initial state.                                                      *)
LEMMA InitIsKnown ==
  ASSUME Init
  PROVE  LevelsOK /\ KnownOK
<1>1. /\ clauses = <<>> /\ trail = <<>> /\ implications = [l \in Literals |-> <<>>]
      /\ conflict = <<>> /\ status = "loading" /\ assumptions = <<>>
  BY DEF Init
<1>2. Len(trail) = 0 /\ Len(clauses) = 0
  BY <1>1
<1>3. \A l \in Literals : ToSet(implications[l]) = {}
  BY <1>1 DEF ToSet
<1>4. Attached(Now) = {}
  BY <1>2, NowFields DEF Attached
<1>5. ASSUME NEW s PROVE Models(s, Now)
  <2>1. SatisfiesGraph(s, Now)
    BY <1>3, NowFields DEF SatisfiesGraph
  <2>2. SatisfiesFixed(s, Now.trail)
    BY <1>2, NowFields DEF SatisfiesFixed
  <2> QED
    BY <1>4, <2>1, <2>2 DEF Models
<1>6. LevelsOK
  BY <1>2 DEF LevelsOK, OneDecisionFrom
<1> QED
  BY <1>1, <1>5, <1>6 DEF KnownOK, KnownBy

(* PropagateBinary: what it propagates follows, and so does its conflict.  *)
LEMMA PropagateBinaryFollows ==
  ASSUME SearchOK, PropagateBinary
  PROVE  LevelsOK' /\ KnownOK'
<1> DEFINE d == Now
           r == Propagations(d, binary_index)[Cardinality(Variables)]
           e == WithTrailOf(d, r.trail)
<1>1. /\ status \in Running /\ binary_index < Len(trail)
      /\ trail' = r.trail /\ conflict' = r.conflict
      /\ UNCHANGED <<clauses, watchers, implications, inputVars, status, assumptions>>
  BY DEF PropagateBinary
<1>2. TypesOK /\ DatabaseOK(d) /\ LevelsOK /\ KnownOK
  BY DEF SearchOK, SolverOK
<1>3. d.trail = trail /\ d.clauses = clauses /\ d.watchers = watchers /\ d.implications = implications
  BY NowFields
<1>4. d \in Databases /\ IsTrail(trail) /\ Len(trail) \in Nat /\ r = Propagations(d, binary_index)[Cardinality(Variables)]
  BY <1>2, <1>3, TrailEntries DEF DatabaseOK
<1>5. Now' = e
  <2>1. Now' = [clauses |-> d.clauses, watchers |-> d.watchers, implications |-> d.implications, trail |-> r.trail]
    BY <1>1, <1>3 DEF Now
  <2>2. d = [clauses |-> d.clauses, watchers |-> d.watchers, implications |-> d.implications, trail |-> d.trail]
    BY <1>3 DEF Now
  <2> QED
    BY <2>1, <2>2 DEF WithTrailOf
<1> HIDE DEF r
<1>6. binary_index \in Nat /\ binary_index <= Len(d.trail)
  BY <1>1, <1>2, <1>3, <1>4 DEF TypesOK
<1>7. IsTrail(r.trail) /\ GrownSince(d, r.trail, "BINARY")
  BY <1>2, <1>4, <1>6, PropagationsAreOK DEF PropagationOK, ImpliedOK
<1>8. e \in Databases /\ e.trail = r.trail /\ e.clauses = d.clauses /\ e.implications = d.implications /\ Attached(e) = Attached(d)
  BY <1>4, <1>7, WithTrail DEF WithTrailOf, IsTrail
<1> HIDE DEF d, e
<1>9. LevelsOK'
  <2>1. NoDecisionSince(trail, r.trail)
    BY <1>3, <1>7 DEF GrownSince, NoDecisionSince
  <2>2. FirstChoice' = FirstChoice /\ FirstChoice \in Nat
    BY <1>1 DEF FirstChoice
  <2>3. OneDecisionFrom(trail, FirstChoice)
    BY <1>2 DEF LevelsOK
  <2>4. OneDecisionFrom(r.trail, FirstChoice)
    BY <1>4, <1>7, <2>1, <2>2, <2>3, OneDecisionStays
  <2> QED
    BY <1>1, <2>2, <2>4 DEF LevelsOK
<1>10. SolutionsOf(Problem') = SolutionsOf(Problem)
  BY <1>1, SameProblem DEF inputVars
<1>11. ASSUME NEW s \in SolutionsOf(Problem')
       PROVE  /\ Models(s, Now') /\ status' # "INFEASIBLE"
              /\ status' \in Running /\ conflict' # <<>> => Satisfies(s, conflict')
  <2>1. s \in Assignments /\ Models(s, d)
    BY <1>2, <1>10, KnownFacts DEF d
  <2>2. SatisfiesGraph(s, d) /\ SatisfiesFixed(s, d.trail) /\ \A c \in Attached(d) : Satisfies(s, d.clauses[c])
    BY <2>1 DEF Models
  <2>3. Propagates(s, r)
    BY <1>2, <1>4, <1>6, <2>1, <2>2, PropagationsFollow
  <2>4. Models(s, e)
    BY <1>8, <2>2, <2>3 DEF Models, Propagates, SatisfiesGraph
  <2> QED
    BY <1>1, <1>5, <2>3, <2>4 DEF Propagates, Running
<1>12. KnownOK'
  BY <1>11, KnownNext
<1> QED
  BY <1>9, <1>12

(* PropagateClauses: so does what the watched clauses propagate.           *)
LEMMA PropagateClausesFollows ==
  ASSUME SearchOK, PropagateClauses
  PROVE  LevelsOK' /\ KnownOK'
<1> DEFINE d == Now
           F == -trail[clause_index + 1].literal
           r == PropagateOnFalse(d, F)
           e == AsDatabase(d, r)
<1>1. /\ status \in Running /\ clause_index < Len(trail)
      /\ clauses' = r.clauses /\ watchers' = r.watchers /\ trail' = r.trail
      /\ conflict' = r.conflict
      /\ UNCHANGED <<implications, inputVars, status, assumptions>>
  BY DEF PropagateClauses
<1>2. TypesOK /\ DatabaseOK(d) /\ LevelsOK /\ KnownOK
  BY DEF SearchOK, SolverOK
<1>3. d.trail = trail /\ d.implications = implications /\ r = PropagateOnFalse(d, F) /\ e = AsDatabase(d, r)
  BY NowFields
<1>4. d \in Databases /\ IsTrail(trail) /\ Len(trail) \in Nat
  BY <1>2, <1>3, TrailEntries DEF DatabaseOK
<1>5. Now' = e
  <2>1. Now' = [clauses |-> r.clauses, watchers |-> r.watchers, implications |-> implications', trail |-> r.trail]
    BY <1>1 DEF Now
  <2>2. implications' = d.implications
    BY <1>1, <1>3
  <2> QED
    BY <2>1, <2>2 DEF AsDatabase
<1>6. clause_index \in Nat /\ clause_index + 1 \in 1..Len(trail)
  BY <1>1, <1>2, <1>4 DEF TypesOK
<1>7. F \in Literals /\ IsFalse(d.trail, F)
  <2>1. trail[clause_index + 1].literal \in Literals
    BY <1>4, <1>6, TrailEntries
  <2>2. F \in Literals /\ -F = trail[clause_index + 1].literal
    BY <2>1, LiteralFacts
  <2> QED
    BY <1>3, <1>6, <2>2 DEF IsFalse, IsTrue
<1> HIDE DEF d, r, F, e
<1>8. DatabaseOK(d) /\ F \in Literals /\ IsFalse(d.trail, F) /\ r = PropagateOnFalse(d, F) /\ e = AsDatabase(d, r)
  BY <1>2, <1>3, <1>7
<1>9. DatabaseOK(e) /\ e.trail = r.trail
  BY <1>8, PropagateOnFalseIsOK
<1>10. GrownSince(d, r.trail, "CLAUSE")
  BY <1>8, PropagateOnFalseIsOK
<1>11. LevelsOK'
  <2>1. NoDecisionSince(trail, r.trail) /\ IsTrail(r.trail)
    BY <1>3, <1>9, <1>10 DEF GrownSince, NoDecisionSince, DatabaseOK
  <2>2. FirstChoice' = FirstChoice /\ FirstChoice \in Nat
    BY <1>1 DEF FirstChoice
  <2>3. OneDecisionFrom(trail, FirstChoice)
    BY <1>2 DEF LevelsOK
  <2>4. OneDecisionFrom(r.trail, FirstChoice)
    BY <1>4, <2>1, <2>2, <2>3, OneDecisionStays
  <2> QED
    BY <1>1, <2>2, <2>4 DEF LevelsOK
<1>12. SolutionsOf(Problem') = SolutionsOf(Problem)
  BY <1>1, SameProblem DEF inputVars
<1>13. ASSUME NEW s \in SolutionsOf(Problem')
       PROVE  /\ Models(s, Now') /\ status' # "INFEASIBLE"
              /\ status' \in Running /\ conflict' # <<>> => Satisfies(s, conflict')
  <2>1. s \in Assignments /\ Models(s, d)
    BY <1>2, <1>12, KnownFacts DEF d
  <2>2. Models(s, e) /\ (r.conflict # <<>> => Satisfies(s, r.conflict))
    BY <1>8, <2>1, PropagateOnFalseFollows
  <2> QED
    BY <1>1, <1>5, <2>2 DEF Running
<1>14. KnownOK'
  BY <1>13, KnownNext
<1> QED
  BY <1>11, <1>14
(* At level zero there are no decisions.                                   *)
LEMMA LevelZeroLevels ==
  ASSUME IsTrail(trail'), CurrentLevel(trail') = 0
  PROVE  LevelsOK'
<1>1. FirstChoice' \in Nat /\ 0 < FirstChoice'
  BY DEF FirstChoice
<1>2. PICK n : n = FirstChoice'
  OBVIOUS
<1>3. PICK t : t = trail'
  OBVIOUS
<1>4. OneDecisionFrom(t, n)
  BY <1>1, <1>2, <1>3, LowLevels
<1> QED
  BY <1>2, <1>3, <1>4 DEF LevelsOK

(* Load: a solution of the clauses with the one added satisfies it, so it  *)
(* is not false at level zero.                                             *)
LEMMA LoadFollows ==
  ASSUME SearchOK, Load
  PROVE  LevelsOK' /\ KnownOK'
<1> DEFINE d == Now
           c == config.clauses[loaded + 1]
           e == AddProblemClause(d, c)
<1>1. /\ status = "loading" /\ conflict = <<>> /\ loaded < Len(config.clauses) /\ loaded' = loaded + 1
      /\ IF \A l \in c : IsFalse(trail, l)
         THEN status' = "INFEASIBLE" /\ UNCHANGED database
         ELSE DatabaseBecomes(e) /\ UNCHANGED status
      /\ UNCHANGED <<removable, indices, failure, config, asked, late, assumptions>>
  BY DEF Load, Propagated
<1>2. TypesOK /\ DatabaseOK(d) /\ LevelZeroOK /\ LevelsOK /\ KnownOK
  BY DEF SearchOK, SolverOK
<1>3. d.trail = trail /\ e = AddProblemClause(d, c)
  BY NowFields
<1>4. d \in Databases /\ IsTrail(trail) /\ Len(trail) \in Nat
  BY <1>2, <1>3, TrailEntries DEF DatabaseOK
<1>5. loaded \in Nat /\ Len(config.clauses) \in Nat /\ c \subseteq Literals
  <2>1. config \in Configurations /\ loaded \in 0..Len(config.clauses)
    BY <1>2 DEF TypesOK
  <2>2. Len(config.clauses) \in Nat
    BY <2>1, ConfigurationFacts
  <2>3. loaded + 1 \in 1..Len(config.clauses)
    BY <1>1, <2>1, <2>2
  <2> QED
    BY <2>1, <2>2, <2>3, ConfigurationFacts
<1>6. CurrentLevel(trail) = 0
  BY <1>1, <1>2 DEF LevelZeroOK
<1>7. Problem \subseteq Problem' /\ c \in Problem'
  <2>1. loaded' \in 1..loaded' /\ \A i \in 1..loaded : i \in 1..loaded'
    BY <1>1, <1>5
  <2>2. config' = config /\ late' = late
    BY <1>1
  <2> QED
    BY <1>1, <2>1, <2>2 DEF Problem
<1> HIDE DEF c, d, e
<1>8. ASSUME NEW s \in SolutionsOf(Problem')
      PROVE  s \in Assignments /\ Models(s, d) /\ c \cap s # {}
  <2>1. s \in SolutionsOf(Problem) /\ c \cap s # {}
    BY <1>7, LargerProblem
  <2> QED
    BY <1>2, <2>1, KnownFacts DEF d
<1>9. CASE \A l \in c : IsFalse(trail, l)
  <2>1. UNCHANGED database
    BY <1>1, <1>9
  <2>2. LevelsOK'
    BY <1>1, <1>2, <2>1, DatabaseStays
  <2>3. ASSUME NEW s \in SolutionsOf(Problem') PROVE FALSE
    <3>1. s \in Assignments /\ Models(s, d) /\ c \cap s # {}
      BY <1>8
    <3>2. SatisfiesFixed(s, trail)
      BY <1>3, <3>1 DEF Models
    <3>3. \A l \in Literals : IsFalse(trail, l) => l \notin s
      BY <1>4, <1>6, <3>1, <3>2, AssignedForAssignment
    <3> QED
      BY <1>5, <1>9, <3>1, <3>3
  <2>4. KnownOK'
    BY <2>3, KnownNext
  <2> QED
    BY <2>2, <2>4
<1>10. CASE ~\A l \in c : IsFalse(trail, l)
  <2>1. DatabaseBecomes(e) /\ status' = status
    BY <1>1, <1>10
  <2>2. \E l \in c : ~IsFalse(d.trail, l)
    BY <1>3, <1>10
  <2>3. DatabaseOK(e) /\ CurrentLevel(e.trail) = 0
    BY <1>2, <1>3, <1>5, <1>6, <2>2, AddProblemClauseIsOK
  <2>4. e \in Databases /\ IsTrail(e.trail)
    BY <2>3 DEF DatabaseOK
  <2>5. Now' = e /\ trail' = e.trail
    BY <2>1, <2>4, NowBecomes
  <2>6. LevelsOK'
    BY <2>3, <2>4, <2>5, LevelZeroLevels
  <2>7. ASSUME NEW s \in SolutionsOf(Problem')
        PROVE  /\ Models(s, Now') /\ status' # "INFEASIBLE"
               /\ status' \in Running /\ conflict' # <<>> => Satisfies(s, conflict')
    <3>1. s \in Assignments /\ Models(s, d) /\ c \cap s # {}
      BY <1>8
    <3>2. CurrentLevel(d.trail) = 0
      BY <1>3, <1>6
    <3>3. Models(s, e)
      BY <1>2, <1>3, <1>5, <3>1, <3>2, ProblemClauseModels
    <3> QED
      BY <1>1, <2>1, <2>5, <3>3 DEF failure
  <2>8. KnownOK'
    BY <2>7, KnownNext
  <2> QED
    BY <2>6, <2>8
<1> QED
  BY <1>9, <1>10

(* Ask: what is left of the trail is fixed.                                *)
LEMMA AskFollows ==
  ASSUME SearchOK, Ask
  PROVE  LevelsOK' /\ KnownOK'
<1> DEFINE d == Now
           level == 0
           kept == Backtracked(trail, level)
           e == WithTrailOf(d, kept)
<1>1. /\ status \in {"loading", "FEASIBLE", "ASSUMPTIONS_UNSAT"} /\ status' = "resetting" /\ conflict' = <<>>
      /\ trail' = kept /\ UNCHANGED <<clauses, watchers, implications, removable, config, loaded, late>>
  BY DEF Ask
<1>2. TypesOK /\ DatabaseOK(d) /\ KnownOK
  BY DEF SearchOK, SolverOK
<1>3. /\ d.trail = trail /\ d.clauses = clauses /\ d.watchers = watchers /\ d.implications = implications
  BY NowFields
<1>4. d \in Databases /\ IsTrail(trail)
  BY <1>2, <1>3 DEF DatabaseOK
<1>5. Now' = e
  <2>1. Now' = [clauses |-> d.clauses, watchers |-> d.watchers, implications |-> d.implications, trail |-> kept]
    BY <1>1, <1>3 DEF Now
  <2>2. d = [clauses |-> d.clauses, watchers |-> d.watchers, implications |-> d.implications, trail |-> d.trail]
    BY <1>3 DEF Now
  <2> QED
    BY <2>1, <2>2 DEF WithTrailOf
<1>6. level \in Nat /\ level = 0 /\ kept = Backtracked(trail, level) /\ e = WithTrailOf(d, kept)
  OBVIOUS
<1> HIDE DEF d, e, kept, level
<1>7. IsTrail(kept) /\ Begins(kept, trail) /\ CurrentLevel(kept) <= level
  BY <1>4, <1>6, BacktrackedFacts
<1>8. CurrentLevel(kept) = 0
  BY <1>6, <1>7, CurrentLevelFacts
<1>9. LevelsOK'
  BY <1>1, <1>7, <1>8, LevelZeroLevels
<1>10. SolutionsOf(Problem') = SolutionsOf(Problem)
  BY <1>1, SameProblem
<1>11. ASSUME NEW s \in SolutionsOf(Problem')
       PROVE  /\ Models(s, Now') /\ status' # "INFEASIBLE"
              /\ status' \in Running /\ conflict' # <<>> => Satisfies(s, conflict')
  <2>1. Models(s, d)
    BY <1>2, <1>10, KnownFacts DEF d
  <2>2. Begins(kept, d.trail)
    BY <1>3, <1>7
  <2>3. Models(s, e)
    BY <1>4, <1>6, <1>7, <2>1, <2>2, CutModels
  <2> QED
    BY <1>1, <1>5, <2>3
<1>12. KnownOK'
  BY <1>11, KnownNext
<1> QED
  BY <1>9, <1>12

(* Start: the simplification keeps the solutions.                          *)
LEMMA StartFollows ==
  ASSUME SearchOK, Start
  PROVE  LevelsOK' /\ KnownOK'
<1> DEFINE d == Now
           e == ProcessNewlyFixedVariables(d)
<1>1. /\ status = "resetting" /\ conflict = <<>> /\ status' = "searching"
      /\ IF assumptions' = <<>> THEN UNCHANGED <<database, removable, num_processed>>
         ELSE DatabaseBecomes(e) /\ removable' = StillRemovable(e)
      /\ UNCHANGED <<indices, failure, inputVars, clean_ups>>
  BY DEF Start, Propagated
<1>2. TypesOK /\ DatabaseOK(d) /\ LevelZeroOK /\ KnownOK
  BY DEF SearchOK, SolverOK
<1>3. d.trail = trail /\ e = ProcessNewlyFixedVariables(d)
  BY NowFields
<1>4. IsTrail(trail) /\ CurrentLevel(trail) = 0 /\ CurrentLevel(d.trail) = 0
  BY <1>1, <1>2, <1>3 DEF LevelZeroOK, DatabaseOK
<1>5. (Now' = d /\ trail' = trail) \/ DatabaseBecomes(e)
  BY <1>1 DEF Now, database
<1> HIDE DEF d, e
<1>6. DatabaseOK(e) /\ e.trail = d.trail
  BY <1>2, <1>3, <1>4, ProcessedIsOK
<1>7. e \in Databases
  BY <1>6 DEF DatabaseOK
<1>8. Now' \in {d, e} /\ trail' = trail
  <2>1. DatabaseBecomes(e) => Now' = e /\ trail' = e.trail
    BY <1>7, NowBecomes
  <2> QED
    BY <1>3, <1>5, <1>6, <2>1
<1>9. LevelsOK'
  BY <1>4, <1>8, LevelZeroLevels
<1>10. SolutionsOf(Problem') = SolutionsOf(Problem)
  BY <1>1, SameProblem DEF inputVars
<1>11. ASSUME NEW s \in SolutionsOf(Problem')
       PROVE  /\ Models(s, Now') /\ status' # "INFEASIBLE"
              /\ status' \in Running /\ conflict' # <<>> => Satisfies(s, conflict')
  <2>1. s \in Assignments /\ Models(s, d)
    BY <1>2, <1>10, KnownFacts DEF d
  <2>2. Models(s, e)
    BY <1>2, <1>3, <1>4, <2>1, ProcessedModels
  <2>3. conflict' = <<>>
    BY <1>1 DEF failure
  <2> QED
    BY <1>1, <1>8, <2>1, <2>2, <2>3
<1>12. KnownOK'
  BY <1>11, KnownNext
<1> QED
  BY <1>9, <1>12

(* ReapplyAssumptions: the assumptions are decisions of level 1, which is  *)
(* below the first choice while there are any.                             *)
LEMMA ReapplyAssumptionsFollows ==
  ASSUME SearchOK, ReapplyAssumptions
  PROVE  LevelsOK' /\ KnownOK'
<1> DEFINE d == Now
           r == WithAssumptions(trail, assumptions)
           e == WithTrailOf(d, r.trail)
<1>1. /\ status = "searching" /\ CurrentLevel(trail) = 0 /\ assumptions # <<>> /\ trail' = r.trail
      /\ \/ status' = "ASSUMPTIONS_UNSAT" /\ assumptions' = assumptions
         \/ /\ status' = status /\ conflict' = <<>>
            /\ assumptions' = StillAssumed(trail')
      /\ UNCHANGED <<clauses, watchers, implications, removable, indices, inputVars>>
  <2>1. conflict = <<>> /\ status = "searching"
    BY DEF ReapplyAssumptions, Searching, Propagated
  <2>2. \/ status' = "ASSUMPTIONS_UNSAT" /\ assumptions' = assumptions
        \/ status' = status /\ conflict' = conflict /\ assumptions' = StillAssumed(r.trail)
    BY DEF ReapplyAssumptions, failure
  <2> QED
    BY <2>1, <2>2 DEF ReapplyAssumptions, NeedAssumptions
<1>2. TypesOK /\ DatabaseOK(d) /\ KnownOK
  BY DEF SearchOK, SolverOK
<1>3. /\ d.trail = trail /\ d.clauses = clauses /\ d.watchers = watchers /\ d.implications = implications
  BY NowFields
<1>4. d \in Databases /\ IsTrail(trail) /\ Len(trail) \in Nat /\ assumptions \in Seq(Literals)
  BY <1>2, <1>3, TrailEntries DEF DatabaseOK, TypesOK
<1>5. Now' = e
  <2>1. Now' = [clauses |-> d.clauses, watchers |-> d.watchers, implications |-> d.implications, trail |-> r.trail]
    BY <1>1, <1>3 DEF Now
  <2>2. d = [clauses |-> d.clauses, watchers |-> d.watchers, implications |-> d.implications, trail |-> d.trail]
    BY <1>3 DEF Now
  <2> QED
    BY <2>1, <2>2 DEF WithTrailOf
<1>6. r = WithAssumptions(d.trail, assumptions) /\ e = WithTrailOf(d, r.trail) /\ CurrentLevel(d.trail) = 0
  BY <1>1, <1>3
<1> HIDE DEF d, r, e
<1>7. AssumedOK(d, assumptions, r, Len(assumptions))
  BY <1>2, <1>4, <1>6, AssumptionsAreOK
<1>8. /\ DatabaseOK(e) /\ Begins(d.trail, r.trail) /\ CurrentLevel(r.trail) <= 1 /\ r.trail \in Seq(Entries)
      /\ \A j \in 1..Len(r.trail) : j > Len(d.trail) => r.trail[j].level = 1
  BY <1>6, <1>7 DEF AssumedOK, Assumeds
<1>9. e.trail = r.trail /\ e.clauses = d.clauses /\ e.implications = d.implications /\ Attached(e) = Attached(d)
  BY <1>4, <1>6, <1>8, WithTrail DEF WithTrailOf
<1>10. IsTrail(r.trail)
  BY <1>8, <1>9 DEF DatabaseOK
<1>11. LevelsOK'
  <2>1. CASE CurrentLevel(trail') = 0
    BY <1>1, <1>10, <2>1, LevelZeroLevels
  <2>2. CASE CurrentLevel(trail') # 0
    <3>1. assumptions' = assumptions
      BY <1>1, <2>2 DEF StillAssumed
    <3>2. FirstChoice' = 2
      BY <1>1, <3>1 DEF FirstChoice
    <3>3. CurrentLevel(r.trail) < 2 /\ 2 \in Nat
      BY <1>8, <1>10, CurrentLevelFacts
    <3>4. OneDecisionFrom(r.trail, 2)
      BY <1>10, <3>3, LowLevels
    <3> QED
      BY <1>1, <3>2, <3>4 DEF LevelsOK
  <2> QED
    BY <2>1, <2>2
<1>12. SolutionsOf(Problem') = SolutionsOf(Problem)
  BY <1>1, SameProblem DEF inputVars
<1>13. ASSUME NEW s \in SolutionsOf(Problem')
       PROVE  /\ Models(s, Now') /\ status' # "INFEASIBLE"
              /\ status' \in Running /\ conflict' # <<>> => Satisfies(s, conflict')
  <2>1. s \in Assignments /\ Models(s, d)
    BY <1>2, <1>12, KnownFacts DEF d
  <2>2. SatisfiesFixed(s, r.trail)
    <3> SUFFICES ASSUME NEW i \in 1..Len(r.trail), r.trail[i].level = 0 PROVE r.trail[i].literal \in s
      BY DEF SatisfiesFixed
    <3>1. Len(d.trail) \in Nat /\ ~(i > Len(d.trail))
      BY <1>3, <1>4, <1>8
    <3>2. i \in 1..Len(d.trail)
      BY <3>1
    <3>3. r.trail[i] = d.trail[i]
      BY <1>8, <3>2 DEF Begins
    <3> QED
      BY <2>1, <3>2, <3>3 DEF Models, SatisfiesFixed
  <2>3. Models(s, e)
    BY <1>9, <2>1, <2>2 DEF Models, SatisfiesGraph
  <2>4. status' # "INFEASIBLE" /\ (status' \in Running => conflict' = <<>>)
    BY <1>1 DEF Running
  <2> QED
    BY <1>5, <2>3, <2>4
<1>14. KnownOK'
  BY <1>13, KnownNext
<1> QED
  BY <1>11, <1>14

(* Leaf.                                                                   *)
LEMMA LeafFollows ==
  ASSUME SearchOK, Leaf
  PROVE  LevelsOK' /\ KnownOK'
<1>1. /\ status' = "FEASIBLE" /\ UNCHANGED <<database, inputVars, assumptions>>
  BY DEF Leaf
<1>2. LevelsOK /\ KnownOK
  BY DEF SearchOK
<1>3. Now' = Now /\ LevelsOK'
  BY <1>1, <1>2, DatabaseStays
<1>4. SolutionsOf(Problem') = SolutionsOf(Problem)
  BY <1>1, SameProblem DEF inputVars
<1>5. ASSUME NEW s \in SolutionsOf(Problem')
      PROVE  /\ Models(s, Now') /\ status' # "INFEASIBLE"
             /\ status' \in Running /\ conflict' # <<>> => Satisfies(s, conflict')
  <2>1. Models(s, Now)
    BY <1>2, <1>4, <1>5, KnownFacts
  <2>2. status' # "INFEASIBLE" /\ status' \notin Running
    BY <1>1 DEF Running
  <2> QED
    BY <1>3, <2>1, <2>2
<1>6. KnownOK'
  BY <1>5, KnownNext
<1> QED
  BY <1>3, <1>6
(* EnqueueNewDecision: the decision opens a new level, which is not zero.  *)
LEMMA EnqueueNewDecisionFollows ==
  ASSUME SearchOK, NEW restart \in BOOLEAN, NEW process \in BOOLEAN, NEW l \in config.branches,
         EnqueueNewDecision(restart, process, l)
  PROVE  LevelsOK' /\ KnownOK'
<1> DEFINE d == Now
           assumption_level == IF assumptions = <<>> THEN 0 ELSE 1
           kept == IF restart THEN Backtracked(trail, assumption_level) ELSE trail
           level == CurrentLevel(kept)
           g == WithTrailOf(d, kept)
           e == IF process THEN ProcessNewlyFixedVariables(g) ELSE g
           next == level + 1
           type == "DECISION"
           by == 0
           u == Enqueued(kept, l, next, type, by)
           n == WithTrailOf(e, u)
<1>1. /\ status = "searching" /\ conflict = <<>>
      /\ process => level = 0
      /\ ~IsAssigned(kept, l)
      /\ DatabaseBecomes([e EXCEPT !.trail = Enqueued(@, l, level + 1, "DECISION", 0)])
      /\ UNCHANGED <<failure, inputVars, status, assumptions>>
  BY DEF EnqueueNewDecision, Searching, Propagated, WithTrailOf
<1>2. TypesOK /\ DatabaseOK(d) /\ LevelsOK /\ KnownOK
  BY DEF SearchOK, SolverOK
<1>3. d.trail = trail
  BY NowFields
<1>4. d \in Databases /\ IsTrail(trail) /\ Len(trail) \in Nat
  BY <1>2, <1>3, TrailEntries DEF DatabaseOK
<1>5. assumption_level \in Nat
  OBVIOUS
<1> HIDE DEF d, assumption_level
<1>6. /\ IsTrail(kept) /\ Begins(kept, trail)
      /\ \A i \in 1..Len(trail) : trail[i].level = 0 => i <= Len(kept)
  <2>1. CASE restart
    <3>1. kept = Backtracked(trail, assumption_level)
      BY <2>1
    <3> HIDE DEF kept
    <3>2. /\ IsTrail(kept) /\ Begins(kept, trail)
          /\ \A i \in 1..Len(trail) : trail[i].level <= assumption_level <=> i <= Len(kept)
      BY <1>4, <1>5, <3>1, BacktrackedFacts
    <3>3. \A i \in 1..Len(trail) : trail[i].level = 0 => i <= Len(kept)
      BY <1>5, <3>2
    <3> QED
      BY <3>2, <3>3
  <2>2. CASE ~restart
    <3>1. kept = trail
      BY <2>2
    <3>2. Begins(trail, trail)
      BY <1>4 DEF Begins
    <3> QED
      BY <1>4, <3>1, <3>2
  <2> QED
    BY <2>1, <2>2
<1>7. g = WithTrailOf(d, kept) /\ g = [d EXCEPT !.trail = kept]
  BY DEF WithTrailOf
<1>8. (process /\ e = ProcessNewlyFixedVariables(g)) \/ e = g
  OBVIOUS
<1>9. u = Enqueued(kept, l, next, type, by) /\ n = WithTrailOf(e, u) /\ type = "DECISION" /\ by = 0 /\ by \in Int
      /\ type \in {"DECISION", "UNIT", "BINARY", "CLAUSE"}
  OBVIOUS
<1>10. [e EXCEPT !.trail = Enqueued(@, l, level + 1, "DECISION", 0)] = [e EXCEPT !.trail = Enqueued(e.trail, l, next, type, by)]
  OBVIOUS
<1> HIDE DEF kept, g, e
<1>11. Len(kept) \in Nat /\ Len(kept) <= Len(trail) /\ level \in Nat /\ level <= Len(kept)
  BY <1>4, <1>6, TrailEntries, CurrentLevelFacts DEF Begins
<1>12. Begins(kept, d.trail) /\ \A i \in 1..Len(d.trail) : d.trail[i].level = 0 => i <= Len(kept)
  BY <1>3, <1>6
<1>13. DatabaseOK(g) /\ g.trail = kept
  <2>1. DatabaseOK(g)
    BY <1>2, <1>6, <1>7, <1>12, CutTrail
  <2> QED
    BY <1>4, <1>6, <1>7, <2>1, WithTrail DEF IsTrail
<1>14. DatabaseOK(e) /\ e.trail = kept /\ \A s \in Assignments : Models(s, g) => Models(s, e)
  <2>1. CASE process /\ e = ProcessNewlyFixedVariables(g)
    <3>1. CurrentLevel(g.trail) = 0
      BY <1>1, <1>13, <2>1
    <3>2. DatabaseOK(e) /\ e.trail = g.trail
      BY <1>13, <2>1, <3>1, ProcessedIsOK
    <3>3. \A s \in Assignments : Models(s, g) => Models(s, e)
      BY <1>13, <2>1, <3>1, ProcessedModels
    <3> QED
      BY <1>13, <3>2, <3>3
  <2>2. CASE e = g
    BY <1>13, <2>2
  <2> QED
    BY <1>8, <2>1, <2>2
<1>15. l \in Literals /\ ~IsAssigned(kept, l)
  <2>1. config \in Configurations
    BY <1>2 DEF TypesOK
  <2> QED
    BY <1>1, <2>1, ConfigurationFacts
<1>16. next \in Nat /\ next > 0 /\ next >= CurrentLevel(kept) /\ next <= Len(kept) + 1 /\ CurrentLevel(kept) < next
  BY <1>11
<1>17. DatabaseBecomes(n)
  BY <1>1, <1>9, <1>10, <1>14 DEF WithTrailOf
<1> HIDE DEF next, type, by, u, n
<1>18. IsTrail(u) /\ Begins(kept, u) /\ Len(u) = Len(kept) + 1 /\ u[Len(u)].level = next
  BY <1>6, <1>9, <1>15, <1>16, EnqueuedFacts
<1>19. e \in Databases /\ u \in Seq(Entries)
  BY <1>14, <1>18 DEF DatabaseOK, IsTrail
<1>20. /\ n \in Databases /\ n.trail = u /\ n.clauses = e.clauses /\ n.implications = e.implications
       /\ Attached(n) = Attached(e)
  BY <1>9, <1>19, WithTrail DEF WithTrailOf
<1>21. Now' = n /\ trail' = u
  BY <1>17, <1>20, NowBecomes
<1>22. LevelsOK'
  <2>1. FirstChoice' = FirstChoice /\ FirstChoice \in Nat
    BY <1>1 DEF FirstChoice
  <2>2. OneDecisionFrom(trail, FirstChoice)
    BY <1>2 DEF LevelsOK
  <2>3. OneDecisionFrom(kept, FirstChoice)
    BY <1>4, <1>6, <2>1, <2>2, OneDecisionStays
  <2>4. CurrentLevel(kept) < u[Len(u)].level
    BY <1>16, <1>18
  <2>5. OneDecisionFrom(u, FirstChoice)
    BY <1>6, <1>18, <2>1, <2>3, <2>4, DecisionAtNewLevel
  <2> QED
    BY <1>21, <2>1, <2>5 DEF LevelsOK
<1>23. SolutionsOf(Problem') = SolutionsOf(Problem)
  BY <1>1, SameProblem DEF inputVars
<1>24. ASSUME NEW s \in SolutionsOf(Problem')
       PROVE  /\ Models(s, Now') /\ status' # "INFEASIBLE"
              /\ status' \in Running /\ conflict' # <<>> => Satisfies(s, conflict')
  <2>1. s \in Assignments /\ Models(s, d)
    BY <1>2, <1>23, KnownFacts DEF d
  <2>2. Models(s, g)
    BY <1>4, <1>6, <1>7, <1>12, <2>1, CutModels
  <2>3. Models(s, e)
    BY <1>14, <2>1, <2>2
  <2>4. SatisfiesFixed(s, kept)
    BY <1>14, <2>3 DEF Models
  <2>5. next = 0 => l \in s
    BY <1>16
  <2>6. SatisfiesFixed(s, u)
    BY <1>6, <1>9, <1>15, <1>16, <2>4, <2>5, EnqueuedFollows
  <2>7. Models(s, n)
    BY <1>20, <2>3, <2>6 DEF Models, SatisfiesGraph
  <2>8. conflict' = <<>> /\ status' # "INFEASIBLE"
    BY <1>1 DEF failure
  <2> QED
    BY <1>21, <2>7, <2>8
<1>25. KnownOK'
  BY <1>24, KnownNext
<1> QED
  BY <1>22, <1>25

(* ProcessCurrentConflict: a conflict at level zero has no solution, and   *)
(* what is learned from another one follows.                               *)
LEMMA ProcessCurrentConflictFollows ==
  ASSUME SearchOK, ProcessCurrentConflict
  PROVE  LevelsOK' /\ KnownOK'
<1> DEFINE d == Now
           levels == {LevelOf(trail, l) : l \in ToSet(conflict)}
           highest == Max(levels)
           gives_up == highest = 0 \/ (highest = 1 /\ assumptions # <<>>)
<1>1. /\ status \in Running /\ conflict # <<>>
      /\ IF gives_up
         THEN /\ status' = IF highest = 0 THEN "INFEASIBLE" ELSE "ASSUMPTIONS_UNSAT"
              /\ UNCHANGED <<database, removable, indices, failure, clean_ups>>
         ELSE BackjumpAndLearn
      /\ UNCHANGED <<inputVars, assumptions, num_processed, restarts>>
  BY DEF ProcessCurrentConflict
<1>2. TypesOK /\ DatabaseOK(d) /\ FailureIsKnown(d, conflict, failing) /\ LevelsOK /\ KnownOK
  BY <1>1 DEF SearchOK, SolverOK, ConflictOK
<1>3. d.trail = trail
  BY NowFields
<1>4. d \in Databases /\ IsTrail(trail) /\ Len(trail) \in Nat
  BY <1>2, <1>3, TrailEntries DEF DatabaseOK
<1> HIDE DEF d
<1>5. conflict \in Seq(Literals) /\ \A l \in ToSet(conflict) : IsFalse(trail, l) /\ l \in Literals
  <2>1. conflict \in Seq(Literals) /\ \A l \in ToSet(conflict) : IsFalse(trail, l)
    BY <1>2, <1>3 DEF FailureIsKnown, FalseLiterals
  <2> QED
    BY <2>1, ToSetFacts
<1>6. \A l \in ToSet(conflict) : LevelOf(trail, l) \in Nat /\ LevelOf(trail, l) <= CurrentLevel(trail)
  <2> SUFFICES ASSUME NEW l \in ToSet(conflict)
               PROVE  LevelOf(trail, l) \in Nat /\ LevelOf(trail, l) <= CurrentLevel(trail)
    OBVIOUS
  <2>1. l \in Literals /\ IsAssigned(trail, l)
    BY <1>5 DEF IsAssigned
  <2> QED
    BY <1>4, <2>1, TrailFacts, CurrentLevelFacts
<1>7. highest \in levels /\ highest \in Nat /\ \A x \in levels : x <= highest
  <2>1. levels \subseteq Nat /\ levels # {}
    <3>1. ToSet(conflict) # {}
      BY <1>1, <1>5, ToSetFacts
    <3> QED
      BY <1>6, <3>1
  <2>2. IsFiniteSet(levels)
    <3>1. levels \subseteq 0..CurrentLevel(trail) /\ CurrentLevel(trail) \in Nat
      BY <1>4, <1>6, CurrentLevelFacts
    <3>2. IsFiniteSet(0..CurrentLevel(trail))
      BY <3>1, FS_Interval
    <3> QED
      BY <3>1, <3>2, FS_Subset
  <2>3. levels \in SUBSET Int
    BY <2>1
  <2> HIDE DEF levels
  <2> QED
    BY <2>1, <2>2, <2>3, MaxOfSet
<1>8. SolutionsOf(Problem') = SolutionsOf(Problem)
  BY <1>1, SameProblem DEF inputVars
<1>9. ASSUME NEW s \in SolutionsOf(Problem')
      PROVE  s \in Assignments /\ Models(s, d) /\ Satisfies(s, conflict)
  BY <1>1, <1>2, <1>8, KnownFacts DEF d
<1>10. CASE gives_up
  <2>1. /\ status' = IF highest = 0 THEN "INFEASIBLE" ELSE "ASSUMPTIONS_UNSAT"
        /\ UNCHANGED database
    BY <1>1, <1>10
  <2>2. Now' = Now /\ LevelsOK'
    BY <1>1, <1>2, <2>1, DatabaseStays
  <2>3. ASSUME NEW s \in SolutionsOf(Problem')
        PROVE  /\ Models(s, Now') /\ status' # "INFEASIBLE"
               /\ status' \in Running /\ conflict' # <<>> => Satisfies(s, conflict')
    <3>1. s \in Assignments /\ Models(s, d) /\ Satisfies(s, conflict)
      BY <1>9
    <3>2. PICK l \in ToSet(conflict) : l \in s
      BY <3>1 DEF Satisfies
    <3>3. l \in Literals /\ IsFalse(trail, l) /\ LevelOf(trail, l) \in Nat /\ LevelOf(trail, l) <= highest
      BY <1>5, <1>6, <1>7
    <3>4. SatisfiesFixed(s, trail)
      BY <1>3, <3>1 DEF Models
    <3>5. LevelOf(trail, l) # 0
      BY <1>4, <3>1, <3>2, <3>3, <3>4, FalseForAssignment
    <3>6. highest # 0
      BY <1>7, <3>3, <3>5
    <3>7. status' = "ASSUMPTIONS_UNSAT"
      BY <2>1, <3>6
    <3> QED
      BY <2>2, <3>1, <3>7 DEF Running, d
  <2>4. KnownOK'
    BY <2>3, KnownNext
  <2> QED
    BY <2>2, <2>4
<1>11. CASE ~gives_up
  <2> DEFINE r == Learned(d)
             subsumed == IF config.subsumption_during_conflict_analysis THEN r.subsumed ELSE {}
             level == ComputeBacktrackLevel(trail, r.conflict)
             kept == Backtracked(trail, level)
             g == WithTrailOf(d, kept)
             e == Detach(g, subsumed)
             n == FirstChoice
  <2>1. BackjumpAndLearn
    BY <1>1, <1>11
  <2>2. LearnClause(e, r.conflict, IsRedundant(subsumed)) /\ conflict' = <<>> /\ status' = status
    BY <2>1 DEF BackjumpAndLearn, WithTrailOf, d
  <2>3. subsumed \subseteq r.subsumed
    OBVIOUS
  <2>4. /\ r = Learned(d) /\ level = ComputeBacktrackLevel(d.trail, r.conflict)
        /\ kept = Backtracked(d.trail, level) /\ g = WithTrailOf(d, kept) /\ e = Detach(g, subsumed)
    BY <1>3
  <2>5. n \in Nat \ {0} /\ n \in Nat /\ n > 0 /\ FirstChoice' = n
    BY <1>1 DEF FirstChoice
  <2>6. PICK l \in ToSet(conflict) : LevelOf(trail, l) >= n
    <3>1. highest >= n
      BY <1>7, <1>11 DEF FirstChoice
    <3>2. PICK l \in ToSet(conflict) : highest = LevelOf(trail, l)
      BY <1>7
    <3> QED
      BY <3>1, <3>2
  <2>7. OneDecisionFrom(d.trail, n)
    BY <1>2, <1>3 DEF LevelsOK
  <2> HIDE DEF r, subsumed, level, kept, g, e, n
  <2>8. \E l_1 \in ToSet(conflict) : LevelOf(d.trail, l_1) >= n
    BY <1>3, <2>6
  <2>9. PICK top \in Nat \ {0} : LearnedOK(d, top, r)
    <3>1. LevelOf(d.trail, l) > 0
      BY <1>3, <1>6, <2>5, <2>6
    <3>2. \E l_1 \in ToSet(conflict) : LevelOf(d.trail, l_1) > 0
      BY <3>1
    <3> QED
      BY <1>2, <2>4, <3>2, LearnedIsOK
  <2>10. /\ DatabaseOK(g) /\ g.trail = kept /\ IsTrail(kept) /\ level \in Nat
         /\ Asserting(kept, r.conflict) /\ NotReasons(kept, r.subsumed)
    BY <1>2, <2>4, <2>9, BackjumpIsOK
  <2>11. IsTrail(d.trail) /\ Begins(kept, d.trail)
    <3>1. IsTrail(d.trail)
      BY <1>3, <1>4
    <3> QED
      BY <2>4, <2>10, <3>1, BacktrackedFacts
  <2>12. DatabaseOK(e)
    <3>1. \A i \in 1..Len(g.trail) : g.trail[i].type = "CLAUSE" /\ g.trail[i].level > 0 => g.trail[i].by \notin subsumed
      BY <2>3, <2>10 DEF NotReasons
    <3> QED
      BY <2>4, <2>10, <3>1, DetachIsOK
  <2>13. g \in Databases
    BY <2>10 DEF DatabaseOK
  <2>14. e.trail = kept
    BY <2>4, <2>10, <2>13, DetachFields
  <2>15. Asserting(e.trail, r.conflict)
    BY <2>10, <2>14
  <2>16. /\ \A m \in Nat \ {0} : OneDecisionFrom(e.trail, m) => OneDecisionFrom(trail', m)
         /\ \A s \in Assignments : Models(s, e) /\ Satisfies(s, r.conflict) => Models(s, Now')
    BY <2>2, <2>12, <2>15, LearnClauseFollows
  <2>17. LevelsOK'
    <3>1. OneDecisionFrom(kept, n)
      BY <2>5, <2>7, <2>10, <2>11, OneDecisionStays
    <3>2. OneDecisionFrom(trail', n)
      BY <2>5, <2>14, <2>16, <3>1
    <3> QED
      BY <2>5, <3>2 DEF LevelsOK
  <2>18. ASSUME NEW s \in SolutionsOf(Problem')
         PROVE  /\ Models(s, Now') /\ status' # "INFEASIBLE"
                /\ status' \in Running /\ conflict' # <<>> => Satisfies(s, conflict')
    <3>1. s \in Assignments /\ Models(s, d) /\ Satisfies(s, conflict)
      BY <1>9
    <3>2. Satisfies(s, r.conflict)
      BY <1>2, <2>4, <2>5, <2>7, <2>8, <3>1, LearnedFollows
    <3>3. Models(s, g)
      BY <1>4, <2>4, <2>10, <2>11, <3>1, CutModels
    <3>4. Models(s, e)
      BY <2>4, <2>13, <3>3, DetachedModels
    <3>5. Models(s, Now')
      BY <2>16, <3>1, <3>2, <3>4
    <3> QED
      BY <1>1, <2>2, <3>5 DEF Running
  <2>19. KnownOK'
    BY <2>18, KnownNext
  <2> QED
    BY <2>17, <2>19
<1> QED
  BY <1>10, <1>11
(* AddClauseDuringSearch: the clause belongs to the problem from then on.  *)
LEMMA AddClauseDuringSearchFollows ==
  ASSUME SearchOK, NEW c \in config.late, AddClauseDuringSearch(c)
  PROVE  LevelsOK' /\ KnownOK'
<1> DEFINE d == Now
           s == Sorted(c)
           Levels(u) == \A n \in Nat \ {0} : OneDecisionFrom(trail, n) => OneDecisionFrom(u, n)
           Follows(q) == \A a \in Assignments : Models(a, d) /\ c \cap a # {} => Models(a, q)
<1>1. PICK e : /\ e = IF CurrentLevel(trail) = 0 THEN AddProblemClause(d, c)
                      ELSE IF Cardinality(c) = 2 THEN AddBinaryClause(d, s[1], s[2]) ELSE Attach(d, s)
               /\ DatabaseBecomes(e)
  BY DEF AddClauseDuringSearch
<1>2. /\ status = "searching" /\ conflict = <<>> /\ \E l \in c : ~IsFalse(trail, l)
      /\ late' = late \cup {c} /\ UNCHANGED <<failure, config, loaded, status, assumptions>>
  BY DEF AddClauseDuringSearch, Searching, Propagated
<1>3. TypesOK /\ DatabaseOK(d) /\ LevelsOK /\ KnownOK
  BY DEF SearchOK, SolverOK
<1>4. d.trail = trail
  BY NowFields
<1>5. IsTrail(trail)
  BY <1>3, <1>4 DEF DatabaseOK
<1>6. c \subseteq Literals /\ Cardinality(c) > 1
  BY <1>3, ConfigurationFacts DEF TypesOK
<1>7. s \in Seq(Literals) /\ Len(s) = Cardinality(c) /\ ToSet(s) = c /\ Distinct(s)
  BY <1>6, SortedFacts
<1> HIDE DEF d, s, Levels, Follows
<1>8. DatabaseOK(e) /\ Levels(e.trail) /\ Follows(e)
  <2>1. CASE CurrentLevel(trail) = 0
    <3>1. e = AddProblemClause(d, c) /\ CurrentLevel(d.trail) = 0 /\ \E l \in c : ~IsFalse(d.trail, l)
      BY <1>1, <1>2, <1>4, <2>1
    <3>2. DatabaseOK(e) /\ CurrentLevel(e.trail) = 0
      BY <1>3, <1>6, <3>1, AddProblemClauseIsOK
    <3>3. IsTrail(e.trail)
      BY <3>2 DEF DatabaseOK
    <3>4. Levels(e.trail)
      <4> SUFFICES ASSUME NEW n \in Nat \ {0} PROVE OneDecisionFrom(e.trail, n)
        BY DEF Levels
      <4>1. CurrentLevel(e.trail) < n /\ n \in Nat
        BY <3>2
      <4> QED
        BY <3>3, <4>1, LowLevels
    <3>5. Follows(e)
      <4> SUFFICES ASSUME NEW a \in Assignments, Models(a, d), c \cap a # {} PROVE Models(a, e)
        BY DEF Follows
      <4> QED
        BY <1>3, <1>6, <3>1, ProblemClauseModels
    <3> QED
      BY <3>2, <3>4, <3>5
  <2>2. CASE CurrentLevel(trail) # 0 /\ Cardinality(c) = 2
    <3> DEFINE x == s[1]
               y == s[2]
    <3>1. x \in Literals /\ y \in Literals /\ x # y /\ \A l \in c : l = x \/ l = y
      <4>1. Len(s) = 2 /\ s \in Seq(Literals) /\ Distinct(s)
        BY <1>7, <2>2
      <4>2. 1 \in 1..Len(s) /\ 2 \in 1..Len(s)
        BY <4>1
      <4>3. s[1] \in Literals /\ s[2] \in Literals
        BY <4>1, <4>2
      <4>4. s[1] # s[2]
        BY <4>1, <4>2 DEF Distinct
      <4>5. ASSUME NEW l \in c PROVE l = s[1] \/ l = s[2]
        <5>1. PICK i \in 1..Len(s) : s[i] = l
          BY <1>7, ToSetFacts
        <5>2. i = 1 \/ i = 2
          BY <4>1
        <5> QED
          BY <5>1, <5>2
      <4> QED
        BY <4>3, <4>4, <4>5
    <3>2. e = AddBinaryClause(d, x, y)
      BY <1>1, <2>2
    <3> HIDE DEF x, y
    <3>3. DatabaseOK(e)
      BY <1>3, <3>1, <3>2, AddBinaryClauseIsOK
    <3>4. Levels(e.trail)
      <4> SUFFICES ASSUME NEW n \in Nat \ {0}, OneDecisionFrom(d.trail, n) PROVE OneDecisionFrom(e.trail, n)
        BY <1>4 DEF Levels
      <4>1. n \in Nat
        OBVIOUS
      <4> QED
        BY <1>3, <3>1, <3>2, <4>1, AddBinaryLevels
    <3>5. Follows(e)
      <4> SUFFICES ASSUME NEW a \in Assignments, Models(a, d), c \cap a # {} PROVE Models(a, e)
        BY DEF Follows
      <4>1. x \in a \/ y \in a
        BY <3>1
      <4> QED
        BY <1>3, <3>1, <3>2, <4>1, BinaryModels
    <3> QED
      BY <3>3, <3>4, <3>5
  <2>3. CASE CurrentLevel(trail) # 0 /\ Cardinality(c) # 2
    <3>1. Len(s) \in Nat /\ Len(s) >= 3
      BY <1>6, <1>7, <2>3
    <3>2. \E i \in 1..Len(s) : ~IsFalse(d.trail, s[i])
      <4>1. PICK l \in ToSet(s) : ~IsFalse(d.trail, l)
        BY <1>2, <1>4, <1>7
      <4>2. PICK i \in 1..Len(s) : s[i] = l
        BY <1>7, <4>1, ToSetFacts
      <4> QED
        BY <4>1, <4>2
    <3>3. e = Attach(d, s)
      BY <1>1, <2>3
    <3>4. DatabaseOK(e)
      BY <1>3, <1>7, <3>1, <3>2, <3>3, AttachIsOK
    <3>5. Levels(e.trail)
      <4> SUFFICES ASSUME NEW n \in Nat \ {0}, OneDecisionFrom(d.trail, n) PROVE OneDecisionFrom(e.trail, n)
        BY <1>4 DEF Levels
      <4>1. n \in Nat
        OBVIOUS
      <4> QED
        BY <1>3, <1>7, <3>1, <3>2, <3>3, <4>1, AttachLevels
    <3>6. Follows(e)
      <4> SUFFICES ASSUME NEW a \in Assignments, Models(a, d), c \cap a # {} PROVE Models(a, e)
        BY DEF Follows
      <4>1. Satisfies(a, s)
        BY <1>7 DEF Satisfies
      <4> QED
        BY <1>3, <1>7, <3>1, <3>2, <3>3, <4>1, AttachedModels
    <3> QED
      BY <3>4, <3>5, <3>6
  <2> QED
    BY <2>1, <2>2, <2>3
<1>9. e \in Databases
  BY <1>8 DEF DatabaseOK
<1>10. Now' = e /\ trail' = e.trail
  BY <1>1, <1>9, NowBecomes
<1>11. LevelsOK'
  <2>1. FirstChoice' = FirstChoice /\ FirstChoice \in Nat \ {0}
    BY <1>2 DEF FirstChoice
  <2>2. OneDecisionFrom(trail, FirstChoice)
    BY <1>3 DEF LevelsOK
  <2>3. OneDecisionFrom(e.trail, FirstChoice)
    BY <1>8, <2>1, <2>2 DEF Levels
  <2> QED
    BY <1>10, <2>1, <2>3 DEF LevelsOK
<1>12. Problem \subseteq Problem' /\ c \in Problem'
  BY <1>2 DEF Problem
<1>13. ASSUME NEW a \in SolutionsOf(Problem')
       PROVE  /\ Models(a, Now') /\ status' # "INFEASIBLE"
              /\ status' \in Running /\ conflict' # <<>> => Satisfies(a, conflict')
  <2>1. a \in SolutionsOf(Problem) /\ a \in Assignments /\ c \cap a # {}
    BY <1>12, LargerProblem
  <2>2. Models(a, d)
    BY <1>3, <2>1, KnownFacts DEF d
  <2>3. Models(a, e)
    BY <1>8, <2>1, <2>2 DEF Follows
  <2> QED
    BY <1>2, <1>10, <2>3 DEF failure
<1>14. KnownOK'
  BY <1>13, KnownNext
<1> QED
  BY <1>11, <1>14

(* A stuttering step.                                                      *)
LEMMA StutteringFollows ==
  ASSUME SearchOK, UNCHANGED vars
  PROVE  LevelsOK' /\ KnownOK'
<1>1. UNCHANGED database /\ UNCHANGED <<config, loaded, late, status, conflict, assumptions>>
  BY DEF vars, failure, inputVars
<1>2. LevelsOK /\ KnownOK
  BY DEF SearchOK
<1>3. Now' = Now /\ LevelsOK'
  BY <1>1, <1>2, DatabaseStays
<1>4. SolutionsOf(Problem') = SolutionsOf(Problem)
  BY <1>1, SameProblem
<1>5. ASSUME NEW s \in SolutionsOf(Problem')
      PROVE  /\ Models(s, Now') /\ status' # "INFEASIBLE"
             /\ status' \in Running /\ conflict' # <<>> => Satisfies(s, conflict')
  <2>1. /\ Models(s, Now) /\ status # "INFEASIBLE"
        /\ status \in Running /\ conflict # <<>> => Satisfies(s, conflict)
    BY <1>2, <1>4, KnownFacts
  <2> QED
    BY <1>1, <1>3, <2>1 DEF Running
<1>6. KnownOK'
  BY <1>5, KnownNext
<1> QED
  BY <1>3, <1>6

(* So every step keeps the solutions.                                      *)
LEMMA NextFollows ==
  ASSUME SearchOK, [Next]_vars
  PROVE  SearchOK'
<1>1. SolverOK'
  BY NextIsOK DEF SearchOK
<1>2. CASE PropagateBinary
  BY <1>1, <1>2, PropagateBinaryFollows DEF SearchOK
<1>3. CASE PropagateClauses
  BY <1>1, <1>3, PropagateClausesFollows DEF SearchOK
<1>4. CASE Load
  BY <1>1, <1>4, LoadFollows DEF SearchOK
<1>5. CASE Ask
  BY <1>1, <1>5, AskFollows DEF SearchOK
<1>6. CASE Start
  BY <1>1, <1>6, StartFollows DEF SearchOK
<1>7. CASE ReapplyAssumptions
  BY <1>1, <1>7, ReapplyAssumptionsFollows DEF SearchOK
<1>8. CASE Leaf
  BY <1>1, <1>8, LeafFollows DEF SearchOK
<1>9. CASE \E restart, process \in BOOLEAN, l \in config.branches : EnqueueNewDecision(restart, process, l)
  BY <1>1, <1>9, EnqueueNewDecisionFollows DEF SearchOK
<1>10. CASE ProcessCurrentConflict
  BY <1>1, <1>10, ProcessCurrentConflictFollows DEF SearchOK
<1>11. CASE \E c \in config.late : AddClauseDuringSearch(c)
  BY <1>1, <1>11, AddClauseDuringSearchFollows DEF SearchOK
<1>12. CASE UNCHANGED vars
  BY <1>1, <1>12, StutteringFollows DEF SearchOK
<1> QED
  BY <1>2, <1>3, <1>4, <1>5, <1>6, <1>7, <1>8, <1>9, <1>10, <1>11, <1>12 DEF Next

(* Every solution of the problem is known to the solver in every state.    *)
THEOREM SearchIsOK == Spec => []SearchOK
<1>1. Init => SearchOK
  BY InitIsOK, InitIsKnown DEF SearchOK
<1>2. SearchOK /\ [Next]_vars => SearchOK'
  BY NextFollows
<1> QED
  BY <1>1, <1>2, PTL DEF Spec

(* A solution that the database models satisfies every clause of it.       *)
LEMMA ModelsSatisfy ==
  ASSUME NEW s \in Assignments, DatabaseOK(Now), Models(s, Now)
  PROVE  \A c \in Database : c \cap s # {}
<1>1. Now.trail = trail /\ Now.clauses = clauses /\ Now.implications = implications /\ Now \in Databases
  BY NowFields DEF DatabaseOK
<1>2. ASSUME NEW c \in Attached(Now) PROVE ToSet(clauses[c]) \cap s # {}
  BY <1>1 DEF Models, Satisfies
<1>3. ASSUME NEW l \in Literals, NEW m \in ToSet(implications[l]) PROVE {-l, m} \cap s # {}
  <2>1. m \in Literals
    BY <1>1, DatabaseTypes, ToSetFacts
  <2>2. l \in s => m \in s
    BY <1>1, <2>1 DEF Models, SatisfiesGraph
  <2> QED
    BY <2>2, AssignmentFacts
<1>4. ASSUME NEW i \in 1..Len(trail), trail[i].level = 0 PROVE {trail[i].literal} \cap s # {}
  BY <1>1, <1>4 DEF Models, SatisfiesFixed
<1> DEFINE A == {ToSet(clauses[c]) : c \in Attached(Now)}
           B == UNION {{{-l, m} : m \in ToSet(implications[l])} : l \in Literals}
           C == {{trail[i].literal} : i \in {i \in 1..Len(trail) : trail[i].level = 0}}
<1>5. Database = A \cup B \cup C
  BY DEF Database
<1>6. ASSUME NEW x \in B PROVE x \cap s # {}
  <2>1. PICK l \in Literals : x \in {{-l, m} : m \in ToSet(implications[l])}
    OBVIOUS
  <2>2. PICK m \in ToSet(implications[l]) : x = {-l, m}
    BY <2>1
  <2> QED
    BY <1>3, <2>2
<1>7. ASSUME NEW x \in C PROVE x \cap s # {}
  <2>1. PICK i \in 1..Len(trail) : trail[i].level = 0 /\ x = {trail[i].literal}
    OBVIOUS
  <2> QED
    BY <1>4, <2>1
<1>8. ASSUME NEW x \in A PROVE x \cap s # {}
  BY <1>2
<1> HIDE DEF A, B, C
<1> QED
  BY <1>5, <1>6, <1>7, <1>8

(* Of every state: what is said of the database and of "INFEASIBLE".       *)
SolutionsAreKept ==
  /\ SolutionsOf(Problem) \subseteq SolutionsOf(Database)
  /\ status = "INFEASIBLE" => SolutionsOf(Problem) = {}

(* Nothing is lost: every solution of the clauses added so far satisfies   *)
(* the whole database, whatever was learned, minimised, subsumed, forgotten*)
(* or simplified, and "INFEASIBLE" is only said when there is none.  This  *)
(* is half of DatabaseIsEquivalent, and the answer that SatOracle calls    *)
(* AnswerInfeasible.                                                       *)
THEOREM LearningIsSound == Spec => []SolutionsAreKept
<1>1. ASSUME SearchOK PROVE SolutionsAreKept
  <2>1. DatabaseOK(Now) /\ KnownOK
    BY <1>1 DEF SearchOK, SolverOK
  <2>2. ASSUME NEW s \in SolutionsOf(Problem) PROVE s \in SolutionsOf(Database) /\ status # "INFEASIBLE"
    <3>1. s \in Assignments /\ Models(s, Now) /\ status # "INFEASIBLE"
      BY <2>1, <2>2, KnownFacts
    <3>2. \A c \in Database : c \cap s # {}
      BY <2>1, <3>1, ModelsSatisfy
    <3> QED
      BY <3>1, <3>2 DEF SolutionsOf
  <2> QED
    BY <2>2 DEF SolutionsAreKept
<1>2. SearchOK => SolutionsAreKept
  BY <1>1
<1> QED
  BY <1>2, SearchIsOK, PTL

-----------------------------------------------------------------------------
(* What is settled stays so, by each step of the database, continued.      *)
(* It is attached.                                                         *)
LEMMA AttachedIsSettled ==
  ASSUME NEW d, DatabaseOK(d), NEW literals \in Seq(Literals), Len(literals) >= 3, Distinct(literals),
         \E i \in 1..Len(literals) : ~IsFalse(d.trail, literals[i]), Fits(d.trail, ToSet(literals)),
         NEW n \in Nat, n <= Len(d.trail), NEW k \in Nat, k <= Len(d.trail), Settled(d, n, k),
         NEW e, e = Attach(d, literals)
  PROVE  Settled(e, n, k)
<1> DEFINE t == d.trail
           u == e.trail
           new == Len(d.clauses) + 1
<1>1. /\ DatabaseOK(e) /\ Begins(t, u) /\ CurrentLevel(u) = CurrentLevel(t)
      /\ new \in Nat \ {0} /\ new \notin Attached(d)
      /\ Attached(e) = Attached(d) \cup {new} /\ e.implications = d.implications
      /\ \A c \in 1..Len(d.clauses) : e.clauses[c] = d.clauses[c]
      /\ AttachedInOrder(t, literals, e.clauses[new]) /\ GrownByOne(t, u, e.clauses[new])
  BY AttachIsOK
<1> HIDE DEF new
<1>2. /\ d \in Databases /\ e \in Databases /\ IsTrail(t) /\ IsTrail(u) /\ Len(t) \in Nat /\ Len(u) \in Nat
      /\ ClausesOK(e)
  BY <1>1, TrailEntries DEF DatabaseOK
<1>3. GraphDone(e, n, CurrentLevel(u))
  BY <1>1, GrownGraph DEF Settled, SettledTo
<1>4. IsSymmetric(e)
  BY <1>1 DEF Settled, SettledTo, IsSymmetric
<1>5. PendingFrom(u, n) /\ PendingFrom(u, k)
  BY <1>1, <1>2, PendingGrows DEF Settled, SettledTo
<1>6. ClausesDone(e, k, CurrentLevel(u))
  <2> SUFFICES ASSUME NEW i \in 1..Len(u), i <= k, NEW c \in Attached(e), -u[i].literal \in Watches(e, c)
               PROVE  TrueBy(u, ToSet(e.clauses[c]), u[i].level)
    BY DEF ClausesDone
  <2>1. i \in 1..Len(t) /\ u[i] = t[i] /\ t[i].level <= CurrentLevel(t)
    BY <1>1, <1>2, CurrentLevelFacts DEF Begins
  <2>2. CASE c \in Attached(d)
    <3>1. e.clauses[c] = d.clauses[c] /\ Watches(e, c) = Watches(d, c)
      BY <1>1, <2>2 DEF Attached, Watches
    <3>2. TrueBy(t, ToSet(d.clauses[c]), t[i].level)
      BY <2>1, <2>2, <3>1 DEF Settled, SettledTo, ClausesDone
    <3> QED
      BY <1>1, <1>2, <2>1, <3>1, <3>2, TrueByGrows
  <2>3. CASE c = new
    <3> DEFINE lits == e.clauses[new]
    <3>1. lits = e.clauses[c] /\ Len(lits) >= 3 /\ -t[i].literal \in {lits[1], lits[2]}
      BY <1>2, <2>1, <2>3, AttachedClause DEF Watches
    <3>2. AttachedInOrder(t, literals, lits) /\ GrownByOne(t, u, lits)
      BY <1>1
    <3> HIDE DEF lits
    <3> QED
      BY <1>1, <1>2, <2>1, <3>1, <3>2, WatchesAreSettled
  <2> QED
    BY <1>1, <2>2, <2>3
<1> QED
  BY <1>3, <1>4, <1>5, <1>6 DEF Settled, SettledTo

(* A literal is fixed, at level zero.                                      *)
LEMMA UnitIsSettled ==
  ASSUME NEW d, DatabaseOK(d), CurrentLevel(d.trail) = 0, NEW l \in Literals, ~IsAssigned(d.trail, l),
         NEW n \in Nat, n <= Len(d.trail), NEW k \in Nat, k <= Len(d.trail), Settled(d, n, k),
         NEW e, e = WithTrailOf(d, Enqueued(d.trail, l, 0, "UNIT", 0))
  PROVE  Settled(e, n, k) /\ DatabaseOK(e)
<1> DEFINE level == 0
           type == "UNIT"
           u == Enqueued(d.trail, l, level, type, 0)
<1>1. /\ u = Enqueued(d.trail, l, level, type, 0) /\ e = WithTrailOf(d, u)
      /\ level \in Nat /\ level = 0 /\ type = "UNIT"
  OBVIOUS
<1>2. Len(d.trail) \in Nat /\ level >= CurrentLevel(d.trail) /\ level <= Len(d.trail) + 1
  BY TrailEntries DEF DatabaseOK
<1> HIDE DEF u, level, type
<1>3. /\ DatabaseOK(e) /\ Begins(d.trail, u) /\ CurrentLevel(u) = level /\ e.trail = u
      /\ e.clauses = d.clauses /\ e.implications = d.implications
  BY <1>1, <1>2, FreeEntry
<1>4. Begins(d.trail, e.trail) /\ CurrentLevel(e.trail) = CurrentLevel(d.trail)
  BY <1>1, <1>3
<1> QED
  BY <1>3, <1>4, GrownIsSettled

(* At level zero every clause fits.                                        *)
LEMMA AnyFits ==
  ASSUME NEW t, CurrentLevel(t) = 0, NEW set
  PROVE  Fits(t, set)
BY DEF Fits

(* AddProblemClause()                                                      *)
LEMMA ProblemClauseIsSettled ==
  ASSUME NEW d, DatabaseOK(d), CurrentLevel(d.trail) = 0, NEW c, c \subseteq Literals,
         \E l \in c : ~IsFalse(d.trail, l),
         NEW n \in Nat, n <= Len(d.trail), NEW k \in Nat, k <= Len(d.trail), Settled(d, n, k),
         NEW e, e = AddProblemClause(d, c)
  PROVE  Settled(e, n, k)
<1> DEFINE set == {l \in c : ~IsFalse(d.trail, l)}
           literals == Sorted(set)
<1>1. d \in Databases /\ IsTrail(d.trail) /\ Len(d.trail) \in Nat
  BY TrailEntries DEF DatabaseOK
<1>2. CASE \E l \in c : IsTrue(d.trail, l) \/ -l \in c
  <2>1. e = d
    BY <1>2 DEF AddProblemClause
  <2> QED
    BY <2>1
<1>3. CASE ~\E l \in c : IsTrue(d.trail, l) \/ -l \in c
  <2>0. set # {} /\ \A l \in set : l \in c /\ ~IsFalse(d.trail, l)
    OBVIOUS
  <2>4. e = CASE Len(literals) = 1 -> [d EXCEPT !.trail = Enqueued(@, literals[1], 0, "UNIT", 0)]
              [] Len(literals) = 2 -> AddBinaryClause(d, literals[1], literals[2])
              [] OTHER -> Attach(d, literals)
    BY <1>3 DEF AddProblemClause
  <2> HIDE DEF set
  <2>1. /\ literals \in Seq(Literals) /\ Len(literals) \in Nat /\ ToSet(literals) = set /\ Distinct(literals)
    <3>1. set \subseteq Literals
      BY <2>0
    <3> QED
      BY <3>1, SortedFacts
  <2>2. literals # <<>>
    BY <2>0, <2>1, ToSetFacts
  <2>3. Len(literals) >= 1
    BY <2>1, <2>2
  <2> HIDE DEF literals
  <2>5. \A l \in ToSet(literals) : l \in Literals /\ ~IsAssigned(d.trail, l)
    BY <1>3, <2>0, <2>1 DEF IsAssigned
  <2>6. \A i \in 1..Len(literals) : literals[i] \in ToSet(literals)
    BY <2>1, ToSetFacts
  <2>7. CASE Len(literals) = 1
    <3>1. literals[1] \in Literals /\ ~IsAssigned(d.trail, literals[1])
      BY <2>5, <2>6, <2>7
    <3>2. e = WithTrailOf(d, Enqueued(d.trail, literals[1], 0, "UNIT", 0))
      BY <2>4, <2>7 DEF WithTrailOf
    <3> QED
      BY <3>1, <3>2, UnitIsSettled
  <2>8. CASE Len(literals) = 2
    <3> DEFINE a == literals[1]
               b == literals[2]
    <3>1. e = AddBinaryClause(d, a, b)
      BY <2>4, <2>8
    <3>2. a \in Literals /\ b \in Literals /\ a # b /\ ~IsFalse(d.trail, a) /\ ~IsFalse(d.trail, b)
      BY <2>1, <2>5, <2>6, <2>8 DEF Distinct, IsAssigned
    <3> HIDE DEF a, b
    <3> QED
      BY <3>1, <3>2, AnyFits, BinaryIsSettled
  <2>9. CASE Len(literals) >= 3
    <3>0. Len(literals) # 1 /\ Len(literals) # 2
      <4>1. \A i \in Nat : i >= 3 => i # 1 /\ i # 2
        OBVIOUS
      <4> QED
        BY <2>1, <2>9, <4>1, Zenon
    <3>1. e = Attach(d, literals)
      BY <2>4, <3>0
    <3>2. \E i \in 1..Len(literals) : ~IsFalse(d.trail, literals[i])
      <4>1. 1 \in 1..Len(literals)
        BY <2>9
      <4> QED
        BY <2>5, <2>6, <4>1 DEF IsAssigned
    <3> QED
      BY <2>1, <2>9, <3>1, <3>2, AnyFits, AttachedIsSettled
  <2> QED
    <3>0. \A i \in Nat : i >= 1 => i = 1 \/ i = 2 \/ i >= 3
      OBVIOUS
    <3>1. Len(literals) = 1 \/ Len(literals) = 2 \/ Len(literals) >= 3
      BY <2>1, <2>3, <3>0, Zenon
    <3> QED
      BY <3>1, <2>7, <2>8, <2>9
<1> QED
  BY <1>2, <1>3

(* ProcessNewlyFixedVariables(), when all of the trail was propagated: the *)
(* fixed literals imply nothing any more and are watched no more, and the  *)
(* graph is still symmetric as what they implied is fixed too.             *)
LEMMA ProcessedIsSettled ==
  ASSUME NEW d, DatabaseOK(d), CurrentLevel(d.trail) = 0, NEW n, n = Len(d.trail), Settled(d, n, n),
         NEW e, e = ProcessNewlyFixedVariables(d)
  PROVE  Settled(e, n, n)
<1> DEFINE t == d.trail
           fixed == {d.trail[i].literal : i \in 1..Len(d.trail)}
<1>1. PICK q : q = AllWithoutFixed(d) /\ e = RemoveFixedVariables(q, fixed)
  BY ProcessedSteps
<1>2. /\ DatabaseOK(q) /\ q.trail = t /\ LooseImplications(d, q)
      /\ \A c \in 1..Len(q.clauses) : LooseClause(q, c)
      /\ IsSymmetric(q)
  <2>1. /\ DatabaseOK(q) /\ q.trail = t /\ LooseImplications(d, q) /\ Len(q.clauses) = Len(d.clauses)
        /\ IsSymmetric(d) => IsSymmetric(q)
        /\ \A c \in 1..Len(d.clauses) : LooseClause(q, c)
    BY <1>1, AllWithoutFixedIsOK
  <2> QED
    BY <2>1 DEF Settled, SettledTo
<1>3. d \in Databases /\ q \in Databases /\ IsTrail(t) /\ Len(t) \in Nat
  BY <1>2, TrailEntries DEF DatabaseOK
<1>4. /\ \A l \in Literals : l \in fixed <=> IsTrue(t, l)
      /\ \A i \in 1..Len(t) : t[i].literal \in Literals /\ t[i].literal \in fixed /\ -(-t[i].literal) = t[i].literal
  <2>1. \A i \in 1..Len(t) : t[i].literal \in Literals /\ t[i].literal \in fixed
    BY <1>3, TrailEntries
  <2> QED
    BY <2>1, LiteralFacts DEF IsTrue
<1> HIDE DEF fixed
<1>5. /\ e \in Databases /\ e.trail = t /\ e.clauses = q.clauses
      /\ \A l \in Literals :
           /\ l \in fixed \/ -l \in fixed => e.implications[l] = <<>>
           /\ \A m : m \in ToSet(e.implications[l]) => m \in ToSet(q.implications[l])
           /\ \A m \in Literals :
                m \in ToSet(q.implications[l]) /\ l \notin fixed /\ -l \notin fixed /\ m \notin fixed
                  => m \in ToSet(e.implications[l])
           /\ (\E f \in fixed : -l \in ToSet(q.implications[-f])) =>
                \A m \in ToSet(e.implications[l]) : m \notin fixed
  BY <1>1, <1>2, <1>3, RemoveFixedFields
<1>6. ToSet(<<>>) = {}
  BY DEF ToSet
<1>7. GraphDone(e, n, CurrentLevel(t))
  BY <1>4, <1>5, <1>6 DEF GraphDone
<1>8. ClausesDone(e, n, CurrentLevel(t))
  <2> SUFFICES ASSUME NEW i \in 1..Len(t), NEW c \in Attached(e), -t[i].literal \in Watches(e, c)
               PROVE  FALSE
    BY <1>5 DEF ClausesDone
  <2>1. c \in 1..Len(q.clauses) /\ c \in Attached(q) /\ -t[i].literal \in {q.clauses[c][1], q.clauses[c][2]}
    BY <1>5 DEF Attached, IsRemoved, Watches
  <2>2. ~IsAssigned(t, -t[i].literal)
    BY <1>2, <2>1 DEF LooseClause
  <2>3. IsAssigned(t, -t[i].literal)
    BY <1>4 DEF IsAssigned, IsFalse, IsTrue
  <2> QED
    BY <2>2, <2>3
<1>9. IsSymmetric(e)
  <2> SUFFICES ASSUME NEW l \in Literals, NEW m \in Literals, m \in ToSet(e.implications[l])
               PROVE  -l \in ToSet(e.implications[-m])
    BY DEF IsSymmetric
  <2>1. l \notin fixed /\ -l \notin fixed /\ m \in ToSet(q.implications[l])
    BY <1>5, <1>6
  <2>2. -l \in ToSet(q.implications[-m]) /\ -l \in Literals /\ -m \in Literals /\ -(-m) = m /\ -(-l) = l
    BY <1>2, <2>1, LiteralFacts DEF IsSymmetric
  <2>3. m \notin fixed
    BY <1>5, <2>2
  <2>4. -m \notin fixed
    <3> SUFFICES ASSUME -m \in fixed PROVE FALSE
      OBVIOUS
    <3>1. IsTrue(t, -m)
      BY <1>4, <2>2
    <3>2. -l \in ToSet(d.implications[-m])
      BY <1>2, <2>2, <3>1 DEF LooseImplications, IsAssigned
    <3>3. PICK i \in 1..Len(t) : t[i].literal = -m
      BY <3>1 DEF IsTrue
    <3>4. t[i].level <= CurrentLevel(t) /\ i <= n
      BY <1>3, CurrentLevelFacts
    <3>5. TrueBy(t, {-l}, t[i].level)
      BY <3>2, <3>3, <3>4 DEF Settled, SettledTo, GraphDone
    <3>6. IsTrue(t, -l)
      BY <3>5 DEF TrueBy, IsTrue
    <3> QED
      BY <1>4, <2>1, <2>2, <3>6
  <2> QED
    BY <1>5, <2>1, <2>2, <2>3, <2>4
<1>10. PendingFrom(e.trail, n)
  BY <1>3, <1>5 DEF PendingFrom
<1> QED
  BY <1>5, <1>7, <1>8, <1>9, <1>10 DEF Settled, SettledTo

-----------------------------------------------------------------------------
(* What is learned fits after the backjump: its first literal is not       *)
(* assigned and another one is false at the current level only.            *)
LEMMA LearnedFits ==
  ASSUME NEW d, DatabaseOK(d), NEW highest \in Nat \ {0}, NEW r, LearnedOK(d, highest, r),
         Len(r.conflict) # 1,
         NEW level, level = ComputeBacktrackLevel(d.trail, r.conflict),
         NEW kept, kept = Backtracked(d.trail, level)
  PROVE  CurrentLevel(kept) > 0 /\ Fits(kept, ToSet(r.conflict))
<1> DEFINE t == d.trail
           s == r.conflict
           tail == Tail(s)
           levels == {0} \cup {LevelOf(t, l) : l \in ToSet(tail)}
           e == WithTrailOf(d, kept)
<1>1. IsTrail(t) /\ Len(t) \in Nat
  BY TrailEntries DEF DatabaseOK
<1>2. Asserting(kept, s)
  <2>1. e = WithTrailOf(d, kept)
    OBVIOUS
  <2> HIDE DEF e
  <2> QED
    BY <2>1, BackjumpIsOK
<1>3. /\ s \in Seq(Literals) /\ s # <<>> /\ Distinct(s) /\ ~IsAssigned(kept, s[1])
      /\ \A l \in ToSet(tail) : IsLower(t, highest, l)
  BY <1>2 DEF Asserting, LearnedOK
<1>4. tail = Tail(s) /\ level = Max(levels)
  BY DEF ComputeBacktrackLevel
<1> HIDE DEF tail, s, e
<1>5. /\ tail \in Seq(Literals) /\ s[1] \in Literals /\ Len(s) = Len(tail) + 1 /\ Len(tail) \in Nat
      /\ s[1] \notin ToSet(tail) /\ \A x : x \in ToSet(s) <=> x = s[1] \/ x \in ToSet(tail)
  <2>1. tail \in Seq(Literals) /\ s[1] \in Literals /\ Len(s) = Len(tail) + 1
    BY <1>3, <1>4, TailFacts
  <2>2. \A x : x \in ToSet(s) <=> x = s[1] \/ x \in ToSet(tail)
    BY <1>3, <1>4, TailFacts
  <2>3. s[1] \notin ToSet(tail)
    BY <1>3, <1>4, TailFacts
  <2> QED
    BY <2>1, <2>2, <2>3
<1>6. ToSet(tail) # {}
  <2>1. Len(tail) # 0
    BY <1>5 DEF s
  <2> QED
    BY <1>5, <2>1, ToSetFacts
<1>7. level \in Nat /\ level > 0 /\ \E l \in ToSet(tail) : LevelOf(t, l) = level
  <2>1. levels \subseteq 0..(highest - 1) /\ highest - 1 \in Nat /\ levels # {}
    BY <1>3 DEF IsLower
  <2>2. IsFiniteSet(levels) /\ levels \in SUBSET Int
    <3>1. IsFiniteSet(0..(highest - 1))
      BY <2>1, FS_Interval
    <3> QED
      BY <2>1, <3>1, FS_Subset
  <2>3. level \in levels /\ \A x \in levels : level >= x
    <3> HIDE DEF levels
    <3> QED
      BY <1>4, <2>1, <2>2, MaxOfSet
  <2>4. PICK l \in ToSet(tail) : TRUE
    BY <1>6
  <2>5. LevelOf(t, l) \in levels /\ LevelOf(t, l) \in 1..(highest - 1)
    BY <1>3, <2>4 DEF IsLower
  <2> QED
    BY <2>1, <2>3, <2>5
<1> HIDE DEF levels
<1>8. PICK l \in ToSet(tail) : LevelOf(t, l) = level
  BY <1>7
<1>9. l \in Literals /\ IsFalse(t, l) /\ IsAssigned(t, l)
  BY <1>3, <1>5, <1>8, ToSetFacts DEF IsLower, IsAssigned
<1>10. PICK i \in 1..Len(t) : t[i].literal = -l
  BY <1>9 DEF IsFalse, IsTrue
<1>11. t[i].level = level
  BY <1>1, <1>8, <1>9, <1>10, TrailFacts
<1>12. /\ IsTrail(kept) /\ CurrentLevel(kept) <= level
       /\ \A j \in 1..Len(kept) : kept[j] = t[j] /\ j \in 1..Len(t)
       /\ \A j \in 1..Len(t) : t[j].level <= level <=> j <= Len(kept)
  <2> DEFINE u == t
  <2>1. IsTrail(u) /\ level \in Nat /\ kept = Backtracked(u, level)
    BY <1>1, <1>7
  <2> HIDE DEF u
  <2>2. /\ IsTrail(kept) /\ CurrentLevel(kept) <= level
        /\ \A j \in 1..Len(kept) : kept[j] = u[j] /\ j \in 1..Len(u)
        /\ \A j \in 1..Len(u) : u[j].level <= level <=> j <= Len(kept)
    BY <2>1, BacktrackedFacts
  <2> QED
    BY <2>2 DEF u
<1>13. i \in 1..Len(kept) /\ kept[i].level = level /\ kept[i].literal = -l
  <2>1. Len(kept) \in Nat
    BY <1>12, TrailEntries
  <2>2. i <= Len(kept)
    BY <1>7, <1>11, <1>12
  <2>3. i \in 1..Len(kept)
    BY <1>1, <2>1, <2>2
  <2> QED
    BY <1>10, <1>11, <1>12, <2>3
<1>14. CurrentLevel(kept) = level
  BY <1>7, <1>12, <1>13, CurrentLevelFacts
<1>15. Fits(kept, ToSet(s))
  <2> SUFFICES ASSUME NEW low \in Nat, low < level
               PROVE  \E a, b \in ToSet(s) : a # b /\ ~TrueBy(kept, {-a}, low) /\ ~TrueBy(kept, {-b}, low)
    BY <1>14 DEF Fits
  <2>1. ~TrueBy(kept, {-s[1]}, low)
    BY <1>3 DEF TrueBy, IsAssigned, IsFalse, IsTrue
  <2>2. ~TrueBy(kept, {-l}, low)
    <3> SUFFICES ASSUME NEW j \in 1..Len(kept), kept[j].literal = -l, kept[j].level <= low PROVE FALSE
      BY DEF TrueBy
    <3>1. LevelOf(kept, l) = kept[j].level /\ LevelOf(kept, l) = kept[i].level
      BY <1>9, <1>12, <1>13, TrailFacts
    <3> QED
      BY <1>7, <1>13, <3>1
  <2>3. s[1] \in ToSet(s) /\ l \in ToSet(s) /\ s[1] # l
    BY <1>5, <1>8
  <2> QED
    BY <2>1, <2>2, <2>3
<1> QED
  BY <1>7, <1>14, <1>15 DEF s

(* It is learned.                                                          *)
LEMMA LearnClauseIsSettled ==
  ASSUME NEW d, DatabaseOK(d), NEW literals, Asserting(d.trail, literals),
         Len(literals) # 1 => CurrentLevel(d.trail) > 0 /\ Fits(d.trail, ToSet(literals)),
         NEW n \in Nat, n <= Len(d.trail), NEW k \in Nat, k <= Len(d.trail), Settled(d, n, k),
         NEW is_redundant, LearnClause(d, literals, is_redundant)
  PROVE  Settled(Now', n, k)
<1> DEFINE t == d.trail
<1>1. d \in Databases /\ IsTrail(t) /\ Len(t) \in Nat /\ CurrentLevel(t) \in Nat
  BY TrailEntries, CurrentLevelFacts DEF DatabaseOK
<1>2. /\ literals \in Seq(Literals) /\ literals # <<>> /\ Distinct(literals) /\ ~IsAssigned(t, literals[1])
      /\ Len(literals) = 1 => CurrentLevel(t) = 0
  BY DEF Asserting
<1>3. Len(literals) \in Nat /\ Len(literals) > 0 /\ 1 \in 1..Len(literals)
  BY <1>2
<1>4. \A i \in 1..Len(literals) : literals[i] \in Literals
  BY <1>2
<1>5. literals[1] \in Literals /\ ~IsFalse(t, literals[1])
  BY <1>2, <1>3, <1>4 DEF IsAssigned
<1>6. ASSUME Len(literals) = 1,
             DatabaseBecomes([d EXCEPT !.trail = Enqueued(@, literals[1], 0, "UNIT", 0)])
      PROVE  Settled(Now', n, k)
  <2> DEFINE m == WithTrailOf(d, Enqueued(t, literals[1], 0, "UNIT", 0))
  <2>1. DatabaseBecomes(m) /\ m = WithTrailOf(d, Enqueued(t, literals[1], 0, "UNIT", 0))
    BY <1>6 DEF WithTrailOf
  <2> HIDE DEF m
  <2>2. Settled(m, n, k) /\ DatabaseOK(m)
    BY <1>2, <1>5, <1>6, <2>1, UnitIsSettled
  <2> QED
    BY <2>1, <2>2, NowBecomes DEF DatabaseOK
<1>7. ASSUME Len(literals) = 2, NEW m, m = AddBinaryClause(d, literals[1], literals[2]), DatabaseBecomes(m)
      PROVE  Settled(Now', n, k)
  <2>1. literals[2] \in Literals /\ literals[1] # literals[2]
    BY <1>2, <1>4, <1>7 DEF Distinct
  <2>2. {literals[1], literals[2]} = ToSet(literals)
    <3>1. \A x : x \in ToSet(literals) <=> \E i \in 1..Len(literals) : literals[i] = x
      BY <1>2, ToSetFacts
    <3>2. \A i : i \in 1..Len(literals) <=> i = 1 \/ i = 2
      BY <1>7
    <3> QED
      BY <3>1, <3>2
  <2>3. Settled(m, n, k)
    <3> DEFINE a == literals[1]
               b == literals[2]
    <3>1. a \in Literals /\ b \in Literals /\ a # b /\ m = AddBinaryClause(d, a, b) /\ ~IsFalse(t, a)
      BY <1>5, <1>7, <2>1
    <3>2. CurrentLevel(t) # 0 /\ Fits(t, {a, b})
      <4>1. Len(literals) # 1
        BY <1>7
      <4>2. CurrentLevel(t) > 0 /\ Fits(t, ToSet(literals))
        BY <4>1
      <4>3. CurrentLevel(t) # 0
        BY <1>1, <4>2
      <4> QED
        BY <2>2, <4>2, <4>3, Zenon
    <3> HIDE DEF a, b
    <3> QED
      BY <3>1, <3>2, BinaryIsSettled
  <2>4. m \in Databases
    BY <1>5, <1>7, <2>1, AddBinaryGrows
  <2> QED
    BY <1>7, <2>3, <2>4, NowBecomes
<1>8. ASSUME Len(literals) > 2, NEW forgotten, forgotten \subseteq MayBeForgotten(d),
             NEW m, m = Attach(Detach(d, forgotten), literals), DatabaseBecomes(m)
      PROVE  Settled(Now', n, k)
  <2> DEFINE g == Detach(d, forgotten)
  <2>1. NotReasons(t, forgotten)
    BY <1>8, ForgottenAreNotReasons
  <2>2. g = Detach(d, forgotten) /\ m = Attach(g, literals)
    BY <1>8
  <2> HIDE DEF g
  <2>3. DatabaseOK(g) /\ g.trail = t /\ Settled(g, n, k)
    BY <1>1, <2>1, <2>2, DetachIsOK, DetachFields, DetachedIsSettled DEF NotReasons
  <2>4. Len(literals) >= 3 /\ \E i \in 1..Len(literals) : ~IsFalse(g.trail, literals[i])
    BY <1>3, <1>5, <1>8, <2>3
  <2>5. DatabaseOK(m)
    BY <1>2, <2>2, <2>3, <2>4, AttachIsOK
  <2>6. Fits(g.trail, ToSet(literals))
    <3>0. \A i \in Nat : i > 2 => i # 1
      OBVIOUS
    <3>1. Len(literals) # 1
      BY <1>3, <1>8, <3>0, Zenon
    <3>2. Fits(t, ToSet(literals))
      BY <3>1
    <3> QED
      BY <2>3, <3>2
  <2>7. Settled(m, n, k)
    BY <1>2, <2>2, <2>3, <2>4, <2>6, AttachedIsSettled
  <2> QED
    BY <1>8, <2>5, <2>7, NowBecomes DEF DatabaseOK
<1>9. \/ /\ Len(literals) = 1
         /\ DatabaseBecomes([d EXCEPT !.trail = Enqueued(@, literals[1], 0, "UNIT", 0)])
      \/ /\ Len(literals) = 2
         /\ \E m \in {AddBinaryClause(d, literals[1], literals[2])} : DatabaseBecomes(m)
      \/ /\ Len(literals) > 2
         /\ \E forgotten \in SUBSET MayBeForgotten(d) :
              \E m \in {Attach(Detach(d, forgotten), literals)} : DatabaseBecomes(m)
  BY DEF LearnClause
<1> QED
  BY <1>6, <1>7, <1>8, <1>9

-----------------------------------------------------------------------------
(* The propagators: what was pending is at the current level, so that what *)
(* it implies is true by then; after a conflict the levels below are       *)
(* settled.                                                                *)
LevelAfter(t, conf) == IF conf # <<>> THEN CurrentLevel(t) - 1 ELSE CurrentLevel(t)

(* Propagate() of the graph.                                               *)
LEMMA GraphIsSettled ==
  ASSUME NEW d, DatabaseOK(d), NEW first \in Nat, first <= Len(d.trail), NEW k \in Nat, k <= Len(d.trail),
         Settled(d, first, k), NEW r, r = Propagations(d, first)[Cardinality(Variables)],
         NEW e, e = WithTrailOf(d, r.trail)
  PROVE  SettledTo(e, r.index, k, LevelAfter(r.trail, r.conflict))
<1> DEFINE t == d.trail
           u == r.trail
           top == LevelAfter(u, r.conflict)
<1>1. /\ d \in Databases /\ IsTrail(t) /\ IsTrail(u) /\ DatabaseOK(e) /\ GrownSince(d, u, "BINARY")
      /\ r.index \in first..Len(u)
      /\ r.conflict = <<>> =>
           \A j \in (first + 1)..r.index : \A m \in ToSet(d.implications[u[j].literal]) : IsTrue(u, m)
  BY PropagationsAreOK DEF PropagationOK, ImpliedOK, DatabaseOK
<1>2. /\ e.trail = u /\ e.clauses = d.clauses /\ e.implications = d.implications
      /\ Attached(e) = Attached(d) /\ \A c : Watches(e, c) = Watches(d, c)
  BY <1>1, WithTrail DEF WithTrailOf, IsTrail
<1>3. /\ Begins(t, u) /\ CurrentLevel(u) = CurrentLevel(t) /\ Len(t) \in Nat /\ Len(u) \in Nat
      /\ CurrentLevel(t) \in Nat /\ r.index \in Nat
  BY <1>1, TrailEntries, CurrentLevelFacts DEF GrownSince
<1>4. Begins(d.trail, e.trail) /\ CurrentLevel(e.trail) = CurrentLevel(d.trail)
  BY <1>2, <1>3
<1>5. Settled(e, first, k)
  BY <1>1, <1>2, <1>4, GrownIsSettled
<1>6. top \in Int /\ top <= CurrentLevel(u)
  BY <1>3 DEF LevelAfter
<1>7. SettledTo(e, first, k, top)
  BY <1>1, <1>5, SettledAnywhere
<1>8. PendingFrom(u, r.index)
  <2>1. PendingFrom(u, first)
    BY <1>2, <1>7 DEF SettledTo
  <2>2. \A i \in 1..Len(u) : i > r.index => i > first
    BY <1>1, <1>3
  <2> QED
    BY <2>1, <2>2 DEF PendingFrom
<1>9. GraphDone(e, r.index, top)
  <2> SUFFICES ASSUME NEW i \in 1..Len(u), i <= r.index, u[i].level <= top,
                      NEW m \in ToSet(d.implications[u[i].literal])
               PROVE  TrueBy(u, {m}, u[i].level)
    BY <1>2 DEF GraphDone
  <2>1. CASE i <= first
    BY <1>2, <1>7, <2>1 DEF SettledTo, GraphDone
  <2>2. CASE i > first
    <3>1. u[i].level = CurrentLevel(u)
      BY <1>2, <1>7, <2>2 DEF SettledTo, PendingFrom
    <3>2. r.conflict = <<>>
      BY <1>3, <3>1 DEF LevelAfter
    <3>3. i \in (first + 1)..r.index
      BY <1>3, <2>2
    <3>4. IsTrue(u, m)
      BY <1>1, <3>2, <3>3
    <3>5. PICK j \in 1..Len(u) : u[j].literal = m
      BY <3>4 DEF IsTrue
    <3>6. u[j].level <= CurrentLevel(u)
      BY <1>1, CurrentLevelFacts
    <3> QED
      BY <3>1, <3>5, <3>6 DEF TrueBy
  <2> QED
    BY <1>3, <2>1, <2>2
<1> QED
  BY <1>2, <1>7, <1>8, <1>9 DEF SettledTo

(* PropagateOnFalse()                                                      *)
LEMMA ClausesAreSettled ==
  ASSUME NEW d, DatabaseOK(d), NEW k \in Nat, k < Len(d.trail), NEW n \in Nat, n <= Len(d.trail),
         Settled(d, n, k), NEW F, F = -d.trail[k + 1].literal,
         NEW r, r = PropagateOnFalse(d, F), NEW e, e = AsDatabase(d, r)
  PROVE  SettledTo(e, n, k + 1, LevelAfter(r.trail, r.conflict))
<1> DEFINE t == d.trail
           u == r.trail
           top == LevelAfter(u, r.conflict)
<1>1. d \in Databases /\ IsTrail(t) /\ Len(t) \in Nat /\ k + 1 \in 1..Len(t) /\ t[k + 1].literal \in Literals
  BY TrailEntries DEF DatabaseOK
<1>2. F \in Literals /\ IsFalse(t, F)
  BY <1>1, LiteralFacts DEF IsFalse, IsTrue
<1>3. /\ DatabaseOK(e) /\ e.trail = u /\ e.implications = d.implications
      /\ GrownSince(d, u, "CLAUSE") /\ SameClausesSince(d, e)
      /\ r.conflict = <<>> =>
           \A c \in Attached(e) : F \in Watches(e, c) => \E l \in ToSet(e.clauses[c]) : IsTrue(e.trail, l)
  BY <1>2, PropagateOnFalseIsOK
<1>4. /\ Begins(t, u) /\ CurrentLevel(u) = CurrentLevel(t) /\ IsTrail(u) /\ Len(u) \in Nat
      /\ CurrentLevel(t) \in Nat
  BY <1>1, <1>3, TrailEntries, CurrentLevelFacts DEF GrownSince, DatabaseOK
<1>5. top \in Int /\ top <= CurrentLevel(u)
  BY <1>4 DEF LevelAfter
<1>6. SettledTo(d, n, k, top)
  BY SettledAnywhere
<1>7. GraphDone(e, n, top)
  BY <1>3, <1>4, <1>6, GrownGraph DEF SettledTo
<1>8. ClausesDone(e, k, top)
  <2>1. ClausesDone(d, k, top)
    BY <1>6 DEF SettledTo
  <2> QED
    BY <1>1, <1>3, <1>4, <2>1, GrownClauses
<1>9. PendingFrom(u, n) /\ PendingFrom(u, k)
  BY <1>1, <1>4, <1>6, PendingGrows DEF SettledTo
<1>10. PendingFrom(u, k + 1)
  BY <1>4, <1>9 DEF PendingFrom
<1>11. ClausesDone(e, k + 1, top)
  <2> SUFFICES ASSUME NEW i \in 1..Len(u), i <= k + 1, u[i].level <= top,
                      NEW c \in Attached(e), -u[i].literal \in Watches(e, c)
               PROVE  TrueBy(u, ToSet(e.clauses[c]), u[i].level)
    BY <1>3 DEF ClausesDone
  <2>1. CASE i <= k
    BY <1>3, <1>8, <2>1 DEF ClausesDone
  <2>2. CASE i = k + 1
    <3>0. u[i].level = CurrentLevel(u)
      <4>1. i > k
        BY <2>2
      <4> QED
        BY <1>9, <4>1 DEF PendingFrom
    <3>1. u[i].level = CurrentLevel(u) /\ u[i] = t[k + 1]
      BY <1>1, <1>4, <2>2, <3>0 DEF Begins
    <3>2. r.conflict = <<>>
      BY <1>4, <3>1 DEF LevelAfter
    <3>3. PICK l \in ToSet(e.clauses[c]) : IsTrue(u, l)
      BY <1>3, <3>1, <3>2
    <3>4. PICK j \in 1..Len(u) : u[j].literal = l
      BY <3>3 DEF IsTrue
    <3>5. u[j].level <= CurrentLevel(u)
      BY <1>4, CurrentLevelFacts
    <3> QED
      BY <3>1, <3>3, <3>4, <3>5 DEF TrueBy
  <2> QED
    BY <1>4, <2>1, <2>2
<1>12. IsSymmetric(e)
  BY <1>3, <1>6 DEF SettledTo, IsSymmetric
<1> QED
  BY <1>3, <1>7, <1>9, <1>10, <1>11, <1>12 DEF SettledTo

-----------------------------------------------------------------------------
(* The invariant.  The levels below that of a conflict are settled, and of *)
(* a search that the assumptions ended what is fixed.  A clause that is    *)
(* added too late, which finding 5 is about, is not: the runs that add one *)
(* at any level are left out.                                              *)
ClausesAreNotLate == \A c \in Configurations : ~c.any_level

SettledLevel ==
  IF status = "ASSUMPTIONS_UNSAT" THEN 0 ELSE LevelAfter(trail, conflict)
CompleteOK ==
  /\ status # "INFEASIBLE" => SettledTo(Now, binary_index, clause_index, SettledLevel)
  /\ status = "FEASIBLE" => conflict = <<>>
  /\ status = "ASSUMPTIONS_UNSAT" => conflict # <<>>

(* Without a conflict the current level is settled.                        *)
LEMMA SettledNow ==
  ASSUME CompleteOK, status \notin {"INFEASIBLE", "ASSUMPTIONS_UNSAT"}, conflict = <<>>
  PROVE  Settled(Now, binary_index, clause_index)
<1>1. SettledLevel = CurrentLevel(trail) /\ Now.trail = trail
  BY NowFields DEF SettledLevel, LevelAfter
<1> QED
  BY <1>1 DEF CompleteOK, Settled

(* What has to be settled after a step.                                    *)
LEMMA SettledNext ==
  ASSUME NEW e, DatabaseOK(e), Now' = e, Settled(e, binary_index', clause_index'),
         status' \in Running \/ (status' = "FEASIBLE" /\ conflict' = <<>>)
  PROVE  CompleteOK'
<1>1. SettledTo(e, binary_index', clause_index', SettledLevel')
  BY SettledAnywhere
<1>2. status' # "ASSUMPTIONS_UNSAT" /\ (status' = "FEASIBLE" => conflict' = <<>>)
  BY DEF Running
<1> QED
  BY <1>1, <1>2 DEF CompleteOK

(* Initially the database and the trail are empty.                         *)
LEMMA InitIsComplete ==
  ASSUME Init
  PROVE  CompleteOK
<1>1. trail = <<>> /\ binary_index = 0 /\ clause_index = 0 /\ status = "loading" /\ Len(trail) = 0
      /\ implications = [l \in Literals |-> <<>>]
  BY DEF Init
<1>2. Now.trail = trail /\ Now.implications = implications
  BY NowFields
<1>3. 1..Len(trail) = {}
  BY <1>1
<1>4. IsSymmetric(Now)
  <2> SUFFICES ASSUME NEW l \in Literals, NEW m \in Literals, m \in ToSet(Now.implications[l]) PROVE FALSE
    BY DEF IsSymmetric
  <2>1. Now.implications[l] = <<>>
    BY <1>1, <1>2
  <2> QED
    BY <2>1 DEF ToSet
<1>5. SettledTo(Now, binary_index, clause_index, SettledLevel)
  BY <1>2, <1>3, <1>4 DEF SettledTo, GraphDone, ClausesDone, PendingFrom
<1> QED
  BY <1>1, <1>5 DEF CompleteOK

(* PropagateBinary: what is pending is done, or the level has a conflict.  *)
LEMMA PropagateBinaryIsComplete ==
  ASSUME SolverOK, CompleteOK, PropagateBinary
  PROVE  CompleteOK'
<1> DEFINE d == Now
           r == Propagations(d, binary_index)[Cardinality(Variables)]
           e == WithTrailOf(d, r.trail)
<1>1. /\ status \in Running /\ conflict = <<>> /\ binary_index < Len(trail)
      /\ trail' = r.trail /\ conflict' = r.conflict /\ binary_index' = r.index
      /\ UNCHANGED <<clauses, watchers, implications, clause_index, status>>
  BY DEF PropagateBinary
<1>2. TypesOK /\ DatabaseOK(d)
  BY DEF SolverOK
<1>3. d.trail = trail /\ d.clauses = clauses /\ d.watchers = watchers /\ d.implications = implications
  BY NowFields
<1>4. Len(trail) \in Nat /\ r = Propagations(d, binary_index)[Cardinality(Variables)]
  BY <1>2, <1>3, TrailEntries DEF DatabaseOK
<1>5. Now' = e
  <2>1. Now' = [clauses |-> d.clauses, watchers |-> d.watchers, implications |-> d.implications, trail |-> r.trail]
    BY <1>1, <1>3 DEF Now
  <2>2. d = [clauses |-> d.clauses, watchers |-> d.watchers, implications |-> d.implications, trail |-> d.trail]
    BY <1>3 DEF Now
  <2> QED
    BY <2>1, <2>2 DEF WithTrailOf
<1>6. e = WithTrailOf(d, r.trail)
  OBVIOUS
<1>7. Settled(d, binary_index, clause_index)
  BY <1>1, SettledNow DEF Running
<1> HIDE DEF r, d, e
<1>8. /\ binary_index \in Nat /\ binary_index <= Len(d.trail)
      /\ clause_index \in Nat /\ clause_index <= Len(d.trail)
  BY <1>2, <1>3, <1>4 DEF TypesOK
<1>9. SettledTo(e, r.index, clause_index, LevelAfter(r.trail, r.conflict))
  BY <1>2, <1>4, <1>6, <1>7, <1>8, GraphIsSettled
<1>10. status' \notin {"FEASIBLE", "INFEASIBLE", "ASSUMPTIONS_UNSAT"}
  BY <1>1 DEF Running
<1>11. SettledLevel' = LevelAfter(r.trail, r.conflict)
  BY <1>1, <1>10 DEF SettledLevel
<1> QED
  BY <1>1, <1>5, <1>9, <1>10, <1>11 DEF CompleteOK

(* PropagateClauses: so is one entry more, or the level has a conflict.    *)
LEMMA PropagateClausesIsComplete ==
  ASSUME SolverOK, CompleteOK, PropagateClauses
  PROVE  CompleteOK'
<1> DEFINE d == Now
           F == -trail[clause_index + 1].literal
           r == PropagateOnFalse(d, F)
           e == AsDatabase(d, r)
<1>1. /\ status \in Running /\ conflict = <<>> /\ clause_index < Len(trail)
      /\ clauses' = r.clauses /\ watchers' = r.watchers /\ trail' = r.trail
      /\ conflict' = r.conflict /\ clause_index' = clause_index + 1
      /\ UNCHANGED <<implications, binary_index, status>>
  BY DEF PropagateClauses
<1>2. TypesOK /\ DatabaseOK(d)
  BY DEF SolverOK
<1>3. d.trail = trail /\ d.implications = implications /\ r = PropagateOnFalse(d, F) /\ e = AsDatabase(d, r)
  BY NowFields
<1>4. Len(trail) \in Nat
  BY <1>2, <1>3, TrailEntries DEF DatabaseOK
<1>5. Now' = e
  <2>1. Now' = [clauses |-> r.clauses, watchers |-> r.watchers, implications |-> implications', trail |-> r.trail]
    BY <1>1 DEF Now
  <2>2. implications' = d.implications
    BY <1>1, <1>3
  <2> QED
    BY <2>1, <2>2 DEF AsDatabase
<1>6. Settled(d, binary_index, clause_index)
  BY <1>1, SettledNow DEF Running
<1>7. F = -d.trail[clause_index + 1].literal
  BY <1>3
<1> HIDE DEF d, r, F, e
<1>8. /\ binary_index \in Nat /\ binary_index <= Len(d.trail)
      /\ clause_index \in Nat /\ clause_index < Len(d.trail)
  BY <1>1, <1>2, <1>3, <1>4 DEF TypesOK
<1>9. SettledTo(e, binary_index, clause_index + 1, LevelAfter(r.trail, r.conflict))
  BY <1>2, <1>3, <1>6, <1>7, <1>8, ClausesAreSettled
<1>10. status' \notin {"FEASIBLE", "INFEASIBLE", "ASSUMPTIONS_UNSAT"}
  BY <1>1 DEF Running
<1>11. SettledLevel' = LevelAfter(r.trail, r.conflict)
  BY <1>1, <1>10 DEF SettledLevel
<1> QED
  BY <1>1, <1>5, <1>9, <1>10, <1>11 DEF CompleteOK

(* Load: a clause is added at level zero.                                  *)
LEMMA LoadIsComplete ==
  ASSUME SolverOK, CompleteOK, Load
  PROVE  CompleteOK'
<1> DEFINE d == Now
           c == config.clauses[loaded + 1]
           e == AddProblemClause(d, c)
<1>1. /\ status = "loading" /\ conflict = <<>> /\ loaded < Len(config.clauses)
      /\ IF \A l \in c : IsFalse(trail, l)
         THEN status' = "INFEASIBLE" /\ UNCHANGED database
         ELSE DatabaseBecomes(e) /\ UNCHANGED status
      /\ UNCHANGED indices
  BY DEF Load, Propagated
<1>2. TypesOK /\ DatabaseOK(d) /\ LevelZeroOK
  BY DEF SolverOK
<1>3. d.trail = trail /\ e = AddProblemClause(d, c)
  BY NowFields
<1>4. Len(trail) \in Nat
  BY <1>2, <1>3, TrailEntries DEF DatabaseOK
<1>5. c \subseteq Literals
  <2>1. config \in Configurations /\ loaded \in 0..Len(config.clauses)
    BY <1>2 DEF TypesOK
  <2>2. Len(config.clauses) \in Nat
    BY <2>1, ConfigurationFacts
  <2>3. loaded + 1 \in 1..Len(config.clauses)
    BY <1>1, <2>1, <2>2
  <2> QED
    BY <2>1, <2>2, <2>3, ConfigurationFacts
<1>6. CurrentLevel(d.trail) = 0
  BY <1>1, <1>2, <1>3 DEF LevelZeroOK
<1>7. Settled(d, binary_index, clause_index)
  BY <1>1, SettledNow
<1> HIDE DEF c, d, e
<1>8. CASE \A l \in c : IsFalse(trail, l)
  BY <1>1, <1>8 DEF CompleteOK
<1>9. CASE ~\A l \in c : IsFalse(trail, l)
  <2>1. DatabaseBecomes(e) /\ status' = "loading"
    BY <1>1, <1>9
  <2>2. \E l \in c : ~IsFalse(d.trail, l)
    BY <1>3, <1>9
  <2>3. DatabaseOK(e) /\ e \in Databases
    BY <1>2, <1>3, <1>5, <1>6, <2>2, AddProblemClauseIsOK DEF DatabaseOK
  <2>4. /\ binary_index \in Nat /\ binary_index <= Len(d.trail)
        /\ clause_index \in Nat /\ clause_index <= Len(d.trail)
    BY <1>2, <1>3, <1>4 DEF TypesOK
  <2>5. Settled(e, binary_index, clause_index)
    BY <1>2, <1>3, <1>5, <1>6, <1>7, <2>2, <2>4, ProblemClauseIsSettled
  <2>6. Now' = e /\ binary_index' = binary_index /\ clause_index' = clause_index /\ status' \in Running
    BY <1>1, <2>1, <2>3, NowBecomes DEF indices, Running
  <2> QED
    BY <2>3, <2>5, <2>6, SettledNext
<1> QED
  BY <1>8, <1>9

(* Entries of a new level: all before them is done.                        *)
LEMMA NewLevelIsSettled ==
  ASSUME NEW d, DatabaseOK(d), NEW n, n = Len(d.trail), Settled(d, n, n),
         NEW e, DatabaseOK(e), Begins(d.trail, e.trail),
         e.implications = d.implications, e.clauses = d.clauses,
         \A i \in 1..Len(e.trail) : i > n => e.trail[i].level = CurrentLevel(e.trail)
  PROVE  Settled(e, n, n)
<1> DEFINE top == CurrentLevel(e.trail)
<1>1. n \in Nat /\ n <= Len(d.trail) /\ d \in Databases
  BY TrailEntries DEF DatabaseOK
<1>2. SettledTo(d, n, n, top)
  BY SettledAnywhere
<1>3. SameClausesSince(d, e)
  BY <1>1, ClausesStay
<1>4. GraphDone(e, n, top) /\ ClausesDone(e, n, top)
  BY <1>1, <1>2, <1>3, GrownGraph, GrownClauses DEF SettledTo
<1>5. PendingFrom(e.trail, n) /\ IsSymmetric(e)
  BY <1>2 DEF PendingFrom, SettledTo, IsSymmetric
<1> QED
  BY <1>4, <1>5 DEF Settled, SettledTo

(* Untrail(): an index stays, or goes back to the end of the trail.        *)
LEMMA IndicesAfter ==
  ASSUME TypesOK, NEW n \in Nat, IndicesUpTo(n)
  PROVE  /\ binary_index' \in Nat /\ (binary_index' = binary_index \/ binary_index' = n)
         /\ binary_index' <= binary_index /\ binary_index' <= n
         /\ clause_index' \in Nat /\ (clause_index' = clause_index \/ clause_index' = n)
         /\ clause_index' <= clause_index /\ clause_index' <= n
         /\ binary_index \in Nat /\ clause_index \in Nat
<1>1. binary_index \in Nat /\ clause_index \in Nat
  BY DEF TypesOK
<1>2. ASSUME NEW i \in Nat
      PROVE  Min({i, n}) \in Nat /\ Min({i, n}) \in {i, n} /\ Min({i, n}) <= n /\ Min({i, n}) <= i
  BY MinOfTwo
<1> QED
  BY <1>1, <1>2 DEF IndicesUpTo

(* Ask: what is fixed is settled.                                          *)
LEMMA AskIsComplete ==
  ASSUME SolverOK, CompleteOK, SolverOK', Ask
  PROVE  CompleteOK'
<1> DEFINE d == Now
           level == 0
           kept == Backtracked(trail, level)
           e == WithTrailOf(d, kept)
<1>1. /\ (status = "loading" /\ conflict = <<>>) \/ status \in {"FEASIBLE", "ASSUMPTIONS_UNSAT"}
      /\ status' = "resetting" /\ trail' = kept /\ IndicesUpTo(Len(kept))
      /\ UNCHANGED <<clauses, watchers, implications>>
  BY DEF Ask, Propagated
<1>2. TypesOK /\ DatabaseOK(d) /\ DatabaseOK(Now)'
  BY DEF SolverOK
<1>3. /\ d.trail = trail /\ d.clauses = clauses /\ d.watchers = watchers /\ d.implications = implications
  BY NowFields
<1>4. d \in Databases /\ IsTrail(trail) /\ CurrentLevel(trail) \in Nat
  BY <1>2, <1>3, CurrentLevelFacts DEF DatabaseOK
<1>5. Now' = e
  <2>1. Now' = [clauses |-> d.clauses, watchers |-> d.watchers, implications |-> d.implications, trail |-> kept]
    BY <1>1, <1>3 DEF Now
  <2>2. d = [clauses |-> d.clauses, watchers |-> d.watchers, implications |-> d.implications, trail |-> d.trail]
    BY <1>3 DEF Now
  <2> QED
    BY <2>1, <2>2 DEF WithTrailOf
<1>6. level \in Nat /\ level = 0 /\ kept = Backtracked(d.trail, level) /\ e = WithTrailOf(d, kept)
  BY <1>3
<1>7. SettledTo(d, binary_index, clause_index, SettledLevel)
  BY <1>1 DEF CompleteOK
<1>8. SettledLevel \in Int /\ 0 <= SettledLevel
  BY <1>1, <1>4 DEF SettledLevel, LevelAfter, CompleteOK
<1> HIDE DEF d, e, kept, level
<1>9. Len(kept) \in Nat
  BY <1>3, <1>4, <1>6, BacktrackedFacts, TrailEntries
<1>10. DatabaseOK(e)
  BY <1>2, <1>5
<1>11. Settled(e, binary_index', clause_index')
  BY <1>1, <1>2, <1>6, <1>7, <1>8, <1>9, IndicesAfter, CutIsSettled
<1> QED
  BY <1>1, <1>5, <1>10, <1>11, SettledNext DEF Running

(* Start: the simplification leaves nothing to do.                         *)
LEMMA StartIsComplete ==
  ASSUME SolverOK, CompleteOK, Start
  PROVE  CompleteOK'
<1> DEFINE d == Now
           e == ProcessNewlyFixedVariables(d)
<1>1. /\ status = "resetting" /\ Propagated /\ status' = "searching"
      /\ IF assumptions' = <<>> THEN UNCHANGED <<database, removable, num_processed>> ELSE DatabaseBecomes(e)
      /\ UNCHANGED indices
  BY DEF Start
<1>2. TypesOK /\ DatabaseOK(d) /\ LevelZeroOK
  BY DEF SolverOK
<1>3. d.trail = trail /\ e = ProcessNewlyFixedVariables(d)
  BY NowFields
<1>4. CurrentLevel(d.trail) = 0 /\ binary_index = Len(d.trail) /\ clause_index = Len(d.trail)
  BY <1>1, <1>2, <1>3 DEF LevelZeroOK, Propagated
<1>5. Now' = d \/ DatabaseBecomes(e)
  BY <1>1 DEF Now, database
<1>6. Settled(d, binary_index, clause_index)
  BY <1>1, SettledNow DEF Propagated
<1> HIDE DEF d, e
<1>7. DatabaseOK(e) /\ e \in Databases
  BY <1>2, <1>3, <1>4, ProcessedIsOK DEF DatabaseOK
<1>8. Settled(e, binary_index, clause_index)
  BY <1>2, <1>3, <1>4, <1>6, ProcessedIsSettled
<1>9. \E n \in {d, e} : Now' = n
  BY <1>5, <1>7, NowBecomes
<1>10. PICK n \in {d, e} : Now' = n
  BY <1>9
<1>11. DatabaseOK(n) /\ Settled(n, binary_index', clause_index') /\ status' \in Running
  BY <1>1, <1>2, <1>6, <1>7, <1>8 DEF indices, Running
<1> QED
  BY <1>10, <1>11, SettledNext

(* ReapplyAssumptions: the assumptions are pending, and one that is false  *)
(* leaves what is fixed as it is.                                          *)
LEMMA ReapplyAssumptionsIsComplete ==
  ASSUME SolverOK, CompleteOK, ReapplyAssumptions
  PROVE  CompleteOK'
<1> DEFINE d == Now
           r == WithAssumptions(trail, assumptions)
           e == WithTrailOf(d, r.trail)
<1>1. /\ status = "searching" /\ Propagated /\ CurrentLevel(trail) = 0 /\ trail' = r.trail
      /\ \/ status' = "ASSUMPTIONS_UNSAT" /\ conflict' # <<>>
         \/ status' = status
      /\ UNCHANGED <<clauses, watchers, implications, indices>>
  <2>1. \/ status' = "ASSUMPTIONS_UNSAT" /\ conflict' # <<>>
        \/ status' = status
    BY DEF ReapplyAssumptions
  <2> QED
    BY <2>1 DEF ReapplyAssumptions, NeedAssumptions, Searching
<1>2. TypesOK /\ DatabaseOK(d)
  BY DEF SolverOK
<1>3. /\ d.trail = trail /\ d.clauses = clauses /\ d.watchers = watchers /\ d.implications = implications
  BY NowFields
<1>4. d \in Databases /\ IsTrail(trail) /\ Len(trail) \in Nat /\ assumptions \in Seq(Literals)
  BY <1>2, <1>3, TrailEntries DEF DatabaseOK, TypesOK
<1>5. Now' = e
  <2>1. Now' = [clauses |-> d.clauses, watchers |-> d.watchers, implications |-> d.implications, trail |-> r.trail]
    BY <1>1, <1>3 DEF Now
  <2>2. d = [clauses |-> d.clauses, watchers |-> d.watchers, implications |-> d.implications, trail |-> d.trail]
    BY <1>3 DEF Now
  <2> QED
    BY <2>1, <2>2 DEF WithTrailOf
<1>6. r = WithAssumptions(d.trail, assumptions) /\ e = WithTrailOf(d, r.trail) /\ CurrentLevel(d.trail) = 0
  BY <1>1, <1>3
<1>7. PICK n : n = Len(d.trail) /\ binary_index' = n /\ clause_index' = n /\ Settled(d, n, n)
  <2>1. Settled(d, binary_index, clause_index)
    BY <1>1, SettledNow DEF Propagated
  <2> QED
    BY <1>1, <1>3, <2>1 DEF Propagated, indices
<1> HIDE DEF d, r, e
<1>8. AssumedOK(d, assumptions, r, Len(assumptions))
  BY <1>2, <1>4, <1>6, AssumptionsAreOK
<1>9. /\ DatabaseOK(e) /\ Begins(d.trail, r.trail) /\ r.trail \in Seq(Entries)
      /\ \A j \in 1..Len(r.trail) : j > Len(d.trail) => r.trail[j].level = 1
  BY <1>6, <1>8 DEF AssumedOK, Assumeds
<1>10. e.trail = r.trail /\ e.clauses = d.clauses /\ e.implications = d.implications
  BY <1>4, <1>6, <1>9, WithTrail DEF WithTrailOf
<1>11. \A i \in 1..Len(e.trail) : i > n => e.trail[i].level = CurrentLevel(e.trail)
  <2> SUFFICES ASSUME NEW i \in 1..Len(e.trail), i > n PROVE e.trail[i].level = CurrentLevel(e.trail)
    OBVIOUS
  <2>1. IsTrail(e.trail) /\ Len(e.trail) \in Nat /\ n \in Nat
    BY <1>3, <1>4, <1>7, <1>9, TrailEntries DEF DatabaseOK
  <2>2. e.trail # <<>>
    BY <2>1
  <2>3. CurrentLevel(e.trail) = e.trail[Len(e.trail)].level
    BY <2>1, <2>2, CurrentLevelFacts
  <2>4. Len(e.trail) \in 1..Len(e.trail) /\ Len(e.trail) > n
    BY <2>1
  <2> QED
    BY <1>7, <1>9, <1>10, <2>3, <2>4
<1>12. Settled(e, n, n)
  BY <1>2, <1>7, <1>9, <1>10, <1>11, NewLevelIsSettled
<1>13. CASE status' = status
  BY <1>1, <1>5, <1>7, <1>9, <1>12, <1>13, SettledNext DEF Running
<1>14. CASE status' = "ASSUMPTIONS_UNSAT" /\ conflict' # <<>>
  <2>1. SettledTo(e, n, n, 0)
    BY <1>9, <1>12, SettledAnywhere
  <2>2. SettledLevel' = 0
    BY <1>14 DEF SettledLevel
  <2> QED
    BY <1>5, <1>7, <1>14, <2>1, <2>2 DEF CompleteOK
<1> QED
  BY <1>1, <1>13, <1>14

(* Leaf: nothing is pending.                                               *)
LEMMA LeafIsComplete ==
  ASSUME SolverOK, CompleteOK, Leaf
  PROVE  CompleteOK'
<1>1. /\ status = "searching" /\ conflict = <<>> /\ status' = "FEASIBLE"
      /\ UNCHANGED <<database, indices, failure>>
  BY DEF Leaf, Searching, Propagated
<1>2. Now' = Now /\ binary_index' = binary_index /\ clause_index' = clause_index /\ conflict' = <<>>
  BY <1>1 DEF Now, database, indices, failure
<1>3. DatabaseOK(Now) /\ Settled(Now, binary_index, clause_index)
  BY <1>1, SettledNow DEF SolverOK
<1>4. PICK e : e = Now
  OBVIOUS
<1> QED
  BY <1>1, <1>2, <1>3, <1>4, SettledNext

(* EnqueueNewDecision: the trail is cut at a level that is settled, and    *)
(* the decision alone is pending.                                          *)
LEMMA EnqueueNewDecisionIsComplete ==
  ASSUME SolverOK, CompleteOK, SolverOK', NEW restart \in BOOLEAN, NEW process \in BOOLEAN, NEW l,
         EnqueueNewDecision(restart, process, l)
  PROVE  CompleteOK'
<1> DEFINE d == Now
           assumption_level == IF assumptions = <<>> THEN 0 ELSE 1
           kept == IF restart THEN Backtracked(trail, assumption_level) ELSE trail
           level == CurrentLevel(kept)
           g == WithTrailOf(d, kept)
           e == IF process THEN ProcessNewlyFixedVariables(g) ELSE g
           next == level + 1
           type == "DECISION"
           by == 0
           entry == [literal |-> l, level |-> next, type |-> type, by |-> by]
           u == Append(kept, entry)
           n == WithTrailOf(e, u)
<1>1. /\ status = "searching" /\ Propagated /\ process => level = 0
      /\ status = "searching" /\ Propagated
      /\ restart => CurrentLevel(trail) > assumption_level
      /\ DatabaseBecomes([e EXCEPT !.trail = Enqueued(@, l, level + 1, "DECISION", 0)])
      /\ IndicesUpTo(Len(kept)) /\ UNCHANGED status
  BY DEF EnqueueNewDecision, Searching, WithTrailOf
<1>2. TypesOK /\ DatabaseOK(d) /\ DatabaseOK(Now)'
  BY DEF SolverOK
<1>3. d.trail = trail
  BY NowFields
<1>4. d \in Databases /\ IsTrail(trail) /\ Len(trail) \in Nat /\ CurrentLevel(trail) \in Nat
  BY <1>2, <1>3, TrailEntries, CurrentLevelFacts DEF DatabaseOK
<1>5. /\ assumption_level \in Nat
      /\ [e EXCEPT !.trail = Enqueued(@, l, level + 1, "DECISION", 0)] = [e EXCEPT !.trail = Enqueued(e.trail, l, next, type, by)]
  OBVIOUS
<1>6. \/ restart /\ kept = Backtracked(d.trail, assumption_level)
      \/ kept = d.trail
  BY <1>3
<1>7. g = WithTrailOf(d, kept) /\ g = [d EXCEPT !.trail = kept] /\ (kept = d.trail => g = d)
  <2>1. d = [clauses |-> d.clauses, watchers |-> d.watchers, implications |-> d.implications, trail |-> d.trail]
    BY NowFields DEF Now
  <2> QED
    BY <2>1 DEF WithTrailOf
<1>8. (process /\ e = ProcessNewlyFixedVariables(g)) \/ e = g
  OBVIOUS
<1>9. Settled(d, Len(d.trail), Len(d.trail)) /\ binary_index = Len(d.trail) /\ clause_index = Len(d.trail)
  <2>1. Settled(d, binary_index, clause_index)
    BY <1>1, SettledNow DEF Propagated
  <2> QED
    BY <1>1, <1>3, <2>1 DEF Propagated
<1>10. n = WithTrailOf(e, u) /\ u = Append(kept, entry) /\ entry.level = next /\ next = level + 1
  OBVIOUS
<1>11. Enqueued(kept, l, next, type, by) = u
  BY DEF Enqueued
<1> HIDE DEF d, assumption_level, kept, g, e, entry, u
<1>12. IsTrail(kept) /\ Begins(kept, trail) /\ Len(kept) \in Nat /\ Len(kept) <= Len(trail)
  <2>1. CASE kept = Backtracked(d.trail, assumption_level)
    <3>1. IsTrail(kept) /\ Begins(kept, trail)
      BY <1>3, <1>4, <1>5, <2>1, BacktrackedFacts
    <3> QED
      BY <3>1, TrailEntries DEF Begins
  <2>2. CASE kept = d.trail
    BY <1>3, <1>4, <2>2 DEF Begins
  <2> QED
    BY <1>6, <2>1, <2>2
<1>13. binary_index' = Len(kept) /\ clause_index' = Len(kept)
  BY <1>1, <1>2, <1>3, <1>4, <1>9, <1>12, IndicesAfter
<1>14. DatabaseOK(g) /\ g.trail = kept
  <2>1. /\ Begins(kept, d.trail)
        /\ \A i \in 1..Len(d.trail) : d.trail[i].level = 0 => i <= Len(kept)
    <3>1. CASE kept = Backtracked(d.trail, assumption_level)
      <4>0. kept = Backtracked(trail, assumption_level)
        BY <1>3, <3>1
      <4>1. \A i \in 1..Len(trail) : trail[i].level <= assumption_level <=> i <= Len(kept)
        BY <1>4, <1>5, <4>0, BacktrackedFacts
      <4>2. \A i \in 1..Len(trail) : trail[i].level = 0 => i <= Len(kept)
        BY <1>5, <4>1
      <4> QED
        BY <1>3, <1>12, <4>2
    <3>2. CASE kept = d.trail
      BY <1>3, <1>4, <1>12, <3>2
    <3> QED
      BY <1>6, <3>1, <3>2
  <2>2. DatabaseOK(g)
    BY <1>2, <1>7, <1>12, <2>1, CutTrail
  <2> QED
    BY <1>4, <1>7, <1>12, <2>2, WithTrail DEF IsTrail
<1>15. Settled(g, Len(kept), Len(kept))
  <2>1. CASE restart /\ kept = Backtracked(d.trail, assumption_level)
    <3>1. PICK a : a = Len(kept)
      OBVIOUS
    <3>2. PICK m : m = Len(d.trail)
      OBVIOUS
    <3>3. PICK top : top = CurrentLevel(d.trail)
      OBVIOUS
    <3>4. m \in Nat /\ a \in Nat /\ a <= m /\ top \in Int /\ assumption_level <= top
      BY <1>1, <1>3, <1>4, <1>5, <1>12, <2>1, <3>1, <3>2, <3>3
    <3>5. SettledTo(d, m, m, top)
      BY <1>9, <3>2, <3>3 DEF Settled
    <3>6. Settled(g, a, a)
      BY <1>2, <1>5, <1>7, <2>1, <3>1, <3>4, <3>5, CutIsSettled
    <3> QED
      BY <3>1, <3>6
  <2>2. CASE kept = d.trail
    BY <1>7, <1>9, <2>2
  <2> QED
    BY <1>6, <2>1, <2>2
<1>16. DatabaseOK(e) /\ e.trail = kept /\ Settled(e, Len(kept), Len(kept))
  <2>1. CASE process /\ e = ProcessNewlyFixedVariables(g)
    <3>1. CurrentLevel(g.trail) = 0
      BY <1>1, <1>14, <2>1
    <3>2. DatabaseOK(e) /\ e.trail = g.trail
      BY <1>14, <2>1, <3>1, ProcessedIsOK
    <3>3. Settled(e, Len(kept), Len(kept))
      BY <1>14, <1>15, <2>1, <3>1, ProcessedIsSettled
    <3> QED
      BY <1>14, <3>2, <3>3
  <2>2. CASE e = g
    BY <1>14, <1>15, <2>2
  <2> QED
    BY <1>8, <2>1, <2>2
<1>17. e \in Databases /\ n = [e EXCEPT !.trail = u]
  BY <1>10, <1>16 DEF DatabaseOK, WithTrailOf
<1>18. DatabaseBecomes(n)
  BY <1>1, <1>5, <1>11, <1>16, <1>17
<1> HIDE DEF n
<1>19. e.trail = kept /\ n.trail = u /\ n.clauses = e.clauses /\ n.implications = e.implications /\ n.watchers = e.watchers
  BY <1>16, <1>17 DEF Databases
<1>20. Now' = n
  <2>1. Now' = [clauses |-> n.clauses, watchers |-> n.watchers, implications |-> n.implications, trail |-> n.trail]
    BY <1>18 DEF DatabaseBecomes, Now
  <2>2. n = [clauses |-> n.clauses, watchers |-> n.watchers, implications |-> n.implications, trail |-> n.trail]
    BY <1>17 DEF Databases
  <2> QED
    BY <2>1, <2>2
<1>21. DatabaseOK(n)
  BY <1>2, <1>20
<1>22. IsTrail(u)
  BY <1>19, <1>21 DEF DatabaseOK
<1>23. Len(u) = Len(kept) + 1 /\ u[Len(kept) + 1].level = next /\ Begins(kept, u) /\ u # <<>>
  <2>1. kept \in Seq(Entries)
    BY <1>12 DEF IsTrail
  <2>2. Len(u) = Len(kept) + 1 /\ u[Len(kept) + 1] = entry /\ \A i \in 1..Len(kept) : u[i] = kept[i]
    BY <1>10, <2>1
  <2> QED
    BY <1>10, <1>12, <2>2 DEF Begins
<1>24. \A i \in 1..Len(n.trail) : i > Len(kept) => n.trail[i].level = CurrentLevel(n.trail)
  <2>1. CurrentLevel(u) = u[Len(u)].level
    BY <1>22, <1>23, CurrentLevelFacts
  <2>2. \A i \in 1..Len(u) : i > Len(kept) => i = Len(u)
    BY <1>12, <1>23
  <2> QED
    BY <1>19, <2>1, <2>2
<1>25. Settled(n, Len(kept), Len(kept))
  BY <1>16, <1>19, <1>21, <1>23, <1>24, NewLevelIsSettled
<1> QED
  BY <1>1, <1>13, <1>20, <1>21, <1>25, SettledNext DEF Running

(* The levels of a conflict, and the highest of them.                      *)
LEMMA HighestLevel ==
  ASSUME NEW t, IsTrail(t), NEW literals \in Seq(Literals), literals # <<>>,
         \A l \in ToSet(literals) : IsFalse(t, l),
         NEW highest, highest = Max({LevelOf(t, l) : l \in ToSet(literals)})
  PROVE  /\ highest \in Nat /\ highest <= CurrentLevel(t)
         /\ \E l \in ToSet(literals) : LevelOf(t, l) = highest
         /\ \A l \in ToSet(literals) : LevelOf(t, l) <= highest
<1> DEFINE levels == {LevelOf(t, l) : l \in ToSet(literals)}
<1>1. ASSUME NEW l \in ToSet(literals) PROVE LevelOf(t, l) \in Nat /\ LevelOf(t, l) <= CurrentLevel(t)
  <2>1. l \in Literals /\ IsAssigned(t, l)
    BY ToSetFacts DEF IsAssigned
  <2> QED
    BY <2>1, TrailFacts, CurrentLevelFacts
<1>2. levels \subseteq 0..CurrentLevel(t) /\ CurrentLevel(t) \in Nat /\ levels # {}
  <2>1. ToSet(literals) # {}
    BY ToSetFacts
  <2>2. CurrentLevel(t) \in Nat
    BY CurrentLevelFacts
  <2> QED
    BY <1>1, <2>1, <2>2
<1>3. IsFiniteSet(levels) /\ levels \in SUBSET Int
  <2>1. IsFiniteSet(0..CurrentLevel(t))
    BY <1>2, FS_Interval
  <2> HIDE DEF levels
  <2>2. IsFiniteSet(levels)
    BY <1>2, <2>1, FS_Subset
  <2> QED
    BY <1>2, <2>2
<1>4. highest \in levels /\ \A n \in levels : highest >= n
  <2>1. highest = Max(levels)
    OBVIOUS
  <2> HIDE DEF levels
  <2> QED
    BY <1>2, <1>3, <2>1, MaxOfSet
<1>5. highest \in 0..CurrentLevel(t)
  <2> HIDE DEF levels
  <2> QED
    BY <1>2, <1>4
<1>6. /\ \E l \in ToSet(literals) : LevelOf(t, l) = highest
      /\ \A l \in ToSet(literals) : LevelOf(t, l) <= highest
  <2>1. \A l \in ToSet(literals) : LevelOf(t, l) <= highest
    BY <1>1, <1>4, <1>5, <1>2
  <2> QED
    BY <1>4, <2>1
<1>7. highest \in Nat /\ highest <= CurrentLevel(t)
  <2> HIDE DEF levels
  <2> QED
    BY <1>2, <1>5
<1> QED
  BY <1>6, <1>7

(* ProcessCurrentConflict: the levels below the conflict are settled, so   *)
(* the backjump is to one that is, and what is learned is new there.       *)
LEMMA ProcessCurrentConflictIsComplete ==
  ASSUME SolverOK, CompleteOK, SolverOK', ProcessCurrentConflict
  PROVE  CompleteOK'
<1> DEFINE d == Now
           highest == Max({LevelOf(trail, l) : l \in ToSet(conflict)})
           gives_up == highest = 0 \/ (highest = 1 /\ assumptions # <<>>)
<1>1. /\ status \in Running /\ conflict # <<>>
      /\ IF gives_up
         THEN /\ status' = IF highest = 0 THEN "INFEASIBLE" ELSE "ASSUMPTIONS_UNSAT"
              /\ UNCHANGED <<database, removable, indices, failure, clean_ups>>
         ELSE BackjumpAndLearn
  BY DEF ProcessCurrentConflict
<1>2. TypesOK /\ DatabaseOK(d) /\ DatabaseOK(Now)' /\ FailureIsKnown(d, conflict, failing)
  BY <1>1 DEF SolverOK, ConflictOK
<1>3. d.trail = trail
  BY NowFields
<1>4. d \in Databases /\ IsTrail(trail) /\ CurrentLevel(trail) \in Nat
  BY <1>2, <1>3, CurrentLevelFacts DEF DatabaseOK
<1>5. /\ highest \in Nat /\ highest <= CurrentLevel(trail)
      /\ \E l \in ToSet(conflict) : LevelOf(trail, l) = highest
  <2>1. conflict \in Seq(Literals) /\ \A l \in ToSet(conflict) : IsFalse(trail, l)
    BY <1>2, <1>3 DEF FailureIsKnown, FalseLiterals
  <2> QED
    BY <1>1, <1>4, <2>1, HighestLevel
<1>6. SettledTo(d, binary_index, clause_index, CurrentLevel(trail) - 1)
  BY <1>1 DEF CompleteOK, SettledLevel, LevelAfter, Running
<1>7. PICK top : top = CurrentLevel(trail) - 1 /\ top \in Int
  BY <1>4
<1>8. SettledTo(d, binary_index, clause_index, top)
  BY <1>6, <1>7
<1> HIDE DEF highest
<1>9. CASE gives_up
  <2>1. /\ status' = IF highest = 0 THEN "INFEASIBLE" ELSE "ASSUMPTIONS_UNSAT"
        /\ UNCHANGED <<database, indices, failure>>
    BY <1>1, <1>9
  <2>2. CASE highest = 0
    BY <2>1, <2>2 DEF CompleteOK
  <2>3. CASE highest # 0
    <3>1. highest = 1 /\ status' = "ASSUMPTIONS_UNSAT"
      BY <1>9, <2>1, <2>3
    <3>2. 0 \in Int /\ 0 <= top
      BY <1>4, <1>5, <1>7, <3>1
    <3>3. SettledTo(d, binary_index, clause_index, 0)
      BY <1>2, <1>7, <1>8, <3>2, SettledBelow
    <3>4. Now' = d /\ binary_index' = binary_index /\ clause_index' = clause_index /\ conflict' = conflict
      BY <2>1 DEF Now, database, indices, failure
    <3>5. SettledLevel' = 0
      BY <3>1 DEF SettledLevel
    <3> QED
      BY <1>1, <3>1, <3>3, <3>4, <3>5 DEF CompleteOK
  <2> QED
    BY <2>2, <2>3
<1>10. CASE ~gives_up
  <2> DEFINE r == Learned(d)
             subsumed == IF config.subsumption_during_conflict_analysis THEN r.subsumed ELSE {}
             level == ComputeBacktrackLevel(trail, r.conflict)
             kept == Backtracked(trail, level)
             g == WithTrailOf(d, kept)
             e == Detach(g, subsumed)
  <2>1. BackjumpAndLearn
    BY <1>1, <1>10
  <2> HIDE DEF d
  <2>2. /\ LearnClause(e, r.conflict, IsRedundant(subsumed)) /\ IndicesUpTo(Len(kept))
        /\ status' = status
    BY <2>1 DEF BackjumpAndLearn, WithTrailOf, d
  <2>3. subsumed \subseteq r.subsumed
    OBVIOUS
  <2>4. /\ r = Learned(d) /\ level = ComputeBacktrackLevel(d.trail, r.conflict)
        /\ kept = Backtracked(d.trail, level) /\ g = WithTrailOf(d, kept) /\ e = Detach(g, subsumed)
    BY <1>3
  <2>5. level = Max({0} \cup {LevelOf(trail, l) : l \in ToSet(Tail(r.conflict))})
    BY DEF ComputeBacktrackLevel
  <2> HIDE DEF r, subsumed, level, kept, g, e
  <2>6. \E l \in ToSet(conflict) : LevelOf(d.trail, l) > 0
    <3>1. highest > 0
      BY <1>5, <1>10
    <3> QED
      BY <1>3, <1>5, <3>1
  <2>7. PICK first \in Nat \ {0} : LearnedOK(d, first, r)
    BY <1>2, <2>4, <2>6, LearnedIsOK
  <2>8. /\ DatabaseOK(g) /\ g.trail = kept /\ Len(kept) \in Nat
        /\ Asserting(kept, r.conflict) /\ NotReasons(kept, r.subsumed)
    BY <1>2, <2>4, <2>7, BackjumpIsOK
  <2>9. level \in Nat /\ level <= top
    <3>1. /\ r.conflict \in Seq(Literals) /\ r.conflict # <<>> /\ IsFalse(trail, r.conflict[1])
          /\ LevelOf(trail, r.conflict[1]) = first
          /\ \A l \in ToSet(Tail(r.conflict)) : IsLower(trail, first, l)
      BY <1>3, <2>7 DEF LearnedOK
    <3>2. Tail(r.conflict) \in Seq(Literals) /\ r.conflict[1] \in Literals
      BY <3>1
    <3>3. level \in Nat /\ level < first
      BY <1>4, <2>5, <3>1, <3>2, BacktrackLevelFacts
    <3>4. first <= CurrentLevel(trail)
      BY <1>4, <3>1, <3>2, TrailFacts, CurrentLevelFacts DEF IsAssigned
    <3> QED
      BY <1>4, <1>7, <3>3, <3>4
  <2>10. Settled(g, binary_index', clause_index')
    BY <1>2, <1>7, <1>8, <2>2, <2>4, <2>8, <2>9, IndicesAfter, CutIsSettled
  <2>11. DatabaseOK(e)
    <3>1. \A i \in 1..Len(g.trail) : g.trail[i].type = "CLAUSE" /\ g.trail[i].level > 0 => g.trail[i].by \notin subsumed
      BY <2>3, <2>8 DEF NotReasons
    <3> QED
      BY <2>4, <2>8, <3>1, DetachIsOK
  <2>12. g \in Databases
    BY <2>8 DEF DatabaseOK
  <2>13. e.trail = kept /\ Settled(e, binary_index', clause_index')
    BY <2>4, <2>8, <2>10, <2>12, DetachFields, DetachedIsSettled
  <2>14. Len(r.conflict) # 1 => CurrentLevel(kept) > 0 /\ Fits(kept, ToSet(r.conflict))
    BY <1>2, <2>4, <2>7, LearnedFits
  <2>15. /\ binary_index' \in Nat /\ binary_index' <= Len(e.trail)
         /\ clause_index' \in Nat /\ clause_index' <= Len(e.trail)
    BY <1>2, <2>2, <2>8, <2>13, IndicesAfter
  <2>16. Asserting(e.trail, r.conflict)
    BY <2>8, <2>13
  <2>17. Settled(Now', binary_index', clause_index')
    BY <2>2, <2>11, <2>13, <2>14, <2>15, <2>16, LearnClauseIsSettled
  <2>18. PICK n : n = Now'
    OBVIOUS
  <2>19. DatabaseOK(n) /\ Settled(n, binary_index', clause_index') /\ status' \in Running
    BY <1>1, <1>2, <2>2, <2>17, <2>18 DEF Running
  <2> QED
    BY <2>18, <2>19, SettledNext
<1> QED
  BY <1>9, <1>10

(* More than one element: two that are distinct.                           *)
LEMMA TwoLiterals ==
  ASSUME NEW S, S \subseteq Literals
  PROVE  Cardinality(S) \in Nat /\ (Cardinality(S) > 1 <=> \E a, b \in S : a # b)
<1>1. IsFiniteSet(S)
  BY LiteralsAreFinite, FS_Subset
<1>2. Cardinality(S) \in Nat /\ (Cardinality(S) = 0 <=> S = {})
  BY <1>1, FS_CardinalityType, FS_EmptySet
<1>3. ASSUME NEW a \in S
      PROVE  Cardinality(S \ {a}) = Cardinality(S) - 1 /\ (Cardinality(S \ {a}) = 0 <=> S \ {a} = {})
  <2>1. IsFiniteSet(S \ {a})
    BY <1>1, FS_Subset
  <2> QED
    BY <1>1, <2>1, FS_RemoveElement, FS_EmptySet
<1>4. CASE S = {}
  BY <1>2, <1>4
<1>5. CASE S # {}
  <2>1. PICK a : a \in S
    BY <1>5
  <2>2. Cardinality(S) > 1 <=> S \ {a} # {}
    <3>1. PICK n \in Nat : n = Cardinality(S)
      BY <1>2
    <3>2. PICK rest : rest = S \ {a}
      OBVIOUS
    <3>3. Cardinality(rest) = n - 1 /\ (n - 1 = 0 <=> rest = {}) /\ n # 0
      BY <1>2, <1>3, <1>5, <2>1, <3>1, <3>2
    <3>4. n > 1 <=> n - 1 # 0
      BY <3>3
    <3> QED
      BY <3>1, <3>2, <3>3, <3>4
  <2>3. S \ {a} # {} <=> \E x, y \in S : x # y
    BY <2>1
  <2> QED
    BY <1>2, <2>2, <2>3
<1> QED
  BY <1>4, <1>5

(* A clause that is not late fits.                                         *)
LEMMA FitsUnlessLate ==
  ASSUME IsTrail(trail), NEW c, c \subseteq Literals, ~LateFor(c)
  PROVE  Fits(trail, c)
<1> SUFFICES ASSUME NEW level \in Nat, level < CurrentLevel(trail), ~TrueBy(trail, c, level)
             PROVE  \E a, b \in c : a # b /\ ~TrueBy(trail, {-a}, level) /\ ~TrueBy(trail, {-b}, level)
  BY DEF Fits
<1> DEFINE t == Backtracked(trail, level)
           free == {l \in c : ~IsFalse(t, l)}
<1>1. level \in 0..CurrentLevel(trail) - 1
  BY CurrentLevelFacts
<1>2. ~(/\ \A l \in c : ~IsTrue(t, l)
        /\ Cardinality(free) <= 1)
  BY <1>1 DEF LateFor
<1>3. t = Backtracked(trail, level) /\ free \subseteq Literals
  OBVIOUS
<1>4. \A l : l \in free <=> l \in c /\ ~IsFalse(t, l)
  OBVIOUS
<1> HIDE DEF t, free
<1>5. /\ \A i \in 1..Len(t) : t[i] = trail[i] /\ i \in 1..Len(trail) /\ t[i].level <= level
      /\ \A i \in 1..Len(trail) : trail[i].level <= level <=> i <= Len(t)
      /\ IsTrail(t)
  BY <1>3, BacktrackedFacts
<1>6. \A l \in c : ~IsTrue(t, l)
  <2> SUFFICES ASSUME NEW l \in c, IsTrue(t, l) PROVE FALSE
    OBVIOUS
  <2>1. PICK i \in 1..Len(t) : t[i].literal = l
    BY DEF IsTrue
  <2> QED
    BY <1>5, <2>1 DEF TrueBy
<1>7. PICK a, b \in free : a # b
  <2>1. Cardinality(free) \in Nat /\ ~(Cardinality(free) <= 1)
    BY <1>2, <1>3, <1>6, TwoLiterals
  <2>2. Cardinality(free) > 1
    BY <2>1
  <2> QED
    BY <1>3, <2>2, TwoLiterals
<1>8. ASSUME NEW l \in free, TrueBy(trail, {-l}, level) PROVE FALSE
  <2>1. PICK i \in 1..Len(trail) : trail[i].literal = -l /\ trail[i].level <= level
    BY <1>8 DEF TrueBy
  <2>2. Len(t) \in Nat /\ i <= Len(t)
    BY <1>5, <2>1, TrailEntries
  <2>3. i \in 1..Len(t) /\ t[i].literal = -l
    BY <1>5, <2>1, <2>2
  <2> QED
    BY <1>4, <2>3 DEF IsFalse, IsTrue
<1> QED
  BY <1>4, <1>7, <1>8

(* AddClauseDuringSearch: a clause that is not late.                       *)
LEMMA AddClauseDuringSearchIsComplete ==
  ASSUME ClausesAreNotLate, SolverOK, CompleteOK, NEW c \in config.late, AddClauseDuringSearch(c)
  PROVE  CompleteOK'
<1> DEFINE d == Now
           s == Sorted(c)
<1>1. PICK e : /\ e = IF CurrentLevel(trail) = 0 THEN AddProblemClause(d, c)
                      ELSE IF Cardinality(c) = 2 THEN AddBinaryClause(d, s[1], s[2]) ELSE Attach(d, s)
               /\ DatabaseBecomes(e)
  BY DEF AddClauseDuringSearch
<1>2. /\ status = "searching" /\ Propagated /\ \E l \in c : ~IsFalse(trail, l)
      /\ config.any_level \/ ~LateFor(c)
      /\ UNCHANGED <<indices, status>>
  BY DEF AddClauseDuringSearch, Searching
<1>3. TypesOK /\ DatabaseOK(d) /\ config \in Configurations
  BY DEF SolverOK, TypesOK
<1>4. d.trail = trail
  BY NowFields
<1>5. IsTrail(trail)
  BY <1>3, <1>4 DEF DatabaseOK
<1>6. c \subseteq Literals /\ Cardinality(c) > 1
  BY <1>3, ConfigurationFacts
<1>7. s \in Seq(Literals) /\ Len(s) = Cardinality(c) /\ ToSet(s) = c /\ Distinct(s)
  BY <1>6, SortedFacts
<1>8. PICK n : n = Len(d.trail) /\ binary_index' = n /\ clause_index' = n /\ Settled(d, n, n)
  <2>1. Settled(d, binary_index, clause_index)
    BY <1>2, SettledNow DEF Propagated
  <2> QED
    BY <1>2, <1>4, <2>1 DEF Propagated, indices
<1>9. n \in Nat /\ n <= Len(d.trail)
  BY <1>4, <1>5, <1>8, TrailEntries
<1>10. Fits(d.trail, c)
  <2>1. ~LateFor(c)
    BY <1>2, <1>3 DEF ClausesAreNotLate
  <2> QED
    BY <1>4, <1>5, <1>6, <2>1, FitsUnlessLate
<1> HIDE DEF d, s
<1>11. DatabaseOK(e) /\ Settled(e, n, n)
  <2>1. CASE CurrentLevel(trail) = 0
    <3>1. e = AddProblemClause(d, c) /\ CurrentLevel(d.trail) = 0 /\ \E l \in c : ~IsFalse(d.trail, l)
      BY <1>1, <1>2, <1>4, <2>1
    <3>2. DatabaseOK(e)
      BY <1>3, <1>6, <3>1, AddProblemClauseIsOK
    <3>3. Settled(e, n, n)
      BY <1>3, <1>6, <1>8, <1>9, <3>1, ProblemClauseIsSettled
    <3> QED
      BY <3>2, <3>3
  <2>2. CASE CurrentLevel(trail) # 0 /\ Cardinality(c) = 2
    <3> DEFINE x == s[1]
               y == s[2]
    <3>1. x \in Literals /\ y \in Literals /\ x # y /\ \A l : l \in c <=> l = x \/ l = y
      <4>1. Len(s) = 2 /\ s \in Seq(Literals) /\ Distinct(s)
        BY <1>7, <2>2
      <4>2. 1 \in 1..Len(s) /\ 2 \in 1..Len(s)
        BY <4>1
      <4>3. s[1] \in Literals /\ s[2] \in Literals
        BY <4>1, <4>2, ToSetFacts
      <4>4. s[1] # s[2]
        BY <4>1, <4>2 DEF Distinct
      <4>5. \A l : l \in c <=> \E i \in 1..Len(s) : s[i] = l
        BY <1>7, ToSetFacts
      <4>6. \A i : i \in 1..Len(s) <=> i = 1 \/ i = 2
        BY <4>1
      <4> QED
        BY <4>3, <4>4, <4>5, <4>6
    <3>2. e = AddBinaryClause(d, x, y)
      BY <1>1, <2>2
    <3> HIDE DEF x, y
    <3>3. DatabaseOK(e)
      BY <1>3, <3>1, <3>2, AddBinaryClauseIsOK
    <3>4. Fits(d.trail, {x, y}) /\ ~(IsFalse(d.trail, x) /\ IsFalse(d.trail, y)) /\ CurrentLevel(d.trail) # 0
      <4>1. c = {x, y}
        BY <3>1
      <4> QED
        BY <1>2, <1>4, <1>10, <2>2, <4>1
    <3>5. Settled(e, n, n)
      BY <1>3, <1>8, <1>9, <3>1, <3>2, <3>4, BinaryIsSettled
    <3> QED
      BY <3>3, <3>5
  <2>3. CASE CurrentLevel(trail) # 0 /\ Cardinality(c) # 2
    <3>1. Len(s) \in Nat /\ Len(s) >= 3
      BY <1>6, <1>7, <2>3
    <3>2. \E i \in 1..Len(s) : ~IsFalse(d.trail, s[i])
      <4>1. PICK l \in ToSet(s) : ~IsFalse(d.trail, l)
        BY <1>2, <1>4, <1>7
      <4>2. PICK i \in 1..Len(s) : s[i] = l
        BY <1>7, <4>1, ToSetFacts
      <4> QED
        BY <4>1, <4>2
    <3>3. e = Attach(d, s)
      BY <1>1, <2>3
    <3>4. DatabaseOK(e)
      BY <1>3, <1>7, <3>1, <3>2, <3>3, AttachIsOK
    <3>5. Fits(d.trail, ToSet(s))
      BY <1>7, <1>10
    <3>6. Settled(e, n, n)
      BY <1>3, <1>7, <1>8, <1>9, <3>1, <3>2, <3>3, <3>5, AttachedIsSettled
    <3> QED
      BY <3>4, <3>6
  <2> QED
    BY <2>1, <2>2, <2>3
<1>12. e \in Databases
  BY <1>11 DEF DatabaseOK
<1>13. Now' = e
  BY <1>1, <1>12, NowBecomes
<1>14. status' \in Running /\ Settled(e, binary_index', clause_index')
  BY <1>2, <1>8, <1>11 DEF Running
<1> QED
  BY <1>11, <1>13, <1>14, SettledNext

(* A stuttering step.                                                      *)
LEMMA StutteringIsComplete ==
  ASSUME CompleteOK, UNCHANGED vars
  PROVE  CompleteOK'
<1>1. UNCHANGED database /\ UNCHANGED <<binary_index, clause_index, status, conflict>>
  BY DEF vars, indices, failure
<1>2. Now' = Now /\ trail' = trail
  BY <1>1 DEF Now, database
<1>3. SettledLevel' = SettledLevel
  BY <1>1, <1>2 DEF SettledLevel
<1> QED
  BY <1>1, <1>2, <1>3 DEF CompleteOK

(* So every step keeps what is settled.                                    *)
LEMMA NextIsComplete ==
  ASSUME ClausesAreNotLate, SolverOK, CompleteOK, SolverOK', [Next]_vars
  PROVE  CompleteOK'
<1>1. CASE PropagateBinary
  BY <1>1, PropagateBinaryIsComplete
<1>2. CASE PropagateClauses
  BY <1>2, PropagateClausesIsComplete
<1>3. CASE Load
  BY <1>3, LoadIsComplete
<1>4. CASE Ask
  BY <1>4, AskIsComplete
<1>5. CASE Start
  BY <1>5, StartIsComplete
<1>6. CASE ReapplyAssumptions
  BY <1>6, ReapplyAssumptionsIsComplete
<1>7. CASE Leaf
  BY <1>7, LeafIsComplete
<1>8. CASE \E restart, process \in BOOLEAN, l \in config.branches : EnqueueNewDecision(restart, process, l)
  BY <1>8, EnqueueNewDecisionIsComplete
<1>9. CASE ProcessCurrentConflict
  BY <1>9, ProcessCurrentConflictIsComplete
<1>10. CASE \E c \in config.late : AddClauseDuringSearch(c)
  BY <1>10, AddClauseDuringSearchIsComplete
<1>11. CASE UNCHANGED vars
  BY <1>11, StutteringIsComplete
<1> QED
  BY <1>1, <1>2, <1>3, <1>4, <1>5, <1>6, <1>7, <1>8, <1>9, <1>10, <1>11 DEF Next

(* What is settled holds in every state, of searches without late clauses. *)
THEOREM SolverIsComplete == ClausesAreNotLate => (Spec => [](SolverOK /\ CompleteOK))
<1> SUFFICES ASSUME ClausesAreNotLate PROVE Spec => [](SolverOK /\ CompleteOK)
  OBVIOUS
<1>1. Init => SolverOK /\ CompleteOK
  BY InitIsOK, InitIsComplete
<1>2. SolverOK /\ CompleteOK /\ [Next]_vars => SolverOK' /\ CompleteOK'
  BY NextIsOK, NextIsComplete
<1> QED
  BY <1>1, <1>2, PTL DEF Spec

(* A clause with two literals that are not false.                          *)
LEMMA TwoFree ==
  ASSUME NEW t, NEW c, c \subseteq Literals, NEW a \in c, NEW b \in c, a # b, ~IsFalse(t, a), ~IsFalse(t, b)
  PROVE  Cardinality({l \in c : ~IsFalse(t, l)}) > 1
<1> DEFINE free == {l \in c : ~IsFalse(t, l)}
<1>1. a \in free /\ b \in free /\ free \subseteq Literals
  OBVIOUS
<1> HIDE DEF free
<1>2. Cardinality(free) > 1
  BY <1>1, TwoLiterals
<1> QED
  BY <1>2 DEF free

(* The clauses of a database.                                              *)
IsClauseOf(d, c) ==
  \/ \E p \in Attached(d) : c = ToSet(d.clauses[p])
  \/ \E l \in Literals : \E m \in ToSet(d.implications[l]) : c = {-l, m}
  \/ \E i \in 1..Len(d.trail) : d.trail[i].level = 0 /\ c = {d.trail[i].literal}

(* They are those of Database.                                             *)
LEMMA DatabaseClauses ==
  ASSUME NEW c
  PROVE  c \in Database <=> IsClauseOf(Now, c)
<1> DEFINE A == {ToSet(clauses[p]) : p \in Attached(Now)}
           B == UNION {{{-l, m} : m \in ToSet(implications[l])} : l \in Literals}
           C == {{trail[i].literal} : i \in {i \in 1..Len(trail) : trail[i].level = 0}}
<1>1. Now.trail = trail /\ Now.clauses = clauses /\ Now.implications = implications
  BY NowFields
<1>2. c \in A <=> \E p \in Attached(Now) : c = ToSet(Now.clauses[p])
  BY <1>1
<1>3. c \in B <=> \E l \in Literals : \E m \in ToSet(Now.implications[l]) : c = {-l, m}
  <2>1. c \in B <=> \E l \in Literals : c \in {{-l, m} : m \in ToSet(implications[l])}
    OBVIOUS
  <2>2. \A l \in Literals : c \in {{-l, m} : m \in ToSet(implications[l])} <=> \E m \in ToSet(implications[l]) : c = {-l, m}
    OBVIOUS
  <2> HIDE DEF B
  <2> QED
    BY <1>1, <2>1, <2>2
<1>4. c \in C <=> \E i \in 1..Len(Now.trail) : Now.trail[i].level = 0 /\ c = {Now.trail[i].literal}
  BY <1>1
<1>5. Database = A \cup B \cup C
  BY DEF Database
<1> HIDE DEF A, B, C
<1> QED
  BY <1>2, <1>3, <1>4, <1>5 DEF IsClauseOf

(* What is settled up to the end of the trail leaves nothing to propagate. *)
LEMMA SettledPropagates ==
  ASSUME NEW d, DatabaseOK(d), NEW n, n = Len(d.trail), Settled(d, n, n), NEW c, IsClauseOf(d, c)
  PROVE  \/ \E l \in c : IsTrue(d.trail, l)
         \/ \E a, b \in c : a # b /\ c \subseteq Literals /\ ~IsFalse(d.trail, a) /\ ~IsFalse(d.trail, b)
<1> DEFINE t == d.trail
           Done == \/ \E l \in c : IsTrue(t, l)
                   \/ \E a, b \in c : a # b /\ c \subseteq Literals /\ ~IsFalse(t, a) /\ ~IsFalse(t, b)
<1>1. d \in Databases /\ IsTrail(t)
  BY DEF DatabaseOK
<1>2. /\ IsSymmetric(d) /\ Len(t) \in Nat
      /\ \A i \in 1..Len(t) : i <= n /\ t[i].level <= CurrentLevel(t)
  BY <1>1, TrailEntries, CurrentLevelFacts DEF Settled, SettledTo
<1>3. ASSUME NEW i \in 1..Len(t), NEW m \in ToSet(d.implications[t[i].literal]) PROVE IsTrue(t, m)
  <2>1. TrueBy(t, {m}, t[i].level)
    BY <1>2 DEF Settled, SettledTo, GraphDone
  <2> QED
    BY <2>1 DEF TrueBy, IsTrue
<1>4. ASSUME NEW i \in 1..Len(t), NEW p \in Attached(d), -t[i].literal \in Watches(d, p)
      PROVE  \E l \in ToSet(d.clauses[p]) : IsTrue(t, l)
  <2>1. TrueBy(t, ToSet(d.clauses[p]), t[i].level)
    BY <1>2, <1>4 DEF Settled, SettledTo, ClausesDone
  <2> QED
    BY <2>1 DEF TrueBy, IsTrue
<1>5. ASSUME NEW p \in Attached(d), c = ToSet(d.clauses[p]) PROVE Done
  <2> DEFINE a == d.clauses[p][1]
             b == d.clauses[p][2]
  <2>1. d.clauses[p] \in Seq(Literals) /\ Len(d.clauses[p]) \in Nat
    BY <1>1, DatabaseTypes DEF Attached
  <2>2. Len(d.clauses[p]) >= 3 /\ Distinct(d.clauses[p])
    BY DEF DatabaseOK, ClausesOK
  <2>3. 1 \in 1..Len(d.clauses[p]) /\ 2 \in 1..Len(d.clauses[p])
    BY <2>1, <2>2
  <2>4. a \in c /\ b \in c /\ c \subseteq Literals
    BY <1>5, <2>1, <2>3, ToSetFacts
  <2>5. a # b
    BY <2>2, <2>3 DEF Distinct
  <2>6. Watches(d, p) = {a, b}
    BY DEF Watches
  <2> HIDE DEF a, b
  <2>7. ASSUME NEW x \in {a, b}, IsFalse(t, x) PROVE \E l \in c : IsTrue(t, l)
    <3>1. PICK i \in 1..Len(t) : t[i].literal = -x
      BY <2>7 DEF IsFalse, IsTrue
    <3>2. -t[i].literal = x
      BY <2>4, <3>1, LiteralFacts
    <3> QED
      BY <1>4, <1>5, <2>6, <3>2
  <2>8. CASE IsFalse(t, a) \/ IsFalse(t, b)
    BY <2>7, <2>8
  <2>9. CASE ~IsFalse(t, a) /\ ~IsFalse(t, b)
    BY <2>4, <2>5, <2>9
  <2> QED
    BY <2>8, <2>9
<1>6. ASSUME NEW k \in Literals, NEW m \in ToSet(d.implications[k]), c = {-k, m} PROVE Done
  <2>1. m \in Literals /\ m # -k /\ -k \in Literals /\ -m \in Literals /\ -(-k) = k
    <3>1. m \in Literals
      BY <1>1, DatabaseTypes, ToSetFacts
    <3> QED
      BY <3>1, LiteralFacts DEF DatabaseOK, GraphOK
  <2>2. -k \in ToSet(d.implications[-m])
    BY <1>2, <2>1 DEF IsSymmetric
  <2>3. CASE IsFalse(t, -k)
    <3>1. PICK i \in 1..Len(t) : t[i].literal = k
      BY <2>1, <2>3 DEF IsFalse, IsTrue
    <3> QED
      BY <1>3, <1>6, <3>1
  <2>4. CASE IsFalse(t, m)
    <3>1. PICK i \in 1..Len(t) : t[i].literal = -m
      BY <2>4 DEF IsFalse, IsTrue
    <3> QED
      BY <1>3, <1>6, <2>2, <3>1
  <2>5. CASE ~IsFalse(t, -k) /\ ~IsFalse(t, m)
    <3>1. -k \in c /\ m \in c /\ c \subseteq Literals /\ -k # m
      BY <1>6, <2>1
    <3> QED
      BY <2>5, <3>1
  <2> QED
    BY <2>3, <2>4, <2>5
<1>7. ASSUME NEW i \in 1..Len(t), c = {t[i].literal} PROVE Done
  BY <1>7 DEF IsTrue
<1> HIDE DEF t, Done
<1>8. Done
  BY <1>5, <1>6, <1>7 DEF IsClauseOf, t
<1> QED
  BY <1>8 DEF Done, t

(* Propagation is complete: when both propagators have reached the end of  *)
(* the trail no clause of the database, learned, loaded or simplified, is  *)
(* false or could propagate, after any backjump, restart and clean up.     *)
(* What finding 5 shows of late clauses is the only exception.             *)
THEOREM PropagationIsComplete == ClausesAreNotLate => (Spec => []NothingIsLeftToPropagate)
<1> SUFFICES ASSUME ClausesAreNotLate PROVE Spec => []NothingIsLeftToPropagate
  OBVIOUS
<1>1. ASSUME SolverOK, CompleteOK, Propagated, status # "INFEASIBLE", NEW c \in Database
      PROVE  \/ \E l \in c : IsTrue(trail, l)
             \/ Cardinality({l \in c : ~IsFalse(trail, l)}) > 1
  <2>1. conflict = <<>> /\ binary_index = Len(trail) /\ clause_index = Len(trail)
    BY <1>1 DEF Propagated
  <2>2. status \notin {"INFEASIBLE", "ASSUMPTIONS_UNSAT"}
    BY <1>1, <2>1 DEF CompleteOK
  <2>3. Settled(Now, Len(trail), Len(trail)) /\ DatabaseOK(Now) /\ Now.trail = trail
    BY <1>1, <2>1, <2>2, SettledNow, NowFields DEF SolverOK
  <2>4. IsClauseOf(Now, c)
    BY <1>1, DatabaseClauses
  <2>5. \/ \E l \in c : IsTrue(trail, l)
        \/ \E a, b \in c : a # b /\ c \subseteq Literals /\ ~IsFalse(trail, a) /\ ~IsFalse(trail, b)
    <3>1. PICK d : d = Now
      OBVIOUS
    <3>2. PICK n : n = Len(d.trail)
      OBVIOUS
    <3>3. DatabaseOK(d) /\ Settled(d, n, n) /\ IsClauseOf(d, c) /\ d.trail = trail
      BY <2>3, <2>4, <3>1, <3>2
    <3> QED
      BY <3>2, <3>3, SettledPropagates
  <2> QED
    BY <2>5, TwoFree
<1>2. SolverOK /\ CompleteOK => NothingIsLeftToPropagate
  BY <1>1 DEF NothingIsLeftToPropagate
<1>3. Spec => [](SolverOK /\ CompleteOK)
  BY SolverIsComplete
<1> QED
  BY <1>2, <1>3, PTL

-----------------------------------------------------------------------------
(* Learned clauses are new.  The clauses of the next database.             *)
LEMMA NextDatabaseClauses ==
  ASSUME NEW c
  PROVE  c \in Database' <=> IsClauseOf(Now', c)
<1> DEFINE A == {ToSet(clauses'[p]) : p \in Attached(Now')}
           B == UNION {{{-l, m} : m \in ToSet(implications'[l])} : l \in Literals}
           C == {{trail'[i].literal} : i \in {i \in 1..Len(trail') : trail'[i].level = 0}}
<1>1. Now'.trail = trail' /\ Now'.clauses = clauses' /\ Now'.implications = implications'
  BY DEF Now
<1>2. c \in A <=> \E p \in Attached(Now') : c = ToSet(Now'.clauses[p])
  BY <1>1
<1>3. c \in B <=> \E l \in Literals : \E m \in ToSet(Now'.implications[l]) : c = {-l, m}
  <2>1. c \in B <=> \E l \in Literals : c \in {{-l, m} : m \in ToSet(implications'[l])}
    OBVIOUS
  <2>2. \A l \in Literals : c \in {{-l, m} : m \in ToSet(implications'[l])} <=> \E m \in ToSet(implications'[l]) : c = {-l, m}
    OBVIOUS
  <2> HIDE DEF B
  <2> QED
    BY <1>1, <2>1, <2>2
<1>4. c \in C <=> \E i \in 1..Len(Now'.trail) : Now'.trail[i].level = 0 /\ c = {Now'.trail[i].literal}
  BY <1>1
<1>5. Database' = A \cup B \cup C
  BY DEF Database
<1> HIDE DEF A, B, C
<1> QED
  BY <1>2, <1>3, <1>4, <1>5 DEF IsClauseOf

(* Nothing is added when clauses are removed.                              *)
LEMMA DetachAddsNothing ==
  ASSUME NEW d \in Databases, NEW removed, NEW e, e = Detach(d, removed), NEW c, IsClauseOf(e, c)
  PROVE  IsClauseOf(d, c)
<1>1. /\ e.trail = d.trail /\ e.implications = d.implications
      /\ Attached(e) \subseteq Attached(d)
      /\ \A p \in Attached(e) : e.clauses[p] = d.clauses[p]
  BY DetachFields
<1>2. ASSUME NEW p \in Attached(e), c = ToSet(e.clauses[p]) PROVE IsClauseOf(d, c)
  <2>1. p \in Attached(d) /\ c = ToSet(d.clauses[p])
    BY <1>1, <1>2
  <2> QED
    BY <2>1 DEF IsClauseOf
<1> QED
  BY <1>1, <1>2 DEF IsClauseOf

(* A backjump keeps what is fixed.                                         *)
LEMMA CutKeepsClauses ==
  ASSUME NEW d, DatabaseOK(d), NEW level \in Nat, NEW kept, kept = Backtracked(d.trail, level),
         NEW g, g = WithTrailOf(d, kept), g.clauses = d.clauses, Attached(g) = Attached(d),
         g.implications = d.implications, g.trail = kept, NEW c
  PROVE  IsClauseOf(g, c) <=> IsClauseOf(d, c)
<1> DEFINE t == d.trail
           Fixed(u) == \E i \in 1..Len(u) : u[i].level = 0 /\ c = {u[i].literal}
<1>0. IsTrail(t) /\ kept = Backtracked(t, level)
  BY DEF DatabaseOK
<1>1. /\ \A i \in 1..Len(kept) : kept[i] = t[i] /\ i \in 1..Len(t)
      /\ \A i \in 1..Len(t) : t[i].level <= level <=> i <= Len(kept)
      /\ Len(kept) \in Nat /\ Len(t) \in Nat
  <2> HIDE DEF t
  <2>1. /\ IsTrail(kept)
        /\ \A i \in 1..Len(kept) : kept[i] = t[i] /\ i \in 1..Len(t)
        /\ \A i \in 1..Len(t) : t[i].level <= level <=> i <= Len(kept)
    BY <1>0, BacktrackedFacts
  <2> QED
    BY <1>0, <2>1, TrailEntries
<1>2. ASSUME NEW i \in 1..Len(t), t[i].level = 0 PROVE i \in 1..Len(kept)
  BY <1>1, <1>2
<1>3. Fixed(kept) <=> Fixed(t)
  BY <1>1, <1>2
<1>4. Fixed(g.trail) <=> Fixed(t)
  BY <1>3
<1>5. (\E p \in Attached(g) : c = ToSet(g.clauses[p])) <=> (\E p \in Attached(d) : c = ToSet(d.clauses[p]))
  OBVIOUS
<1>6. g.implications = d.implications
  OBVIOUS
<1> QED
  BY <1>4, <1>5, <1>6, Zenon DEF IsClauseOf

(* What is enqueued above level zero is not fixed.                         *)
LEMMA FixedStays ==
  ASSUME NEW t, IsTrail(t), NEW u, IsTrail(u), Begins(t, u), CurrentLevel(u) = CurrentLevel(t),
         CurrentLevel(t) > 0, NEW i \in 1..Len(u), u[i].level = 0
  PROVE  i \in 1..Len(t) /\ u[i] = t[i]
<1>1. Len(t) \in Nat /\ Len(u) \in Nat /\ CurrentLevel(t) \in Nat
  BY TrailEntries, CurrentLevelFacts
<1>2. PendingFrom(t, Len(t))
  BY <1>1 DEF PendingFrom
<1>3. PendingFrom(u, Len(t))
  BY <1>2, PendingGrows
<1>4. i <= Len(t)
  BY <1>1, <1>3 DEF PendingFrom
<1> QED
  BY <1>1, <1>4 DEF Begins

(* A binary clause is added above level zero.                              *)
LEMMA BinaryIsAdded ==
  ASSUME NEW d, DatabaseOK(d), NEW a \in Literals, NEW b \in Literals, a # b, CurrentLevel(d.trail) > 0,
         NEW e, e = AddBinaryClause(d, a, b), DatabaseOK(e), NEW c, IsClauseOf(e, c)
  PROVE  IsClauseOf(d, c) \/ c = {a, b}
<1>1. /\ e \in Databases /\ e.clauses = d.clauses /\ Attached(e) = Attached(d)
      /\ Begins(d.trail, e.trail) /\ CurrentLevel(e.trail) = CurrentLevel(d.trail)
  BY AddBinaryGrows
<1>2. d \in Databases /\ IsTrail(d.trail) /\ IsTrail(e.trail)
  BY DEF DatabaseOK
<1>3. CASE a = -b
  BY <1>3 DEF AddBinaryClause
<1>4. CASE a # -b
  <2> DEFINE g == WithImplications(d, a, b)
  <2>1. g = WithImplications(d, a, b)
    OBVIOUS
  <2> HIDE DEF g
  <2>2. /\ g \in Databases
        /\ \A l, m \in Literals : m \in ToSet(g.implications[l]) <=>
             m \in ToSet(d.implications[l]) \/ (l = -a /\ m = b) \/ (l = -b /\ m = a)
    <3>1. d \in Databases /\ a \in Literals /\ b \in Literals /\ a # b
      BY <1>2
    <3>2. /\ g \in Databases /\ g.trail = d.trail /\ g.clauses = d.clauses /\ g.watchers = d.watchers
          /\ \A l, m \in Literals : m \in ToSet(g.implications[l]) <=>
               m \in ToSet(d.implications[l]) \/ (l = -a /\ m = b) \/ (l = -b /\ m = a)
          /\ Attached(g) = Attached(d) /\ \A p : Watches(g, p) = Watches(d, p)
      BY <2>1, <3>1, WithImplicationsFields, SMTT(60)
    <3> QED
      BY <3>2, Zenon
  <2>3. \/ e = g
        \/ e = [g EXCEPT !.trail = Enqueued(d.trail, b, CurrentLevel(d.trail), "BINARY", a)]
        \/ e = [g EXCEPT !.trail = Enqueued(d.trail, a, CurrentLevel(d.trail), "BINARY", b)]
    BY <1>2, <1>4, <2>1, AddBinaryClauseCases
  <2>4. e.implications = g.implications
    BY <2>2, <2>3 DEF Databases
  <2>5. ASSUME NEW l \in Literals, NEW m \in ToSet(e.implications[l]), c = {-l, m}
        PROVE  IsClauseOf(d, c) \/ c = {a, b}
    <3>1. m \in Literals
      BY <2>2, <2>4, DatabaseTypes, ToSetFacts
    <3>2. m \in ToSet(d.implications[l]) \/ (l = -a /\ m = b) \/ (l = -b /\ m = a)
      BY <2>2, <2>4, <2>5, <3>1
    <3>3. CASE m \in ToSet(d.implications[l])
      BY <2>5, <3>3 DEF IsClauseOf
    <3>4. CASE l = -a /\ m = b
      BY <2>5, <3>4, LiteralFacts
    <3>5. CASE l = -b /\ m = a
      BY <2>5, <3>5, LiteralFacts
    <3> QED
      BY <3>2, <3>3, <3>4, <3>5
  <2>6. ASSUME NEW i \in 1..Len(e.trail), e.trail[i].level = 0, c = {e.trail[i].literal}
        PROVE  IsClauseOf(d, c)
    <3>1. i \in 1..Len(d.trail) /\ e.trail[i] = d.trail[i]
      BY <1>1, <1>2, <2>6, FixedStays
    <3> QED
      BY <2>6, <3>1 DEF IsClauseOf
  <2>7. ASSUME NEW p \in Attached(e), c = ToSet(e.clauses[p]) PROVE IsClauseOf(d, c)
    BY <1>1, <2>7 DEF IsClauseOf
  <2> QED
    BY <2>5, <2>6, <2>7 DEF IsClauseOf
<1> QED
  BY <1>3, <1>4

(* So is a longer one.                                                     *)
LEMMA ClauseIsAdded ==
  ASSUME NEW d, DatabaseOK(d), NEW literals \in Seq(Literals), Len(literals) >= 3, Distinct(literals),
         \E i \in 1..Len(literals) : ~IsFalse(d.trail, literals[i]), CurrentLevel(d.trail) > 0,
         NEW e, e = Attach(d, literals), NEW c, IsClauseOf(e, c)
  PROVE  IsClauseOf(d, c) \/ c = ToSet(literals)
<1>1. PICK n : n = Len(d.clauses) + 1
  OBVIOUS
<1>2. /\ DatabaseOK(e) /\ Begins(d.trail, e.trail) /\ CurrentLevel(e.trail) = CurrentLevel(d.trail)
      /\ Attached(e) = Attached(d) \cup {n} /\ e.implications = d.implications
      /\ \A p \in 1..Len(d.clauses) : e.clauses[p] = d.clauses[p]
      /\ Reordered(literals, e.clauses[n])
  BY <1>1, AttachIsOK DEF AttachedInOrder
<1>3. IsTrail(d.trail) /\ IsTrail(e.trail)
  BY <1>2 DEF DatabaseOK
<1>4. ASSUME NEW p \in Attached(e), c = ToSet(e.clauses[p])
      PROVE  IsClauseOf(d, c) \/ c = ToSet(literals)
  <2>1. CASE p = n
    <3>1. \A x : x \in ToSet(e.clauses[n]) <=> x \in ToSet(literals)
      BY <1>2 DEF Reordered
    <3> QED
      BY <1>4, <2>1, <3>1
  <2>2. CASE p \in Attached(d)
    <3>1. p \in 1..Len(d.clauses)
      BY <2>2 DEF Attached
    <3> QED
      BY <1>2, <1>4, <2>2, <3>1 DEF IsClauseOf
  <2> QED
    BY <1>2, <2>1, <2>2
<1>5. ASSUME NEW i \in 1..Len(e.trail), e.trail[i].level = 0, c = {e.trail[i].literal}
      PROVE  IsClauseOf(d, c)
  <2>1. i \in 1..Len(d.trail) /\ e.trail[i] = d.trail[i]
    BY <1>2, <1>3, <1>5, FixedStays
  <2> QED
    BY <1>5, <2>1 DEF IsClauseOf
<1> QED
  BY <1>2, <1>4, <1>5 DEF IsClauseOf

(* A unit clause is added, at level zero.                                  *)
LEMMA UnitIsAdded ==
  ASSUME NEW d, DatabaseOK(d), NEW l \in Literals, ~IsAssigned(d.trail, l), CurrentLevel(d.trail) = 0,
         NEW e, e = WithTrailOf(d, Enqueued(d.trail, l, 0, "UNIT", 0)), NEW c, IsClauseOf(e, c)
  PROVE  IsClauseOf(d, c) \/ c = {l}
<1> DEFINE t == d.trail
           u == Enqueued(t, l, 0, "UNIT", 0)
<1>1. d \in Databases /\ IsTrail(t) /\ Len(t) \in Nat
  BY TrailEntries DEF DatabaseOK
<1>2. /\ IsTrail(u) /\ u[Len(u)].literal = l
      /\ \A i \in 1..Len(u) : i \in 1..Len(t) \/ i = Len(u)
      /\ \A i \in 1..Len(t) : i \in 1..Len(u) /\ u[i] = t[i]
  <2>1. /\ u = Enqueued(t, l, 0, "UNIT", 0) /\ ~IsAssigned(t, l) /\ CurrentLevel(t) = 0
        /\ 0 >= CurrentLevel(t) /\ 0 <= Len(t) + 1
    BY <1>1
  <2> HIDE DEF t, u
  <2> QED
    BY <1>1, <2>1, EnqueuedFacts
<1> HIDE DEF u
<1>3. /\ e.trail = u /\ e.clauses = d.clauses /\ e.implications = d.implications
      /\ Attached(e) = Attached(d)
  <2>1. u \in Seq(Entries) /\ e = [d EXCEPT !.trail = u]
    BY <1>2 DEF IsTrail, WithTrailOf, u
  <2> QED
    BY <1>1, <2>1, WithTrail
<1>4. ASSUME NEW i \in 1..Len(u), u[i].level = 0, c = {u[i].literal}
      PROVE  IsClauseOf(d, c) \/ c = {l}
  <2>1. CASE i \in 1..Len(t)
    BY <1>2, <1>4, <2>1 DEF IsClauseOf
  <2>2. CASE i = Len(u)
    BY <1>2, <1>4, <2>2
  <2> QED
    BY <1>2, <2>1, <2>2
<1> QED
  BY <1>3, <1>4 DEF IsClauseOf

(* Nothing else is added when a clause is learned.                         *)
LEMMA OnlyTheLearnedIsAdded ==
  ASSUME NEW d, DatabaseOK(d), NEW literals, Asserting(d.trail, literals),
         Len(literals) # 1 => CurrentLevel(d.trail) > 0,
         NEW is_redundant, LearnClause(d, literals, is_redundant), DatabaseOK(Now'),
         NEW c, IsClauseOf(Now', c)
  PROVE  IsClauseOf(d, c) \/ c = ToSet(literals)
<1> DEFINE t == d.trail
<1>1. d \in Databases /\ IsTrail(t)
  BY DEF DatabaseOK
<1>2. /\ literals \in Seq(Literals) /\ literals # <<>> /\ Distinct(literals) /\ ~IsAssigned(t, literals[1])
      /\ Len(literals) = 1 => CurrentLevel(t) = 0
  BY DEF Asserting
<1>3. Len(literals) \in Nat /\ 1 \in 1..Len(literals)
  BY <1>2
<1>4. /\ \A i \in 1..Len(literals) : literals[i] \in Literals
      /\ \A x : x \in ToSet(literals) <=> \E i \in 1..Len(literals) : literals[i] = x
  BY <1>2, ToSetFacts
<1>5. literals[1] \in Literals /\ ~IsFalse(t, literals[1])
  BY <1>2, <1>3, <1>4 DEF IsAssigned
<1>6. ASSUME Len(literals) = 1,
             DatabaseBecomes([d EXCEPT !.trail = Enqueued(@, literals[1], 0, "UNIT", 0)])
      PROVE  IsClauseOf(d, c) \/ c = ToSet(literals)
  <2> DEFINE u == Enqueued(t, literals[1], 0, "UNIT", 0)
             m == WithTrailOf(d, u)
  <2>1. DatabaseBecomes(m) /\ m = WithTrailOf(d, Enqueued(t, literals[1], 0, "UNIT", 0))
    BY <1>6 DEF WithTrailOf
  <2>2. m \in Databases
    <3>1. u \in Seq(Entries)
      <4>1. u = Enqueued(t, literals[1], 0, "UNIT", 0) /\ CurrentLevel(t) = 0 /\ 0 <= Len(t) + 1
        BY <1>1, <1>2, <1>6, TrailEntries
      <4> HIDE DEF t, u
      <4>2. IsTrail(u)
        BY <1>1, <1>2, <1>5, <4>1, EnqueuedFacts
      <4> QED
        BY <4>2 DEF IsTrail
    <3> HIDE DEF u
    <3>2. m = [d EXCEPT !.trail = u]
      BY DEF WithTrailOf
    <3> HIDE DEF m
    <3> QED
      BY <1>1, <3>1, <3>2, WithTrail
  <2> HIDE DEF m
  <2>3. Now' = m
    BY <2>1, <2>2, NowBecomes
  <2>4. IsClauseOf(d, c) \/ c = {literals[1]}
    BY <1>2, <1>5, <1>6, <2>1, <2>3, UnitIsAdded
  <2>5. ToSet(literals) = {literals[1]}
    <3>1. \A i : i \in 1..Len(literals) <=> i = 1
      BY <1>6
    <3> QED
      BY <1>4, <3>1
  <2> QED
    BY <2>4, <2>5
<1>7. ASSUME Len(literals) = 2, NEW m, m = AddBinaryClause(d, literals[1], literals[2]), DatabaseBecomes(m)
      PROVE  IsClauseOf(d, c) \/ c = ToSet(literals)
  <2>1. literals[2] \in Literals /\ literals[1] # literals[2]
    BY <1>2, <1>4, <1>7 DEF Distinct
  <2>2. {literals[1], literals[2]} = ToSet(literals)
    <3>1. \A i : i \in 1..Len(literals) <=> i = 1 \/ i = 2
      BY <1>7
    <3> QED
      BY <1>4, <3>1
  <2>3. CurrentLevel(t) > 0
    BY <1>7
  <2>4. m \in Databases
    BY <1>5, <1>7, <2>1, AddBinaryGrows
  <2>5. Now' = m
    BY <1>7, <2>4, NowBecomes
  <2>6. IsClauseOf(d, c) \/ c = {literals[1], literals[2]}
    <3> DEFINE a == literals[1]
               b == literals[2]
    <3>1. a \in Literals /\ b \in Literals /\ a # b /\ m = AddBinaryClause(d, a, b)
      BY <1>5, <1>7, <2>1
    <3>2. DatabaseOK(m) /\ IsClauseOf(m, c) /\ CurrentLevel(d.trail) > 0
      BY <2>3, <2>5
    <3> HIDE DEF a, b
    <3>3. IsClauseOf(d, c) \/ c = {a, b}
      BY <3>1, <3>2, BinaryIsAdded
    <3> QED
      BY <3>3 DEF a, b
  <2> QED
    BY <2>2, <2>6
<1>8. ASSUME Len(literals) > 2, NEW forgotten, forgotten \subseteq MayBeForgotten(d),
             NEW m, m = Attach(Detach(d, forgotten), literals), DatabaseBecomes(m)
      PROVE  IsClauseOf(d, c) \/ c = ToSet(literals)
  <2> DEFINE g == Detach(d, forgotten)
  <2>1. NotReasons(t, forgotten)
    BY <1>8, ForgottenAreNotReasons
  <2>2. g = Detach(d, forgotten) /\ m = Attach(g, literals)
    BY <1>8
  <2> HIDE DEF g
  <2>3. DatabaseOK(g) /\ g.trail = t
    BY <1>1, <2>1, <2>2, DetachIsOK, DetachFields DEF NotReasons
  <2>4. Len(literals) >= 3 /\ \E i \in 1..Len(literals) : ~IsFalse(g.trail, literals[i])
    BY <1>3, <1>5, <1>8, <2>3
  <2>5. DatabaseOK(m)
    BY <1>2, <2>2, <2>3, <2>4, AttachIsOK
  <2>6. CurrentLevel(g.trail) > 0
    <3>0. \A i \in Nat : i > 2 => i # 1
      OBVIOUS
    <3>1. Len(literals) # 1
      BY <1>3, <1>8, <3>0, Zenon
    <3> QED
      BY <2>3, <3>1
  <2>7. Now' = m
    BY <1>8, <2>5, NowBecomes DEF DatabaseOK
  <2>8. IsClauseOf(g, c) \/ c = ToSet(literals)
    BY <1>2, <2>2, <2>3, <2>4, <2>6, <2>7, ClauseIsAdded
  <2> QED
    BY <1>1, <2>2, <2>8, DetachAddsNothing
<1>9. \/ /\ Len(literals) = 1
         /\ DatabaseBecomes([d EXCEPT !.trail = Enqueued(@, literals[1], 0, "UNIT", 0)])
      \/ /\ Len(literals) = 2
         /\ \E m \in {AddBinaryClause(d, literals[1], literals[2])} : DatabaseBecomes(m)
      \/ /\ Len(literals) > 2
         /\ \E forgotten \in SUBSET MayBeForgotten(d) :
              \E m \in {Attach(Detach(d, forgotten), literals)} : DatabaseBecomes(m)
  BY DEF LearnClause
<1> QED
  BY <1>6, <1>7, <1>8, <1>9

(* What is learned can still propagate at the level of the backjump, where *)
(* every clause of the database already did: none is part of it.           *)
LEMMA NothingInside ==
  ASSUME NEW d, DatabaseOK(d), NEW n, n = Len(d.trail), Settled(d, n, n),
         NEW s, Asserting(d.trail, s), NEW b, IsClauseOf(d, b)
  PROVE  ~(b \subseteq ToSet(s))
<1> DEFINE t == d.trail
<1>1. SUFFICES ASSUME b \subseteq ToSet(s) PROVE FALSE
  OBVIOUS
<1>2. /\ s \in Seq(Literals) /\ s # <<>> /\ ~IsAssigned(t, s[1])
      /\ \A l \in ToSet(Tail(s)) : IsFalse(t, l)
  BY DEF Asserting
<1>3. IsTrail(t)
  BY DEF DatabaseOK
<1>4. ASSUME NEW l \in ToSet(s) PROVE l = s[1] \/ IsFalse(t, l)
  <2>1. PICK i \in 1..Len(s) : s[i] = l
    BY <1>2, ToSetFacts
  <2>2. CASE i # 1
    <3>1. PICK tail : tail = Tail(s)
      OBVIOUS
    <3>2. tail \in Seq(Literals) /\ i - 1 \in 1..Len(tail) /\ tail[i - 1] = l
      BY <1>2, <2>1, <2>2, <3>1
    <3>3. l \in ToSet(tail)
      BY <3>2, ToSetFacts
    <3> QED
      BY <1>2, <3>1, <3>3
  <2> QED
    BY <2>1, <2>2
<1>5. ASSUME NEW l \in b, IsTrue(t, l) PROVE FALSE
  <2>1. l = s[1] \/ IsFalse(t, l)
    BY <1>1, <1>4
  <2>2. l \in Literals
    BY <1>1, <1>2, ToSetFacts
  <2> QED
    BY <1>2, <1>3, <1>5, <2>1, <2>2, TrailFacts DEF IsAssigned
<1>6. ASSUME NEW x \in b, NEW y \in b, x # y, ~IsFalse(t, x), ~IsFalse(t, y) PROVE FALSE
  <2>1. x = s[1] /\ y = s[1]
    BY <1>1, <1>4, <1>6
  <2> QED
    BY <1>6, <2>1
<1>7. \/ \E l \in b : IsTrue(t, l)
      \/ \E x, y \in b : x # y /\ b \subseteq Literals /\ ~IsFalse(t, x) /\ ~IsFalse(t, y)
  BY SettledPropagates
<1> QED
  BY <1>5, <1>6, <1>7

(* What the propagators have not done is all above the backjump level.     *)
LEMMA CutIsPropagated ==
  ASSUME NEW d, DatabaseOK(d), NEW n \in Nat, NEW k \in Nat, NEW top \in Int, top = CurrentLevel(d.trail) - 1,
         SettledTo(d, n, k, top), NEW level \in Nat, level <= top,
         NEW kept, kept = Backtracked(d.trail, level), NEW g, g = WithTrailOf(d, kept)
  PROVE  Settled(g, Len(kept), Len(kept))
<1> DEFINE t == d.trail
<1>1. IsTrail(t) /\ CurrentLevel(t) \in Nat /\ kept = Backtracked(t, level)
  BY CurrentLevelFacts DEF DatabaseOK
<1>2. PendingFrom(t, n) /\ PendingFrom(t, k)
  BY DEF SettledTo
<1>3. level < CurrentLevel(t)
  BY <1>1
<1> HIDE DEF t
<1>4. /\ IsTrail(kept) /\ \A i \in 1..Len(kept) : kept[i] = t[i] /\ i \in 1..Len(t) /\ kept[i].level <= level
  BY <1>1, BacktrackedFacts
<1>5. PICK m \in Nat : m = Len(kept)
  BY <1>4, TrailEntries
<1>6. ASSUME NEW i \in Nat, PendingFrom(t, i) PROVE m <= i
  <2>1. CASE m > i
    <3>1. m \in 1..Len(kept)
      BY <1>5, <2>1
    <3>2. t[m].level <= level /\ t[m].level = CurrentLevel(t)
      BY <1>4, <1>6, <2>1, <3>1 DEF PendingFrom
    <3> QED
      BY <1>1, <1>3, <3>2
  <2> QED
    BY <2>1
<1>7. m <= n /\ m <= k
  BY <1>2, <1>6
<1>8. Settled(g, m, m)
  BY <1>5, <1>7, CutIsSettled
<1> QED
  BY <1>5, <1>8

(* ProcessCurrentConflict: the only clause that the next database has and  *)
(* this one has not is the one that is learned, and no clause is part of it*)
LEMMA LearnedIsNew ==
  ASSUME SolverOK, CompleteOK, SolverOK', ProcessCurrentConflict, conflict' = <<>>,
         NEW c \in Database' \ Database, NEW b \in Database
  PROVE  ~(b \subseteq c)
<1> DEFINE d == Now
           highest == Max({LevelOf(trail, l) : l \in ToSet(conflict)})
           gives_up == highest = 0 \/ (highest = 1 /\ assumptions # <<>>)
<1>1. /\ status \in Running /\ conflict # <<>>
      /\ IF gives_up THEN UNCHANGED <<database, removable, indices, failure, clean_ups>>
         ELSE BackjumpAndLearn
  BY DEF ProcessCurrentConflict
<1>2. DatabaseOK(d) /\ TypesOK /\ DatabaseOK(Now') /\ FailureIsKnown(d, conflict, failing)
  BY <1>1 DEF SolverOK, ConflictOK
<1>3. d.trail = trail
  BY NowFields
<1>4. d \in Databases /\ IsTrail(trail) /\ CurrentLevel(trail) \in Nat
  BY <1>2, <1>3, CurrentLevelFacts DEF DatabaseOK
<1>5. highest \in Nat /\ \E l \in ToSet(conflict) : LevelOf(trail, l) = highest
  <2>1. conflict \in Seq(Literals) /\ \A l \in ToSet(conflict) : IsFalse(trail, l)
    BY <1>2, <1>3 DEF FailureIsKnown, FalseLiterals
  <2> QED
    BY <1>1, <1>4, <2>1, HighestLevel
<1>6. ~gives_up
  BY <1>1 DEF failure
<1>7. PICK top : top = CurrentLevel(d.trail) - 1 /\ top \in Int
  BY <1>3, <1>4
<1>8. SettledTo(d, binary_index, clause_index, top)
  BY <1>1, <1>3, <1>7 DEF CompleteOK, SettledLevel, LevelAfter, Running
<1>9. binary_index \in Nat /\ clause_index \in Nat
  BY <1>2 DEF TypesOK
<1>10. BackjumpAndLearn
  BY <1>1, <1>6
<1>11. \E l \in ToSet(conflict) : LevelOf(d.trail, l) > 0
  <2>1. highest # 0
    BY <1>6
  <2> HIDE DEF highest
  <2>2. highest > 0
    BY <1>5, <2>1
  <2> QED
    BY <1>3, <1>5, <2>2
<1>12. IsClauseOf(d, b) /\ ~IsClauseOf(d, c) /\ IsClauseOf(Now', c)
  BY DatabaseClauses, NextDatabaseClauses
<1> DEFINE r == Learned(d)
           subsumed == IF config.subsumption_during_conflict_analysis THEN r.subsumed ELSE {}
           level == ComputeBacktrackLevel(trail, r.conflict)
           kept == Backtracked(trail, level)
           g == WithTrailOf(d, kept)
           e == Detach(g, subsumed)
<1> HIDE DEF d, highest, gives_up
<1>13. LearnClause(e, r.conflict, IsRedundant(subsumed))
  BY <1>10 DEF BackjumpAndLearn, WithTrailOf, d
<1>14. subsumed \subseteq r.subsumed
  OBVIOUS
<1>15. /\ r = Learned(d) /\ level = ComputeBacktrackLevel(d.trail, r.conflict)
       /\ kept = Backtracked(d.trail, level) /\ g = WithTrailOf(d, kept) /\ e = Detach(g, subsumed)
  BY <1>3
<1>16. level = Max({0} \cup {LevelOf(trail, l) : l \in ToSet(Tail(r.conflict))})
  BY DEF ComputeBacktrackLevel
<1> HIDE DEF r, subsumed, level, kept, g, e
<1>17. PICK first \in Nat \ {0} : LearnedOK(d, first, r)
  BY <1>2, <1>11, <1>15, LearnedIsOK
<1>18. /\ DatabaseOK(g) /\ g.trail = kept /\ g.clauses = d.clauses /\ Attached(g) = Attached(d)
       /\ g.implications = d.implications /\ level \in Nat
       /\ Asserting(kept, r.conflict) /\ NotReasons(kept, r.subsumed)
  BY <1>2, <1>15, <1>17, BackjumpIsOK
<1>19. level <= top
  <2>1. /\ r.conflict \in Seq(Literals) /\ r.conflict # <<>> /\ IsFalse(trail, r.conflict[1])
        /\ LevelOf(trail, r.conflict[1]) = first
        /\ \A l \in ToSet(Tail(r.conflict)) : IsLower(trail, first, l)
    BY <1>3, <1>17 DEF LearnedOK
  <2>2. Tail(r.conflict) \in Seq(Literals) /\ r.conflict[1] \in Literals
    BY <2>1
  <2>3. level \in Nat /\ level < first
    BY <1>4, <1>16, <2>1, <2>2, BacktrackLevelFacts
  <2>4. first <= CurrentLevel(trail)
    BY <1>4, <2>1, <2>2, TrailFacts, CurrentLevelFacts DEF IsAssigned
  <2> QED
    BY <1>3, <1>4, <1>7, <2>3, <2>4
<1>20. Settled(g, Len(kept), Len(kept))
  BY <1>2, <1>7, <1>8, <1>9, <1>15, <1>18, <1>19, CutIsPropagated
<1>21. IsClauseOf(g, b) /\ ~IsClauseOf(g, c)
  BY <1>2, <1>12, <1>15, <1>18, CutKeepsClauses
<1>22. ~(b \subseteq ToSet(r.conflict))
  BY <1>18, <1>20, <1>21, NothingInside
<1>23. DatabaseOK(e)
  <2>1. \A i \in 1..Len(g.trail) : g.trail[i].type = "CLAUSE" /\ g.trail[i].level > 0 => g.trail[i].by \notin subsumed
    BY <1>14, <1>18 DEF NotReasons
  <2> QED
    BY <1>15, <1>18, <2>1, DetachIsOK
<1>24. g \in Databases
  BY <1>18 DEF DatabaseOK
<1>25. e.trail = kept
  BY <1>15, <1>18, <1>24, DetachFields
<1>26. ~IsClauseOf(e, c)
  BY <1>15, <1>21, <1>24, DetachAddsNothing
<1>27. Len(r.conflict) # 1 => CurrentLevel(e.trail) > 0
  BY <1>2, <1>15, <1>17, <1>25, LearnedFits
<1>28. c = ToSet(r.conflict)
  BY <1>2, <1>12, <1>13, <1>18, <1>23, <1>25, <1>26, <1>27, OnlyTheLearnedIsAdded
<1> QED
  BY <1>22, <1>28

(* No other action ends a conflict and goes on.                            *)
LEMMA OnlyLearningEndsAConflict ==
  ASSUME CompleteOK, Next, conflict # <<>>, conflict' = <<>>, status' = status
  PROVE  ProcessCurrentConflict
<1>1. ~Propagated
  BY DEF Propagated
<1>2. ~PropagateBinary /\ ~PropagateClauses
  BY DEF PropagateBinary, PropagateClauses
<1>3. ~Load /\ ~Start
  BY <1>1 DEF Load, Start
<1>4. ~Ask
  <2>1. Ask => status' = "resetting" /\ ((status = "loading" /\ Propagated) \/ status \in {"FEASIBLE", "ASSUMPTIONS_UNSAT"})
    BY DEF Ask
  <2> QED
    BY <1>1, <2>1
<1>5. ~Searching
  BY <1>1 DEF Searching
<1>6. ~ReapplyAssumptions /\ ~Leaf
  BY <1>5 DEF ReapplyAssumptions, Leaf
<1>7. \A restart, process, l : ~EnqueueNewDecision(restart, process, l)
  BY <1>5 DEF EnqueueNewDecision
<1>8. \A c : ~AddClauseDuringSearch(c)
  BY <1>5 DEF AddClauseDuringSearch
<1> QED
  BY <1>2, <1>3, <1>4, <1>6, <1>7, <1>8 DEF Next

(* What is learned tells something new: no clause of the database is part  *)
(* of a learned clause, because each clause has propagated what it could   *)
(* at the level of the backjump, where the learned clause still has a      *)
(* literal to propagate.                                                   *)
THEOREM LearnedAreNew == ClausesAreNotLate => (Spec => LearnedClausesAreNew)
<1> SUFFICES ASSUME ClausesAreNotLate PROVE Spec => LearnedClausesAreNew
  OBVIOUS
<1> DEFINE IsNew == conflict # <<>> /\ conflict' = <<>> /\ status' = status =>
                      \A c \in Database' \ Database : \A b \in Database : ~(b \subseteq c)
<1>1. ASSUME SolverOK, CompleteOK, SolverOK', Next PROVE IsNew
  <2>1. SUFFICES ASSUME conflict # <<>>, conflict' = <<>>, status' = status,
                        NEW c \in Database' \ Database, NEW b \in Database
                 PROVE  ~(b \subseteq c)
    OBVIOUS
  <2>2. ProcessCurrentConflict
    BY <1>1, <2>1, OnlyLearningEndsAConflict
  <2> QED
    BY <1>1, <2>1, <2>2, LearnedIsNew
<1>2. SolverOK /\ CompleteOK /\ SolverOK' /\ [Next]_vars => [IsNew]_vars
  BY <1>1
<1>3. Spec => [](SolverOK /\ CompleteOK)
  BY SolverIsComplete
<1>4. [][IsNew]_vars => LearnedClausesAreNew
  BY DEF LearnedClausesAreNew
<1> QED
  BY <1>2, <1>3, <1>4, PTL DEF Spec

-----------------------------------------------------------------------------
(* Nothing is forgotten: an assignment that satisfies what is fixed, the   *)
(* implications and the clauses that are not removable is a solution.      *)
CoreModels(s, d, forgettable) ==
  /\ \A c \in Attached(d) \ forgettable : Satisfies(s, d.clauses[c])
  /\ SatisfiesGraph(s, d) /\ SatisfiesFixed(s, d.trail)

(* A trail that goes on still has what was fixed.                          *)
LEMMA FixedBefore ==
  ASSUME NEW s, NEW t, IsTrail(t), NEW u, IsTrail(u), Begins(t, u), SatisfiesFixed(s, u)
  PROVE  SatisfiesFixed(s, t)
<1>1. \A i \in 1..Len(t) : t[i] = u[i] /\ i \in 1..Len(u)
  BY TrailEntries DEF Begins
<1> QED
  BY <1>1 DEF SatisfiesFixed

(* ... and so does one that is cut, at any level.                          *)
LEMMA FixedIsKept ==
  ASSUME NEW s, NEW t, IsTrail(t), NEW level \in Nat, NEW kept, kept = Backtracked(t, level),
         SatisfiesFixed(s, kept)
  PROVE  SatisfiesFixed(s, t)
<1>1. /\ \A i \in 1..Len(kept) : kept[i] = t[i]
      /\ \A i \in 1..Len(t) : t[i].level <= level <=> i <= Len(kept)
      /\ Len(kept) \in Nat /\ Len(t) \in Nat
  BY BacktrackedFacts, TrailEntries
<1> SUFFICES ASSUME NEW i \in 1..Len(t), t[i].level = 0 PROVE t[i].literal \in s
  BY DEF SatisfiesFixed
<1>2. i \in 1..Len(kept)
  BY <1>1
<1> QED
  BY <1>1, <1>2 DEF SatisfiesFixed

(* More may be forgotten.                                                  *)
LEMMA FewerAreKept ==
  ASSUME NEW s, NEW d, NEW P, NEW Q, CoreModels(s, d, P), \A c \in Attached(d) : c \in P => c \in Q
  PROVE  CoreModels(s, d, Q)
BY DEF CoreModels

(* The propagators only reorder clauses and add to the trail.              *)
LEMMA CoreOfGrown ==
  ASSUME NEW s, NEW d, DatabaseOK(d), NEW e, DatabaseOK(e), SameClausesSince(d, e),
         e.implications = d.implications, Begins(d.trail, e.trail), NEW P, CoreModels(s, e, P)
  PROVE  CoreModels(s, d, P)
<1>1. Attached(e) = Attached(d) /\ \A c \in Attached(d) : ToSet(e.clauses[c]) = ToSet(d.clauses[c])
  BY DEF SameClausesSince, Reordered
<1>2. SatisfiesFixed(s, d.trail)
  BY FixedBefore DEF CoreModels, DatabaseOK
<1> QED
  BY <1>1, <1>2 DEF CoreModels, Satisfies, SatisfiesGraph

(* Only the trail changes, which goes on or is cut.                        *)
LEMMA CoreOfTrail ==
  ASSUME NEW s, NEW d, NEW e, e.clauses = d.clauses, e.implications = d.implications,
         Attached(e) = Attached(d), SatisfiesFixed(s, e.trail) => SatisfiesFixed(s, d.trail),
         NEW P, CoreModels(s, e, P)
  PROVE  CoreModels(s, d, P)
BY DEF CoreModels, SatisfiesGraph

(* Clauses are removed that may be forgotten, or that hold.                *)
LEMMA CoreOfDetached ==
  ASSUME NEW s, NEW d \in Databases, NEW removed, NEW e, e = Detach(d, removed), NEW P,
         CoreModels(s, e, P),
         \A c \in Attached(d) : c \in removed => c \in P \/ Satisfies(s, d.clauses[c])
  PROVE  CoreModels(s, d, P)
<1>1. /\ e.trail = d.trail /\ e.implications = d.implications /\ Attached(e) = Attached(d) \ removed
      /\ \A c \in Attached(e) : e.clauses[c] = d.clauses[c]
  BY DetachFields
<1>2. ASSUME NEW c \in Attached(d) \ P PROVE Satisfies(s, d.clauses[c])
  <2>1. CASE c \in removed
    BY <2>1
  <2>2. CASE c \notin removed
    BY <1>1, <2>2 DEF CoreModels
  <2> QED
    BY <2>1, <2>2
<1> QED
  BY <1>1, <1>2 DEF CoreModels, SatisfiesGraph

(* A clause of two literals is added.                                      *)
LEMMA CoreOfBinary ==
  ASSUME NEW s \in Assignments, NEW d, DatabaseOK(d), NEW a \in Literals, NEW b \in Literals, a # b,
         NEW e, e = AddBinaryClause(d, a, b), NEW P, CoreModels(s, e, P)
  PROVE  CoreModels(s, d, P) /\ (a \in s \/ b \in s)
<1>1. /\ DatabaseOK(e) /\ e.clauses = d.clauses /\ Attached(e) = Attached(d) /\ Begins(d.trail, e.trail)
  BY AddBinaryGrows, AddBinaryClauseIsOK
<1>2. d \in Databases /\ IsTrail(d.trail) /\ IsTrail(e.trail) /\ -a \in Literals /\ -b \in Literals
  BY <1>1, LiteralFacts DEF DatabaseOK
<1>3. SatisfiesFixed(s, d.trail)
  BY <1>1, <1>2, FixedBefore DEF CoreModels
<1>4. CASE a = -b
  <2>1. e = d
    BY <1>4 DEF AddBinaryClause
  <2>2. b \in s <=> -b \notin s
    BY AssignmentFacts
  <2> QED
    BY <1>4, <2>1, <2>2
<1>5. CASE a # -b
  <2> DEFINE g == WithImplications(d, a, b)
  <2>1. g = WithImplications(d, a, b)
    OBVIOUS
  <2> HIDE DEF g
  <2>2. /\ g \in Databases
        /\ \A l, m \in Literals : m \in ToSet(g.implications[l]) <=>
             m \in ToSet(d.implications[l]) \/ (l = -a /\ m = b) \/ (l = -b /\ m = a)
    <3>1. d \in Databases /\ a \in Literals /\ b \in Literals /\ a # b
      BY <1>2
    <3>2. /\ g \in Databases /\ g.trail = d.trail /\ g.clauses = d.clauses /\ g.watchers = d.watchers
          /\ \A l, m \in Literals : m \in ToSet(g.implications[l]) <=>
               m \in ToSet(d.implications[l]) \/ (l = -a /\ m = b) \/ (l = -b /\ m = a)
          /\ Attached(g) = Attached(d) /\ \A p : Watches(g, p) = Watches(d, p)
      BY <2>1, <3>1, WithImplicationsFields, SMTT(60)
    <3> QED
      BY <3>2, Zenon
  <2>3. \/ e = g
        \/ e = [g EXCEPT !.trail = Enqueued(d.trail, b, CurrentLevel(d.trail), "BINARY", a)]
        \/ e = [g EXCEPT !.trail = Enqueued(d.trail, a, CurrentLevel(d.trail), "BINARY", b)]
    BY <1>2, <1>5, <2>1, AddBinaryClauseCases
  <2>4. e.implications = g.implications
    BY <2>2, <2>3 DEF Databases
  <2>5. SatisfiesGraph(s, d)
    BY <2>2, <2>4 DEF CoreModels, SatisfiesGraph
  <2>6. -a \in s => b \in s
    BY <1>2, <2>2, <2>4 DEF CoreModels, SatisfiesGraph
  <2>7. a \in s <=> -a \notin s
    BY AssignmentFacts
  <2> QED
    BY <1>1, <1>3, <2>5, <2>6, <2>7 DEF CoreModels
<1> QED
  BY <1>4, <1>5

(* A longer clause is added; it holds when it may not be forgotten.        *)
LEMMA CoreOfAttached ==
  ASSUME NEW s, NEW d, DatabaseOK(d), NEW literals \in Seq(Literals), Len(literals) >= 3, Distinct(literals),
         \E i \in 1..Len(literals) : ~IsFalse(d.trail, literals[i]),
         NEW e, e = Attach(d, literals), NEW P, CoreModels(s, e, P)
  PROVE  CoreModels(s, d, P) /\ (Len(d.clauses) + 1 \notin P => Satisfies(s, literals))
<1> DEFINE n == Len(d.clauses) + 1
<1>1. n = Len(d.clauses) + 1
  OBVIOUS
<1> HIDE DEF n
<1>2. /\ DatabaseOK(e) /\ Begins(d.trail, e.trail) /\ Attached(e) = Attached(d) \cup {n}
      /\ e.implications = d.implications /\ \A c \in 1..Len(d.clauses) : e.clauses[c] = d.clauses[c]
      /\ AttachedInOrder(d.trail, literals, e.clauses[n])
  BY <1>1, AttachIsOK
<1>3. SatisfiesFixed(s, d.trail)
  BY <1>2, FixedBefore DEF CoreModels, DatabaseOK
<1>4. \A c \in Attached(d) : e.clauses[c] = d.clauses[c] /\ c \in Attached(e)
  BY <1>2 DEF Attached
<1>5. ToSet(e.clauses[n]) = ToSet(literals)
  BY <1>2 DEF AttachedInOrder, Reordered
<1>6. n \notin P => Satisfies(s, literals)
  BY <1>2, <1>5 DEF CoreModels, Satisfies
<1> QED
  BY <1>1, <1>2, <1>3, <1>4, <1>6 DEF CoreModels, SatisfiesGraph
(* A clause of the problem is added.                                       *)
LEMMA CoreOfProblemClause ==
  ASSUME NEW s \in Assignments, NEW d, DatabaseOK(d), CurrentLevel(d.trail) = 0,
         NEW c, c \subseteq Literals, \E l \in c : ~IsFalse(d.trail, l),
         NEW e, e = AddProblemClause(d, c), NEW P, Len(d.clauses) + 1 \notin P, CoreModels(s, e, P)
  PROVE  CoreModels(s, d, P) /\ c \cap s # {}
<1> DEFINE set == {l \in c : ~IsFalse(d.trail, l)}
           literals == Sorted(set)
<1>1. d \in Databases /\ IsTrail(d.trail) /\ Len(d.trail) \in Nat
  BY TrailEntries DEF DatabaseOK
<1>2. CASE \E l \in c : IsTrue(d.trail, l) \/ -l \in c
  <2>1. e = d
    BY <1>2 DEF AddProblemClause
  <2>2. PICK l \in c : IsTrue(d.trail, l) \/ -l \in c
    BY <1>2
  <2>3. l \in Literals
    BY <2>2
  <2>4. IsTrue(d.trail, l) => l \in s
    BY <1>1, <2>1, <2>3, AssignedForAssignment DEF CoreModels
  <2>5. l \in s <=> -l \notin s
    BY <2>3, AssignmentFacts
  <2> QED
    BY <2>1, <2>2, <2>4, <2>5
<1>3. CASE ~\E l \in c : IsTrue(d.trail, l) \/ -l \in c
  <2>10. \A l \in set : l \in c /\ ~IsFalse(d.trail, l)
    OBVIOUS
  <2>11. set # {}
    OBVIOUS
  <2>4. e = CASE Len(literals) = 1 -> [d EXCEPT !.trail = Enqueued(@, literals[1], 0, "UNIT", 0)]
              [] Len(literals) = 2 -> AddBinaryClause(d, literals[1], literals[2])
              [] OTHER -> Attach(d, literals)
    BY <1>3 DEF AddProblemClause
  <2> HIDE DEF set
  <2>1. /\ literals \in Seq(Literals) /\ Len(literals) \in Nat /\ ToSet(literals) = set /\ Distinct(literals)
    <3>1. set \subseteq Literals
      BY <2>10
    <3> QED
      BY <3>1, SortedFacts
  <2> HIDE DEF literals
  <2>3. Len(literals) >= 1
    BY <2>1, <2>11, ToSetFacts
  <2>5. \A l \in ToSet(literals) : l \in Literals /\ l \in c /\ ~IsAssigned(d.trail, l)
    BY <1>3, <2>10, <2>1 DEF IsAssigned
  <2>6. \A i \in 1..Len(literals) : literals[i] \in ToSet(literals)
    BY <2>1, ToSetFacts
  <2>7. CASE Len(literals) = 1
    <3> DEFINE l == literals[1]
               level == 0
               type == "UNIT"
               u == Enqueued(d.trail, l, level, type, 0)
    <3>1. e = WithTrailOf(d, u)
      BY <2>4, <2>7 DEF WithTrailOf
    <3>2. l \in Literals /\ l \in c /\ ~IsAssigned(d.trail, l)
      BY <2>5, <2>6, <2>7
    <3>3. level \in Nat /\ level >= CurrentLevel(d.trail) /\ level <= Len(d.trail) + 1
          /\ ((type = "DECISION" /\ level > 0) \/ (type = "UNIT" /\ level = 0)) /\ level = 0
          /\ u = Enqueued(d.trail, l, level, type, 0)
      BY <1>1
    <3> HIDE DEF u, level, type, l
    <3>4. /\ IsTrail(u) /\ Begins(d.trail, u) /\ Len(u) = Len(d.trail) + 1
          /\ u[Len(u)].level = level /\ u[Len(u)].literal = l /\ e.trail = u /\ e.clauses = d.clauses
          /\ e.implications = d.implications /\ Attached(e) = Attached(d)
      BY <3>1, <3>2, <3>3, FreeEntry
    <3>5. SatisfiesFixed(s, d.trail)
      BY <1>1, <3>4, FixedBefore DEF CoreModels
    <3>6. Len(u) \in 1..Len(u)
      BY <1>1, <3>4
    <3>7. l \in s
      BY <3>3, <3>4, <3>6 DEF CoreModels, SatisfiesFixed
    <3> QED
      BY <3>2, <3>4, <3>5, <3>7, CoreOfTrail
  <2>8. CASE Len(literals) = 2
    <3> DEFINE a == literals[1]
               b == literals[2]
    <3>1. e = AddBinaryClause(d, a, b)
      BY <2>4, <2>8
    <3>2. a \in Literals /\ b \in Literals /\ a # b /\ a \in c /\ b \in c
      BY <2>1, <2>5, <2>6, <2>8 DEF Distinct
    <3> HIDE DEF a, b
    <3> QED
      BY <3>1, <3>2, CoreOfBinary
  <2>9. CASE Len(literals) >= 3
    <3>0. Len(literals) # 1 /\ Len(literals) # 2
      <4>1. \A k \in Nat : k >= 3 => k # 1 /\ k # 2
        OBVIOUS
      <4> QED
        BY <2>1, <2>9, <4>1, Zenon
    <3>1. e = Attach(d, literals)
      BY <2>4, <3>0
    <3>2. \E i \in 1..Len(literals) : ~IsFalse(d.trail, literals[i])
      <4>1. 1 \in 1..Len(literals)
        BY <2>9
      <4> QED
        BY <2>5, <2>6, <4>1 DEF IsAssigned
    <3>3. CoreModels(s, d, P) /\ Satisfies(s, literals)
      BY <2>1, <2>9, <3>1, <3>2, CoreOfAttached
    <3>4. PICK l \in ToSet(literals) : l \in s
      BY <3>3 DEF Satisfies
    <3> QED
      BY <2>5, <3>3, <3>4
  <2> QED
    <3>0. \A k \in Nat : k >= 1 => k = 1 \/ k = 2 \/ k >= 3
      OBVIOUS
    <3>1. Len(literals) = 1 \/ Len(literals) = 2 \/ Len(literals) >= 3
      BY <2>1, <2>3, <3>0, Zenon
    <3> QED
      BY <3>1, <2>7, <2>8, <2>9
<1> QED
  BY <1>2, <1>3

(* The simplification removes a clause that is always true, shortens one,  *)
(* or moves it to the implications.                                        *)
HoldsWhenAlwaysTrue(d, c) ==
  c \in Attached(d) /\ IsAlwaysTrue(d.trail, d.clauses[c]) =>
    \E l \in ToSet(d.clauses[c]) : IsTrue(d.trail, l)

\* Deleting false literals keeps the core's models.
LEMMA CoreOfWithoutFixed ==
  ASSUME NEW a \in Assignments, NEW d, DatabaseOK(d), CurrentLevel(d.trail) = 0,
         NEW c \in 1..Len(d.clauses), HoldsWhenAlwaysTrue(d, c), NEW e, e = WithoutFixed(d, c),
         NEW P, CoreModels(a, e, P)
  PROVE  CoreModels(a, d, P)
<1> DEFINE s == d.clauses[c]
           set == {l \in ToSet(s) : ~IsAssigned(d.trail, l)}
           literals == Only(s, set)
           removed == {c}
<1>1. d \in Databases /\ IsTrail(d.trail) /\ ClausesOK(d)
  BY DEF DatabaseOK
<1>2. CASE IsRemoved(d, c)
  BY <1>2 DEF WithoutFixed
<1>3. CASE ~IsRemoved(d, c) /\ IsAlwaysTrue(d.trail, s)
  <2>1. e = Detach(d, removed)
    BY <1>3 DEF WithoutFixed
  <2>2. c \in Attached(d) /\ ToSet(s) \subseteq Literals
    <3>1. c \in Attached(d)
      BY <1>3 DEF Attached
    <3> HIDE DEF set, literals
    <3> QED
      BY <1>1, <3>1, AttachedClause
  <2>3. PICK l \in ToSet(s) : IsTrue(d.trail, l)
    BY <1>3, <2>2 DEF HoldsWhenAlwaysTrue
  <2>4. e.trail = d.trail
    BY <1>1, <2>1, DetachFields
  <2>5. l \in a
    BY <1>1, <2>2, <2>3, <2>4, AssignedForAssignment DEF CoreModels
  <2>6. Satisfies(a, s)
    BY <2>3, <2>5 DEF Satisfies
  <2>7. \A k \in Attached(d) : k \in removed => k \in P \/ Satisfies(a, d.clauses[k])
    BY <2>6
  <2> HIDE DEF removed, s, set, literals
  <2> QED
    BY <1>1, <2>1, <2>7, CoreOfDetached
<1>4. CASE ~IsRemoved(d, c) /\ ~IsAlwaysTrue(d.trail, s)
  <2>1. c \in Attached(d) /\ s \in Seq(Literals) /\ Distinct(s)
    <3>1. c \in Attached(d)
      BY <1>4 DEF Attached
    <3> HIDE DEF set, literals
    <3> QED
      BY <1>1, <3>1, AttachedClause
  <2>3. /\ literals \in Seq(Literals) /\ Distinct(literals) /\ Len(literals) \in Nat
        /\ \A x : x \in ToSet(literals) => x \in ToSet(s)
        /\ literals # <<>>
    <3>1. s[1] \in ToSet(s) /\ s[1] \in set
      <4>1. s[1] \in ToSet(s)
        <5> HIDE DEF set, literals
        <5> QED
          BY <1>1, <2>1, AttachedClause
      <4> QED
        BY <1>4, <4>1 DEF IsAlwaysTrue
    <3> HIDE DEF s, set
    <3>2. /\ literals \in Seq(Literals) /\ Distinct(literals)
          /\ \A x : x \in ToSet(literals) <=> x \in ToSet(s) /\ x \in set
      BY <2>1, OnlyFacts
    <3> HIDE DEF literals
    <3>3. s[1] \in ToSet(literals) /\ Len(literals) \in Nat
      BY <3>1, <3>2
    <3>4. ToSet(<<>>) = {}
      BY DEF ToSet
    <3> QED
      BY <3>2, <3>3, <3>4
  <2>4. e = IF Len(literals) = 2 THEN Detach(AddBinaryClause(d, literals[1], literals[2]), {c})
            ELSE WithClauseAs(d, c, literals)
    BY <1>4 DEF WithoutFixed, WithClauseAs, Replaced
  <2> HIDE DEF literals, set
  <2>6. CASE Len(literals) = 2
    <3> DEFINE x == literals[1]
               y == literals[2]
               g == AddBinaryClause(d, x, y)
    <3>1. e = Detach(g, removed)
      BY <2>4, <2>6
    <3>2. x \in Literals /\ y \in Literals /\ x # y /\ x \in ToSet(s) /\ y \in ToSet(s)
      <4>1. 1 \in 1..Len(literals) /\ 2 \in 1..Len(literals)
        BY <2>6
      <4>2. literals[1] # literals[2]
        BY <2>3, <4>1 DEF Distinct
      <4>3. literals[1] \in ToSet(literals) /\ literals[2] \in ToSet(literals)
        BY <2>3, <4>1, ToSetFacts
      <4> QED
        BY <2>3, <4>1, <4>2, <4>3
    <3>3. g = AddBinaryClause(d, x, y) /\ \A k : k \in removed <=> k = c
      OBVIOUS
    <3> HIDE DEF x, y, g, removed, s
    <3>4. DatabaseOK(g) /\ g \in Databases /\ g.clauses = d.clauses /\ Attached(g) = Attached(d)
      BY <3>2, <3>3, AddBinaryClauseIsOK, AddBinaryGrows
    <3>5. CoreModels(a, e, P \cup removed)
      BY FewerAreKept
    <3>6. CoreModels(a, g, P \cup removed)
      BY <3>1, <3>4, <3>5, CoreOfDetached
    <3>7. CoreModels(a, d, P \cup removed) /\ (x \in a \/ y \in a)
      BY <3>2, <3>3, <3>6, CoreOfBinary
    <3>8. Satisfies(a, d.clauses[c])
      BY <3>2, <3>7 DEF Satisfies, s
    <3> QED
      BY <3>3, <3>7, <3>8 DEF CoreModels
  <2>7. CASE Len(literals) # 2
    <3>1. e = WithClauseAs(d, c, literals)
      BY <2>4, <2>7
    <3>2. /\ e.trail = d.trail /\ e.implications = d.implications /\ Len(e.clauses) = Len(d.clauses)
          /\ e.clauses[c] = literals /\ \A k \in 1..Len(d.clauses) : k # c => e.clauses[k] = d.clauses[k]
      BY <1>1, <2>3, <3>1, ReplacedClause
    <3>3. c \in Attached(e)
      BY <2>3, <3>2 DEF Attached, IsRemoved
    <3>4. ASSUME NEW k \in Attached(d) \ P PROVE Satisfies(a, d.clauses[k])
      <4>1. k \in 1..Len(d.clauses) /\ d.clauses[k] # <<>>
        BY DEF Attached, IsRemoved
      <4>2. CASE k = c
        <5>1. Satisfies(a, literals)
          BY <3>2, <3>3, <4>2 DEF CoreModels
        <5> QED
          BY <2>3, <4>2, <5>1 DEF Satisfies
      <4>3. CASE k # c
        <5>1. k \in Attached(e) /\ e.clauses[k] = d.clauses[k]
          BY <3>2, <4>1, <4>3 DEF Attached, IsRemoved
        <5> QED
          BY <5>1 DEF CoreModels
      <4> QED
        BY <4>2, <4>3
    <3> QED
      BY <3>2, <3>4 DEF CoreModels, SatisfiesGraph
  <2> QED
    BY <2>6, <2>7
<1> QED
  BY <1>2, <1>3, <1>4
(* All of them.                                                            *)
LEMMA CoreOfAllWithoutFixed ==
  ASSUME NEW a \in Assignments, NEW d, DatabaseOK(d), CurrentLevel(d.trail) = 0,
         \A c \in 1..Len(d.clauses) : HoldsWhenAlwaysTrue(d, c),
         NEW e, e = AllWithoutFixed(d), NEW P, CoreModels(a, e, P)
  PROVE  CoreModels(a, d, P)
<1> DEFINE n == Len(d.clauses)
<1>1. n \in Nat
  BY DatabaseTypes DEF DatabaseOK
<1>2. PICK f : /\ f[0] = d
               /\ \A i \in 1..n : f[i] = WithoutFixed(f[i - 1], i)
               /\ AllWithoutFixed(d) = f[n]
  BY <1>1, WithoutFixedLoop
<1> HIDE DEF n
<1> DEFINE Same(i) == \A c \in 1..n : c > i => f[i].clauses[c] = d.clauses[c]
           Step(i) == /\ DatabaseOK(f[i]) /\ f[i].trail = d.trail /\ Len(f[i].clauses) = n /\ Same(i)
                      /\ CoreModels(a, f[i], P) => CoreModels(a, d, P)
           S == {i \in Nat : i <= n => Step(i)}
<1>3. 0 \in S
  BY <1>2 DEF n
<1>4. \A i \in Nat : i \in S => i + 1 \in S
  <2> HIDE DEF Step
  <2> SUFFICES ASSUME NEW i \in Nat, Step(i), i + 1 <= n PROVE Step(i + 1)
    BY <1>1
  <2> USE DEF Step
  <2> DEFINE before == f[i]
             after == f[i + 1]
             k == i + 1
  <2>1. k \in 1..n /\ k - 1 = i
    BY <1>1
  <2>2. after = WithoutFixed(before, k)
    BY <1>2, <2>1
  <2>3. DatabaseOK(before) /\ before.trail = d.trail /\ Len(before.clauses) = n
        /\ before.clauses[k] = d.clauses[k]
    BY <2>1
  <2>4. CoreModels(a, before, P) => CoreModels(a, d, P)
    OBVIOUS
  <2>5. \A c \in 1..n : c > i => before.clauses[c] = d.clauses[c]
    OBVIOUS
  <2> HIDE DEF before, after, k, Step
  <2>6. /\ DatabaseOK(after) /\ after.trail = before.trail /\ Len(after.clauses) = Len(before.clauses)
        /\ \A c \in 1..Len(before.clauses) : c # k => after.clauses[c] = before.clauses[c]
    BY <2>1, <2>2, <2>3, WithoutFixedIsOK
  <2>7. HoldsWhenAlwaysTrue(before, k)
    <3>1. k \in Attached(before) => k \in Attached(d)
      BY <2>1, <2>3 DEF Attached, IsRemoved, n
    <3>2. HoldsWhenAlwaysTrue(d, k)
      BY <2>1 DEF n
    <3> QED
      BY <2>3, <3>1, <3>2 DEF HoldsWhenAlwaysTrue
  <2>8. CoreModels(a, after, P) => CoreModels(a, before, P)
    BY <2>1, <2>2, <2>3, <2>7, CoreOfWithoutFixed
  <2>9. \A c \in 1..n : c > k => after.clauses[c] = d.clauses[c]
    BY <1>1, <2>1, <2>3, <2>5, <2>6
  <2> QED
    BY <2>3, <2>4, <2>6, <2>8, <2>9 DEF Step, after, k
<1>5. Step(n)
  <2> HIDE DEF S, Step
  <2>1. n \in S
    BY <1>1, <1>3, <1>4, SetInduction
  <2> QED
    BY <1>1, <2>1 DEF S
<1> QED
  BY <1>2, <1>5

(* A clause with a watched literal that is assigned holds, when all of the *)
(* trail was propagated.                                                   *)
LEMMA WatchedHold ==
  ASSUME NEW d, DatabaseOK(d), CurrentLevel(d.trail) = 0, NEW n, n = Len(d.trail), Settled(d, n, n),
         NEW c \in 1..Len(d.clauses)
  PROVE  HoldsWhenAlwaysTrue(d, c)
<1> DEFINE t == d.trail
           s == d.clauses[c]
<1> SUFFICES ASSUME c \in Attached(d), IsAlwaysTrue(t, s) PROVE \E l \in ToSet(s) : IsTrue(t, l)
  BY DEF HoldsWhenAlwaysTrue
<1>1. d \in Databases /\ IsTrail(t) /\ ClausesOK(d) /\ Len(t) \in Nat
  BY TrailEntries DEF DatabaseOK
<1>2. /\ s[1] \in Literals /\ s[2] \in Literals /\ s[1] \in ToSet(s) /\ s[2] \in ToSet(s)
  <2> HIDE DEF t
  <2> QED
    BY <1>1, AttachedClause
<1>3. s[1] \in Watches(d, c) /\ s[2] \in Watches(d, c)
  BY DEF Watches
<1>4. ASSUME NEW l \in Literals, l \in Watches(d, c), l \in ToSet(s), IsAssigned(t, l)
      PROVE  \E x \in ToSet(s) : IsTrue(t, x)
  <2>1. CASE IsTrue(t, l)
    BY <1>4, <2>1
  <2>2. CASE IsFalse(t, l)
    <3>1. PICK i \in 1..Len(t) : t[i].literal = -l
      BY <2>2 DEF IsFalse, IsTrue
    <3>2. -t[i].literal = l
      BY <1>4, <3>1, LiteralFacts
    <3>3. t[i].level <= CurrentLevel(t) /\ i <= n
      BY <1>1, CurrentLevelFacts
    <3>4. TrueBy(t, ToSet(s), t[i].level)
      BY <1>4, <3>2, <3>3 DEF Settled, SettledTo, ClausesDone
    <3> QED
      BY <3>4 DEF TrueBy, IsTrue
  <2> QED
    BY <1>4, <2>1, <2>2 DEF IsAssigned
<1> HIDE DEF s, t
<1>5. IsAssigned(t, s[1]) \/ IsAssigned(t, s[2]) \/ \E l \in ToSet(s) : IsTrue(t, l)
  BY DEF IsAlwaysTrue
<1> QED
  BY <1>2, <1>3, <1>4, <1>5

(* ProcessNewlyFixedVariables(), when all of the trail was propagated.     *)
LEMMA CoreOfProcessed ==
  ASSUME NEW s \in Assignments, NEW d, DatabaseOK(d), CurrentLevel(d.trail) = 0,
         NEW n, n = Len(d.trail), Settled(d, n, n),
         NEW e, e = ProcessNewlyFixedVariables(d), NEW P, CoreModels(s, e, P)
  PROVE  CoreModels(s, d, P)
<1> DEFINE t == d.trail
           fixed == {d.trail[i].literal : i \in 1..Len(d.trail)}
<1>1. PICK q : q = AllWithoutFixed(d) /\ e = RemoveFixedVariables(q, fixed)
  BY ProcessedSteps
<1>2. /\ DatabaseOK(q) /\ q.trail = t /\ LooseImplications(d, q)
  BY <1>1, AllWithoutFixedIsOK
<1>3. d \in Databases /\ q \in Databases /\ IsTrail(t) /\ Len(t) \in Nat
  BY <1>2, TrailEntries DEF DatabaseOK
<1>4. /\ \A l \in fixed : \E i \in 1..Len(t) : t[i].literal = l
      /\ \A i \in 1..Len(t) : t[i].literal \in Literals /\ t[i].literal \in fixed /\ t[i].level = 0
  BY <1>3, TrailEntries, LevelZeroLiterals
<1> HIDE DEF fixed
<1>5. /\ e.trail = t /\ e.clauses = q.clauses
      /\ \A l, m \in Literals :
           m \in ToSet(q.implications[l]) /\ l \notin fixed /\ -l \notin fixed /\ m \notin fixed
             => m \in ToSet(e.implications[l])
  <2>1. /\ e.trail = q.trail /\ e.clauses = q.clauses
        /\ \A l \in Literals :
             /\ l \in fixed \/ -l \in fixed => e.implications[l] = <<>>
             /\ \A m \in Literals :
                  m \in ToSet(q.implications[l]) /\ l \notin fixed /\ -l \notin fixed /\ m \notin fixed
                    => m \in ToSet(e.implications[l])
    BY <1>1, <1>3, RemoveFixedFields
  <2> QED
    BY <1>2, <2>1
<1>6. SatisfiesFixed(s, t) /\ \A l \in fixed : l \in s
  BY <1>4, <1>5 DEF CoreModels, SatisfiesFixed
<1>7. SatisfiesGraph(s, q)
  <2> SUFFICES ASSUME NEW l \in Literals, NEW m \in Literals, m \in ToSet(q.implications[l]), l \in s
               PROVE  m \in s
    BY DEF SatisfiesGraph
  <2>1. CASE m \in fixed
    BY <1>6, <2>1
  <2>2. CASE -l \in fixed
    BY <1>6, <2>2, AssignmentFacts
  <2>3. CASE l \in fixed
    <3>1. PICK i \in 1..Len(t) : t[i].literal = l
      BY <1>4, <2>3
    <3>2. IsAssigned(t, l)
      BY <3>1 DEF IsAssigned, IsTrue
    <3>3. m \in ToSet(d.implications[l])
      BY <1>2, <3>2 DEF LooseImplications
    <3>4. t[i].level <= CurrentLevel(t) /\ i <= n
      BY <1>3, CurrentLevelFacts
    <3>5. TrueBy(t, {m}, t[i].level)
      BY <3>1, <3>3, <3>4 DEF Settled, SettledTo, GraphDone
    <3> QED
      BY <1>4, <1>6, <3>5 DEF TrueBy
  <2>4. CASE m \notin fixed /\ -l \notin fixed /\ l \notin fixed
    BY <1>5, <2>4 DEF CoreModels, SatisfiesGraph
  <2> QED
    BY <2>1, <2>2, <2>3, <2>4
<1>8. CoreModels(s, q, P)
  <2>1. Attached(e) = Attached(q)
    BY <1>5 DEF Attached, IsRemoved
  <2> QED
    BY <1>2, <1>5, <1>6, <1>7, <2>1 DEF CoreModels
<1>9. \A c \in 1..Len(d.clauses) : HoldsWhenAlwaysTrue(d, c)
  BY WatchedHold
<1> QED
  BY <1>1, <1>8, <1>9, CoreOfAllWithoutFixed
-----------------------------------------------------------------------------
(* A clause is learned, some are forgotten: it holds, unless it may be     *)
(* forgotten itself.                                                       *)
LEMMA CoreOfLearnClause ==
  ASSUME NEW d, DatabaseOK(d), removable \subseteq 1..Len(d.clauses),
         NEW literals, Asserting(d.trail, literals), NEW is_redundant,
         LearnClause(d, literals, is_redundant), NEW s \in Assignments, CoreModels(s, Now', removable')
  PROVE  CoreModels(s, d, removable) /\ (is_redundant \/ Satisfies(s, literals))
<1> DEFINE t == d.trail
           l == literals[1]
           Goal == CoreModels(s, d, removable) /\ (is_redundant \/ Satisfies(s, literals))
<1>1. d \in Databases /\ IsTrail(t) /\ Len(t) \in Nat /\ CurrentLevel(t) \in Nat
  BY TrailEntries, CurrentLevelFacts DEF DatabaseOK
<1>2. /\ literals \in Seq(Literals) /\ literals # <<>> /\ Distinct(literals) /\ ~IsAssigned(t, l)
      /\ Len(literals) = 1 => CurrentLevel(t) = 0
  BY DEF Asserting
<1>3. Len(literals) \in Nat /\ Len(literals) > 0
  BY <1>2
<1>4. \A i \in 1..Len(literals) : literals[i] \in Literals /\ literals[i] \in ToSet(literals)
  BY <1>2, ToSetFacts
<1>5. l \in Literals /\ l \in ToSet(literals)
  BY <1>3, <1>4
<1>20. StillRemovable(d) \subseteq removable
  BY DEF StillRemovable
<1> HIDE DEF l, Goal
<1>6. ASSUME Len(literals) = 1, removable' = StillRemovable(d),
             DatabaseBecomes([d EXCEPT !.trail = Enqueued(@, literals[1], 0, "UNIT", 0)])
      PROVE  Goal
  <2> DEFINE level == 0
             type == "UNIT"
             u == Enqueued(t, l, level, type, 0)
             e == WithTrailOf(d, u)
  <2>1. u = Enqueued(t, l, level, type, 0) /\ e = WithTrailOf(d, u)
    OBVIOUS
  <2>2. level \in Nat /\ level >= CurrentLevel(t) /\ level <= Len(t) + 1 /\ level = 0
        /\ ((type = "DECISION" /\ level > 0) \/ (type = "UNIT" /\ level = 0))
    BY <1>1, <1>2, <1>6
  <2>3. [d EXCEPT !.trail = Enqueued(@, literals[1], 0, "UNIT", 0)] = e
    BY DEF WithTrailOf, l
  <2> HIDE DEF e, u, level, type
  <2>4. ~IsAssigned(t, l)
    BY <1>2
  <2>5. /\ DatabaseOK(e) /\ IsTrail(u) /\ Begins(t, u) /\ Len(u) = Len(t) + 1 /\ u[Len(u)].level = level
        /\ u[Len(u)].literal = l /\ e.trail = u /\ e.clauses = d.clauses
        /\ e.implications = d.implications /\ Attached(e) = Attached(d)
    BY <1>5, <2>1, <2>2, <2>4, FreeEntry
  <2>6. e \in Databases /\ DatabaseBecomes(e)
    BY <1>6, <2>3, <2>5 DEF DatabaseOK
  <2>7. Now' = e
    BY <2>6, NowBecomes
  <2>8. CoreModels(s, e, removable)
    BY <1>6, <1>20, <2>7, FewerAreKept
  <2>9. SatisfiesFixed(s, u) => SatisfiesFixed(s, t)
    BY <1>1, <2>5, FixedBefore
  <2>10. l \in s
    <3>1. Len(u) \in 1..Len(u)
      BY <1>1, <2>5
    <3> QED
      BY <2>2, <2>5, <2>8, <3>1 DEF CoreModels, SatisfiesFixed
  <2>11. CoreModels(s, d, removable)
    BY <2>5, <2>8, <2>9, CoreOfTrail
  <2> QED
    BY <1>5, <2>10, <2>11 DEF Goal, Satisfies
<1>7. ASSUME Len(literals) = 2, removable' = StillRemovable(d),
             NEW e, e = AddBinaryClause(d, literals[1], literals[2]), DatabaseBecomes(e)
      PROVE  Goal
  <2> DEFINE m == literals[2]
  <2>1. m \in Literals /\ l # m /\ m \in ToSet(literals)
    BY <1>2, <1>4, <1>7 DEF Distinct, l
  <2>2. e = AddBinaryClause(d, l, m)
    BY <1>7 DEF l
  <2> HIDE DEF m
  <2>4. e \in Databases
    BY <1>5, <2>1, <2>2, AddBinaryGrows
  <2>5. Now' = e
    BY <1>7, <2>4, NowBecomes
  <2>6. CoreModels(s, e, removable)
    BY <1>7, <1>20, <2>5, FewerAreKept
  <2>7. CoreModels(s, d, removable) /\ (l \in s \/ m \in s)
    BY <1>5, <2>1, <2>2, <2>6, CoreOfBinary
  <2> QED
    BY <1>5, <2>1, <2>7 DEF Goal, Satisfies
<1>8. ASSUME Len(literals) > 2, NEW forgotten, forgotten \subseteq MayBeForgotten(d),
             removable' = (StillRemovable(d) \ forgotten)
                             \cup (IF is_redundant THEN {Len(clauses')} ELSE {}),
             NEW e, e = Attach(Detach(d, forgotten), literals), DatabaseBecomes(e)
      PROVE  Goal
  <2> DEFINE g == Detach(d, forgotten)
             new == Len(g.clauses) + 1
  <2>1. NotReasons(t, forgotten)
    BY <1>8, ForgottenAreNotReasons
  <2>2. g = Detach(d, forgotten) /\ e = Attach(g, literals) /\ new = Len(g.clauses) + 1
    BY <1>8
  <2> HIDE DEF g, new
  <2>3. DatabaseOK(g)
    BY <2>1, <2>2, DetachIsOK DEF NotReasons
  <2>4. g.trail = t /\ Len(g.clauses) = Len(d.clauses) /\ Attached(g) = Attached(d) \ forgotten
    BY <1>1, <2>2, DetachFields
  <2>5. Len(literals) >= 3
    BY <1>3, <1>8
  <2>6. \E i \in 1..Len(literals) : ~IsFalse(g.trail, literals[i])
    <3>1. 1 \in 1..Len(literals)
      BY <1>3
    <3> QED
      BY <1>2, <2>4, <3>1 DEF IsAssigned, l
  <2>7. DatabaseOK(e) /\ Len(e.clauses) = new /\ new \in Nat \ {0}
    BY <1>2, <2>2, <2>3, <2>5, <2>6, AttachIsOK
  <2>8. e \in Databases
    BY <2>7 DEF DatabaseOK
  <2>9. Now' = e /\ Len(clauses') = new
    BY <1>8, <2>7, <2>8, NowBecomes
  <2>10. CoreModels(s, g, removable') /\ (new \notin removable' => Satisfies(s, literals))
    BY <1>2, <2>2, <2>3, <2>5, <2>6, <2>9, CoreOfAttached
  <2>11. \A c \in 1..Len(d.clauses) : c # new /\ c \in Nat
    <3>1. Len(d.clauses) \in Nat
      BY <1>1, DatabaseTypes
    <3> QED
      BY <2>2, <2>4, <3>1
  <2>12. \A c \in removable' : c \in removable \/ (is_redundant /\ c = new)
    BY <1>8, <1>20, <2>9
  <2>13. \A c \in Attached(g) : c \in removable' => c \in removable
    BY <2>4, <2>11, <2>12 DEF Attached
  <2>14. CoreModels(s, g, removable)
    BY <2>10, <2>13, FewerAreKept
  <2>15. \A c \in Attached(d) : c \in forgotten => c \in removable
    BY <1>8, <1>20 DEF MayBeForgotten
  <2>16. CoreModels(s, d, removable)
    BY <1>1, <2>2, <2>14, <2>15, CoreOfDetached
  <2>17. is_redundant \/ new \notin removable'
    BY <2>11, <2>12
  <2> QED
    BY <2>10, <2>16, <2>17 DEF Goal
<1>9. \/ /\ Len(literals) = 1 /\ removable' = StillRemovable(d)
         /\ DatabaseBecomes([d EXCEPT !.trail = Enqueued(@, literals[1], 0, "UNIT", 0)])
      \/ /\ Len(literals) = 2 /\ removable' = StillRemovable(d)
         /\ \E e \in {AddBinaryClause(d, literals[1], literals[2])} : DatabaseBecomes(e)
      \/ /\ Len(literals) > 2
         /\ \E forgotten \in SUBSET MayBeForgotten(d) :
              /\ \E e \in {Attach(Detach(d, forgotten), literals)} : DatabaseBecomes(e)
              /\ removable' = (StillRemovable(d) \ forgotten)
                                 \cup (IF is_redundant THEN {Len(clauses')} ELSE {})
  BY DEF LearnClause
<1>10. Goal
  BY <1>6, <1>7, <1>8, <1>9
<1> QED
  BY <1>10 DEF Goal
-----------------------------------------------------------------------------
(* A subsumed clause has all literals of the clause that the expansions    *)
(* stand for.  What is marked at the highest level up to k is pending.     *)
Subsumes(d, highest, k, e) ==
  /\ \A c \in e.subsumed :
       /\ ToSet(e.lower) \subseteq ToSet(d.clauses[c])
       /\ \A v \in e.pending : FalseOf(d.trail, v) \in ToSet(d.clauses[c])
  /\ \A v \in e.marked : LevelOf(d.trail, v) = highest /\ TrailIndex(d.trail, v) <= k => v \in e.pending

(* The literals that the lower and the pending ones of a conflict are.     *)
LiteralsOf(t, lower, pending) == ToSet(lower) \cup {FalseOf(t, v) : v \in pending}

(* A set of as many elements as the lower and the pending literals that    *)
(* are all of them has them all.                                           *)
LEMMA AllOfThem ==
  ASSUME NEW lower \in Seq(Literals), Distinct(lower), NEW pending, IsFiniteSet(pending), NEW t,
         NEW positive, positive \subseteq LiteralsOf(t, lower, pending),
         Cardinality(positive) = Len(lower) + Cardinality(pending)
  PROVE  LiteralsOf(t, lower, pending) = positive
<1> DEFINE L == LiteralsOf(t, lower, pending)
           A == ToSet(lower)
           B == {FalseOf(t, v) : v \in pending}
           f == [v \in pending |-> FalseOf(t, v)]
<1>1. IsFiniteSet(A) /\ Cardinality(A) <= Len(lower) /\ Len(lower) \in Nat
  <2>1. lower \in [1..Len(lower) -> A] /\ \A x \in A : \E i \in 1..Len(lower) : lower[i] = x
    BY ToSetFacts DEF ToSet
  <2>2. lower \in Surjection(1..Len(lower), A)
    BY <2>1 DEF Surjection
  <2>3. IsFiniteSet(1..Len(lower)) /\ Cardinality(1..Len(lower)) = Len(lower)
    BY CardinalityOfInterval
  <2> QED
    BY <2>2, <2>3, FS_Surjection
<1>2. IsFiniteSet(B) /\ Cardinality(B) <= Cardinality(pending)
  <2>1. f \in [pending -> B] /\ \A x \in B : \E v \in pending : f[v] = x
    OBVIOUS
  <2>2. f \in Surjection(pending, B)
    BY <2>1 DEF Surjection
  <2> QED
    BY <2>2, FS_Surjection
<1>3. L = A \cup B
  BY DEF LiteralsOf
<1> HIDE DEF A, B, L
<1>4. /\ IsFiniteSet(L) /\ Cardinality(L) = Cardinality(A) + Cardinality(B) - Cardinality(A \cap B)
  BY <1>1, <1>2, <1>3, FS_Union
<1>5. Cardinality(A) \in Nat /\ Cardinality(B) \in Nat /\ Cardinality(pending) \in Nat /\ Cardinality(A \cap B) \in Nat
  <2>1. IsFiniteSet(A \cap B)
    BY <1>1, FS_Subset
  <2> QED
    BY <1>1, <1>2, <2>1, FS_CardinalityType
<1>6. Cardinality(positive) <= Cardinality(L) /\ (Cardinality(L) = Cardinality(positive) => L = positive)
  BY <1>4, FS_Subset DEF L
<1>7. positive \subseteq L
  BY DEF L
<1>8. L = positive
  BY <1>1, <1>2, <1>4, <1>5, <1>6, <1>7
<1> QED
  BY <1>8 DEF L

(* One clause joins the conflict: it is subsumed when it has no literals   *)
(* above level zero but those of the conflict, and all of them.            *)
LEMMA ExpandedSubsumes ==
  ASSUME NEW d, DatabaseOK(d), NEW highest \in Nat, NEW k \in Int, NEW e, PartOK(d, highest, e),
         LowerAreMarked(d.trail, highest, e), Subsumes(d, highest, k, e),
         NEW clause, FalseLiterals(d.trail, clause),
         \A l \in ToSet(clause) : LevelOf(d.trail, l) <= highest /\ TrailIndex(d.trail, l) <= k,
         NEW id, id # 0 => MayBeSubsumed(d, highest, id) /\ ToSet(clause) \subseteq ToSet(d.clauses[id]),
         NEW q, q = Expanded(d.trail, highest, k, e, clause, id)
  PROVE  Subsumes(d, highest, k, q)
<1> DEFINE t == d.trail
           positive == {l \in ToSet(clause) : LevelOf(t, l) > 0}
           unmarked == {l \in positive : VariableOf(l) \notin e.marked}
           new == Only(clause, unmarked)
           below == {l \in ToSet(new) : LevelOf(t, l) < highest}
           more == Only(new, below)
<1>1. q = WithNew(t, highest, k, e, Cardinality(positive), new, id)
  <2>1. q = The({WithNew(t, highest, k, e, Cardinality(positive), x, id) : x \in {new}})
    BY DEF Expanded
  <2>2. {WithNew(t, highest, k, e, Cardinality(positive), x, id) : x \in {new}}
          = {WithNew(t, highest, k, e, Cardinality(positive), new, id)}
    OBVIOUS
  <2> QED
    BY <2>1, <2>2, TheOfOne
<1>2. /\ q.marked = e.marked \cup {VariableOf(l) : l \in ToSet(new)}
      /\ q.lower = e.lower \o more
      /\ q.pending = {v \in q.marked : LevelOf(t, v) = highest /\ TrailIndex(t, v) <= k}
      /\ \A c \in q.subsumed :
           \/ c \in e.subsumed /\ new = <<>>
           \/ c = id /\ id # 0 /\ Cardinality(positive) = Len(q.lower) + Cardinality(q.pending)
  BY <1>1 DEF WithNew
<1>3. /\ IsTrail(t) /\ clause \in Seq(Literals) /\ \A l \in ToSet(clause) : IsFalse(t, l) /\ l \in Literals
  BY ToSetFacts DEF DatabaseOK, FalseLiterals
<1> HIDE DEF below, more, new, unmarked
<1>4. PartOK(d, highest, q) /\ Joined(t, highest, k, e, clause, q)
  BY ExpandedIsOK
<1>5. LowerAreMarked(t, highest, q)
  BY ExpandedLiterals
<1>6. q.lower \in Seq(Literals) /\ Distinct(q.lower) /\ IsFiniteSet(q.pending)
  <2>1. q.lower \in Seq(Literals) /\ Distinct(q.lower) /\ q.pending \subseteq Variables
    BY <1>4 DEF PartOK
  <2>2. IsFiniteSet(q.pending)
    BY <2>1, SatAssumption, FS_Subset
  <2> QED
    BY <2>1, <2>2
<1>7. ASSUME NEW l \in positive
      PROVE  l \in ToSet(q.lower) \/ \E v \in q.pending : l = FalseOf(t, v)
  <2>1. l \in Literals /\ IsFalse(t, l) /\ LevelOf(t, l) > 0 /\ LevelOf(t, l) <= highest /\ TrailIndex(t, l) <= k
    BY <1>3
  <2>2. /\ FalseOf(t, VariableOf(l)) = l /\ LevelOf(t, VariableOf(l)) = LevelOf(t, l)
        /\ TrailIndex(t, VariableOf(l)) = TrailIndex(t, l) /\ LevelOf(t, l) \in Nat
    BY <1>3, <2>1, FalseOfFacts
  <2>3. VariableOf(l) \in q.marked
    BY <1>4, <2>1 DEF Joined
  <2>4. CASE LevelOf(t, l) = highest
    BY <1>2, <2>1, <2>2, <2>3, <2>4
  <2>5. CASE LevelOf(t, l) < highest
    BY <1>5, <2>2, <2>3, <2>5 DEF LowerAreMarked
  <2> QED
    BY <2>1, <2>2, <2>4, <2>5
<1>8. ASSUME NEW c \in q.subsumed
      PROVE  /\ ToSet(q.lower) \subseteq ToSet(d.clauses[c])
             /\ \A v \in q.pending : FalseOf(t, v) \in ToSet(d.clauses[c])
  <2>1. CASE c \in e.subsumed /\ new = <<>>
    <3>1. ToSet(new) = {} /\ new \in Seq(Literals)
      BY <2>1 DEF ToSet
    <3>2. more \in Seq(Literals) /\ \A x : x \in ToSet(more) => x \in ToSet(new)
      BY <3>1, OnlyFacts DEF more
    <3>3. ToSet(q.lower) \subseteq ToSet(e.lower)
      <4> DEFINE u == e.lower
                 w == q.lower
      <4>1. w = u \o more /\ u \in Seq(Literals)
        BY <1>2 DEF PartOK
      <4> HIDE DEF u, w
      <4>2. \A l : l \in ToSet(w) <=> l \in ToSet(u) \/ l \in ToSet(more)
        BY <3>2, <4>1, ConcatenationFacts
      <4> QED
        BY <3>1, <3>2, <4>2 DEF u, w
    <3>4. q.pending \subseteq e.pending
      BY <1>2, <3>1 DEF Subsumes
    <3> QED
      BY <2>1, <3>3, <3>4 DEF Subsumes
  <2>2. CASE c = id /\ id # 0 /\ Cardinality(positive) = Len(q.lower) + Cardinality(q.pending)
    <3> DEFINE lower == q.lower
               pending == q.pending
    <3>2. positive \subseteq LiteralsOf(t, lower, pending)
      BY <1>7 DEF LiteralsOf
    <3>3. positive \subseteq ToSet(d.clauses[c])
      BY <2>2
    <3>4. /\ lower \in Seq(Literals) /\ Distinct(lower) /\ IsFiniteSet(pending)
          /\ Cardinality(positive) = Len(lower) + Cardinality(pending)
      BY <1>6, <2>2
    <3> HIDE DEF lower, pending, positive
    <3>5. LiteralsOf(t, lower, pending) = positive
      BY <3>2, <3>4, AllOfThem
    <3> QED
      BY <3>3, <3>5 DEF lower, pending, LiteralsOf
  <2> QED
    BY <1>2, <2>1, <2>2
<1>9. \A v \in q.marked : LevelOf(t, v) = highest /\ TrailIndex(t, v) <= k => v \in q.pending
  BY <1>2
<1> QED
  BY <1>8, <1>9 DEF Subsumes

(* Down the trail, fewer variables are to be pending.                      *)
LEMMA SubsumesBelow ==
  ASSUME NEW d, DatabaseOK(d), NEW highest \in Nat, NEW k \in Nat, NEW e, PartOK(d, highest, e),
         Subsumes(d, highest, k, e)
  PROVE  Subsumes(d, highest, k - 1, e)
<1> DEFINE t == d.trail
<1>1. ASSUME NEW v \in e.marked, LevelOf(t, v) = highest, TrailIndex(t, v) <= k - 1 PROVE v \in e.pending
  <2>1. v \in Variables /\ IsAssigned(t, v) /\ IsTrail(t) /\ v \in Literals
    BY VariableFacts DEF PartOK, DatabaseOK
  <2>2. TrailIndex(t, v) \in 1..Len(t) /\ Len(t) \in Nat
    BY <2>1, TrailFacts, TrailEntries
  <2>3. TrailIndex(t, v) <= k
    BY <1>1, <2>2
  <2> QED
    BY <1>1, <2>3 DEF Subsumes
<1> QED
  BY <1>1 DEF Subsumes

(* One step down the trail.                                                *)
LEMMA ExpansionSubsumes ==
  ASSUME NEW d, DatabaseOK(d), NEW highest \in Nat, highest > 0, NEW k \in 1..Len(d.trail),
         d.trail[k].level <= highest,
         NEW e, ExpansionOK(d, highest, k, e), LowerAreMarked(d.trail, highest, e),
         Subsumes(d, highest, k, e), NEW q, q = ExpandedNext(d, highest, e, k)
  PROVE  Subsumes(d, highest, k - 1, q) /\ LowerAreMarked(d.trail, highest, q)
<1> DEFINE t == d.trail
           w == VariableOf(t[k].literal)
           reason == Reason(d, k)
           id == ReasonClauseOrNull(d, k)
<1>1. /\ IsTrail(t) /\ Len(t) \in Nat /\ t[k].literal \in Literals /\ t[k].level \in Nat /\ k \in Nat
      /\ EntryIsExplained(d, k) /\ ClausesOK(d) /\ d \in Databases
  BY TrailEntries DEF DatabaseOK, ReasonsOK
<1>2. PartOK(d, highest, e) /\ e.pending \subseteq e.marked /\ e.marked \subseteq Variables
      /\ \A v \in e.pending : LevelOf(t, v) = highest /\ v \in Variables /\ IsAssigned(t, v)
  BY DEF ExpansionOK, PartOK
<1>3. ASSUME NEW v \in e.pending
      PROVE  /\ TrailIndex(t, v) \in 1..Len(t) /\ (TrailIndex(t, v) = k => v = w)
             /\ t[TrailIndex(t, v)].level = highest
  <2>1. v \in Variables /\ v \in Literals /\ VariableOf(v) = v /\ IsAssigned(t, v)
    BY <1>1, <1>2, VariableFacts
  <2>2. TrailIndex(t, v) \in 1..Len(t) /\ t[TrailIndex(t, v)].literal \in {v, -v}
        /\ LevelOf(t, v) = t[TrailIndex(t, v)].level
    BY <1>1, <2>1, TrailFacts
  <2>3. VariableOf(t[TrailIndex(t, v)].literal) = v
    BY <2>1, <2>2, LiteralFacts
  <2> QED
    BY <1>2, <2>2, <2>3
<1>4. Subsumes(d, highest, k - 1, e)
  BY <1>1, <1>2, SubsumesBelow
<1>5. CASE w \notin e.marked \/ Cardinality(e.pending) = 1
  BY <1>4, <1>5 DEF ExpandedNext
<1>6. CASE w \in e.marked /\ Cardinality(e.pending) # 1
  <2>1. \A v \in e.pending : TrailIndex(t, v) <= k
    BY <1>6 DEF ExpansionOK
  <2>2. q = Expanded(t, highest, k - 1, e, reason, id)
    BY <1>6 DEF ExpandedNext
  <2>3. PICK u \in e.pending : u # w
    <3>1. e.pending # {w}
      BY <1>6, FS_Singleton
    <3> QED
      BY <3>1 DEF ExpansionOK
  <2>4. t[k].level >= highest
    <3>1. TrailIndex(t, u) <= k /\ TrailIndex(t, u) # k /\ TrailIndex(t, u) \in 1..Len(t)
          /\ t[TrailIndex(t, u)].level = highest
      BY <1>3, <2>1, <2>3
    <3> QED
      BY <1>1, <3>1 DEF IsTrail, TrailOK
  <2>5. t[k].level = highest
    BY <1>1, <2>4
  <2>6. FalseLiterals(t, reason) /\ (id # 0 => MayBeSubsumed(d, highest, id))
    BY <2>5, ReasonIsFalse
  <2>7. ASSUME NEW m \in ToSet(reason) PROVE LevelOf(t, m) <= highest /\ TrailIndex(t, m) <= k - 1
    <3>1. m \in Literals /\ IsFalse(t, m) /\ TrailIndex(t, m) < k
      BY ReasonFacts
    <3>2. /\ TrailIndex(t, m) \in 1..Len(t)
          /\ LevelOf(t, m) = t[TrailIndex(t, m)].level /\ LevelOf(t, m) \in Nat
      BY <1>1, <3>1, FalseOfFacts
    <3>3. LevelOf(t, m) <= highest
      BY <1>1, <2>5, <3>1, <3>2 DEF IsTrail, TrailOK
    <3> QED
      BY <1>1, <3>1, <3>2, <3>3
  <2>8. ASSUME id # 0 PROVE ToSet(reason) \subseteq ToSet(d.clauses[id])
    <3> DEFINE s == d.clauses[id]
    <3>1. t[k].type = "CLAUSE" /\ id = t[k].by
      BY <2>8 DEF ReasonClauseOrNull
    <3>2. id \in Attached(d) /\ reason = SubSeq(s, 2, Len(s))
      BY <1>1, <2>5, <3>1 DEF EntryIsExplained, Reason, Others, id
    <3>3. s \in Seq(Literals) /\ Len(s) >= 3 /\ Len(s) \in Nat
      BY <1>1, <3>2, AttachedClause
    <3> HIDE DEF s, id, reason
    <3>4. reason \in Seq(Literals) /\ Len(reason) = Len(s) - 1 /\ \A j \in 1..Len(reason) : reason[j] = s[j + 1]
      BY <3>2, <3>3
    <3>5. ASSUME NEW m \in ToSet(reason) PROVE m \in ToSet(s)
      <4>1. PICK j \in 1..Len(reason) : m = reason[j]
        BY <3>4, ToSetFacts
      <4>2. j + 1 \in 1..Len(s) /\ m = s[j + 1]
        BY <3>3, <3>4, <4>1
      <4> QED
        BY <3>3, <4>2, ToSetFacts
    <3> QED
      BY <3>5 DEF s
  <2>9. k - 1 \in Int
    BY <1>1
  <2> HIDE DEF reason, id
  <2>10. Subsumes(d, highest, k - 1, q)
    BY <1>2, <1>4, <2>2, <2>6, <2>7, <2>8, <2>9, ExpandedSubsumes
  <2>11. LowerAreMarked(t, highest, q)
    BY <1>2, <2>2, <2>6, ExpandedLiterals
  <2> QED
    BY <2>10, <2>11
<1> QED
  BY <1>5, <1>6

(* All steps.                                                              *)
LEMMA ExpansionsSubsume ==
  ASSUME NEW d, DatabaseOK(d), NEW highest \in Nat, highest > 0, NEW top \in 1..Len(d.trail),
         d.trail[top].level = highest,
         NEW first, ExpansionOK(d, highest, top, first), LowerAreMarked(d.trail, highest, first),
         Subsumes(d, highest, top, first), NEW e, e = Expansions(d, highest, first, top)[0]
  PROVE  Subsumes(d, highest, 0, e)
<1>1. top \in Nat /\ Len(d.trail) \in Nat /\ IsTrail(d.trail)
  BY TrailEntries DEF DatabaseOK
<1>2. PICK f : /\ f[top] = first
               /\ \A i \in 0..(top - 1) : f[i] = ExpandedNext(d, highest, f[i + 1], i + 1)
               /\ Expansions(d, highest, first, top) = f
  BY <1>1, ExpansionsLoop
<1> DEFINE Q(k, x) == /\ ExpansionOK(d, highest, k, x) /\ LowerAreMarked(d.trail, highest, x)
                      /\ Subsumes(d, highest, k, x)
           P(n) == Q(top - n, f[top - n])
           S == {n \in Nat : n <= top => P(n)}
<1> HIDE DEF Q
<1>3. 0 \in S
  <2>1. top - 0 = top
    BY <1>1
  <2>2. Q(top, first)
    BY DEF Q
  <2> QED
    BY <1>2, <2>1, <2>2
<1>4. \A n \in Nat : n \in S => n + 1 \in S
  <2> HIDE DEF P
  <2> SUFFICES ASSUME NEW n \in Nat, P(n), n + 1 <= top PROVE P(n + 1)
    BY <1>1
  <2> USE DEF P
  <2> DEFINE k == top - n
             before == f[k]
             after == f[k - 1]
  <2>1. k \in 1..Len(d.trail) /\ k - 1 \in 0..(top - 1) /\ (k - 1) + 1 = k /\ top - (n + 1) = k - 1 /\ k <= top
    BY <1>1
  <2>2. Q(k, before)
    OBVIOUS
  <2>3. after = ExpandedNext(d, highest, before, k)
    BY <1>2, <2>1
  <2> HIDE DEF k, before, after, P
  <2>4. ExpansionOK(d, highest, k, before) /\ LowerAreMarked(d.trail, highest, before)
        /\ Subsumes(d, highest, k, before)
    BY <2>2 DEF Q
  <2>5. ExpansionOK(d, highest, k - 1, after)
    BY <2>1, <2>3, <2>4, ExpansionIsOK
  <2>6. d.trail[k].level <= highest
    <3>1. k = top \/ k < top
      BY <1>1, <2>1
    <3>2. \A i \in 1..Len(d.trail) : d.trail[i].level \in Nat
      BY <1>1, TrailEntries
    <3> QED
      BY <1>1, <2>1, <3>1, <3>2 DEF IsTrail, TrailOK
  <2>7. Subsumes(d, highest, k - 1, after) /\ LowerAreMarked(d.trail, highest, after)
    BY <2>1, <2>3, <2>4, <2>6, ExpansionSubsumes
  <2>8. Q(k - 1, after)
    BY <2>5, <2>7 DEF Q
  <2> QED
    BY <2>1, <2>8 DEF P, after
<1>5. top \in S
  <2> HIDE DEF S
  <2> QED
    BY <1>1, <1>3, <1>4, SetInduction
<1>6. top - top = 0
  BY <1>1
<1>7. P(top)
  BY <1>1, <1>5
<1>8. Q(0, e)
  BY <1>2, <1>6, <1>7
<1> QED
  BY <1>8 DEF Q

(* The clauses that the learned one is said to subsume do contain it.      *)
Contained(d, r) == \A c \in r.subsumed : ToSet(r.conflict) \subseteq ToSet(d.clauses[c])

\* What a conflict subsumes contains what it learns.
LEMMA ConflictSubsumes ==
  ASSUME NEW d, DatabaseOK(d), NEW literals, NEW by, FailureIsKnown(d, literals, by),
         \E l \in ToSet(literals) : LevelOf(d.trail, l) > 0,
         NEW r, r = ComputeFirstUIPConflict(d, literals, by)
  PROVE  (\E highest \in Nat \ {0} : LearnedOK(d, highest, r)) /\ Contained(d, r)
<1> DEFINE t == d.trail
<1>1. PICK highest \in Nat \ {0}, top \in 1..Len(t) :
        \E nothing, first, e : Analysed(d, literals, highest, nothing, first, top, e, r)
  BY ConflictIsAnalysed
<1>2. PICK nothing, first, e : Analysed(d, literals, highest, nothing, first, top, e, r)
  BY <1>1
<1>3. /\ \A l \in ToSet(literals) : LevelOf(t, l) <= highest /\ TrailIndex(t, l) <= top
      /\ PartOK(d, highest, nothing) /\ nothing.marked = {} /\ nothing.subsumed = {}
      /\ ExpansionOK(d, highest, top, first) /\ t[top].level = highest
      /\ e = Expansions(d, highest, first, top)[0] /\ r = FirstUIPConflict(t, e)
  BY <1>2 DEF Analysed
<1>4. PICK id : /\ id # 0 => MayBeSubsumed(d, highest, id) /\ literals = d.clauses[id]
                /\ first = Expanded(t, highest, top, nothing, literals, id)
  BY <1>2 DEF Analysed
<1>5. FalseLiterals(t, literals) /\ highest \in Nat /\ highest > 0 /\ top \in Int
  BY DEF FailureIsKnown, FalseLiterals
<1>6. LowerAreMarked(t, highest, nothing) /\ Subsumes(d, highest, top, nothing)
  BY <1>3 DEF LowerAreMarked, Subsumes
<1>7. LowerAreMarked(t, highest, first)
  <2>1. highest \in Nat /\ PartOK(d, highest, nothing) /\ FalseLiterals(t, literals) /\ t = d.trail
        /\ first = Expanded(t, highest, top, nothing, literals, id)
    BY <1>3, <1>4, <1>5
  <2> HIDE DEF t
  <2> QED
    BY <1>6, <2>1, ExpandedLiterals
<1>8. Subsumes(d, highest, top, first)
  <2>1. id # 0 => MayBeSubsumed(d, highest, id) /\ ToSet(literals) \subseteq ToSet(d.clauses[id])
    BY <1>4
  <2> QED
    BY <1>3, <1>4, <1>5, <1>6, <2>1, ExpandedSubsumes
<1>9. Subsumes(d, highest, 0, e)
  BY <1>3, <1>5, <1>7, <1>8, ExpansionsSubsume
<1>10. ExpansionOK(d, highest, 0, e)
  BY <1>3, <1>5, ExpansionsAreOK
<1>11. LearnedOK(d, highest, r)
  BY <1>3, <1>5, <1>10, FirstUIPIsOK
<1>12. /\ r.subsumed = e.subsumed
       /\ \A y \in ToSet(r.conflict) : y \in ToSet(e.lower) \/ \E v \in e.pending : y = FalseOf(d.trail, v)
  BY <1>3, <1>5, <1>10, FirstUIPLiterals
<1>13. Contained(d, r)
  BY <1>9, <1>12 DEF Contained, Subsumes
<1> QED
  BY <1>11, <1>13

(* A shorter clause is contained as well.                                  *)
LEMMA ShortenedIsContained ==
  ASSUME NEW d, NEW highest, NEW r, LearnedOK(d, highest, r), Contained(d, r), NEW others, NEW e, Shortened(r, others, e)
  PROVE  Contained(d, e) /\ LearnedOK(d, highest, e) /\ IsLearned(e)
<1>1. LearnedOK(d, highest, e) /\ IsLearned(e)
  BY ShortenedIsOK
<1>2. /\ e.conflict[1] = r.conflict[1] /\ e.subsumed = r.subsumed
      /\ \A l : l \in ToSet(Tail(e.conflict)) => l \in ToSet(Tail(r.conflict))
  BY HeadAndIsOK DEF Shortened
<1>3. ToSet(e.conflict) \subseteq ToSet(r.conflict)
  <2> DEFINE s == r.conflict
             q == e.conflict
             front == Tail(s)
             back == Tail(q)
  <2>1. s \in Seq(Literals) /\ s # <<>> /\ q \in Seq(Literals) /\ q # <<>>
    BY <1>1 DEF LearnedOK
  <2>2. q[1] = s[1] /\ (\A l : l \in ToSet(back) => l \in ToSet(front)) /\ front = Tail(s) /\ back = Tail(q)
    BY <1>2
  <2> HIDE DEF s, q, front, back
  <2>3. \A x : x \in ToSet(s) <=> x = s[1] \/ x \in ToSet(front)
    BY <2>1, <2>2, TailFacts
  <2>4. \A x : x \in ToSet(q) <=> x = q[1] \/ x \in ToSet(back)
    BY <2>1, <2>2, TailFacts
  <2>5. ToSet(q) \subseteq ToSet(s)
    BY <2>2, <2>3, <2>4
  <2> QED
    BY <2>5 DEF s, q
<1> QED
  BY <1>1, <1>2, <1>3 DEF Contained

(* And all of the conflict analysis.                                       *)
LEMMA LearnedSubsumes ==
  ASSUME NEW d, DatabaseOK(d), FailureIsKnown(d, conflict, failing),
         \E l \in ToSet(conflict) : LevelOf(d.trail, l) > 0,
         NEW r, r = Learned(d)
  PROVE  Contained(d, r)
<1> DEFINE first == ComputeFirstUIPConflict(d, conflict, failing)
           Choice(x) == IF config.binary_minimization_algorithm = "BINARY_MINIMIZATION_FIRST"
                        THEN MinimizeConflictFirst(d, x) ELSE x
           chosen == Choice(first)
<1>1. r = MinimizeConflict(d, chosen)
  <2>1. r = The({MinimizeConflict(d, q) : q \in {Choice(x) : x \in {first}}})
    BY DEF Learned
  <2>2. {Choice(x) : x \in {first}} = {chosen}
    OBVIOUS
  <2>3. {MinimizeConflict(d, q) : q \in {chosen}} = {MinimizeConflict(d, chosen)}
    OBVIOUS
  <2> QED
    BY <2>1, <2>2, <2>3, TheOfOne
<1>2. chosen = first \/ chosen = MinimizeConflictFirst(d, first)
  OBVIOUS
<1>3. first = ComputeFirstUIPConflict(d, conflict, failing)
  OBVIOUS
<1> HIDE DEF chosen, first, Choice
<1>4. IsLearned(first)
  BY <1>3, FirstUIPIsLearned
<1>5. PICK highest \in Nat \ {0} : LearnedOK(d, highest, first)
  BY <1>3, ConflictSubsumes
<1>6. Contained(d, first)
  BY <1>3, ConflictSubsumes
<1>7. LearnedOK(d, highest, chosen) /\ IsLearned(chosen) /\ Contained(d, chosen)
  <2>1. chosen = first \/ \E others : Shortened(first, others, chosen)
    BY <1>2, <1>4, MinimizedFirst
  <2> QED
    BY <1>4, <1>5, <1>6, <2>1, ShortenedIsContained
<1>8. r = chosen \/ r = MinimizeConflictSimple(d, chosen) \/ r = MinimizeConflictRecursively(d, chosen)
  BY <1>1 DEF MinimizeConflict
<1>9. r = chosen \/ \E others : Shortened(chosen, others, r)
  BY <1>7, <1>8, MinimizedSimple, MinimizedRecursively
<1> QED
  BY <1>7, <1>9, ShortenedIsContained

-----------------------------------------------------------------------------
(* The invariant: what satisfies all that is known for sure, the clauses   *)
(* that may be forgotten left out, is a solution.                          *)
NothingIsForgotten ==
  status # "INFEASIBLE" =>
    \A s \in Assignments : CoreModels(s, Now, removable) => \A c \in Problem : c \cap s # {}

(* What a step has to keep.                                                *)
LEMMA ForgetNext ==
  ASSUME NothingIsForgotten, status # "INFEASIBLE", NEW e, Now' = e,
         \A s \in Assignments : CoreModels(s, e, removable') =>
           CoreModels(s, Now, removable) /\ \A c \in Problem' : c \in Problem \/ c \cap s # {}
  PROVE  NothingIsForgotten'
<1> SUFFICES ASSUME NEW s \in Assignments, CoreModels(s, Now', removable'), NEW c \in Problem'
             PROVE  c \cap s # {}
  BY DEF NothingIsForgotten
<1>1. CoreModels(s, Now, removable) /\ (c \in Problem \/ c \cap s # {})
  OBVIOUS
<1> QED
  BY <1>1 DEF NothingIsForgotten

(* ... when the problem stays as it is.                                    *)
LEMMA ForgetNextOfProblem ==
  ASSUME NothingIsForgotten, status # "INFEASIBLE", NEW e, Now' = e, UNCHANGED <<config, loaded, late>>,
         \A s \in Assignments : CoreModels(s, e, removable') => CoreModels(s, Now, removable)
  PROVE  NothingIsForgotten'
<1>1. Problem' = Problem
  BY DEF Problem
<1> QED
  BY <1>1, ForgetNext

(* No clause was added yet.                                                *)
LEMMA InitForgetsNothing ==
  ASSUME Init
  PROVE  NothingIsForgotten
<1>1. loaded = 0 /\ late = {}
  BY DEF Init
<1>2. 1..loaded = {}
  BY <1>1
<1>3. Problem = {}
  BY <1>1, <1>2 DEF Problem
<1> QED
  BY <1>3 DEF NothingIsForgotten

(* The propagators reorder clauses and add to the trail.                   *)
LEMMA PropagateBinaryForgetsNothing ==
  ASSUME SolverOK, SolverOK', NothingIsForgotten, PropagateBinary
  PROVE  NothingIsForgotten'
<1> DEFINE d == Now
           r == Propagations(d, binary_index)[Cardinality(Variables)]
           e == WithTrailOf(d, r.trail)
<1>1. /\ status \in Running /\ trail' = r.trail
      /\ UNCHANGED <<clauses, watchers, implications, removable, config, loaded, late>>
  BY DEF PropagateBinary, inputVars
<1>2. TypesOK /\ DatabaseOK(d) /\ DatabaseOK(Now)'
  BY DEF SolverOK
<1>3. d.trail = trail /\ d.clauses = clauses /\ d.watchers = watchers /\ d.implications = implications
  BY NowFields
<1>4. d \in Databases /\ IsTrail(trail) /\ Len(trail) \in Nat /\ r = Propagations(d, binary_index)[Cardinality(Variables)]
  BY <1>2, <1>3, TrailEntries DEF DatabaseOK
<1>5. Now' = e
  <2>1. Now' = [clauses |-> d.clauses, watchers |-> d.watchers, implications |-> d.implications, trail |-> r.trail]
    BY <1>1, <1>3 DEF Now
  <2>2. d = [clauses |-> d.clauses, watchers |-> d.watchers, implications |-> d.implications, trail |-> d.trail]
    BY <1>3 DEF Now
  <2> QED
    BY <2>1, <2>2 DEF WithTrailOf
<1> HIDE DEF d, r
<1>6. binary_index \in Nat /\ binary_index <= Len(d.trail)
  BY <1>2, <1>3, <1>4 DEF TypesOK
<1>7. PropagationOK(d, binary_index, r) /\ IsTrail(r.trail)
  BY <1>2, <1>4, <1>6, PropagationsAreOK
<1>8. Begins(d.trail, r.trail)
  BY <1>7 DEF PropagationOK, ImpliedOK, GrownSince
<1>9. e.trail = r.trail /\ e.clauses = d.clauses /\ e.implications = d.implications
  BY <1>4, <1>7, WithTrail DEF WithTrailOf, IsTrail
<1> HIDE DEF e
<1>10. DatabaseOK(e) /\ SameClausesSince(d, e)
  BY <1>2, <1>4, <1>5, <1>9, ClausesStay
<1>11. ASSUME NEW s \in Assignments, CoreModels(s, e, removable') PROVE CoreModels(s, Now, removable)
  <2>1. CoreModels(s, e, removable)
    BY <1>1, <1>11
  <2>2. CoreModels(s, d, removable)
    BY <1>2, <1>8, <1>9, <1>10, <2>1, CoreOfGrown
  <2> QED
    BY <2>2 DEF d
<1>12. status # "INFEASIBLE"
  BY <1>1 DEF Running
<1> QED
  BY <1>1, <1>5, <1>11, <1>12, ForgetNextOfProblem

\* Propagation keeps NothingIsForgotten.
LEMMA PropagateClausesForgetsNothing ==
  ASSUME SolverOK, SolverOK', NothingIsForgotten, PropagateClauses
  PROVE  NothingIsForgotten'
<1> DEFINE d == Now
           F == -trail[clause_index + 1].literal
           r == PropagateOnFalse(d, F)
           e == AsDatabase(d, r)
<1>1. /\ status \in Running /\ clause_index < Len(trail)
      /\ clauses' = r.clauses /\ watchers' = r.watchers /\ trail' = r.trail
      /\ UNCHANGED <<implications, removable, config, loaded, late>>
  BY DEF PropagateClauses, inputVars
<1>2. TypesOK /\ DatabaseOK(d) /\ DatabaseOK(Now)'
  BY DEF SolverOK
<1>3. d.trail = trail /\ d.implications = implications /\ r = PropagateOnFalse(d, F) /\ e = AsDatabase(d, r)
  BY NowFields
<1>4. Len(trail) \in Nat /\ IsTrail(trail)
  BY <1>2, <1>3, TrailEntries DEF DatabaseOK
<1>5. Now' = e
  <2>1. Now' = [clauses |-> r.clauses, watchers |-> r.watchers, implications |-> implications', trail |-> r.trail]
    BY <1>1 DEF Now
  <2>2. implications' = d.implications
    BY <1>1, <1>3
  <2> QED
    BY <2>1, <2>2 DEF AsDatabase
<1> HIDE DEF d, r, e
<1>6. clause_index + 1 \in 1..Len(trail)
  BY <1>1, <1>2, <1>4 DEF TypesOK
<1>7. F \in Literals /\ IsFalse(trail, F)
  <2>1. trail[clause_index + 1].literal \in Literals
    BY <1>4, <1>6, TrailEntries
  <2> QED
    BY <1>6, <2>1, LiteralFacts DEF IsFalse, IsTrue
<1> HIDE DEF F
<1>8. DatabaseOK(e) /\ e.trail = r.trail /\ e.implications = d.implications /\ SameClausesSince(d, e)
      /\ Begins(d.trail, e.trail)
  BY <1>2, <1>3, <1>7, PropagateOnFalseIsOK DEF GrownSince
<1>9. ASSUME NEW s \in Assignments, CoreModels(s, e, removable') PROVE CoreModels(s, Now, removable)
  <2>1. CoreModels(s, e, removable)
    BY <1>1, <1>9
  <2>2. CoreModels(s, d, removable)
    BY <1>2, <1>8, <2>1, CoreOfGrown
  <2> QED
    BY <2>2 DEF d
<1>10. status # "INFEASIBLE"
  BY <1>1 DEF Running
<1> QED
  BY <1>1, <1>5, <1>9, <1>10, ForgetNextOfProblem

(* The next clause to be added may not be forgotten.                       *)
LEMMA NewClauseIsKept ==
  ASSUME TypesOK, DatabaseOK(Now)
  PROVE  Len(clauses) + 1 \notin removable /\ removable \subseteq 1..Len(clauses)
<1>1. Now \in Databases /\ Now.clauses = clauses
  BY NowFields DEF DatabaseOK
<1>2. Len(clauses) \in Nat
  BY <1>1, DatabaseTypes
<1>3. removable \subseteq 1..Len(clauses)
  BY <1>1 DEF TypesOK, Attached
<1> QED
  BY <1>2, <1>3

(* Load: the clause that is added is satisfied.                            *)
LEMMA LoadForgetsNothing ==
  ASSUME SolverOK, NothingIsForgotten, Load
  PROVE  NothingIsForgotten'
<1> DEFINE d == Now
           c == config.clauses[loaded + 1]
           e == AddProblemClause(d, c)
<1>1. /\ status = "loading" /\ loaded < Len(config.clauses) /\ loaded' = loaded + 1
      /\ IF \A l \in c : IsFalse(trail, l)
         THEN status' = "INFEASIBLE" /\ UNCHANGED database
         ELSE DatabaseBecomes(e) /\ UNCHANGED status
      /\ UNCHANGED <<removable, config, late>>
  BY DEF Load
<1>2. TypesOK /\ DatabaseOK(d) /\ LevelZeroOK
  BY DEF SolverOK
<1>3. d.trail = trail /\ d.clauses = clauses /\ e = AddProblemClause(d, c)
  BY NowFields
<1>4. c \subseteq Literals /\ loaded \in Nat
  <2>1. config \in Configurations /\ loaded \in 0..Len(config.clauses)
    BY <1>2 DEF TypesOK
  <2>2. Len(config.clauses) \in Nat
    BY <2>1, ConfigurationFacts
  <2>3. loaded + 1 \in 1..Len(config.clauses)
    BY <1>1, <2>1, <2>2
  <2> QED
    BY <2>1, <2>2, <2>3, ConfigurationFacts
<1>5. CurrentLevel(d.trail) = 0
  BY <1>1, <1>2, <1>3 DEF LevelZeroOK
<1>6. \A x \in Problem' : x \in Problem \/ x = c
  <2>1. \A i \in 1..loaded' : i \in 1..loaded \/ i = loaded + 1
    BY <1>1, <1>4
  <2> QED
    BY <1>1, <2>1 DEF Problem
<1>7. Len(d.clauses) + 1 \notin removable
  BY <1>2, <1>3, NewClauseIsKept
<1> HIDE DEF c, d, e
<1>8. CASE \A l \in c : IsFalse(trail, l)
  BY <1>1, <1>8 DEF NothingIsForgotten
<1>9. CASE ~\A l \in c : IsFalse(trail, l)
  <2>1. DatabaseBecomes(e)
    BY <1>1, <1>9
  <2>2. \E l \in c : ~IsFalse(d.trail, l)
    BY <1>3, <1>9
  <2>3. DatabaseOK(e) /\ e \in Databases
    BY <1>2, <1>3, <1>4, <1>5, <2>2, AddProblemClauseIsOK DEF DatabaseOK
  <2>4. Now' = e
    BY <2>1, <2>3, NowBecomes
  <2>5. ASSUME NEW s \in Assignments, CoreModels(s, e, removable')
        PROVE  CoreModels(s, Now, removable) /\ \A x \in Problem' : x \in Problem \/ x \cap s # {}
    <3>1. CoreModels(s, e, removable)
      BY <1>1, <2>5
    <3>2. CoreModels(s, d, removable) /\ c \cap s # {}
      BY <1>2, <1>3, <1>4, <1>5, <1>7, <2>2, <3>1, CoreOfProblemClause
    <3> QED
      BY <1>6, <3>2 DEF d
  <2> QED
    BY <1>1, <2>4, <2>5, ForgetNext
<1> QED
  BY <1>8, <1>9

(* Ask: the trail is cut at level zero.                                    *)
LEMMA AskForgetsNothing ==
  ASSUME SolverOK, NothingIsForgotten, Ask
  PROVE  NothingIsForgotten'
<1> DEFINE d == Now
           level == 0
           kept == Backtracked(trail, level)
<1>1. /\ status # "INFEASIBLE" /\ trail' = kept
      /\ UNCHANGED <<clauses, watchers, implications, removable, config, loaded, late>>
  BY DEF Ask
<1>2. DatabaseOK(d)
  BY DEF SolverOK
<1>3. d.trail = trail /\ d.clauses = clauses /\ d.implications = implications
  BY NowFields
<1>4. PICK e : e = Now'
  OBVIOUS
<1>5. e.trail = kept /\ e.clauses = d.clauses /\ e.implications = d.implications
  BY <1>1, <1>3, <1>4 DEF Now
<1>6. Attached(e) = Attached(d)
  BY <1>5 DEF Attached, IsRemoved
<1>7. IsTrail(trail) /\ level \in Nat /\ kept = Backtracked(trail, level)
  BY <1>2, <1>3 DEF DatabaseOK
<1> HIDE DEF level, kept, d
<1>8. ASSUME NEW s \in Assignments, CoreModels(s, e, removable') PROVE CoreModels(s, Now, removable)
  <2>1. CoreModels(s, e, removable)
    BY <1>1, <1>8
  <2>2. SatisfiesFixed(s, e.trail) => SatisfiesFixed(s, d.trail)
    BY <1>3, <1>5, <1>7, FixedIsKept
  <2>3. CoreModels(s, d, removable)
    BY <1>5, <1>6, <2>1, <2>2, CoreOfTrail
  <2> QED
    BY <2>3 DEF d
<1> QED
  BY <1>1, <1>4, <1>8, ForgetNextOfProblem

(* Start: the simplification keeps the solutions.                          *)
LEMMA StartForgetsNothing ==
  ASSUME SolverOK, CompleteOK, NothingIsForgotten, Start
  PROVE  NothingIsForgotten'
<1> DEFINE d == Now
           e == ProcessNewlyFixedVariables(d)
<1>1. /\ status = "resetting" /\ Propagated
      /\ \/ UNCHANGED <<database, removable>>
         \/ DatabaseBecomes(e) /\ removable' = StillRemovable(e)
      /\ UNCHANGED <<config, loaded, late>>
  BY DEF Start, inputVars
<1>2. TypesOK /\ DatabaseOK(d) /\ LevelZeroOK
  BY DEF SolverOK
<1>3. d.trail = trail /\ e = ProcessNewlyFixedVariables(d)
  BY NowFields
<1>4. CurrentLevel(d.trail) = 0 /\ binary_index = Len(d.trail) /\ clause_index = Len(d.trail)
  BY <1>1, <1>2, <1>3 DEF LevelZeroOK, Propagated
<1>5. Settled(d, binary_index, clause_index)
  BY <1>1, SettledNow DEF Propagated
<1> HIDE DEF d, e
<1>6. CASE UNCHANGED <<database, removable>>
  <2>1. PICK f : f = Now
    OBVIOUS
  <2>2. Now' = f /\ removable' = removable
    BY <1>6, <2>1 DEF Now, database
  <2>3. \A s \in Assignments : CoreModels(s, f, removable') => CoreModels(s, Now, removable)
    BY <2>1, <2>2
  <2> QED
    BY <1>1, <2>2, <2>3, ForgetNextOfProblem
<1>7. CASE DatabaseBecomes(e) /\ removable' = StillRemovable(e)
  <2>1. e \in Databases
    BY <1>2, <1>3, <1>4, ProcessedIsOK DEF DatabaseOK
  <2>2. Now' = e
    BY <1>7, <2>1, NowBecomes
  <2>3. ASSUME NEW s \in Assignments, CoreModels(s, e, removable') PROVE CoreModels(s, Now, removable)
    <3>1. removable' \subseteq removable
      BY <1>7 DEF StillRemovable
    <3>2. CoreModels(s, e, removable)
      BY <2>3, <3>1, FewerAreKept
    <3>3. PICK n : n = Len(d.trail) /\ Settled(d, n, n)
      BY <1>4, <1>5
    <3>4. CoreModels(s, d, removable)
      BY <1>2, <1>3, <1>4, <3>2, <3>3, CoreOfProcessed
    <3> QED
      BY <3>4 DEF d
  <2> QED
    BY <1>1, <2>2, <2>3, ForgetNextOfProblem
<1> QED
  BY <1>1, <1>6, <1>7

(* ReapplyAssumptions: the trail goes on.                                  *)
LEMMA ReapplyAssumptionsForgetsNothing ==
  ASSUME SolverOK, SolverOK', NothingIsForgotten, ReapplyAssumptions
  PROVE  NothingIsForgotten'
<1> DEFINE d == Now
           r == WithAssumptions(trail, assumptions)
<1>1. /\ status = "searching" /\ CurrentLevel(trail) = 0 /\ trail' = r.trail
      /\ UNCHANGED <<clauses, watchers, implications, removable, config, loaded, late>>
  BY DEF ReapplyAssumptions, NeedAssumptions, Searching, inputVars
<1>2. TypesOK /\ DatabaseOK(d) /\ DatabaseOK(Now)'
  BY DEF SolverOK
<1>3. /\ d.trail = trail /\ d.clauses = clauses /\ d.implications = implications
  BY NowFields
<1>4. d \in Databases /\ IsTrail(trail) /\ assumptions \in Seq(Literals)
  BY <1>2, <1>3 DEF DatabaseOK, TypesOK
<1>5. PICK e : e = Now'
  OBVIOUS
<1>6. e.trail = r.trail /\ e.clauses = d.clauses /\ e.implications = d.implications /\ DatabaseOK(e)
  BY <1>1, <1>2, <1>3, <1>5 DEF Now
<1>7. r = WithAssumptions(d.trail, assumptions) /\ CurrentLevel(d.trail) = 0
  BY <1>1, <1>3
<1> HIDE DEF d, r
<1>8. Begins(d.trail, e.trail)
  BY <1>2, <1>4, <1>6, <1>7, AssumptionsAreOK DEF AssumedOK, Assumeds
<1>9. SameClausesSince(d, e)
  BY <1>4, <1>6, ClausesStay
<1>10. ASSUME NEW s \in Assignments, CoreModels(s, e, removable') PROVE CoreModels(s, Now, removable)
  <2>1. CoreModels(s, e, removable)
    BY <1>1, <1>10
  <2>2. CoreModels(s, d, removable)
    BY <1>2, <1>6, <1>8, <1>9, <2>1, CoreOfGrown
  <2> QED
    BY <2>2 DEF d
<1> QED
  BY <1>1, <1>5, <1>10, ForgetNextOfProblem

(* Leaf, and a stuttering step.                                            *)
LEMMA UnchangedForgetsNothing ==
  ASSUME NothingIsForgotten, UNCHANGED <<database, removable, config, loaded, late>>,
         status = "INFEASIBLE" => status' = "INFEASIBLE"
  PROVE  NothingIsForgotten'
<1>1. PICK e : e = Now
  OBVIOUS
<1>2. Now' = e /\ removable' = removable
  BY <1>1 DEF Now, database
<1>3. CASE status = "INFEASIBLE"
  BY <1>3 DEF NothingIsForgotten
<1>4. CASE status # "INFEASIBLE"
  <2>1. \A s \in Assignments : CoreModels(s, e, removable') => CoreModels(s, Now, removable)
    BY <1>1, <1>2
  <2> QED
    BY <1>2, <1>4, <2>1, ForgetNextOfProblem
<1> QED
  BY <1>3, <1>4

(* A trail that is cut.                                                    *)
LEMMA CoreOfCutTrail ==
  ASSUME NEW s, NEW d \in Databases, IsTrail(d.trail), NEW level \in Nat,
         NEW kept, kept = Backtracked(d.trail, level) \/ kept = d.trail,
         NEW e, e = WithTrailOf(d, kept), NEW P, CoreModels(s, e, P)
  PROVE  CoreModels(s, d, P)
<1>1. IsTrail(kept)
  BY BacktrackedFacts
<1>2. e.trail = kept /\ e.clauses = d.clauses /\ e.implications = d.implications /\ Attached(e) = Attached(d)
  BY <1>1, WithTrail DEF WithTrailOf, IsTrail
<1>3. SatisfiesFixed(s, kept) => SatisfiesFixed(s, d.trail)
  BY FixedIsKept
<1> QED
  BY <1>2, <1>3, CoreOfTrail

(* EnqueueNewDecision: cut, simplified, and gone on with a decision.       *)
LEMMA EnqueueNewDecisionForgetsNothing ==
  ASSUME SolverOK, CompleteOK, SolverOK', NothingIsForgotten, NEW restart \in BOOLEAN, NEW process \in BOOLEAN, NEW l,
         EnqueueNewDecision(restart, process, l)
  PROVE  NothingIsForgotten'
<1> DEFINE d == Now
           assumption_level == IF assumptions = <<>> THEN 0 ELSE 1
           kept == IF restart THEN Backtracked(trail, assumption_level) ELSE trail
           level == CurrentLevel(kept)
           g == WithTrailOf(d, kept)
           e == IF process THEN ProcessNewlyFixedVariables(g) ELSE g
           next == level + 1
           type == "DECISION"
           by == 0
           u == Enqueued(kept, l, next, type, by)
           n == WithTrailOf(e, u)
<1>1. /\ status = "searching" /\ Propagated /\ process => level = 0
      /\ status = "searching" /\ Propagated
      /\ restart => CurrentLevel(trail) > assumption_level
      /\ DatabaseBecomes([e EXCEPT !.trail = Enqueued(@, l, level + 1, "DECISION", 0)])
      /\ removable' = StillRemovable(e) /\ UNCHANGED <<config, loaded, late>>
  BY DEF EnqueueNewDecision, Searching, WithTrailOf, inputVars
<1>2. TypesOK /\ DatabaseOK(d) /\ DatabaseOK(Now)'
  BY DEF SolverOK
<1>3. d.trail = trail
  BY NowFields
<1>4. d \in Databases /\ IsTrail(trail) /\ Len(trail) \in Nat /\ CurrentLevel(trail) \in Nat
  BY <1>2, <1>3, TrailEntries, CurrentLevelFacts DEF DatabaseOK
<1>5. /\ assumption_level \in Nat
      /\ [e EXCEPT !.trail = Enqueued(@, l, level + 1, "DECISION", 0)] = [e EXCEPT !.trail = Enqueued(e.trail, l, next, type, by)]
  OBVIOUS
<1>6. kept = Backtracked(d.trail, assumption_level) \/ kept = d.trail
  BY <1>3
<1>7. g = WithTrailOf(d, kept) /\ g = [d EXCEPT !.trail = kept] /\ (kept = d.trail => g = d)
  <2>1. d = [clauses |-> d.clauses, watchers |-> d.watchers, implications |-> d.implications, trail |-> d.trail]
    BY NowFields DEF Now
  <2> QED
    BY <2>1 DEF WithTrailOf
<1>8. (process /\ e = ProcessNewlyFixedVariables(g)) \/ e = g
  OBVIOUS
<1>9. Settled(d, Len(d.trail), Len(d.trail))
  <2>1. Settled(d, binary_index, clause_index)
    BY <1>1, SettledNow DEF Propagated
  <2> QED
    BY <1>1, <1>3, <2>1 DEF Propagated
<1>10. n = WithTrailOf(e, u) /\ u = Enqueued(kept, l, next, type, by) /\ level = CurrentLevel(kept)
       /\ (process /\ kept = Backtracked(d.trail, assumption_level) /\ kept # d.trail => restart)
  BY <1>3
<1> HIDE DEF d, assumption_level, kept, g, e, u, level, next
<1>11. IsTrail(kept) /\ Begins(kept, trail) /\ Len(kept) \in Nat /\ Len(kept) <= Len(trail)
  <2>1. CASE kept = Backtracked(d.trail, assumption_level)
    <3>1. IsTrail(kept) /\ Begins(kept, trail)
      BY <1>3, <1>4, <1>5, <2>1, BacktrackedFacts
    <3> QED
      BY <3>1, TrailEntries DEF Begins
  <2>2. CASE kept = d.trail
    BY <1>3, <1>4, <2>2 DEF Begins
  <2> QED
    BY <1>6, <2>1, <2>2
<1>12. DatabaseOK(g) /\ g.trail = kept
  <2>1. /\ Begins(kept, d.trail)
        /\ \A i \in 1..Len(d.trail) : d.trail[i].level = 0 => i <= Len(kept)
    <3>1. CASE kept = Backtracked(d.trail, assumption_level)
      <4>0. kept = Backtracked(trail, assumption_level)
        BY <1>3, <3>1
      <4>1. \A i \in 1..Len(trail) : trail[i].level <= assumption_level <=> i <= Len(kept)
        BY <1>4, <1>5, <4>0, BacktrackedFacts
      <4>2. \A i \in 1..Len(trail) : trail[i].level = 0 => i <= Len(kept)
        BY <1>5, <4>1
      <4> QED
        BY <1>3, <1>11, <4>2
    <3>2. CASE kept = d.trail
      BY <1>3, <1>4, <1>11, <3>2
    <3> QED
      BY <1>6, <3>1, <3>2
  <2>2. DatabaseOK(g)
    BY <1>2, <1>7, <1>11, <2>1, CutTrail
  <2> QED
    BY <1>4, <1>7, <1>11, <2>2, WithTrail DEF IsTrail
<1>13. Settled(g, Len(kept), Len(kept))
  <2>1. CASE kept = d.trail
    BY <1>7, <1>9, <2>1
  <2>2. CASE kept = Backtracked(d.trail, assumption_level)
    <3>1. PICK a : a = Len(kept)
      OBVIOUS
    <3>2. PICK m : m = Len(d.trail)
      OBVIOUS
    <3>3. PICK top : top = CurrentLevel(d.trail)
      OBVIOUS
    <3>4. m \in Nat /\ a \in Nat /\ a <= m /\ top \in Int
      BY <1>3, <1>4, <1>11, <3>1, <3>2, <3>3
    <3>5. CASE assumption_level <= top
      <4>1. SettledTo(d, m, m, top)
        BY <1>9, <3>2, <3>3 DEF Settled
      <4>2. Settled(g, a, a)
        BY <1>2, <1>5, <1>7, <1>12, <2>2, <3>1, <3>4, <3>5, <4>1, CutIsSettled
      <4> QED
        BY <3>1, <4>2
    <3>6. CASE ~(assumption_level <= top)
      <4>1. ~restart
        BY <1>1, <1>3, <1>4, <1>5, <3>3, <3>6
      <4> QED
        BY <1>3, <1>7, <1>9, <4>1 DEF kept
    <3> QED
      BY <3>5, <3>6
  <2> QED
    BY <1>6, <2>1, <2>2
<1>14. process => CurrentLevel(g.trail) = 0
  BY <1>1, <1>10, <1>12
<1>15. e \in Databases /\ e.trail = kept
  <2>1. CASE process /\ e = ProcessNewlyFixedVariables(g)
    BY <1>12, <1>14, <2>1, ProcessedIsOK DEF DatabaseOK
  <2>2. CASE e = g
    BY <1>12, <2>2 DEF DatabaseOK
  <2> QED
    BY <1>8, <2>1, <2>2
<1>16. DatabaseBecomes(n)
  BY <1>1, <1>5, <1>10, <1>15 DEF WithTrailOf
<1>17. n.trail = u /\ n.clauses = e.clauses /\ n.implications = e.implications /\ n.watchers = e.watchers
  BY <1>10, <1>15 DEF WithTrailOf, Databases
<1>18. Now' = n
  <2>1. Now' = [clauses |-> n.clauses, watchers |-> n.watchers, implications |-> n.implications, trail |-> n.trail]
    BY <1>16 DEF DatabaseBecomes, Now
  <2>2. n = [clauses |-> n.clauses, watchers |-> n.watchers, implications |-> n.implications, trail |-> n.trail]
    <3>1. n = [e EXCEPT !.trail = u]
      BY <1>10 DEF WithTrailOf
    <3> HIDE DEF n
    <3> QED
      BY <1>15, <3>1 DEF Databases
  <2> QED
    BY <2>1, <2>2
<1> HIDE DEF n
<1>19. IsTrail(u) /\ Begins(kept, u)
  <2>1. IsTrail(u)
    BY <1>2, <1>17, <1>18 DEF DatabaseOK
  <2>2. kept \in Seq(Entries)
    BY <1>11 DEF IsTrail
  <2>3. Len(u) = Len(kept) + 1 /\ \A i \in 1..Len(kept) : u[i] = kept[i]
    BY <1>10, <2>2 DEF Enqueued
  <2> QED
    BY <1>11, <2>1, <2>3 DEF Begins
<1>20. Attached(n) = Attached(e)
  BY <1>17 DEF Attached, IsRemoved
<1>21. ASSUME NEW s \in Assignments, CoreModels(s, n, removable') PROVE CoreModels(s, Now, removable)
  <2>1. removable' \subseteq removable
    BY <1>1 DEF StillRemovable
  <2>2. CoreModels(s, n, removable)
    BY <1>21, <2>1, FewerAreKept
  <2>3. SatisfiesFixed(s, n.trail) => SatisfiesFixed(s, e.trail)
    BY <1>11, <1>15, <1>17, <1>19, FixedBefore
  <2>4. CoreModels(s, e, removable)
    BY <1>17, <1>20, <2>2, <2>3, CoreOfTrail
  <2>5. CoreModels(s, g, removable)
    <3>1. CASE process /\ e = ProcessNewlyFixedVariables(g)
      <4>1. PICK m : m = Len(g.trail) /\ Settled(g, m, m)
        BY <1>12, <1>13
      <4> QED
        BY <1>12, <1>14, <2>4, <3>1, <4>1, CoreOfProcessed
    <3>2. CASE e = g
      BY <2>4, <3>2
    <3> QED
      BY <1>8, <3>1, <3>2
  <2>6. CoreModels(s, d, removable)
    BY <1>3, <1>4, <1>5, <1>6, <1>7, <2>5, CoreOfCutTrail
  <2> QED
    BY <2>6 DEF d
<1> QED
  BY <1>1, <1>18, <1>21, ForgetNextOfProblem

(* ProcessCurrentConflict: what is learned may be forgotten only if what it*)
(* subsumes may, and is part of what it subsumes.                          *)
LEMMA ProcessCurrentConflictForgetsNothing ==
  ASSUME SolverOK, NothingIsForgotten, ProcessCurrentConflict
  PROVE  NothingIsForgotten'
<1> DEFINE d == Now
           highest == Max({LevelOf(trail, l) : l \in ToSet(conflict)})
           gives_up == highest = 0 \/ (highest = 1 /\ assumptions # <<>>)
<1>1. /\ status \in Running /\ conflict # <<>>
      /\ IF gives_up
         THEN UNCHANGED <<database, removable>>
         ELSE BackjumpAndLearn
      /\ UNCHANGED <<config, loaded, late>>
  BY DEF ProcessCurrentConflict, inputVars
<1>2. TypesOK /\ DatabaseOK(d) /\ FailureIsKnown(d, conflict, failing)
  BY <1>1 DEF SolverOK, ConflictOK
<1>3. d.trail = trail /\ d.clauses = clauses
  BY NowFields
<1>4. d \in Databases /\ IsTrail(trail) /\ status # "INFEASIBLE" /\ removable \subseteq 1..Len(d.clauses)
  BY <1>1, <1>2, <1>3, NewClauseIsKept DEF DatabaseOK, Running
<1>5. highest \in Nat /\ \E l \in ToSet(conflict) : LevelOf(trail, l) = highest
  <2>1. conflict \in Seq(Literals) /\ \A l \in ToSet(conflict) : IsFalse(trail, l)
    BY <1>2, <1>3 DEF FailureIsKnown, FalseLiterals
  <2> QED
    BY <1>1, <1>4, <2>1, HighestLevel
<1> HIDE DEF highest
<1>6. CASE gives_up
  <2>1. UNCHANGED <<database, removable, config, loaded, late>>
    BY <1>1, <1>6
  <2> QED
    BY <1>4, <2>1, UnchangedForgetsNothing
<1>7. CASE ~gives_up
  <2> DEFINE r == Learned(d)
             subsumed == IF config.subsumption_during_conflict_analysis THEN r.subsumed ELSE {}
             level == ComputeBacktrackLevel(trail, r.conflict)
             kept == Backtracked(trail, level)
             g == WithTrailOf(d, kept)
             e == Detach(g, subsumed)
  <2>1. BackjumpAndLearn
    BY <1>1, <1>7
  <2> HIDE DEF d
  <2>2. LearnClause(e, r.conflict, IsRedundant(subsumed))
    BY <2>1 DEF BackjumpAndLearn, WithTrailOf, d
  <2>3. subsumed \subseteq r.subsumed
    OBVIOUS
  <2>4. /\ r = Learned(d) /\ level = ComputeBacktrackLevel(d.trail, r.conflict)
        /\ kept = Backtracked(d.trail, level) /\ g = WithTrailOf(d, kept) /\ e = Detach(g, subsumed)
    BY <1>3
  <2> HIDE DEF r, subsumed, level, kept, g, e
  <2>5. \E l \in ToSet(conflict) : LevelOf(d.trail, l) > 0
    <3>1. highest > 0
      BY <1>5, <1>7
    <3> QED
      BY <1>3, <1>5, <3>1
  <2>6. PICK first \in Nat \ {0} : LearnedOK(d, first, r)
    BY <1>2, <2>4, <2>5, LearnedIsOK
  <2>7. Contained(d, r)
    BY <1>2, <2>4, <2>5, LearnedSubsumes
  <2>8. /\ DatabaseOK(g) /\ g.trail = kept /\ g.clauses = d.clauses /\ level \in Nat
        /\ Asserting(kept, r.conflict) /\ NotReasons(kept, r.subsumed)
    BY <1>2, <2>4, <2>6, BackjumpIsOK
  <2>9. DatabaseOK(e)
    <3>1. \A i \in 1..Len(g.trail) : g.trail[i].type = "CLAUSE" /\ g.trail[i].level > 0 => g.trail[i].by \notin subsumed
      BY <2>3, <2>8 DEF NotReasons
    <3> QED
      BY <2>4, <2>8, <3>1, DetachIsOK
  <2>10. g \in Databases
    BY <2>8 DEF DatabaseOK
  <2>11. e.trail = kept /\ Len(e.clauses) = Len(g.clauses)
    BY <2>4, <2>8, <2>10, DetachFields
  <2>12. Asserting(e.trail, r.conflict) /\ removable \subseteq 1..Len(e.clauses)
    BY <1>4, <2>8, <2>11
  <2>13. PICK n : n = Now'
    OBVIOUS
  <2>14. ASSUME NEW s \in Assignments, CoreModels(s, n, removable') PROVE CoreModels(s, Now, removable)
    <3>1. CoreModels(s, e, removable) /\ (IsRedundant(subsumed) \/ Satisfies(s, r.conflict))
      BY <2>2, <2>9, <2>12, <2>13, <2>14, CoreOfLearnClause
    <3>2. ASSUME NEW c \in subsumed PROVE c \in removable \/ Satisfies(s, g.clauses[c])
      <4>1. CASE IsRedundant(subsumed)
        BY <3>2, <4>1 DEF IsRedundant
      <4>2. CASE Satisfies(s, r.conflict)
        <5>1. ToSet(r.conflict) \subseteq ToSet(g.clauses[c])
          BY <2>3, <2>7, <2>8 DEF Contained
        <5> QED
          BY <4>2, <5>1 DEF Satisfies
      <4> QED
        BY <3>1, <4>1, <4>2
    <3>3. CoreModels(s, g, removable)
      BY <2>4, <2>10, <3>1, <3>2, CoreOfDetached
    <3>4. IsTrail(d.trail)
      BY <1>3, <1>4
    <3>5. CoreModels(s, d, removable)
      BY <1>4, <2>4, <2>8, <3>3, <3>4, CoreOfCutTrail
    <3> QED
      BY <3>5 DEF d
  <2> QED
    BY <1>1, <1>4, <2>13, <2>14, ForgetNextOfProblem
<1> QED
  BY <1>6, <1>7

(* AddClauseDuringSearch: the clause that is added is satisfied.           *)
LEMMA AddClauseDuringSearchForgetsNothing ==
  ASSUME SolverOK, NothingIsForgotten, NEW c \in config.late, AddClauseDuringSearch(c)
  PROVE  NothingIsForgotten'
<1> DEFINE d == Now
           s == Sorted(c)
<1>1. PICK e : /\ e = IF CurrentLevel(trail) = 0 THEN AddProblemClause(d, c)
                      ELSE IF Cardinality(c) = 2 THEN AddBinaryClause(d, s[1], s[2]) ELSE Attach(d, s)
               /\ DatabaseBecomes(e)
  BY DEF AddClauseDuringSearch
<1>2. /\ status = "searching" /\ \E l \in c : ~IsFalse(trail, l) /\ late' = late \cup {c}
      /\ UNCHANGED <<config, loaded, removable>>
  BY DEF AddClauseDuringSearch, Searching
<1>3. TypesOK /\ DatabaseOK(d) /\ config \in Configurations
  BY DEF SolverOK, TypesOK
<1>4. d.trail = trail /\ d.clauses = clauses
  BY NowFields
<1>5. Len(d.clauses) + 1 \notin removable
  BY <1>3, <1>4, NewClauseIsKept
<1>6. c \subseteq Literals /\ Cardinality(c) > 1
  BY <1>3, ConfigurationFacts
<1>7. s \in Seq(Literals) /\ Len(s) = Cardinality(c) /\ ToSet(s) = c /\ Distinct(s)
  BY <1>6, SortedFacts
<1>8. \A x \in Problem' : x \in Problem \/ x = c
  BY <1>2 DEF Problem
<1> HIDE DEF d, s
<1>9. DatabaseOK(e) /\ \A a \in Assignments : CoreModels(a, e, removable) => CoreModels(a, d, removable) /\ c \cap a # {}
  <2>1. CASE CurrentLevel(trail) = 0
    <3>1. e = AddProblemClause(d, c) /\ CurrentLevel(d.trail) = 0 /\ \E l \in c : ~IsFalse(d.trail, l)
      BY <1>1, <1>2, <1>4, <2>1
    <3>2. DatabaseOK(e)
      BY <1>3, <1>6, <3>1, AddProblemClauseIsOK
    <3>3. \A a \in Assignments : CoreModels(a, e, removable) => CoreModels(a, d, removable) /\ c \cap a # {}
      BY <1>3, <1>5, <1>6, <3>1, CoreOfProblemClause
    <3> QED
      BY <3>2, <3>3
  <2>2. CASE CurrentLevel(trail) # 0 /\ Cardinality(c) = 2
    <3> DEFINE x == s[1]
               y == s[2]
    <3>1. x \in Literals /\ y \in Literals /\ x # y /\ \A l : l \in c <=> l = x \/ l = y
      <4>1. Len(s) = 2 /\ s \in Seq(Literals) /\ Distinct(s)
        BY <1>7, <2>2
      <4>2. 1 \in 1..Len(s) /\ 2 \in 1..Len(s)
        BY <4>1
      <4>3. s[1] \in Literals /\ s[2] \in Literals
        BY <4>1, <4>2, ToSetFacts
      <4>4. s[1] # s[2]
        BY <4>1, <4>2 DEF Distinct
      <4>5. \A l : l \in c <=> \E i \in 1..Len(s) : s[i] = l
        BY <1>7, ToSetFacts
      <4>6. \A i : i \in 1..Len(s) <=> i = 1 \/ i = 2
        BY <4>1
      <4> QED
        BY <4>3, <4>4, <4>5, <4>6
    <3>2. e = AddBinaryClause(d, x, y)
      BY <1>1, <2>2
    <3> HIDE DEF x, y
    <3>3. DatabaseOK(e)
      BY <1>3, <3>1, <3>2, AddBinaryClauseIsOK
    <3>4. \A a \in Assignments : CoreModels(a, e, removable) => CoreModels(a, d, removable) /\ (x \in a \/ y \in a)
      BY <1>3, <3>1, <3>2, CoreOfBinary
    <3> QED
      BY <3>1, <3>3, <3>4
  <2>3. CASE CurrentLevel(trail) # 0 /\ Cardinality(c) # 2
    <3>1. Len(s) \in Nat /\ Len(s) >= 3
      BY <1>6, <1>7, <2>3
    <3>2. \E i \in 1..Len(s) : ~IsFalse(d.trail, s[i])
      <4>1. PICK l \in ToSet(s) : ~IsFalse(d.trail, l)
        BY <1>2, <1>4, <1>7
      <4>2. PICK i \in 1..Len(s) : s[i] = l
        BY <1>7, <4>1, ToSetFacts
      <4> QED
        BY <4>1, <4>2
    <3>3. e = Attach(d, s)
      BY <1>1, <2>3
    <3>4. DatabaseOK(e)
      BY <1>3, <1>7, <3>1, <3>2, <3>3, AttachIsOK
    <3>5. \A a \in Assignments : CoreModels(a, e, removable) => CoreModels(a, d, removable) /\ Satisfies(a, s)
      BY <1>3, <1>5, <1>7, <3>1, <3>2, <3>3, CoreOfAttached
    <3>6. \A a : Satisfies(a, s) => c \cap a # {}
      BY <1>7 DEF Satisfies
    <3> QED
      BY <3>4, <3>5, <3>6
  <2> QED
    BY <2>1, <2>2, <2>3
<1>10. Now' = e
  BY <1>1, <1>9, NowBecomes DEF DatabaseOK
<1>11. ASSUME NEW a \in Assignments, CoreModels(a, e, removable')
       PROVE  CoreModels(a, Now, removable) /\ \A x \in Problem' : x \in Problem \/ x \cap a # {}
  <2>1. CoreModels(a, e, removable)
    BY <1>2, <1>11
  <2>2. CoreModels(a, d, removable) /\ c \cap a # {}
    BY <1>9, <2>1
  <2> QED
    BY <1>8, <2>2 DEF d
<1>12. status # "INFEASIBLE"
  BY <1>2
<1> QED
  BY <1>10, <1>11, <1>12, ForgetNext

(* So no step forgets anything.                                            *)
LEMMA NextForgetsNothing ==
  ASSUME SolverOK, CompleteOK, SolverOK', NothingIsForgotten, [Next]_vars
  PROVE  NothingIsForgotten'
<1>1. CASE PropagateBinary
  BY <1>1, PropagateBinaryForgetsNothing
<1>2. CASE PropagateClauses
  BY <1>2, PropagateClausesForgetsNothing
<1>3. CASE Load
  BY <1>3, LoadForgetsNothing
<1>4. CASE Ask
  BY <1>4, AskForgetsNothing
<1>5. CASE Start
  BY <1>5, StartForgetsNothing
<1>6. CASE ReapplyAssumptions
  BY <1>6, ReapplyAssumptionsForgetsNothing
<1>7. CASE Leaf
  <2>1. status = "searching" /\ UNCHANGED <<database, removable, config, loaded, late>>
    BY <1>7 DEF Leaf, Searching, inputVars
  <2> QED
    BY <2>1, UnchangedForgetsNothing
<1>8. CASE \E restart, process \in BOOLEAN, l \in config.branches : EnqueueNewDecision(restart, process, l)
  BY <1>8, EnqueueNewDecisionForgetsNothing
<1>9. CASE ProcessCurrentConflict
  BY <1>9, ProcessCurrentConflictForgetsNothing
<1>10. CASE \E c \in config.late : AddClauseDuringSearch(c)
  BY <1>10, AddClauseDuringSearchForgetsNothing
<1>11. CASE UNCHANGED vars
  <2>1. UNCHANGED <<database, removable, config, loaded, late, status>>
    BY <1>11 DEF vars, inputVars
  <2> QED
    BY <2>1, UnchangedForgetsNothing
<1> QED
  BY <1>1, <1>2, <1>3, <1>4, <1>5, <1>6, <1>7, <1>8, <1>9, <1>10, <1>11 DEF Next

(* In every state what satisfies what is known for sure is a solution, of  *)
(* searches without late clauses: a clause that the simplification takes   *)
(* to be true as a watched literal is assigned is true.                    *)
THEOREM NothingIsLost == ClausesAreNotLate => (Spec => []NothingIsForgotten)
<1> SUFFICES ASSUME ClausesAreNotLate PROVE Spec => []NothingIsForgotten
  OBVIOUS
<1> DEFINE Invariant == SolverOK /\ CompleteOK /\ NothingIsForgotten
<1>1. Init => Invariant
  BY InitIsOK, InitIsComplete, InitForgetsNothing
<1>2. Invariant /\ [Next]_vars => Invariant'
  BY NextIsOK, NextIsComplete, NextForgetsNothing
<1>3. Invariant => NothingIsForgotten
  OBVIOUS
<1> QED
  BY <1>1, <1>2, <1>3, PTL DEF Spec

(* Whoever satisfies the clauses of the database models it.                *)
LEMMA SatisfyingModels ==
  ASSUME NEW s \in Assignments, DatabaseOK(Now), \A c \in Database : c \cap s # {}
  PROVE  Models(s, Now)
<1>1. Now.trail = trail /\ Now.clauses = clauses /\ Now.implications = implications /\ Now \in Databases
  BY NowFields DEF DatabaseOK
<1>2. ASSUME NEW c, IsClauseOf(Now, c) PROVE \E l \in c : l \in s
  <2>1. c \in Database
    BY <1>2, DatabaseClauses
  <2> QED
    BY <2>1
<1>3. ASSUME NEW p \in Attached(Now) PROVE Satisfies(s, Now.clauses[p])
  <2>1. IsClauseOf(Now, ToSet(Now.clauses[p]))
    BY DEF IsClauseOf
  <2> QED
    BY <1>2, <2>1 DEF Satisfies
<1>4. ASSUME NEW l \in Literals, NEW m \in Literals, m \in ToSet(Now.implications[l]), l \in s PROVE m \in s
  <2>1. IsClauseOf(Now, {-l, m})
    BY <1>4 DEF IsClauseOf
  <2>2. -l \in s \/ m \in s
    BY <1>2, <2>1
  <2> QED
    BY <1>4, <2>2, AssignmentFacts
<1>5. ASSUME NEW i \in 1..Len(Now.trail), Now.trail[i].level = 0 PROVE Now.trail[i].literal \in s
  <2>1. IsClauseOf(Now, {Now.trail[i].literal})
    BY <1>5 DEF IsClauseOf
  <2> QED
    BY <1>2, <2>1
<1> QED
  BY <1>3, <1>4, <1>5 DEF Models, SatisfiesGraph, SatisfiesFixed

(* The database has exactly the solutions of the clauses added so far, in  *)
(* every state of searches without late clauses: what ClauseManager and    *)
(* BinaryImplicationGraph hold is neither too much, as conflict analysis,  *)
(* minimisation and propagation only derive what follows, nor too little,  *)
(* as what is subsumed, forgotten or simplified away still follows.        *)
THEOREM DatabaseStaysEquivalent == ClausesAreNotLate => (Spec => []DatabaseIsEquivalent)
<1> SUFFICES ASSUME ClausesAreNotLate PROVE Spec => []DatabaseIsEquivalent
  OBVIOUS
<1>1. ASSUME SolverOK, SearchOK, NothingIsForgotten, status # "INFEASIBLE"
      PROVE  SolutionsOf(Database) = SolutionsOf(Problem)
  <2>1. DatabaseOK(Now) /\ KnownOK
    BY <1>1 DEF SearchOK, SolverOK
  <2>2. ASSUME NEW s \in SolutionsOf(Problem) PROVE s \in SolutionsOf(Database)
    <3>1. s \in Assignments /\ Models(s, Now)
      BY <2>1, <2>2, KnownFacts
    <3>2. \A c \in Database : c \cap s # {}
      BY <2>1, <3>1, ModelsSatisfy
    <3> QED
      BY <3>1, <3>2 DEF SolutionsOf
  <2>3. ASSUME NEW s \in SolutionsOf(Database) PROVE s \in SolutionsOf(Problem)
    <3>1. s \in Assignments /\ \A c \in Database : c \cap s # {}
      BY <2>3 DEF SolutionsOf
    <3>2. Models(s, Now)
      BY <2>1, <3>1, SatisfyingModels
    <3>3. CoreModels(s, Now, removable)
      BY <3>2 DEF Models, CoreModels
    <3>4. \A c \in Problem : c \cap s # {}
      BY <1>1, <3>1, <3>3 DEF NothingIsForgotten
    <3> QED
      BY <3>1, <3>4 DEF SolutionsOf
  <2> QED
    BY <2>2, <2>3
<1>2. SolverOK /\ SearchOK /\ NothingIsForgotten => DatabaseIsEquivalent
  BY <1>1 DEF DatabaseIsEquivalent
<1>3. Spec => []SolverOK
  BY SolverIsOK
<1>4. Spec => []SearchOK
  BY SearchIsOK
<1>5. Spec => []NothingIsForgotten
  BY NothingIsLost
<1> QED
  BY <1>2, <1>3, <1>4, <1>5, PTL

-----------------------------------------------------------------------------
(* The answers.  What the decisions say that fix some false literals:      *)
(* where they hold these are false.                                        *)
FixedByDecisions(d, literals, n) ==
  /\ \A s \in Assignments : Models(s, d) /\ GetDecisionsFixing(d, literals) \subseteq s =>
       \A l \in literals : l \notin s
  /\ \A m \in GetDecisionsFixing(d, literals) :
       \E i \in 1..Len(d.trail) : d.trail[i].literal = m /\ d.trail[i].type = "DECISION" /\ d.trail[i].level <= n

(* GetDecisionsFixing()                                                    *)
LEMMA DecisionsFix ==
  ASSUME NEW d, DatabaseOK(d), NEW literals, literals \subseteq Literals, NEW n \in Nat,
         \A l \in literals : IsFalse(d.trail, l) /\ LevelOf(d.trail, l) <= n
  PROVE  FixedByDecisions(d, literals, n)
<1> DEFINE t == d.trail
           roots == {TrailIndex(t, l) : l \in literals}
           F == Fixing(d, literals)
<1>1. IsTrail(t) /\ Len(t) \in Nat /\ ReasonsOK(d)
  BY TrailEntries DEF DatabaseOK
<1>2. FixingOK(d, roots, n, F, 0)
  <2>1. \A l \in literals : IsAssigned(t, l) /\ LevelOf(t, l) <= n
    BY DEF IsAssigned
  <2>2. roots = {TrailIndex(d.trail, l) : l \in literals}
    OBVIOUS
  <2> HIDE DEF roots
  <2> QED
    BY <2>1, <2>2, FixingIsOK
<1> HIDE DEF F
<1>3. /\ roots \subseteq F /\ F \subseteq 1..Len(t) /\ \A j \in F : t[j].level <= n
      /\ \A j \in F : {TrailIndex(t, l) : l \in ToSet(Reason(d, j))} \subseteq F
  <2>1. /\ roots \subseteq F /\ F \subseteq 1..Len(t) /\ \A j \in F : t[j].level <= n
        /\ \A j \in F : j > 0 => {TrailIndex(t, l) : l \in ToSet(Reason(d, j))} \subseteq F
    BY <1>2 DEF FixingOK
  <2>2. \A j \in F : j > 0
    BY <1>1, <2>1
  <2> QED
    BY <2>1, <2>2
<1>4. GetDecisionsFixing(d, literals) = {t[i].literal : i \in {i \in F : t[i].type = "DECISION"}}
  BY DEF GetDecisionsFixing, F
<1>5. ASSUME NEW s \in Assignments, Models(s, d), GetDecisionsFixing(d, literals) \subseteq s
      PROVE  \A l \in literals : l \notin s
  <2> DEFINE S == {k \in Nat : \A i \in F : i <= k => t[i].literal \in s}
  <2>1. 0 \in S
    BY <1>1, <1>3
  <2>2. ASSUME NEW k \in Nat, k \in S PROVE k + 1 \in S
    <3> SUFFICES ASSUME NEW i \in F, i = k + 1, t[i].literal \notin s PROVE FALSE
      BY <1>1, <1>3, <2>2
    <3>1. i \in 1..Len(t)
      BY <1>3
    <3>2. t[i].type # "DECISION"
      BY <1>4, <1>5
    <3>3. PICK m \in ToSet(Reason(d, i)) : m \in s
      BY <1>5, <3>1, <3>2, ReasonIsSatisfied
    <3>4. PICK j \in 1..(i - 1) : t[j].literal = -m
      BY <1>1, <3>1, <3>3 DEF ReasonsOK, EntryIsExplained
    <3>5. m \in Literals /\ j \in 1..Len(t) /\ j <= k
      BY <1>1, <3>1, <3>3, <3>4, ReasonFacts
    <3>6. TrailIndex(t, m) = j
      BY <1>1, <3>4, <3>5, TrailFacts
    <3>7. j \in F
      BY <1>3, <3>3, <3>6
    <3>8. -m \in s
      BY <2>2, <3>4, <3>5, <3>7
    <3> QED
      BY <3>3, <3>5, <3>8, AssignmentFacts
  <2>3. Nat \subseteq S
    <3> HIDE DEF S
    <3> QED
      BY <2>1, <2>2, SetInduction
  <2>4. \A i \in F : t[i].literal \in s
    BY <1>1, <1>3, <2>3
  <2>5. ASSUME NEW l \in literals PROVE l \notin s
    <3>1. l \in Literals /\ IsFalse(t, l)
      OBVIOUS
    <3>2. t[TrailIndex(t, l)].literal = -l
      BY <1>1, <3>1, FalseOfFacts
    <3>3. TrailIndex(t, l) \in F
      BY <1>3
    <3>4. -l \in s
      BY <2>4, <3>2, <3>3
    <3> QED
      BY <3>1, <3>4, AssignmentFacts
  <2> QED
    BY <2>5
<1>6. ASSUME NEW m \in GetDecisionsFixing(d, literals)
      PROVE  \E i \in 1..Len(t) : t[i].literal = m /\ t[i].type = "DECISION" /\ t[i].level <= n
  <2>1. PICK i \in F : t[i].type = "DECISION" /\ t[i].literal = m
    BY <1>4, <1>6
  <2> QED
    BY <1>3, <2>1
<1> QED
  BY <1>5, <1>6 DEF FixedByDecisions

-----------------------------------------------------------------------------
(* The trail goes on at its current level, without a decision.             *)
GoesOn(t, u) ==
  IsTrail(t) /\ IsTrail(u) /\ NoDecisionSince(t, u) /\ CurrentLevel(u) = CurrentLevel(t)

(* What is known of the question stays.                                    *)
LEMMA QuestionTakenGoesOn ==
  ASSUME NEW t, NEW u, GoesOn(t, u), NEW a, NEW question, QuestionTaken(t, a, question)
  PROVE  QuestionTaken(u, a, question)
<1>1. IsTrail(t) /\ IsTrail(u) /\ Begins(t, u) /\ CurrentLevel(u) = CurrentLevel(t)
      /\ \A j \in 1..Len(u) : j > Len(t) => u[j].type # "DECISION"
  BY DEF GoesOn, NoDecisionSince
<1> QED
  BY <1>1, QuestionTakenGrows

(* At level zero nothing is decided.                                       *)
LEMMA LevelZeroGoesOn ==
  ASSUME NEW d, DatabaseOK(d), CurrentLevel(d.trail) = 0, NEW e, DatabaseOK(e), CurrentLevel(e.trail) = 0,
         Begins(d.trail, e.trail)
  PROVE  GoesOn(d.trail, e.trail)
<1>1. IsTrail(d.trail) /\ IsTrail(e.trail) /\ ReasonsOK(e)
  BY DEF DatabaseOK
<1>2. ASSUME NEW j \in 1..Len(e.trail) PROVE e.trail[j].type # "DECISION"
  <2>1. e.trail[j].level = 0
    BY <1>1, LevelZeroLiterals
  <2>2. EntryIsExplained(e, j)
    BY <1>1 DEF ReasonsOK
  <2> QED
    BY <2>1, <2>2 DEF EntryIsExplained
<1> QED
  BY <1>1, <1>2 DEF GoesOn, NoDecisionSince

(* A clause is added, of two literals.                                     *)
LEMMA BinaryGoesOn ==
  ASSUME NEW d, DatabaseOK(d), NEW a \in Literals, NEW b \in Literals, a # b,
         NEW e, e = AddBinaryClause(d, a, b)
  PROVE  GoesOn(d.trail, e.trail)
<1>1. IsTrail(d.trail) /\ IsTrail(e.trail)
  BY AddBinaryClauseIsOK DEF DatabaseOK
<1>2. CurrentLevel(e.trail) = CurrentLevel(d.trail)
  BY AddBinaryGrows
<1>3. NoDecisionSince(d.trail, e.trail)
  BY AddBinaryAddsNoDecision
<1> QED
  BY <1>1, <1>2, <1>3 DEF GoesOn

(* ... or of more.                                                         *)
LEMMA AttachedGoesOn ==
  ASSUME NEW d, DatabaseOK(d), NEW literals \in Seq(Literals), Len(literals) >= 3, Distinct(literals),
         \E i \in 1..Len(literals) : ~IsFalse(d.trail, literals[i]), NEW e, e = Attach(d, literals)
  PROVE  GoesOn(d.trail, e.trail)
<1>1. PICK n : n = Len(d.clauses) + 1
  OBVIOUS
<1>2. PICK lits : lits = e.clauses[n]
  OBVIOUS
<1>3. /\ DatabaseOK(e) /\ Begins(d.trail, e.trail) /\ CurrentLevel(e.trail) = CurrentLevel(d.trail)
      /\ GrownByOne(d.trail, e.trail, lits)
  BY <1>1, <1>2, AttachIsOK
<1>4. IsTrail(d.trail) /\ IsTrail(e.trail) /\ Len(d.trail) \in Nat /\ Len(e.trail) \in Nat
  BY <1>3, TrailEntries DEF DatabaseOK
<1>5. e.trail = d.trail \/ (Len(e.trail) = Len(d.trail) + 1 /\ e.trail[Len(e.trail)].type = "CLAUSE")
  BY <1>3 DEF GrownByOne
<1>6. NoDecisionSince(d.trail, e.trail)
  BY <1>3, <1>4, <1>5 DEF NoDecisionSince
<1> QED
  BY <1>3, <1>4, <1>6 DEF GoesOn

(* So it is when a clause is learned.                                      *)
LEMMA LearnClauseGoesOn ==
  ASSUME NEW d, DatabaseOK(d), NEW literals, Asserting(d.trail, literals), NEW is_redundant,
         LearnClause(d, literals, is_redundant)
  PROVE  GoesOn(d.trail, trail')
<1> DEFINE t == d.trail
           l == literals[1]
<1>1. d \in Databases /\ IsTrail(t) /\ Len(t) \in Nat /\ CurrentLevel(t) \in Nat
  BY TrailEntries, CurrentLevelFacts DEF DatabaseOK
<1>2. /\ literals \in Seq(Literals) /\ literals # <<>> /\ Distinct(literals) /\ ~IsAssigned(t, l)
      /\ Len(literals) = 1 => CurrentLevel(t) = 0
  BY DEF Asserting
<1>3. Len(literals) \in Nat /\ Len(literals) > 0
  BY <1>2
<1>4. \A i \in 1..Len(literals) : literals[i] \in Literals
  BY <1>2
<1>5. l \in Literals
  BY <1>3, <1>4
<1> HIDE DEF l
<1>6. ASSUME Len(literals) = 1,
             DatabaseBecomes([d EXCEPT !.trail = Enqueued(@, literals[1], 0, "UNIT", 0)])
      PROVE  GoesOn(t, trail')
  <2> DEFINE level == 0
             type == "UNIT"
             u == Enqueued(t, l, level, type, 0)
             e == WithTrailOf(d, u)
  <2>1. u = Enqueued(t, l, level, type, 0) /\ e = WithTrailOf(d, u) /\ level \in Nat /\ level >= CurrentLevel(t)
        /\ level <= Len(t) + 1 /\ type = "UNIT" /\ level = 0
    BY <1>1, <1>2, <1>6
  <2>2. [d EXCEPT !.trail = Enqueued(@, literals[1], 0, "UNIT", 0)] = e
    BY DEF WithTrailOf, l
  <2> HIDE DEF e, u, level, type
  <2>3. ~IsAssigned(t, l)
    BY <1>2
  <2>4. DatabaseOK(e) /\ Begins(t, u) /\ CurrentLevel(u) = level /\ e.trail = u
    BY <1>5, <2>1, <2>3, FreeEntry
  <2>5. e \in Databases /\ DatabaseBecomes(e)
    BY <1>6, <2>2, <2>4 DEF DatabaseOK
  <2>6. trail' = e.trail
    BY <2>5, NowBecomes
  <2> QED
    BY <1>2, <1>6, <2>1, <2>4, <2>6, LevelZeroGoesOn
<1>7. ASSUME Len(literals) = 2, NEW e, e = AddBinaryClause(d, literals[1], literals[2]), DatabaseBecomes(e)
      PROVE  GoesOn(t, trail')
  <2> DEFINE m == literals[2]
  <2>1. m \in Literals /\ l # m
    BY <1>2, <1>4, <1>7 DEF Distinct, l
  <2>2. e = AddBinaryClause(d, l, m)
    BY <1>7 DEF l
  <2> HIDE DEF m
  <2>3. e \in Databases /\ GoesOn(d.trail, e.trail)
    BY <1>5, <2>1, <2>2, AddBinaryGrows, BinaryGoesOn
  <2> QED
    BY <1>7, <2>3, NowBecomes
<1>8. ASSUME Len(literals) > 2, NEW forgotten, forgotten \subseteq MayBeForgotten(d),
             NEW e, e = Attach(Detach(d, forgotten), literals), DatabaseBecomes(e)
      PROVE  GoesOn(t, trail')
  <2> DEFINE g == Detach(d, forgotten)
  <2>1. NotReasons(t, forgotten)
    BY <1>8, ForgottenAreNotReasons
  <2>2. g = Detach(d, forgotten) /\ e = Attach(g, literals)
    BY <1>8
  <2> HIDE DEF g
  <2>3. DatabaseOK(g)
    BY <2>1, <2>2, DetachIsOK DEF NotReasons
  <2>4. g.trail = t
    BY <1>1, <2>2, DetachFields
  <2>5. Len(literals) >= 3
    BY <1>3, <1>8
  <2>6. \E i \in 1..Len(literals) : ~IsFalse(g.trail, literals[i])
    <3>1. 1 \in 1..Len(literals)
      BY <1>3
    <3> QED
      BY <1>2, <2>4, <3>1 DEF IsAssigned, l
  <2>7. DatabaseOK(e) /\ GoesOn(g.trail, e.trail)
    BY <1>2, <2>2, <2>3, <2>5, <2>6, AttachIsOK, AttachedGoesOn
  <2>8. trail' = e.trail
    BY <1>8, <2>7, NowBecomes DEF DatabaseOK
  <2> QED
    BY <2>4, <2>7, <2>8
<1> QED
  BY <1>3, <1>6, <1>7, <1>8 DEF LearnClause

-----------------------------------------------------------------------------
(* The actions keep what is known of the question: it is the one asked     *)
(* last, and its assumptions are taken or not any more.                    *)
QuestionOK ==
  status = "searching" =>
    /\ asked \in 1..Len(config.questions)
    /\ assumptions = <<>> \/ assumptions = config.questions[asked]
    /\ QuestionTaken(trail, assumptions, ToSet(config.questions[asked]))

(* The same question is answered, and the trail goes on.                   *)
LEMMA SameQuestion ==
  ASSUME QuestionOK, status' = "searching" => status = "searching",
         UNCHANGED <<config, asked, assumptions>>, GoesOn(trail, trail')
  PROVE  QuestionOK'
<1> SUFFICES ASSUME status' = "searching" PROVE QuestionOK'
  BY DEF QuestionOK
<1>1. /\ asked \in 1..Len(config.questions)
      /\ assumptions = <<>> \/ assumptions = config.questions[asked]
      /\ QuestionTaken(trail, assumptions, ToSet(config.questions[asked]))
  BY DEF QuestionOK
<1>2. QuestionTaken(trail', assumptions, ToSet(config.questions[asked]))
  BY <1>1, QuestionTakenGoesOn
<1> QED
  BY <1>1, <1>2 DEF QuestionOK

(* PropagateBinary.                                                        *)
LEMMA PropagateBinaryKeepsQuestion ==
  ASSUME SolverOK, QuestionOK, PropagateBinary
  PROVE  QuestionOK'
<1> DEFINE d == Now
           r == Propagations(d, binary_index)[Cardinality(Variables)]
<1>1. /\ binary_index < Len(trail) /\ trail' = r.trail
      /\ UNCHANGED <<config, asked, status, assumptions>>
  BY DEF PropagateBinary, inputVars
<1>2. TypesOK /\ DatabaseOK(d) /\ d.trail = trail /\ r = Propagations(d, binary_index)[Cardinality(Variables)]
  BY NowFields DEF SolverOK
<1> HIDE DEF d, r
<1>3. IsTrail(trail) /\ Len(trail) \in Nat
  BY <1>2, TrailEntries DEF DatabaseOK
<1>4. binary_index \in Nat /\ binary_index <= Len(d.trail)
  BY <1>1, <1>2, <1>3 DEF TypesOK
<1>5. IsTrail(r.trail) /\ GrownSince(d, r.trail, "BINARY")
  BY <1>2, <1>4, PropagationsAreOK DEF PropagationOK, ImpliedOK
<1>6. GoesOn(trail, r.trail)
  BY <1>2, <1>3, <1>5 DEF GoesOn, GrownSince, NoDecisionSince
<1> QED
  BY <1>1, <1>6, SameQuestion

(* PropagateClauses.                                                       *)
LEMMA PropagateClausesKeepsQuestion ==
  ASSUME SolverOK, QuestionOK, PropagateClauses
  PROVE  QuestionOK'
<1> DEFINE d == Now
           F == -trail[clause_index + 1].literal
           r == PropagateOnFalse(d, F)
           e == AsDatabase(d, r)
<1>1. /\ clause_index < Len(trail) /\ trail' = r.trail
      /\ UNCHANGED <<config, asked, status, assumptions>>
  BY DEF PropagateClauses, inputVars
<1>2. TypesOK /\ DatabaseOK(d) /\ d.trail = trail /\ r = PropagateOnFalse(d, F) /\ e = AsDatabase(d, r)
  BY NowFields DEF SolverOK
<1>3. IsTrail(trail) /\ Len(trail) \in Nat
  BY <1>2, TrailEntries DEF DatabaseOK
<1>4. clause_index + 1 \in 1..Len(trail)
  BY <1>1, <1>2, <1>3 DEF TypesOK
<1>5. F \in Literals /\ IsFalse(trail, F)
  <2>1. trail[clause_index + 1].literal \in Literals
    BY <1>3, <1>4, TrailEntries
  <2>2. F \in Literals /\ -F = trail[clause_index + 1].literal
    BY <2>1, LiteralFacts
  <2> QED
    BY <1>4, <2>2 DEF IsFalse, IsTrue
<1> HIDE DEF d, F, r, e
<1>6. DatabaseOK(e) /\ e.trail = r.trail /\ GrownSince(d, r.trail, "CLAUSE")
  BY <1>2, <1>5, PropagateOnFalseIsOK
<1>7. GoesOn(trail, r.trail)
  BY <1>2, <1>3, <1>6 DEF GoesOn, GrownSince, NoDecisionSince, DatabaseOK
<1> QED
  BY <1>1, <1>7, SameQuestion

(* Start: the question is asked, and nothing is decided yet.               *)
LEMMA StartKeepsQuestion ==
  ASSUME SolverOK, Start
  PROVE  QuestionOK'
<1> DEFINE d == Now
           e == ProcessNewlyFixedVariables(d)
           q == config.questions[asked]
<1>1. /\ status = "resetting" /\ status' = "searching" /\ assumptions' = q /\ UNCHANGED <<config, asked>>
      /\ IF assumptions' = <<>> THEN UNCHANGED database ELSE DatabaseBecomes(e)
  BY DEF Start, inputVars
<1>2. TypesOK /\ DatabaseOK(d) /\ LevelZeroOK /\ d.trail = trail /\ e = ProcessNewlyFixedVariables(d)
  BY NowFields DEF SolverOK
<1>3. IsTrail(trail) /\ CurrentLevel(trail) = 0 /\ ReasonsOK(d)
  BY <1>1, <1>2 DEF LevelZeroOK, DatabaseOK
<1>4. asked \in 1..Len(config.questions) /\ q \in Seq(Literals)
  <2>1. asked \in 0..Len(config.questions) /\ asked > 0 /\ config \in Configurations
    BY <1>1, <1>2 DEF TypesOK
  <2> QED
    BY <2>1, ConfigurationFacts
<1> HIDE DEF d, e, q
<1>5. trail' = trail
  <2>1. DatabaseOK(e) /\ e.trail = d.trail
    BY <1>2, <1>3, ProcessedIsOK
  <2>2. DatabaseBecomes(e) => trail' = e.trail
    BY DEF DatabaseBecomes
  <2> QED
    BY <1>1, <1>2, <2>1, <2>2 DEF database
<1>6. QuestionTaken(trail, q, ToSet(q))
  <2>1. \A i \in 1..Len(trail) : trail[i].type # "DECISION"
    <3> SUFFICES ASSUME NEW i \in 1..Len(trail) PROVE trail[i].type # "DECISION"
      OBVIOUS
    <3>1. trail[i].level = 0 /\ EntryIsExplained(d, i)
      BY <1>2, <1>3, LevelZeroLiterals DEF ReasonsOK
    <3> QED
      BY <1>2, <3>1 DEF EntryIsExplained
  <2>2. q = <<>> => ToSet(q) = {}
    BY DEF ToSet
  <2> QED
    BY <1>3, <2>1, <2>2 DEF QuestionTaken
<1> QED
  BY <1>1, <1>4, <1>5, <1>6 DEF QuestionOK, q

(* What the literals that are assumed leave on the trail.                  *)
LEMMA AssumedTrail ==
  ASSUME SolverOK, QuestionOK, ReapplyAssumptions,
         NEW a, a = assumptions, NEW r, r = WithAssumptions(trail, a)
  PROVE  /\ trail' = r.trail /\ IsTrail(r.trail) /\ CurrentLevel(r.trail) <= 1
         /\ a \in Seq(Literals) /\ a # <<>> /\ asked \in 1..Len(config.questions) /\ a = config.questions[asked]
         /\ \A i \in 1..Len(r.trail) : r.trail[i].type = "DECISION" => r.trail[i].literal \in ToSet(a)
         /\ r.conflict = <<>> => \A l \in ToSet(a) : IsTrue(r.trail, l)
         /\ r.conflict # <<>> => \E l \in ToSet(a) : r.conflict = <<-l, l>> /\ IsFalse(r.trail, l)
<1> DEFINE d == Now
<1>1. status = "searching" /\ CurrentLevel(trail) = 0 /\ a # <<>> /\ trail' = r.trail
  BY DEF ReapplyAssumptions, NeedAssumptions, Searching
<1>2. TypesOK /\ DatabaseOK(d) /\ d.trail = trail
  BY NowFields DEF SolverOK
<1> HIDE DEF d
<1>3. d \in Databases /\ IsTrail(trail) /\ Len(trail) \in Nat /\ a \in Seq(Literals) /\ ReasonsOK(d)
  BY <1>2, TrailEntries DEF DatabaseOK, TypesOK
<1>4. AssumedOK(d, a, r, Len(a))
  BY <1>1, <1>2, <1>3, AssumptionsAreOK
<1>5. /\ DatabaseOK(WithTrailOf(d, r.trail)) /\ Begins(trail, r.trail) /\ CurrentLevel(r.trail) <= 1
      /\ r.trail \in Seq(Entries)
      /\ \A j \in 1..Len(r.trail) : j > Len(trail) => r.trail[j].literal \in ToSet(a)
      /\ r.conflict = <<>> => \A j \in 1..Len(a) : IsTrue(r.trail, a[j])
      /\ r.conflict # <<>> => \E l \in ToSet(a) : r.conflict = <<-l, l>> /\ IsFalse(r.trail, l)
  BY <1>2, <1>4 DEF AssumedOK, Assumeds
<1>6. IsTrail(r.trail)
  <2>1. WithTrailOf(d, r.trail).trail = r.trail
    BY <1>3, <1>5, WithTrail DEF WithTrailOf
  <2> QED
    BY <1>5, <2>1 DEF DatabaseOK
<1>7. ASSUME NEW i \in 1..Len(r.trail), r.trail[i].type = "DECISION" PROVE r.trail[i].literal \in ToSet(a)
  <2>1. CASE i > Len(trail)
    BY <1>5, <2>1
  <2>2. CASE ~(i > Len(trail))
    <3>1. i \in 1..Len(trail)
      BY <1>3, <2>2
    <3>2. trail[i].level = 0 /\ EntryIsExplained(d, i) /\ r.trail[i] = trail[i]
      BY <1>1, <1>2, <1>3, <1>5, <3>1, LevelZeroLiterals DEF ReasonsOK, Begins
    <3> QED
      BY <1>2, <1>7, <3>2 DEF EntryIsExplained
  <2> QED
    BY <2>1, <2>2
<1>8. ASSUME r.conflict = <<>>, NEW l \in ToSet(a) PROVE IsTrue(r.trail, l)
  BY <1>3, <1>5, <1>8, ToSetFacts
<1>9. asked \in 1..Len(config.questions) /\ a = config.questions[asked]
  BY <1>1 DEF QuestionOK
<1> QED
  BY <1>1, <1>3, <1>5, <1>6, <1>7, <1>8, <1>9

(* ReapplyAssumptions: they are all taken, at level zero or at level one.  *)
LEMMA ReapplyAssumptionsKeepsQuestion ==
  ASSUME SolverOK, QuestionOK, ReapplyAssumptions
  PROVE  QuestionOK'
<1> SUFFICES ASSUME status' = "searching" PROVE QuestionOK'
  BY DEF QuestionOK
<1>1. PICK a : a = assumptions
  OBVIOUS
<1>2. PICK r : r = WithAssumptions(trail, a)
  OBVIOUS
<1>3. /\ trail' = r.trail /\ IsTrail(r.trail) /\ CurrentLevel(r.trail) <= 1
      /\ a \in Seq(Literals) /\ a # <<>> /\ asked \in 1..Len(config.questions) /\ a = config.questions[asked]
      /\ \A i \in 1..Len(r.trail) : r.trail[i].type = "DECISION" => r.trail[i].literal \in ToSet(a)
      /\ r.conflict = <<>> => \A l \in ToSet(a) : IsTrue(r.trail, l)
  BY <1>1, <1>2, AssumedTrail
<1>4. r.conflict = <<>> /\ assumptions' = (IF CurrentLevel(r.trail) = 0 THEN <<>> ELSE a)
      /\ UNCHANGED <<config, asked>>
  BY <1>1, <1>2 DEF ReapplyAssumptions, StillAssumed, inputVars
<1>5. /\ CurrentLevel(r.trail) \in Nat
      /\ \A i \in 1..Len(r.trail) : r.trail[i].level \in Nat /\ r.trail[i].level <= CurrentLevel(r.trail)
  BY <1>3, CurrentLevelFacts, TrailEntries
<1>6. \A l \in ToSet(a) : TakenAt(r.trail, l, CurrentLevel(r.trail))
  BY <1>3, <1>4, <1>5 DEF IsTrue, TakenAt
<1>7. CASE CurrentLevel(r.trail) = 0
  <2>1. assumptions' = <<>> /\ \A l \in ToSet(a) : TakenAt(r.trail, l, 0)
    BY <1>4, <1>6, <1>7
  <2> QED
    BY <1>3, <1>4, <2>1 DEF QuestionOK, QuestionTaken
<1>8. CASE CurrentLevel(r.trail) # 0
  <2>1. CurrentLevel(r.trail) = 1 /\ assumptions' = a
    BY <1>3, <1>4, <1>5, <1>8
  <2>2. \E i \in 1..Len(r.trail) : r.trail[i].level = 1
    <3>1. r.trail # <<>>
      BY <1>3, <2>1, CurrentLevelFacts
    <3> QED
      BY <1>3, <2>1, <3>1, CurrentLevelFacts
  <2>3. QuestionTaken(r.trail, a, ToSet(a))
    BY <1>3, <1>6, <2>1, <2>2 DEF QuestionTaken
  <2> QED
    BY <1>3, <1>4, <2>1, <2>3 DEF QuestionOK
<1> QED
  BY <1>7, <1>8

(* EnqueueNewDecision: the decision is above the level of the assumptions. *)
LEMMA EnqueueNewDecisionKeepsQuestion ==
  ASSUME SolverOK, QuestionOK, NEW restart \in BOOLEAN, NEW process \in BOOLEAN, NEW l \in config.branches,
         EnqueueNewDecision(restart, process, l)
  PROVE  QuestionOK'
<1> DEFINE assumption_level == IF assumptions = <<>> THEN 0 ELSE 1
           kept == IF restart THEN Backtracked(trail, assumption_level) ELSE trail
           level == CurrentLevel(kept)
           g == WithTrailOf(Now, kept)
           e == IF process THEN ProcessNewlyFixedVariables(g) ELSE g
           next == level + 1
           type == "DECISION"
           u == Enqueued(kept, l, next, type, 0)
           question == ToSet(config.questions[asked])
<1>1. /\ status = "searching" /\ ~NeedAssumptions
      /\ process => level = 0
      /\ ~IsAssigned(kept, l)
      /\ restart => CurrentLevel(trail) > assumption_level
      /\ trail' = Enqueued(e.trail, l, next, type, 0)
      /\ UNCHANGED <<config, asked, status, assumptions>>
  <2>1. DatabaseBecomes([e EXCEPT !.trail = Enqueued(@, l, level + 1, "DECISION", 0)])
    BY DEF EnqueueNewDecision, WithTrailOf
  <2>2. e.trail = e.trail /\ [e EXCEPT !.trail = Enqueued(@, l, level + 1, "DECISION", 0)].trail = Enqueued(e.trail, l, next, type, 0)
    OBVIOUS
  <2> QED
    BY <2>1, <2>2 DEF EnqueueNewDecision, Searching, inputVars, DatabaseBecomes
<1>2. TypesOK /\ DatabaseOK(Now) /\ Now.trail = trail
  BY NowFields DEF SolverOK
<1>3. IsTrail(trail) /\ Len(trail) \in Nat /\ CurrentLevel(trail) \in Nat /\ Now \in Databases
  BY <1>2, TrailEntries, CurrentLevelFacts DEF DatabaseOK
<1>4. /\ asked \in 1..Len(config.questions)
      /\ assumptions = <<>> \/ assumptions = config.questions[asked]
      /\ QuestionTaken(trail, assumptions, question)
  BY <1>1 DEF QuestionOK
<1>5. assumption_level \in Nat /\ (assumptions # <<>> => assumption_level > 0 /\ CurrentLevel(trail) > 0)
  BY <1>1, <1>3 DEF NeedAssumptions
<1> HIDE DEF question, assumption_level
<1>6. /\ IsTrail(kept) /\ Begins(kept, trail) /\ QuestionTaken(kept, assumptions, question)
      /\ assumptions # <<>> => CurrentLevel(kept) > 0
      /\ \A i \in 1..Len(trail) : trail[i].level = 0 => i <= Len(kept)
  <2>1. CASE restart
    <3>1. kept = Backtracked(trail, assumption_level)
      BY <2>1
    <3> HIDE DEF kept
    <3>2. QuestionTaken(kept, assumptions, question) /\ (assumptions # <<>> => CurrentLevel(kept) > 0)
      BY <1>3, <1>4, <1>5, <3>1, QuestionTakenIsCut
    <3>3. /\ IsTrail(kept) /\ Begins(kept, trail)
          /\ \A i \in 1..Len(trail) : trail[i].level <= assumption_level <=> i <= Len(kept)
      BY <1>3, <1>5, <3>1, BacktrackedFacts
    <3> QED
      BY <1>5, <3>2, <3>3
  <2>2. CASE ~restart
    <3>1. kept = trail /\ Begins(trail, trail)
      BY <1>3, <2>2 DEF Begins
    <3> QED
      BY <1>3, <1>4, <1>5, <3>1
  <2> QED
    BY <2>1, <2>2
<1>7. g = WithTrailOf(Now, kept) /\ ((process /\ e = ProcessNewlyFixedVariables(g)) \/ e = g)
      /\ u = Enqueued(kept, l, next, type, 0) /\ type = "DECISION" /\ type \in {"DECISION", "UNIT", "BINARY", "CLAUSE"}
  OBVIOUS
<1> HIDE DEF kept, g, e, type
<1>8. e.trail = kept
  <2>1. g.trail = kept
    BY <1>3, <1>6, <1>7, WithTrail DEF WithTrailOf, IsTrail
  <2>2. DatabaseOK(g)
    BY <1>2, <1>6, <1>7, CutTrail DEF WithTrailOf
  <2>3. process => e.trail = kept
    BY <1>1, <1>7, <2>1, <2>2, ProcessedIsOK
  <2> QED
    BY <1>7, <2>1, <2>3
<1>9. l \in Literals /\ level \in Nat /\ level <= Len(kept) /\ Len(kept) \in Nat
  BY <1>2, <1>6, ConfigurationFacts, CurrentLevelFacts, TrailEntries DEF TypesOK
<1>10. next \in Nat /\ next >= CurrentLevel(kept) /\ next <= Len(kept) + 1 /\ 0 \in Int
       /\ (assumptions = <<>> \/ next > 1)
  BY <1>6, <1>9
<1> HIDE DEF level, next, u
<1>11. IsTrail(u) /\ Begins(kept, u) /\ Len(u) = Len(kept) + 1 /\ u[Len(u)].level = next
  BY <1>1, <1>6, <1>7, <1>9, <1>10, EnqueuedFacts
<1>12. \A j \in 1..Len(u) : j > Len(kept) => j = Len(u)
  BY <1>9, <1>11
<1>13. QuestionTaken(u, assumptions, question)
  BY <1>6, <1>10, <1>11, <1>12, QuestionTakenGrows
<1> QED
  BY <1>1, <1>4, <1>7, <1>8, <1>13 DEF QuestionOK, question

(* What a conflict that is not the end leads to: a clause is learned at a  *)
(* level where its first literal is free.                                  *)
LEMMA BackjumpFacts ==
  ASSUME SolverOK, ProcessCurrentConflict, status' \in Running
  PROVE  \E level \in Nat : \E e, literals, is_redundant :
           /\ DatabaseOK(e) /\ e.trail = Backtracked(trail, level)
           /\ Asserting(e.trail, literals) /\ LearnClause(e, literals, is_redundant)
<1> DEFINE d == Now
           highest == Max({LevelOf(trail, l) : l \in ToSet(conflict)})
           r == Learned(d)
           subsumed == IF config.subsumption_during_conflict_analysis THEN r.subsumed ELSE {}
           level == ComputeBacktrackLevel(trail, r.conflict)
           kept == Backtracked(trail, level)
           g == WithTrailOf(d, kept)
           e == Detach(g, subsumed)
<1>1. status \in Running /\ conflict # <<>> /\ highest # 0 /\ BackjumpAndLearn
  BY DEF ProcessCurrentConflict, Running
<1>2. DatabaseOK(d) /\ FailureIsKnown(d, conflict, failing) /\ d.trail = trail
  BY <1>1, NowFields DEF SolverOK, ConflictOK
<1>3. LearnClause(e, r.conflict, IsRedundant(subsumed))
  BY <1>1 DEF BackjumpAndLearn, WithTrailOf
<1>4. /\ subsumed \subseteq r.subsumed /\ r = Learned(d) /\ level = ComputeBacktrackLevel(d.trail, r.conflict)
      /\ kept = Backtracked(d.trail, level) /\ g = WithTrailOf(d, kept) /\ e = Detach(g, subsumed)
      /\ highest = Max({LevelOf(d.trail, l) : l \in ToSet(conflict)})
  BY <1>2
<1> HIDE DEF d, r, subsumed, level, kept, g, e, highest
<1>5. IsTrail(d.trail) /\ conflict \in Seq(Literals) /\ \A l \in ToSet(conflict) : IsFalse(d.trail, l)
  BY <1>2 DEF FailureIsKnown, FalseLiterals, DatabaseOK
<1>6. \E l \in ToSet(conflict) : LevelOf(d.trail, l) > 0
  <2>1. highest \in Nat /\ \E l \in ToSet(conflict) : LevelOf(d.trail, l) = highest
    BY <1>1, <1>4, <1>5, HighestLevel
  <2> QED
    BY <1>1, <2>1
<1>7. PICK top \in Nat \ {0} : LearnedOK(d, top, r)
  BY <1>2, <1>4, <1>6, LearnedIsOK
<1>8. /\ DatabaseOK(g) /\ g.trail = kept /\ level \in Nat
      /\ Asserting(kept, r.conflict) /\ NotReasons(kept, r.subsumed)
  BY <1>2, <1>4, <1>7, BackjumpIsOK
<1>9. DatabaseOK(e) /\ e.trail = kept
  <2>1. \A i \in 1..Len(g.trail) : g.trail[i].type = "CLAUSE" /\ g.trail[i].level > 0 => g.trail[i].by \notin subsumed
    BY <1>4, <1>8 DEF NotReasons
  <2>2. g \in Databases
    BY <1>8 DEF DatabaseOK
  <2> QED
    BY <1>4, <1>8, <2>1, <2>2, DetachIsOK, DetachFields
<1> QED
  BY <1>2, <1>3, <1>4, <1>8, <1>9

(* ProcessCurrentConflict.                                                 *)
LEMMA ProcessCurrentConflictKeepsQuestion ==
  ASSUME SolverOK, QuestionOK, ProcessCurrentConflict
  PROVE  QuestionOK'
<1> SUFFICES ASSUME status' = "searching" PROVE QuestionOK'
  BY DEF QuestionOK
<1>1. UNCHANGED <<config, asked, assumptions>> /\ status = "searching"
  <2>1. status' \notin {"INFEASIBLE", "ASSUMPTIONS_UNSAT"}
    OBVIOUS
  <2>2. BackjumpAndLearn
    BY <2>1 DEF ProcessCurrentConflict
  <2> QED
    BY <2>2 DEF ProcessCurrentConflict, BackjumpAndLearn, inputVars
<1>2. PICK level \in Nat : \E e, literals, is_redundant :
           /\ DatabaseOK(e) /\ e.trail = Backtracked(trail, level)
           /\ Asserting(e.trail, literals) /\ LearnClause(e, literals, is_redundant)
  BY BackjumpFacts DEF Running
<1>8. PICK e, literals, is_redundant :
           /\ DatabaseOK(e) /\ e.trail = Backtracked(trail, level)
           /\ Asserting(e.trail, literals) /\ LearnClause(e, literals, is_redundant)
  BY <1>2
<1>3. IsTrail(trail)
  BY NowFields DEF SolverOK, DatabaseOK
<1>4. GoesOn(e.trail, trail')
  BY <1>8, LearnClauseGoesOn
<1>5. /\ asked \in 1..Len(config.questions)
      /\ assumptions = <<>> \/ assumptions = config.questions[asked]
      /\ QuestionTaken(trail, assumptions, ToSet(config.questions[asked]))
  BY <1>1 DEF QuestionOK
<1>6. QuestionTaken(e.trail, assumptions, ToSet(config.questions[asked]))
  BY <1>8, <1>3, <1>5, QuestionTakenIsCut
<1>7. QuestionTaken(trail', assumptions, ToSet(config.questions[asked]))
  BY <1>4, <1>6, QuestionTakenGoesOn
<1> QED
  BY <1>1, <1>5, <1>7 DEF QuestionOK

(* AddClauseDuringSearch.                                                  *)
LEMMA AddClauseDuringSearchKeepsQuestion ==
  ASSUME SolverOK, QuestionOK, NEW c \in config.late, AddClauseDuringSearch(c)
  PROVE  QuestionOK'
<1> DEFINE d == Now
           s == Sorted(c)
<1>1. PICK e : /\ e = IF CurrentLevel(trail) = 0 THEN AddProblemClause(d, c)
                      ELSE IF Cardinality(c) = 2 THEN AddBinaryClause(d, s[1], s[2]) ELSE Attach(d, s)
               /\ DatabaseBecomes(e)
  BY DEF AddClauseDuringSearch
<1>2. (\E l \in c : ~IsFalse(trail, l)) /\ UNCHANGED <<config, asked, status, assumptions>>
  BY DEF AddClauseDuringSearch
<1>3. TypesOK /\ DatabaseOK(d) /\ d.trail = trail
  BY NowFields DEF SolverOK
<1>4. c \subseteq Literals /\ Cardinality(c) > 1
  BY <1>3, ConfigurationFacts DEF TypesOK
<1>5. s \in Seq(Literals) /\ Len(s) = Cardinality(c) /\ ToSet(s) = c /\ Distinct(s) /\ Len(s) \in Nat
  BY <1>4, SortedFacts
<1> HIDE DEF d, s
<1>6. GoesOn(d.trail, e.trail)
  <2>1. CASE CurrentLevel(trail) = 0
    <3>1. e = AddProblemClause(d, c) /\ CurrentLevel(d.trail) = 0 /\ \E l \in c : ~IsFalse(d.trail, l)
      BY <1>1, <1>2, <1>3, <2>1
    <3>2. DatabaseOK(e) /\ CurrentLevel(e.trail) = 0 /\ Begins(d.trail, e.trail)
      BY <1>3, <1>4, <3>1, AddProblemClauseIsOK
    <3> QED
      BY <1>3, <3>1, <3>2, LevelZeroGoesOn
  <2>2. CASE CurrentLevel(trail) # 0 /\ Cardinality(c) = 2
    <3>1. e = AddBinaryClause(d, s[1], s[2]) /\ Len(s) = 2
      BY <1>1, <1>5, <2>2
    <3>2. s[1] \in Literals /\ s[2] \in Literals /\ s[1] # s[2]
      BY <1>5, <3>1 DEF Distinct
    <3> QED
      BY <1>3, <3>1, <3>2, BinaryGoesOn
  <2>3. CASE CurrentLevel(trail) # 0 /\ Cardinality(c) # 2
    <3>1. e = Attach(d, s) /\ Len(s) >= 3
      BY <1>1, <1>4, <1>5, <2>3
    <3>2. \E i \in 1..Len(s) : ~IsFalse(d.trail, s[i])
      <4>1. PICK l \in ToSet(s) : ~IsFalse(d.trail, l)
        BY <1>2, <1>3, <1>5
      <4> QED
        BY <1>5, <4>1, ToSetFacts
    <3> QED
      BY <1>3, <1>5, <3>1, <3>2, AttachedGoesOn
  <2> QED
    BY <2>1, <2>2, <2>3
<1>7. trail' = e.trail
  BY <1>1 DEF DatabaseBecomes
<1> QED
  BY <1>2, <1>3, <1>6, <1>7, SameQuestion

(* So every step keeps it.                                                 *)
LEMMA NextKeepsQuestion ==
  ASSUME SolverOK, QuestionOK, [Next]_vars
  PROVE  QuestionOK'
<1>1. CASE Load \/ Ask \/ Leaf
  <2>1. status' # "searching"
    BY <1>1 DEF Load, Ask, Leaf
  <2> QED
    BY <2>1 DEF QuestionOK
<1>2. CASE \E restart, process \in BOOLEAN, l \in config.branches : EnqueueNewDecision(restart, process, l)
  BY <1>2, EnqueueNewDecisionKeepsQuestion
<1>3. CASE \E c \in config.late : AddClauseDuringSearch(c)
  BY <1>3, AddClauseDuringSearchKeepsQuestion
<1>4. CASE UNCHANGED vars
  BY <1>4 DEF vars, database, inputVars, QuestionOK
<1> QED
  BY <1>1, <1>2, <1>3, <1>4, PropagateBinaryKeepsQuestion, PropagateClausesKeepsQuestion, StartKeepsQuestion,
     ReapplyAssumptionsKeepsQuestion, ProcessCurrentConflictKeepsQuestion DEF Next

(* Every decision of the level of assumptions is one of the literals that  *)
(* were asked for, and each of these is on the trail above level zero,     *)
(* over every backjump, restart and return to level zero.                  *)
THEOREM QuestionIsKept == Spec => []QuestionOK
<1>1. Init => QuestionOK
  BY DEF Init, QuestionOK
<1>2. SolverOK /\ QuestionOK /\ [Next]_vars => QuestionOK'
  BY NextKeepsQuestion
<1> QED
  BY <1>1, <1>2, SolverIsOK, PTL DEF Spec

-----------------------------------------------------------------------------
(* The cores.  A core is a part of the question that no solution contains. *)
IsCore(core) ==
  /\ core \subseteq ToSet(config.questions[asked])
  /\ \A s \in SolutionsOf(Problem) : ~(core \subseteq s)

(* GetLastIncompatibleDecisions() of a conflict, all of whose literals are *)
(* false, or of an assumption that cannot be taken.                        *)
LEMMA DecisionsOfConflict ==
  ASSUME SolverOK, conflict \in Seq(Literals), \A l \in ToSet(conflict) : IsFalse(trail, l)
  PROVE  GetLastIncompatibleDecisions = GetDecisionsFixing(Now, ToSet(conflict))
<1>1. IsTrail(trail)
  BY NowFields DEF SolverOK, DatabaseOK
<1>2. \A l \in ToSet(conflict) : ~IsTrue(trail, l)
  BY <1>1, TrailFacts, ToSetFacts
<1>3. CouldNotBeTaken = {}
  BY <1>2 DEF CouldNotBeTaken
<1>4. {-l : l \in CouldNotBeTaken} = {} /\ ToSet(conflict) \ CouldNotBeTaken = ToSet(conflict)
  BY <1>3
<1> QED
  BY <1>4 DEF GetLastIncompatibleDecisions

(* A conflict at the level of assumptions: some of them clash.             *)
LEMMA ClashIsCore ==
  ASSUME SolverOK, KnownOK, QuestionOK, ProcessCurrentConflict, status' = "ASSUMPTIONS_UNSAT"
  PROVE  status = "searching" /\ IsCore(GetLastIncompatibleDecisions')
<1> DEFINE highest == Max({LevelOf(trail, l) : l \in ToSet(conflict)})
           core == GetDecisionsFixing(Now, ToSet(conflict))
<1>1. /\ status \in Running /\ conflict # <<>>
      /\ highest = 0 \/ (highest = 1 /\ assumptions # <<>>)
      /\ status' = (IF highest = 0 THEN "INFEASIBLE" ELSE "ASSUMPTIONS_UNSAT")
      /\ UNCHANGED <<database, failure>>
  BY DEF ProcessCurrentConflict, Running, BackjumpAndLearn
<1>2. highest = 1 /\ assumptions # <<>>
  BY <1>1
<1>3. DatabaseOK(Now) /\ FailureIsKnown(Now, conflict, failing) /\ Now.trail = trail
  BY <1>1, NowFields DEF SolverOK, ConflictOK
<1>4. IsTrail(trail) /\ conflict \in Seq(Literals) /\ \A l \in ToSet(conflict) : IsFalse(trail, l)
  BY <1>3 DEF FailureIsKnown, FalseLiterals, DatabaseOK
<1>5. highest <= CurrentLevel(trail) /\ \A l \in ToSet(conflict) : LevelOf(trail, l) <= highest
  BY <1>1, <1>4, HighestLevel
<1> HIDE DEF highest
<1>6. status = "searching"
  <2>1. status \notin {"loading", "resetting"}
    BY <1>2, <1>5 DEF SolverOK, LevelZeroOK
  <2> QED
    BY <1>1, <2>1 DEF Running
<1>7. GetLastIncompatibleDecisions' = core
  <2>1. GetLastIncompatibleDecisions = core
    BY <1>4, DecisionsOfConflict
  <2>2. GetLastIncompatibleDecisions' = GetLastIncompatibleDecisions
    BY <1>1 DEF GetLastIncompatibleDecisions, CouldNotBeTaken, Now, database, failure
  <2> QED
    BY <2>1, <2>2
<1>8. /\ \A s \in Assignments : Models(s, Now) /\ core \subseteq s => \A l \in ToSet(conflict) : l \notin s
      /\ \A m \in core : \E i \in 1..Len(trail) :
           trail[i].literal = m /\ trail[i].type = "DECISION" /\ trail[i].level <= 1
  <2>1. ToSet(conflict) \subseteq Literals
    BY <1>4, ToSetFacts
  <2>2. \A l \in ToSet(conflict) : IsFalse(trail, l) /\ LevelOf(trail, l) <= 1
    BY <1>2, <1>4, <1>5
  <2>3. PICK d : d = Now
    OBVIOUS
  <2>4. PICK c : c = ToSet(conflict)
    OBVIOUS
  <2>5. PICK n \in Nat : n = 1
    OBVIOUS
  <2>6. DatabaseOK(d) /\ c \subseteq Literals /\ \A l \in c : IsFalse(d.trail, l) /\ LevelOf(d.trail, l) <= n
    BY <1>3, <2>1, <2>2, <2>3, <2>4, <2>5
  <2>7. core = GetDecisionsFixing(d, c) /\ d.trail = trail
    BY <1>3, <2>3, <2>4
  <2> HIDE DEF core
  <2>8. FixedByDecisions(d, c, n)
    BY <2>6, DecisionsFix
  <2> QED
    BY <2>3, <2>4, <2>5, <2>7, <2>8 DEF FixedByDecisions
<1> HIDE DEF core
<1>9. core \subseteq ToSet(config.questions[asked])
  <2>1. QuestionTaken(trail, assumptions, ToSet(config.questions[asked]))
    BY <1>6 DEF QuestionOK
  <2> QED
    BY <1>2, <1>8, <2>1 DEF QuestionTaken
<1>10. ASSUME NEW s \in SolutionsOf(Problem), core \subseteq s PROVE FALSE
  <2>1. s \in Assignments /\ Models(s, Now) /\ Satisfies(s, conflict)
    BY <1>1, KnownFacts
  <2> QED
    BY <1>8, <1>10, <2>1 DEF Satisfies
<1> QED
  BY <1>6, <1>7, <1>9, <1>10 DEF IsCore

(* An assumption that cannot be taken, with the decisions it is false by.  *)
LEMMA DecisionsOfAssumption ==
  ASSUME IsTrail(trail'), NEW l \in Literals, conflict' = <<-l, l>>, IsFalse(trail', l)
  PROVE  GetLastIncompatibleDecisions' = GetDecisionsFixing(Now', {l}) \cup {l}
<1>1. l \in Int /\ -l \in Literals /\ l # -l /\ -(-l) = l
  BY LiteralFacts
<1>2. ToSet(conflict') = {-l, l}
  <2>1. conflict' \in Seq(Literals) /\ Len(conflict') = 2 /\ conflict'[1] = -l /\ conflict'[2] = l
    BY <1>1
  <2>2. ToSet(conflict') = {conflict'[i] : i \in 1..Len(conflict')}
    BY <2>1 DEF ToSet
  <2> QED
    BY <2>1, <2>2
<1>3. IsTrue(trail', -l) /\ ~IsTrue(trail', l)
  BY <1>1, TrailFacts DEF IsFalse
<1>4. CouldNotBeTaken' = {-l}
  <2>1. CouldNotBeTaken' = {m \in ToSet(conflict') : IsTrue(trail', m)}
    BY DEF CouldNotBeTaken
  <2> QED
    BY <1>2, <1>3, <2>1
<1>5. {-m : m \in CouldNotBeTaken'} = {l} /\ ToSet(conflict') \ CouldNotBeTaken' = {l}
  BY <1>1, <1>2, <1>4
<1>6. GetLastIncompatibleDecisions' =
        GetDecisionsFixing(Now', ToSet(conflict') \ CouldNotBeTaken') \cup {-m : m \in CouldNotBeTaken'}
  BY DEF GetLastIncompatibleDecisions
<1> QED
  BY <1>5, <1>6

(* ReapplyAssumptions: these and the assumption are a core.                *)
LEMMA FailedAssumptionIsCore ==
  ASSUME SolverOK, QuestionOK, ReapplyAssumptions, status' = "ASSUMPTIONS_UNSAT", SolverOK', KnownOK'
  PROVE  status = "searching" /\ IsCore(GetLastIncompatibleDecisions')
<1>1. PICK a : a = assumptions
  OBVIOUS
<1>2. PICK r : r = WithAssumptions(trail, a)
  OBVIOUS
<1>3. /\ trail' = r.trail /\ IsTrail(r.trail) /\ CurrentLevel(r.trail) <= 1
      /\ a \in Seq(Literals) /\ asked \in 1..Len(config.questions) /\ a = config.questions[asked]
      /\ \A i \in 1..Len(r.trail) : r.trail[i].type = "DECISION" => r.trail[i].literal \in ToSet(a)
      /\ r.conflict # <<>> => \E l \in ToSet(a) : r.conflict = <<-l, l>> /\ IsFalse(r.trail, l)
  BY <1>1, <1>2, AssumedTrail
<1>4. /\ status = "searching" /\ r.conflict # <<>> /\ conflict' = r.conflict
      /\ UNCHANGED <<config, loaded, late>>
  BY <1>1, <1>2 DEF ReapplyAssumptions, Searching, inputVars
<1>5. PICK l \in ToSet(a) : r.conflict = <<-l, l>> /\ IsFalse(r.trail, l)
  BY <1>3, <1>4
<1>6. l \in Literals
  BY <1>3, ToSetFacts
<1>7. GetLastIncompatibleDecisions' = GetDecisionsFixing(Now', {l}) \cup {l}
  BY <1>3, <1>4, <1>5, <1>6, DecisionsOfAssumption
<1>8. PICK d : d = Now'
  OBVIOUS
<1>9. DatabaseOK(d) /\ d.trail = trail'
  BY <1>8 DEF SolverOK, Now
<1>10. /\ \A s \in Assignments : Models(s, d) /\ GetDecisionsFixing(d, {l}) \subseteq s => l \notin s
       /\ \A m \in GetDecisionsFixing(d, {l}) : \E i \in 1..Len(d.trail) :
            d.trail[i].literal = m /\ d.trail[i].type = "DECISION"
  <2>1. LevelOf(d.trail, l) \in Nat
    BY <1>3, <1>5, <1>6, <1>9, TrailFacts DEF IsAssigned
  <2>2. PICK c : c = {l}
    OBVIOUS
  <2>3. PICK n \in Nat : n = LevelOf(d.trail, l)
    BY <2>1
  <2>4. c \subseteq Literals /\ \A m \in c : IsFalse(d.trail, m) /\ LevelOf(d.trail, m) <= n
    BY <1>3, <1>5, <1>6, <1>9, <2>2, <2>3
  <2>5. FixedByDecisions(d, c, n)
    BY <1>9, <2>4, DecisionsFix
  <2> QED
    BY <2>2, <2>5 DEF FixedByDecisions
<1>11. GetDecisionsFixing(d, {l}) \cup {l} \subseteq ToSet(config.questions[asked])
  <2>1. ASSUME NEW m \in GetDecisionsFixing(d, {l}) PROVE m \in ToSet(a)
    <3>1. d.trail = r.trail
      BY <1>3, <1>9
    <3>2. PICK i \in 1..Len(d.trail) : d.trail[i].literal = m /\ d.trail[i].type = "DECISION"
      BY <1>10, <2>1
    <3> QED
      BY <1>3, <3>1, <3>2
  <2> QED
    BY <1>3, <2>1
<1>12. ASSUME NEW s \in SolutionsOf(Problem), GetDecisionsFixing(d, {l}) \cup {l} \subseteq s PROVE FALSE
  <2>1. Problem' = Problem
    BY <1>4 DEF Problem
  <2>2. KnownBy(s)'
    BY <1>12, <2>1 DEF KnownOK
  <2>3. s \in Assignments /\ Models(s, d)
    BY <1>8, <1>12, <2>2 DEF KnownBy, SolutionsOf
  <2> QED
    BY <1>10, <1>12, <2>3
<1> QED
  BY <1>4, <1>7, <1>8, <1>11, <1>12 DEF IsCore

(* Of every state: what is said of the core that is returned.              *)
CoreIsRight == status = "ASSUMPTIONS_UNSAT" => IsCore(GetLastIncompatibleDecisions)

(* The core stays until the next question.                                 *)
LEMMA NextKeepsCore ==
  ASSUME SolverOK, SearchOK, QuestionOK, CoreIsRight, [Next]_vars, SolverOK', SearchOK'
  PROVE  CoreIsRight'
<1> SUFFICES ASSUME status' = "ASSUMPTIONS_UNSAT" PROVE CoreIsRight'
  BY DEF CoreIsRight
<1>1. KnownOK /\ KnownOK'
  BY DEF SearchOK
<1>2. CASE ReapplyAssumptions \/ ProcessCurrentConflict
  <2>1. IsCore(GetLastIncompatibleDecisions')
    BY <1>1, <1>2, FailedAssumptionIsCore, ClashIsCore
  <2>2. UNCHANGED <<config, loaded, asked, late>>
    BY <1>2 DEF ReapplyAssumptions, ProcessCurrentConflict, inputVars
  <2>3. Problem' = Problem
    BY <2>2 DEF Problem
  <2> QED
    BY <2>1, <2>2, <2>3 DEF CoreIsRight, IsCore
<1>3. CASE UNCHANGED vars
  BY <1>3 DEF vars, database, failure, inputVars, CoreIsRight, IsCore, Problem, GetLastIncompatibleDecisions,
     CouldNotBeTaken, Now
<1>4. CASE Load \/ Ask \/ Leaf \/ Start \/ PropagateBinary \/ PropagateClauses
  BY <1>4 DEF Load, Ask, Leaf, Start, PropagateBinary, PropagateClauses, Running
<1>5. CASE \E restart, process \in BOOLEAN, l \in config.branches : EnqueueNewDecision(restart, process, l)
  BY <1>5 DEF EnqueueNewDecision, Searching
<1>6. CASE \E c \in config.late : AddClauseDuringSearch(c)
  BY <1>6 DEF AddClauseDuringSearch, Searching
<1> QED
  BY <1>2, <1>3, <1>4, <1>5, <1>6 DEF Next

(* The core that is returned is right, in every search, with late clauses  *)
(* or not: it is a part of the assumptions of the question, and no solution*)
(* of the clauses added so far contains it.                                *)
THEOREM CoresAreRight == Spec => []CoreIsRight
<1>1. Init => CoreIsRight
  BY DEF Init, CoreIsRight
<1>2. SolverOK /\ SearchOK /\ QuestionOK /\ CoreIsRight /\ [Next]_vars /\ SolverOK' /\ SearchOK' => CoreIsRight'
  BY NextKeepsCore
<1> QED
  BY <1>1, <1>2, SolverIsOK, SearchIsOK, QuestionIsKept, PTL DEF Spec

-----------------------------------------------------------------------------
(* At a leaf every variable is assigned, and the trail is an assignment.   *)
LEMMA FullTrail ==
  ASSUME NEW t, IsTrail(t), Len(t) = Cardinality(Variables), NEW W, W = {t[i].literal : i \in 1..Len(t)}
  PROVE  W \in Assignments /\ \A l \in Literals : IsAssigned(t, l)
<1> DEFINE f == [i \in 1..Len(t) |-> VariableOf(t[i].literal)]
<1>1. Len(t) \in Nat /\ \A i \in 1..Len(t) : t[i].literal \in Literals
  BY TrailEntries
<1>2. f \in [1..Len(t) -> Variables]
  BY <1>1, LiteralFacts
<1>3. \A i, j \in 1..Len(t) : f[i] = f[j] => i = j
  BY DEF IsTrail, TrailOK
<1>4. f \in Injection(1..Len(t), Variables)
  BY <1>2, <1>3 DEF Injection, IsInjective
<1>5. IsFiniteSet(Variables) /\ Cardinality(1..Len(t)) = Len(t)
  BY <1>1, LiteralsAreFinite, FS_Interval
<1>6. f \in Surjection(1..Len(t), Variables)
  BY <1>4, <1>5, FS_Injection
<1>7. \A v \in Variables : \E i \in 1..Len(t) : VariableOf(t[i].literal) = v
  BY <1>6 DEF Surjection
<1>8. ASSUME NEW l \in Literals PROVE IsAssigned(t, l)
  <2>1. VariableOf(l) \in Variables
    BY LiteralFacts
  <2>2. PICK i \in 1..Len(t) : VariableOf(t[i].literal) = VariableOf(l)
    BY <1>7, <2>1
  <2>3. t[i].literal = l \/ t[i].literal = -l
    BY <1>1, <2>2, LiteralFacts
  <2> QED
    BY <2>3 DEF IsAssigned, IsTrue, IsFalse
<1>9. W \in Assignments
  <2> DEFINE g == [v \in Variables |-> v \in W]
  <2>1. Variables \subseteq Nat \ {0} /\ Variables \subseteq Literals /\ \A v \in Variables : -v \in Literals
    BY SatAssumption DEF Literals
  <2>2. \A l \in W : l \in Literals
    BY <1>1
  <2>3. \A l \in Literals : l \in W <=> IsTrue(t, l)
    BY DEF IsTrue
  <2>4. \A v \in Variables : v \in W <=> -v \notin W
    <3>1. ASSUME NEW v \in Variables PROVE v \in W <=> -v \notin W
      <4>1. IsAssigned(t, v) /\ (IsTrue(t, v) => ~IsFalse(t, v))
        BY <1>8, <2>1, TrailFacts
      <4> QED
        BY <2>1, <2>3, <4>1 DEF IsAssigned, IsFalse
    <3> QED
      BY <3>1
  <2>5. W = {IF g[v] THEN v ELSE -v : v \in Variables}
    <3>1. ASSUME NEW l \in W PROVE \E v \in Variables : l = IF g[v] THEN v ELSE -v
      <4>1. l \in Variables \/ \E v \in Variables : l = -v
        BY <2>2 DEF Literals
      <4>2. CASE l \in Variables
        BY <4>2, <3>1
      <4>3. CASE \E v \in Variables : l = -v
        <5>1. PICK v \in Variables : l = -v
          BY <4>3
        <5>2. ~g[v]
          BY <2>4, <3>1, <5>1
        <5> QED
          BY <5>1, <5>2
      <4> QED
        BY <4>1, <4>2, <4>3
    <3>2. ASSUME NEW v \in Variables PROVE (IF g[v] THEN v ELSE -v) \in W
      BY <2>4
    <3> HIDE DEF g
    <3>3. \A l \in W : l \in {IF g[v] THEN v ELSE -v : v \in Variables}
      BY <3>1
    <3>4. \A l \in {IF g[v] THEN v ELSE -v : v \in Variables} : l \in W
      BY <3>2
    <3> QED
      BY <3>3, <3>4
  <2>6. g \in [Variables -> BOOLEAN]
    OBVIOUS
  <2> HIDE DEF g
  <2> QED
    BY <2>5, <2>6 DEF Assignments
<1> QED
  BY <1>8, <1>9

(* The clauses of a database consist of literals.                          *)
LEMMA DatabaseLiterals ==
  ASSUME NEW d, DatabaseOK(d), NEW c, IsClauseOf(d, c)
  PROVE  c \subseteq Literals
<1>1. d \in Databases /\ IsTrail(d.trail)
  BY DEF DatabaseOK
<1>2. CASE \E p \in Attached(d) : c = ToSet(d.clauses[p])
  <2>1. PICK p \in Attached(d) : c = ToSet(d.clauses[p])
    BY <1>2
  <2>2. d.clauses[p] \in Seq(Literals)
    BY <1>1, DatabaseTypes DEF Attached
  <2> QED
    BY <2>1, <2>2, ToSetFacts
<1>3. CASE \E l \in Literals : \E m \in ToSet(d.implications[l]) : c = {-l, m}
  <2>1. PICK l \in Literals : \E m \in ToSet(d.implications[l]) : c = {-l, m}
    BY <1>3
  <2>2. d.implications[l] \in Seq(Literals)
    BY <1>1, DatabaseTypes
  <2> QED
    BY <2>1, <2>2, ToSetFacts, LiteralFacts
<1>4. CASE \E i \in 1..Len(d.trail) : d.trail[i].level = 0 /\ c = {d.trail[i].literal}
  BY <1>1, <1>4, TrailEntries
<1> QED
  BY <1>2, <1>3, <1>4 DEF IsClauseOf

(* Then it satisfies the whole database.                                   *)
LEMMA LeafSatisfies ==
  ASSUME SolverOK, NothingIsLeftToPropagate, Propagated, status # "INFEASIBLE",
         Len(trail) = Cardinality(Variables), NEW W, W = {trail[i].literal : i \in 1..Len(trail)}
  PROVE  W \in SolutionsOf(Database)
<1>1. IsTrail(trail) /\ DatabaseOK(Now)
  BY NowFields DEF SolverOK, DatabaseOK
<1>2. W \in Assignments /\ \A l \in Literals : IsAssigned(trail, l)
  BY <1>1, FullTrail
<1>3. ASSUME NEW c \in Database PROVE \E l \in c : IsTrue(trail, l)
  <2>1. CASE ~\E l \in c : IsTrue(trail, l)
    <3>1. c \subseteq Literals
      BY <1>1, <1>3, DatabaseClauses, DatabaseLiterals
    <3>2. PICK free : free = {l \in c : ~IsFalse(trail, l)}
      OBVIOUS
    <3>3. free = {}
      BY <1>2, <2>1, <3>1, <3>2 DEF IsAssigned
    <3>4. Cardinality(free) > 1
      BY <2>1, <3>2 DEF NothingIsLeftToPropagate
    <3>5. Cardinality({}) = 0
      BY FS_EmptySet
    <3> QED
      BY <3>3, <3>4, <3>5
  <2> QED
    BY <2>1
<1>4. \A c \in Database : c \cap W # {}
  BY <1>3 DEF IsTrue
<1> QED
  BY <1>2, <1>4 DEF SolutionsOf

-----------------------------------------------------------------------------
(* The answers refine SatOracle.  What it sees of the solver.              *)
Question == IF asked = 0 THEN {} ELSE ToSet(config.questions[asked])
Answer == CASE status = "loading" -> "none"
            [] status \in {"resetting", "searching"} -> "pending"
            [] OTHER -> status
Witness == CASE status = "FEASIBLE" -> {trail[i].literal : i \in 1..Len(trail)}
             [] status = "ASSUMPTIONS_UNSAT" -> GetLastIncompatibleDecisions
             [] OTHER -> {}

(* Before a step.                                                          *)
LEMMA AnswerNow ==
  /\ Answer = (IF status = "loading" THEN "none" ELSE IF status \in {"resetting", "searching"} THEN "pending" ELSE status)
  /\ status \notin {"FEASIBLE", "ASSUMPTIONS_UNSAT"} => Witness = {}
  /\ asked \in Nat \ {0} => Question = ToSet(config.questions[asked])
BY DEF Answer, Witness, Question

(* ... and after it.                                                       *)
LEMMA AnswerNext ==
  /\ Answer' = (IF status' = "loading" THEN "none" ELSE IF status' \in {"resetting", "searching"} THEN "pending" ELSE status')
  /\ status' \notin {"FEASIBLE", "ASSUMPTIONS_UNSAT"} => Witness' = {}
  /\ status' = "FEASIBLE" => Witness' = {trail'[i].literal : i \in 1..Len(trail')}
  /\ status' = "ASSUMPTIONS_UNSAT" => Witness' = GetLastIncompatibleDecisions'
  /\ asked' \in Nat \ {0} => Question' = ToSet(config'.questions[asked'])
<1>1. Answer' = (IF status' = "loading" THEN "none" ELSE IF status' \in {"resetting", "searching"} THEN "pending" ELSE status')
  BY DEF Answer
<1>2. /\ status' \notin {"FEASIBLE", "ASSUMPTIONS_UNSAT"} => Witness' = {}
      /\ status' = "FEASIBLE" => Witness' = {trail'[i].literal : i \in 1..Len(trail')}
      /\ status' = "ASSUMPTIONS_UNSAT" => Witness' = GetLastIncompatibleDecisions'
  BY DEF Witness
<1>3. asked' \in Nat \ {0} => Question' = ToSet(config'.questions[asked'])
  BY DEF Question
<1> QED
  BY <1>1, <1>2, <1>3

(* What the oracle calls satisfiable.                                      *)
LEMMA OracleSatisfies ==
  ASSUME NEW problem
  PROVE  /\ Oracle!Satisfiable(problem) <=> SolutionsOf(problem) # {}
         /\ \A s : s \in Oracle!Solutions /\ Oracle!Satisfies(s, problem) <=> s \in SolutionsOf(problem)
<1>1. Oracle!Solutions = Assignments
  BY DEF Oracle!Solutions, Assignments
<1>2. \A s : s \in Oracle!Solutions /\ Oracle!Satisfies(s, problem) <=> s \in SolutionsOf(problem)
  BY <1>1 DEF Oracle!Satisfies, SolutionsOf
<1>3. Oracle!Satisfiable(problem) <=> SolutionsOf(problem) # {}
  BY <1>2 DEF Oracle!Satisfiable
<1> QED
  BY <1>2, <1>3

(* The solutions of the problem that contain some literals.                *)
LEMMA SolutionsWithUnits ==
  ASSUME NEW problem, NEW literals, NEW s
  PROVE  s \in SolutionsOf(problem \cup Oracle!Units(literals)) <=> s \in SolutionsOf(problem) /\ literals \subseteq s
<1>1. (\A c \in Oracle!Units(literals) : c \cap s # {}) <=> literals \subseteq s
  <2>1. \A l \in literals : {l} \cap s # {} <=> l \in s
    OBVIOUS
  <2> QED
    BY <2>1 DEF Oracle!Units
<1> QED
  BY <1>1 DEF SolutionsOf

(* The steps of the oracle.                                                *)
LEMMA OracleAddsClause ==
  ASSUME Answer # "INFEASIBLE", NEW c \in SUBSET Literals, Problem' = Problem \cup {c},
         Answer' = Answer \/ (Answer' = "INFEASIBLE" /\ SolutionsOf(Problem') = {}),
         Question' = Question, Witness' = Witness
  PROVE  Oracle!Next
<1>1. SolutionsOf(Problem') = {} => ~Oracle!Satisfiable(Problem')
  BY OracleSatisfies
<1>2. Oracle!Literals = Literals
  BY DEF Oracle!Literals, Literals
<1>3. Oracle!AddClause
  BY <1>1, <1>2 DEF Oracle!AddClause, Answer, Question, Witness
<1> QED
  BY <1>3 DEF Oracle!Next

\* A question is asked.
LEMMA OracleAsks ==
  ASSUME Answer # "INFEASIBLE", Question' \subseteq Literals, Answer' = "pending", Witness' = {}, Problem' = Problem
  PROVE  Oracle!Next
<1>1. Oracle!Literals = Literals
  BY DEF Oracle!Literals, Literals
<1>2. Oracle!Ask
  BY <1>1 DEF Oracle!Ask, Answer, Question, Witness
<1> QED
  BY <1>2 DEF Oracle!Next

\* A model is returned.
LEMMA OracleFinds ==
  ASSUME Answer = "pending", Witness' \in SolutionsOf(Problem), Question \subseteq Witness',
         Answer' = "FEASIBLE", Problem' = Problem, Question' = Question
  PROVE  Oracle!Next
<1>1. Witness' \in SolutionsOf(Problem \cup Oracle!Units(Question))
  BY SolutionsWithUnits
<1>2. Witness' \in Oracle!Solutions /\ Oracle!Satisfies(Witness', Problem \cup Oracle!Units(Question))
  BY <1>1, OracleSatisfies
<1>3. Oracle!AnswerFeasible
  BY <1>2 DEF Oracle!AnswerFeasible, Answer, Question, Witness
<1> QED
  BY <1>3 DEF Oracle!Next

\* UNSAT is returned.
LEMMA OracleRefutes ==
  ASSUME Answer \in {"none", "pending"}, SolutionsOf(Problem) = {}, Answer' = "INFEASIBLE",
         Problem' = Problem, Question' = Question, Witness' = Witness
  PROVE  Oracle!Next
<1>1. ~Oracle!Satisfiable(Problem)
  BY OracleSatisfies
<1>2. Oracle!AnswerInfeasible
  BY <1>1 DEF Oracle!AnswerInfeasible, Answer, Question, Witness
<1> QED
  BY <1>2 DEF Oracle!Next

\* A core is returned.
LEMMA OracleClashes ==
  ASSUME Answer = "pending", Witness' \subseteq Question, \A s \in SolutionsOf(Problem) : ~(Witness' \subseteq s),
         Answer' = "ASSUMPTIONS_UNSAT", Problem' = Problem, Question' = Question
  PROVE  Oracle!Next
<1>1. SolutionsOf(Problem \cup Oracle!Units(Witness')) = {}
  BY SolutionsWithUnits
<1>2. ~Oracle!Satisfiable(Problem \cup Oracle!Units(Witness'))
  BY <1>1, OracleSatisfies
<1>3. Oracle!AnswerAssumptionsUnsat
  BY <1>2 DEF Oracle!AnswerAssumptionsUnsat, Answer, Question, Witness
<1> QED
  BY <1>3 DEF Oracle!Next

\* The oracle stutters.
LEMMA OracleWaits ==
  ASSUME UNCHANGED <<Problem, Question, Answer, Witness>>
  PROVE  UNCHANGED Oracle!vars
BY DEF Oracle!vars, Answer, Question, Witness

(* The steps of the solver are steps of the oracle.  Most change nothing   *)
(* that it sees.                                                           *)
LEMMA QuietStep ==
  ASSUME status \in Running, status' \in Running, status = "loading" <=> status' = "loading",
         UNCHANGED <<config, loaded, asked, late>>
  PROVE  UNCHANGED Oracle!vars
<1>1. Problem' = Problem /\ Question' = Question
  BY DEF Problem, Question
<1>2. Answer' = Answer /\ Witness' = Witness
  BY AnswerNow, AnswerNext DEF Running
<1> QED
  BY <1>1, <1>2, OracleWaits

(* "INFEASIBLE" is only said when there is no solution.                    *)
LEMMA NoSolutions ==
  ASSUME KnownOK', status' = "INFEASIBLE"
  PROVE  SolutionsOf(Problem') = {}
<1>1. \A s \in SolutionsOf(Problem') : KnownBy(s)'
  BY DEF KnownOK
<1>2. \A s : KnownBy(s)' => status' # "INFEASIBLE"
  BY DEF KnownBy
<1> QED
  BY <1>1, <1>2

(* A clause is loaded, or added during the search.                         *)
LEMMA LoadIsOracleStep ==
  ASSUME TypesOK, KnownOK', Load
  PROVE  Oracle!Next
<1> DEFINE c == config.clauses[loaded + 1]
<1>1. /\ status = "loading" /\ loaded < Len(config.clauses) /\ loaded' = loaded + 1
      /\ status' \in {"loading", "INFEASIBLE"} /\ UNCHANGED <<config, asked, late>>
  BY DEF Load
<1>2. config \in Configurations /\ loaded \in Nat /\ Len(config.clauses) \in Nat
  <2>1. config \in Configurations /\ loaded \in 0..Len(config.clauses)
    BY DEF TypesOK
  <2> QED
    BY <2>1, ConfigurationFacts
<1>3. c \in SUBSET Literals
  <2>1. loaded + 1 \in 1..Len(config.clauses)
    BY <1>1, <1>2
  <2> QED
    BY <1>2, <2>1, ConfigurationFacts
<1>4. Problem' = Problem \cup {c}
  <2>1. \A i : i \in 1..loaded' <=> i \in 1..loaded \/ i = loaded + 1
    BY <1>1, <1>2
  <2>2. {config.clauses[i] : i \in 1..loaded'} = {config.clauses[i] : i \in 1..loaded} \cup {c}
    BY <2>1
  <2>3. Problem' = {config.clauses[i] : i \in 1..loaded'} \cup late
    BY <1>1 DEF Problem
  <2>4. Problem = {config.clauses[i] : i \in 1..loaded} \cup late
    BY DEF Problem
  <2> HIDE DEF c
  <2> QED
    BY <2>2, <2>3, <2>4
<1>5. Question' = Question
  BY <1>1 DEF Question
<1>6. /\ Answer = "none" /\ Witness = {} /\ Witness' = {}
      /\ Answer' = Answer \/ Answer' = "INFEASIBLE"
      /\ Answer' = "INFEASIBLE" => status' = "INFEASIBLE"
  BY <1>1, AnswerNow, AnswerNext
<1>7. Answer' = Answer \/ (Answer' = "INFEASIBLE" /\ SolutionsOf(Problem') = {})
  BY <1>6, NoSolutions
<1> HIDE DEF c
<1> QED
  BY <1>3, <1>4, <1>5, <1>6, <1>7, OracleAddsClause

\* A clause that comes during the search.
LEMMA AddClauseDuringSearchIsOracleStep ==
  ASSUME TypesOK, NEW c \in config.late, AddClauseDuringSearch(c)
  PROVE  Oracle!Next
<1>1. /\ status = "searching" /\ status' = "searching" /\ late' = late \cup {c}
      /\ UNCHANGED <<config, asked, loaded>>
  BY DEF AddClauseDuringSearch, Searching
<1>2. c \in SUBSET Literals
  BY ConfigurationFacts DEF TypesOK
<1>3. Problem' = Problem \cup {c} /\ Question' = Question
  BY <1>1 DEF Problem, Question
<1>4. Answer = "pending" /\ Answer' = Answer /\ Witness = {} /\ Witness' = {}
  BY <1>1, AnswerNow, AnswerNext
<1> QED
  BY <1>2, <1>3, <1>4, OracleAddsClause

(* A question is asked.                                                    *)
LEMMA AskIsOracleStep ==
  ASSUME TypesOK, Ask
  PROVE  Oracle!Next
<1>1. /\ status \in {"loading", "FEASIBLE", "ASSUMPTIONS_UNSAT"} /\ status' = "resetting"
      /\ asked < Len(config.questions) /\ asked' = asked + 1 /\ UNCHANGED <<config, loaded, late>>
  BY DEF Ask
<1>2. /\ config \in Configurations /\ asked \in Nat /\ Len(config.questions) \in Nat
      /\ config.questions[asked + 1] \in Seq(Literals)
  <2>1. config \in Configurations /\ asked \in 0..Len(config.questions)
    BY DEF TypesOK
  <2>2. Len(config.questions) \in Nat /\ \A i \in 1..Len(config.questions) : config.questions[i] \in Seq(Literals)
    BY <2>1, ConfigurationFacts
  <2> QED
    BY <1>1, <2>1, <2>2
<1>3. Question' \subseteq Literals
  <2>1. Question' = ToSet(config.questions[asked + 1])
    BY <1>1, <1>2, AnswerNext
  <2> QED
    BY <1>2, <2>1, ToSetFacts
<1>4. Answer # "INFEASIBLE" /\ Answer' = "pending" /\ Witness' = {}
  BY <1>1, AnswerNow, AnswerNext
<1>5. Problem' = Problem
  BY <1>1 DEF Problem
<1> QED
  BY <1>3, <1>4, <1>5, OracleAsks

(* At a leaf the trail is a solution in which the assumptions hold.        *)
LEMMA LeafIsOracleStep ==
  ASSUME SolverOK, QuestionOK, NothingIsLeftToPropagate, DatabaseIsEquivalent, Leaf
  PROVE  Oracle!Next
<1> DEFINE W == {trail[i].literal : i \in 1..Len(trail)}
           q == config.questions[asked]
<1>1. /\ status = "searching" /\ Propagated /\ ~NeedAssumptions /\ Len(trail) = Cardinality(Variables)
      /\ status' = "FEASIBLE" /\ UNCHANGED <<trail, config, loaded, asked, late>>
  BY DEF Leaf, Searching, database, inputVars
<1>2. W \in SolutionsOf(Problem)
  <2>1. W \in SolutionsOf(Database)
    BY <1>1, LeafSatisfies
  <2> QED
    BY <1>1, <2>1 DEF DatabaseIsEquivalent
<1>3. asked \in 1..Len(config.questions) /\ QuestionTaken(trail, assumptions, ToSet(q))
  BY <1>1 DEF QuestionOK
<1>4. \A l \in ToSet(q) : \E i \in 1..Len(trail) : trail[i].literal = l
  <2>1. CASE assumptions = <<>>
    BY <1>3, <2>1 DEF QuestionTaken, TakenAt
  <2>2. CASE assumptions # <<>>
    <3>1. CurrentLevel(trail) \in Nat
      BY NowFields, CurrentLevelFacts DEF SolverOK, DatabaseOK
    <3>2. CurrentLevel(trail) > 0
      BY <1>1, <2>2, <3>1 DEF NeedAssumptions
    <3> QED
      BY <1>3, <2>2, <3>2 DEF QuestionTaken, TakenAt
  <2> QED
    BY <2>1, <2>2
<1>5. asked \in Nat \ {0} /\ Question = ToSet(q)
  <2>1. asked \in Nat \ {0}
    BY <1>3
  <2> QED
    BY <2>1, AnswerNow
<1>6. Question \subseteq W
  BY <1>4, <1>5
<1>7. Problem' = Problem /\ Question' = Question
  BY <1>1 DEF Problem, Question
<1>8. Answer = "pending" /\ Answer' = "FEASIBLE" /\ Witness' = W
  BY <1>1, AnswerNow, AnswerNext
<1> HIDE DEF W, q
<1> QED
  BY <1>2, <1>6, <1>7, <1>8, OracleFinds

(* A core that was found is the answer.                                    *)
LEMMA CoreIsOracleStep ==
  ASSUME QuestionOK, status = "searching", status' = "ASSUMPTIONS_UNSAT",
         IsCore(GetLastIncompatibleDecisions'), UNCHANGED <<config, loaded, asked, late>>
  PROVE  Oracle!Next
<1>1. Problem' = Problem /\ Question' = Question
  BY DEF Problem, Question
<1>2. Answer = "pending" /\ Answer' = "ASSUMPTIONS_UNSAT" /\ Witness' = GetLastIncompatibleDecisions'
  BY AnswerNow, AnswerNext
<1>3. Question = ToSet(config.questions[asked])
  <2>1. asked \in Nat \ {0}
    BY DEF QuestionOK
  <2> QED
    BY <2>1, AnswerNow
<1>4. Witness' \subseteq Question /\ \A s \in SolutionsOf(Problem) : ~(Witness' \subseteq s)
  BY <1>2, <1>3 DEF IsCore
<1> QED
  BY <1>1, <1>2, <1>4, OracleClashes

(* The assumptions are taken, or one of them cannot be.                    *)
LEMMA ReapplyAssumptionsIsOracleStep ==
  ASSUME SolverOK, QuestionOK, SolverOK', KnownOK', ReapplyAssumptions
  PROVE  Oracle!Next \/ UNCHANGED Oracle!vars
<1>1. /\ status = "searching" /\ status' \in {"searching", "ASSUMPTIONS_UNSAT"}
      /\ UNCHANGED <<config, loaded, asked, late>>
  BY DEF ReapplyAssumptions, Searching, inputVars
<1>2. CASE status' = "searching"
  BY <1>1, <1>2, QuietStep DEF Running
<1>3. CASE status' = "ASSUMPTIONS_UNSAT"
  BY <1>1, <1>3, FailedAssumptionIsCore, CoreIsOracleStep
<1> QED
  BY <1>1, <1>2, <1>3

(* A conflict is learned from, or is an answer.                            *)
LEMMA ProcessCurrentConflictIsOracleStep ==
  ASSUME SolverOK, KnownOK, QuestionOK, KnownOK', ProcessCurrentConflict
  PROVE  Oracle!Next \/ UNCHANGED Oracle!vars
<1>1. /\ status \in Running /\ status' \in {status, "INFEASIBLE", "ASSUMPTIONS_UNSAT"}
      /\ UNCHANGED <<config, loaded, asked, late>>
  BY DEF ProcessCurrentConflict, BackjumpAndLearn, inputVars
<1>2. CASE status' = status
  BY <1>1, <1>2, QuietStep
<1>3. CASE status' = "INFEASIBLE"
  <2>1. Problem' = Problem /\ Question' = Question
    BY <1>1 DEF Problem, Question
  <2>2. SolutionsOf(Problem) = {}
    BY <1>3, <2>1, NoSolutions
  <2>3. Answer \in {"none", "pending"} /\ Answer' = "INFEASIBLE" /\ Witness' = Witness
    BY <1>1, <1>3, AnswerNow, AnswerNext DEF Running
  <2> QED
    BY <2>1, <2>2, <2>3, OracleRefutes
<1>4. CASE status' = "ASSUMPTIONS_UNSAT"
  BY <1>1, <1>4, ClashIsCore, CoreIsOracleStep
<1> QED
  BY <1>1, <1>2, <1>3, <1>4

(* Every step of the solver.                                               *)
LEMMA NextIsOracleStep ==
  ASSUME SolverOK, SearchOK, QuestionOK, NothingIsLeftToPropagate, DatabaseIsEquivalent, [Next]_vars,
         SolverOK', SearchOK'
  PROVE  Oracle!Next \/ UNCHANGED Oracle!vars
<1>1. TypesOK /\ KnownOK /\ KnownOK'
  BY DEF SolverOK, SearchOK
<1>2. CASE Load
  BY <1>1, <1>2, LoadIsOracleStep
<1>3. CASE Ask
  BY <1>1, <1>3, AskIsOracleStep
<1>4. CASE Leaf
  BY <1>4, LeafIsOracleStep
<1>5. CASE ReapplyAssumptions
  BY <1>1, <1>5, ReapplyAssumptionsIsOracleStep
<1>6. CASE ProcessCurrentConflict
  BY <1>1, <1>6, ProcessCurrentConflictIsOracleStep
<1>7. CASE \E c \in config.late : AddClauseDuringSearch(c)
  BY <1>1, <1>7, AddClauseDuringSearchIsOracleStep
<1>8. CASE PropagateBinary \/ PropagateClauses \/ Start
  <2>1. /\ status \in Running /\ status' \in Running
        /\ status = "loading" <=> status' = "loading"
        /\ UNCHANGED <<config, loaded, asked, late>>
    BY <1>8 DEF PropagateBinary, PropagateClauses, Start, Running, inputVars
  <2> QED
    BY <2>1, QuietStep
<1>9. CASE \E restart, process \in BOOLEAN, l \in config.branches : EnqueueNewDecision(restart, process, l)
  <2>1. /\ status = "searching" /\ status' = "searching" /\ UNCHANGED <<config, loaded, asked, late>>
    BY <1>9 DEF EnqueueNewDecision, Searching, inputVars
  <2> QED
    BY <2>1, QuietStep DEF Running
<1>10. CASE UNCHANGED vars
  <2>1. Problem' = Problem /\ Question' = Question /\ Answer' = Answer /\ Witness' = Witness
    BY <1>10 DEF vars, database, failure, inputVars, Problem, Question, Answer, Witness,
       GetLastIncompatibleDecisions, CouldNotBeTaken, Now
  <2> QED
    BY <2>1, OracleWaits
<1> QED
  BY <1>2, <1>3, <1>4, <1>5, <1>6, <1>7, <1>8, <1>9, <1>10 DEF Next

(* A SatSolver is an oracle for the clauses added so far: "FEASIBLE" comes *)
(* with a solution in which the assumptions hold, "INFEASIBLE" only when   *)
(* there is none without any assumption, "ASSUMPTIONS_UNSAT" with a core   *)
(* of the assumptions that were given; clauses and questions follow one    *)
(* another in any order that the class allows.                             *)
THEOREM SolverImplementsOracle == ClausesAreNotLate => (Spec => AnswersAreRight)
<1> SUFFICES ASSUME ClausesAreNotLate PROVE Spec => AnswersAreRight
  OBVIOUS
<1>1. Init => Oracle!Init
  BY DEF Init, Oracle!Init, Problem
<1>2. SolverOK /\ SearchOK /\ QuestionOK /\ NothingIsLeftToPropagate /\ DatabaseIsEquivalent /\ [Next]_vars
        /\ SolverOK' /\ SearchOK' => Oracle!Next \/ UNCHANGED Oracle!vars
  BY NextIsOracleStep
<1>3. Spec => []SolverOK
  BY SolverIsOK
<1>4. Spec => []SearchOK
  BY SearchIsOK
<1>5. Spec => []QuestionOK
  BY QuestionIsKept
<1>6. Spec => []NothingIsLeftToPropagate
  BY PropagationIsComplete
<1>7. Spec => []DatabaseIsEquivalent
  BY DatabaseStaysEquivalent
<1> QED
  BY <1>1, <1>2, <1>3, <1>4, <1>5, <1>6, <1>7, PTL DEF Spec, AnswersAreRight, Oracle!Spec
=============================================================================
