----------------------------- MODULE SatSolver -----------------------------
(***************************************************************************)
(* The conflict-driven clause learning of CP-SAT: SatSolver of             *)
(* ortools/sat/sat_solver.{h,cc} with its two clause propagators, the      *)
(* BinaryImplicationGraph for clauses of size 2 and the ClauseManager, two *)
(* watched literals each, for the longer ones (ortools/sat/clause.{h,cc}). *)
(*                                                                         *)
(* A call of a propagator, a branching, a conflict and a call of a public  *)
(* method are one action each.  Which literal is branched on, when the     *)
(* search restarts, when and what the clean up of the database forgets are *)
(* choices.  Literals are integers, -l is the negation of l.               *)
(***************************************************************************)
EXTENDS Integers, SequencesExt, FiniteSetsExt

CONSTANTS
  Variables,       \* the Boolean variables
  Configurations   \* clauses, questions and parameters

(* clauses are added one by one, then questions are asked, each with its   *)
(* assumptions; late clauses are those that may be added during the search,*)
(* and branches the literals that the decision policy may choose.  Bounds: *)
(* max_restarts in one search, max_clean_ups of the clause database.       *)
Minimizations == {"NONE", "SIMPLE", "RECURSIVE"}
BinaryMinimizations == {"NO_BINARY_MINIMIZATION", "BINARY_MINIMIZATION_FIRST"}
Literals == Variables \cup {-v : v \in Variables}
ConfigurationOK(c) ==
  /\ c.clauses \in Seq(SUBSET Literals)
  /\ c.late \subseteq {l \in SUBSET Literals : Cardinality(l) > 1}
  /\ c.questions \in Seq(Seq(Literals)) /\ c.any_level \in BOOLEAN
  /\ c.branches \subseteq Literals /\ \A v \in Variables : c.branches \cap {v, -v} # {}
  /\ c.minimization_algorithm \in Minimizations
  /\ c.binary_minimization_algorithm \in BinaryMinimizations
  /\ c.subsumption_during_conflict_analysis \in BOOLEAN
  /\ c.max_restarts \in Nat /\ c.max_clean_ups \in Nat

ASSUME SatAssumption ==
  /\ IsFiniteSet(Variables) /\ Variables \subseteq Nat \ {0}
  /\ \A c \in Configurations : ConfigurationOK(c)

VARIABLES
  config,
  clauses,       \* clauses_: literals in order, <<>> when removed
  removable,     \* clauses_info_: those that a clean up may forget
  watchers,      \* watchers_on_false_
  implications,  \* implications_
  trail,         \* trail_: literals with their level, and reason
  binary_index,  \* propagation_trail_index_ of the implication graph
  clause_index,  \* ... and of the clause manager
  conflict,      \* the failing clause, <<>> if there is none
  failing,       \* FailingSatClause(), 0 if it is not one of clauses
  status,        \* model_is_unsat_, the status returned, or what goes on
  assumptions,   \* assumptions_, all taken at level 1
  num_processed, \* num_processed_fixed_variables_
  loaded, asked, \* the clauses added and the questions asked
  late,          \* the clauses added during the search
  restarts, clean_ups

database == <<clauses, watchers, implications, trail>>
indices == <<binary_index, clause_index>>
failure == <<conflict, failing>>
inputVars == <<config, loaded, asked, late>>
vars == <<database, removable, indices, failure, inputVars, status, assumptions, num_processed,
          restarts, clean_ups>>

Running == {"loading", "resetting", "searching"}

(* The element of a set of one, as of {Step(v) : v \in {value}}, for which *)
(* TLC evaluates the value once.                                           *)
The(set) == CHOOSE x \in set : TRUE

(* The elements of a sequence that are in a set, in order.                 *)
Selected(s, set) ==
  LET only[i \in 0..Len(s)] ==
        IF i = 0 THEN <<>>
        ELSE IF s[i] \in set THEN Append(only[i - 1], s[i]) ELSE only[i - 1]
  IN only[Len(s)]
Only(s, set) == The({Selected(t, kept) : t \in {s}, kept \in {set}})

-----------------------------------------------------------------------------
(* The trail, and an entry of it: what it assigns, where, and why.         *)
VariableOf(l) == IF l < 0 THEN -l ELSE l
Index(l) == 2 * VariableOf(l) + (IF l < 0 THEN 1 ELSE 0)
Sorted(c) ==
  CHOOSE s \in [1..Cardinality(c) -> c] : \A i, j \in DOMAIN s : i < j => Index(s[i]) < Index(s[j])

IsTrue(t, l) == \E i \in 1..Len(t) : t[i].literal = l
IsFalse(t, l) == IsTrue(t, -l)
IsAssigned(t, l) == IsTrue(t, l) \/ IsFalse(t, l)
TrailIndex(t, l) == CHOOSE i \in 1..Len(t) : VariableOf(t[i].literal) = VariableOf(l)
LevelOf(t, l) == t[TrailIndex(t, l)].level
CurrentLevel(t) == IF t = <<>> THEN 0 ELSE Last(t).level

(* type is DECISION, UNIT, BINARY or CLAUSE, by the literal or the clause. *)
Enqueued(t, l, level, type, by) ==
  Append(t, [literal |-> l, level |-> level, type |-> type, by |-> by])

Others(literals) == SubSeq(literals, 2, Len(literals))

(* The literals that were false when the i-th literal was propagated.      *)
Reason(d, i) ==
  CASE d.trail[i].type = "CLAUSE" -> Others(d.clauses[d.trail[i].by])
    [] d.trail[i].type = "BINARY" -> <<d.trail[i].by>>
    [] OTHER -> <<>>
ReasonClauseOrNull(d, i) == IF d.trail[i].type = "CLAUSE" THEN d.trail[i].by ELSE 0

(* What the propagators read and write.                                    *)
Now == [clauses |-> clauses, watchers |-> watchers, implications |-> implications,
        trail |-> trail]
DatabaseBecomes(d) ==
  /\ clauses' = d.clauses /\ watchers' = d.watchers
  /\ implications' = d.implications /\ trail' = d.trail

-----------------------------------------------------------------------------
(* ClauseManager.                                                          *)
IsRemoved(d, c) == d.clauses[c] = <<>>
Attached(d) == {c \in 1..Len(d.clauses) : ~IsRemoved(d, c)}

Watcher(c, blocking, start) == [clause |-> c, blocking |-> blocking, start |-> start]
Swapped(s, i, j) == [s EXCEPT ![i] = s[j], ![j] = s[i]]

(* The next literal to watch: the first from start on, in cyclic order.    *)
NextToWatch(candidates, start) ==
  LET ahead == {i \in candidates : i >= start}
  IN Min(IF ahead # {} THEN ahead ELSE candidates)

Kept(r, w) == [r EXCEPT !.kept = Append(@, w)]

(* One watcher of false_literal: a true literal is enough, then another    *)
(* literal to watch, and without one the clause is false or propagates.    *)
Inspected(r, w, false_literal) ==
  LET literals == r.clauses[w.clause]
      other == IF literals[1] = false_literal THEN literals[2] ELSE literals[1]
      candidates == {i \in 3..Len(literals) : ~IsFalse(r.trail, literals[i])}
      new == NextToWatch(candidates, w.start)
      watching == [literals EXCEPT ![1] = other, ![2] = literals[new],
                                   ![new] = false_literal]
      propagating == [literals EXCEPT ![1] = other, ![2] = false_literal]
  IN IF IsTrue(r.trail, w.blocking) THEN Kept(r, w)
     ELSE IF IsTrue(r.trail, other) THEN Kept(r, [w EXCEPT !.blocking = other])
     ELSE IF candidates # {} THEN
       [r EXCEPT !.clauses[w.clause] = watching,
                 !.watchers[literals[new]] = Append(@, Watcher(w.clause, other, new + 1))]
     ELSE IF IsFalse(r.trail, other) THEN
       [Kept(r, w) EXCEPT !.conflict = literals, !.failing = w.clause]
     ELSE
       [Kept(r, w) EXCEPT
          !.clauses[w.clause] = propagating,
          !.trail = Enqueued(@, other, CurrentLevel(@), "CLAUSE", w.clause)]

(* The list of watchers, one after the other; after a conflict they stay.  *)
InspectedNext(r, w, false_literal) ==
  IF r.conflict # <<>> THEN Kept(r, w) ELSE Inspected(r, w, false_literal)

Inspections(d, list, false_literal) ==
  LET r[i \in 0..Len(list)] ==
        IF i = 0
        THEN [clauses |-> d.clauses, watchers |-> d.watchers, trail |-> d.trail,
              kept |-> <<>>, conflict |-> <<>>, failing |-> 0]
        ELSE The({InspectedNext(before, list[i], false_literal) : before \in {r[i - 1]}})
  IN r

(* PropagateOnFalse(): the watchers of a literal that became false.        *)
PropagateOnFalse(d, false_literal) ==
  LET list == d.watchers[false_literal]
  IN The({[r EXCEPT !.watchers[false_literal] = r.kept] :
            r \in {Inspections(d, list, false_literal)[Len(list)]}})

(* AttachAndPropagate() puts two literals that are not false in front, or  *)
(* one and, of the false ones, the last that was assigned.                 *)
(* Mistake: any false literal is watched.                                  *)
MistakeWatchedOrder(t, literals) ==
  LET free == {i \in 1..Len(literals) : ~IsFalse(t, literals[i])}
  IN Swapped(literals, 1, Min(free))

LaterSecond(t, literals, i) ==
  IF LevelOf(t, literals[i]) > LevelOf(t, literals[2]) THEN Swapped(literals, 2, i) ELSE literals

LastAssignedSecond(t, literals) ==
  LET s[i \in 2..Len(literals)] ==
        IF i = 2 THEN literals
        ELSE The({LaterSecond(t, before, i) : before \in {s[i - 1]}})
  IN s[Len(literals)]

WatchedOrder(t, literals) ==
  LET free == {i \in 1..Len(literals) : ~IsFalse(t, literals[i])}
      first == Swapped(literals, 1, Min(free))
  IN IF Cardinality(free) > 1 THEN Swapped(first, 2, Min(free \ {Min(free)}))
     ELSE LastAssignedSecond(t, first)

(* AddClause(), of a clause that is not all false.                         *)
AttachInOrder(d, lits) ==
  LET c == Len(d.clauses) + 1
  IN [d EXCEPT
        !.clauses = Append(@, lits),
        !.watchers = [d.watchers EXCEPT ![lits[1]] = Append(@, Watcher(c, lits[2], 3)),
                                        ![lits[2]] = Append(@, Watcher(c, lits[1], 3))],
        !.trail = IF IsFalse(d.trail, lits[2]) /\ ~IsTrue(d.trail, lits[1])
                  THEN Enqueued(d.trail, lits[1], CurrentLevel(d.trail), "CLAUSE", c) ELSE d.trail]

Attach(d, literals) ==
  The({AttachInOrder(d, lits) : lits \in {WatchedOrder(d.trail, literals)}})

(* Mistake: the watchers are not cleaned up.                               *)
MistakeDetach(d, removed) ==
  [d EXCEPT !.clauses = [c \in DOMAIN @ |-> IF c \in removed THEN <<>> ELSE @[c]]]

(* LazyDetach() of some clauses, then CleanUpWatchers().                   *)
Detach(d, removed) ==
  [d EXCEPT
     !.clauses = [c \in DOMAIN @ |-> IF c \in removed THEN <<>> ELSE @[c]],
     !.watchers = [l \in DOMAIN @ |->
                     Only(@[l], {w \in ToSet(@[l]) : w.clause \notin removed})]]

-----------------------------------------------------------------------------
(* BinaryImplicationGraph.                                                 *)

(* AddBinaryClause(), of two literals that are not both false.             *)
AddBinaryClause(d, a, b) ==
  LET t == d.trail
      graph == [d.implications EXCEPT ![-a] = Append(@, b), ![-b] = Append(@, a)]
      level == CurrentLevel(t)
  IN IF a = -b THEN d
     ELSE [d EXCEPT
        !.implications = graph,
        !.trail = IF level = 0 THEN t
                  ELSE IF IsFalse(t, a) /\ ~IsAssigned(t, b)
                  THEN Enqueued(t, b, level, "BINARY", a)
                  ELSE IF IsFalse(t, b) /\ ~IsAssigned(t, a)
                  THEN Enqueued(t, a, level, "BINARY", b) ELSE t]

(* The literal by implies l.                                               *)
Implied(r, by, l) ==
  IF r.conflict # <<>> \/ IsTrue(r.trail, l) THEN r
  ELSE IF IsFalse(r.trail, l) THEN [r EXCEPT !.conflict = <<-by, l>>]
  ELSE [r EXCEPT !.trail = Enqueued(@, l, CurrentLevel(@), "BINARY", -by)]

AllImplied(r, by, list) ==
  LET q[i \in 0..Len(list)] == IF i = 0 THEN r
                              ELSE The({Implied(before, by, list[i]) : before \in {q[i - 1]}})
  IN q[Len(list)]

(* Propagate() goes on with what it propagates itself.                     *)
PropagatedNext(d, r) ==
  IF r.conflict # <<>> \/ r.index = Len(r.trail) THEN r
  ELSE LET by == r.trail[r.index + 1].literal
       IN AllImplied([r EXCEPT !.index = @ + 1], by, d.implications[by])

Propagations(d, first) ==
  LET r[i \in first..Cardinality(Variables)] ==
        IF i = first THEN [trail |-> d.trail, conflict |-> <<>>, index |-> first]
        ELSE The({PropagatedNext(d, before) : before \in {r[i - 1]}})
  IN r

(* MarkDescendants(); no path needs more steps than there are literals.    *)
MarkDescendants(graph, root) ==
  LET marked[n \in 0..Cardinality(Literals)] ==
        IF n = 0 THEN {root}
        ELSE The({before \cup UNION {ToSet(graph[l]) : l \in before} : before \in {marked[n - 1]}})
  IN marked[Cardinality(Literals)]

(* RemoveFixedVariables(): the lists of a fixed literal and of its negation*)
(* are dropped, then the literal from the lists of those that imply it.    *)
RemoveFixedVariables(d, fixed) ==
  LET implying == {-l : l \in UNION {ToSet(d.implications[-f]) : f \in fixed}}
  IN [d EXCEPT !.implications =
        [l \in Literals |->
           IF l \in fixed \/ -l \in fixed THEN <<>>
           ELSE IF l \in implying THEN Only(@[l], Literals \ fixed)
           ELSE @[l]]]

-----------------------------------------------------------------------------
(* SatSolver: conflicts.                                                   *)
(* Backtrack(): the trail ends before what is above the level.             *)
Backtracked(t, level) ==
  SubSeq(t, 1, Min({Len(t)} \cup {i - 1 : i \in {i \in 1..Len(t) : t[i].level > level}}))

(* One clause of the first UIP computation, with the trail read down to k: *)
(* its literals join the conflict, those of the highest level are pending  *)
(* until they are expanded, and clauses the conflict contains are subsumed.*)
WithNew(t, highest, k, e, num_positive, new, id) ==
  LET marked == e.marked \cup {VariableOf(l) : l \in ToSet(new)}
      lower == e.lower \o Only(new, {l \in ToSet(new) : LevelOf(t, l) < highest})
      pending == {v \in marked : LevelOf(t, v) = highest /\ TrailIndex(t, v) <= k}
      subsumed == IF new = <<>> THEN e.subsumed ELSE {}
      is_subsumed == id # 0 /\ num_positive = Len(lower) + Cardinality(pending)
  IN [marked |-> marked, lower |-> lower, pending |-> pending,
      subsumed |-> IF is_subsumed THEN subsumed \cup {id} ELSE subsumed]

Expanded(t, highest, k, e, clause, id) ==
  LET positive == {l \in ToSet(clause) : LevelOf(t, l) > 0}
  IN The({WithNew(t, highest, k, e, Cardinality(positive), new, id) :
            new \in {Only(clause, {l \in positive : VariableOf(l) \notin e.marked})}})

(* The expansions down the trail, when its entries after the k-th are done;*)
(* the last pending variable is the first UIP.                             *)
ExpandedNext(d, highest, e, k) ==
  IF VariableOf(d.trail[k].literal) \notin e.marked \/ Cardinality(e.pending) = 1 THEN e
  ELSE Expanded(d.trail, highest, k - 1, e, Reason(d, k), ReasonClauseOrNull(d, k))

Expansions(d, highest, first, top) ==
  LET e[k \in 0..top] ==
        IF k = top THEN first
        ELSE The({ExpandedNext(d, highest, before, k + 1) : before \in {e[k + 1]}})
  IN e

(* ComputeFirstUIPConflict()                                               *)
FirstUIPConflict(t, e) ==
  LET uip == CHOOSE i \in 1..Len(t) : VariableOf(t[i].literal) \in e.pending
  IN [conflict |-> <<-t[uip].literal>>
                      \o (IF e.lower = <<>> THEN <<>> ELSE Append(Tail(e.lower), Head(e.lower))),
      marked |-> e.marked, subsumed |-> e.subsumed]

ComputeFirstUIPConflict(d, failing_clause, id) ==
  LET top == Max({TrailIndex(d.trail, l) : l \in ToSet(failing_clause)})
      highest == d.trail[top].level
      nothing == [marked |-> {}, lower |-> <<>>, pending |-> {}, subsumed |-> {}]
      first == Expanded(d.trail, highest, top, nothing, failing_clause, id)
  IN The({FirstUIPConflict(d.trail, e) : e \in {Expansions(d, highest, first, top)[0]}})

(* Minimisation never removes the first UIP, at the head.                  *)
HeadAnd(literals, others) == <<Head(literals)>> \o Only(Tail(literals), others)

(* MinimizeConflictFirst(): the literals that the first UIP implies to be  *)
(* false go, and what it implies to be true is marked.                     *)
WithoutReachable(t, r, reachable) ==
  [r EXCEPT !.conflict = HeadAnd(@, {l \in Literals : -l \notin reachable}),
            !.marked = @ \cup {VariableOf(l) : l \in {m \in reachable : IsTrue(t, m)}}]

MinimizeConflictFirst(d, r) ==
  The({WithoutReachable(d.trail, r, reachable) :
         reachable \in {MarkDescendants(d.implications, -Head(r.conflict))}})

(* MinimizeConflictSimple(): what the rest of the conflict implies goes.   *)
MinimizeConflictSimple(d, r) ==
  LET CanBeRemoved(l) ==
        LET reason == Reason(d, TrailIndex(d.trail, l))
        IN /\ LevelOf(d.trail, l) # CurrentLevel(d.trail) /\ reason # <<>>
           /\ \A m \in ToSet(reason) : LevelOf(d.trail, m) = 0 \/ VariableOf(m) \in r.marked
  IN [r EXCEPT !.conflict = HeadAnd(@, {l \in ToSet(@) : ~CanBeRemoved(l)})]

(* MinimizeConflictRecursively(): so does what follows from the conflict   *)
(* over several reasons.  Nothing of a level without a marked variable, or *)
(* before the first one of its level, does.  The entries that do, up to n. *)
InferedFrom(d, marked, n, infered) ==
  LET earlier == {v \in marked : LevelOf(d.trail, v) = d.trail[n].level /\ TrailIndex(d.trail, v) < n}
  IN /\ d.trail[n].type # "DECISION" /\ earlier # {}
     /\ \A m \in ToSet(Reason(d, n)) :
          \/ LevelOf(d.trail, m) = 0 \/ VariableOf(m) \in marked
          \/ TrailIndex(d.trail, m) \in infered

CanBeInfered(d, marked) ==
  LET infered[n \in 0..Len(d.trail)] ==
        IF n = 0 THEN {}
        ELSE The({before \cup {i \in {n} : InferedFrom(d, marked, i, before)} :
                    before \in {infered[n - 1]}})
  IN infered[Len(d.trail)]

WithoutInfered(t, r, infered) ==
  [r EXCEPT !.conflict = HeadAnd(@, {l \in ToSet(@) : TrailIndex(t, l) \notin infered})]

MinimizeConflictRecursively(d, r) ==
  The({WithoutInfered(d.trail, r, infered) : infered \in {CanBeInfered(d, r.marked)}})

MinimizeConflict(d, r) ==
  CASE config.minimization_algorithm = "SIMPLE" -> MinimizeConflictSimple(d, r)
    [] config.minimization_algorithm = "RECURSIVE" -> MinimizeConflictRecursively(d, r)
    [] OTHER -> r

(* The learned clause, and the clauses it subsumes.                        *)
Learned(d) ==
  The({MinimizeConflict(d, r) : r \in
         {IF config.binary_minimization_algorithm = "BINARY_MINIMIZATION_FIRST"
          THEN MinimizeConflictFirst(d, first) ELSE first :
             first \in {ComputeFirstUIPConflict(d, conflict, failing)}}})

ComputeBacktrackLevel(t, literals) ==
  Max({0} \cup {LevelOf(t, l) : l \in ToSet(Tail(literals))})

(* Mistake: a reason is taken to have what it propagates in second place.  *)
MistakeClauseIsUsedAsReason(d, c) ==
  LET l == d.clauses[c][2]
  IN IsAssigned(d.trail, l) /\ ReasonClauseOrNull(d, TrailIndex(d.trail, l)) = c

(* ClauseIsUsedAsReason()                                                  *)
ClauseIsUsedAsReason(d, c) ==
  LET l == d.clauses[c][1]
  IN IsAssigned(d.trail, l) /\ ReasonClauseOrNull(d, TrailIndex(d.trail, l)) = c

(* GetDecisionsFixing(): the entries that fix some literals, which are     *)
(* reasons of one another, with the trail expanded down to the k-th.       *)
WithReason(d, marked, k) ==
  IF k \in marked THEN marked \cup {TrailIndex(d.trail, l) : l \in ToSet(Reason(d, k))} ELSE marked

Fixing(d, literals) ==
  LET marked[k \in 0..Len(d.trail)] ==
        IF k = Len(d.trail) THEN {TrailIndex(d.trail, l) : l \in literals}
        ELSE The({WithReason(d, before, k + 1) : before \in {marked[k + 1]}})
  IN marked[0]

GetDecisionsFixing(d, literals) ==
  {d.trail[i].literal : i \in {i \in Fixing(d, literals) : d.trail[i].type = "DECISION"}}

CouldNotBeTaken == {l \in ToSet(conflict) : IsTrue(trail, l)}

(* Mistake: without the assumption that could not be taken.                *)
MistakeGetLastIncompatibleDecisions ==
  GetDecisionsFixing(Now, ToSet(conflict) \ CouldNotBeTaken)

GetLastIncompatibleDecisions ==
  GetDecisionsFixing(Now, ToSet(conflict) \ CouldNotBeTaken)
    \cup {-l : l \in CouldNotBeTaken}

-----------------------------------------------------------------------------
(* SatSolver: clauses and fixed variables.                                 *)

(* AddProblemClause(), at level zero: nothing to do for one that is true.  *)
AddProblemClause(d, c) ==
  LET literals == Sorted({l \in c : ~IsFalse(d.trail, l)})
  IN IF \E l \in c : IsTrue(d.trail, l) \/ -l \in c THEN d
     ELSE CASE Len(literals) = 1 ->
                 [d EXCEPT !.trail = Enqueued(@, literals[1], 0, "UNIT", 0)]
            [] Len(literals) = 2 -> AddBinaryClause(d, literals[1], literals[2])
            [] OTHER -> Attach(d, literals)

(* RemoveFixedLiteralsAndTestIfTrue(): a watched literal that is assigned  *)
(* is taken to be true, or the other one is.                               *)
IsAlwaysTrue(t, literals) ==
  \/ IsAssigned(t, literals[1]) \/ IsAssigned(t, literals[2])
  \/ \E l \in ToSet(literals) : IsTrue(t, l)

WithoutFixed(d, c) ==
  LET literals == Only(d.clauses[c], {l \in ToSet(d.clauses[c]) : ~IsAssigned(d.trail, l)})
  IN IF IsRemoved(d, c) THEN d
     ELSE IF IsAlwaysTrue(d.trail, d.clauses[c]) THEN Detach(d, {c})
     ELSE IF Len(literals) = 2
     THEN Detach(AddBinaryClause(d, literals[1], literals[2]), {c})
     ELSE [d EXCEPT !.clauses[c] = literals]

AllWithoutFixed(d) ==
  LET q[c \in 0..Len(d.clauses)] == IF c = 0 THEN d
                                    ELSE The({WithoutFixed(before, c) : before \in {q[c - 1]}})
  IN q[Len(d.clauses)]

(* ProcessNewlyFixedVariables()                                            *)
ProcessNewlyFixedVariables(d) ==
  The({RemoveFixedVariables(q, {d.trail[i].literal : i \in 1..Len(d.trail)}) :
         q \in {AllWithoutFixed(d)}})

-----------------------------------------------------------------------------
Propagated == conflict = <<>> /\ binary_index = Len(trail) /\ clause_index = Len(trail)

(* Mistake: what was propagated last is taken to be still on the trail.    *)
MistakeIndicesUpTo(n) ==
  /\ binary_index' = Min({binary_index, n + 1})
  /\ clause_index' = Min({clause_index, n + 1})

(* The propagators' Untrail()                                              *)
IndicesUpTo(n) ==
  /\ binary_index' = Min({binary_index, n})
  /\ clause_index' = Min({clause_index, n})

StillRemovable(d) == {c \in removable : ~IsRemoved(d, c)}

Init ==
  /\ config \in Configurations
  /\ clauses = <<>> /\ removable = {} /\ trail = <<>>
  /\ watchers = [l \in Literals |-> <<>>] /\ implications = [l \in Literals |-> <<>>]
  /\ binary_index = 0 /\ clause_index = 0
  /\ conflict = <<>> /\ failing = 0
  /\ status = "loading" /\ assumptions = <<>> /\ num_processed = 0
  /\ loaded = 0 /\ asked = 0 /\ late = {}
  /\ restarts = 0 /\ clean_ups = 0

(* Propagate(): the implication graph comes first, each time.              *)
PropagateBinary ==
  /\ status \in Running /\ conflict = <<>>
  /\ binary_index < Len(trail)
  /\ \E r \in {Propagations(Now, binary_index)[Cardinality(Variables)]} :
       /\ trail' = r.trail
       /\ binary_index' = r.index
       /\ conflict' = r.conflict
  /\ failing' = 0
  /\ UNCHANGED <<clauses, watchers, implications, removable, clause_index, inputVars,
                 status, assumptions, num_processed, restarts, clean_ups>>

PropagateClauses ==
  /\ status \in Running /\ conflict = <<>>
  /\ binary_index = Len(trail) /\ clause_index < Len(trail)
  /\ clause_index' = clause_index + 1
  /\ \E r \in {PropagateOnFalse(Now, -trail[clause_index + 1].literal)} :
       /\ clauses' = r.clauses /\ watchers' = r.watchers /\ trail' = r.trail
       /\ conflict' = r.conflict /\ failing' = r.failing
  /\ UNCHANGED <<implications, removable, binary_index, inputVars, status, assumptions, num_processed,
                 restarts, clean_ups>>

(* AddProblemClause(), as the model is loaded.                             *)
Load ==
  /\ status = "loading" /\ Propagated
  /\ loaded < Len(config.clauses)
  /\ loaded' = loaded + 1
  /\ LET c == config.clauses[loaded + 1]
     IN IF \A l \in c : IsFalse(trail, l)
        THEN status' = "INFEASIBLE" /\ UNCHANGED database
        ELSE (\E d \in {AddProblemClause(Now, c)} : DatabaseBecomes(d)) /\ UNCHANGED status
  /\ UNCHANGED <<removable, indices, failure, config, asked, late, assumptions,
                 num_processed, restarts, clean_ups>>

(* ResetAndSolveWithGivenAssumptions(): back to level zero first.          *)
Ask ==
  /\ \/ status = "loading" /\ Propagated /\ loaded = Len(config.clauses)
     \/ status \in {"FEASIBLE", "ASSUMPTIONS_UNSAT"}
  /\ asked < Len(config.questions)
  /\ asked' = asked + 1
  /\ status' = "resetting"
  /\ assumptions' = <<>>
  /\ conflict' = <<>> /\ failing' = 0
  /\ trail' = Backtracked(trail, 0)
  /\ IndicesUpTo(Len(trail'))
  /\ UNCHANGED <<clauses, watchers, implications, removable, config, loaded, late,
                 num_processed, restarts, clean_ups>>

(* ... then the assumptions are set and the search starts.                 *)
Start ==
  /\ status = "resetting" /\ Propagated
  /\ status' = "searching"
  /\ assumptions' = config.questions[asked]
  /\ IF assumptions' = <<>>
     THEN UNCHANGED <<database, removable, num_processed>>
     ELSE \E d \in {ProcessNewlyFixedVariables(Now)} :
            /\ DatabaseBecomes(d)
            /\ removable' = StillRemovable(d)
            /\ num_processed' = Len(trail)
  /\ restarts' = 0
  /\ UNCHANGED <<indices, failure, inputVars, clean_ups>>

Searching == status = "searching" /\ Propagated
NeedAssumptions == assumptions # <<>> /\ CurrentLevel(trail) = 0

(* Mistake: they are assumed again at each level zero.                     *)
MistakeStillAssumed(t) == assumptions
StillAssumed(t) == IF CurrentLevel(t) = 0 THEN <<>> ELSE assumptions

(* ReapplyAssumptionsIfNeeded(): all at once at level 1, up to one that is *)
(* false; when they are all fixed they are no assumptions any more.        *)
WithAssumption(r, l) ==
  IF r.conflict # <<>> \/ IsTrue(r.trail, l) THEN r
  ELSE IF IsFalse(r.trail, l) THEN [r EXCEPT !.conflict = <<-l, l>>]
  ELSE [r EXCEPT !.trail = Enqueued(@, l, 1, "DECISION", 0)]

WithAssumptions(t, a) ==
  LET r[i \in 0..Len(a)] ==
        IF i = 0 THEN [trail |-> t, conflict |-> <<>>]
        ELSE The({WithAssumption(before, a[i]) : before \in {r[i - 1]}})
  IN r[Len(a)]

ReapplyAssumptions ==
  /\ Searching /\ NeedAssumptions
  /\ \E r \in {WithAssumptions(trail, assumptions)} :
       /\ trail' = r.trail
       /\ IF r.conflict # <<>>
          THEN /\ status' = "ASSUMPTIONS_UNSAT" /\ conflict' = r.conflict
               /\ UNCHANGED <<assumptions, failing>>
          ELSE /\ assumptions' = StillAssumed(r.trail)
               /\ UNCHANGED <<status, failure>>
  /\ UNCHANGED <<clauses, watchers, implications, removable, indices, inputVars,
                 num_processed, restarts, clean_ups>>

(* "At a leaf?"                                                            *)
Leaf ==
  /\ Searching /\ ~NeedAssumptions
  /\ Len(trail) = Cardinality(Variables)
  /\ status' = "FEASIBLE"
  /\ UNCHANGED <<database, removable, indices, failure, inputVars, assumptions,
                 num_processed, restarts, clean_ups>>

(* EnqueueNewDecision(), after a restart or without.                       *)
EnqueueNewDecision(restart, process, l) ==
  LET assumption_level == IF assumptions = <<>> THEN 0 ELSE 1
      kept == IF restart THEN Backtracked(trail, assumption_level) ELSE trail
      level == CurrentLevel(kept)
  IN
  /\ Searching /\ ~NeedAssumptions
  /\ Len(trail) < Cardinality(Variables)
  /\ restart => restarts < config.max_restarts /\ CurrentLevel(trail) > assumption_level
  /\ process => level = 0 /\ num_processed < Len(kept)
  /\ ~IsAssigned(kept, l)
  /\ restarts' = IF restart THEN restarts + 1 ELSE restarts
  /\ \E d \in {IF process THEN ProcessNewlyFixedVariables([Now EXCEPT !.trail = kept])
                           ELSE [Now EXCEPT !.trail = kept]} :
       /\ DatabaseBecomes([d EXCEPT !.trail = Enqueued(@, l, level + 1, "DECISION", 0)])
       /\ removable' = StillRemovable(d)
  /\ num_processed' = IF process THEN Len(kept) ELSE num_processed
  /\ IndicesUpTo(Len(kept))
  /\ UNCHANGED <<failure, inputVars, status, assumptions, clean_ups>>

(* CleanClauseDatabaseIfNeeded() forgets some of the clauses it may forget.*)
MayBeForgotten(d) == {c \in StillRemovable(d) : ~ClauseIsUsedAsReason(d, c)}

(* AddLearnedClauseAndEnqueueUnitPropagation().  A redundant clause is     *)
(* removable, as one above clause_cleanup_lbd_bound is.                    *)
LearnClause(d, literals, is_redundant) ==
  \/ /\ Len(literals) = 1
     /\ DatabaseBecomes([d EXCEPT !.trail = Enqueued(@, literals[1], 0, "UNIT", 0)])
     /\ removable' = StillRemovable(d)
     /\ UNCHANGED clean_ups
  \/ /\ Len(literals) = 2
     /\ \E n \in {AddBinaryClause(d, literals[1], literals[2])} : DatabaseBecomes(n)
     /\ removable' = StillRemovable(d)
     /\ UNCHANGED clean_ups
  \/ /\ Len(literals) > 2
     /\ \E forgotten \in SUBSET MayBeForgotten(d) :
          /\ forgotten # {} => clean_ups < config.max_clean_ups
          /\ clean_ups' = IF forgotten # {} THEN clean_ups + 1 ELSE clean_ups
          /\ \E n \in {Attach(Detach(d, forgotten), literals)} : DatabaseBecomes(n)
          /\ removable' = (StillRemovable(d) \ forgotten)
                             \cup (IF is_redundant THEN {Len(clauses')} ELSE {})

(* Mistake: whatever is learned from clauses of the problem is redundant.  *)
MistakeIsRedundant(subsumed) == TRUE

(* A clause that subsumes one of the problem takes its place.              *)
IsRedundant(subsumed) == subsumed \subseteq removable

(* ProcessCurrentConflict() of a conflict above the level of assumptions.  *)
BackjumpAndLearn ==
  \E r \in {Learned(Now)} :
    LET level == ComputeBacktrackLevel(trail, r.conflict)
        subsumed == IF config.subsumption_during_conflict_analysis THEN r.subsumed ELSE {}
        kept == Backtracked(trail, level)
    IN /\ \E d \in {Detach([Now EXCEPT !.trail = kept], subsumed)} :
            LearnClause(d, r.conflict, IsRedundant(subsumed))
       /\ IndicesUpTo(Len(kept))
       /\ conflict' = <<>> /\ failing' = 0
       /\ UNCHANGED status

ProcessCurrentConflict ==
  /\ status \in Running /\ conflict # <<>>
  /\ LET highest == Max({LevelOf(trail, l) : l \in ToSet(conflict)})
     IN IF highest = 0 \/ (highest = 1 /\ assumptions # <<>>)
        THEN /\ status' = IF highest = 0 THEN "INFEASIBLE" ELSE "ASSUMPTIONS_UNSAT"
             /\ UNCHANGED <<database, removable, indices, failure, clean_ups>>
        ELSE BackjumpAndLearn
  /\ UNCHANGED <<inputVars, assumptions, num_processed, restarts>>

(* At some level below, c would have been false or have propagated: there  *)
(* is nothing to do it again after a backjump to that level.               *)
LateFor(c) ==
  \E level \in 0..CurrentLevel(trail) - 1 :
    LET t == Backtracked(trail, level)
    IN /\ \A l \in c : ~IsTrue(t, l)
       /\ Cardinality({l \in c : ~IsFalse(t, l)}) <= 1

(* AddClauseDuringSearch(), of a clause that is not false, which the       *)
(* choice of a branch calls for the literals it creates.                   *)
AddClauseDuringSearch(c) ==
  /\ Searching /\ ~NeedAssumptions
  /\ c \notin late
  /\ \E l \in c : ~IsFalse(trail, l)
  /\ config.any_level \/ ~LateFor(c)
  /\ late' = late \cup {c}
  /\ \E d \in {IF CurrentLevel(trail) = 0 THEN AddProblemClause(Now, c)
                ELSE IF Cardinality(c) = 2
                THEN AddBinaryClause(Now, Sorted(c)[1], Sorted(c)[2])
                ELSE Attach(Now, Sorted(c))} : DatabaseBecomes(d)
  /\ UNCHANGED <<removable, indices, failure, config, loaded, asked, status, assumptions,
                 num_processed, restarts, clean_ups>>

Next ==
  \/ PropagateBinary \/ PropagateClauses
  \/ Load \/ Ask \/ Start
  \/ ReapplyAssumptions \/ Leaf
  \/ \E restart, process \in BOOLEAN, l \in config.branches : EnqueueNewDecision(restart, process, l)
  \/ ProcessCurrentConflict
  \/ \E c \in config.late : AddClauseDuringSearch(c)

Spec == Init /\ [][Next]_vars
FairSpec == Spec /\ WF_vars(Next)

-----------------------------------------------------------------------------
Problem == {config.clauses[i] : i \in 1..loaded} \cup late

EntryOK(e) ==
  /\ e.literal \in Literals /\ e.level \in 0..Cardinality(Variables)
  /\ \/ e.type \in {"DECISION", "UNIT"} /\ e.by = 0
     \/ e.type = "BINARY" /\ e.by \in Literals
     \/ e.type = "CLAUSE" /\ e.by \in (IF e.level = 0 THEN 1..Len(clauses) ELSE Attached(Now))

(* Types; a clause is watched by its first two literals, once each.        *)
TypeOK ==
  /\ clauses \in Seq(Seq(Literals)) /\ removable \subseteq Attached(Now)
  /\ \A i \in 1..Len(trail) : EntryOK(trail[i])
  /\ binary_index \in 0..Len(trail) /\ clause_index \in 0..Len(trail)
  /\ status \in Running \cup {"FEASIBLE", "INFEASIBLE", "ASSUMPTIONS_UNSAT"}
  /\ \A l \in Literals :
       /\ implications[l] \in Seq(Literals)
       /\ \A i, j \in 1..Len(watchers[l]) : watchers[l][i].clause = watchers[l][j].clause => i = j
       /\ \A c \in 1..Len(clauses) :
            (\E i \in 1..Len(watchers[l]) : watchers[l][i].clause = c)
              <=> c \in Attached(Now) /\ l \in {clauses[c][1], clauses[c][2]}

(* All the solver knows: clauses of any size, with those of size 1 on the  *)
(* trail at level zero.                                                    *)
Database ==
  {ToSet(clauses[c]) : c \in Attached(Now)}
    \cup (UNION {{{-l, m} : m \in ToSet(implications[l])} : l \in Literals})
    \cup {{trail[i].literal} : i \in {i \in 1..Len(trail) : trail[i].level = 0}}

Assignments == {{IF s[v] THEN v ELSE -v : v \in Variables} : s \in [Variables -> BOOLEAN]}
SolutionsOf(set) == {s \in Assignments : \A c \in set : c \cap s # {}}

(* The database has the solutions of the problem: what is learned follows, *)
(* and whatever is subsumed, forgotten or simplified away still does.      *)
DatabaseIsEquivalent ==
  status # "INFEASIBLE" => SolutionsOf(Database) = SolutionsOf(Problem)

(* When the propagators are done no clause is false or could propagate: the*)
(* watches are right again after any backjump.                             *)
NothingIsLeftToPropagate ==
  Propagated /\ status # "INFEASIBLE" =>
    \A c \in Database :
      \/ \E l \in c : IsTrue(trail, l)
      \/ Cardinality({l \in c : ~IsFalse(trail, l)}) > 1

(* A literal is explained by a clause that is there, of which it comes     *)
(* first and the others were false before.                                 *)
ReasonsExplainTheTrail ==
  \A i \in 1..Len(trail) :
    LET Before(l) == \E j \in 1..i - 1 : trail[j].literal = -l
    IN /\ \A l \in ToSet(Reason(Now, i)) : Before(l)
       /\ trail[i].type = "CLAUSE" /\ trail[i].level > 0 =>
            trail[i].by \in Attached(Now) /\ trail[i].literal = Head(clauses[trail[i].by])

(* What is learned tells something new: no clause of the database was part *)
(* of it.                                                                  *)
LearnedClausesAreNew ==
  [][conflict # <<>> /\ conflict' = <<>> /\ status' = status =>
       \A c \in Database' \ Database : \A b \in Database : ~(b \subseteq c)]_vars

(* The answers are those that SatOracle allows.                            *)
Oracle == INSTANCE SatOracle WITH
  problem <- Problem,
  assumptions <- IF asked = 0 THEN {} ELSE ToSet(config.questions[asked]),
  answer <- CASE status = "loading" -> "none"
              [] status \in {"resetting", "searching"} -> "pending"
              [] OTHER -> status,
  witness <- CASE status = "FEASIBLE" -> {trail[i].literal : i \in 1..Len(trail)}
               [] status = "ASSUMPTIONS_UNSAT" -> GetLastIncompatibleDecisions
               [] OTHER -> {}
AnswersAreRight == Oracle!Spec

(* Every question is answered: a search does not learn forever.            *)
EveryQuestionIsAnswered == status \in Running ~> status \notin Running
=============================================================================
