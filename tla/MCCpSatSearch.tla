--------------------------- MODULE MCCpSatSearch ---------------------------
(* Small searches: two workers, and solutions with the objectives 2 and 4. *)
EXTENDS CpSatSearch

CONSTANTS w1, w2

MCObj == [s \in Solutions |-> IF s = 1 THEN 4 ELSE 2]

Base == [feasible |-> {1, 2}, has_objective |-> TRUE, enumerate_all |-> FALSE,
         offset |-> 0, absolute_gap_limit |-> 0, relative_gap_limit |-> <<0, 1>>,
         workers |-> {w1, w2}, full |-> {w1, w2}, first_solution |-> {},
         interleave_search |-> FALSE,
         always_synchronize |-> TRUE, hinted |-> {}]
Interleaved == [Base EXCEPT !.interleave_search = TRUE,
                            !.always_synchronize = FALSE]

(* What the safety properties are checked on: with a hint, a gap limit, no *)
(* solution at all, no objective, all solutions wanted; then interleaved.  *)
MCSearches ==
  { [Base EXCEPT !.hinted = {1}],
    [Base EXCEPT !.absolute_gap_limit = 1],
    [Base EXCEPT !.feasible = {}],
    [Base EXCEPT !.has_objective = FALSE],
    [Base EXCEPT !.has_objective = FALSE, !.enumerate_all = TRUE,
                 !.workers = {w1}, !.full = {w1}],
    [Base EXCEPT !.full = {w1}],
    [Base EXCEPT !.first_solution = {w2}],
    [Interleaved EXCEPT !.full = {w1}],
    [Interleaved EXCEPT !.relative_gap_limit = <<1, 2>>],
    [Interleaved EXCEPT !.has_objective = FALSE] }

(* What termination is checked on.                                         *)
MCShortSearches ==
  { [Base EXCEPT !.feasible = {2}, !.full = {w1}],
    [Base EXCEPT !.feasible = {2}, !.absolute_gap_limit = 1],
    [Interleaved EXCEPT !.feasible = {2}],
    [Base EXCEPT !.feasible = {}, !.has_objective = FALSE] }

(* A hint with the interleaved search.                                     *)
MCHinted == {[Interleaved EXCEPT !.hinted = {1}]}
=============================================================================
