--------------------------- MODULE MCSharedBounds ---------------------------
(* Small problems for SharedBounds, and searches of them.                  *)
EXTENDS SharedBounds

CONSTANTS w1, w2, l1

Box(last) == [v \in Vars |-> Interval(0, last[v])]
Problem(box0, cost) == [domain |-> box0, feasible |-> DOMAIN cost, cost |-> cost]

(* Two variables that are alike and must not both be 0.  Two solutions are *)
(* of least cost.                                                          *)
Binary == Problem(Box(<<1, 1>>), [s \in {<<0, 1>>, <<1, 0>>, <<1, 1>>} |-> s[1] + s[2]])
Alike == Problem(Box(<<2, 2>>),
                 [s \in {<<0, 1>>, <<1, 0>>, <<1, 1>>, <<2, 2>>} |-> s[1] + s[2]])

(* What the first variable may be depends on the second.                   *)
Linked == Problem(Box(<<2, 1>>),
                  (<<1, 0>> :> 6) @@ (<<2, 1>> :> 5) @@ (<<0, 1>> :> 3))

Search == [problem |-> Binary, full |-> {w1, w2}, lns |-> {},
           interleave_search |-> FALSE, orbits |-> {}]
Neighborhoods == [Search EXCEPT !.problem = Alike, !.full = {w1}, !.lns = {l1},
                                !.interleave_search = TRUE]

(* Neighborhoods in an interleaved search, with and without symmetry; two  *)
(* workers that exchange bounds at any time, with and without symmetry.    *)
Searches == {Neighborhoods, [Neighborhoods EXCEPT !.orbits = {{1, 2}}],
             Search, [Search EXCEPT !.orbits = {{1, 2}}]}

(* A neighborhood and the main thread at the same time.                    *)
ParallelSearches ==
  {[Neighborhoods EXCEPT !.problem = Linked, !.interleave_search = FALSE]}
=============================================================================
