-------------------------- MODULE MCSharedClauses --------------------------
(* Two workers that search to the end and one that may leave early.        *)
EXTENDS SharedClauses, TLC

CONSTANTS w1, w2, f1, c1, c2

(* Bound: binary and glue clauses meet in the indices of a worker, not in  *)
(* their contents: when both are shared one binary clause is enough.       *)
FewBinaryClauses ==
  share_glue_clauses => \A w \in Workers : derived'[w] \subseteq {c1}

BoundedSpec == Init /\ [][Next /\ FewBinaryClauses]_vars /\ Fairness
=============================================================================
