----------------------------- MODULE SatOracle -----------------------------
(***************************************************************************)
(* What sat_solver.h promises of the incremental SatSolver: clauses are    *)
(* added, questions are asked, and each question gets one answer, right for*)
(* the clauses added so far.  Literals are integers, -l the negation of l. *)
(***************************************************************************)
EXTENDS Integers

CONSTANT Variables

VARIABLES
  problem,      \* the clauses added so far
  assumptions,  \* of the question asked last
  answer,       \* its answer, or why there is none
  witness       \* the solution found, or the assumptions that clash

vars == <<problem, assumptions, answer, witness>>

Literals == Variables \cup {-v : v \in Variables}
Answers == {"FEASIBLE", "INFEASIBLE", "ASSUMPTIONS_UNSAT"}

Satisfies(solution, clauses) == \A c \in clauses : c \cap solution # {}
Units(literals) == {{l} : l \in literals}

Solutions == {{IF s[v] THEN v ELSE -v : v \in Variables} : s \in [Variables -> BOOLEAN]}
Satisfiable(clauses) == \E s \in Solutions : Satisfies(s, clauses)

Init ==
  /\ problem = {} /\ assumptions = {}
  /\ answer = "none" /\ witness = {}

(* Adding a clause may be enough to find that the problem is infeasible.   *)
AddClause ==
  /\ answer # "INFEASIBLE"
  /\ \E c \in SUBSET Literals : problem' = problem \cup {c}
  /\ \/ answer' = answer
     \/ answer' = "INFEASIBLE" /\ ~Satisfiable(problem')
  /\ UNCHANGED <<assumptions, witness>>

Ask ==
  /\ answer # "INFEASIBLE"
  /\ assumptions' \subseteq Literals
  /\ answer' = "pending" /\ witness' = {}
  /\ UNCHANGED problem

(* A solution of the clauses, in which the assumptions hold.               *)
AnswerFeasible ==
  /\ answer = "pending"
  /\ witness' \in Solutions
  /\ Satisfies(witness', problem \cup Units(assumptions))
  /\ answer' = "FEASIBLE"
  /\ UNCHANGED <<problem, assumptions>>

(* "INFEASIBLE is reserved for the case where the model is proven to be    *)
(* unsat without any assumptions."                                         *)
AnswerInfeasible ==
  /\ answer \in {"none", "pending"}
  /\ ~Satisfiable(problem)
  /\ answer' = "INFEASIBLE"
  /\ UNCHANGED <<problem, assumptions, witness>>

(* "... a core of unsat assumptions", a part of those that were given.     *)
AnswerAssumptionsUnsat ==
  /\ answer = "pending"
  /\ witness' \subseteq assumptions
  /\ ~Satisfiable(problem \cup Units(witness'))
  /\ answer' = "ASSUMPTIONS_UNSAT"
  /\ UNCHANGED <<problem, assumptions>>

Next ==
  \/ AddClause
  \/ Ask
  \/ AnswerFeasible
  \/ AnswerInfeasible
  \/ AnswerAssumptionsUnsat

Spec == Init /\ [][Next]_vars
=============================================================================
