----------------------------- MODULE BruteForce -----------------------------
(***************************************************************************)
(* What a fraud search promises, whatever index structure it uses: for     *)
(* the index and the query it is given it answers, once, with the number   *)
(* of fraud labels among the five exact nearest neighbours.                *)
(***************************************************************************)
EXTENDS IvfIndex

CONSTANT None   \* no answer yet

VARIABLES
  problem,   \* the <<index, query>> pair searched
  answer

vars == <<problem, answer>>

Init ==
  /\ WellFormed(problem[1]) /\ problem[2] \in Points
  /\ answer = None

Answer ==
  /\ answer = None
  /\ answer' = BruteForceFrauds(problem[1], problem[2])
  /\ UNCHANGED problem

Next == Answer

Spec == Init /\ [][Next]_vars /\ WF_vars(Answer)
=============================================================================
