----------------------------- MODULE MCCoursework -----------------------------
(* Instances of Coursework: a quiz whose first questions are worth a point and *)
(* whose second list is empty.                                                 *)
EXTENDS Coursework, TLC

MCSize == [v \in 1..Versions |-> IF v = 1 THEN 1 ELSE 0]

MCSettings ==
  {[published |-> TRUE, graded |-> TRUE, limited |-> TRUE],
   [published |-> TRUE, graded |-> FALSE, limited |-> FALSE],
   [published |-> FALSE, graded |-> TRUE, limited |-> FALSE]}

Symmetry == Permutations(Requests) \cup Permutations(Attempts)

===============================================================================
