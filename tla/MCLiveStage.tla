----------------------------- MODULE MCLiveStage -----------------------------
(* Instances of LiveStage: student a has two tabs, student b has one. *)
EXTENDS LiveStage, TLC

CONSTANTS a1, a2, b1, a, b

MCStudentOf == [c \in Tabs |-> IF c = b1 THEN b ELSE a]

Symmetry == Permutations(Tokens) \cup Permutations(Teachers) \cup Permutations({a1, a2})

===============================================================================
