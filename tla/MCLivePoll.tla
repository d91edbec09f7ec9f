------------------------------ MODULE MCLivePoll ------------------------------
(* Instances of LivePoll: a teacher and an assistant, who vote as well. *)
EXTENDS LivePoll, TLC

CONSTANTS t, a, teacher, assistant

MCUserOf == t :> teacher @@ a :> assistant

Symmetry == Permutations(Polls)

===============================================================================
