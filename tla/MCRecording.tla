------------------------------ MODULE MCRecording ------------------------------
(* Instances of Recording: one or two sessions, one or two replicas, and a  *)
(* plan that has room for one of the two recordings.                        *)
EXTENDS Recording, TLC

MCSize == [r \in Recordings |-> 1]
MCUnlimited == -1
MCSymmetry == Permutations(Recordings) \cup Permutations(Workers)
================================================================================
