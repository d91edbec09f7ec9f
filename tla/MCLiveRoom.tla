------------------------------ MODULE MCLiveRoom ------------------------------
(* Instances of LiveRoom: a teacher, a student with two tabs. *)
EXTENDS LiveRoom, TLC

CONSTANTS t, s1, s2, teacher, student

MCUserOf == t :> teacher @@ s1 :> student @@ s2 :> student

===============================================================================
