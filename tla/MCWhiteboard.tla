----------------------------- MODULE MCWhiteboard -----------------------------
(* Instances of Whiteboard: a teacher and a student. *)
EXTENDS Whiteboard, TLC

CONSTANTS t, s, a1, b1

MCAuthorOf == a1 :> t @@ b1 :> s

===============================================================================
