----------------------------- MODULE MCAttendance -----------------------------
(* Instances of Attendance: two connections of one student. *)
EXTENDS Attendance, TLC

===============================================================================
