------------------------------ MODULE LiveClass ------------------------------
(***************************************************************************)
(* What the platform promises of class sessions, whatever requests race:   *)
(* a session goes through its life cycle in single steps, a course and a   *)
(* teacher have one class on air at a time, and the minutes of a class are *)
(* taken from the plan of its organisation in the very step that starts    *)
(* it. There are no requests, locks, credentials or loaded rows here;      *)
(* LiveSession, which has them, implements this specification.             *)
(***************************************************************************)
EXTENDS Integers, Functions

CONSTANTS Sessions, Planned, Courses, Teachers, Tenants,
          CourseOf, TeacherOf, TenantOf, MinuteLimit

VARIABLES
  status,  \* the life cycle of each session
  held     \* minutes of the plan that each class on air holds this month

vars == <<status, held>>

Init ==
  /\ status = [s \in Sessions |-> IF s \in Planned THEN "scheduled" ELSE "none"]
  /\ held = [s \in Sessions |-> 0]

Become(s, new) == status' = [status EXCEPT ![s] = new]
GiveBack(s) == held' = [held EXCEPT ![s] = 0]

\* What the classes of an organisation hold of its plan, if each holds h.
MinutesOf(t, h) == SumFunctionOnSet(h, {s \in Sessions : TenantOf[CourseOf[s]] = t})

Schedule(s) ==
  /\ status[s] = "none"
  /\ Become(s, "scheduled")
  /\ UNCHANGED held

\* Nobody else of the course or of the teacher is on air, and what the class
\* takes is left in the plan.
Start(s) ==
  /\ status[s] = "scheduled"
  /\ \A o \in Sessions \ {s} : status[o] = "live" =>
       CourseOf[o] # CourseOf[s] /\ TeacherOf[o] # TeacherOf[s]
  /\ Become(s, "live")
  /\ held' = [held EXCEPT ![s] = held'[s]] /\ held'[s] \in Nat
  /\ LET t == TenantOf[CourseOf[s]] IN MinuteLimit[t] >= 0 => MinutesOf(t, held') <= MinuteLimit[t]

Finish(s) == status[s] = "live" /\ Become(s, "ended") /\ GiveBack(s)

Cancel(s) ==
  /\ status[s] \in {"scheduled", "live", "ended"}
  /\ Become(s, "cancelled") /\ GiveBack(s)

Remove(s) ==
  /\ status[s] \notin {"none", "deleted"}
  /\ Become(s, "deleted") /\ GiveBack(s)

\* Classes that started last month no longer count.
NewMonth == held' = [s \in Sessions |-> 0] /\ UNCHANGED status

Next ==
  \/ \E s \in Sessions : \/ Schedule(s) \/ Start(s) \/ Finish(s)
                         \/ Cancel(s) \/ Remove(s)
  \/ NewMonth

Spec == Init /\ [][Next]_vars

==============================================================================
