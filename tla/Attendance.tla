------------------------------ MODULE Attendance ------------------------------
(***************************************************************************)
(* Attendance of one student in one live class: the row of the attendance  *)
(* table that the student's sockets open and close, while the class goes   *)
(* live and is ended by the teacher's end-class or by the publisher sweep, *)
(* or is cancelled. (PATCH can put it back to scheduled as well, which     *)
(* LiveSession shows to be outside the documented life cycle.)             *)
(*                                                                         *)
(* Each action is one database statement or one event of a socket. Between *)
(* the commit that ends a class, the finalisation of its attendance and    *)
(* the broadcast to its sockets, anything else may run. first_joined_at,   *)
(* last_left_at and reconnect_count are only displayed and are left out.   *)
(***************************************************************************)
EXTENDS Integers

CONSTANTS
  Sockets,  \* connections of the student: tabs, and reconnections of each
  MaxTime   \* bound on the clock

ASSUME AttendanceAssumption == MaxTime \in Nat

VARIABLES
  status,      \* live_sessions.status
  ended,       \* live_sessions.actual_ended_at
  attendance,  \* the row of the student; closed and empty if there is none
  socket,      \* where run_socket stands, per connection
  told,        \* the connection's subscription holds a SessionEnded
  closer,      \* where the end-class handler and the sweep stand
  now,
  present,     \* history: time with at least one connection in the class
  overlapped,  \* history: two connections were in the class at once
  faults       \* history: whether the class had ended when a statement failed
               \* or the backend died, for each time that happened

vars == <<status, ended, attendance, socket, told, closer, now, present, overlapped,
          faults>>
session == <<status, ended>>
history == <<present, overlapped, faults>>

Null == -1
Larger(x, y) == IF x > y THEN x ELSE y
Statuses == {"scheduled", "live", "ended", "cancelled"}
Row == [open : BOOLEAN, joined : Nat, total : Nat]
Pcs == {"none", "gated", "subscribed", "in", "leaving"}

NotOver == status \in {"scheduled", "live"}

\* The connections whose time counts: joined, and their leave not written yet.
Present == {c \in Sockets : socket[c] \in {"in", "leaving"}}

Init ==
  /\ status = "scheduled" /\ ended = Null
  /\ attendance = [open |-> FALSE, joined |-> 0, total |-> 0]
  /\ socket = [c \in Sockets |-> "none"]
  /\ told = [c \in Sockets |-> FALSE]
  /\ closer = [k \in {"end_class", "sweep"} |-> "idle"]
  /\ now = 0 /\ present = 0 /\ overlapped = FALSE /\ faults = {}

Goto(c, pc) == socket' = [socket EXCEPT ![c] = pc]

------------------------------------------------------------------------------
(* A connection.                                                           *)

\* socket_gate reads the status, before the connection is upgraded: students
\* may wait in a class that has not started.
Gate(c) ==
  /\ socket[c] = "none" /\ NotOver
  /\ Goto(c, "gated")
  /\ UNCHANGED <<session, attendance, told, closer, now, history>>

\* From here on the connection hears the room's broadcasts; if the broker
\* cannot be reached, it is closed.
Subscribe(c) ==
  /\ socket[c] = "gated"
  /\ Goto(c, "subscribed") \/ Goto(c, "none")
  /\ UNCHANGED <<session, attendance, told, closer, now, history>>

\* The connection enters its message loop once the join is written, or failed.
Joins(c) ==
  /\ socket[c] = "subscribed"
  /\ Goto(c, "in")
  /\ overlapped' = (overlapped \/ Present # {})
  /\ UNCHANGED <<session, told, closer, now, present>>

\* Mutant: a row that is opened again keeps the start of its last segment.
RecordJoinKeepsStart(c) ==
  /\ Joins(c)
  /\ attendance' = IF attendance.open \/ attendance.total > 0
                   THEN [attendance EXCEPT !.open = TRUE]
                   ELSE [attendance EXCEPT !.open = TRUE, !.joined = now]
  /\ UNCHANGED faults

\* record_join: an open row is left alone, a closed one starts a new segment.
RecordJoin(c) ==
  /\ Joins(c)
  /\ UNCHANGED faults
  /\ attendance' = IF attendance.open THEN attendance
                   ELSE [open |-> TRUE, joined |-> now, total |-> attendance.total]

\* It fails, and the class goes on without it.
JoinNotRecorded(c) ==
  /\ Joins(c)
  /\ faults' = faults \cup {status = "ended"}
  /\ UNCHANGED attendance

\* The connection closes, or receives the SessionEnded it was sent.
Disconnect(c) ==
  /\ socket[c] = "in"
  /\ Goto(c, "leaving")
  /\ UNCHANGED <<session, attendance, told, closer, now, history>>

HearSessionEnded(c) ==
  /\ socket[c] = "in" /\ told[c]
  /\ Goto(c, "leaving")
  /\ UNCHANGED <<session, attendance, told, closer, now, history>>

\* Mutant: the UPDATE does not ask for an open row.
CloseAnyRow(t) ==
  attendance' = [attendance EXCEPT !.open = FALSE,
                                   !.total = @ + Larger(0, t - attendance.joined)]

\* Only an open row is closed: its segment, up to t, is added to the total.
Close(t) ==
  attendance' =
    IF attendance.open
    THEN [open |-> FALSE, joined |-> attendance.joined,
          total |-> attendance.total + Larger(0, t - attendance.joined)]
    ELSE attendance

\* run_socket returns, and its subscription is dropped.
Gone(c) == Goto(c, "none") /\ told' = [told EXCEPT ![c] = FALSE]

\* Mutant: the row is closed, and its segment forgotten.
LeaveWithoutAccruing(c) ==
  /\ socket[c] = "leaving"
  /\ Gone(c)
  /\ attendance' = [attendance EXCEPT !.open = FALSE]
  /\ UNCHANGED <<session, closer, now, history>>

\* record_leave.
RecordLeave(c) ==
  /\ socket[c] = "leaving"
  /\ Gone(c)
  /\ Close(now)
  /\ UNCHANGED <<session, closer, now, history>>

LeaveNotRecorded(c) ==
  /\ socket[c] = "leaving"
  /\ Gone(c)
  /\ faults' = faults \cup {status = "ended"}
  /\ UNCHANGED <<session, attendance, closer, now, present, overlapped>>

------------------------------------------------------------------------------
(* The class.                                                              *)

GoLive ==
  /\ status = "scheduled"
  /\ status' = "live"
  /\ UNCHANGED <<ended, attendance, socket, told, closer, now, history>>

\* POST /end-class commits; it may be repeated on a class that has ended.
EndClass ==
  /\ closer["end_class"] = "idle" /\ status \in {"live", "ended"}
  /\ status' = "ended"
  /\ ended' = IF ended = Null THEN now ELSE ended
  /\ closer' = [closer EXCEPT !["end_class"] = "finalize"]
  /\ UNCHANGED <<attendance, socket, told, now, history>>

\* The sweep found the publisher gone.
SweepEnd ==
  /\ closer["sweep"] = "idle" /\ status = "live"
  /\ status' = "ended" /\ ended' = now
  /\ closer' = [closer EXCEPT !["sweep"] = "finalize"]
  /\ UNCHANGED <<attendance, socket, told, now, history>>

\* PATCH {status: "cancelled"} touches nothing but the status.
Cancel ==
  /\ status # "cancelled"
  /\ status' = "cancelled"
  /\ UNCHANGED <<ended, attendance, socket, told, closer, now, history>>

\* Mutant: nothing is reconciled when a class ends.
FinalizeNothing(k) ==
  /\ closer[k] = "finalize"
  /\ closer' = [closer EXCEPT ![k] = IF k = "end_class" THEN "publish" ELSE "idle"]
  /\ UNCHANGED <<session, attendance, socket, told, now, history>>

\* finalize_open_for_session: end-class passes the end of the class, the sweep
\* nothing, which stands for now.
Finalize(k) ==
  /\ closer[k] = "finalize"
  /\ Close(IF k = "end_class" THEN ended ELSE now)
  /\ closer' = [closer EXCEPT ![k] = IF k = "end_class" THEN "publish" ELSE "idle"]
  /\ UNCHANGED <<session, socket, told, now, history>>

\* A failure is logged, and the request goes on.
FinalizeFails(k) ==
  /\ closer[k] = "finalize"
  /\ closer' = [closer EXCEPT ![k] = IF k = "end_class" THEN "publish" ELSE "idle"]
  /\ faults' = faults \cup {status = "ended"}
  /\ UNCHANGED <<session, attendance, socket, told, now, present, overlapped>>

\* end-class tells every subscribed connection; the sweep tells nobody.
PublishSessionEnded ==
  /\ closer["end_class"] = "publish"
  /\ told' = [c \in Sockets |-> told[c] \/ socket[c] \in {"subscribed", "in"}]
  /\ closer' = [closer EXCEPT !["end_class"] = "idle"]
  /\ UNCHANGED <<session, attendance, socket, now, history>>

\* The backend dies, with its sockets and whatever was under way.
Crash ==
  /\ socket' = [c \in Sockets |-> "none"]
  /\ told' = [c \in Sockets |-> FALSE]
  /\ closer' = [k \in {"end_class", "sweep"} |-> "idle"]
  /\ faults' = faults \cup {status = "ended"}
  /\ UNCHANGED <<session, attendance, now, present, overlapped>>

Tick ==
  /\ now < MaxTime
  /\ now' = now + 1
  /\ present' = IF Present = {} THEN present ELSE present + 1
  /\ UNCHANGED <<session, attendance, socket, told, closer, overlapped,
                 faults>>

Connection(c) ==
  \/ Gate(c) \/ Subscribe(c) \/ RecordJoin(c) \/ JoinNotRecorded(c)
  \/ Disconnect(c) \/ HearSessionEnded(c) \/ RecordLeave(c) \/ LeaveNotRecorded(c)

Next ==
  \/ \E c \in Sockets : Connection(c)
  \/ GoLive \/ EndClass \/ SweepEnd \/ Cancel \/ PublishSessionEnded \/ Crash \/ Tick
  \/ \E k \in {"end_class", "sweep"} : Finalize(k) \/ FinalizeFails(k)

Spec == Init /\ [][Next]_vars

\* run_socket and the closers run on until they are done. Nothing is assumed
\* of the student, the teacher, the sweep or the clock.
Fairness ==
  /\ \A c \in Sockets : /\ WF_vars(Subscribe(c)) /\ WF_vars(RecordJoin(c))
                        /\ WF_vars(HearSessionEnded(c)) /\ WF_vars(RecordLeave(c))
  /\ \A k \in {"end_class", "sweep"} : WF_vars(Finalize(k))
  /\ WF_vars(PublishSessionEnded)

FairSpec == Spec /\ Fairness

------------------------------------------------------------------------------
TypeOK ==
  /\ status \in Statuses
  /\ ended \in Nat \cup {Null}
  /\ attendance \in Row
  /\ socket \in [Sockets -> Pcs]
  /\ told \in [Sockets -> BOOLEAN]
  /\ closer \in [{"end_class", "sweep"} -> {"idle", "finalize", "publish"}]
  /\ now \in Nat /\ present \in Nat
  /\ overlapped \in BOOLEAN /\ faults \subseteq BOOLEAN

\* What the row credits, counting the open segment up to now.
Credit == attendance.total + (IF attendance.open THEN now - attendance.joined ELSE 0)

\* No stretch of time is credited twice, whatever leaves, finalisations of the
\* two closers, failed statements and crashes come together.
CreditedOnce == Credit <= now

\* Unless something failed, only time with a connection in the class counts,
\* however tabs, reconnections and finalisations overlap.
CreditedWithinPresence == faults = {} => Credit <= present

\* As long as a student uses one connection at a time, every moment in a class
\* that is not over is credited, across any number of reconnections.
NoPresenceLost ==
  NotOver /\ ~overlapped /\ faults = {} => Credit = present

\* A row that a crash or a failed leave left open is closed once the class has
\* ended, unless the finalisation itself is lost. (A connection that was let
\* in before the end may open it again.)
RowIsClosedInTheEnd ==
  (status = "ended" /\ Present = {}) ~>
    (~attendance.open \/ Present # {} \/ status = "cancelled" \/ TRUE \in faults)

===============================================================================
