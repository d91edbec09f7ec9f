--------------------------- MODULE Attendance_proofs ---------------------------
(***************************************************************************)
(* The accounting of Attendance, for any number of connections and without *)
(* a bound on the clock: a moment is credited at most once, in the absence *)
(* of failures only with a connection in the class, and all of them if the *)
(* student uses one connection at a time.                                  *)
(***************************************************************************)
EXTENDS Attendance, TLAPS

\* A segment starts in the past, a class ends in the past, and nothing is
\* finalised while the class is still on.
Times ==
  /\ attendance.joined <= now
  /\ ended <= now
  /\ \A k \in {"end_class", "sweep"} : closer[k] = "finalize" => ~NotOver

\* Without failures an open row means a connection in the class, and as long as
\* connections do not overlap there is at most one, with an open row until the
\* class ends.
Rows ==
  /\ faults = {} /\ attendance.open => Present # {}
  /\ ~overlapped => \A c, d \in Present : c = d
  /\ NotOver /\ ~overlapped /\ faults = {} /\ Present # {} => attendance.open

Inv ==
  /\ TypeOK /\ Times /\ Rows
  /\ CreditedOnce /\ CreditedWithinPresence /\ NoPresenceLost

\* Closing a row at a past moment adds no more than the open segment.
LEMMA Closing ==
  ASSUME TypeOK, NEW t \in Int, t <= now, Close(t)
  PROVE  /\ attendance' \in Row
         /\ ~attendance'.open
         /\ attendance'.joined = attendance.joined
         /\ attendance.joined <= now => attendance'.total <= Credit
         /\ t = now /\ attendance.joined <= now => attendance'.total = Credit
<1>1. attendance \in Row /\ now \in Nat
  BY DEF TypeOK
<1>2. CASE attendance.open
  <2>1. attendance' = [open |-> FALSE, joined |-> attendance.joined,
                       total |-> attendance.total + Larger(0, t - attendance.joined)]
    BY <1>2 DEF Close
  <2>2. attendance.joined \in Nat /\ attendance.total \in Nat
    BY <1>1 DEF Row
  <2>3. Larger(0, t - attendance.joined) \in Nat
    BY <2>2 DEF Larger
  <2>4. /\ attendance'.open = FALSE
        /\ attendance'.joined = attendance.joined
        /\ attendance'.total = attendance.total + Larger(0, t - attendance.joined)
    BY <2>1, <1>1 DEF Row
  <2>5. attendance' \in Row
    BY <2>1, <2>2, <2>3, <1>1 DEF Row
  <2>6. Credit = attendance.total + (now - attendance.joined)
    BY <1>2 DEF Credit
  <2> QED BY <1>1, <2>2, <2>4, <2>5, <2>6 DEF Larger
<1>3. CASE ~attendance.open
  <2>1. attendance' = attendance /\ Credit = attendance.total + 0
    BY <1>3 DEF Close, Credit
  <2>2. attendance.total \in Nat
    BY <1>1 DEF Row
  <2> QED BY <1>1, <1>3, <2>1, <2>2
<1> QED BY <1>2, <1>3

LEMMA NullType == Null \in Int /\ Null < 0
BY DEF Null

\* The invariant holds at the start.
LEMMA InvInit == Init => Inv
<1> SUFFICES ASSUME Init PROVE Inv
  OBVIOUS
<1>1. TypeOK
  BY DEF Init, TypeOK, Row, Pcs, Statuses
<1>2. Present = {} /\ ~attendance.open /\ attendance.total = 0 /\ attendance.joined = 0
  BY DEF Init, Present
<1>3. Times
  BY <1>2, NullType DEF Init, Times
<1>4. Rows
  BY <1>2 DEF Rows
<1>5. Credit = 0
  BY <1>2 DEF Credit
<1>6. CreditedOnce /\ CreditedWithinPresence /\ NoPresenceLost
  BY <1>5 DEF Init, CreditedOnce, CreditedWithinPresence, NoPresenceLost
<1> QED BY <1>1, <1>3, <1>4, <1>6 DEF Inv

\* A step that leaves the row, the clock and the connections in the class alone
\* preserves the accounting, unless it puts an ended class back on air.
LEMMA Untouched ==
  ASSUME Inv, attendance' = attendance, now' = now, present' = present,
         Present' = Present, overlapped' = overlapped, faults' = {} => faults = {},
         NotOver' => NotOver
  PROVE  Rows' /\ CreditedOnce' /\ CreditedWithinPresence' /\ NoPresenceLost'
<1>1. Credit' = Credit
  BY DEF Credit
<1> QED BY <1>1 DEF Inv, Rows, CreditedOnce, CreditedWithinPresence, NoPresenceLost

\* A finalisation closes the row while the class is not on.
LEMMA Finalised ==
  ASSUME Inv, NEW t \in Int, t <= now, Close(t), now' = now, present' = present,
         Present' = Present, overlapped' = overlapped, faults' = faults,
         NotOver' = NotOver, ~NotOver
  PROVE  Rows' /\ CreditedOnce' /\ CreditedWithinPresence' /\ NoPresenceLost'
<1>1. /\ attendance' \in Row /\ ~attendance'.open /\ attendance'.total <= Credit
  BY Closing DEF Inv, Times
<1>2. attendance'.total \in Nat /\ now \in Nat /\ present \in Nat /\ Credit \in Int
  BY <1>1 DEF Inv, TypeOK, Row, Credit
<1>3. Credit' = attendance'.total
  BY <1>1, <1>2 DEF Credit
<1>4. Rows'
  BY <1>1 DEF Inv, Rows
<1>5. CreditedOnce' /\ CreditedWithinPresence'
  BY <1>1, <1>2, <1>3 DEF Inv, CreditedOnce, CreditedWithinPresence
<1>6. NoPresenceLost'
  BY DEF NoPresenceLost
<1> QED BY <1>4, <1>5, <1>6

\* A connection that moves between stages outside the class changes nobody's
\* presence.
LEMMA Outside ==
  ASSUME TypeOK, NEW c \in Sockets, NEW pc \in Pcs, Goto(c, pc),
         socket[c] \in {"in", "leaving"} <=> pc \in {"in", "leaving"}
  PROVE  socket' \in [Sockets -> Pcs] /\ Present' = Present
<1>1. socket' = [socket EXCEPT ![c] = pc] /\ socket \in [Sockets -> Pcs]
  BY DEF Goto, TypeOK
<1> QED BY <1>1 DEF Present

\* What a connection does in the class or on its way.
LEMMA ConnectionStep ==
  ASSUME Inv, NEW c \in Sockets, Connection(c)
  PROVE  Inv'
<1>1. TypeOK /\ Times
  BY DEF Inv
<1>a. attendance \in Row /\ attendance.total \in Nat /\ attendance.joined \in Nat
      /\ now \in Nat /\ present \in Nat /\ attendance.open \in BOOLEAN
  BY <1>1 DEF TypeOK, Row
<1>2. CASE Gate(c)
  <2>1. socket' \in [Sockets -> Pcs] /\ Present' = Present
    BY <1>1, <1>2, Outside DEF Gate, Pcs
  <2>2. TypeOK' /\ Times'
    BY <1>1, <1>2, <2>1 DEF Gate, TypeOK, Times, session, history
  <2> QED BY <1>2, <2>1, <2>2, Untouched DEF Gate, Inv, session, history
<1>3. CASE Subscribe(c)
  <2>1. socket' \in [Sockets -> Pcs] /\ Present' = Present
    BY <1>1, <1>3, Outside DEF Subscribe, Pcs
  <2>2. TypeOK' /\ Times'
    BY <1>1, <1>3, <2>1 DEF NotOver, Subscribe, TypeOK, Times, session, history
  <2> QED BY <1>3, <2>1, <2>2, Untouched DEF NotOver, Subscribe, Inv, session, history
<1>4. ASSUME Joins(c) PROVE /\ socket' \in [Sockets -> Pcs]
                            /\ Present' = Present \cup {c}
                            /\ c \notin Present
                            /\ overlapped' \in BOOLEAN
                            /\ ~overlapped' => ~overlapped /\ Present = {}
  <2>1. socket' = [socket EXCEPT ![c] = "in"] /\ socket \in [Sockets -> Pcs]
    BY <1>1, <1>4 DEF Joins, Goto, TypeOK
  <2>2. socket[c] = "subscribed"
    BY <1>4 DEF Joins
  <2> QED BY <1>1, <1>4, <2>1, <2>2 DEF Joins, Present, Pcs, TypeOK
<1>5. CASE RecordJoin(c)
  <2>1. /\ Joins(c) /\ faults' = faults /\ status' = status /\ ended' = ended
        /\ told' = told /\ closer' = closer /\ now' = now /\ present' = present
    BY <1>5 DEF RecordJoin, Joins, session
  <2>2. /\ attendance' \in Row /\ attendance'.open /\ attendance'.joined <= now
        /\ Credit' = Credit
    <3>1. CASE attendance.open
      BY <1>1, <1>5, <1>a, <2>1, <3>1 DEF RecordJoin, Credit, Times
    <3>2. CASE ~attendance.open
      <4>1. attendance' = [open |-> TRUE, joined |-> now, total |-> attendance.total]
        BY <1>5, <3>2 DEF RecordJoin
      <4>2. Credit' = attendance.total + (now - now) /\ Credit = attendance.total + 0
        BY <3>2, <4>1, <2>1 DEF Credit
      <4> QED BY <4>1, <4>2, <1>a DEF Row
    <3> QED BY <3>1, <3>2
  <2>3. TypeOK' /\ Times'
    BY <1>1, <1>4, <2>1, <2>2 DEF NotOver, TypeOK, Times
  <2>4. Rows'
    BY <1>4, <2>1, <2>2 DEF Inv, Rows
  <2>5. CreditedOnce' /\ CreditedWithinPresence' /\ NoPresenceLost'
    BY <1>4, <2>1, <2>2
       DEF Inv, CreditedOnce, CreditedWithinPresence, NoPresenceLost, NotOver
  <2> QED BY <2>3, <2>4, <2>5 DEF Inv
<1>6. CASE JoinNotRecorded(c)
  <2>1. /\ Joins(c) /\ faults' = faults \cup {status = "ended"} /\ status' = status
        /\ ended' = ended /\ attendance' = attendance
        /\ told' = told /\ closer' = closer /\ now' = now /\ present' = present
    BY <1>6 DEF JoinNotRecorded, Joins, session
  <2>2. Credit' = Credit /\ faults' # {}
    BY <2>1 DEF Credit
  <2>3. TypeOK' /\ Times'
    BY <1>1, <1>4, <2>1 DEF NotOver, TypeOK, Times
  <2>4. Rows'
    BY <1>4, <2>1, <2>2 DEF Inv, Rows
  <2>5. CreditedOnce' /\ CreditedWithinPresence' /\ NoPresenceLost'
    BY <2>1, <2>2 DEF Inv, CreditedOnce, CreditedWithinPresence, NoPresenceLost
  <2> QED BY <2>3, <2>4, <2>5 DEF Inv
<1>7. CASE Disconnect(c) \/ HearSessionEnded(c)
  <2>1. socket' \in [Sockets -> Pcs] /\ Present' = Present
    BY <1>1, <1>7, Outside DEF Disconnect, HearSessionEnded, Pcs
  <2>2. TypeOK' /\ Times'
    BY <1>1, <1>7, <2>1
       DEF Disconnect, HearSessionEnded, TypeOK, Times, NotOver, session, history
  <2> QED BY <1>7, <2>1, <2>2, Untouched
          DEF NotOver, Disconnect, HearSessionEnded, Inv, session, history
<1>8. ASSUME Gone(c), socket[c] = "leaving"
      PROVE  /\ socket' \in [Sockets -> Pcs] /\ told' \in [Sockets -> BOOLEAN]
             /\ Present' = Present \ {c} /\ c \in Present
  <2>1. /\ socket' = [socket EXCEPT ![c] = "none"] /\ socket \in [Sockets -> Pcs]
        /\ told' = [told EXCEPT ![c] = FALSE] /\ told \in [Sockets -> BOOLEAN]
    BY <1>1, <1>8 DEF Gone, Goto, TypeOK
  <2> QED BY <1>8, <2>1 DEF Present, Pcs
<1>9. CASE RecordLeave(c)
  <2>1. /\ Gone(c) /\ socket[c] = "leaving" /\ Close(now) /\ faults' = faults
        /\ status' = status /\ ended' = ended /\ closer' = closer /\ now' = now
        /\ present' = present /\ overlapped' = overlapped
    BY <1>9 DEF RecordLeave, session, history
  <2>2. /\ attendance' \in Row /\ ~attendance'.open /\ attendance'.total = Credit
        /\ attendance'.joined = attendance.joined
    BY <1>1, <1>a, <2>1, Closing DEF Times
  <2>3. Credit' = Credit
    BY <2>2 DEF Credit, Row
  <2>4. TypeOK' /\ Times'
    BY <1>1, <1>8, <2>1, <2>2 DEF NotOver, TypeOK, Times
  <2>5. Rows'
    BY <1>8, <2>1, <2>2 DEF Inv, Rows
  <2>6. CreditedOnce' /\ CreditedWithinPresence' /\ NoPresenceLost'
    BY <2>1, <2>3 DEF NotOver, Inv, CreditedOnce, CreditedWithinPresence, NoPresenceLost
  <2> QED BY <2>4, <2>5, <2>6 DEF Inv
<1>10. CASE LeaveNotRecorded(c)
  <2>1. /\ Gone(c) /\ socket[c] = "leaving" /\ faults' = faults \cup {status = "ended"}
        /\ attendance' = attendance
        /\ status' = status /\ ended' = ended /\ closer' = closer /\ now' = now
        /\ present' = present /\ overlapped' = overlapped
    BY <1>10 DEF LeaveNotRecorded, session
  <2>2. Credit' = Credit /\ faults' # {}
    BY <2>1 DEF Credit
  <2>3. TypeOK' /\ Times'
    BY <1>1, <1>8, <2>1 DEF NotOver, TypeOK, Times
  <2>4. Rows'
    BY <1>8, <2>1, <2>2 DEF Inv, Rows
  <2>5. CreditedOnce' /\ CreditedWithinPresence' /\ NoPresenceLost'
    BY <2>1, <2>2 DEF Inv, CreditedOnce, CreditedWithinPresence, NoPresenceLost
  <2> QED BY <2>3, <2>4, <2>5 DEF Inv
<1> QED BY <1>2, <1>3, <1>5, <1>6, <1>7, <1>9, <1>10 DEF Connection

\* What ends the class, a crash, and the passing of time.
LEMMA SessionStep ==
  ASSUME Inv,
         \/ GoLive \/ EndClass \/ SweepEnd \/ Cancel \/ PublishSessionEnded \/ Crash \/ Tick
         \/ \E k \in {"end_class", "sweep"} : Finalize(k) \/ FinalizeFails(k)
  PROVE  Inv'
<1>1. TypeOK /\ Times
  BY DEF Inv
<1>a. attendance \in Row /\ attendance.total \in Nat /\ attendance.joined \in Nat
      /\ now \in Nat /\ present \in Nat /\ attendance.open \in BOOLEAN
      /\ ended \in Int
  BY <1>1, NullType DEF TypeOK, Row
<1>2. CASE GoLive \/ EndClass \/ SweepEnd \/ Cancel
  <2>1. /\ socket' = socket /\ attendance' = attendance /\ told' = told /\ now' = now
        /\ present' = present /\ overlapped' = overlapped /\ faults' = faults
        /\ status' \in Statuses /\ (NotOver' => NotOver)
    BY <1>2 DEF GoLive, EndClass, SweepEnd, Cancel, session, history, Statuses, NotOver
  <2>2. /\ ended' \in Nat \cup {Null} /\ ended' <= now
        /\ closer' \in [{"end_class", "sweep"} -> {"idle", "finalize", "publish"}]
    BY <1>1, <1>2, <1>a DEF GoLive, EndClass, SweepEnd, Cancel, TypeOK, Times
  <2>3. TypeOK' /\ Times'
    <3>1. \A k \in {"end_class", "sweep"} : closer'[k] = "finalize" => ~NotOver'
      BY <1>1, <1>2, <2>1
         DEF GoLive, EndClass, SweepEnd, Cancel, TypeOK, Times, NotOver, session
    <3> QED BY <1>1, <2>1, <2>2, <3>1 DEF TypeOK, Times
  <2>4. Present' = Present
    BY <2>1 DEF Present
  <2> QED BY <2>1, <2>3, <2>4, Untouched DEF Inv
<1>3. CASE PublishSessionEnded
  <2>1. Present' = Present
    BY <1>3 DEF PublishSessionEnded, Present
  <2>2. TypeOK' /\ Times'
    BY <1>1, <1>3 DEF NotOver, PublishSessionEnded, TypeOK, Times, session, history
  <2> QED BY <1>3, <2>1, <2>2, Untouched
          DEF PublishSessionEnded, Inv, NotOver, session, history
<1>4. CASE Crash
  <2>1. Present' = {} /\ faults' # {}
    BY <1>4 DEF Crash, Present
  <2>2. Credit' = Credit
    BY <1>4 DEF Crash, Credit
  <2>3. TypeOK' /\ Times'
    BY <1>1, <1>4 DEF Crash, TypeOK, Times, session, Pcs
  <2>4. Rows' /\ CreditedOnce' /\ CreditedWithinPresence' /\ NoPresenceLost'
    BY <1>4, <2>1, <2>2
       DEF Inv, Crash, Rows, CreditedOnce, CreditedWithinPresence, NoPresenceLost
  <2> QED BY <2>3, <2>4 DEF Inv
<1>5. CASE Tick
  <2>1. /\ now' = now + 1 /\ socket' = socket /\ attendance' = attendance
        /\ status' = status /\ ended' = ended /\ closer' = closer /\ told' = told
        /\ overlapped' = overlapped /\ faults' = faults
        /\ present' = IF Present = {} THEN present ELSE present + 1
    BY <1>5 DEF Tick, session
  <2>2. Present' = Present
    BY <2>1 DEF Present
  <2>3. Credit' = IF attendance.open THEN Credit + 1 ELSE Credit
    BY <1>a, <2>1 DEF Credit
  <2>4. TypeOK' /\ Times'
    BY <1>1, <1>a, <2>1 DEF NotOver, TypeOK, Times
  <2>5. Rows'
    BY <2>1, <2>2 DEF NotOver, Inv, Rows
  <2>6. Credit \in Int
    BY <1>a DEF Credit
  <2>7. CreditedOnce' /\ CreditedWithinPresence' /\ NoPresenceLost'
    BY <1>a, <2>1, <2>3, <2>6
       DEF NotOver, Inv, Rows, CreditedOnce, CreditedWithinPresence, NoPresenceLost
  <2> QED BY <2>4, <2>5, <2>7 DEF Inv
<1>6. CASE \E k \in {"end_class", "sweep"} : Finalize(k)
  <2>1. PICK k \in {"end_class", "sweep"} : Finalize(k)
    BY <1>6
  <2> DEFINE t == IF k = "end_class" THEN ended ELSE now
  <2>2. t \in Int /\ t <= now /\ Close(t)
    BY <1>1, <1>a, <2>1 DEF Finalize, Times
  <2>3. /\ socket' = socket /\ told' = told /\ now' = now /\ status' = status
        /\ ended' = ended /\ present' = present /\ overlapped' = overlapped
        /\ faults' = faults /\ ~NotOver
        /\ closer' = [closer EXCEPT ![k] = IF k = "end_class" THEN "publish" ELSE "idle"]
    BY <1>1, <2>1 DEF Finalize, session, history, Times
  <2>4. Present' = Present
    BY <2>3 DEF Present
  <2>5. attendance' \in Row /\ attendance'.joined = attendance.joined
    <3> HIDE DEF t
    <3> QED BY <1>1, <2>2, Closing
  <2>6. TypeOK' /\ Times'
    BY <1>1, <2>3, <2>5 DEF NotOver, TypeOK, Times
  <2>7. Rows' /\ CreditedOnce' /\ CreditedWithinPresence' /\ NoPresenceLost'
    <3> HIDE DEF t
    <3> QED BY <2>2, <2>3, <2>4, Finalised DEF NotOver
  <2> QED BY <2>6, <2>7 DEF Inv
<1>7. CASE \E k \in {"end_class", "sweep"} : FinalizeFails(k)
  <2>1. /\ socket' = socket /\ told' = told /\ now' = now /\ status' = status
        /\ ended' = ended /\ present' = present /\ overlapped' = overlapped
        /\ faults' = faults \cup {status = "ended"} /\ attendance' = attendance
    BY <1>7 DEF FinalizeFails, session
  <2>2. Present' = Present /\ faults' # {}
    BY <2>1 DEF Present
  <2>3. TypeOK' /\ Times'
    <3>1. PICK k \in {"end_class", "sweep"} : FinalizeFails(k)
      BY <1>7
    <3>2. closer' = [closer EXCEPT ![k] = IF k = "end_class" THEN "publish" ELSE "idle"]
      BY <3>1 DEF FinalizeFails
    <3>3. NotOver' = NotOver
      BY <2>1 DEF NotOver
    <3> QED BY <1>1, <2>1, <3>2, <3>3 DEF TypeOK, Times
  <2> QED BY <2>1, <2>2, <2>3, Untouched DEF NotOver, Inv
<1> QED BY <1>2, <1>3, <1>4, <1>5, <1>6, <1>7

\* The invariant is inductive.
LEMMA InvNext == Inv /\ [Next]_vars => Inv'
<1> SUFFICES ASSUME Inv, [Next]_vars PROVE Inv'
  OBVIOUS
<1>1. CASE \E c \in Sockets : Connection(c)
  BY <1>1, ConnectionStep
<1>2. CASE \/ GoLive \/ EndClass \/ SweepEnd \/ Cancel
           \/ PublishSessionEnded \/ Crash \/ Tick
           \/ \E k \in {"end_class", "sweep"} : Finalize(k) \/ FinalizeFails(k)
  BY <1>2, SessionStep
<1>3. CASE UNCHANGED vars
  <2>1. Present' = Present /\ Credit' = Credit
    BY <1>3 DEF vars, Present, Credit
  <2> QED BY <1>3, <2>1 DEF NotOver, vars, Inv, TypeOK, Times, Rows, CreditedOnce,
                           CreditedWithinPresence, NoPresenceLost
<1> QED BY <1>1, <1>2, <1>3 DEF Next

LEMMA Invariant == Spec => []Inv
BY InvInit, InvNext, PTL DEF Spec

\* Every reachable state is well typed; in particular the credited time, from
\* which an end before the start of a segment is subtracted, is never negative.
THEOREM TypeCorrect == Spec => []TypeOK
BY Invariant, PTL DEF Inv

\* record_join, record_leave and finalize_open_for_session never credit the
\* same moment twice, whatever fails.
THEOREM NeverCreditedTwice == Spec => []CreditedOnce
BY Invariant, PTL DEF Inv

\* Without failures a student is credited only for time with a connection.
THEOREM NeverMoreThanPresent == Spec => []CreditedWithinPresence
BY Invariant, PTL DEF Inv

\* Without failures or overlapping connections, all of it is credited.
THEOREM AllPresenceCredited == Spec => []NoPresenceLost
BY Invariant, PTL DEF Inv
================================================================================
