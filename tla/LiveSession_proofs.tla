-------------------------- MODULE LiveSession_proofs --------------------------
(***************************************************************************)
(* Theorems about LiveSession, for any set of sessions, courses, teachers, *)
(* organisations and concurrent requests, and for any plan limits; the     *)
(* last is that the handlers implement LiveClass.                          *)
(***************************************************************************)
EXTENDS LiveSession, Sums, TLAPS

USE DEF Existing, Statuses, Pcs

LEMMA NullType == Null \in Int
BY DEF Null

LEMMA FreshType == ASSUME NEW s \in Sessions PROVE Fresh(s) \in Row
BY NumbersAssumption, NullType DEF Fresh, Row

LEMMA EndedRow ==
  ASSUME NEW x \in Row, NEW end \in Int
  PROVE  [x EXCEPT !.status = "ended", !.ended = end, !.nonce = 0,
                   !.expires = Null] \in Row
BY NullType DEF Row

LEMMA IdleType == Idle \in Request
<1>1. (CHOOSE s \in Sessions : TRUE) \in Sessions
  BY SessionsAssumption
<1>. QED  BY <1>1 DEF Idle, Request

LEMMA GotoType ==
  ASSUME TypeOK, NEW r \in Requests, NEW pc \in Pcs, Goto(r, pc)
  PROVE  req' \in [Requests -> Request]
BY IdleType DEF TypeOK, Goto, Request

LEMMA ReturnType ==
  ASSUME TypeOK, NEW r \in Requests, Return(r)
  PROVE  /\ req' \in [Requests -> Request]
         /\ lock' \in [Tenants -> Requests \cup {NoRequest}]
<1>1. req' \in [Requests -> Request]
  BY GotoType DEF Return
<1>2. lock' \in [Tenants -> Requests \cup {NoRequest}]
  BY DEF Return, TypeOK
<1>. QED  BY <1>1, <1>2

LEMMA TenantType == ASSUME NEW s \in Sessions PROVE Tenant(s) \in Tenants
BY SessionsAssumption DEF Tenant

\* The types of all state variables are invariant.
LEMMA TypeInit == Init => TypeOK
BY FreshType, NullType, IdleType DEF Init, TypeOK, Row, Fresh

LEMMA TypeStep == TypeOK /\ [Next]_vars => TypeOK'
<1>. SUFFICES ASSUME TypeOK, [Next]_vars PROVE TypeOK'
  OBVIOUS
<1>. USE NumbersAssumption
<1>1. ASSUME NEW r \in Requests, NEW s \in Sessions, GoLiveLoad(r, s) PROVE TypeOK'
  BY <1>1 DEF TypeOK, GoLiveLoad, Row, Request
<1>2. ASSUME NEW r \in Requests, NEW s \in Sessions, StartNowConflicts(r, s) PROVE TypeOK'
  BY <1>2 DEF TypeOK, StartNowConflicts, Request
<1>3. ASSUME NEW r \in Requests, StartNowQuota(r) PROVE TypeOK'
  BY <1>3, GotoType DEF TypeOK, StartNowQuota
<1>4. ASSUME NEW r \in Requests, StartNowCreate(r) PROVE TypeOK'
  <2>1. row' \in [Sessions -> Row]
    BY <1>4, FreshType DEF TypeOK, StartNowCreate, Request
  <2>. QED  BY <1>4, <2>1, GotoType DEF TypeOK, StartNowCreate
<1>5. ASSUME NEW r \in Requests, Admit(r) PROVE TypeOK'
  BY <1>5, GotoType, TenantType DEF TypeOK, Admit, Request
<1>6. ASSUME NEW r \in Requests, Refuse(r) PROVE TypeOK'
  BY <1>6, GotoType DEF TypeOK, Refuse
<1>7. ASSUME NEW r \in Requests, StartNowCleanup(r) PROVE TypeOK'
  <2>1. row' \in [Sessions -> Row]
    BY <1>7 DEF TypeOK, StartNowCleanup, Request, Row
  <2>. QED  BY <1>7, <2>1, GotoType DEF TypeOK, StartNowCleanup
<1>8. ASSUME NEW r \in Requests, GoLive(r) PROVE TypeOK'
  <2>1. req[r].s \in Sessions
    BY DEF TypeOK, Request
  <2>. DEFINE s == req[r].s
              new == [row[s] EXCEPT !.status = "live",
                        !.started = Coalesce(row[s].started, now),
                        !.nonce = minted + 1, !.expires = now + NonceTtl]
  <2>2. /\ row[s] \in Row /\ Coalesce(row[s].started, now) \in Int
       /\ now + NonceTtl \in Int /\ minted + 1 \in Nat
    BY <2>1 DEF TypeOK, Row, Coalesce
  <2>3. new \in Row
    BY <2>2 DEF Row
  <2>4. row' = [row EXCEPT ![s] = new]
    BY <1>8 DEF GoLive
  <2>5. row' \in [Sessions -> Row]
    BY <2>3, <2>4 DEF TypeOK
  <2>. QED  BY <1>8, <2>5, ReturnType DEF TypeOK, GoLive
<1>9. ASSUME NEW r \in Requests, GoLiveRejected(r) \/ Abort(r) PROVE TypeOK'
  BY <1>9, ReturnType DEF TypeOK, GoLiveRejected, Abort
<1>10. ASSUME NEW s \in Sessions, EndClass(s) \/ SweepEnd(s) PROVE TypeOK'
  <2>1. row[s] \in Row /\ Coalesce(row[s].ended, now) \in Int /\ now \in Int
    BY DEF TypeOK, Row, Coalesce
  <2>2. PICK end \in Int : row' = [row EXCEPT ![s] =
         [@ EXCEPT !.status = "ended", !.ended = end, !.nonce = 0, !.expires = Null]]
    BY <1>10, <2>1 DEF EndClass, SweepEnd
  <2>3. [row[s] EXCEPT !.status = "ended", !.ended = end, !.nonce = 0,
                       !.expires = Null] \in Row
    BY <2>1, EndedRow
  <2>4. row' \in [Sessions -> Row]
    BY <2>2, <2>3 DEF TypeOK
  <2>. QED  BY <1>10, <2>4 DEF TypeOK, EndClass, SweepEnd
<1>11. ASSUME NEW s \in Sessions, Patch(s) PROVE TypeOK'
  <2>1. PICK status \in PatchStatuses \cup {row[s].status},
             minutes \in PatchMinutes \cup {row[s].minutes} :
          row' = [row EXCEPT ![s] = [@ EXCEPT !.status = status, !.minutes = minutes]]
    BY <1>11 DEF Patch
  <2>2. row[s] \in Row
    BY DEF TypeOK
  <2>3. status \in Statuses /\ minutes \in Nat
    BY <2>1, <2>2 DEF Row
  <2>4. [row[s] EXCEPT !.status = status, !.minutes = minutes] \in Row
    BY <2>2, <2>3 DEF Row
  <2>5. row' \in [Sessions -> Row]
    BY <2>1, <2>4 DEF TypeOK
  <2>. QED  BY <1>11, <2>5 DEF TypeOK, Patch
<1>12. ASSUME NEW s \in Sessions, DeleteSeries(s) PROVE TypeOK'
  <2>1. row[s] \in Row
    BY DEF TypeOK
  <2>2. [row[s] EXCEPT !.status = "deleted"] \in Row
    BY <2>1 DEF Row
  <2>3. row' \in [Sessions -> Row]
    BY <1>12, <2>2 DEF TypeOK, DeleteSeries
  <2>. QED  BY <1>12, <2>3 DEF TypeOK, DeleteSeries
<1>13. ASSUME NEW s \in Sessions, ConsumePublishNonce(s) PROVE TypeOK'
  BY <1>13 DEF TypeOK, ConsumePublishNonce, Row
<1>14. CASE Tick
  BY <1>14 DEF TypeOK, Tick
<1>15. CASE UNCHANGED vars
  BY <1>15 DEF TypeOK, vars
<1>. QED
  BY <1>1, <1>2, <1>3, <1>4, <1>5, <1>6, <1>7, <1>8, <1>9, <1>10, <1>11, <1>12,
     <1>13, <1>14, <1>15 DEF Next, Step

\* Every reachable state is well typed: no handler stores a status, a
\* credential or a continuation outside the ones the code knows.
THEOREM TypeCorrect == Spec => []TypeOK
BY TypeInit, TypeStep, PTL DEF Spec

-------------------------------------------------------------------------------
(* One live class per course and teacher.                                   *)

\* A step changes the status of one session at most, and to "live" only in
\* the UPDATE of go-live.
LEMMA StatusStep ==
  ASSUME TypeOK, [Next]_vars, NEW s \in Sessions,
         row'[s].status = "live", row[s].status # "live"
  PROVE  \E r \in Requests : GoLive(r) /\ req[r].s = s
<1>. USE NumbersAssumption
<1>0. row[s] \in Row /\ row \in [Sessions -> Row] /\ \A r \in Requests : req[r].s \in Sessions
  BY DEF TypeOK, Request
<1>1. ASSUME NEW r \in Requests, GoLive(r) PROVE req[r].s = s
  BY <1>0, <1>1 DEF GoLive, Row
<1>2. ASSUME NEW r \in Requests, StartNowCreate(r) PROVE FALSE
  BY <1>0, <1>2 DEF StartNowCreate, Fresh, Row
<1>3. ASSUME NEW r \in Requests, StartNowCleanup(r) PROVE FALSE
  BY <1>0, <1>3 DEF StartNowCleanup, Row
<1>4. ASSUME NEW o \in Sessions, EndClass(o) \/ SweepEnd(o) \/ DeleteSeries(o) PROVE FALSE
  <2>1. CASE EndClass(o)
    BY <1>0, <2>1 DEF EndClass, Row
  <2>2. CASE SweepEnd(o)
    BY <1>0, <2>2 DEF SweepEnd, Row
  <2>3. CASE DeleteSeries(o)
    BY <1>0, <2>3 DEF DeleteSeries, Row
  <2>. QED  BY <1>4, <2>1, <2>2, <2>3
<1>5. ASSUME NEW o \in Sessions, Patch(o) PROVE FALSE
  <2>1. PICK status \in PatchStatuses \cup {row[o].status},
             minutes \in PatchMinutes \cup {row[o].minutes} :
          row' = [row EXCEPT ![o] = [@ EXCEPT !.status = status, !.minutes = minutes]]
    BY <1>5 DEF Patch
  <2>2. row[o] \in Row
    BY <1>0
  <2>. QED  BY <1>0, <2>1, <2>2 DEF Row
<1>6. ASSUME NEW o \in Sessions, ConsumePublishNonce(o) PROVE FALSE
  BY <1>0, <1>6 DEF ConsumePublishNonce, Row
<1>7. ASSUME row' = row PROVE FALSE
  BY <1>7
<1>. QED
  BY <1>1, <1>2, <1>3, <1>4, <1>5, <1>6, <1>7
  DEF Next, Step, vars, GoLiveLoad, StartNowConflicts, StartNowQuota, Admit,
      Refuse, GoLiveRejected, Abort, Tick

LEMMA OneLiveInit == Init => OneLivePerCourseAndTeacher
BY DEF Init, OneLivePerCourseAndTeacher, Live, Fresh

\* A class that joins the live ones found both indexes free.
LEMMA OneLiveStep ==
  TypeOK /\ OneLivePerCourseAndTeacher /\ [Next]_vars => OneLivePerCourseAndTeacher'
<1>. SUFFICES ASSUME TypeOK, OneLivePerCourseAndTeacher, [Next]_vars,
                     NEW s \in Sessions, NEW o \in Sessions, s # o,
                     row'[s].status = "live", row'[o].status = "live"
              PROVE  CourseOf[s] # CourseOf[o] /\ TeacherOf[s] # TeacherOf[o]
  BY DEF OneLivePerCourseAndTeacher, Live
<1>1. ASSUME NEW x \in Sessions, NEW y \in Sessions, x # y, NEW r \in Requests,
             GoLive(r), req[r].s = x, row'[y].status = "live"
      PROVE  CourseOf[x] # CourseOf[y] /\ TeacherOf[x] # TeacherOf[y]
  <2>1. row'[y] = row[y]
    BY <1>1 DEF GoLive, TypeOK
  <2>2. y \in Live \ {x}
    BY <1>1, <2>1 DEF Live
  <2>. QED  BY <1>1, <2>2 DEF GoLive, Startable, CourseFree, TeacherFree
<1>2. CASE row[s].status # "live"
  <2>1. PICK r \in Requests : GoLive(r) /\ req[r].s = s
    BY <1>2, StatusStep
  <2>. QED  BY <1>1, <2>1
<1>3. CASE row[o].status # "live"
  <2>1. PICK r \in Requests : GoLive(r) /\ req[r].s = o
    BY <1>3, StatusStep
  <2>. QED  BY <1>1, <2>1
<1>4. CASE row[s].status = "live" /\ row[o].status = "live"
  BY <1>4 DEF OneLivePerCourseAndTeacher, Live
<1>. QED  BY <1>2, <1>3, <1>4

\* Whatever the handlers, PATCHes, deletions, aborts and the sweep do, a
\* course and a teacher have one live class at most: the unique indexes alone
\* carry it, not the look-ups of start-now.
THEOREM OneLive == Spec => []OneLivePerCourseAndTeacher
<1>1. Spec => []TypeOK
  BY TypeCorrect
<1>. QED
  BY <1>1, OneLiveInit, OneLiveStep, PTL DEF Spec

\* A go-live that loaded the row before the class ended, was cancelled or was
\* deleted cannot put it back on air, whatever happened in between.
THEOREM StaleStartNever == Spec => NoStaleStart
<1>1. TypeOK /\ [Next]_vars =>
        [\A s \in Sessions : row[s].status \in {"ended", "cancelled", "deleted"} =>
           row'[s].status # "live"]_vars
  <2>. SUFFICES ASSUME TypeOK, [Next]_vars, NEW s \in Sessions,
                       row[s].status \in {"ended", "cancelled", "deleted"},
                       row'[s].status = "live"
                PROVE  FALSE
    OBVIOUS
  <2>1. PICK r \in Requests : GoLive(r) /\ req[r].s = s
    BY StatusStep
  <2>. QED  BY <2>1 DEF GoLive, Startable
<1>2. Spec => []TypeOK
  BY TypeCorrect
<1>. QED  BY <1>1, <1>2, PTL DEF Spec, NoStaleStart

-------------------------------------------------------------------------------
(* The quota is passed before a class starts.                               *)

\* A request that is about to create its row is alone with it.
CreateAlone ==
  \A r \in Requests : req[r].pc \in {"quota", "create"} =>
    /\ row[req[r].s].status = "none"
    /\ \A o \in Requests \ {r} : req[o].pc # "idle" => req[o].s # req[r].s

\* A request that is about to run its UPDATE holds the tenant lock, or it
\* loaded a live row, which nothing but a PATCH makes scheduled again.
Metered ==
  \A r \in Requests : req[r].pc = "update" =>
    \/ lock[Tenant(req[r].s)] = r
    \/ row[req[r].s].status \in {"live", "ended", "cancelled", "deleted"}

MeterInv == TypeOK /\ CreateAlone /\ Metered

LEMMA MeterInit == Init => MeterInv
BY TypeInit DEF Init, MeterInv, CreateAlone, Metered, Idle

\* What a step may do to a row, as far as the invariant is concerned.
RowKept(s) ==
  \/ row'[s].status = row[s].status
  \/ row[s].status # "none" /\ row'[s].status \in {"live", "ended", "cancelled", "deleted"}

LEMMA RowStep ==
  ASSUME TypeOK, "scheduled" \notin PatchStatuses, NEW s \in Sessions, NEW o \in Sessions,
         \/ EndClass(o) \/ SweepEnd(o) \/ Patch(o) \/ DeleteSeries(o)
         \/ ConsumePublishNonce(o)
  PROVE  RowKept(s)
<1>0. row[s] \in Row /\ row[o] \in Row /\ row \in [Sessions -> Row]
  BY DEF TypeOK
<1>1. CASE EndClass(o)
  BY <1>0, <1>1 DEF EndClass, RowKept, Row
<1>2. CASE SweepEnd(o)
  BY <1>0, <1>2 DEF SweepEnd, RowKept, Row
<1>3. CASE Patch(o)
  <2>1. PICK status \in PatchStatuses \cup {row[o].status},
             minutes \in PatchMinutes \cup {row[o].minutes} :
          row' = [row EXCEPT ![o] = [@ EXCEPT !.status = status, !.minutes = minutes]]
    BY <1>3 DEF Patch
  <2>2. status \in {"cancelled", row[o].status}
    BY <2>1, NumbersAssumption
  <2>. QED  BY <1>0, <1>3, <2>1, <2>2 DEF Patch, RowKept, Row
<1>4. CASE DeleteSeries(o)
  BY <1>0, <1>4 DEF DeleteSeries, RowKept, Row
<1>5. CASE ConsumePublishNonce(o)
  BY <1>0, <1>5 DEF ConsumePublishNonce, RowKept, Row
<1>. QED  BY <1>1, <1>2, <1>3, <1>4, <1>5

\* A request that returns touches neither the others nor their locks.
LEMMA ReturnStep ==
  ASSUME TypeOK, NEW r \in Requests, Return(r)
  PROVE  /\ req'[r].pc = "idle"
         /\ \A o \in Requests \ {r} : req'[o] = req[o]
         /\ \A o \in Requests \ {r}, t \in Tenants : lock[t] = o => lock'[t] = o
BY DEF TypeOK, Return, Goto, Idle

LEMMA MeterStep ==
  ASSUME "scheduled" \notin PatchStatuses
  PROVE  MeterInv /\ [Next]_vars => MeterInv'
<1>. SUFFICES ASSUME MeterInv, [Next]_vars PROVE MeterInv'
  OBVIOUS
<1>0. /\ TypeOK' /\ TypeOK /\ CreateAlone /\ Metered
      /\ \A r \in Requests : req[r] \in Request /\ req[r].s \in Sessions
      /\ \A r \in Requests : Tenant(req[r].s) \in Tenants
      /\ row \in [Sessions -> Row] /\ req \in [Requests -> Request]
  BY TypeStep, TenantType DEF MeterInv, TypeOK, Request
<1>. SUFFICES CreateAlone' /\ Metered'
  BY <1>0 DEF MeterInv
<1>1. ASSUME NEW r \in Requests, NEW s \in Sessions, GoLiveLoad(r, s)
      PROVE  CreateAlone' /\ Metered'
  <2>1. /\ req'[r].s = s /\ req'[r].pc \in {"check", "update"}
        /\ req'[r].pc = "update" => row[s].status = "live"
        /\ row[s].status # "none"
        /\ \A o \in Requests \ {r} : req'[o] = req[o]
        /\ UNCHANGED <<row, lock>>
    BY <1>0, <1>1 DEF GoLiveLoad
  <2>. QED  BY <1>0, <2>1 DEF CreateAlone, Metered, Tenant
<1>2. ASSUME NEW r \in Requests, NEW s \in Sessions, StartNowConflicts(r, s)
      PROVE  CreateAlone' /\ Metered'
  <2>1. /\ req'[r].s = s /\ req'[r].pc = "quota" /\ row[s].status = "none"
        /\ \A o \in Requests \ {r} : req'[o] = req[o]
        /\ \A o \in Requests : req[o].pc # "idle" => req[o].s # s
        /\ UNCHANGED <<row, lock>>
    BY <1>0, <1>2 DEF StartNowConflicts
  <2>. QED  BY <1>0, <2>1 DEF CreateAlone, Metered, Tenant
<1>3. ASSUME NEW r \in Requests, StartNowQuota(r) \/ Refuse(r)
      PROVE  CreateAlone' /\ Metered'
  <2>1. /\ req'[r].pc # "idle" => req'[r].s = req[r].s /\ req[r].pc # "idle"
        /\ req'[r].pc \in {"quota", "create"} => req[r].pc \in {"quota", "create"}
        /\ req'[r].pc # "update"
        /\ \A o \in Requests \ {r} : req'[o] = req[o]
        /\ UNCHANGED <<row, lock>>
    BY <1>0, <1>3 DEF StartNowQuota, Refuse, Goto, Idle, Request
  <2>. QED  BY <1>0, <2>1 DEF CreateAlone, Metered, Tenant
<1>4. ASSUME NEW r \in Requests, StartNowCreate(r)
      PROVE  CreateAlone' /\ Metered'
  <2>1. /\ req[r].pc = "create" /\ req'[r].s = req[r].s /\ req'[r].pc = "check"
        /\ \A o \in Requests \ {r} : req'[o] = req[o]
        /\ \A s \in Sessions \ {req[r].s} : row'[s] = row[s]
        /\ UNCHANGED lock
    BY <1>0, <1>4 DEF StartNowCreate, Goto, Request
  <2>. QED  BY <1>0, <2>1 DEF CreateAlone, Metered, Tenant
<1>5. ASSUME NEW r \in Requests, Admit(r)
      PROVE  CreateAlone' /\ Metered'
  <2>1. /\ req[r].pc = "check" /\ req'[r].s = req[r].s /\ req'[r].pc = "update"
        /\ \A o \in Requests \ {r} : req'[o] = req[o]
        /\ lock[Tenant(req[r].s)] = NoRequest
        /\ lock' = [lock EXCEPT ![Tenant(req[r].s)] = r]
        /\ UNCHANGED row
    BY <1>0, <1>5 DEF Admit, Goto, Request
  <2>2. lock \in [Tenants -> Requests \cup {NoRequest}]
    BY <1>0 DEF TypeOK
  <2>3. CreateAlone'
    BY <1>0, <2>1 DEF CreateAlone
  <2>4. ASSUME NEW o \in Requests, req'[o].pc = "update"
        PROVE  \/ lock'[Tenant(req'[o].s)] = o
               \/ row'[req'[o].s].status \in {"live", "ended", "cancelled", "deleted"}
    <3>1. CASE o = r
      BY <1>0, <2>1, <2>2, <3>1
    <3>2. CASE o # r
      BY <1>0, <2>1, <2>2, <2>4, <3>2, SessionsAssumption DEF Metered
    <3>. QED  BY <3>1, <3>2
  <2>. QED  BY <2>3, <2>4 DEF Metered, Tenant
<1>6. ASSUME NEW r \in Requests, StartNowCleanup(r)
      PROVE  CreateAlone' /\ Metered'
  <2>1. /\ req[r].pc = "cleanup" /\ req'[r].pc = "idle"
        /\ \A o \in Requests \ {r} : req'[o] = req[o]
        /\ \A s \in Sessions \ {req[r].s} : row'[s] = row[s]
        /\ row'[req[r].s].status = "deleted"
        /\ UNCHANGED lock
    BY <1>0, <1>6 DEF StartNowCleanup, Goto, Idle, Row
  <2>. QED  BY <1>0, <2>1 DEF CreateAlone, Metered, Tenant
<1>7. ASSUME NEW r \in Requests, GoLive(r)
      PROVE  CreateAlone' /\ Metered'
  <2>1. /\ req[r].pc = "update" /\ Return(r)
        /\ \A s \in Sessions \ {req[r].s} : row'[s] = row[s]
        /\ row'[req[r].s].status = "live"
    BY <1>0, <1>7 DEF GoLive, Row
  <2>2. /\ req'[r].pc = "idle"
        /\ \A o \in Requests \ {r} : req'[o] = req[o]
        /\ \A o \in Requests \ {r}, t \in Tenants : lock[t] = o => lock'[t] = o
    BY <1>0, <2>1, ReturnStep
  <2>. QED  BY <1>0, <2>1, <2>2 DEF CreateAlone, Metered, Tenant
<1>8. ASSUME NEW r \in Requests, GoLiveRejected(r) \/ Abort(r)
      PROVE  CreateAlone' /\ Metered'
  <2>1. Return(r) /\ UNCHANGED row
    BY <1>8 DEF GoLiveRejected, Abort
  <2>2. /\ req'[r].pc = "idle"
        /\ \A o \in Requests \ {r} : req'[o] = req[o]
        /\ \A o \in Requests \ {r}, t \in Tenants : lock[t] = o => lock'[t] = o
    BY <1>0, <2>1, ReturnStep
  <2>. QED  BY <1>0, <2>1, <2>2 DEF CreateAlone, Metered, Tenant
<1>9. ASSUME NEW o \in Sessions,
             \/ EndClass(o) \/ SweepEnd(o) \/ Patch(o) \/ DeleteSeries(o)
             \/ ConsumePublishNonce(o)
      PROVE  CreateAlone' /\ Metered'
  <2>1. \A s \in Sessions : RowKept(s)
    BY <1>0, <1>9, RowStep
  <2>2. UNCHANGED <<req, lock>>
    BY <1>9 DEF EndClass, SweepEnd, Patch, DeleteSeries, ConsumePublishNonce
  <2>. QED  BY <1>0, <2>1, <2>2 DEF CreateAlone, Metered, RowKept, Tenant
<1>10. ASSUME UNCHANGED <<row, req, lock>> PROVE CreateAlone' /\ Metered'
  BY <1>0, <1>10 DEF CreateAlone, Metered, Tenant
<1>. QED
  BY <1>1, <1>2, <1>3, <1>4, <1>5, <1>6, <1>7, <1>8, <1>9, <1>10
  DEF Next, Step, Tick, vars

\* Unless PATCH puts sessions back to scheduled, every class that starts does
\* so under the tenant lock of a request that passed the quota check: neither
\* a stale row nor a concurrent start gets around it.
THEOREM StartsAreMetered ==
  ASSUME "scheduled" \notin PatchStatuses
  PROVE  Spec => EveryStartIsMetered
<1>1. MeterInv /\ [Next]_vars =>
        [\A s \in Sessions : row[s].status # "live" /\ row'[s].status = "live" =>
           \E r \in Requests : /\ req[r].pc = "update" /\ req[r].s = s
                               /\ lock[Tenant(s)] = r]_vars
  <2>. SUFFICES ASSUME MeterInv, [Next]_vars, NEW s \in Sessions,
                       row[s].status # "live", row'[s].status = "live"
                PROVE  \E r \in Requests : /\ req[r].pc = "update" /\ req[r].s = s
                                           /\ lock[Tenant(s)] = r
    OBVIOUS
  <2>1. PICK r \in Requests : GoLive(r) /\ req[r].s = s
    BY StatusStep DEF MeterInv
  <2>2. req[r].pc = "update" /\ row[s].status = "scheduled"
    BY <2>1 DEF GoLive, Startable
  <2>. QED  BY <2>1, <2>2 DEF MeterInv, Metered
<1>. QED  BY <1>1, MeterInit, MeterStep, PTL DEF Spec, EveryStartIsMetered

-------------------------------------------------------------------------------
(* A spent credential does not match again.                                 *)

\* Credentials are numbered as they are minted.
MintedSoFar == \A s \in Sessions : row[s].nonce <= minted /\ spent[s] <= minted

NonceInv == TypeOK /\ MintedSoFar /\ SpentCredentialNeverMatches

LEMMA NonceInit == Init => NonceInv
BY TypeInit DEF Init, NonceInv, MintedSoFar, SpentCredentialNeverMatches, Fresh

\* What a step may do to the credential of a row.
NonceKept(s) ==
  /\ spent'[s] = spent[s]
  /\ row'[s].nonce \in {0, row[s].nonce}
  /\ \/ row'[s].nonce = 0
     \/ row'[s].status # "ended"
     \/ row'[s].status = row[s].status

LEMMA NonceStep == NonceInv /\ [Next]_vars => NonceInv'
<1>. SUFFICES ASSUME NonceInv, [Next]_vars, NEW s \in Sessions
              PROVE  /\ row'[s].nonce <= minted' /\ spent'[s] <= minted'
                     /\ row'[s].nonce # 0 => row'[s].nonce > spent'[s] /\ row'[s].status # "ended"
  BY TypeStep DEF NonceInv, MintedSoFar, SpentCredentialNeverMatches
<1>0. /\ row \in [Sessions -> Row] /\ row[s] \in Row /\ spent \in [Sessions -> Nat]
      /\ minted \in Nat /\ \A r \in Requests : req[r].s \in Sessions
      /\ row[s].nonce <= minted /\ spent[s] <= minted
      /\ row[s].nonce # 0 => row[s].nonce > spent[s] /\ row[s].status # "ended"
  BY DEF NonceInv, TypeOK, Request, MintedSoFar, SpentCredentialNeverMatches
<1>. DEFINE Goal == /\ row'[s].nonce <= minted' /\ spent'[s] <= minted'
                    /\ row'[s].nonce # 0 => row'[s].nonce > spent'[s] /\ row'[s].status # "ended"
<1>1. ASSUME NonceKept(s), minted' = minted PROVE Goal
  BY <1>0, <1>1 DEF NonceKept, Row
<1>2. ASSUME NEW r \in Requests, GoLive(r) PROVE Goal
  <2>1. CASE req[r].s = s
    BY <1>0, <1>2, <2>1 DEF GoLive, Row
  <2>2. CASE req[r].s # s
    BY <1>0, <1>2, <2>2 DEF GoLive, Row
  <2>. QED  BY <2>1, <2>2
<1>3. ASSUME NEW r \in Requests, StartNowCreate(r) \/ StartNowCleanup(r) PROVE Goal
  <2>1. NonceKept(s) /\ minted' = minted
    BY <1>0, <1>3 DEF StartNowCreate, StartNowCleanup, Fresh, NonceKept, Row
  <2>. QED  BY <1>1, <2>1
<1>4. ASSUME NEW o \in Sessions, EndClass(o) \/ SweepEnd(o) \/ DeleteSeries(o) PROVE Goal
  <2>1. CASE EndClass(o)
    BY <1>0, <1>1, <2>1 DEF EndClass, NonceKept, Row
  <2>2. CASE SweepEnd(o)
    BY <1>0, <1>1, <2>2 DEF SweepEnd, NonceKept, Row
  <2>3. CASE DeleteSeries(o)
    BY <1>0, <1>1, <2>3 DEF DeleteSeries, NonceKept, Row
  <2>. QED  BY <1>4, <2>1, <2>2, <2>3
<1>5. ASSUME NEW o \in Sessions, Patch(o) PROVE Goal
  <2>1. PICK status \in PatchStatuses \cup {row[o].status},
             minutes \in PatchMinutes \cup {row[o].minutes} :
          row' = [row EXCEPT ![o] = [@ EXCEPT !.status = status, !.minutes = minutes]]
    BY <1>5 DEF Patch
  <2>2. row'[s].nonce = row[s].nonce
    BY <1>0, <2>1 DEF Row
  <2>3. row'[s].status # "ended" \/ row'[s].status = row[s].status
    BY <1>0, <2>1, NumbersAssumption DEF Row
  <2>. QED  BY <1>0, <1>5, <2>2, <2>3 DEF Patch
<1>6. ASSUME NEW o \in Sessions, ConsumePublishNonce(o) PROVE Goal
  <2>1. CASE o = s
    BY <1>0, <1>6, <2>1 DEF ConsumePublishNonce, Row
  <2>2. CASE o # s
    BY <1>0, <1>6, <2>2 DEF ConsumePublishNonce, Row
  <2>. QED  BY <2>1, <2>2
<1>7. ASSUME UNCHANGED <<row, minted, spent>> PROVE Goal
  BY <1>0, <1>7
<1>. QED
  BY <1>2, <1>3, <1>4, <1>5, <1>6, <1>7
  DEF Next, Step, vars, GoLiveLoad, StartNowConflicts, StartNowQuota, Admit,
      Refuse, GoLiveRejected, Abort, Tick

\* However re-mints, ends, PATCHes and presentations interleave, a credential the media
\* server has accepted never matches again, and an ended class has none.
THEOREM SpentForGood == Spec => []SpentCredentialNeverMatches
BY NonceInit, NonceStep, PTL DEF Spec, NonceInv

-------------------------------------------------------------------------------
(* The handlers implement LiveClass.                                        *)

\* The times and the duration of a row go with its status.
RowsAreSane ==
  \A s \in Sessions :
    /\ row[s].minutes = Minutes[s]
    /\ row[s].status \in {"none", "scheduled"} => row[s].started = Null /\ row[s].ended = Null
    /\ row[s].status = "live" => row[s].started \in 0..now /\ row[s].ended = Null
    /\ row[s].status = "ended" => /\ row[s].started \in 0..now /\ row[s].ended \in 0..now
                                  /\ row[s].started <= row[s].ended

\* A request goes on with the duration of a row that exists.
RequestsAreSane ==
  \A r \in Requests : req[r].pc # "idle" =>
    /\ req[r].minutes = Minutes[req[r].s]
    /\ req[r].pc \in {"check", "update", "cleanup"} => row[req[r].s].status # "none"

\* The tenant's row is locked by requests that are about to run their UPDATE.
LockIsUsed ==
  \A r \in Requests, t \in Tenants :
    lock[t] = r => req[r].pc = "update" /\ Tenant(req[r].s) = t

Others(s) == {o \in Sessions \ {s} : Tenant(o) = Tenant(s)}
HasRoom(s) == MinuteLimit[Tenant(s)] >= 0 =>
                SumFunctionOnSet(MinutesHeld, Others(s)) + Minutes[s] <= MinuteLimit[Tenant(s)]

\* What the quota check found holds for as long as the lock is held.
RoomIsKept == \A r \in Requests : lock[Tenant(req[r].s)] = r => HasRoom(req[r].s)

ClassInv == MeterInv /\ RowsAreSane /\ RequestsAreSane /\ LockIsUsed /\ RoomIsKept

\* PATCH can cancel a session, and change nothing else.
OnlyCancels == PatchStatuses \subseteq {"cancelled"} /\ PatchMinutes = {}

LEMMA PatchCancels ==
  ASSUME OnlyCancels, TypeOK, NEW s \in Sessions, Patch(s)
  PROVE  /\ row[s].status \in Existing /\ row' = [row EXCEPT ![s] = [@ EXCEPT !.status = "cancelled"]]
         /\ UNCHANGED <<lock, req, now, minted, spent>>
<1>1. PICK status \in PatchStatuses \cup {row[s].status},
           minutes \in PatchMinutes \cup {row[s].minutes} :
        /\ status # row[s].status \/ minutes # row[s].minutes
        /\ row' = [row EXCEPT ![s] = [@ EXCEPT !.status = status, !.minutes = minutes]]
  BY DEF Patch
<1>2. status = "cancelled" /\ minutes = row[s].minutes /\ row[s] \in Row
  BY <1>1 DEF OnlyCancels, TypeOK
<1>3. [row[s] EXCEPT !.status = status, !.minutes = minutes] = [row[s] EXCEPT !.status = "cancelled"]
  BY <1>2 DEF Row
<1>. QED  BY <1>1, <1>3 DEF Patch

LEMMA RowsStep ==
  ASSUME OnlyCancels, TypeOK, RowsAreSane, [Next]_vars
  PROVE  RowsAreSane'
<1>. USE NumbersAssumption DEF Null
<1>. DEFINE Sane(x, t, s) ==
              /\ x.minutes = Minutes[s]
              /\ x.status \in {"none", "scheduled"} => x.started = -1 /\ x.ended = -1
              /\ x.status = "live" => x.started \in 0..t /\ x.ended = -1
              /\ x.status = "ended" => /\ x.started \in 0..t /\ x.ended \in 0..t
                                       /\ x.started <= x.ended
<1>0. /\ row \in [Sessions -> Row] /\ now \in Nat /\ \A r \in Requests : req[r].s \in Sessions
      /\ \A s \in Sessions : Sane(row[s], now, s) /\ row[s] \in Row
  BY DEF TypeOK, Request, RowsAreSane
<1>. SUFFICES ASSUME NEW s \in Sessions PROVE Sane(row'[s], now', s)
  BY DEF RowsAreSane
<1>1. ASSUME NEW r \in Requests, GoLive(r) PROVE Sane(row'[s], now', s)
  <2>1. CASE req[r].s = s
    BY <1>0, <1>1, <2>1 DEF GoLive, Startable, Coalesce, Row
  <2>2. CASE req[r].s # s
    BY <1>0, <1>1, <2>2 DEF GoLive
  <2>. QED  BY <2>1, <2>2
<1>2. ASSUME NEW r \in Requests, StartNowCreate(r) PROVE Sane(row'[s], now', s)
  BY <1>0, <1>2 DEF StartNowCreate, Fresh
<1>3. ASSUME NEW r \in Requests, StartNowCleanup(r) PROVE Sane(row'[s], now', s)
  BY <1>0, <1>3 DEF StartNowCleanup, Row
<1>4. ASSUME NEW o \in Sessions, EndClass(o) PROVE Sane(row'[s], now', s)
  <2>1. CASE o = s
    BY <1>0, <1>4, <2>1 DEF EndClass, Coalesce, Row
  <2>2. CASE o # s
    BY <1>0, <1>4, <2>2 DEF EndClass
  <2>. QED  BY <2>1, <2>2
<1>5. ASSUME NEW o \in Sessions, SweepEnd(o) PROVE Sane(row'[s], now', s)
  <2>1. CASE o = s
    BY <1>0, <1>5, <2>1 DEF SweepEnd, Row
  <2>2. CASE o # s
    BY <1>0, <1>5, <2>2 DEF SweepEnd
  <2>. QED  BY <2>1, <2>2
<1>6. ASSUME NEW o \in Sessions, Patch(o) PROVE Sane(row'[s], now', s)
  BY <1>0, <1>6, PatchCancels DEF Row
<1>7. ASSUME NEW o \in Sessions, DeleteSeries(o) PROVE Sane(row'[s], now', s)
  BY <1>0, <1>7 DEF DeleteSeries, Row
<1>8. ASSUME NEW o \in Sessions, ConsumePublishNonce(o) PROVE Sane(row'[s], now', s)
  BY <1>0, <1>8 DEF ConsumePublishNonce, Row
<1>9. CASE Tick
  BY <1>0, <1>9 DEF Tick
<1>10. ASSUME UNCHANGED <<row, now>> PROVE Sane(row'[s], now', s)
  BY <1>0, <1>10
<1>. QED
  BY <1>1, <1>2, <1>3, <1>4, <1>5, <1>6, <1>7, <1>8, <1>9, <1>10
  DEF Next, Step, vars, GoLiveLoad, StartNowConflicts, StartNowQuota, Admit,
      Refuse, GoLiveRejected, Abort

\* Whatever happens to a row, it does not cease to have been there.
LEMMA RowsRemain ==
  ASSUME TypeOK, [Next]_vars, NEW s \in Sessions, row[s].status # "none"
  PROVE  row'[s].status # "none"
<1>0. /\ row \in [Sessions -> Row] /\ row[s] \in Row /\ \A r \in Requests : req[r].s \in Sessions
  BY DEF TypeOK, Request
<1>1. ASSUME NEW r \in Requests, GoLive(r) PROVE row'[s].status # "none"
  BY <1>0, <1>1 DEF GoLive, Row
<1>2. ASSUME NEW r \in Requests, StartNowCreate(r) \/ StartNowCleanup(r)
      PROVE  row'[s].status # "none"
  BY <1>0, <1>2 DEF StartNowCreate, StartNowCleanup, Fresh, Row
<1>3. ASSUME NEW o \in Sessions, EndClass(o) \/ SweepEnd(o) PROVE row'[s].status # "none"
  <2>1. CASE EndClass(o)
    BY <1>0, <2>1 DEF EndClass, Row
  <2>2. CASE SweepEnd(o)
    BY <1>0, <2>2 DEF SweepEnd, Row
  <2>. QED  BY <1>3, <2>1, <2>2
<1>4. ASSUME NEW o \in Sessions, DeleteSeries(o) \/ ConsumePublishNonce(o)
      PROVE  row'[s].status # "none"
  BY <1>0, <1>4 DEF DeleteSeries, ConsumePublishNonce, Row
<1>5. ASSUME NEW o \in Sessions, Patch(o) PROVE row'[s].status # "none"
  <2>1. PICK status \in PatchStatuses \cup {row[o].status},
             minutes \in PatchMinutes \cup {row[o].minutes} :
          row' = [row EXCEPT ![o] = [@ EXCEPT !.status = status, !.minutes = minutes]]
    BY <1>5 DEF Patch
  <2>2. status # "none"
    BY <1>5, <2>1, NumbersAssumption DEF Patch
  <2>. QED  BY <1>0, <2>1, <2>2 DEF Row
<1>6. ASSUME UNCHANGED row PROVE row'[s].status # "none"
  BY <1>6
<1>. QED
  BY <1>1, <1>2, <1>3, <1>4, <1>5, <1>6
  DEF Next, Step, vars, GoLiveLoad, StartNowConflicts, StartNowQuota, Admit,
      Refuse, GoLiveRejected, Abort, Tick

LEMMA RequestsStep ==
  ASSUME TypeOK, RowsAreSane, RequestsAreSane, [Next]_vars
  PROVE  RequestsAreSane'
<1>. DEFINE Sane(x, y) == x.pc # "idle" =>
               /\ x.minutes = Minutes[x.s]
               /\ x.pc \in {"check", "update", "cleanup"} => y[x.s].status # "none"
<1>0. /\ row \in [Sessions -> Row] /\ req \in [Requests -> Request]
      /\ \A r \in Requests : req[r] \in Request /\ req[r].s \in Sessions
      /\ \A r \in Requests : Sane(req[r], row)
      /\ \A s \in Sessions : row[s].minutes = Minutes[s]
  BY DEF TypeOK, Request, RequestsAreSane, RowsAreSane
<1>. SUFFICES ASSUME NEW q \in Requests PROVE Sane(req'[q], row')
  BY DEF RequestsAreSane
<1>1. ASSUME req'[q].pc # "idle", req[q].pc # "idle", req'[q].s = req[q].s,
             req'[q].minutes = req[q].minutes,
             req'[q].pc \in {"check", "update", "cleanup"} =>
               \/ req[q].pc \in {"check", "update", "cleanup"}
               \/ row'[req[q].s].status # "none"
      PROVE  Sane(req'[q], row')
  BY <1>0, <1>1, RowsRemain
<1>2. ASSUME req'[q] = req[q] PROVE Sane(req'[q], row')
  BY <1>0, <1>2, RowsRemain
<1>3. ASSUME NEW r \in Requests, NEW s \in Sessions,
             GoLiveLoad(r, s) \/ StartNowConflicts(r, s)
      PROVE  Sane(req'[q], row')
  BY <1>0, <1>2, <1>3 DEF GoLiveLoad, StartNowConflicts
<1>4. ASSUME NEW r \in Requests, NEW pc \in Pcs, Goto(r, pc),
             pc = "idle" \/ req[r].pc \in {"check", "update"} \/ pc \in {"quota", "create"},
             req[r].pc # "idle"
      PROVE  Sane(req'[q], row')
  <2>1. CASE q # r
    BY <1>0, <1>2, <1>4, <2>1 DEF Goto
  <2>2. CASE q = r /\ pc = "idle"
    BY <1>0, <1>4, <2>2 DEF Goto, Idle
  <2>3. CASE q = r /\ pc # "idle"
    <3>1. req'[q] = [req[q] EXCEPT !.pc = pc]
      BY <1>0, <1>4, <2>3 DEF Goto
    <3>. QED  BY <1>0, <1>1, <1>4, <2>3, <3>1 DEF Request
  <2>. QED  BY <2>1, <2>2, <2>3
<1>5. ASSUME NEW r \in Requests, Step(r) \/ Abort(r) PROVE Sane(req'[q], row')
  <2>1. CASE StartNowQuota(r) \/ StartNowCleanup(r) \/ Admit(r) \/ Refuse(r)
    BY <1>4, <2>1 DEF StartNowQuota, StartNowCleanup, Admit, Refuse
  <2>2. CASE GoLive(r) \/ GoLiveRejected(r) \/ Abort(r)
    BY <1>4, <2>2 DEF GoLive, GoLiveRejected, Abort, Return
  <2>3. CASE StartNowCreate(r)
    <3>1. CASE q = r
      <4>1. req'[q] = [req[q] EXCEPT !.pc = "check"] /\ req[q].pc = "create"
        BY <1>0, <2>3, <3>1 DEF StartNowCreate, Goto
      <4>2. row'[req[q].s].status # "none"
        BY <1>0, <2>3, <3>1 DEF StartNowCreate, Fresh
      <4>. QED  BY <1>0, <1>1, <4>1, <4>2 DEF Request
    <3>2. CASE q # r
      BY <1>0, <1>2, <2>3, <3>2 DEF StartNowCreate, Goto
    <3>. QED  BY <3>1, <3>2
  <2>. QED  BY <1>5, <2>1, <2>2, <2>3 DEF Step
<1>6. ASSUME UNCHANGED req PROVE Sane(req'[q], row')
  BY <1>2, <1>6
<1>. QED
  BY <1>3, <1>5, <1>6
  DEF Next, vars, EndClass, SweepEnd, Patch, DeleteSeries, ConsumePublishNonce, Tick

\* Who holds a lock has just been admitted, or held it before and did nothing.
LEMMA LockFrom ==
  ASSUME TypeOK, LockIsUsed, [Next]_vars, NEW q \in Requests, NEW t \in Tenants, lock'[t] = q
  PROVE  \/ Admit(q) /\ t = Tenant(req[q].s)
         \/ lock[t] = q /\ req'[q] = req[q]
<1>0. /\ req \in [Requests -> Request] /\ lock \in [Tenants -> Requests \cup {NoRequest}]
      /\ \A r \in Requests : req[r] \in Request /\ req[r].s \in Sessions
      /\ NoRequest \notin Requests
  BY SessionsAssumption DEF TypeOK, Request
<1>. DEFINE Kept == lock[t] = q /\ req'[q] = req[q]
<1>1. ASSUME NEW r \in Requests, req[r].pc # "update", UNCHANGED lock,
             \A o \in Requests \ {r} : req'[o] = req[o]
      PROVE  Kept
  BY <1>0, <1>1 DEF LockIsUsed
<1>2. ASSUME NEW r \in Requests, Return(r) PROVE Kept
  <2>1. lock[t] = q /\ q # r
    BY <1>0, <1>2 DEF Return
  <2>. QED  BY <1>2, <2>1, ReturnStep
<1>3. ASSUME NEW r \in Requests, Admit(r)
      PROVE  Kept \/ (Admit(q) /\ t = Tenant(req[q].s))
  <2>1. CASE q = r
    <3>1. lock[t] = q => FALSE
      BY <1>3, <2>1 DEF LockIsUsed, Admit
    <3>. QED  BY <1>0, <1>3, <2>1, <3>1 DEF Admit
  <2>2. CASE q # r
    BY <1>0, <1>3, <2>2 DEF Admit, Goto
  <2>. QED  BY <2>1, <2>2
<1>4. ASSUME NEW r \in Requests, NEW s \in Sessions, GoLiveLoad(r, s) \/ StartNowConflicts(r, s)
      PROVE  Kept
  BY <1>0, <1>1, <1>4 DEF GoLiveLoad, StartNowConflicts
<1>5. ASSUME NEW r \in Requests,
             StartNowQuota(r) \/ StartNowCreate(r) \/ StartNowCleanup(r) \/ Refuse(r)
      PROVE  Kept
  BY <1>0, <1>1, <1>5 DEF StartNowQuota, StartNowCreate, StartNowCleanup, Refuse, Goto
<1>6. ASSUME NEW r \in Requests, GoLive(r) \/ GoLiveRejected(r) \/ Abort(r) PROVE Kept
  BY <1>2, <1>6 DEF GoLive, GoLiveRejected, Abort
<1>7. ASSUME UNCHANGED <<req, lock>> PROVE Kept
  BY <1>7
<1>. QED
  BY <1>3, <1>4, <1>5, <1>6, <1>7
  DEF Next, Step, vars, EndClass, SweepEnd, Patch, DeleteSeries, ConsumePublishNonce, Tick

LEMMA LockStep == ASSUME TypeOK, LockIsUsed, [Next]_vars PROVE LockIsUsed'
<1>. SUFFICES ASSUME NEW q \in Requests, NEW t \in Tenants, lock'[t] = q
              PROVE  req'[q].pc = "update" /\ Tenant(req'[q].s) = t
  BY DEF LockIsUsed, Tenant
<1>1. CASE Admit(q) /\ t = Tenant(req[q].s)
  <2>1. req[q] \in Request /\ req \in [Requests -> Request]
    BY DEF TypeOK
  <2>2. req'[q] = [req[q] EXCEPT !.pc = "update"]
    BY <1>1, <2>1 DEF Admit, Goto
  <2>. QED  BY <1>1, <2>1, <2>2 DEF Request
<1>2. CASE lock[t] = q /\ req'[q] = req[q]
  BY <1>2 DEF LockIsUsed
<1>. QED  BY <1>1, <1>2, LockFrom

\* The minutes that a row x holds at time t.
Amount(x, t) ==
  IF x.status = "live" /\ x.started # Null /\ x.started \div MonthLength = t \div MonthLength
  THEN x.minutes ELSE 0

LEMMA HeldIs ==
  /\ MinutesHeld = [s \in Sessions |-> Amount(row[s], now)]
  /\ MinutesHeld' = [s \in Sessions |-> Amount(row'[s], now')]
BY DEF MinutesHeld, Charge, ThisMonth, Amount

LEMMA AmountType ==
  /\ TypeOK => \A s \in Sessions : Amount(row[s], now) \in Nat
  /\ TypeOK' => \A s \in Sessions : Amount(row'[s], now') \in Nat
BY DEF TypeOK, Row, Amount

LEMMA ChargeType ==
  ASSUME TypeOK, RowsAreSane, NEW s \in Sessions
  PROVE  Charge(s) \in Nat /\ MinutesHeld[s] <= Charge(s)
<1>1. row[s] \in Row
  BY DEF TypeOK
<1>2. row[s].status = "ended" => row[s].ended - row[s].started \in Nat
  BY <1>1 DEF RowsAreSane, Row
<1>. QED  BY <1>1, <1>2 DEF Charge, MinutesHeld, Row

\* Months follow each other.
LEMMA MonthsPass ==
  \A a, b \in Nat : a <= b =>
    /\ a \div MonthLength <= b \div MonthLength
    /\ a \div MonthLength \in Int /\ b \div MonthLength \in Int
<1>1. ASSUME NEW a \in Nat, NEW b \in Nat, NEW m \in Nat \ {0}, a <= b
      PROVE  a \div m <= b \div m /\ a \div m \in Int /\ b \div m \in Int
  BY <1>1
<1>. QED  BY <1>1, NumbersAssumption

\* Only the UPDATE of go-live on a scheduled row takes minutes.
LEMMA HeldShrinks ==
  ASSUME OnlyCancels, TypeOK, RowsAreSane, [Next]_vars, NEW s \in Sessions,
         \A r \in Requests : GoLive(r) /\ req[r].s = s => row[s].status = "live"
  PROVE  Amount(row'[s], now') <= Amount(row[s], now)
<1>. USE NumbersAssumption
<1>0. /\ row \in [Sessions -> Row] /\ row[s] \in Row /\ now \in Nat
      /\ \A r \in Requests : req[r].s \in Sessions
      /\ Amount(row[s], now) \in Nat
      /\ row[s].status = "live" => row[s].started \in 0..now
  BY AmountType DEF TypeOK, Request, RowsAreSane
<1>. DEFINE Goal == Amount(row'[s], now') <= Amount(row[s], now)
<1>1. ASSUME now' = now, row'[s] = row[s] PROVE Goal
  BY <1>0, <1>1
<1>2. ASSUME row'[s].status # "live" PROVE Goal
  BY <1>0, <1>2 DEF Amount
<1>3. ASSUME now' = now, row'[s].status = row[s].status, row'[s].minutes = row[s].minutes,
             row'[s].started = row[s].started
      PROVE  Goal
  BY <1>0, <1>3 DEF Amount
<1>4. ASSUME NEW r \in Requests, GoLive(r) PROVE Goal
  <2>1. CASE req[r].s = s
    <3>1. row[s].status = "live" /\ row[s].started # Null
      BY <1>0, <1>4, <2>1 DEF Null
    <3>2. row'[s] = [row[s] EXCEPT !.status = "live", !.started = row[s].started,
                                   !.nonce = minted + 1, !.expires = now + NonceTtl]
      BY <1>0, <1>4, <2>1, <3>1 DEF GoLive, Coalesce
    <3>3. now' = now
      BY <1>4 DEF GoLive
    <3>. QED  BY <1>0, <1>3, <3>1, <3>2, <3>3 DEF Row
  <2>2. CASE req[r].s # s
    BY <1>0, <1>1, <1>4, <2>2 DEF GoLive
  <2>. QED  BY <2>1, <2>2
<1>5. ASSUME NEW r \in Requests, StartNowCreate(r) PROVE Goal
  <2>1. CASE req[r].s = s
    BY <1>0, <1>2, <1>5, <2>1 DEF StartNowCreate, Fresh
  <2>2. CASE req[r].s # s
    BY <1>0, <1>1, <1>5, <2>2 DEF StartNowCreate
  <2>. QED  BY <2>1, <2>2
<1>6. ASSUME NEW r \in Requests, StartNowCleanup(r) PROVE Goal
  <2>1. CASE req[r].s = s
    BY <1>0, <1>2, <1>6, <2>1 DEF StartNowCleanup, Row
  <2>2. CASE req[r].s # s
    BY <1>0, <1>1, <1>6, <2>2 DEF StartNowCleanup
  <2>. QED  BY <2>1, <2>2
<1>7. ASSUME NEW o \in Sessions, EndClass(o) \/ SweepEnd(o) PROVE Goal
  <2>1. CASE o = s
    <3>1. row'[s].status = "ended"
      <4>1. CASE EndClass(o)
        BY <1>0, <2>1, <4>1 DEF EndClass, Row
      <4>2. CASE SweepEnd(o)
        BY <1>0, <2>1, <4>2 DEF SweepEnd, Row
      <4>. QED  BY <1>7, <4>1, <4>2
    <3>. QED  BY <1>2, <3>1
  <2>2. CASE o # s
    BY <1>0, <1>1, <1>7, <2>2 DEF EndClass, SweepEnd
  <2>. QED  BY <2>1, <2>2
<1>8. ASSUME NEW o \in Sessions, Patch(o) \/ DeleteSeries(o) PROVE Goal
  <2>1. /\ \E new \in {"cancelled", "deleted"} : row' = [row EXCEPT ![o].status = new]
        /\ now' = now
    BY <1>8, PatchCancels DEF DeleteSeries
  <2>2. CASE o = s
    BY <1>0, <1>2, <2>1, <2>2 DEF Row
  <2>3. CASE o # s
    BY <1>0, <1>1, <2>1, <2>3
  <2>. QED  BY <2>2, <2>3
<1>9. ASSUME NEW o \in Sessions, ConsumePublishNonce(o) PROVE Goal
  BY <1>0, <1>3, <1>9 DEF ConsumePublishNonce, Row
<1>10. CASE Tick
  <2>1. now' = now + 1 /\ row' = row
    BY <1>10 DEF Tick
  <2>2. CASE row[s].status = "live"
    <3>0. /\ row[s].started \in Nat /\ now' \in Nat
          /\ row[s].started <= now /\ now <= now'
      BY <1>0, <2>1, <2>2
    <3>a. /\ row[s].started \div MonthLength <= now \div MonthLength
          /\ row[s].started \div MonthLength \in Int
      BY ONLY <1>0, <3>0, MonthsPass
    <3>b. /\ now \div MonthLength <= now' \div MonthLength
          /\ now \div MonthLength \in Int /\ now' \div MonthLength \in Int
      BY ONLY <1>0, <3>0, MonthsPass
    <3>1. row[s].started \div MonthLength = now' \div MonthLength
            => row[s].started \div MonthLength = now \div MonthLength
      BY ONLY <3>a, <3>b
    <3>. QED  BY <1>0, <2>1, <2>2, <3>1 DEF Amount, Row
  <2>3. CASE row[s].status # "live"
    BY <1>2, <2>1, <2>3
  <2>. QED  BY <2>2, <2>3
<1>11. ASSUME UNCHANGED <<row, now>> PROVE Goal
  BY <1>1, <1>11
<1>. QED
  BY <1>4, <1>5, <1>6, <1>7, <1>8, <1>9, <1>10, <1>11
  DEF Next, Step, vars, GoLiveLoad, StartNowConflicts, StartNowQuota, Admit,
      Refuse, GoLiveRejected, Abort

LEMMA OthersFinite == ASSUME NEW s \in Sessions PROVE IsFiniteSet(Others(s)) /\ Others(s) \subseteq Sessions
<1>1. Others(s) \in SUBSET Sessions
  BY DEF Others
<1>. QED  BY <1>1, SessionsAssumption, FS_Subset

\* The check finds room beside the classes on air, as the minutes of those that are over
\* count as well.
LEMMA AdmitFindsRoom ==
  ASSUME TypeOK, RowsAreSane, RequestsAreSane, NEW r \in Requests, Admit(r)
  PROVE  HasRoom(req[r].s)
<1>. DEFINE s == req[r].s
            t == Tenant(s)
            charge == [o \in Sessions |-> Charge(o)]
            held == SumFunctionOnSet(MinutesHeld, Others(s))
            used == SumFunctionOnSet(charge, Others(s))
<1>1. s \in Sessions /\ req[r].minutes = Minutes[s] /\ Minutes[s] \in Nat
  BY NumbersAssumption DEF TypeOK, Request, RequestsAreSane, Admit
<1>2. t \in Tenants /\ MinuteLimit[t] \in Int
  BY <1>1, TenantType, NumbersAssumption
<1>3. used = Used(t, {s})
  BY DEF Used, Others
<1>4. IsFiniteSet(Others(s)) /\ \A o \in Others(s) : charge[o] \in Nat
  BY <1>1, OthersFinite, ChargeType
<1>5. \A o \in Others(s) : MinutesHeld[o] \in Int /\ MinutesHeld[o] <= charge[o]
  BY <1>1, OthersFinite, ChargeType, AmountType, HeldIs
<1>6. held <= used /\ used \in Nat /\ held \in Int
  BY <1>4, <1>5, SumLeq, SumNat, SumInt
<1>7. MinuteLimit[t] >= 0 => Minutes[s] <= MinuteLimit[t] - used
  BY <1>1, <1>2, <1>3, <1>6 DEF Admit, LimitReached
<1>8. (MinuteLimit[t] >= 0 => held + Minutes[s] <= MinuteLimit[t]) => HasRoom(s)
  BY DEF HasRoom
<1>. HIDE DEF s, t, held, used
<1>. QED  BY <1>1, <1>2, <1>6, <1>7, <1>8 DEF s

LEMMA RoomStep ==
  ASSUME OnlyCancels, ClassInv, [Next]_vars
  PROVE  RoomIsKept'
<1>0. TypeOK /\ TypeOK' /\ RowsAreSane /\ RequestsAreSane /\ LockIsUsed /\ RoomIsKept /\ Metered
  BY TypeStep DEF ClassInv, MeterInv
<1>. SUFFICES ASSUME NEW q \in Requests, lock'[Tenant(req'[q].s)] = q PROVE HasRoom(req[q].s)'
  BY DEF RoomIsKept, Tenant
<1>. DEFINE s == req[q].s
            t == Tenant(s)
<1>1. req'[q].s \in Sessions /\ Tenant(req'[q].s) \in Tenants /\ s \in Sessions
  BY <1>0, TenantType DEF TypeOK, Request
<1>2. \/ Admit(q) /\ req'[q].s = s
      \/ lock[t] = q /\ req'[q] = req[q]
  <2>1. Admit(q) => req'[q].s = s
    BY <1>0 DEF Admit, Goto, TypeOK, Request
  <2>. QED  BY <1>0, <1>1, <2>1, LockFrom
<1>3. HasRoom(s)
  BY <1>0, <1>2, AdmitFindsRoom DEF RoomIsKept
<1>4. lock[t] = q \/ lock[t] = NoRequest
  BY <1>2 DEF Admit
<1>5. ASSUME NEW o \in Others(s) PROVE Amount(row'[o], now') <= Amount(row[o], now)
  <2>1. ASSUME NEW r \in Requests, GoLive(r), req[r].s = o, row[o].status # "live" PROVE FALSE
    <3>1. row[o].status = "scheduled" /\ req[r].pc = "update"
      BY <2>1 DEF GoLive, Startable
    <3>2. lock[t] = r
      BY <1>0, <2>1, <3>1 DEF Metered, Others
    <3>3. r = q
      BY <1>4, <3>2, SessionsAssumption
    <3>. QED  BY <2>1, <3>3 DEF Others
  <2>2. o \in Sessions
    BY DEF Others
  <2>. QED  BY <1>0, <2>1, <2>2, HeldShrinks
<1>6. IsFiniteSet(Others(s)) /\ Others(s) \subseteq Sessions
  BY <1>1, OthersFinite
<1>. DEFINE before == SumFunctionOnSet(MinutesHeld, Others(s))
            after == SumFunctionOnSet(MinutesHeld', Others(s))
<1>7. after <= before /\ after \in Int /\ before \in Int
  BY <1>0, <1>5, <1>6, HeldIs, AmountType, SumLeq, SumInt
<1>8. MinuteLimit[t] >= 0 => before + Minutes[s] <= MinuteLimit[t]
  BY <1>3 DEF HasRoom
<1>9. MinuteLimit[t] \in Int /\ Minutes[s] \in Nat
  BY <1>1, TenantType, NumbersAssumption
<1>10. (MinuteLimit[t] >= 0 => after + Minutes[s] <= MinuteLimit[t]) => HasRoom(req[q].s)'
  <2>1. req'[q].s = s
    BY <1>2
  <2>2. HasRoom(req[q].s)' <=> (MinuteLimit[Tenant(req'[q].s)] >= 0 =>
          SumFunctionOnSet(MinutesHeld', Others(req'[q].s)) + Minutes[req'[q].s]
            <= MinuteLimit[Tenant(req'[q].s)])
    BY DEF HasRoom, Others, Tenant
  <2>. QED  BY <2>1, <2>2
<1>. HIDE DEF before, after, t, s
<1>. QED  BY <1>7, <1>8, <1>9, <1>10

LEMMA ClassInit == Init => ClassInv
<1>. SUFFICES ASSUME Init PROVE ClassInv
  OBVIOUS
<1>. USE SessionsAssumption
<1>1. RowsAreSane
  BY DEF Init, RowsAreSane, Fresh
<1>2. RequestsAreSane
  BY DEF Init, RequestsAreSane, Idle
<1>3. \A t \in Tenants, r \in Requests : lock[t] # r
  BY DEF Init
<1>4. \A r \in Requests : req[r].s \in Sessions /\ Tenant(req[r].s) \in Tenants
  BY TypeInit, TenantType DEF TypeOK, Request
<1>. QED  BY <1>1, <1>2, <1>3, <1>4, MeterInit DEF ClassInv, LockIsUsed, RoomIsKept

LEMMA ClassStep ==
  ASSUME OnlyCancels
  PROVE  ClassInv /\ [Next]_vars => ClassInv'
<1>. SUFFICES ASSUME ClassInv, [Next]_vars PROVE ClassInv'
  OBVIOUS
<1>1. "scheduled" \notin PatchStatuses
  BY DEF OnlyCancels
<1>2. TypeOK /\ MeterInv'
  BY <1>1, MeterStep DEF ClassInv, MeterInv
<1>. QED  BY <1>2, RowsStep, RequestsStep, LockStep, RoomStep DEF ClassInv

\* A row that is not on air afterwards: the session moves, and gives back its minutes.
LEMMA RowMoves ==
  ASSUME TypeOK, NEW s \in Sessions, NEW x, row' = [row EXCEPT ![s] = x], now' = now,
         NEW status, x.status = status, status # "live"
  PROVE  Class!Become(s, status) /\ Class!GiveBack(s)
<1>1. row \in [Sessions -> Row]
  BY DEF TypeOK
<1>2. StatusOf' = [StatusOf EXCEPT ![s] = status]
  BY <1>1 DEF StatusOf
<1>3. Amount(x, now) = 0
  BY DEF Amount
<1>4. MinutesHeld' = [MinutesHeld EXCEPT ![s] = 0]
  BY <1>1, <1>3, HeldIs
<1>. QED  BY <1>2, <1>4 DEF Class!Become, Class!GiveBack

\* What LiveClass does not speak of.
LEMMA RowStays ==
  ASSUME TypeOK, now' = now, DOMAIN row' = Sessions,
         \A s \in Sessions : /\ row'[s].status = row[s].status
                             /\ row[s].status = "live" =>
                                  /\ row'[s].started = row[s].started
                                  /\ row'[s].minutes = row[s].minutes
  PROVE  UNCHANGED Class!vars
<1>1. StatusOf' = StatusOf
  BY DEF StatusOf
<1>2. \A s \in Sessions : Amount(row'[s], now') = Amount(row[s], now)
  BY DEF Amount
<1>3. MinutesHeld' = MinutesHeld
  BY <1>2, HeldIs
<1>. QED  BY <1>1, <1>3 DEF Class!vars

LEMMA ClassMinutes ==
  \A t, h : Class!MinutesOf(t, h)
              = SumFunctionOnSet(h, {s \in Sessions : TenantOf[CourseOf[s]] = t})
BY DEF Class!MinutesOf, Class!SumFunctionOnSet, SumFunctionOnSet, Class!FoldFunctionOnSet,
       FoldFunctionOnSet, Class!MapThenFoldSet, MapThenFoldSet

\* The UPDATE of go-live on a scheduled row starts the class, within the plan.
LEMMA GoLiveStarts ==
  ASSUME ClassInv, NEW r \in Requests, GoLive(r), row[req[r].s].status = "scheduled"
  PROVE  Class!Start(req[r].s)
<1>. DEFINE s == req[r].s
            t == Tenant(s)
            new == [row[s] EXCEPT !.status = "live", !.started = now,
                                  !.nonce = minted + 1, !.expires = now + NonceTtl]
<1>1. /\ s \in Sessions /\ row \in [Sessions -> Row] /\ row[s] \in Row /\ now \in Nat
      /\ row[s].started = Null /\ now' = now
      /\ MinuteLimit[t] \in Int /\ TypeOK
  BY TenantType, NumbersAssumption
  DEF ClassInv, MeterInv, TypeOK, Request, RowsAreSane, GoLive
<1>2. row' = [row EXCEPT ![s] = new]
  BY <1>1 DEF GoLive, Coalesce
<1>3. new.status = "live"
  BY <1>1 DEF Row
<1>4. Class!Become(s, "live")
  <2>1. StatusOf' = [StatusOf EXCEPT ![s] = "live"]
    BY <1>1, <1>2, <1>3 DEF StatusOf
  <2>. QED  BY <2>1 DEF Class!Become
<1>5. StatusOf[s] = "scheduled" /\ \A o \in Sessions : StatusOf[o] = row[o].status
  BY <1>1 DEF StatusOf
<1>6. \A o \in Sessions \ {s} : StatusOf[o] = "live" =>
        CourseOf[o] # CourseOf[s] /\ TeacherOf[o] # TeacherOf[s]
  BY <1>5 DEF GoLive, Startable, CourseFree, TeacherFree, Live
<1>7. /\ \A o \in Others(s) : MinutesHeld'[o] = MinutesHeld[o] /\ MinutesHeld[o] \in Nat
      /\ MinutesHeld'[s] \in Nat /\ MinutesHeld'[s] <= Minutes[s] /\ Minutes[s] \in Nat
  <2>1. \A o \in Others(s) : o \in Sessions /\ row'[o] = row[o]
    BY <1>1, <1>2 DEF Others
  <2>2. \A o \in Others(s) : MinutesHeld'[o] = MinutesHeld[o] /\ MinutesHeld[o] \in Nat
    BY <1>1, <2>1, HeldIs, AmountType
  <2>3. Amount(new, now) \in Nat /\ Amount(new, now) <= Minutes[s] /\ Minutes[s] \in Nat
    <3>1. new.minutes = Minutes[s] /\ Minutes[s] \in Nat
      BY <1>1, NumbersAssumption DEF ClassInv, RowsAreSane, Row
    <3>. HIDE DEF new
    <3>. QED  BY <3>1 DEF Amount
  <2>4. MinutesHeld'[s] = Amount(new, now)
    BY <1>1, <1>2, HeldIs
  <2>. QED  BY <2>2, <2>3, <2>4
<1>8. MinutesHeld' = [MinutesHeld EXCEPT ![s] = MinutesHeld'[s]]
  <2>. HIDE DEF s
  <2>1. \A o \in Sessions \ {s} : MinutesHeld'[o] = MinutesHeld[o]
    BY <1>1, <1>2, HeldIs
  <2>. QED  BY <2>1, HeldIs
<1>9. MinuteLimit[t] >= 0 => SumFunctionOnSet(MinutesHeld, Others(s)) + Minutes[s] <= MinuteLimit[t]
  <2>1. lock[t] = r
    BY DEF ClassInv, MeterInv, Metered, GoLive
  <2>. QED  BY <2>1 DEF ClassInv, RoomIsKept, HasRoom
<1>. DEFINE mine == {o \in Sessions : TenantOf[CourseOf[o]] = TenantOf[CourseOf[s]]}
<1>10. /\ s \in mine /\ mine \ {s} = Others(s)
       /\ IsFiniteSet(mine) /\ IsFiniteSet(Others(s))
  <2>1. s \in mine /\ mine \ {s} = Others(s) /\ mine \in SUBSET Sessions
    BY <1>1 DEF Others, Tenant
  <2>. QED  BY <1>1, <2>1, SessionsAssumption, FS_Subset, OthersFinite
<1>11. SumFunctionOnSet(MinutesHeld', mine)
         = MinutesHeld'[s] + SumFunctionOnSet(MinutesHeld', Others(s))
  <2>1. \A o \in mine : MinutesHeld'[o] \in Int
    BY <1>7, <1>10
  <2>. HIDE DEF mine
  <2>. QED  BY <1>10, <2>1, SumSplit
<1>12. /\ SumFunctionOnSet(MinutesHeld', Others(s)) = SumFunctionOnSet(MinutesHeld, Others(s))
       /\ SumFunctionOnSet(MinutesHeld, Others(s)) \in Int
  <2>1. \A o \in Others(s) : MinutesHeld'[o] \in Nat /\ MinutesHeld'[o] = MinutesHeld[o]
    BY <1>7
  <2>2. SumFunctionOnSet(MinutesHeld', Others(s)) = SumFunctionOnSet(MinutesHeld, Others(s))
    BY <1>10, <2>1, SumEqual
  <2>. QED  BY <1>7, <1>10, <2>2, SumInt
<1>13. MinuteLimit[t] >= 0 => SumFunctionOnSet(MinutesHeld', mine) <= MinuteLimit[t]
  <2>. HIDE DEF mine, s, t
  <2>. QED  BY <1>1, <1>7, <1>9, <1>11, <1>12
<1>14. LET u == TenantOf[CourseOf[s]]
       IN  MinuteLimit[u] >= 0 => Class!MinutesOf(u, MinutesHeld') <= MinuteLimit[u]
  BY <1>13, ClassMinutes DEF Tenant
<1>. QED  BY <1>4, <1>5, <1>6, <1>7, <1>8, <1>14 DEF Class!Start

\* What every other step does to the session that it is about.
LEMMA OtherSteps ==
  ASSUME OnlyCancels, ClassInv, NEW s \in Sessions
  PROVE  /\ \A r \in Requests : GoLive(r) /\ req[r].s = s /\ row[s].status = "live" => UNCHANGED Class!vars
         /\ \A r \in Requests : StartNowCreate(r) /\ req[r].s = s => Class!Schedule(s)
         /\ \A r \in Requests : StartNowCleanup(r) /\ req[r].s = s =>
              Class!Remove(s) \/ UNCHANGED Class!vars
         /\ EndClass(s) => Class!Finish(s) \/ UNCHANGED Class!vars
         /\ SweepEnd(s) => Class!Finish(s)
         /\ Patch(s) => Class!Cancel(s)
         /\ DeleteSeries(s) => Class!Remove(s)
         /\ ConsumePublishNonce(s) => UNCHANGED Class!vars
<1>0. /\ TypeOK /\ row \in [Sessions -> Row] /\ row[s] \in Row
      /\ StatusOf[s] = row[s].status
  BY DEF ClassInv, MeterInv, TypeOK, StatusOf
<1>1. ASSUME NEW r \in Requests, GoLive(r), req[r].s = s, row[s].status = "live"
      PROVE  UNCHANGED Class!vars
  <2>1. row[s].started # Null
    BY <1>0, <1>1 DEF ClassInv, RowsAreSane, TypeOK, Null
  <2>2. row' = [row EXCEPT ![s] = [row[s] EXCEPT !.status = "live", !.started = row[s].started,
                                     !.nonce = minted + 1, !.expires = now + NonceTtl]]
    BY <1>1, <2>1 DEF GoLive, Coalesce
  <2>3. now' = now
    BY <1>1 DEF GoLive
  <2>. QED  BY <1>0, <1>1, <2>2, <2>3, RowStays DEF Row
<1>2. ASSUME NEW r \in Requests, StartNowCreate(r), req[r].s = s PROVE Class!Schedule(s)
  <2>1. row[s].status = "none"
    BY <1>2 DEF ClassInv, MeterInv, CreateAlone, StartNowCreate
  <2>2. row' = [row EXCEPT ![s] = Fresh(s)] /\ now' = now /\ Fresh(s).status = "scheduled"
    BY <1>2 DEF StartNowCreate, Fresh
  <2>3. Class!Become(s, "scheduled") /\ Class!GiveBack(s)
    BY <1>0, <2>2, RowMoves
  <2>4. MinutesHeld[s] = 0
    BY <1>0, <2>1 DEF MinutesHeld
  <2>5. MinutesHeld' = MinutesHeld
    BY <2>3, <2>4, HeldIs DEF Class!GiveBack
  <2>. QED  BY <1>0, <2>1, <2>3, <2>5 DEF Class!Schedule
<1>3. ASSUME row' = [row EXCEPT ![s].status = "deleted"], now' = now, row[s].status # "none"
      PROVE  Class!Remove(s) \/ UNCHANGED Class!vars
  <2>1. CASE row[s].status = "deleted"
    BY <1>0, <1>3, <2>1, RowStays DEF Row
  <2>2. CASE row[s].status # "deleted"
    <3>1. row' = [row EXCEPT ![s] = [row[s] EXCEPT !.status = "deleted"]]
      BY <1>3
    <3>2. [row[s] EXCEPT !.status = "deleted"].status = "deleted"
      BY <1>0 DEF Row
    <3>3. Class!Become(s, "deleted") /\ Class!GiveBack(s)
      BY <1>0, <1>3, <3>1, <3>2, RowMoves
    <3>. QED  BY <1>0, <1>3, <2>2, <3>3 DEF Class!Remove
  <2>. QED  BY <2>1, <2>2
<1>4. ASSUME NEW r \in Requests, StartNowCleanup(r), req[r].s = s
      PROVE  Class!Remove(s) \/ UNCHANGED Class!vars
  BY <1>3, <1>4 DEF StartNowCleanup, ClassInv, RequestsAreSane
<1>5. ASSUME row[s].status = "live", NEW x, row' = [row EXCEPT ![s] = x], x.status = "ended",
             now' = now
      PROVE  Class!Finish(s)
  <2>1. Class!Become(s, "ended") /\ Class!GiveBack(s)
    BY <1>0, <1>5, RowMoves
  <2>. QED  BY <1>0, <1>5, <2>1 DEF Class!Finish
<1>6. ASSUME EndClass(s) PROVE Class!Finish(s) \/ UNCHANGED Class!vars
  <2>. DEFINE x == [row[s] EXCEPT !.status = "ended", !.ended = Coalesce(row[s].ended, now),
                                  !.nonce = 0, !.expires = Null]
  <2>1. row' = [row EXCEPT ![s] = x] /\ now' = now /\ row[s].status \in {"live", "ended"}
    BY <1>6 DEF EndClass
  <2>2. x.status = "ended"
    BY <1>0 DEF Row
  <2>3. CASE row[s].status = "live"
    <3>. HIDE DEF x
    <3>. QED  BY <1>5, <2>1, <2>2, <2>3
  <2>4. CASE row[s].status = "ended"
    <3>. HIDE DEF x
    <3>. QED  BY <1>0, <2>1, <2>2, <2>4, RowStays
  <2>. QED  BY <2>1, <2>3, <2>4
<1>7. ASSUME SweepEnd(s) PROVE Class!Finish(s)
  BY <1>0, <1>5, <1>7 DEF SweepEnd, Row
<1>8. ASSUME Patch(s) PROVE Class!Cancel(s)
  <2>1. row[s].status \in Existing /\ row[s].status # "cancelled"
    <3>1. PICK status \in PatchStatuses \cup {row[s].status},
               minutes \in PatchMinutes \cup {row[s].minutes} :
            status # row[s].status \/ minutes # row[s].minutes
      BY <1>8 DEF Patch
    <3>. QED  BY <1>8, <3>1 DEF OnlyCancels, Patch
  <2>2. row' = [row EXCEPT ![s] = [@ EXCEPT !.status = "cancelled"]] /\ now' = now
    BY <1>0, <1>8, PatchCancels
  <2>3. [row[s] EXCEPT !.status = "cancelled"].status = "cancelled"
    BY <1>0 DEF Row
  <2>4. Class!Become(s, "cancelled") /\ Class!GiveBack(s)
    BY <1>0, <2>2, <2>3, RowMoves
  <2>. QED  BY <1>0, <2>1, <2>4 DEF Class!Cancel, Existing
<1>9. ASSUME DeleteSeries(s) PROVE Class!Remove(s)
  <2>1. row' = [row EXCEPT ![s] = [row[s] EXCEPT !.status = "deleted"]] /\ now' = now
    BY <1>9 DEF DeleteSeries
  <2>2. [row[s] EXCEPT !.status = "deleted"].status = "deleted"
    BY <1>0 DEF Row
  <2>3. Class!Become(s, "deleted") /\ Class!GiveBack(s)
    BY <1>0, <2>1, <2>2, RowMoves
  <2>. QED  BY <1>0, <1>9, <2>3 DEF Class!Remove, DeleteSeries, Existing
<1>10. ASSUME ConsumePublishNonce(s) PROVE UNCHANGED Class!vars
  BY <1>0, <1>10, RowStays DEF ConsumePublishNonce, Row
<1>. QED  BY <1>1, <1>2, <1>4, <1>6, <1>7, <1>8, <1>9, <1>10

\* The clock takes no minutes; a new month gives back those of the classes that run on.
LEMMA TickStep == ASSUME ClassInv, Tick PROVE Class!NewMonth \/ UNCHANGED Class!vars
<1>0. /\ row \in [Sessions -> Row] /\ now \in Nat /\ now + 1 \in Nat /\ now <= now + 1
      /\ row' = row /\ now' = now + 1
      /\ \A s \in Sessions : row[s].status = "live" => row[s].started \in Nat /\ row[s].started <= now
  BY DEF ClassInv, MeterInv, TypeOK, RowsAreSane, Tick
<1>1. StatusOf' = StatusOf
  BY <1>0 DEF StatusOf
<1>2. /\ now \div MonthLength \in Int /\ (now + 1) \div MonthLength \in Int
      /\ now \div MonthLength <= (now + 1) \div MonthLength
  BY ONLY <1>0, MonthsPass
<1>3. CASE now \div MonthLength = (now + 1) \div MonthLength
  <2>1. \A s \in Sessions : Amount(row'[s], now') = Amount(row[s], now)
    BY <1>0, <1>3 DEF Amount
  <2>. QED  BY <1>1, <2>1, HeldIs DEF Class!vars
<1>4. CASE now \div MonthLength # (now + 1) \div MonthLength
  <2>1. ASSUME NEW s \in Sessions PROVE Amount(row'[s], now') = 0
    <3>1. CASE row[s].status = "live"
      <4>1. row[s].started \in Nat /\ row[s].started <= now
        BY <1>0, <3>1
      <4>2. /\ row[s].started \div MonthLength \in Int
            /\ row[s].started \div MonthLength <= now \div MonthLength
        BY ONLY <1>0, <4>1, MonthsPass
      <4>3. row[s].started \div MonthLength # (now + 1) \div MonthLength
        BY ONLY <1>2, <1>4, <4>2
      <4>. QED  BY <1>0, <4>3 DEF Amount
    <3>2. CASE row[s].status # "live"
      BY <1>0, <3>2 DEF Amount
    <3>. QED  BY <3>1, <3>2
  <2>. QED  BY <1>1, <2>1, HeldIs DEF Class!NewMonth
<1>. QED  BY <1>3, <1>4

LEMMA ClassStarts == Init => Class!Init
<1>. SUFFICES ASSUME Init PROVE Class!Init
  OBVIOUS
<1>1. StatusOf = [s \in Sessions |-> IF s \in Planned THEN "scheduled" ELSE "none"]
  BY DEF Init, StatusOf, Fresh
<1>2. \A s \in Sessions : row[s].status # "live"
  BY DEF Init, Fresh
<1>3. MinutesHeld = [s \in Sessions |-> 0]
  BY <1>2 DEF MinutesHeld
<1>. QED  BY <1>1, <1>3 DEF Class!Init

LEMMA ClassSteps == ASSUME OnlyCancels, ClassInv, [Next]_vars PROVE [Class!Next]_(Class!vars)
<1>0. \A r \in Requests : req[r].s \in Sessions
  BY DEF ClassInv, MeterInv, TypeOK, Request
<1>1. ASSUME NEW r \in Requests, GoLive(r) PROVE [Class!Next]_(Class!vars)
  <2>1. CASE row[req[r].s].status = "live"
    BY <1>0, <1>1, <2>1, OtherSteps
  <2>2. CASE row[req[r].s].status = "scheduled"
    BY <1>0, <1>1, <2>2, GoLiveStarts DEF Class!Next
  <2>. QED  BY <1>1, <2>1, <2>2 DEF GoLive, Startable
<1>2. ASSUME NEW r \in Requests, StartNowCreate(r) PROVE [Class!Next]_(Class!vars)
  BY <1>0, <1>2, OtherSteps DEF Class!Next
<1>3. ASSUME NEW r \in Requests, StartNowCleanup(r) PROVE [Class!Next]_(Class!vars)
  BY <1>0, <1>3, OtherSteps DEF Class!Next
<1>4. ASSUME NEW s \in Sessions, EndClass(s) \/ SweepEnd(s) \/ Patch(s) \/ DeleteSeries(s)
      PROVE  [Class!Next]_(Class!vars)
  BY <1>4, OtherSteps DEF Class!Next
<1>5. ASSUME NEW s \in Sessions, ConsumePublishNonce(s) PROVE [Class!Next]_(Class!vars)
  BY <1>5, OtherSteps
<1>6. CASE Tick
  BY <1>6, TickStep DEF Class!Next
<1>7. ASSUME UNCHANGED <<row, now>> PROVE UNCHANGED Class!vars
  BY <1>7 DEF Class!vars, StatusOf, MinutesHeld, Charge, ThisMonth
<1>. QED
  BY <1>1, <1>2, <1>3, <1>4, <1>5, <1>6, <1>7
  DEF Next, Step, vars, GoLiveLoad, StartNowConflicts, StartNowQuota, Admit,
      Refuse, GoLiveRejected, Abort

\* As long as PATCH only cancels, the handlers with their transactions, stale rows and
\* locks implement LiveClass, whatever the number of sessions and requests: each step maps
\* to one of its steps or to none.
THEOREM HandlersImplementClass ==
  ASSUME OnlyCancels
  PROVE  Spec => ImplementsLiveClass
<1>1. ClassInv /\ [Next]_vars => ClassInv'
  BY ClassStep
<1>2. ClassInv /\ [Next]_vars => [Class!Next]_(Class!vars)
  BY ClassSteps
<1>. QED  BY <1>1, <1>2, ClassInit, ClassStarts, PTL DEF Spec, Class!Spec, ImplementsLiveClass

===============================================================================
