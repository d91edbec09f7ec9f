----------------------------- MODULE LiveSession -----------------------------
(***************************************************************************)
(* Starting, ending, editing and deleting the class sessions of several    *)
(* courses at once: the rows of live_sessions, the tenant-row lock of the  *)
(* class-minutes quota, and the HTTP handlers that read a row in one       *)
(* transaction and update it in a later one.                               *)
(*                                                                         *)
(* A request is between two of its transactions whenever its pc is not     *)
(* "idle"; each action below is one transaction (or one statement of a     *)
(* transaction that holds the tenant lock), so every other request may run *)
(* between any two of them.                                                *)
(***************************************************************************)
EXTENDS Integers, FiniteSets, Functions

CONSTANTS
  Sessions,       \* ids of live_sessions rows, present or yet to be created
  Planned,        \* the rows that are scheduled before the system starts
  Courses, Teachers, Tenants,
  CourseOf, TeacherOf, TenantOf,
  Requests,       \* handler invocations that may be in flight together
  NoRequest,      \* nobody holds a tenant's row lock
  MinuteLimit,    \* plans.included_class_minutes of each tenant, < 0: none
  Minutes,        \* duration_minutes of a newly created session
  Starts,         \* starts_at of a newly created session
  PatchStatuses,  \* the statuses PATCH /v1/sessions/{id} is called with
  PatchMinutes,   \* the durations it is called with
  WindowBefore, WindowAfter, NonceTtl, MonthLength,
  MaxTime,        \* bound on the clock
  MaxNonce        \* bound on the publish credentials minted

ASSUME SessionsAssumption ==
  /\ Planned \subseteq Sessions
  /\ CourseOf \in [Sessions -> Courses]
  /\ TeacherOf \in [Sessions -> Teachers]
  /\ TenantOf \in [Courses -> Tenants]
  /\ IsFiniteSet(Sessions) /\ Sessions # {} /\ NoRequest \notin Requests

ASSUME NumbersAssumption ==
  /\ MinuteLimit \in [Tenants -> Int]
  /\ Minutes \in [Sessions -> Nat] /\ Starts \in [Sessions -> Nat]
  /\ PatchMinutes \subseteq Nat
  /\ PatchStatuses \subseteq {"scheduled", "cancelled"}
  /\ WindowBefore \in Nat /\ WindowAfter \in Nat
  /\ NonceTtl \in Nat \ {0} /\ MonthLength \in Nat \ {0}
  /\ MaxTime \in Nat /\ MaxNonce \in Nat

VARIABLES
  row,     \* the live_sessions table
  lock,    \* who holds SELECT ... FOR UPDATE on the tenants row
  req,     \* the local variables of each handler in flight
  now,     \* the database clock
  minted,  \* publish credentials handed out so far; 0 stands for NULL
  spent    \* per session, the last credential the media server accepted

vars == <<row, lock, req, now, minted, spent>>

Null == -1
Existing == {"scheduled", "live", "ended", "cancelled"}
Statuses == Existing \cup {"none", "deleted"}
Pcs == {"idle", "quota", "create", "check", "update", "cleanup"}

Row == [status : Statuses, started : Int, ended : Int, minutes : Nat,
        starts : Nat, nonce : Nat, expires : Int]
Request == [pc : Pcs, kind : {"go_live", "start_now"}, s : Sessions,
            seen : {"scheduled", "live"}, minutes : Nat]

Coalesce(x, y) == IF x = Null THEN y ELSE x

\* A row as create_series_inner inserts it.
Fresh(s) == [status |-> "scheduled", started |-> Null, ended |-> Null,
             minutes |-> Minutes[s], starts |-> Starts[s],
             nonce |-> 0, expires |-> Null]

Tenant(s) == TenantOf[CourseOf[s]]
Live == {s \in Sessions : row[s].status = "live"}

------------------------------------------------------------------------------
(* The class-minutes quota (db/usage_limits.rs).                           *)

ThisMonth(t) == t # Null /\ t \div MonthLength = now \div MonthLength

\* What a row adds to the month's usage: an ended class its wall-clock time,
\* a live one its whole scheduled duration, any other nothing.
Charge(s) ==
  IF ~ThisMonth(row[s].started) THEN 0
  ELSE IF row[s].status = "ended" /\ row[s].ended # Null
       THEN row[s].ended - row[s].started
  ELSE IF row[s].status = "live" THEN row[s].minutes
  ELSE 0

Used(t, except) ==
  SumFunctionOnSet([s \in Sessions |-> Charge(s)],
                   {s \in Sessions \ except : Tenant(s) = t})

\* Mutant: only the classes that are over count.
LimitReachedWithoutReserving(t, except, requested) ==
  /\ MinuteLimit[t] >= 0
  /\ requested > MinuteLimit[t] - Used(t, except \cup Live)

LimitReached(t, except, requested) ==
  /\ MinuteLimit[t] >= 0
  /\ LET used == IF Used(t, except) < 0 THEN 0 ELSE Used(t, except)
     IN  used > MinuteLimit[t] \/ requested > MinuteLimit[t] - used

------------------------------------------------------------------------------
(* The two partial unique indexes on live_sessions.                        *)

CourseFree(s) == \A o \in Live \ {s} : CourseOf[o] # CourseOf[s]
TeacherFree(s) == \A o \in Live \ {s} : TeacherOf[o] # TeacherOf[s]

\* A handler that is not running; its other fields have no meaning.
Idle == [pc |-> "idle", kind |-> "go_live", s |-> CHOOSE s \in Sessions : TRUE,
         seen |-> "scheduled", minutes |-> 0]

\* The handler goes on to its next transaction, or returns.
Goto(r, pc) ==
  req' = [req EXCEPT ![r] = IF pc = "idle" THEN Idle ELSE [@ EXCEPT !.pc = pc]]

\* Mutant: the transaction stays open.
ReturnWithoutRollback(r) == Goto(r, "idle") /\ UNCHANGED lock

\* It returns, and whatever transaction it had open releases its lock.
Return(r) ==
  /\ Goto(r, "idle")
  /\ lock' = [t \in Tenants |-> IF lock[t] = r THEN NoRequest ELSE lock[t]]

\* Every request in flight may mint one credential: keep within MaxNonce.
MayMint ==
  minted + Cardinality({r \in Requests : req[r].pc # "idle"}) < MaxNonce

------------------------------------------------------------------------------
Init ==
  /\ row = [s \in Sessions |->
              IF s \in Planned THEN Fresh(s)
              ELSE [Fresh(s) EXCEPT !.status = "none"]]
  /\ lock = [t \in Tenants |-> NoRequest]
  /\ req = [r \in Requests |-> Idle]
  /\ now = 0
  /\ minted = 0
  /\ spent = [s \in Sessions |-> 0]

\* POST /go-live, first transaction: the row is read and the handler keeps
\* its status and duration. The start window applies only to a session that
\* is not live; a live one is being re-published and skips the quota as well.
GoLiveLoad(r, s) ==
  /\ req[r].pc = "idle" /\ MayMint
  /\ row[s].status \in {"scheduled", "live"}
  /\ row[s].status # "live" =>
       now \in (row[s].starts - WindowBefore)..(row[s].starts + WindowAfter)
  /\ req' = [req EXCEPT ![r] =
               [pc |-> IF row[s].status = "scheduled" THEN "check" ELSE "update",
                kind |-> "go_live", s |-> s, seen |-> row[s].status,
                minutes |-> row[s].minutes]]
  /\ UNCHANGED <<row, lock, now, minted, spent>>

\* POST /start-now, the friendly conflict look-ups: no class live in the
\* course, and none of this teacher's visible in the tenant.
StartNowConflicts(r, s) ==
  /\ req[r].pc = "idle" /\ MayMint
  /\ row[s].status = "none"
  /\ \A o \in Requests : req[o].pc # "idle" => req[o].s # s
  /\ \A o \in Live : CourseOf[o] # CourseOf[s]
  /\ \A o \in Live : Tenant(o) = Tenant(s) => TeacherOf[o] # TeacherOf[s]
  /\ req' = [req EXCEPT ![r] = [pc |-> "quota", kind |-> "start_now", s |-> s,
                                seen |-> "scheduled", minutes |-> Minutes[s]]]
  /\ UNCHANGED <<row, lock, now, minted, spent>>

\* The quota preflight, a transaction of its own: it takes the tenant lock,
\* decides and commits.
StartNowQuota(r) ==
  /\ req[r].pc = "quota"
  /\ lock[Tenant(req[r].s)] = NoRequest
  /\ Goto(r, IF LimitReached(Tenant(req[r].s), {}, req[r].minutes)
             THEN "idle" ELSE "create")
  /\ UNCHANGED <<row, lock, now, minted, spent>>

\* create_series_inner commits a scheduled row before the class starts.
StartNowCreate(r) ==
  /\ req[r].pc = "create"
  /\ row' = [row EXCEPT ![req[r].s] = Fresh(req[r].s)]
  /\ Goto(r, "check")
  /\ UNCHANGED <<lock, now, minted, spent>>

\* Mutant: the check runs in a transaction of its own.
AdmitWithoutLock(r) ==
  /\ req[r].pc = "check"
  /\ lock[Tenant(req[r].s)] = NoRequest
  /\ ~LimitReached(Tenant(req[r].s), {req[r].s}, req[r].minutes)
  /\ Goto(r, "update")
  /\ UNCHANGED <<row, lock, now, minted, spent>>

\* The transition's transaction takes the tenant lock and finds room.
Admit(r) ==
  /\ req[r].pc = "check"
  /\ lock[Tenant(req[r].s)] = NoRequest
  /\ ~LimitReached(Tenant(req[r].s), {req[r].s}, req[r].minutes)
  /\ lock' = [lock EXCEPT ![Tenant(req[r].s)] = r]
  /\ Goto(r, "update")
  /\ UNCHANGED <<row, now, minted, spent>>

\* It finds none: go-live fails, start-now rolls back and goes on to delete
\* the series it made.
Refuse(r) ==
  /\ req[r].pc = "check"
  /\ lock[Tenant(req[r].s)] = NoRequest
  /\ LimitReached(Tenant(req[r].s), {req[r].s}, req[r].minutes)
  /\ Goto(r, IF req[r].kind = "start_now" THEN "cleanup" ELSE "idle")
  /\ UNCHANGED <<row, lock, now, minted, spent>>

StartNowCleanup(r) ==
  /\ req[r].pc = "cleanup"
  /\ row' = [row EXCEPT ![req[r].s].status = "deleted"]
  /\ Goto(r, "idle")
  /\ UNCHANGED <<lock, now, minted, spent>>

Startable(s) ==
  /\ row[s].status \in {"scheduled", "live"}
  /\ CourseFree(s) /\ TeacherFree(s)

\* The guarded UPDATE and its COMMIT: the status is tested again in the
\* WHERE clause and the unique indexes arbitrate between requests.
GoLive(r) ==
  LET s == req[r].s IN
  /\ req[r].pc = "update"
  /\ Startable(s)
  /\ minted' = minted + 1
  /\ row' = [row EXCEPT ![s] =
       [@ EXCEPT !.status = "live",
                 !.started = Coalesce(row[s].started, now),
                 !.nonce = minted + 1,
                 !.expires = now + NonceTtl]]
  /\ Return(r)
  /\ UNCHANGED <<now, spent>>

\* No row updated, or a unique violation: an error is returned and the
\* scheduled row start-now created stays behind.
GoLiveRejected(r) ==
  /\ req[r].pc = "update"
  /\ ~Startable(req[r].s)
  /\ Return(r)
  /\ UNCHANGED <<row, now, minted, spent>>

\* The process dies or a query fails: the open transaction rolls back.
Abort(r) ==
  /\ req[r].pc # "idle"
  /\ Return(r)
  /\ UNCHANGED <<row, now, minted, spent>>

------------------------------------------------------------------------------
\* POST /end-class: one UPDATE, idempotent on a row that is already ended.
EndClass(s) ==
  /\ row[s].status \in {"live", "ended"}
  /\ row' = [row EXCEPT ![s] =
       [@ EXCEPT !.status = "ended",
                 !.ended = Coalesce(row[s].ended, now),
                 !.nonce = 0, !.expires = Null]]
  /\ UNCHANGED <<lock, req, now, minted, spent>>

\* The publisher sweep reclaims a class (PublisherSweep models when).
SweepEnd(s) ==
  /\ row[s].status = "live"
  /\ row' = [row EXCEPT ![s] =
       [@ EXCEPT !.status = "ended", !.ended = now, !.nonce = 0, !.expires = Null]]
  /\ UNCHANGED <<lock, req, now, minted, spent>>

\* PATCH /v1/sessions/{id}: whatever the row's status is, it takes the new
\* status and duration, and nothing else changes.
Patch(s) ==
  /\ row[s].status \in Existing
  /\ \E status \in PatchStatuses \cup {row[s].status},
        minutes \in PatchMinutes \cup {row[s].minutes} :
       /\ status # row[s].status \/ minutes # row[s].minutes
       /\ row' = [row EXCEPT ![s] = [@ EXCEPT !.status = status, !.minutes = minutes]]
  /\ UNCHANGED <<lock, req, now, minted, spent>>

\* DELETE /v1/series/{sid}: the sessions go with their series, whatever their
\* status.
DeleteSeries(s) ==
  /\ row[s].status \in Existing
  /\ row' = [row EXCEPT ![s].status = "deleted"]
  /\ UNCHANGED <<lock, req, now, minted, spent>>

\* Mutant: the credential is compared in one statement, to be cleared in another.
ConsumeWithoutClearing(s) ==
  /\ row[s].status \in {"scheduled", "live"}
  /\ row[s].nonce # 0 /\ row[s].expires > now
  /\ spent' = [spent EXCEPT ![s] = row[s].nonce]
  /\ UNCHANGED <<row, lock, req, now, minted>>

\* The media server presents the teacher's credential: it is compared and
\* set to NULL in one statement.
ConsumePublishNonce(s) ==
  /\ row[s].status \in {"scheduled", "live"}
  /\ row[s].nonce # 0 /\ row[s].expires > now
  /\ spent' = [spent EXCEPT ![s] = row[s].nonce]
  /\ row' = [row EXCEPT ![s].nonce = 0]
  /\ UNCHANGED <<lock, req, now, minted>>

Tick ==
  /\ now < MaxTime
  /\ now' = now + 1
  /\ UNCHANGED <<row, lock, req, minted, spent>>

Step(r) ==
  \/ StartNowQuota(r) \/ StartNowCreate(r) \/ StartNowCleanup(r)
  \/ Admit(r) \/ Refuse(r) \/ GoLive(r) \/ GoLiveRejected(r)

Next ==
  \/ \E r \in Requests : Step(r) \/ Abort(r)
  \/ \E r \in Requests, s \in Sessions : GoLiveLoad(r, s) \/ StartNowConflicts(r, s)
  \/ \E s \in Sessions : EndClass(s) \/ SweepEnd(s) \/ Patch(s)
                           \/ DeleteSeries(s) \/ ConsumePublishNonce(s)
  \/ Tick

Spec == Init /\ [][Next]_vars

\* A handler runs on until it returns. Waiting for the row lock is queued by
\* Postgres, hence strong fairness for the steps that wait for it.
Fairness ==
  \A r \in Requests : WF_vars(Step(r)) /\ SF_vars(StartNowQuota(r))
                        /\ SF_vars(Admit(r) \/ Refuse(r))

FairSpec == Spec /\ Fairness

------------------------------------------------------------------------------
TypeOK ==
  /\ row \in [Sessions -> Row]
  /\ lock \in [Tenants -> Requests \cup {NoRequest}]
  /\ req \in [Requests -> Request]
  /\ now \in Nat
  /\ minted \in Nat
  /\ spent \in [Sessions -> Nat]

\* However start-now, go-live, PATCH and the sweep interleave, a course and a
\* teacher never have two live sessions: the look-ups before the UPDATE are
\* only advisory.
OneLivePerCourseAndTeacher ==
  \A s, o \in Live : s # o => /\ CourseOf[s] # CourseOf[o]
                              /\ TeacherOf[s] # TeacherOf[o]

\* A session becomes live only by a request that passed the quota check and
\* holds the tenant lock since.
EveryStartIsMetered ==
  [][\A s \in Sessions :
       row[s].status # "live" /\ row'[s].status = "live" =>
         \E r \in Requests : /\ req[r].pc = "update" /\ req[r].s = s
                             /\ lock[Tenant(s)] = r]_vars

\* A class that ended, was cancelled or deleted is never put back on air by a
\* go-live or start-now that loaded the row while it was still startable.
NoStaleStart ==
  [][\A s \in Sessions : row[s].status \in {"ended", "cancelled", "deleted"} =>
       row'[s].status # "live"]_vars

\* A credential the media server has accepted, or one minted before it, never
\* matches again, whatever re-mints, ends and PATCHes happen in between; and an
\* ended class has none, also when a go-live was minting one while it ended.
SpentCredentialNeverMatches ==
  \A s \in Sessions :
    row[s].nonce # 0 => row[s].nonce > spent[s] /\ row[s].status # "ended"

\* Every request returns, also when it waits for the tenant lock and others keep
\* taking it, or the one that holds it is turned away or dies.
RequestsReturn ==
  \A r \in Requests : req[r].pc # "idle" ~> req[r].pc = "idle"

------------------------------------------------------------------------------
StatusOf == [s \in Sessions |-> row[s].status]
MinutesHeld == [s \in Sessions |-> IF row[s].status = "live" THEN Charge(s) ELSE 0]

Class == INSTANCE LiveClass WITH status <- StatusOf, held <- MinutesHeld

\* As long as PATCH only cancels sessions, the handlers with their transactions,
\* locks and stale rows do what LiveClass promises: a session is started in one
\* step, alone in its course and for its teacher, with its minutes taken from
\* the plan in that step, and never comes back from the end of its life.
ImplementsLiveClass == Class!Spec

==============================================================================
