# aulalite: TLA+ models, model checking and proofs

aulalite is a multi-tenant teaching platform: a Rust backend (axum, sqlx,
Postgres with row-level security, Redis, an S3 object store, the MediaMTX media
server) and web, desktop and mobile clients that share crates. This directory
models the parts where most state is shared between concurrent actors. First the
**live class**, from starting it to the recording it leaves behind: HTTP
handlers, two background sweeps, one janitor, and one socket task per
participant, all working on the same rows with one short transaction per step.
Then three parts of the platform around it that take requests of several people,
or of one person several times: the **coursework** of a student, the **billing
events** of an organisation, and its **members, seats and owner**.

Paths below are relative to `crates/backend/src/` unless they start elsewhere.

## 1. Inventory

### 1.1 The live class, as it is modelled

| part | state | operations | who else touches the state |
|---|---|---|---|
| live class lifecycle (`handlers/live_sessions.rs`, `db/live_sessions.rs`) | `live_sessions`: status, times, duration, publish credential | start-now, go-live, end-class, PATCH, delete series, consume credential | the publisher sweep ends classes, MediaMTX consumes credentials |
| class-minutes quota (`db/usage_limits.rs`) | none of its own: sums over `live_sessions`, under `SELECT ... FOR UPDATE` of the tenant row | `class_minutes_for_start` | every start of the tenant |
| publisher sweep (`main.rs`, `services/mediamtx.rs`) | `publisher_last_seen_at` | list, probe, mark seen, seed absence, end | end-class, go-live, the teacher's connection |
| attendance (`db/attendance.rs`, `run_socket`) | `attendance`: one row per session and user | record_join, record_leave, finalize_open_for_session | every socket of the user, end-class, the sweep |
| live room membership (`run_socket`, `services/live_room_redis.rs`, `db/live_room.rs`) | presence keys in Redis, `live_room_kicks`, the subscription of each socket | gate, subscribe, join, count, kick, leave | end-class, the sockets of all users |
| stage (`handle_client_envelope`, `db/live_room.rs`, the clients' publisher) | hand queue in Redis, `student_publish_nonces` | raise, lower, accept, demote, consume the credential | several teachers, several tabs, MediaMTX |
| polls (`live_room_redis.rs`, `live_room_polls.rs`) | poll state and voter set in Redis, `live_session_polls` | start, vote, end | every socket, end-class |
| whiteboard (`live_room_redis.rs`, `live_room_whiteboard.rs`) | list of strokes and draw permission in Redis, the board of each client | draw, erase, undo, clear, snapshot | every socket |
| recording (`services/recording.rs`, `db/recordings.rs`, the recording sweep of `main.rs`) | `recordings`, `file_assets`, `recording_storage_reservations`, objects | claim, process, reclaim, retry, retention | other replicas, teachers, the janitor |
| coursework (`quizzes.rs`, `progress.rs`, `lessons.rs`, `gamification.rs`, `certificates.rs`, handlers and db) | `quizzes`, `quiz_attempts`, `lessons`, `lesson_completions`, `xp_events`, `certificates` | start, submit, complete a lesson; edit quiz, questions and lessons; issue, revoke | several requests of one student, the staff |
| billing events (`handlers/billing.rs`, `db/billing.rs`) | `subscriptions`, `stripe_events` | claim, apply, complete, release | Stripe, several deliveries at once |
| members (`db/seats.rs`, `member_invitations.rs`, `parent.rs`, `sso.rs`, `auth/jit_provision.rs`, migration 81) | `tenant_memberships`, `tenant_invitations`, `parent_invitations`, the included seats of the plan | invite, revoke, sign in, join, suspend, promote, transfer, recover, erase | several administrators, sign-ins, the platform, billing |

How they interact: go-live and end-class commit a row and only then call the
media server, finalise attendance, and broadcast, each best effort; the sweeps
read candidates in one transaction and write by id in later ones; the recording
sweep starts from rows that end-class or the publisher sweep ended. Nothing is
ordered between these actors but the row locks, the `WHERE` clauses and the
unique indexes of Postgres. A request about coursework is one transaction of many
READ COMMITTED statements; so is a sign-in, which accepts invitations on its way.
A billing event is three transactions. Billing changes the number of seats that
the members compete for; attendance, lessons and quizzes feed the same points and
certificates. In the room, each socket task works off the commands
of its client one at a time: it writes Redis keys and rows, then publishes an
event on the channel of the room, which every socket forwards to its client.
Redis runs one command or script at a time, and nothing orders the commands of
two sockets.

What is hard about it: a status read in one transaction and acted upon in
another; quotas summed by several requests at once; clocks (`now()`,
`publisher_last_seen_at`, leases) that are sampled rather than observed;
best-effort steps that fail after the commit they follow, or inside the
transaction they should not disturb; replicas that die in the middle; a commit
whose outcome is unknown; events that come late, twice and out of order; rows
listed in one statement and updated by id in a later one.

What makes it correct: at most one live class per course and teacher; no more
minutes or bytes than the plan includes; who was kicked, or is in a class that
ended, is told; the presence list, the queue, the tally and the boards that
clients show are those of Redis once nothing is under way; a class that is over
stays over, with one end time and no usable credential; a class whose teacher is
gone is ended, and one whose teacher is on air is not; attendance credits every
moment once; a recording that is available can be played, and one in progress
settles. A student's attempts are within their cap, what was reported is what is
stored, and whoever completes a course is offered its certificate; what Stripe
stops telling is processed, and the subscription ends up as Stripe has it; nobody
takes a seat the plan does not have, an organisation has one owner, and who was
suspended or uninvited stays out.

### 1.2 The rest of the system

`PROJECT.json` lists all components with their sources. Those not modelled yet,
with what would make them correct:

- **Breakout rooms** (`handlers/breakout.rs`): a layout that is read, changed and
  written back. Correct if each user is told of the room they are in last.
- **Chat, reactions, cursors**: an insert or nothing, and one event.
- **Submissions and grading** (`handlers/submissions.rs`, `db/submissions.rs`):
  states tested in the handler and written by id. Correct if a graded submission
  is the one the student handed in.
- **Checkout** (`handlers/billing.rs`): intents that lead to one Stripe session.
  Correct if a tenant does not pay for two subscriptions.
- **Outbound webhooks** (`db/webhooks.rs`, `services/webhook_delivery.rs`): a
  delivery queue with leases into which nothing in the program puts anything.
- **MFA, single sign-on, rate limit**: single-use codes and states, a sliding
  window that fails open.
- **Secret rotation**: a compare-and-set rewrap beside writers.
- **Recurrence** (`services/recurrence.rs`): a pure algorithm.
- **Clients**: socket reconnection, the offline queue.
- Everything else is single-statement create, read, update and delete guarded
  by the schema, presentation, or a client of an external service.

Parts of modelled components that are left out are named with their module in
section 3. `PROJECT.json` "hazards" lists what is hard to test, at its line, with the
properties that would notice, or the reason why none does yet.

## 2. Plan

Order: the live class first, because it has the most actors per row, then what
has the next most.

1. `LiveSession`, `PublisherSweep`, `Attendance`, `Recording` (done).
2. `LiveRoom`, `LiveStage`, `LivePoll`, `Whiteboard`: sockets and broker, one
   action per Redis command (done).
3. `LiveClass`, the abstract class, which `LiveSession` implements (done).
4. `Coursework`, `StripeEvents`, `Members`, and proofs for all modules: every safety
   invariant and action property that a run checks is a theorem (done).
5. Open: `Submissions` (draft, submitted, graded, returned), `Breakouts`, the
   composition of `LiveRoom` with `Attendance` through the socket they share, an
   abstract poll that `LivePoll` implements as far as voters are not dropped.
6. Proofs still worth having: `AbsenceObservedForWindow` for several replicas whose rounds
   do not overlap; the abstract poll; the modules of item 5.

The runs are kept few, one for each question, so that the whole project is
re-checked in less than an hour: the refinement of `LiveClass` took the place of
the invariants it implies, and what is proved and not hazardous otherwise
(type invariants, `OneLivePerCourseAndTeacher`, `NoStaleStart`, `EndTimeNeverMoves`,
`AvailableStays`) has no run any more.

## 3. The modules

Conventions. An action is one transaction (or one statement of a transaction that
keeps a lock), one call of the media server or object store, or one event of a
socket. `now()` in Postgres is the start of the transaction, and the model's
actions are atomic, so a statement sees the clock of its action. Identifiers
follow the source. History variables are marked as such where they are declared.
Definitions preceded by "Mutant:" are deliberate faults, used to see that a
property would notice; no specification uses them. `LiveStage`, `PublisherSweep`,
`Whiteboard` and `StripeEvents` name their `Init`, `Next`, `Spec` and `TypeOK` after
themselves (`StageSpec`, `SweepSpec`, `BoardSpec`, `StripeSpec`), so that one module of
proofs can extend several components.

### 3.1 LiveSession

`row` is the table (status, `actual_started_at`, `actual_ended_at`, duration,
`starts_at`, hash and expiry of the publish credential), `lock` the tenant row
lock, `req` the local variables of each handler in flight (what it loaded, and
where it stands), `minted` and `spent` number the credentials.

- go-live: `GoLiveLoad` (load, status and window tests), then `Admit`/`Refuse`
  (tenant lock and quota; skipped for a row loaded as live), then `GoLive` (the
  guarded UPDATE, the unique indexes and COMMIT) or `GoLiveRejected`.
- start-now: `StartNowConflicts`, `StartNowQuota`, `StartNowCreate`, then as
  go-live, with `StartNowCleanup` when the quota refuses. The two look-ups of the
  conflict check are merged into one: both are advisory and hold nothing.
- `EndClass`, `SweepEnd`, `Patch`, `DeleteSeries`, `ConsumePublishNonce` are
  single statements. `Abort` is a failing query or a dying process.
- The quota is `Charge`, `Used`, `LimitReached`: an ended class counts its
  wall-clock time, a live one its duration, in the month it started
  (`MonthLength` replaces the calendar).

Left out: PATCH of `starts_at`, the storage half of the start gate, audit rows,
paths and the media server's notifications.

`LiveClass` is what all this promises: a session is scheduled, live, ended,
cancelled or deleted, and `held` are the minutes of the plan that a class on air
holds. `Start` is one step: the session was scheduled, nobody else of its course or
teacher is on air, and what it takes was left in the plan. `ImplementsLiveClass`
maps `status` to the column and `held` to `Charge` of a live row (`StatusOf` and
`MinutesHeld`); so a request that
loaded a row long ago, waited for a lock, lost a race or died must still look like
one such step or none. It holds as long as PATCH only cancels: putting sessions back
to scheduled leaves the life cycle, and changing durations the plan.

### 3.2 PublisherSweep

One class and the replicas that sweep it. Times are ages, capped one above the
window, so the clock needs no bound. `List`, `ProbeActive`/`ProbeInactive`/
`ProbeFails`, `MarkSeen`, `Seed`, `EndGone`/`KeepLive` follow `main.rs:610-735`
statement by statement; `Publish` and `Drop` are the teacher's connection, and
`Publish` consumes the credential as MediaMTX does. `Faults` selects failing
probes and statements, crashes and slow rounds. `inactiveAge` is history: how long
every probe has answered Inactive. `steady` is history too: no probe or statement
has failed, no replica has died, and the rounds came on time.

### 3.3 Attendance

One student, several connections: `socket` is where `run_socket` stands, `told`
whether the subscription holds a SessionEnded, `closer` where end-class and the
sweep stand between their commit and their finalisation. `present`, `overlapped`
and `faults` are history. A join passes the gate, subscribes and writes (each may
fail); a leave writes after the loop ended. `first_joined_at`, `last_left_at`,
`reconnect_count` and the XP award are left out: nothing reads them back here.
PATCH back to scheduled is left to LiveSession.

### 3.4 Recording

`rec` (one row at most for each ended session), `fileAsset`, `objects`,
`reserved`; `worker` is the recording sweep of a replica, `retry` a teacher's
request between its two transactions, `janitor` the retention pass, `leaked` a
history variable for objects whose deletion failed or that a dead replica left.
One action per step of `process_one_session`: `Claim`, `Preflight`, `Remux`,
`SetUploading`, `Reserve`, `Put`, `Finalize`/`CommitUncertain`/`FinalizeFails`,
`Discard`, `MarkFailed`, with `StepFails` for any failure before the final
transaction. `worker.row` says whether the row with the id the worker holds still
exists: the janitor may delete it, and an UPDATE by id then does nothing.

Abstractions: ffmpeg, ffprobe and the segment directory succeed or fail; a
recording has one size; the plan does not change; there is one janitor; all
sessions are long enough to be recorded. `Timely` states that a pipeline takes
less than the 15 minutes after which it counts as stuck; it is TRUE where a
property needs it, and FALSE in the progress run.

### 3.5 The live room

Four modules, each with the state its commands share, since no command of one
touches the keys of another (end-class, which drops all of them, is in `LiveRoom`
and `LivePoll`). In each, a socket works off one command at a time and an action
is one Redis command or script, one statement, or one publication; a command that
is refused without a write is no step. What the web client does with the events is
part of the modules, since the screens are what the properties are about.

`LiveRoom`: `at` is where a connection stands between `socket_gate` and the
farewell of `run_socket`; `present` the presence keys; `told` the connections
whose subscription holds an event that ends them; `read`, `target` the local
variables of the count and of Kick; `closer` end-class. `Load` and `CheckKick` are
the gate, `Subscribe`, `Join`, `Count`, `PublishCount` the arrival, `Receive` and
`Close` the two ends of the loop, `Leave`, `Count`, `PublishCount` the farewell,
`Kick` and `AnnounceKick` the command, `End`, `AnnounceEnd`, `ClearRoom`
`end_class_inner`. `Die` is a replica that dies; `PresenceFails` an ignored error.
The sweep that ends abandoned classes sends nothing and is in `PublisherSweep`.

`LiveStage`: `queue` and `nonce` are the stored state (the queue as the set of its
entries, each with an id, since nothing depends on their order), `cmd` the command of each
connection, `hands` what the clients show, `pub` how far each tab is in publishing
with each credential (`Promote`, `Ask`, `Take`, `Store`: event, first read and
UPDATE of `consume_student_publish_nonce`, and the task that stores the
publisher). `TellDemoted` closes what any client publishes, as
`live_room_view.rs` does. The client never sends `raise: false` (it does not set
`my_hand_raised`); `Lower` is the command as the backend takes it.

`LivePoll`: `state`, `voters` and `rows` are the two keys and the table, `screen`
what the clients show. `StartPoll`, `DropVoters`, `SetState`, `InsertRow`,
`AnnouncePoll` are StartPoll; `Vote` (the script), `SaveCounts`, `PublishResults`
PollVote; `EndPoll`, `DeletePoll`, `SaveEnded`, `PublishEnded` EndPoll; `ClearRead`,
`ClearVoters`, `ClearState` what end-class does to the poll.

`Whiteboard`: `list` and `drawOpen` are the keys, `backlog` the events a
subscription still holds, `board` how often a client shows each stroke (in which order
they are painted is left out). `AskTo...` is the
permission and the start of a command, `AppendStroke`, `FindStroke`,
`RemoveStroke`, `PopStroke`, `Wipe` its Redis commands, `Publish` the event.
`Hydrate` is the snapshot, and a connection that cannot keep up (`Overrun`) loses
its subscription.

### 3.6 Coursework

One student and one course. `quiz`, `version` and `lesson` are what the staff may
edit (settings, the list of questions, which lessons exist), `attempt`, `done`,
`awarded`, `certificate` the student's rows, `tx` the transactions in flight, each
with what it read and what it wrote and has not committed. `Start`, `Look`, `Count`,
`Insert` or `Resume` are `start_attempt_inner`; `Submit`, `Grade`, `Store` or
`Refuse`, then `Award`, `Sync`, `Commit` are `submit_attempt_inner`; `Mark`, then
`Award`, `Sync`, `Commit` are `set_completion`. `BestEffortFails` is a failing award or
eligibility statement: the handler logs it and goes on, but Postgres has aborted the
transaction, so that `CommitAborted` rolls it back and answers all the same.

Locks are conditions: `AttemptFree` and `LessonFree` are the rows an UPDATE or a
conflicting INSERT waits for, and `Award` waits for a transaction that claims the same
key, or, if it has points to add, for one that holds the student's row of
`learner_stats`. Answers are the score they get, and the list of questions decides only
how high that can be and whether the answers still refer to it. Left out: other
students, streaks and achievements, how answers are graded, uploads and notes.

### 3.7 StripeEvents

`bought` is what Stripe has of each subscription of a tenant, `events` what it made of
it, in order, each with its second; `claim` the rows of `stripe_events`, where "old" is
a claim of more than five minutes; `delivery` the requests in flight, `row` the tenant's
row of `subscriptions`. `Claim` or `AnswerDuplicate`, `ApplySubscription`/`ApplyInvoice`/
`ApplyFails`, `Complete` or `Release` are `stripe_webhook_inner`, one transaction each.
`Buy`, `Change`, `Bill` and their events are Stripe, modelled by what the code expects
of it. `Die` and `AnswerLost` are a crash and a lost answer.

Left out: checkout and its intents, the customer id (one customer per tenant), periods
and prices, meters, `checkout.session.completed` (which sets the customer and cannot
change the row), and several tenants.

### 3.8 Members

`member` are the memberships of one organisation, `invite` and `parents` the invitations
that reserve seats, `cap` the seats of its plan. A transaction that locks the row of the
organisation is one action, and `Unlocked` its guard. Two kinds do not: `Revoke` and
`RevokeParent`; and the sign-in of a global identity, in three steps: `Begin` locks the
organisation if it has invited the email by then, `List` opens the cursor over the
invitations, and `Accept` writes and commits (`AcceptInvite`, by id; then
`AcceptParent`), each behind a savepoint of its own. `SignInFails` is any failure of it.
`EnterpriseSignIn` and `Join` are the other ways in, `PatchMembership`, `Transfer`,
`Recover`, `ReplaceOwnerInvite` and `Erase` the rest. `OneOwnerIn` is the deferred
constraint trigger: the actions that could break what it checks and rely on it (sign-ins)
have it as their guard; the others keep it by themselves.

Left out: status "invited", which nothing writes; metered plans, where nothing is
blocked; parent invitations of before seats were reserved; personal workspaces; changed
emails; what a sign-in reads of a membership before it inserts one; ids of users in links.

## 4. What is checked

| run | question | instance | result |
|---|---|---|---|
| `LiveSession_class` | do the handlers implement `LiveClass`; is every start metered under the lock; can an old credential match; does every request return? | 2 requests, 2 planned + 1 ad-hoc session, 2 courses, 2 teachers, 1 tenant with minutes for one class, clock 0..2 over two months, PATCH cancels | holds, the last under fairness |
| `PublisherSweep_reclaim` | is a class ended only after a window of observed absence; is an abandoned one ended? | 1 replica, window 3, all four faults | holds, the second under fairness |
| `Attendance_credit` | is time credited once, only for presence, and completely; are rows closed? | 2 connections, clock 0..2 | holds, the last under fairness |
| `Recording_pipeline` | storage, playability, no lost objects | 2 replicas, 2 recordings, room for 1, 2 uploads, 1 teacher | holds |
| `Recording_progress` | does a recording in progress settle? | 2 replicas, 1 recording, untimely pipelines | holds, under fairness |
| `LiveRoom_members` | is everybody told who must leave; are the right users listed and counted? | 1 teacher, 1 student with 2 tabs, 1 kick, 1 fault | holds |
| `LiveStage_hands` | is a credential good for one publisher; does the queue hold what is shown; is a demoted student quiet? | 1 student with 2 tabs, 2 teachers, 2 credentials, 2 entries, 1 fault | holds |
| `LivePoll_tally` | is every vote counted, once; do screens and table show only what was cast? | 2 staff connections, 2 polls, 1 option, 1 fault | holds |
| `Whiteboard_agree` | do boards agree with the list; does a stroke appear once? | 1 teacher, 1 student, 1 stroke each, limit 2, 1 fault | holds |
| `Coursework_student` | are attempts counted, reported scores stored, submissions final, complete courses certified? | 2 requests, 2 attempts with a cap of 1, 1 + 1 lessons, 2 question lists, 1 edit, 1 fault | holds |
| `StripeEvents_follow` | is what Stripe stops sending processed; does the row follow Stripe? | 2 deliveries at once, 2 subscriptions, 2 plans, 3 events, 1 fault | holds |
| `Members_seats` | is there one owner; are seats within the plan; do the revoked and the suspended stay out? | 3 people with 2 emails, 1 of them known through SSO, 2 invitation ids, plans of 1 and 2 seats | holds |

Bounds. Two requests are enough for every race between a look-up and an UPDATE,
since each property relates at most two sessions or one session and one stale
request; a third session lets a loser meet a different winner. The clock passes a
month boundary (`MonthLength = 2`, `MaxTime = 2`), credentials expire
(`NonceTtl = 2`), and `MaxNonce` admits a rotation of each. In the sweep a window
of three rounds contains a first, a middle and a last sample. Two connections are
the least for tabs and replacements; two ticks separate a segment's start, a gap
and its end. Two replicas, two recordings and room for one make them compete for
the last bytes; `MaxAssets = 2` bounds the uploads, including the retries.
In the room, the interesting cases need two connections of one user (presence,
twins, a credential presented twice), or two of the staff (a command during
another's); one fault at any step shows what follows from it. Two polls are one
that replaces another, and with one option every vote is for the same count. Two
strokes fill a board of limit 2: the limit of the clients' boards is met when a
stroke comes twice, but the list itself is trimmed only with a third stroke (that
instance, of 10.8 million states, was checked as well and holds).
Two requests of a student are two tabs, or the student and the timer; two attempts
and a cap of one are what a second start can exceed; the second list of questions is
empty, so that answers may or may not refer to what is replaced. Three events are one
that overtakes another and one to retry, in two deliveries at once. Two people who share
an email, known to the platform and to the organisation's SSO, compete for one
invitation; the third has an email of its own. Ids of invitations are used up, so the
second is every invitation after the owner's: a third id takes the run beyond its time.

`CHECK_DEADLOCK FALSE` is set where the system runs out of what bounds it:
LiveSession's clock and credentials, the connections, polls, strokes and
credentials of the room, attempts, edits and events. The type invariants of `LiveStage`,
`LivePoll` and `Whiteboard` (which bounds the list and the boards) are checked with their
runs as well; those of the other modules are only proved.

Symmetry (recordings and workers; polls; credentials, tabs and staff; requests
and attempts; deliveries, subscriptions and plans) is used in runs without liveness.

Fairness. `LiveSession`: a handler runs on until it returns (weak), and waiters
for a row lock are queued by Postgres, so the steps that take the lock are
strongly fair. `PublisherSweep`: a running sweep goes on and a dead process is
restarted; a probe or statement that is repeated every minute succeeds in the end
(strong). `Attendance`: socket tasks and closers run on; nothing is assumed of
people, the sweep or the clock. `Recording`: a sweep goes on until its replica
dies; listing, claiming and reclaiming are repeated every minute and succeed in
the end (strong); janitor, teachers and leases may take for ever.

The runs of the room, of coursework, billing events and members state safety only,
and need none: a client may close or stay silent at any point, and Stripe may stop.

Where the code does not do what a comment of it says:

1. `main.rs:676-678` says that the UPDATE of the sweep re-checks the window "so a
   publisher that returned between the probe and the write is not cut off". It tests
   only `publisher_last_seen_at`, which a return does not change, so it is cut off.
2. On any `Demoted` event, whatever its `user_id`, a client closes what it publishes
   (`live_room_view.rs:878`), so that demoting one student takes every other promoted
   student off the air; the comment there speaks of the viewers of the demoted one.
3. `db/billing.rs:566-568` says that a crash cannot poison the id of an event. If a
   duplicate comes within the five minutes of a claim whose delivery then died, it is
   answered 200, and Stripe does not send the event again (`swallowed` in
   `AckedIsProcessed`).

Met on the way. The properties that hold name these cases as what they except,
where they concern them.

- PATCH takes a live or ended session out of the documented life cycle, and
  cancelling a live class runs nothing of end-class; a go-live that loaded a live
  row skips the quota even if PATCH put the session back to scheduled (the
  theorem on metering assumes PATCH does not).
- A start-now that loses the unique index leaves its scheduled series behind; the
  limit branch removes it.
- Failed probes count as absence once a single probe answers Inactive (hence
  `steady` in `AbsenceObservedForWindow`).
- The first of two tabs to close closes the attendance row of both (hence
  `overlapped` in `NoPresenceLost`), and takes the user off the presence list
  (`doubled` in `ListedIsConnected`), as long as the other tab does not reconnect.
- A pruned recording's session is picked up again and reappears as failed. Two
  teachers retrying at once, or a pipeline slower than 15 minutes, can reset an
  available recording (so `AvailableStays` is proved for one teacher and timely
  pipelines).
- A connection that passed the gate and has not subscribed when a kick or the end
  of the class is published stays in the room (`slipped`), and after the end
  writes presence keys that end-class has just dropped.
- Of two arrivals that overlap, the count read first may be published last
  (`crowded` in `ShownIsListed`).
- Two tabs that raise a hand at once queue it twice (`mixed` in
  `ShownIsQueuedOnce`). "Dismiss" in the teacher's queue sends `demote_hand`,
  which does not lower the hand, and the clients show a hand whose raising failed
  as lowered.
- A demotion that arrives while a tab is about to publish does not stop it
  (`demoted` in `DemotedIsQuiet`).
- The start of a poll, and end-class, drop the voters ahead of the state: in
  between a second vote of a user counts (`dropped` in `VotersAreCountedOnce`).
  An end and a start of two teachers that overlap can delete the new poll
  (`crowded` in `ScreenFollowsBroker`), and late writes of the tally may lower the
  one in the table.
- A stroke that is in the snapshot and whose event comes after it is shown twice
  until it is removed (`twice` in `StrokeAppearsOnce`). Two overlapping commands,
  such as a stroke and a clear, may leave the boards different from the list
  (`rough` in `BoardsAgree`).
- With two replicas, one may end a class while the other has just found its publisher on
  the path and is about to write that down: `AbsenceObservedForWindow` is checked with one.
- Two tabs that start a quiz at once open an attempt each, and can submit both beyond
  the cap (`beside` in `AttemptsAreCounted`); an attempt opened while the quiz was for
  practice counts against no cap (`free`). An open attempt whose time has passed can be
  neither submitted nor replaced, since every start resumes it.
- A failing "best-effort" award rolls the submission back and its score is reported
  nevertheless (`dropped` in `ReportedIsStored`).
- Of two requests that complete a course together, of which one earns no points because
  it did so before, neither may see the other (`unlocked` in `CompletionIsOffered`).
- An invoice event moves the time of the row, so that a subscription event older than it
  is dropped (`overtaken` in `RowFollowsStripe`), and makes a canceled subscription
  active or past due again.
- A sign-in that has listed an invitation accepts it although it was revoked since, or
  moved to another email (`Stale`). Of an email that is invited as a member and as a
  parent one seat is reserved; used by two identities, or moved, the two need one more
  (`Doubled` in `SeatsAreNotOversold`).
- An owner invitation that the platform re-addresses to a member who is suspended makes
  each sign-in of that member fail on the trigger, until it is re-addressed again.

## 5. What is proved

TLAPS checks the theorems below for every value of the constants. Each section is one
module of proofs; the assumptions it names are those of the modules it is about, which
give the constants their types and say which sets are finite. A theorem on an invariant
rests on an inductive invariant, one on an action property on the invariant that holds
before the step.

### 5.1 Sums

The minutes of a class, the bytes of a recording and the votes of an option are added up
with `SumFunctionOnSet`, a fold of the community modules. A fold is a CHOOSE among the
functions that satisfy a recursive equation, so that nothing is known of its value until
there is known to be such a function, and only one. `NoCounterexample` is induction over the
subsets of a finite set, stated as there being no smallest counterexample (strict inclusion
is well founded there); `IterExists` and `IterUnique` follow from it, and from these what
the proofs use: `SumEmpty`, `SumInt`, `SumNat`, `SumSplit` (any element may be taken out),
`SumLeq`, `SumEqual`, `SumMembers` (ones and zeros count a subset).

### 5.2 LiveSession_proofs

Assumptions: `SessionsAssumption`, `NumbersAssumption`.

- `TypeCorrect`: `Spec => []TypeOK`. Each action keeps each variable in its set.
- `OneLive`: `Spec => []OneLivePerCourseAndTeacher`. Only `GoLive` makes a session
  live, and `Startable` is the unique indexes; no other action adds to `Live`.
- `StaleStartNever`: `Spec => NoStaleStart`, by the WHERE clause of the UPDATE,
  whatever the request had loaded.
- `StartsAreMetered`: if `PatchStatuses` does not contain "scheduled",
  `Spec => EveryStartIsMetered`. The inductive invariant `MeterInv` is `TypeOK`,
  `CreateAlone` (the row a start-now is about to create is no other request's and
  does not exist yet) and `Metered`, which says where the lock is: a request between its quota check and
  its UPDATE holds the lock of its tenant, or its session has left "scheduled" for
  good. The second part needs that a row never returns there, hence the
  assumption.
- `SpentForGood` (`SpentCredentialNeverMatches`), with `MintedSoFar`: the credential of a
  row is no newer than the last one minted, so what is minted next was never spent.
- `HandlersImplementClass` (`ImplementsLiveClass`), if PATCH only cancels sessions
  (`OnlyCancels`): the initial states of the handlers are initial states of the class, and
  each of their steps is one of its steps or none. `ClassInv` adds to `MeterInv` that the
  times of a row go with its status, that a request goes on with a row that exists, and
  `RoomIsKept`: what the quota check found left in the plan is still left for as long as the
  lock is held. The last is what makes the step that starts a class fit the plan, although
  check and UPDATE are two statements. That it survives other steps is about sums: classes
  of the tenant only give minutes back meanwhile, by ending, being cancelled or at the turn
  of a month, since to take some needs the lock.

### 5.3 Attendance_proofs

Assumption: `AttendanceAssumption`. The inductive invariant `Inv` joins `TypeOK`;
`Times` (the open segment and the end of the class do not lie in the future, and a
closer that is about to finalise has seen the class over); `Rows` (without faults
an open row means that somebody is connected; without overlap at most one
connection is, with an open row until the class is over); and the three
properties. None of them is inductive alone, since a leave adds a segment whose
start only `Times` and the credit so far bound.

- `TypeCorrect`, `NeverCreditedTwice` (`CreditedOnce`), `NeverMoreThanPresent`
  (`CreditedWithinPresence`), `AllPresenceCredited` (`NoPresenceLost`), for any
  number of connections and any clock bound.

### 5.4 Recording_proofs

Assumption: `RecordingAssumption`, and for `Stays` also
`Timely /\ \A t, u \in Teachers : t = u`.

- `TypeCorrect` (`TypeOK`), `Playback` (`AvailableIsPlayable`), `Tracking`
  (`ObjectsAreTracked`), `WithinPlan` (`StorageWithinLimit`), `Stays`
  (`AvailableStays`).

The inductive invariant has three parts. `TypeInv` adds to the types that a worker
holds a recording exactly while it is busy. `AssetInv` says whose an uploaded
object is: `OwnAsset` and `OwnUpload` give each asset to one worker or one row,
`OldOnly` lets the janitor have rows past their retention only, and with these
`Playable` and `ObjectsAreTracked` survive a lost commit answer: whoever deletes
an object knows that no row can name it. `OwnerInv` (`OwnRow`, `OthersKeepOff`)
says that a row in progress belongs to one worker; it holds for timely pipelines
and one retry at a time, which is where `Stays` needs its assumption.

`StorageWithinLimit` is inductive given the first two. Two steps add to the sum:
`Reserve` and the final transaction, which tests the limit again, as the reservation may
have expired and gone to another upload. All other steps take away from the set that is
summed, or swap a reservation for what it was made for.

### 5.5 LiveRoom_proofs

Assumptions: `RoomAssumption`, `StageAssumption`, `SweepAssumption`; for `Window` also that
there is one replica.

Membership (`LiveRoom`):

- `TypeCorrect`: `TypeOK`.
- `Kicks`: `KickedIsTold`, inductive by itself. The gate admits nobody who is
  kicked; whoever was admitted before is subscribed or `slipped` when the room is
  told; and a user is not yet told only while somebody is about to tell the room.
- `Ends`: `EndIsTold`, with `EndIsCommitted` (what is announced is committed, so
  the gate no longer loads the class as open).
- `Lists`: `ListedIsConnected`, with `DoublesAreNoted` (a user with two connections
  in the room has been recorded as such): without it, the leave of one could
  unlist another that the property covers.
- `Shows`: `ShownIsListed`, with `CountsAreFresh`: as long as arrivals and
  departures do not overlap, one connection at a time is between its change of the
  presence keys and its publication, and the count it holds is the present one.

Hands and promoted students (`LiveStage`):

- `StageTypeCorrect`: `StageTypeOK`, with `Room` (the bound on entries leaves room for those
  about to be pushed) and `About` (a command under way is about a student).
- `Admission`: `AdmitsOnce`, with `Unspent`: the credential of a student was made for that
  student and has been neither used nor revoked. The UPDATE that consumes it clears it in
  the same statement, which is what keeps this true when two tabs present it.
- `Demotion`: `DemotedIsQuiet`, with `Quiet`: who is being demoted has no credential, and
  once the room is told a tab is at most about to ask for one that is not there any more.
- `Queueing`: `ShownIsQueuedOnce`. The property is not inductive, since it speaks of students
  without a command under way; `QueueInv` says of each step of a command what is in the
  queue and what the clients have yet to be told (`Fits`, `Shown`), for every student whose
  commands never overlapped (`Alone`).

The sweep (`PublisherSweep`):

- `SweepTypeCorrect`: `SweepTypeOK`.
- `EndsOnce`: `EndTimeNeverMoves`, with `EndIsWritten` (a class that is over has its end
  time): of the actions that write it, `EndClass` keeps one that is there, and the sweep
  only ends a class that is live.
- `Window`: `AbsenceObservedForWindow` for one replica and any window. `OnTime` relates the
  clock that the UPDATE tests (`seenAge`) to the time for which every probe has found nobody
  (`inactiveAge`), at each place where a round may stand: the clock is never more than a
  minute ahead, which is how long ago the last round may have been (`Missed`). The UPDATE
  asks for more than the window, so the window itself was observed.

### 5.6 LivePoll_proofs

Assumptions: `LivePollAssumption`, `WhiteboardAssumption`.

Polls:

- `TypeCorrect`: `TypeOK`. `PollInv` adds what the commands under way know:
  `CommandsAreSane`, and `StartsAreFresh`, by which the poll that is being started is nobody
  else's, unknown to clients and without votes.
- `TallyIsExact` (`TallyIsWhatWasCast`), `VotesAreUnique` (`VotersAreCountedOnce`) and
  `ResultsAreReal` (`ShownWasCast`), with one invariant `CountInv`: besides the three,
  whoever was counted for the poll in progress is in its voter set unless that was dropped
  (`VotersAreKept`), and what a command is going to save or tell was cast
  (`MessagesWereCast`). That tallies only grow makes late messages true.
- `ClientsFollow` (`ScreenFollowsBroker`): `Follows` says how far the one staff command under
  way has got between Redis and the screens (`Conducted`), as long as there is one.

Whiteboard:

- `BoardTypeCorrect`: `BoardTypeOK`, which bounds the list and the boards of the clients,
  with `Named` (commands and events name strokes).
- `OncePerBoard`: `StrokeAppearsOnce`, with `OwnInv`: a stroke is drawn by its author's
  connection only, is announced once (no two events of a backlog are of the same stroke),
  and until then is on a board only through a snapshot, which is what `twice` records.
- `BoardsMeet`: `BoardsAgree`, with `AgreeInv`: the list holds a stroke exactly if the last
  event about it that a client has yet to receive draws it or, if there is none, the board
  of the client shows it. The event of the one command under way makes the exception.

The lemmas between them are about sequences without repetitions: what removing an element,
taking the front or keeping the last elements leaves of them.

### 5.7 Coursework_proofs

Assumption: `CourseworkAssumption`.

- `TypeCorrect`: `TypeOK`.
- `Attempted` (`AttemptsAreCounted`), with `Counted` and `OneAtATime`. The cap is inductive
  only when it counts the attempts in progress, since they can be submitted at any time.
  `Sound` says what a request knows at each of its statements: who is to insert an attempt
  has seen only submitted ones, fewer than the cap; if there are others by then, the
  attempt is opened `beside` them.
- `Reported` (`ReportedIsStored`) and `Final` (`ScoreIsFinal`), with `Sound` (whoever has
  stored an attempt finds it open when it commits) and `Exclusive` (no two transactions
  have stored the same one), which is what the guarded UPDATE and its row lock give.
- `Certified` (`CompletionIsOffered`), with `Locked` and `Offered`. `Locked`: a request that
  has claimed its points and is not `unlocked` earned some, and no other has claimed any:
  it has the row of `learner_stats` to itself. So nobody commits between its look at the
  course and its own commit, and what it saw is still so then (`Offered`). This is where
  the order of the statements counts: points first, then eligibility.

### 5.8 Members_proofs

Assumptions: `MembersAssumption`, `StripeAssumption`.

Members:

- `TypeCorrect`: `TypeOK`.
- `Ownership` (`OneOwner`): the inductive invariant `Owned` is what the trigger checks,
  with singletons for its counts (`OwnedIsOneOwner`). Sign-ins have the trigger as their
  guard; every other action leaves the owner alone or moves ownership in one step.
- `Suspension` (`SuspendedStaysOut`): action by action, every way in tests for it, and
  the only one that does not counts the seats.
- `Revocation` (`RevokedStaysRevoked`): a sign-in lists pending invitations only, and every
  other way to accept or move one tests that it is pending.
- `Seats` (`SeatsAreNotOversold`), with `OnePerEmail`: an email has at most one pending
  invitation. Without it, accepting an invitation could leave its seat reserved by a twin
  and so take one more. Each action that takes a seat has counted the seats before, or
  hands on one that was reserved, or is one of the two cases the property names.

Billing (`StripeEvents`):

- `BillingTypeCorrect`: `StripeTypeOK`, and that a delivery in flight is of an event that
  exists (`Known`), without which its types would not follow.
- `Acked` (`AckedIsProcessed`): "done" is never taken back, by `Release` only because it
  tests `processed_at`; an event is answered when it is done, or `swallowed`.
- `Follows` (`RowFollowsStripe`): `FollowInv` is what the row, the history of events and the
  claims say of each other at any time. The row was told by some event of the time it
  has (`RowIsTold`), each event that was applied is no newer than that or was `overtaken`
  (`Heard`), and what Stripe has of a subscription is what its newest event told (`ToldOf`).
  When all events are done and none was overtaken, the newest is therefore in the row.

### 5.9 Only model-checked

Liveness: `RequestsReturn`, `GoneIsReclaimed`, `RowIsClosedInTheEnd` and
`EverySessionSettles`. TLAPS does not reason about fairness and ENABLED here. All other
properties of the runs are theorems. `AbsenceObservedForWindow` is proved, as it is checked,
for one replica, since with two it does not hold (section 4).
