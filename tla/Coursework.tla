------------------------------ MODULE Coursework ------------------------------
(***************************************************************************)
(* What one student does for one course: attempts at its quiz, completions *)
(* of its lessons, the experience points both earn, and the certificate    *)
(* that becomes eligible once every lesson is done and the graded quiz     *)
(* submitted. The student may have several requests in flight at once      *)
(* (tabs, double clicks, the timer that submits at zero).                  *)
(*                                                                         *)
(* A request is a READ COMMITTED transaction, one statement per action:    *)
(* what it wrote stays in tx until its COMMIT and is seen by nobody else,  *)
(* and a statement that meets a row another transaction wrote waits for    *)
(* it. Answers are abstracted to the score they get; other students, whose *)
(* rows these statements never touch, streaks and achievements are left    *)
(* out.                                                                    *)
(***************************************************************************)
EXTENDS Integers, FiniteSets

CONSTANTS
  Requests,     \* requests of the student that may be in flight at once
  Attempts,     \* rows of quiz_attempts, whose ids are never used again
  Lessons,      \* lessons the course has or may get
  FirstLessons, \* those it has at first
  Settings,     \* what patch_quiz may make of the quiz
  Cap,          \* max_attempts
  Versions,     \* how many question lists are saved one after the other
  Size,         \* the points each of them is worth
  NoAttempt, NoLesson,
  MaxEdits,     \* bound on edits by the staff
  MaxFaults     \* bound on statements that fail

ASSUME CourseworkAssumption ==
  /\ IsFiniteSet(Attempts) /\ NoAttempt \notin Attempts
  /\ FirstLessons \subseteq Lessons /\ NoLesson \notin Lessons
  /\ {"submitted", "perfect"} \cap Lessons = {}
  /\ Settings \subseteq [published : BOOLEAN, graded : BOOLEAN, limited : BOOLEAN]
  /\ Cap \in Nat \ {0} /\ Versions \in Nat \ {0} /\ Size \in [1..Versions -> Nat]
  /\ MaxEdits \in Nat /\ MaxFaults \in Nat

VARIABLES
  quiz,        \* status, mode and time limit of the quiz
  version,     \* the question list it has
  attempt,     \* quiz_attempts; late are open ones whose time has passed
  lesson,      \* whether each lesson exists
  done,        \* lesson_completions
  awarded,     \* dedup keys in xp_events
  certificate, \* the student's row in certificates
  tx,          \* the transactions in flight
  edits,       \* how many edits the staff made
  faults,      \* how many statements failed
  told,        \* history: the scores that were reported with 200
  dropped,     \* history: attempts whose submission lost a best-effort statement
  beside,      \* history: attempts opened although others were since the check
  free,        \* history: attempts opened when the quiz was read as not graded
  unlocked     \* history: requests in flight that evaluated the course beside one that
               \* had nothing to award, and so no lock on learner_stats, or before an
               \* edit of the staff

vars == <<quiz, version, attempt, lesson, done, awarded, certificate, tx, edits, faults,
          told, dropped, beside, free, unlocked>>
course == <<quiz, version, lesson, edits>>
work == <<done, awarded, certificate>>
opened == <<beside, free>>
replies == <<told, dropped>>

Steps == {"idle", "open", "count", "insert", "grade", "store", "award", "sync", "commit",
          "aborted"}
Keys == Lessons \cup {"submitted", "perfect"}
Idle == [at |-> "idle", attempt |-> NoAttempt, lesson |-> NoLesson, capped |-> FALSE,
         seen |-> {}, of |-> 0, score |-> 0, earned |-> {}, eligible |-> FALSE]
Transaction ==
  [at : Steps, attempt : Attempts \cup {NoAttempt}, lesson : Lessons \cup {NoLesson},
   capped : BOOLEAN, seen : SUBSET Attempts, of : 0..Versions, score : Nat,
   earned : SUBSET Keys, eligible : BOOLEAN]
Attempt == [state : {"none", "open", "submitted"}, late : BOOLEAN, score : Nat]

In(state) == {a \in Attempts : attempt[a].state = state}
Existing == {l \in Lessons : lesson[l] = "there"}

\* Transactions that wrote something, which they hold until they end.
Writing == {r \in Requests : tx[r].at \in {"award", "sync", "commit", "aborted"}}
Others(r) == Writing \ {r}

\* is_course_complete, of these completions and submissions.
Complete(lessons, submitted) ==
  /\ Existing # {} /\ Existing \subseteq lessons
  /\ quiz.published /\ quiz.graded => submitted # {}

Init ==
  /\ quiz \in Settings /\ version = 1
  /\ attempt = [a \in Attempts |-> [state |-> "none", late |-> FALSE, score |-> 0]]
  /\ lesson = [l \in Lessons |-> IF l \in FirstLessons THEN "there" ELSE "absent"]
  /\ done = {} /\ awarded = {} /\ certificate = "none"
  /\ tx = [r \in Requests |-> Idle]
  /\ edits = 0 /\ faults = 0
  /\ told = {} /\ dropped = {} /\ beside = {} /\ free = {} /\ unlocked = {}

\* The transaction ends, with COMMIT or without.
End(r) == tx' = [tx EXCEPT ![r] = Idle] /\ unlocked' = unlocked \ {r}

Fault == faults < MaxFaults /\ faults' = faults + 1

------------------------------------------------------------------------------
(* start_attempt_inner. The quiz is read, and must be published,           *)

Start(r) ==
  /\ tx[r] = Idle /\ quiz.published
  /\ tx' = [tx EXCEPT ![r] = [Idle EXCEPT !.at = "open", !.capped = quiz.graded]]
  /\ UNCHANGED <<course, attempt, work, faults, replies, opened, unlocked>>

\* then the open attempts, of which one is resumed.
Resume(r) ==
  /\ tx[r].at = "open" /\ In("open") # {}
  /\ End(r)
  /\ UNCHANGED <<course, attempt, work, faults, replies, opened>>

\* Mutant: open attempts are not looked for.
LookAway(r) ==
  /\ tx[r].at = "open"
  /\ tx' = [tx EXCEPT ![r].at = IF tx[r].capped THEN "count" ELSE "insert",
                      ![r].seen = Attempts \ In("none")]
  /\ UNCHANGED <<course, attempt, work, faults, replies, opened, unlocked>>

\* Without one, a graded quiz counts
Look(r) ==
  /\ tx[r].at = "open" /\ In("open") = {}
  /\ tx' = [tx EXCEPT ![r].at = IF tx[r].capped THEN "count" ELSE "insert",
                      ![r].seen = Attempts \ In("none")]
  /\ UNCHANGED <<course, attempt, work, faults, replies, opened, unlocked>>

\* those submitted against the cap,
Count(r) ==
  /\ tx[r].at = "count"
  /\ IF Cardinality(In("submitted")) < Cap
     THEN tx' = [tx EXCEPT ![r].at = "insert"] /\ UNCHANGED unlocked
     ELSE End(r)
  /\ UNCHANGED <<course, attempt, work, faults, replies, opened>>

\* and a new one is opened.
Insert(r, a) ==
  /\ tx[r].at = "insert" /\ attempt[a].state = "none"
  /\ attempt' = [attempt EXCEPT ![a].state = "open"]
  /\ beside' = IF tx[r].seen = Attempts \ In("none") THEN beside ELSE beside \cup {a}
  /\ free' = IF tx[r].capped THEN free ELSE free \cup {a}
  /\ End(r)
  /\ UNCHANGED <<course, work, faults, replies>>

\* The limit and the seconds of grace pass.
TimePasses(a) ==
  /\ quiz.limited /\ attempt[a].state = "open" /\ ~attempt[a].late
  /\ attempt' = [attempt EXCEPT ![a].late = TRUE]
  /\ UNCHANGED <<course, work, tx, faults, replies, opened, unlocked>>

------------------------------------------------------------------------------
(* submit_attempt_inner. The quiz and the attempt are read, which must be  *)
(* open and not overdue; the answers are graded against the questions,     *)

Submit(r, a) ==
  /\ tx[r] = Idle /\ attempt[a].state = "open"
  /\ ~(quiz.limited /\ attempt[a].late)
  /\ tx' = [tx EXCEPT ![r] = [Idle EXCEPT !.at = "grade", !.attempt = a]]
  /\ UNCHANGED <<course, attempt, work, faults, replies, opened, unlocked>>

Grade(r) ==
  /\ tx[r].at = "grade"
  /\ \E score \in 0..Size[version] :
       tx' = [tx EXCEPT ![r] = [@ EXCEPT !.at = "store", !.of = version, !.score = score]]
  /\ UNCHANGED <<course, attempt, work, faults, replies, opened, unlocked>>

\* Nobody else has written the row of the attempt.
AttemptFree(r) == \A s \in Others(r) : tx[s].attempt # tx[r].attempt

\* Mutant: the update is not guarded by submitted_at.
StoreAgain(r) ==
  /\ tx[r].at = "store" /\ AttemptFree(r)
  /\ tx' = [tx EXCEPT ![r].at = "award"]
  /\ UNCHANGED <<course, attempt, work, faults, replies, opened, unlocked>>

\* and score and answers stored, if the attempt is still open when the update gets
\* its row and the questions the answers refer to are still there.
Store(r) ==
  /\ tx[r].at = "store" /\ AttemptFree(r)
  /\ attempt[tx[r].attempt].state = "open"
  /\ tx[r].of = version \/ Size[tx[r].of] = 0
  /\ tx' = [tx EXCEPT ![r].at = "award"]
  /\ UNCHANGED <<course, attempt, work, faults, replies, opened, unlocked>>

\* Mutant: the loser of a race is answered with what it would have stored.
AnswerLoser(r) ==
  /\ tx[r].at = "store" /\ AttemptFree(r)
  /\ attempt[tx[r].attempt].state # "open"
  /\ told' = told \cup {<<tx[r].attempt, tx[r].score>>}
  /\ End(r)
  /\ UNCHANGED <<course, attempt, work, faults, dropped, opened>>

\* 409 to the loser of a race, 500 where the questions were replaced.
Refuse(r) ==
  /\ tx[r].at = "store" /\ AttemptFree(r)
  /\ \/ attempt[tx[r].attempt].state # "open"
     \/ tx[r].of # version /\ Size[tx[r].of] # 0
  /\ End(r)
  /\ UNCHANGED <<course, attempt, work, faults, replies, opened>>

------------------------------------------------------------------------------
(* set_completion. A lesson already completed is left alone, as is one     *)
(* that another request is completing, once that commits.                  *)

LessonFree(l) == \A s \in Writing : tx[s].lesson # l

Mark(r, l) ==
  /\ tx[r] = Idle /\ l \in Existing \ done /\ LessonFree(l)
  /\ tx' = [tx EXCEPT ![r] = [Idle EXCEPT !.at = "award", !.lesson = l]]
  /\ UNCHANGED <<course, attempt, work, faults, replies, opened, unlocked>>

Unmark(l) ==
  /\ l \in done
  /\ done' = done \ {l}
  /\ UNCHANGED <<course, attempt, awarded, certificate, tx, faults, replies, opened, unlocked>>

------------------------------------------------------------------------------
(* The best-effort part of both: experience points, once per key,          *)

\* What a transaction asks to be awarded for.
Claimed(r) ==
  IF tx[r].lesson # NoLesson THEN {tx[r].lesson}
  ELSE {"submitted"} \cup
       {k \in {"perfect"} : Size[tx[r].of] > 0 /\ tx[r].score = Size[tx[r].of]}

Earned(r) == Claimed(r) \ awarded

\* Mutant: the points are not added up in learner_stats in the same transaction.
AwardUnlocked(r) ==
  /\ tx[r].at = "award"
  /\ \A s \in Others(r) : tx[s].earned \cap Claimed(r) = {}
  /\ tx' = [tx EXCEPT ![r].at = "sync", ![r].earned = Earned(r)]
  /\ unlocked' = LET lockless == {s \in Others(r) : tx[s].at # "award" /\ tx[s].earned = {}}
                 IN IF Earned(r) = {} THEN unlocked \cup {r} \cup Others(r)
                    ELSE IF lockless # {} THEN unlocked \cup {r} \cup lockless
                    ELSE unlocked
  /\ UNCHANGED <<course, attempt, work, faults, replies, opened>>

\* which waits for whoever is writing a key it claims, and, if it has anything to add,
\* for whoever is writing the student's row of learner_stats;
Award(r) ==
  /\ tx[r].at = "award"
  /\ \A s \in Others(r) : tx[s].earned \cap Claimed(r) = {}
  /\ Earned(r) # {} => \A s \in Others(r) : tx[s].earned = {}
  /\ tx' = [tx EXCEPT ![r].at = "sync", ![r].earned = Earned(r)]
  /\ unlocked' = LET lockless == {s \in Others(r) : tx[s].at # "award" /\ tx[s].earned = {}}
                 IN IF Earned(r) = {} THEN unlocked \cup {r} \cup Others(r)
                    ELSE IF lockless # {} THEN unlocked \cup {r} \cup lockless
                    ELSE unlocked
  /\ UNCHANGED <<course, attempt, work, faults, replies, opened>>

\* and sync_eligibility, which sees what is committed and what the transaction wrote.
Sync(r) ==
  /\ tx[r].at = "sync"
  /\ LET complete == Complete(done \cup {tx[r].lesson},
                              In("submitted") \cup ({tx[r].attempt} \ {NoAttempt}))
     IN /\ complete => \A s \in Others(r) : ~tx[s].eligible
        /\ tx' = [tx EXCEPT ![r] = [@ EXCEPT !.at = "commit",
                                             !.eligible = complete /\ certificate = "none"]]
  /\ UNCHANGED <<course, attempt, work, faults, replies, opened, unlocked>>

\* A statement of this part fails. The failure is logged, and the handler goes on.
BestEffortFails(r) ==
  /\ tx[r].at \in {"award", "sync"} /\ Fault
  /\ tx' = [tx EXCEPT ![r].at = "aborted"]
  /\ dropped' = dropped \cup ({tx[r].attempt} \ {NoAttempt})
  /\ UNCHANGED <<course, attempt, work, told, opened, unlocked>>

Reply(r) == told' = told \cup ({tx[r].attempt} \ {NoAttempt}) \X {tx[r].score}

Commit(r) ==
  /\ tx[r].at = "commit"
  /\ attempt' = [a \in Attempts |->
                   IF a = tx[r].attempt
                   THEN [state |-> "submitted", late |-> FALSE, score |-> tx[r].score]
                   ELSE attempt[a]]
  /\ done' = done \cup ({tx[r].lesson} \ {NoLesson})
  /\ awarded' = awarded \cup tx[r].earned
  /\ certificate' = IF tx[r].eligible THEN "eligible" ELSE certificate
  /\ Reply(r) /\ End(r)
  /\ UNCHANGED <<course, faults, dropped, opened>>

\* The COMMIT of a transaction that a failed statement aborted rolls it back, without
\* an error.
CommitAborted(r) ==
  /\ tx[r].at = "aborted"
  /\ Reply(r) /\ End(r)
  /\ UNCHANGED <<course, attempt, work, faults, dropped, opened>>

\* The backend or its connection dies.
Die(r) ==
  /\ tx[r] # Idle /\ Fault
  /\ End(r)
  /\ UNCHANGED <<course, attempt, work, replies, opened>>

------------------------------------------------------------------------------
(* The staff.                                                              *)

Edit ==
  /\ edits < MaxEdits /\ edits' = edits + 1
  /\ unlocked' = unlocked \cup {r \in Requests : tx[r].at = "commit"}

\* A draft needs a question to be published.
Patch(settings) ==
  /\ Edit /\ settings # quiz
  /\ settings.published /\ ~quiz.published => Size[version] > 0
  /\ quiz' = settings
  /\ UNCHANGED <<version, lesson, attempt, work, tx, faults, replies, opened>>

\* New questions wait for answers that are being stored to the old ones.
Replace ==
  /\ Edit /\ version < Versions
  /\ \A r \in Writing : tx[r].attempt # NoAttempt => Size[tx[r].of] = 0
  /\ version' = version + 1
  /\ UNCHANGED <<quiz, lesson, attempt, work, tx, faults, replies, opened>>

AddLesson(l) ==
  /\ Edit /\ lesson[l] = "absent"
  /\ lesson' = [lesson EXCEPT ![l] = "there"]
  /\ UNCHANGED <<quiz, version, attempt, work, tx, faults, replies, opened>>

\* Completions go with their lesson.
DeleteLesson(l) ==
  /\ Edit /\ lesson[l] = "there" /\ LessonFree(l)
  /\ lesson' = [lesson EXCEPT ![l] = "deleted"]
  /\ done' = done \ {l}
  /\ UNCHANGED <<quiz, version, attempt, awarded, certificate, tx, faults, replies, opened>>

Issue ==
  /\ certificate \in {"eligible", "revoked"}
  /\ certificate' = "issued"
  /\ UNCHANGED <<course, attempt, done, awarded, tx, faults, replies, opened, unlocked>>

RevokeCertificate ==
  /\ certificate = "issued"
  /\ certificate' = "revoked"
  /\ UNCHANGED <<course, attempt, done, awarded, tx, faults, replies, opened, unlocked>>

------------------------------------------------------------------------------
Request(r) ==
  \/ Start(r) \/ Resume(r) \/ Look(r) \/ Count(r) \/ \E a \in Attempts : Insert(r, a)
  \/ \E a \in Attempts : Submit(r, a)
  \/ Grade(r) \/ Store(r) \/ Refuse(r)
  \/ \E l \in Lessons : Mark(r, l)
  \/ Award(r) \/ Sync(r) \/ Commit(r)
  \/ BestEffortFails(r) \/ CommitAborted(r) \/ Die(r)

Staff ==
  \/ \E settings \in Settings : Patch(settings)
  \/ Replace
  \/ \E l \in Lessons : AddLesson(l) \/ DeleteLesson(l)
  \/ Issue \/ RevokeCertificate

Next ==
  \/ \E r \in Requests : Request(r)
  \/ \E a \in Attempts : TimePasses(a)
  \/ \E l \in Lessons : Unmark(l)
  \/ Staff

Spec == Init /\ [][Next]_vars

------------------------------------------------------------------------------
(* Properties.                                                             *)

TypeOK ==
  /\ quiz \in [published : BOOLEAN, graded : BOOLEAN, limited : BOOLEAN]
  /\ version \in 1..Versions
  /\ attempt \in [Attempts -> Attempt]
  /\ lesson \in [Lessons -> {"absent", "there", "deleted"}]
  /\ done \subseteq Lessons
  /\ awarded \subseteq Keys
  /\ certificate \in {"none", "eligible", "issued", "revoked"}
  /\ tx \in [Requests -> Transaction]
  /\ edits \in 0..MaxEdits /\ faults \in 0..MaxFaults
  /\ told \subseteq Attempts \X Nat
  /\ dropped \subseteq Attempts /\ beside \subseteq Attempts /\ free \subseteq Attempts
  /\ unlocked \subseteq Requests

\* The cap holds, and there is one open attempt, for whoever does one thing at a time:
\* attempts submitted beyond the cap, and open beside another one, were opened while
\* another request opened one, or, as to the cap, when the quiz was not graded. There
\* is neither a lock nor a unique index on open attempts.
AttemptsAreCounted ==
  /\ Cardinality(In("submitted") \ (beside \cup free)) <= Cap
  /\ \A a, b \in In("open") \ beside : a = b

\* A score that was reported is the one stored, however many submissions of the attempt
\* raced, unless a best-effort statement failed and took the submission with it.
ReportedIsStored ==
  \A report \in told :
    \/ attempt[report[1]].state = "submitted" /\ attempt[report[1]].score = report[2]
    \/ report[1] \in dropped

\* A submitted attempt stays as it is.
ScoreIsFinal ==
  [][\A a \in In("submitted") : attempt'[a] = attempt[a]]_attempt

CourseComplete == Complete(done, In("submitted"))

\* The request that makes the course complete makes the certificate eligible, however
\* it overlaps others: that experience points are added up first, under the lock of the
\* row of learner_stats, is what makes it see the others' work. It may miss it only
\* beside a request that had nothing to award, for a lesson done before, or an edit.
CompletionIsOffered ==
  [][~CourseComplete /\ CourseComplete' /\ UNCHANGED course
     => certificate' # "none" \/ unlocked # {}]_vars

===============================================================================
