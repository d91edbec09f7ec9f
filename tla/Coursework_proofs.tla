--------------------------- MODULE Coursework_proofs ---------------------------
(***************************************************************************)
(* The work of a student on a course, for any number of requests, attempts *)
(* and lessons, any question lists and any edits and faults.               *)
(***************************************************************************)
EXTENDS Coursework, FiniteSetTheorems, TLAPS

LEMMA BoundsType ==
  /\ 0 \in 0..MaxEdits /\ 0 \in 0..MaxFaults /\ 1 \in 1..Versions /\ 0 \in 0..Versions
  /\ Settings \subseteq [published : BOOLEAN, graded : BOOLEAN, limited : BOOLEAN]
BY CourseworkAssumption

LEMMA FaultType ==
  ASSUME TypeOK, Fault
  PROVE  faults' \in 0..MaxFaults
BY CourseworkAssumption DEF TypeOK, Fault

LEMMA IdleType == Idle \in Transaction
BY BoundsType DEF Idle, Transaction, Steps

LEMMA EndType ==
  ASSUME TypeOK, NEW r \in Requests, End(r)
  PROVE  tx' \in [Requests -> Transaction] /\ unlocked' \subseteq Requests
BY IdleType DEF TypeOK, End

\* A request goes on with another record.
LEMMA TxType ==
  ASSUME TypeOK, NEW r \in Requests, NEW t \in Transaction, tx' = [tx EXCEPT ![r] = t]
  PROVE  tx' \in [Requests -> Transaction]
BY DEF TypeOK

LEMMA TypeInit == Init => TypeOK
<1> SUFFICES ASSUME Init PROVE TypeOK
  OBVIOUS
<1>1. attempt \in [Attempts -> Attempt]
  BY DEF Init, Attempt
<1>2. lesson \in [Lessons -> {"absent", "there", "deleted"}]
  BY DEF Init
<1>3. tx \in [Requests -> Transaction]
  BY IdleType DEF Init
<1> QED  BY <1>1, <1>2, <1>3, BoundsType DEF Init, TypeOK

LEMMA StartType ==
  ASSUME TypeOK, NEW r \in Requests,
         Start(r) \/ Resume(r) \/ Look(r) \/ Count(r) \/ \E a \in Attempts : Insert(r, a)
  PROVE  TypeOK'
<1> USE DEF TypeOK, course, work, replies, opened
<1>0. tx[r] \in Transaction
  OBVIOUS
<1>1. CASE Start(r)
  <2>1. [Idle EXCEPT !.at = "open", !.capped = quiz.graded] \in Transaction
    BY IdleType DEF Transaction, Steps
  <2> QED  BY <1>1, <2>1, TxType DEF Start
<1>2. CASE Resume(r)
  BY <1>2, EndType DEF Resume
<1>3. CASE Look(r)
  BY <1>0, <1>3 DEF Look, Transaction, Steps, In
<1>4. CASE Count(r)
  <2>1. CASE Cardinality(In("submitted")) < Cap
    BY <1>0, <1>4, <2>1 DEF Count, Transaction, Steps
  <2>2. CASE ~(Cardinality(In("submitted")) < Cap)
    BY <1>4, <2>2, EndType DEF Count
  <2> QED  BY <2>1, <2>2
<1>5. ASSUME NEW a \in Attempts, Insert(r, a)
      PROVE  TypeOK'
  <2>1. attempt' \in [Attempts -> Attempt]
    BY <1>5 DEF Insert, Attempt
  <2> QED  BY <1>5, <2>1, EndType DEF Insert
<1> QED  BY <1>1, <1>2, <1>3, <1>4, <1>5

LEMMA SubmitType ==
  ASSUME TypeOK, NEW r \in Requests,
         \/ \E a \in Attempts : Submit(r, a)
         \/ Grade(r) \/ Store(r) \/ Refuse(r) \/ \E l \in Lessons : Mark(r, l)
  PROVE  TypeOK'
<1> USE DEF TypeOK, course, work, replies, opened
<1>0. tx[r] \in Transaction
  OBVIOUS
<1>1. ASSUME NEW a \in Attempts, Submit(r, a)
      PROVE  TypeOK'
  <2>1. [Idle EXCEPT !.at = "grade", !.attempt = a] \in Transaction
    BY IdleType DEF Transaction, Steps
  <2> QED  BY <1>1, <2>1, TxType DEF Submit
<1>2. CASE Grade(r)
  <2>1. PICK score \in 0..Size[version] :
          tx' = [tx EXCEPT ![r] = [@ EXCEPT !.at = "store", !.of = version, !.score = score]]
    BY <1>2 DEF Grade
  <2>2. [tx[r] EXCEPT !.at = "store", !.of = version, !.score = score] \in Transaction
    <3>1. version \in 0..Versions /\ score \in Nat
      BY CourseworkAssumption
    <3> QED  BY <1>0, <3>1 DEF Transaction, Steps
  <2>3. tx' \in [Requests -> Transaction]
    BY <2>1, <2>2
  <2> QED  BY <1>2, <2>3 DEF Grade
<1>3. CASE Store(r)
  <2>1. [tx[r] EXCEPT !.at = "award"] \in Transaction
    BY <1>0 DEF Transaction, Steps
  <2>2. tx' = [tx EXCEPT ![r] = [tx[r] EXCEPT !.at = "award"]]
    BY <1>3 DEF Store
  <2> QED  BY <1>3, <2>1, <2>2, TxType DEF Store
<1>4. CASE Refuse(r)
  BY <1>4, EndType DEF Refuse
<1>5. ASSUME NEW l \in Lessons, Mark(r, l)
      PROVE  TypeOK'
  <2>1. [Idle EXCEPT !.at = "award", !.lesson = l] \in Transaction
    BY IdleType DEF Transaction, Steps
  <2> QED  BY <1>5, <2>1, TxType DEF Mark
<1> QED  BY <1>1, <1>2, <1>3, <1>4, <1>5

LEMMA EarnedType ==
  ASSUME TypeOK, NEW r \in Requests
  PROVE  Earned(r) \subseteq Keys
BY DEF TypeOK, Transaction, Earned, Claimed, Keys

LEMMA EffortType ==
  ASSUME TypeOK, NEW r \in Requests, Award(r) \/ Sync(r) \/ BestEffortFails(r)
  PROVE  TypeOK'
<1> USE DEF TypeOK, course, work, replies, opened
<1>0. tx[r] \in Transaction
  OBVIOUS
<1>1. CASE Award(r)
  <2>1. tx' \in [Requests -> Transaction]
    BY <1>0, <1>1, EarnedType DEF Award, Transaction, Steps
  <2>2. unlocked' \subseteq Requests
    BY <1>1 DEF Award, Others, Writing
  <2> QED  BY <1>1, <2>1, <2>2 DEF Award
<1>2. CASE Sync(r)
  <2>1. PICK e \in BOOLEAN :
          tx' = [tx EXCEPT ![r] = [@ EXCEPT !.at = "commit", !.eligible = e]]
    BY <1>2 DEF Sync
  <2>2. [tx[r] EXCEPT !.at = "commit", !.eligible = e] \in Transaction
    BY <1>0 DEF Transaction, Steps
  <2>3. tx' \in [Requests -> Transaction]
    BY <2>1, <2>2
  <2> QED  BY <1>2, <2>3 DEF Sync
<1>3. CASE BestEffortFails(r)
  <2>1. tx' \in [Requests -> Transaction]
    BY <1>0, <1>3 DEF BestEffortFails, Transaction, Steps
  <2>2. dropped' \subseteq Attempts
    BY <1>0, <1>3 DEF BestEffortFails, Transaction
  <2> QED  BY <1>3, <2>1, <2>2, FaultType DEF BestEffortFails
<1> QED  BY <1>1, <1>2, <1>3

LEMMA ReplyType ==
  ASSUME TypeOK, NEW r \in Requests, Reply(r)
  PROVE  told' \subseteq Attempts \X Nat
BY DEF TypeOK, Reply, Transaction

LEMMA CommitType ==
  ASSUME TypeOK, NEW r \in Requests, Commit(r) \/ CommitAborted(r) \/ Die(r)
  PROVE  TypeOK'
<1> USE DEF TypeOK, course, work, replies, opened
<1>0. tx[r] \in Transaction
  OBVIOUS
<1>1. CASE Commit(r)
  <2>1. attempt' \in [Attempts -> Attempt]
    <3>1. tx[r].score \in Nat
      BY <1>0 DEF Transaction
    <3>2. [state |-> "submitted", late |-> FALSE, score |-> tx[r].score] \in Attempt
      BY <3>1 DEF Attempt
    <3> QED  BY <1>1, <3>2 DEF Commit
  <2>2. done' \subseteq Lessons /\ awarded' \subseteq Keys
    BY <1>0, <1>1 DEF Commit, Transaction
  <2>3. certificate' \in {"none", "eligible", "issued", "revoked"}
    BY <1>1 DEF Commit
  <2>4. told' \subseteq Attempts \X Nat
    BY <1>1, ReplyType DEF Commit
  <2>5. tx' \in [Requests -> Transaction] /\ unlocked' \subseteq Requests
    BY <1>1, EndType DEF Commit
  <2> QED  BY <1>1, <2>1, <2>2, <2>3, <2>4, <2>5 DEF Commit
<1>2. CASE CommitAborted(r)
  BY <1>2, ReplyType, EndType DEF CommitAborted
<1>3. CASE Die(r)
  BY <1>3, FaultType, EndType DEF Die
<1> QED  BY <1>1, <1>2, <1>3

LEMMA StaffType ==
  ASSUME TypeOK,
         \/ Staff \/ \E l \in Lessons : Unmark(l)
         \/ \E a \in Attempts : TimePasses(a)
  PROVE  TypeOK'
<1> USE DEF TypeOK, course, work, replies, opened
<1>1. Edit => edits' \in 0..MaxEdits /\ unlocked' \subseteq Requests
  BY CourseworkAssumption DEF Edit
<1>2. ASSUME NEW settings \in Settings, Patch(settings)
      PROVE  TypeOK'
  BY <1>1, <1>2, BoundsType DEF Patch
<1>3. CASE Replace
  <2>1. version' \in 1..Versions
    BY <1>3, CourseworkAssumption DEF Replace
  <2> QED  BY <1>1, <1>3, <2>1 DEF Replace
<1>4. ASSUME NEW l \in Lessons, AddLesson(l) \/ DeleteLesson(l)
      PROVE  TypeOK'
  BY <1>1, <1>4 DEF AddLesson, DeleteLesson
<1>5. CASE Issue \/ RevokeCertificate
  BY <1>5 DEF Issue, RevokeCertificate
<1>6. ASSUME NEW l \in Lessons, Unmark(l)
      PROVE  TypeOK'
  BY <1>6 DEF Unmark
<1>7. ASSUME NEW a \in Attempts, TimePasses(a)
      PROVE  TypeOK'
  <2>1. [attempt[a] EXCEPT !.late = TRUE] \in Attempt
    BY DEF Attempt
  <2>2. attempt' = [attempt EXCEPT ![a] = [attempt[a] EXCEPT !.late = TRUE]]
    BY <1>7 DEF TimePasses
  <2> QED  BY <1>7, <2>1, <2>2 DEF TimePasses
<1> QED  BY <1>2, <1>3, <1>4, <1>5, <1>6, <1>7 DEF Staff

LEMMA TypeStep == TypeOK /\ [Next]_vars => TypeOK'
<1> SUFFICES ASSUME TypeOK, [Next]_vars PROVE TypeOK'
  OBVIOUS
<1>1. ASSUME NEW r \in Requests, Request(r)
      PROVE  TypeOK'
  BY <1>1, StartType, SubmitType, EffortType, CommitType DEF Request
<1>2. CASE UNCHANGED vars
  BY <1>2 DEF vars, TypeOK, Attempt, Transaction
<1> QED  BY <1>1, <1>2, StaffType DEF Next

\* The quiz, attempts, completions, awards and transactions keep their types.
THEOREM TypeCorrect == Spec => []TypeOK
<1> QED  BY TypeInit, TypeStep, PTL DEF Spec

------------------------------------------------------------------------------
(* The invariant. What a request does later rests on what it found before: *)
(* whoever is to store an attempt names one, whoever has stored it holds   *)
(* it open for itself, and whoever is to insert one has seen only          *)
(* submitted ones, fewer than the cap.                                     *)

Sound(r) ==
  /\ tx[r].at \in {"grade", "store"} => tx[r].attempt \in Attempts
  /\ tx[r].at \in {"award", "sync", "commit"} /\ tx[r].attempt # NoAttempt =>
       attempt[tx[r].attempt].state = "open"
  /\ tx[r].at = "aborted" /\ tx[r].attempt # NoAttempt => tx[r].attempt \in dropped
  /\ tx[r].at \in {"count", "insert"} => tx[r].seen \subseteq In("submitted")
  /\ tx[r].at = "insert" /\ tx[r].capped => Cardinality(tx[r].seen) < Cap

Exclusive ==
  \A r, s \in Writing :
    r # s /\ tx[r].attempt = tx[s].attempt => tx[r].attempt = NoAttempt

Started == Attempts \ In("none")

\* Attempts in progress count, too: they can be submitted at any time.
Counted == Cardinality(Started \ (beside \cup free)) <= Cap
OneAtATime == \A a, b \in In("open") \ beside : a = b

Inv ==
  /\ TypeOK /\ (\A r \in Requests : Sound(r)) /\ Exclusive
  /\ Counted /\ OneAtATime /\ ReportedIsStored

LEMMA InvInit == Init => Inv
<1> SUFFICES ASSUME Init PROVE Inv
  OBVIOUS
<1>1. \A r \in Requests : Sound(r)
  BY DEF Init, Sound, Idle
<1>2. Exclusive
  BY DEF Init, Exclusive, Writing, Idle
<1>3. Started = {} /\ In("open") = {}
  BY DEF Init, Started, In
<1>4. Counted
  <2>1. Started \ (beside \cup free) = {}
    BY <1>3
  <2>2. Cardinality(Started \ (beside \cup free)) = 0
    BY <2>1, FS_EmptySet
  <2> QED  BY <2>2, CourseworkAssumption DEF Counted
<1>5. OneAtATime /\ ReportedIsStored
  BY <1>3 DEF Init, OneAtATime, ReportedIsStored
<1> QED  BY <1>1, <1>2, <1>4, <1>5, TypeInit DEF Inv

\* Only three steps touch the attempts.
LEMMA AttemptSteps ==
  ASSUME [Next]_vars
  PROVE  \/ UNCHANGED attempt
         \/ \E r \in Requests : Commit(r) \/ \E a \in Attempts : Insert(r, a)
         \/ \E a \in Attempts : TimePasses(a)
<1>1. ASSUME NEW r \in Requests, Request(r)
      PROVE  \/ UNCHANGED attempt
             \/ Commit(r) \/ \E a \in Attempts : Insert(r, a)
  BY <1>1 DEF Request, Start, Resume, Look, Count, Submit, Grade, Store, Refuse, Mark,
              Award, Sync, BestEffortFails, CommitAborted, Die
<1>2. Staff \/ (\E l \in Lessons : Unmark(l)) => UNCHANGED attempt
  BY DEF Staff, Patch, Replace, AddLesson, DeleteLesson, Issue, RevokeCertificate, Unmark
<1>3. UNCHANGED vars => UNCHANGED attempt
  BY DEF vars
<1> QED  BY <1>1, <1>2, <1>3 DEF Next

\* What a commit makes of the attempts.
LEMMA CommitEffect ==
  ASSUME TypeOK, NEW r \in Requests, Commit(r), NEW a \in Attempts
  PROVE  /\ a = tx[r].attempt =>
              attempt'[a].state = "submitted" /\ attempt'[a].score = tx[r].score
         /\ a # tx[r].attempt => attempt'[a] = attempt[a]
<1>1. a = tx[r].attempt =>
        attempt'[a] = [state |-> "submitted", late |-> FALSE, score |-> tx[r].score]
  BY DEF Commit
<1> QED  BY <1>1 DEF Commit

LEMMA InsertEffect ==
  ASSUME TypeOK, NEW r \in Requests, NEW a \in Attempts, Insert(r, a), NEW b \in Attempts
  PROVE  /\ attempt[a].state = "none" /\ attempt'[a].state = "open"
         /\ b # a => attempt'[b] = attempt[b]
<1>1. attempt[a] \in Attempt
  BY DEF TypeOK
<1> QED  BY <1>1 DEF Insert, Attempt, TypeOK

LEMMA TimeEffect ==
  ASSUME TypeOK, NEW a \in Attempts, TimePasses(a), NEW b \in Attempts
  PROVE  /\ attempt[a].state = "open" /\ attempt'[a].state = "open"
         /\ b # a => attempt'[b] = attempt[b]
<1>1. attempt[a] \in Attempt
  BY DEF TypeOK
<1> QED  BY <1>1 DEF TimePasses, Attempt, TypeOK

\* A submitted attempt stays as it is, and one that was opened does not vanish.
LEMMA AttemptStays ==
  ASSUME Inv, [Next]_vars, NEW a \in Attempts
  PROVE  /\ attempt[a].state = "submitted" => attempt'[a] = attempt[a]
         /\ attempt[a].state # "none" => attempt'[a].state # "none"
<1> USE DEF Inv
<1>1. ASSUME NEW r \in Requests, Commit(r)
      PROVE  /\ attempt[a].state = "submitted" => attempt'[a] = attempt[a]
             /\ attempt[a].state # "none" => attempt'[a].state # "none"
  <2>1. a = tx[r].attempt => attempt[a].state = "open"
    BY <1>1, CourseworkAssumption DEF Sound, Commit
  <2> QED  BY <1>1, <2>1, CommitEffect
<1>2. ASSUME NEW r \in Requests, NEW b \in Attempts, Insert(r, b)
      PROVE  attempt[a].state # "none" => attempt'[a] = attempt[a]
  BY <1>2, InsertEffect
<1>3. ASSUME NEW b \in Attempts, TimePasses(b)
      PROVE  /\ attempt[a].state # "open" => attempt'[a] = attempt[a]
             /\ attempt[a].state # "none" => attempt'[a].state # "none"
  BY <1>3, TimeEffect
<1> QED  BY <1>1, <1>2, <1>3, AttemptSteps

\* Each step moves one request at most.
LEMMA RequestSteps ==
  ASSUME TypeOK, [Next]_vars, NEW r \in Requests, ~Request(r)
  PROVE  tx'[r] = tx[r]
<1>1. ASSUME NEW q \in Requests, q # r, Request(q)
      PROVE  tx'[r] = tx[r]
  BY <1>1 DEF TypeOK, Request, Start, Resume, Look, Count, Insert, Submit, Grade, Store,
              Refuse, Mark, Award, Sync, Commit, BestEffortFails, CommitAborted, Die, End
<1>2. Staff \/ (\E l \in Lessons : Unmark(l)) \/ (\E a \in Attempts : TimePasses(a))
        => UNCHANGED tx
  BY DEF Staff, Patch, Replace, AddLesson, DeleteLesson, Issue, RevokeCertificate, Unmark,
         TimePasses
<1>3. UNCHANGED vars => UNCHANGED tx
  BY DEF vars
<1> QED  BY <1>1, <1>2, <1>3 DEF Next

LEMMA DroppedGrows == [Next]_vars => dropped \subseteq dropped'
<1> SUFFICES ASSUME [Next]_vars PROVE dropped \subseteq dropped'
  OBVIOUS
<1>1. ASSUME NEW r \in Requests, Request(r)
      PROVE  dropped \subseteq dropped'
  BY <1>1 DEF replies, Request, Start, Resume, Look, Count, Insert, Submit, Grade, Store,
              Refuse, Mark, Award, Sync, Commit, BestEffortFails, CommitAborted, Die
<1>2. Staff \/ (\E l \in Lessons : Unmark(l)) \/ (\E a \in Attempts : TimePasses(a))
        => UNCHANGED dropped
  BY DEF replies, Staff, Patch, Replace, AddLesson, DeleteLesson, Issue, RevokeCertificate,
         Unmark, TimePasses
<1>3. UNCHANGED vars => UNCHANGED dropped
  BY DEF vars
<1> QED  BY <1>1, <1>2, <1>3 DEF Next

LEMMA EndIsIdle == ASSUME TypeOK, NEW r \in Requests, End(r) PROVE tx'[r] = Idle
BY DEF TypeOK, End

\* Nobody closes an attempt that a request has stored but not committed.
LEMMA HeldOpen ==
  ASSUME Inv, [Next]_vars, NEW r \in Requests, tx'[r] = tx[r],
         tx[r].at \in {"award", "sync", "commit"}, tx[r].attempt # NoAttempt
  PROVE  attempt'[tx[r].attempt].state = "open"
<1> DEFINE a == tx[r].attempt
<1>1. a \in Attempts /\ attempt[a].state = "open"
  BY DEF Inv, TypeOK, Transaction, Sound
<1>2. ASSUME NEW q \in Requests, Commit(q)
      PROVE  attempt'[a].state = "open"
  <2>1. q # r
    <3>0. End(q) /\ tx[q].at = "commit"
      BY <1>2 DEF Commit
    <3>1. tx'[q] = Idle
      BY <3>0, EndIsIdle DEF Inv
    <3>2. Idle.at = "idle"
      BY DEF Idle
    <3> QED  BY <3>0, <3>1, <3>2
  <2>2. q \in Writing /\ r \in Writing
    BY <1>2 DEF Commit, Writing
  <2>3. tx[q].attempt # a
    BY <2>1, <2>2 DEF Inv, Exclusive
  <2> QED  BY <1>1, <1>2, <2>3, CommitEffect DEF Inv
<1>3. ASSUME NEW q \in Requests, NEW b \in Attempts, Insert(q, b)
      PROVE  attempt'[a].state = "open"
  BY <1>1, <1>3, InsertEffect DEF Inv
<1>4. ASSUME NEW b \in Attempts, TimePasses(b)
      PROVE  attempt'[a].state = "open"
  BY <1>1, <1>4, TimeEffect DEF Inv
<1> HIDE DEF a
<1> QED  BY <1>1, <1>2, <1>3, <1>4, AttemptSteps DEF a

LEMMA SoundKept ==
  ASSUME Inv, [Next]_vars, NEW r \in Requests, tx'[r] = tx[r]
  PROVE  Sound(r)'
<1>1. tx[r] \in Transaction /\ Sound(r)
  BY DEF Inv, TypeOK
<1>2. tx[r].seen \subseteq In("submitted") => tx[r].seen \subseteq In("submitted")'
  BY AttemptStays DEF In
<1> QED  BY <1>1, <1>2, HeldOpen, DroppedGrows DEF Sound

LEMMA SoundOfIdle == ASSUME NEW r \in Requests, tx'[r] = Idle PROVE Sound(r)'
BY DEF Sound, Idle

LEMMA SoundStep ==
  ASSUME Inv, [Next]_vars, NEW r \in Requests
  PROVE  Sound(r)'
<1> USE DEF Inv
<1>0. tx[r] \in Transaction /\ Sound(r)
  BY DEF TypeOK
<1>1. CASE Start(r) \/ Resume(r) \/ (\E a \in Attempts : Insert(r, a))
  <2>1. CASE Start(r)
    BY <2>1 DEF Start, TypeOK, Sound, Idle
  <2> QED  BY <1>1, <2>1, SoundOfIdle, EndIsIdle DEF Resume, Insert
<1>2. CASE Look(r)
  <2>1. Attempts \ In("none") \subseteq In("submitted")
    BY <1>2 DEF Look, In, TypeOK, Attempt
  <2>2. UNCHANGED attempt
    BY <1>2 DEF Look
  <2>3. /\ tx'[r].at = (IF tx[r].capped THEN "count" ELSE "insert")
        /\ tx'[r].seen = Attempts \ In("none") /\ tx'[r].capped = tx[r].capped
    BY <1>0, <1>2 DEF Look, TypeOK, Transaction
  <2> QED  BY <2>1, <2>2, <2>3 DEF Sound, In
<1>3. CASE Count(r)
  <2>1. CASE Cardinality(In("submitted")) < Cap
    <3>1. UNCHANGED attempt /\ tx[r].at = "count"
      BY <1>3 DEF Count
    <3>2. /\ tx'[r].at = "insert" /\ tx'[r].seen = tx[r].seen
      BY <1>0, <1>3, <2>1 DEF Count, TypeOK, Transaction
    <3>3. tx[r].seen \subseteq In("submitted") /\ IsFiniteSet(In("submitted"))
      BY <1>0, <3>1, FS_Subset, CourseworkAssumption DEF Sound, In
    <3>4. Cardinality(tx[r].seen) <= Cardinality(In("submitted"))
      BY <3>3, FS_Subset
    <3>5. Cardinality(tx[r].seen) \in Nat /\ Cardinality(In("submitted")) \in Nat
      BY <3>3, FS_Subset, FS_CardinalityType
    <3> QED  BY <2>1, <3>1, <3>2, <3>3, <3>4, <3>5, CourseworkAssumption DEF Sound, In
  <2>2. CASE ~(Cardinality(In("submitted")) < Cap)
    BY <1>3, <2>2, SoundOfIdle, EndIsIdle DEF Count
  <2> QED  BY <2>1, <2>2
<1>4. CASE (\E a \in Attempts : Submit(r, a)) \/ (\E l \in Lessons : Mark(r, l))
  <2>1. ASSUME NEW a \in Attempts, Submit(r, a)
        PROVE  Sound(r)'
    BY <2>1 DEF Submit, TypeOK, Sound, Idle
  <2>2. ASSUME NEW l \in Lessons, Mark(r, l)
        PROVE  Sound(r)'
    BY <2>2 DEF Mark, TypeOK, Sound, Idle
  <2> QED  BY <1>4, <2>1, <2>2
<1>5. CASE Grade(r)
  <2>1. tx[r].at = "grade" /\ tx'[r].at = "store" /\ tx'[r].attempt = tx[r].attempt
    BY <1>0, <1>5 DEF Grade, TypeOK, Transaction
  <2> QED  BY <1>0, <2>1 DEF Sound
<1>6. CASE Store(r) \/ Refuse(r)
  <2>1. CASE Store(r)
    <3>1. /\ tx'[r].at = "award" /\ tx'[r].attempt = tx[r].attempt
          /\ attempt'[tx[r].attempt].state = "open"
      BY <1>0, <2>1 DEF Store, TypeOK, Transaction
    <3> QED  BY <3>1 DEF Sound
  <2> QED  BY <1>6, <2>1, SoundOfIdle, EndIsIdle DEF Refuse
<1>7. CASE Award(r) \/ Sync(r)
  <2>1. tx[r].at \in {"award", "sync"} /\ UNCHANGED attempt
    BY <1>7 DEF Award, Sync
  <2>2. CASE Award(r)
    BY <1>0, <2>2 DEF Award, TypeOK, Transaction, Sound
  <2>3. CASE Sync(r)
    <3>1. PICK e \in BOOLEAN :
            tx' = [tx EXCEPT ![r] = [@ EXCEPT !.at = "commit", !.eligible = e]]
      BY <2>3 DEF Sync
    <3>2. tx'[r].at = "commit" /\ tx'[r].attempt = tx[r].attempt
      BY <1>0, <3>1 DEF TypeOK, Transaction
    <3> QED  BY <1>0, <2>1, <3>2 DEF Sound
  <2> QED  BY <1>7, <2>2, <2>3
<1>8. CASE BestEffortFails(r)
  <2>1. /\ tx'[r].at = "aborted" /\ tx'[r].attempt = tx[r].attempt
        /\ dropped' = dropped \cup ({tx[r].attempt} \ {NoAttempt})
    BY <1>0, <1>8 DEF BestEffortFails, TypeOK, Transaction
  <2> QED  BY <2>1 DEF Sound
<1>9. CASE Commit(r) \/ CommitAborted(r) \/ Die(r)
  BY <1>9, SoundOfIdle, EndIsIdle DEF Commit, CommitAborted, Die
<1>10. CASE ~Request(r)
  BY <1>10, RequestSteps, SoundKept
<1> QED  BY <1>1, <1>2, <1>3, <1>4, <1>5, <1>6, <1>7, <1>8, <1>9, <1>10 DEF Request

\* Who writes an attempt wrote it before, or has just found it free.
LEMMA WritingStep ==
  ASSUME Inv, [Next]_vars, NEW r \in Requests, r \in Writing', tx'[r].attempt # NoAttempt
  PROVE  /\ tx'[r].attempt = tx[r].attempt
         /\ r \in Writing \/ Store(r)
<1> USE DEF Inv, Writing
<1>0. tx[r] \in Transaction
  BY DEF TypeOK
<1>1. ASSUME tx'[r] = Idle
      PROVE  FALSE
  BY <1>1 DEF Idle
<1>2. CASE Start(r) \/ Resume(r) \/ Look(r) \/ Count(r) \/ (\E a \in Attempts : Insert(r, a))
  <2>1. CASE Start(r)
    BY <2>1 DEF Start, TypeOK, Idle
  <2>2. CASE Look(r)
    BY <1>0, <2>2 DEF Look, TypeOK, Transaction
  <2>3. CASE Count(r)
    <3>1. End(r) => FALSE
      BY <1>1, EndIsIdle
    <3>2. tx' = [tx EXCEPT ![r].at = "insert"]
      BY <2>3, <3>1 DEF Count
    <3> QED  BY <1>0, <3>2 DEF TypeOK, Transaction
  <2> QED  BY <1>1, <1>2, <2>1, <2>2, <2>3, EndIsIdle DEF Resume, Insert
<1>3. CASE (\E a \in Attempts : Submit(r, a)) \/ (\E l \in Lessons : Mark(r, l))
  <2>1. ASSUME NEW a \in Attempts, Submit(r, a)
        PROVE  FALSE
    <3>1. tx'[r] = [Idle EXCEPT !.at = "grade", !.attempt = a]
      BY <2>1 DEF Submit, TypeOK
    <3>2. tx'[r].at = "grade"
      BY <3>1 DEF Idle
    <3> QED  BY <3>2
  <2>2. ASSUME NEW l \in Lessons, Mark(r, l)
        PROVE  FALSE
    <3>1. tx'[r] = [Idle EXCEPT !.at = "award", !.lesson = l]
      BY <2>2 DEF Mark, TypeOK
    <3>2. tx'[r].attempt = NoAttempt
      BY <3>1 DEF Idle
    <3> QED  BY <3>2
  <2> QED  BY <1>3, <2>1, <2>2
<1>4. CASE Grade(r)
  BY <1>0, <1>4 DEF Grade, TypeOK, Transaction
<1>5. CASE Store(r)
  BY <1>0, <1>5 DEF Store, TypeOK, Transaction
<1>6. CASE Award(r)
  BY <1>0, <1>6 DEF Award, TypeOK, Transaction
<1>7. CASE Sync(r)
  <2>1. PICK e \in BOOLEAN :
          tx' = [tx EXCEPT ![r] = [@ EXCEPT !.at = "commit", !.eligible = e]]
    BY <1>7 DEF Sync
  <2>2. tx'[r].attempt = tx[r].attempt
    BY <1>0, <2>1 DEF TypeOK, Transaction
  <2> QED  BY <1>7, <2>2 DEF Sync
<1>8. CASE BestEffortFails(r)
  BY <1>0, <1>8 DEF BestEffortFails, TypeOK, Transaction
<1>9. CASE Refuse(r) \/ Commit(r) \/ CommitAborted(r) \/ Die(r)
  BY <1>1, <1>9, EndIsIdle DEF Refuse, Commit, CommitAborted, Die
<1>10. CASE ~Request(r)
  BY <1>10, RequestSteps
<1> QED  BY <1>2, <1>3, <1>4, <1>5, <1>6, <1>7, <1>8, <1>9, <1>10 DEF Request

LEMMA ExclusiveStep == Inv /\ [Next]_vars => Exclusive'
<1> SUFFICES ASSUME Inv, [Next]_vars, NEW r \in Writing', NEW s \in Writing', r # s,
                    tx'[r].attempt = tx'[s].attempt, tx'[r].attempt # NoAttempt
             PROVE  FALSE
  BY DEF Exclusive
<1>1. r \in Requests /\ s \in Requests
  BY DEF Writing
<1>2. tx[r].attempt = tx[s].attempt /\ tx[r].attempt # NoAttempt
  BY <1>1, WritingStep
<1>3. ASSUME NEW p \in Requests, NEW q \in Requests, p # q, Store(p), q \in Writing
      PROVE  tx[p].attempt # tx[q].attempt
  BY <1>3 DEF Store, AttemptFree, Others
<1>4. ~(Store(r) /\ Store(s))
  BY <1>1 DEF Inv, TypeOK, Store, Transaction
<1>5. (r \in Writing \/ Store(r)) /\ (s \in Writing \/ Store(s))
  BY <1>1, WritingStep
<1> QED  BY <1>1, <1>2, <1>3, <1>4, <1>5 DEF Inv, Exclusive

\* Attempts and the marks on them change together only when one is inserted.
LEMMA MarksKept ==
  ASSUME [Next]_vars, \A r \in Requests, a \in Attempts : ~Insert(r, a)
  PROVE  UNCHANGED <<beside, free>>
<1>1. ASSUME NEW r \in Requests, Request(r)
      PROVE  UNCHANGED <<beside, free>>
  BY <1>1 DEF opened, Request, Start, Resume, Look, Count, Submit, Grade, Store, Refuse, Mark,
              Award, Sync, Commit, BestEffortFails, CommitAborted, Die
<1>2. Staff \/ (\E l \in Lessons : Unmark(l)) \/ (\E a \in Attempts : TimePasses(a))
        => UNCHANGED <<beside, free>>
  BY DEF opened, Staff, Patch, Replace, AddLesson, DeleteLesson, Issue, RevokeCertificate,
         Unmark, TimePasses
<1>3. UNCHANGED vars => UNCHANGED <<beside, free>>
  BY DEF vars
<1> QED  BY <1>1, <1>2, <1>3 DEF Next

\* Without an insertion nothing is opened.
LEMMA NothingOpened ==
  ASSUME Inv, [Next]_vars, \A r \in Requests, a \in Attempts : ~Insert(r, a),
         NEW a \in Attempts
  PROVE  /\ attempt'[a].state # "none" <=> attempt[a].state # "none"
         /\ attempt'[a].state = "open" => attempt[a].state = "open"
<1> USE DEF Inv
<1>1. ASSUME NEW r \in Requests, Commit(r)
      PROVE  a = tx[r].attempt => attempt[a].state = "open" /\ attempt'[a].state = "submitted"
  <2>1. tx[r].at = "commit" /\ Sound(r)
    BY <1>1 DEF Commit
  <2>2. a = tx[r].attempt => attempt[a].state = "open"
    BY <2>1, CourseworkAssumption DEF Sound
  <2> QED  BY <1>1, <2>2, CommitEffect
<1> QED  BY <1>1, CommitEffect, TimeEffect, AttemptSteps

\* An attempt that is not beside others was inserted when all were submitted, and,
\* for a graded quiz, fewer than the cap.
LEMMA InsertedAlone ==
  ASSUME Inv, NEW r \in Requests, NEW a \in Attempts, Insert(r, a), a \notin beside'
  PROVE  /\ Started = tx[r].seen /\ In("open") = {}
         /\ a \notin free' => Cardinality(Started) < Cap
<1>1. Started = tx[r].seen
  BY DEF Insert, Started
<1>2. Started \subseteq In("submitted")
  BY <1>1 DEF Inv, Insert, Sound
<1>3. In("open") = {}
  BY <1>2 DEF Started, In
<1>4. a \notin free' => tx[r].capped
  BY DEF Insert
<1> QED  BY <1>1, <1>3, <1>4 DEF Inv, Insert, Sound

LEMMA CountedStep == Inv /\ [Next]_vars => Counted'
<1> SUFFICES ASSUME Inv, [Next]_vars PROVE Counted'
  OBVIOUS
<1> DEFINE N == Started \ (beside \cup free)
<1>1. IsFiniteSet(Started) /\ IsFiniteSet(N)
  BY FS_Subset, CourseworkAssumption DEF Started
<1>2. CASE \A r \in Requests, a \in Attempts : ~Insert(r, a)
  <2>1. N' = N
    BY <1>2, NothingOpened, MarksKept DEF Started, In
  <2> QED  BY <2>1 DEF Counted, Inv
<1>3. ASSUME NEW r \in Requests, NEW a \in Attempts, Insert(r, a)
      PROVE  Counted'
  <2>1. Started' = Started \cup {a} /\ beside \subseteq beside' /\ free \subseteq free'
    <3>1. beside \subseteq beside' /\ free \subseteq free'
      BY <1>3 DEF Insert
    <3> QED  BY <1>3, <3>1, InsertEffect DEF Inv, Started, In
  <2>2. CASE a \in beside' \cup free'
    <3>1. N' \subseteq N
      BY <2>1, <2>2
    <3>2. Cardinality(N') <= Cardinality(N)
      BY <1>1, <3>1, FS_Subset
    <3>3. Cardinality(N') \in Nat /\ Cardinality(N) \in Nat
      BY <1>1, <3>1, FS_Subset, FS_CardinalityType
    <3> QED  BY <3>2, <3>3, CourseworkAssumption DEF Counted, Inv
  <2>3. CASE a \notin beside' \cup free'
    <3>1. Cardinality(Started) < Cap
      BY <1>3, <2>3, InsertedAlone
    <3>2. N' \subseteq Started \cup {a} /\ IsFiniteSet(Started \cup {a})
      BY <1>1, <2>1, FS_AddElement
    <3>3. Cardinality(Started \cup {a}) <= Cardinality(Started) + 1
      <4>1. Cardinality(Started) \in Nat
        BY <1>1, FS_CardinalityType
      <4>2. Cardinality(Started \cup {a})
              = IF a \in Started THEN Cardinality(Started) ELSE Cardinality(Started) + 1
        BY <1>1, FS_AddElement
      <4> QED  BY <4>1, <4>2
    <3>4. Cardinality(N') <= Cardinality(Started \cup {a})
      BY <3>2, FS_Subset
    <3>5. /\ Cardinality(N') \in Nat /\ Cardinality(Started) \in Nat
          /\ Cardinality(Started \cup {a}) \in Nat
      BY <1>1, <3>2, FS_Subset, FS_CardinalityType
    <3> QED  BY <3>1, <3>3, <3>4, <3>5, CourseworkAssumption DEF Counted
  <2> QED  BY <2>2, <2>3
<1> QED  BY <1>2, <1>3

LEMMA OneAtATimeStep == Inv /\ [Next]_vars => OneAtATime'
<1> SUFFICES ASSUME Inv, [Next]_vars PROVE OneAtATime'
  OBVIOUS
<1>1. CASE \A r \in Requests, a \in Attempts : ~Insert(r, a)
  BY <1>1, NothingOpened, MarksKept DEF Inv, OneAtATime, In
<1>2. ASSUME NEW r \in Requests, NEW a \in Attempts, Insert(r, a)
      PROVE  OneAtATime'
  <2>1. In("open")' = In("open") \cup {a} /\ beside \subseteq beside'
    <3>1. beside \subseteq beside'
      BY <1>2 DEF Insert
    <3> QED  BY <1>2, <3>1, InsertEffect DEF Inv, In
  <2>2. a \notin beside' => In("open") = {}
    BY <1>2, InsertedAlone
  <2> QED  BY <2>1, <2>2 DEF Inv, OneAtATime
<1> QED  BY <1>1, <1>2

\* What is reported is what the commit stores, or was dropped before.
LEMMA ReportedStep == Inv /\ [Next]_vars => ReportedIsStored'
<1> SUFFICES ASSUME Inv, [Next]_vars, NEW report \in told'
             PROVE  \/ /\ attempt'[report[1]].state = "submitted"
                       /\ attempt'[report[1]].score = report[2]
                    \/ report[1] \in dropped'
  BY DEF ReportedIsStored
<1> USE DEF Inv
<1>1. CASE report \in told
  <2>1. report[1] \in Attempts
    BY <1>1 DEF TypeOK
  <2>2. \/ attempt[report[1]].state = "submitted" /\ attempt[report[1]].score = report[2]
        \/ report[1] \in dropped
    BY <1>1 DEF ReportedIsStored
  <2> QED  BY <2>1, <2>2, AttemptStays, DroppedGrows
<1>2. ASSUME NEW r \in Requests, Reply(r), report \notin told
      PROVE  report[1] = tx[r].attempt /\ report[2] = tx[r].score /\ report[1] \in Attempts
  BY <1>2 DEF Reply, TypeOK, Transaction
<1>3. ASSUME NEW r \in Requests, Commit(r), report \notin told
      PROVE  attempt'[report[1]].state = "submitted" /\ attempt'[report[1]].score = report[2]
  <2>1. report[1] = tx[r].attempt /\ report[2] = tx[r].score /\ report[1] \in Attempts
    BY <1>2, <1>3 DEF Commit
  <2> QED  BY <1>3, <2>1, CommitEffect
<1>4. ASSUME NEW r \in Requests, CommitAborted(r), report \notin told
      PROVE  report[1] \in dropped'
  <2>1. report[1] = tx[r].attempt /\ report[1] \in Attempts
    BY <1>2, <1>4 DEF CommitAborted
  <2>2. tx[r].at = "aborted"
    BY <1>4 DEF CommitAborted
  <2>3. report[1] \in dropped
    BY <2>1, <2>2, CourseworkAssumption DEF Sound
  <2> QED  BY <2>3, DroppedGrows
<1>5. ASSUME NEW r \in Requests, Request(r), ~Commit(r), ~CommitAborted(r)
      PROVE  UNCHANGED told
  BY <1>5 DEF replies, Request, Start, Resume, Look, Count, Insert, Submit, Grade, Store,
              Refuse, Mark, Award, Sync, BestEffortFails, Die
<1>6. Staff \/ (\E l \in Lessons : Unmark(l)) \/ (\E a \in Attempts : TimePasses(a))
        => UNCHANGED told
  BY DEF replies, Staff, Patch, Replace, AddLesson, DeleteLesson, Issue, RevokeCertificate,
         Unmark, TimePasses
<1>7. UNCHANGED vars => UNCHANGED told
  BY DEF vars
<1> QED  BY <1>1, <1>3, <1>4, <1>5, <1>6, <1>7 DEF Next

LEMMA InvStep == Inv /\ [Next]_vars => Inv'
<1> SUFFICES ASSUME Inv, [Next]_vars PROVE Inv'
  OBVIOUS
<1>1. TypeOK'
  BY TypeStep DEF Inv
<1>2. (\A r \in Requests : Sound(r))'
  BY SoundStep
<1> QED  BY <1>1, <1>2, ExclusiveStep, CountedStep, OneAtATimeStep, ReportedStep DEF Inv

LEMMA AlwaysInv == Spec => []Inv
BY InvInit, InvStep, PTL DEF Spec

------------------------------------------------------------------------------
(* The theorems on attempts.                                               *)

LEMMA CapKept == Inv => AttemptsAreCounted
<1> SUFFICES ASSUME Inv PROVE AttemptsAreCounted
  OBVIOUS
<1> DEFINE S == In("submitted") \ (beside \cup free)
           N == Started \ (beside \cup free)
<1>1. S \subseteq N
  BY DEF Started, In
<1>2. IsFiniteSet(N)
  BY FS_Subset, CourseworkAssumption DEF Started
<1>3. Cardinality(S) <= Cardinality(N)
  BY <1>1, <1>2, FS_Subset
<1>4. Cardinality(S) \in Nat /\ Cardinality(N) \in Nat
  BY <1>1, <1>2, FS_Subset, FS_CardinalityType
<1>5. Cardinality(S) <= Cap
  BY <1>3, <1>4, CourseworkAssumption DEF Inv, Counted
<1> QED  BY <1>5 DEF AttemptsAreCounted, Inv, OneAtATime

\* A student who does one thing at a time never has two open attempts, nor more
\* submitted ones than the cap: two starts at once may open one each.
THEOREM Attempted == Spec => []AttemptsAreCounted
<1> QED  BY AlwaysInv, CapKept, PTL

\* A score that was reported is the one stored, unless a best-effort statement
\* failed and took the submission with it.
THEOREM Reported == Spec => []ReportedIsStored
<1>1. Inv => ReportedIsStored
  BY DEF Inv
<1> QED  BY <1>1, AlwaysInv, PTL

\* A submitted attempt stays as it is, however many submissions race.
THEOREM Final == Spec => ScoreIsFinal
<1>1. Inv /\ [Next]_vars => [\A a \in In("submitted") : attempt'[a] = attempt[a]]_attempt
  BY AttemptStays DEF In
<1> QED  BY <1>1, AlwaysInv, PTL DEF Spec, ScoreIsFinal

------------------------------------------------------------------------------
(* Certificates.                                                           *)

\* Whoever has claimed its points holds the student's row of learner_stats alone,
\* unless it was noted as unlocked,
Awarded(r) == tx[r].at \in {"sync", "commit"}

Locked ==
  \A r \in Requests : Awarded(r) /\ r \notin unlocked =>
    /\ tx[r].earned # {}
    /\ \A s \in Requests \ {r} : ~Awarded(s)

\* and so what it saw of the course is still so when it commits.
SeenDone(r) == done \cup {tx[r].lesson}
SeenSubmitted(r) == In("submitted") \cup ({tx[r].attempt} \ {NoAttempt})

Offered(r) ==
  tx[r].at = "commit" /\ r \notin unlocked /\ Complete(SeenDone(r), SeenSubmitted(r)) =>
    tx[r].eligible \/ certificate # "none"

OfferInv == Inv /\ Locked /\ \A r \in Requests : Offered(r)

LEMMA CompleteGrows ==
  ASSUME NEW L, NEW S, NEW M, NEW T, L \subseteq M, S \subseteq T, Complete(L, S)
  PROVE  Complete(M, T)
BY DEF Complete

\* A request is noted as unlocked until it ends.
LEMMA UnlockedStays ==
  ASSUME TypeOK, [Next]_vars, NEW r \in unlocked, tx'[r] # Idle
  PROVE  r \in unlocked'
<1>0. r \in Requests
  BY DEF TypeOK
<1>1. ASSUME NEW q \in Requests, End(q)
      PROVE  r \in unlocked'
  <2>1. q # r
    BY <1>0, <1>1, EndIsIdle
  <2> QED  BY <1>1, <2>1 DEF End
<1>2. ASSUME NEW q \in Requests, Award(q)
      PROVE  r \in unlocked'
  BY <1>2 DEF Award
<1>3. ASSUME NEW q \in Requests, Request(q)
      PROVE  r \in unlocked'
  BY <1>1, <1>2, <1>3 DEF Request, Start, Resume, Look, Count, Insert, Submit, Grade, Store,
     Refuse, Mark, Sync, Commit, BestEffortFails, CommitAborted, Die
<1>4. Staff \/ (\E l \in Lessons : Unmark(l)) \/ (\E a \in Attempts : TimePasses(a))
        => r \in unlocked'
  BY DEF Staff, Patch, Replace, AddLesson, DeleteLesson, Issue, RevokeCertificate, Unmark,
         TimePasses, Edit
<1>5. UNCHANGED vars => r \in unlocked'
  BY DEF vars
<1> QED  BY <1>3, <1>4, <1>5 DEF Next

\* Who has claimed its points has just done so, or keeps what it earned.
LEMMA AwardedStep ==
  ASSUME TypeOK, [Next]_vars, NEW r \in Requests, Awarded(r)'
  PROVE  \/ Award(r)
         \/ Awarded(r) /\ tx'[r].earned = tx[r].earned
<1> USE DEF Awarded
<1>0. tx[r] \in Transaction
  BY DEF TypeOK
<1>1. ASSUME tx'[r] = Idle
      PROVE  FALSE
  BY <1>1 DEF Idle
<1>2. CASE Start(r)
  BY <1>2 DEF Start, TypeOK, Idle
<1>3. CASE Look(r)
  BY <1>0, <1>3 DEF Look, TypeOK, Transaction
<1>4. CASE Count(r)
  <2>1. tx' = [tx EXCEPT ![r].at = "insert"]
    BY <1>1, <1>4, EndIsIdle DEF Count
  <2> QED  BY <1>0, <2>1 DEF TypeOK, Transaction
<1>5. ASSUME NEW a \in Attempts, Submit(r, a)
      PROVE  FALSE
  <2>1. tx'[r] = [Idle EXCEPT !.at = "grade", !.attempt = a]
    BY <1>5 DEF Submit, TypeOK
  <2> QED  BY <2>1 DEF Idle
<1>6. ASSUME NEW l \in Lessons, Mark(r, l)
      PROVE  FALSE
  <2>1. tx'[r] = [Idle EXCEPT !.at = "award", !.lesson = l]
    BY <1>6 DEF Mark, TypeOK
  <2> QED  BY <2>1 DEF Idle
<1>7. CASE Grade(r)
  BY <1>0, <1>7 DEF Grade, TypeOK, Transaction
<1>8. CASE Store(r)
  BY <1>0, <1>8 DEF Store, TypeOK, Transaction
<1>9. CASE Sync(r)
  <2>1. PICK e \in BOOLEAN :
          tx' = [tx EXCEPT ![r] = [@ EXCEPT !.at = "commit", !.eligible = e]]
    BY <1>9 DEF Sync
  <2>2. tx'[r].earned = tx[r].earned
    BY <1>0, <2>1 DEF TypeOK, Transaction
  <2> QED  BY <1>9, <2>2 DEF Sync
<1>10. CASE BestEffortFails(r)
  BY <1>0, <1>10 DEF BestEffortFails, TypeOK, Transaction
<1>11. CASE Resume(r) \/ (\E a \in Attempts : Insert(r, a)) \/ Refuse(r) \/ Commit(r)
            \/ CommitAborted(r) \/ Die(r)
  BY <1>1, <1>11, EndIsIdle DEF Resume, Insert, Refuse, Commit, CommitAborted, Die
<1>12. CASE ~Request(r)
  BY <1>12, RequestSteps
<1> QED  BY <1>2, <1>3, <1>4, <1>5, <1>6, <1>7, <1>8, <1>9, <1>10, <1>11, <1>12 DEF Request

\* What claiming points notes, of the request and of the others that have.
LEMMA AwardEffect ==
  ASSUME TypeOK, NEW r \in Requests, Award(r), NEW s \in Requests \ {r}, Awarded(s)
  PROVE  /\ r \in unlocked'
         /\ s \in unlocked' \/ tx[s].earned = {}
<1>1. s \in Others(r) /\ tx[s].at # "award"
  BY DEF Awarded, Others, Writing
<1>2. CASE Earned(r) = {}
  BY <1>1, <1>2 DEF Award
<1>3. CASE Earned(r) # {}
  <2>1. tx[s].earned = {}
    BY <1>1, <1>3 DEF Award
  <2> DEFINE lockless == {q \in Others(r) : tx[q].at # "award" /\ tx[q].earned = {}}
  <2>2. s \in lockless
    BY <1>1, <2>1
  <2>3. unlocked' = unlocked \cup {r} \cup lockless
    BY <1>3, <2>2 DEF Award
  <2> QED  BY <2>1, <2>3
<1> QED  BY <1>2, <1>3

LEMMA LockedStep == TypeOK /\ Locked /\ [Next]_vars => Locked'
<1> SUFFICES ASSUME TypeOK, Locked, [Next]_vars,
                    NEW r \in Requests, Awarded(r)', r \notin unlocked'
             PROVE  tx'[r].earned # {} /\ \A s \in Requests \ {r} : ~Awarded(s)'
  BY DEF Locked
<1>1. tx'[r] # Idle
  BY DEF Awarded, Idle
<1>2. r \notin unlocked
  BY <1>1, UnlockedStays
<1>3. CASE Award(r)
  <2>1. Earned(r) # {}
    BY <1>3 DEF Award
  <2>2. tx'[r].earned = Earned(r) /\ \A s \in Requests \ {r} : tx'[s] = tx[s]
    BY <1>3 DEF Award, TypeOK, Transaction
  <2>3. \A s \in Requests \ {r} : ~Awarded(s)
    BY <1>3, AwardEffect
  <2> QED  BY <2>1, <2>2, <2>3 DEF Awarded
<1>4. CASE Awarded(r) /\ tx'[r].earned = tx[r].earned
  <2>1. tx[r].earned # {} /\ \A s \in Requests \ {r} : ~Awarded(s)
    BY <1>2, <1>4 DEF Locked
  <2>2. ASSUME NEW s \in Requests \ {r}, Awarded(s)'
        PROVE  FALSE
    <3>1. Award(s)
      BY <2>1, <2>2, AwardedStep
    <3> QED  BY <1>4, <2>1, <3>1, AwardEffect
  <2> QED  BY <1>4, <2>1, <2>2
<1> QED  BY <1>3, <1>4, AwardedStep

\* Only a commit adds to what is done and submitted, and only an edit changes what is
\* to be done and notes who is about to commit.
LEMMA CourseSteps ==
  ASSUME TypeOK, [Next]_vars, \A q \in Requests : ~Commit(q)
  PROVE  /\ done' \subseteq done /\ In("submitted")' \subseteq In("submitted")
         /\ certificate # "none" => certificate' # "none"
         /\ Edit \/ UNCHANGED course
<1>1. done' \subseteq done /\ (certificate # "none" => certificate' # "none")
      /\ (Edit \/ UNCHANGED course)
  <2>1. ASSUME NEW r \in Requests, Request(r)
        PROVE  UNCHANGED <<work, course>>
    BY <2>1 DEF work, course, Request, Start, Resume, Look, Count, Insert, Submit, Grade,
       Store, Refuse, Mark, Award, Sync, BestEffortFails, CommitAborted, Die
  <2>2. ASSUME Staff \/ (\E l \in Lessons : Unmark(l)) \/ (\E a \in Attempts : TimePasses(a))
        PROVE  done' \subseteq done /\ (certificate # "none" => certificate' # "none")
               /\ (Edit \/ UNCHANGED course)
    BY <2>2 DEF work, course, Staff, Patch, Replace, AddLesson, DeleteLesson, Issue,
       RevokeCertificate, Unmark, TimePasses
  <2>3. UNCHANGED vars => UNCHANGED <<work, course>>
    BY DEF vars, work, course
  <2> QED  BY <2>1, <2>2, <2>3 DEF Next, work
<1>2. ASSUME NEW r \in Requests, NEW a \in Attempts, Insert(r, a)
      PROVE  In("submitted")' \subseteq In("submitted")
  BY <1>2, InsertEffect DEF In
<1>3. ASSUME NEW a \in Attempts, TimePasses(a)
      PROVE  In("submitted")' \subseteq In("submitted")
  BY <1>3, TimeEffect DEF In
<1>4. UNCHANGED attempt => In("submitted")' \subseteq In("submitted")
  BY DEF In
<1> QED  BY <1>1, <1>2, <1>3, <1>4, AttemptSteps

\* Who is about to commit has just evaluated the course, or did so before and has not
\* moved.
LEMMA CommitReady ==
  ASSUME TypeOK, [Next]_vars, NEW r \in Requests, tx'[r].at = "commit"
  PROVE  Sync(r) \/ tx'[r] = tx[r]
<1>1. Awarded(r)' /\ tx'[r] # Idle
  BY DEF Awarded, Idle
<1>2. CASE Award(r)
  BY <1>2 DEF Award, TypeOK, Transaction
<1>3. CASE Awarded(r)
  <2>1. Request(r) => Sync(r) \/ BestEffortFails(r) \/ Commit(r) \/ Die(r)
    <3>1. tx[r].at \in {"sync", "commit"} /\ tx[r] # Idle
      BY <1>3 DEF Awarded, Idle
    <3>2. /\ ~Start(r) /\ ~Resume(r) /\ ~Look(r) /\ ~Count(r)
          /\ \A a \in Attempts : ~Insert(r, a) /\ ~Submit(r, a)
      BY <3>1 DEF Start, Resume, Look, Count, Insert, Submit
    <3>3. /\ ~Grade(r) /\ ~Store(r) /\ ~Refuse(r) /\ ~Award(r) /\ ~CommitAborted(r)
          /\ \A l \in Lessons : ~Mark(r, l)
      BY <3>1 DEF Grade, Store, Refuse, Mark, Award, CommitAborted
    <3> QED  BY <3>2, <3>3 DEF Request
  <2>2. ~BestEffortFails(r)
    BY DEF BestEffortFails, TypeOK, Transaction
  <2>3. ~Commit(r) /\ ~Die(r)
    BY <1>1, EndIsIdle DEF Commit, Die
  <2> QED  BY <2>1, <2>2, <2>3, RequestSteps
<1> QED  BY <1>1, <1>2, <1>3, AwardedStep

LEMMA OfferedStep ==
  ASSUME OfferInv, [Next]_vars, NEW r \in Requests
  PROVE  Offered(r)'
<1> SUFFICES ASSUME tx'[r].at = "commit", r \notin unlocked',
                    Complete(SeenDone(r), SeenSubmitted(r))', ~tx'[r].eligible
             PROVE  certificate' # "none"
  BY DEF Offered
<1>1. TypeOK /\ Locked /\ Offered(r)
  BY DEF OfferInv, Inv
<1>2. CASE Sync(r)
  <2>1. /\ UNCHANGED <<course, attempt, work>>
        /\ tx' = [tx EXCEPT ![r] = [@ EXCEPT !.at = "commit", !.eligible =
                    Complete(SeenDone(r), SeenSubmitted(r)) /\ certificate = "none"]]
    BY <1>2 DEF Sync, SeenDone, SeenSubmitted
  <2>2. /\ tx'[r].lesson = tx[r].lesson /\ tx'[r].attempt = tx[r].attempt
        /\ tx'[r].eligible = (Complete(SeenDone(r), SeenSubmitted(r)) /\ certificate = "none")
    BY <1>1, <2>1 DEF TypeOK, Transaction
  <2>3. Complete(SeenDone(r), SeenSubmitted(r))
    BY <2>1, <2>2 DEF course, work, Complete, SeenDone, SeenSubmitted, In, Existing
  <2> QED  BY <2>1, <2>2, <2>3 DEF work
<1>3. CASE tx'[r] = tx[r]
  <2>1. r \notin unlocked
    BY <1>1, UnlockedStays DEF Idle
  <2>2. \A q \in Requests : ~Commit(q)
    <3>1. ~Commit(r)
      BY <1>1, EndIsIdle DEF Commit, Idle
    <3>2. \A q \in Requests \ {r} : tx[q].at # "commit"
      BY <1>1, <1>3, <2>1 DEF Locked, Awarded
    <3> QED  BY <3>1, <3>2 DEF Commit
  <2>3. ~Edit
    BY <1>3 DEF Edit
  <2>4. /\ done' \subseteq done /\ In("submitted")' \subseteq In("submitted")
        /\ certificate # "none" => certificate' # "none"
        /\ UNCHANGED course
    BY <1>1, <2>2, <2>3, CourseSteps
  <2>5. Complete(SeenDone(r)', SeenSubmitted(r)')
    BY <2>4 DEF course, Complete, Existing
  <2>6. SeenDone(r)' \subseteq SeenDone(r) /\ SeenSubmitted(r)' \subseteq SeenSubmitted(r)
    BY <1>3, <2>4 DEF SeenDone, SeenSubmitted
  <2>7. Complete(SeenDone(r), SeenSubmitted(r))
    BY <2>5, <2>6, CompleteGrows
  <2> QED  BY <1>1, <1>3, <2>1, <2>4, <2>7 DEF Offered
<1> QED  BY <1>1, <1>2, <1>3, CommitReady

LEMMA AlwaysOffered == Spec => []OfferInv
<1>1. Init => OfferInv
  <2> SUFFICES ASSUME Init PROVE OfferInv
    OBVIOUS
  <2>1. \A r \in Requests : tx[r].at = "idle"
    BY DEF Init, Idle
  <2> QED  BY <2>1, InvInit DEF OfferInv, Locked, Offered, Awarded
<1>2. OfferInv /\ [Next]_vars => OfferInv'
  BY InvStep, LockedStep, OfferedStep DEF OfferInv, Inv
<1> QED  BY <1>1, <1>2, PTL DEF Spec

\* The commit that completes the course leaves a certificate, unless a request that had
\* nothing to award, or an edit, was beside it.
LEMMA CommitOffers ==
  ASSUME OfferInv, NEW r \in Requests, Commit(r), CourseComplete', UNCHANGED course,
         unlocked = {}
  PROVE  certificate' # "none"
<1>1. TypeOK /\ tx[r] \in Transaction
  BY DEF OfferInv, Inv, TypeOK
<1>2. done' \subseteq SeenDone(r)
  BY DEF Commit, SeenDone
<1>3. In("submitted")' \subseteq SeenSubmitted(r)
  <2> SUFFICES ASSUME NEW a \in In("submitted")', a \notin In("submitted")
               PROVE  a \in {tx[r].attempt} \ {NoAttempt}
    BY DEF SeenSubmitted
  <2> QED  BY <1>1, CommitEffect, CourseworkAssumption DEF In
<1>4. Complete(done', In("submitted")')
  BY DEF CourseComplete, course, Complete, Existing
<1>5. Complete(SeenDone(r), SeenSubmitted(r))
  BY <1>2, <1>3, <1>4, CompleteGrows
<1> QED  BY <1>5 DEF OfferInv, Offered, Commit

\* Whichever request completes the course, the student is offered the certificate: the
\* points that are added up first make it see what the others have done.
THEOREM Certified == Spec => CompletionIsOffered
<1>1. ASSUME OfferInv, [Next]_vars, ~CourseComplete, CourseComplete', UNCHANGED course,
             unlocked = {}
      PROVE  certificate' # "none"
  <2>1. TypeOK
    BY <1>1 DEF OfferInv, Inv
  <2>2. CASE \A q \in Requests : ~Commit(q)
    <3>1. done' \subseteq done /\ In("submitted")' \subseteq In("submitted")
      BY <1>1, <2>1, <2>2, CourseSteps
    <3>2. Complete(done', In("submitted")')
      BY <1>1 DEF CourseComplete, course, Complete, Existing
    <3>3. CourseComplete
      BY <3>1, <3>2, CompleteGrows DEF CourseComplete
    <3> QED  BY <1>1, <3>3
  <2> QED  BY <1>1, <2>2, CommitOffers
<1>2. OfferInv /\ [Next]_vars =>
        [~CourseComplete /\ CourseComplete' /\ UNCHANGED course
           => certificate' # "none" \/ unlocked # {}]_vars
  BY <1>1
<1> QED  BY <1>2, AlwaysOffered, PTL DEF Spec, CompletionIsOffered

==============================================================================
