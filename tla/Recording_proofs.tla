---------------------------- MODULE Recording_proofs ----------------------------
(***************************************************************************)
(* Proofs about Recording, for any number of recordings, replicas and      *)
(* uploads: an available recording can be played, no object is lost track  *)
(* of, the storage of the plan is not exceeded, and - with timely          *)
(* pipelines and one teacher - an available recording is not downgraded.   *)
(***************************************************************************)
EXTENDS Recording, Sums, TLAPS

Janitor == [pc : {"idle", "object", "prune", "row"},
            r : Recordings \cup {NoRecording}, asset : Assets \cup {NoAsset}]
Worker == [pc : Working \cup {"idle", "reclaim"}, r : Recordings \cup {NoRecording},
           asset : Assets \cup {NoAsset}, row : BOOLEAN]

\* The values the actions write are rows and workers.
LEMMA RowTypes ==
  /\ NoRow \in Row
  /\ \A x \in Row : [x EXCEPT !.stuck = TRUE] \in Row /\ [x EXCEPT !.old = TRUE] \in Row
  /\ \A x \in Row, s \in Statuses : [x EXCEPT !.status = s, !.stuck = FALSE] \in Row
  /\ \A x \in Row, a \in Assets \cup {NoAsset} :
       [x EXCEPT !.status = "available", !.asset = a, !.stuck = FALSE] \in Row
BY DEF Row, NoRow, Statuses, NoAsset

LEMMA WorkerTypes ==
  /\ IdleWorker \in Worker /\ IdleJanitor \in Janitor
  /\ \A x \in Worker : [x EXCEPT !.row = FALSE] \in Worker
  /\ \A x \in Worker, pc \in Working : [x EXCEPT !.pc = pc] \in Worker
  /\ \A x \in Worker, pc \in Working, a \in Assets \cup {NoAsset} :
       [x EXCEPT !.asset = a, !.pc = pc] \in Worker
  /\ \A r \in Recordings, pc \in Working \cup {"reclaim"}, b \in BOOLEAN :
       [pc |-> pc, r |-> r, asset |-> NoAsset, row |-> b] \in Worker
BY DEF Worker, Janitor, IdleWorker, IdleJanitor, Working

LEMMA TypeInit == Init => TypeOK
<1>. SUFFICES ASSUME Init PROVE TypeOK
  OBVIOUS
<1>1. rec \in [Recordings -> Row]
  BY RowTypes DEF Init
<1>2. fileAsset \in [Assets -> {"none", "available", "pruned"}]
  BY DEF Init
<1>3. objects \subseteq Assets /\ leaked \subseteq Assets /\ reserved \subseteq Recordings
  BY DEF Init
<1>4. worker \in [Workers -> Worker] /\ janitor \in Janitor
  BY WorkerTypes DEF Init
<1>5. retry \in [Teachers -> Recordings \cup {NoRecording}]
  BY DEF Init
<1>. QED  BY <1>1, <1>2, <1>3, <1>4, <1>5 DEF TypeOK, Worker, Janitor

\* What one statement does to each variable, as far as types go.
Types ==
  /\ rec \in [Recordings -> Row]
  /\ fileAsset \in [Assets -> {"none", "available", "pruned"}]
  /\ objects \subseteq Assets /\ leaked \subseteq Assets /\ reserved \subseteq Recordings
  /\ worker \in [Workers -> Worker]
  /\ retry \in [Teachers -> Recordings \cup {NoRecording}]
  /\ janitor \in Janitor

\* Which fields of a worker and of the janitor have a meaning when.
Busy ==
  /\ \A w \in Workers :
       /\ worker[w].pc # "idle" => worker[w].r \in Recordings
       /\ worker[w].pc \in {"finalize", "discard"} <=> worker[w].asset # NoAsset
  /\ janitor.pc # "idle" => janitor.r \in Recordings
  /\ janitor.pc \in {"object", "prune"} => janitor.asset # NoAsset

TypeInv == Types /\ Busy

LEMMA TypeInvInit == Init => TypeInv
BY TypeInit DEF TypeInv, Types, Busy, TypeOK, Worker, Janitor, Init, IdleWorker, IdleJanitor

LEMMA TypesAreTypeOK == TypeOK <=> Types
BY DEF TypeOK, Types, Worker, Janitor

LEMMA SetStatusType ==
  ASSUME TypeInv, NEW w \in Workers, NEW s \in Statuses, SetStatus(w, s)
  PROVE  rec' \in [Recordings -> Row]
BY RowTypes DEF SetStatus, TypeInv, Types

\* A worker that goes on, and one that is done.
LEMMA GotoType ==
  ASSUME TypeInv, NEW w \in Workers, NEW pc \in Working, Goto(w, pc), worker[w].pc # "idle",
         worker[w].asset # NoAsset <=> pc \in {"finalize", "discard"}
  PROVE  /\ worker' \in [Workers -> Worker]
         /\ \A o \in Workers : /\ worker'[o].pc # "idle" => worker'[o].r \in Recordings
                               /\ worker'[o].pc \in {"finalize", "discard"} <=> worker'[o].asset # NoAsset
<1>1. worker' = [worker EXCEPT ![w] = [worker[w] EXCEPT !.pc = pc]] /\ worker[w] \in Worker
  BY DEF Goto, TypeInv, Types
<1>2. worker' \in [Workers -> Worker]
  BY <1>1, WorkerTypes DEF TypeInv, Types
<1>3. /\ worker'[w].pc = pc /\ worker'[w].r = worker[w].r /\ worker'[w].asset = worker[w].asset
      /\ \A o \in Workers \ {w} : worker'[o] = worker[o]
  BY <1>1 DEF Worker, TypeInv, Types
<1>. QED  BY <1>2, <1>3 DEF TypeInv, Busy

LEMMA FinishType ==
  ASSUME TypeInv, NEW w \in Workers, Finish(w)
  PROVE  /\ worker' \in [Workers -> Worker]
         /\ \A o \in Workers : /\ worker'[o].pc # "idle" => worker'[o].r \in Recordings
                               /\ worker'[o].pc \in {"finalize", "discard"} <=> worker'[o].asset # NoAsset
BY WorkerTypes DEF Finish, TypeInv, Types, Busy, IdleWorker

LEMMA CommitsType ==
  ASSUME TypeInv, NEW w \in Workers, Commits(w), worker[w].asset \in Assets
  PROVE  /\ rec' \in [Recordings -> Row]
         /\ fileAsset' \in [Assets -> {"none", "available", "pruned"}]
         /\ reserved' \subseteq Recordings /\ objects' \subseteq Assets
BY RowTypes DEF Commits, TypeInv, Types

LEMMA Fields ==
  ASSUME TypeInv, NEW w \in Workers
  PROVE  /\ worker[w] \in Worker /\ worker[w].r \in Recordings \cup {NoRecording}
         /\ worker[w].asset \in Assets \cup {NoAsset} /\ worker[w].row \in BOOLEAN
         /\ janitor.r \in Recordings \cup {NoRecording}
         /\ janitor.asset \in Assets \cup {NoAsset} /\ janitor \in Janitor
BY DEF TypeInv, Types, Worker, Janitor

LEMMA TypeStep == TypeInv /\ [Next]_vars => TypeInv'
<1>. SUFFICES ASSUME TypeInv, [Next]_vars PROVE TypeInv'
  OBVIOUS
<1>1. ASSUME NEW w \in Workers, Preflight(w) PROVE TypeInv'
  BY <1>1, Fields, RowTypes, GotoType DEF Preflight, TypeInv, Types, Busy, store, Working, Statuses
<1>2. ASSUME NEW w \in Workers, Remux(w) PROVE TypeInv'
  BY <1>2, Fields, RowTypes, GotoType DEF Remux, TypeInv, Types, Busy, store, Working, Statuses
<1>3. ASSUME NEW w \in Workers, SetUploading(w) PROVE TypeInv'
  BY <1>3, Fields, RowTypes, GotoType, SetStatusType DEF SetUploading, TypeInv, Types, Busy, store, Working, Statuses
<1>4. ASSUME NEW w \in Workers, Reserve(w) PROVE TypeInv'
  BY <1>4, Fields, RowTypes, GotoType DEF Reserve, TypeInv, Types, Busy, store, Working, Statuses
<1>5. ASSUME NEW w \in Workers, Put(w) PROVE TypeInv'
  <2>. DEFINE a == CHOOSE a \in NewAsset : TRUE
  <2>1. a \in NewAsset /\ a \in Assets /\ a # NoAsset
    BY <1>5 DEF Put, NewAsset, Assets, NoAsset
  <2>2. worker' = [worker EXCEPT ![w] = [worker[w] EXCEPT !.asset = a, !.pc = "finalize"]]
    BY <1>5 DEF Put
  <2>3. [worker[w] EXCEPT !.asset = a, !.pc = "finalize"] \in Worker
    BY <2>1, Fields, WorkerTypes DEF Working
  <2>4. /\ worker'[w].pc = "finalize" /\ worker'[w].r = worker[w].r /\ worker'[w].asset = a
        /\ \A o \in Workers \ {w} : worker'[o] = worker[o]
    BY <2>2, Fields DEF Worker, TypeInv, Types
  <2>5. Busy'
    BY <1>5, <2>1, <2>4 DEF Put, TypeInv, Busy
  <2>6. Types'
    BY <1>5, <2>1, <2>2, <2>3 DEF Put, TypeInv, Types
  <2>. QED  BY <2>5, <2>6 DEF TypeInv
<1>6. ASSUME NEW w \in Workers, StepFails(w) PROVE TypeInv'
  BY <1>6, Fields, RowTypes, GotoType DEF StepFails, TypeInv, Types, Busy, store, Working, Statuses
<1>7. ASSUME NEW w \in Workers, Finalize(w) PROVE TypeInv'
  BY <1>7, Fields, RowTypes, FinishType DEF Finalize, Commits, TypeInv, Types, Busy, store, Working, Statuses
<1>8. ASSUME NEW w \in Workers, CommitUncertain(w) PROVE TypeInv'
  <2>1. worker[w].asset \in Assets
    BY <1>8, Fields DEF CommitUncertain, TypeInv, Busy
  <2>2. CASE Commits(w) /\ UNCHANGED leaked
    BY <1>8, <2>1, <2>2, FinishType, CommitsType DEF CommitUncertain, TypeInv, Types, Busy
  <2>3. CASE leaked' = leaked \cup {worker[w].asset} /\ UNCHANGED <<rec, store>>
    BY <1>8, <2>1, <2>3, FinishType DEF CommitUncertain, TypeInv, Types, Busy, store
  <2>. QED  BY <1>8, <2>2, <2>3 DEF CommitUncertain
<1>9. ASSUME NEW w \in Workers, FinalizeFails(w) PROVE TypeInv'
  BY <1>9, Fields, RowTypes, GotoType DEF FinalizeFails, TypeInv, Types, Busy, store, Working, Statuses
<1>10. ASSUME NEW w \in Workers, Discard(w) PROVE TypeInv'
  <2>1. worker[w].asset \in Assets
    BY <1>10, Fields DEF Discard, TypeInv, Busy
  <2>2. worker' = [worker EXCEPT ![w] = [worker[w] EXCEPT !.asset = NoAsset, !.pc = "fail"]]
    BY <1>10 DEF Discard
  <2>3. [worker[w] EXCEPT !.asset = NoAsset, !.pc = "fail"] \in Worker
    BY Fields, WorkerTypes DEF Working
  <2>4. /\ worker'[w].pc = "fail" /\ worker'[w].r = worker[w].r /\ worker'[w].asset = NoAsset
        /\ \A o \in Workers \ {w} : worker'[o] = worker[o]
    BY <2>2, Fields DEF Worker, TypeInv, Types
  <2>5. Types'
    BY <1>10, <2>1, <2>2, <2>3 DEF Discard, TypeInv, Types
  <2>6. Busy'
    BY <1>10, <2>4 DEF Discard, TypeInv, Busy
  <2>. QED  BY <2>5, <2>6 DEF TypeInv
<1>11. ASSUME NEW w \in Workers, MarkFailed(w) PROVE TypeInv'
  BY <1>11, Fields, RowTypes, FinishType, SetStatusType DEF MarkFailed, FailRow, TypeInv, Types, Busy, store, Working, Statuses
<1>12. ASSUME NEW w \in Workers, Reclaim(w) PROVE TypeInv'
  BY <1>12, Fields, RowTypes, FinishType, SetStatusType DEF Reclaim, FailRow, TypeInv, Types, Busy, store, Working, Statuses
<1>13. ASSUME NEW w \in Workers, ReclaimFails(w) PROVE TypeInv'
  BY <1>13, Fields, RowTypes, FinishType DEF ReclaimFails, TypeInv, Types, Busy, store, Working, Statuses
<1>14. ASSUME NEW w \in Workers, Crash(w) PROVE TypeInv'
  BY <1>14, Fields, RowTypes, FinishType DEF Crash, TypeInv, Types, Busy, store, Working, Statuses
<1>15. ASSUME NEW w \in Workers, NEW r \in Recordings, Claim(w, r) PROVE TypeInv'
  BY <1>15, RowTypes, WorkerTypes DEF Claim, TypeInv, Types, Busy, store, Working, Statuses
<1>16. ASSUME NEW w \in Workers, NEW r \in Recordings, ListStuck(w, r) PROVE TypeInv'
  BY <1>16, RowTypes, WorkerTypes DEF ListStuck, TypeInv, Types, Busy, store, Working, Statuses
<1>17. ASSUME NEW r \in Recordings, Stuck(r) PROVE TypeInv'
  <2>1. rec' \in [Recordings -> Row]
    BY <1>17, RowTypes DEF Stuck, TypeInv, Types
  <2>. QED  BY <1>17, <2>1 DEF Stuck, TypeInv, Types, Busy, store
<1>18. ASSUME NEW r \in Recordings, Expire(r) PROVE TypeInv'
  BY <1>18, RowTypes DEF Expire, TypeInv, Types, Busy, store
<1>19. ASSUME NEW r \in Recordings, Age(r) PROVE TypeInv'
  <2>1. rec' \in [Recordings -> Row]
    BY <1>19, RowTypes DEF Age, TypeInv, Types
  <2>. QED  BY <1>19, <2>1 DEF Age, TypeInv, Types, Busy, store
<1>20. ASSUME NEW r \in Recordings, JanitorList(r) PROVE TypeInv'
  <2>1. rec[r].asset \in Assets \cup {NoAsset}
    BY DEF TypeInv, Types, Row
  <2>2. /\ janitor' \in Janitor /\ janitor'.r = r
        /\ janitor'.pc \in {"object", "prune"} => janitor'.asset # NoAsset
    BY <1>20, <2>1 DEF JanitorList, Janitor
  <2>. QED  BY <1>20, <2>2 DEF JanitorList, TypeInv, Types, Busy, store
<1>21. ASSUME NEW t \in Teachers, RetryWrite(t) PROVE TypeInv'
  <2>1. rec' \in [Recordings -> Row]
    <3>1. \A x \in Row : [x EXCEPT !.status = "pending", !.stuck = FALSE] \in Row
      BY RowTypes DEF Statuses
    <3>2. retry[t] \in Recordings
      BY <1>21 DEF RetryWrite, TypeInv, Types
    <3>3. rec[retry[t]] \in Row
      BY <3>2 DEF TypeInv, Types
    <3>4. \/ rec' = rec
          \/ rec' = [rec EXCEPT ![retry[t]] = [rec[retry[t]] EXCEPT !.status = "pending",
                                                                  !.stuck = FALSE]]
      BY <1>21 DEF RetryWrite
    <3>. QED  BY <3>1, <3>2, <3>3, <3>4 DEF TypeInv, Types
  <2>. QED  BY <1>21, <2>1 DEF RetryWrite, TypeInv, Types, Busy, store
<1>22. ASSUME NEW t \in Teachers, NEW r \in Recordings, RetryRead(t, r) PROVE TypeInv'
  BY <1>22 DEF RetryRead, TypeInv, Types, Busy, store
<1>23. ASSUME JanitorDeleteObject PROVE TypeInv'
  BY <1>23, RowTypes, WorkerTypes, Fields DEF JanitorDeleteObject, TypeInv, Types, Busy, store, Janitor
<1>24. ASSUME JanitorPrune PROVE TypeInv'
  BY <1>24, RowTypes, WorkerTypes, Fields DEF JanitorPrune, TypeInv, Types, Busy, store, Janitor
<1>25. ASSUME JanitorDeleteRow PROVE TypeInv'
  <2>1. worker' = [w \in Workers |-> IF worker[w].r = janitor.r
                                     THEN [worker[w] EXCEPT !.row = FALSE] ELSE worker[w]]
    BY <1>25 DEF JanitorDeleteRow
  <2>2. \A w \in Workers : /\ worker'[w] \in Worker /\ worker'[w].pc = worker[w].pc
                           /\ worker'[w].r = worker[w].r /\ worker'[w].asset = worker[w].asset
    <3>. SUFFICES ASSUME NEW w \in Workers
                  PROVE  /\ worker'[w] \in Worker /\ worker'[w].pc = worker[w].pc
                         /\ worker'[w].r = worker[w].r /\ worker'[w].asset = worker[w].asset
      OBVIOUS
    <3>1. worker'[w] \in {worker[w], [worker[w] EXCEPT !.row = FALSE]} /\ worker[w] \in Worker
      BY <2>1, Fields
    <3>2. worker'[w] \in Worker
      BY <3>1, WorkerTypes
    <3>. QED  BY <3>1, <3>2 DEF Worker
  <2>3. worker' \in [Workers -> Worker]
    BY <2>1, <2>2
  <2>4. janitor' \in Janitor /\ janitor'.pc = "idle"
    BY <1>25, WorkerTypes DEF JanitorDeleteRow, IdleJanitor
  <2>5. rec' \in [Recordings -> Row]
    BY <1>25, RowTypes DEF JanitorDeleteRow, TypeInv, Types
  <2>6. Types'
    BY <1>25, <2>3, <2>4, <2>5 DEF JanitorDeleteRow, TypeInv, Types
  <2>7. Busy'
    BY <2>2, <2>4 DEF TypeInv, Busy
  <2>. QED  BY <2>6, <2>7 DEF TypeInv
<1>26. ASSUME JanitorStops PROVE TypeInv'
  <2>1. janitor' \in Janitor /\ janitor'.pc = "idle"
    BY <1>26, WorkerTypes DEF JanitorStops, IdleJanitor
  <2>. QED  BY <1>26, <2>1 DEF JanitorStops, TypeInv, Types, Busy, store
<1>27. ASSUME UNCHANGED vars PROVE TypeInv'
  BY <1>27 DEF vars, TypeInv, Types, Busy
<1>. QED  BY <1>1, <1>2, <1>3, <1>4, <1>5, <1>6, <1>7, <1>8, <1>9, <1>10, <1>11, <1>12, <1>13, <1>14, <1>15, <1>16, <1>17, <1>18, <1>19, <1>20, <1>21, <1>22, <1>23, <1>24, <1>25, <1>26, <1>27 DEF Next, Pipeline

LEMMA TypeInvariant == Spec => []TypeInv
BY TypeInvInit, TypeStep, PTL DEF Spec

\* Rows, workers and the janitor keep their types, whatever fails and whoever
\* dies, for any number of each.
THEOREM TypeCorrect == Spec => []TypeOK
<1>1. TypeInv => TypeOK
  BY TypesAreTypeOK DEF TypeInv
<1>. QED  BY <1>1, TypeInvariant, PTL

------------------------------------------------------------------------------
(* Who may touch which object.                                             *)

\* A file asset belongs to one recording for ever, and exists before the
\* recording points to it.
OwnAsset ==
  /\ \A r \in Recordings : rec[r].asset # NoAsset => fileAsset[rec[r].asset] # "none"
  /\ \A r, s \in Recordings : rec[r].asset = rec[s].asset /\ rec[r].asset # NoAsset => r = s

\* An upload is one worker's alone until it is committed.
OwnUpload ==
  /\ \A w \in Workers : worker[w].asset # NoAsset => fileAsset[worker[w].asset] = "none"
  /\ \A v, w \in Workers :
       worker[v].asset = worker[w].asset /\ worker[v].asset # NoAsset => v = w
  /\ \A w \in Workers : worker[w].pc = "finalize" => worker[w].asset \in objects

\* The janitor deletes what only old recordings point to, the object first.
OldOnly ==
  /\ janitor.pc \in {"object", "prune"} =>
       /\ fileAsset[janitor.asset] # "none"
       /\ \A r \in Recordings : rec[r].asset = janitor.asset => rec[r].old
  /\ janitor.pc = "prune" => janitor.asset \notin objects \/ janitor.asset \in leaked

\* AvailableIsPlayable, and the recording has a file asset to begin with.
Playable ==
  \A r \in Recordings : rec[r].status = "available" /\ ~rec[r].old =>
    /\ rec[r].asset # NoAsset
    /\ fileAsset[rec[r].asset] = "available" /\ rec[r].asset \in objects

AssetInv == OwnAsset /\ OwnUpload /\ OldOnly /\ Playable /\ ObjectsAreTracked

------------------------------------------------------------------------------
(* Who may touch which row.                                                *)

\* A worker that has a row of the table has it alone, and the row is in progress.
OwnRow ==
  /\ \A w \in Workers : worker[w].row =>
       worker[w].pc # "idle" /\ rec[worker[w].r].status \in InProgress
  /\ \A v, w \in Workers :
       worker[v].row /\ worker[w].row /\ worker[v].r = worker[w].r => v = w

\* What a teacher has read as failed is still failed, and the janitor only
\* deletes a row that was old when it listed it.
OthersKeepOff ==
  /\ \A t \in Teachers : retry[t] # NoRecording => rec[retry[t]].status = "failed"
  /\ janitor.pc # "idle" => rec[janitor.r].old

OwnerInv == OwnRow /\ OthersKeepOff

------------------------------------------------------------------------------
(* What the actions do to the fields.                                      *)

LEMMA GotoFields ==
  ASSUME TypeInv, NEW w \in Workers, NEW pc, Goto(w, pc)
  PROVE  /\ worker'[w].pc = pc /\ worker'[w].r = worker[w].r
         /\ worker'[w].asset = worker[w].asset /\ worker'[w].row = worker[w].row
         /\ \A o \in Workers \ {w} : worker'[o] = worker[o]
<1>1. worker' = [worker EXCEPT ![w] = [worker[w] EXCEPT !.pc = pc]] /\ worker[w] \in Worker
  BY Fields DEF Goto
<1>. QED  BY <1>1 DEF Worker, TypeInv, Types

LEMMA FinishFields ==
  ASSUME TypeInv, NEW w \in Workers, Finish(w)
  PROVE  /\ worker'[w].pc = "idle" /\ worker'[w].r = NoRecording
         /\ worker'[w].asset = NoAsset /\ worker'[w].row = FALSE
         /\ \A o \in Workers \ {w} : worker'[o] = worker[o]
BY DEF Finish, IdleWorker, TypeInv, Types

\* An UPDATE of one row's status.
LEMMA UpdateFields ==
  ASSUME TypeInv, NEW r \in Recordings, NEW s \in Statuses,
         rec' = [rec EXCEPT ![r] = [rec[r] EXCEPT !.status = s, !.stuck = FALSE]]
  PROVE  /\ rec'[r].status = s
         /\ \A q \in Recordings : rec'[q].asset = rec[q].asset /\ rec'[q].old = rec[q].old
         /\ \A q \in Recordings \ {r} : rec'[q] = rec[q]
<1>1. rec[r] \in Row /\ rec'[r] = [rec[r] EXCEPT !.status = s, !.stuck = FALSE]
  BY DEF TypeInv, Types
<1>2. \A q \in Recordings \ {r} : rec'[q] = rec[q]
  BY DEF TypeInv, Types
<1>3. rec'[r].status = s /\ rec'[r].asset = rec[r].asset /\ rec'[r].old = rec[r].old
  BY <1>1 DEF Row
<1>. QED  BY <1>2, <1>3

LEMMA SetStatusFields ==
  ASSUME TypeInv, NEW w \in Workers, NEW s \in Statuses, SetStatus(w, s), worker[w].pc # "idle"
  PROVE  /\ worker[w].row => rec'[worker[w].r].status = s
         /\ \A q \in Recordings : rec'[q].asset = rec[q].asset /\ rec'[q].old = rec[q].old
         /\ \A q \in Recordings :
              rec'[q] = rec[q] \/ (worker[w].row /\ q = worker[w].r)
<1>1. worker[w].r \in Recordings
  BY DEF TypeInv, Busy
<1>2. CASE worker[w].row
  BY <1>1, <1>2, UpdateFields DEF SetStatus
<1>3. CASE ~worker[w].row
  BY <1>3 DEF SetStatus
<1>. QED  BY <1>2, <1>3

LEMMA StuckFields ==
  ASSUME TypeInv, NEW r \in Recordings, rec' = [rec EXCEPT ![r].stuck = TRUE]
  PROVE  \A q \in Recordings : /\ rec'[q].status = rec[q].status
                               /\ rec'[q].asset = rec[q].asset /\ rec'[q].old = rec[q].old
BY DEF TypeInv, Types, Row

LEMMA AgeFields ==
  ASSUME TypeInv, NEW r \in Recordings, rec' = [rec EXCEPT ![r].old = TRUE]
  PROVE  \A q \in Recordings : /\ rec'[q].status = rec[q].status /\ rec'[q].asset = rec[q].asset
                               /\ rec'[q].old = (rec[q].old \/ q = r)
BY DEF TypeInv, Types, Row

\* The final transaction, of a worker that still has its row and of one that has not.
LEMMA CommitsFields ==
  ASSUME TypeInv, NEW w \in Workers, Commits(w), worker[w].pc = "finalize"
  PROVE  /\ worker[w].r \in Recordings /\ worker[w].asset \in Assets
         /\ fileAsset'[worker[w].asset] = "available"
         /\ \A a \in Assets \ {worker[w].asset} : fileAsset'[a] = fileAsset[a]
         /\ objects' = objects
         /\ worker[w].row => /\ rec'[worker[w].r].status = "available"
                             /\ rec'[worker[w].r].asset = worker[w].asset
                             /\ rec'[worker[w].r].old = rec[worker[w].r].old
         /\ \A q \in Recordings : rec'[q] = rec[q] \/ (worker[w].row /\ q = worker[w].r)
<1>. DEFINE r == worker[w].r  a == worker[w].asset
            x == [rec[r] EXCEPT !.status = "available", !.asset = a, !.stuck = FALSE]
<1>1. r \in Recordings /\ a \in Assets
  BY Fields DEF TypeInv, Busy
<1>2. /\ fileAsset'[a] = "available"
      /\ \A b \in Assets \ {a} : fileAsset'[b] = fileAsset[b]
      /\ objects' = objects
  BY <1>1 DEF Commits, TypeInv, Types
<1>3. worker[w].row => rec' = [rec EXCEPT ![r] = x]
  BY DEF Commits
<1>4. ~worker[w].row => rec' = rec
  BY DEF Commits
<1>5. x.status = "available" /\ x.asset = a /\ x.old = rec[r].old
  <2>1. rec[r] \in Row
    BY <1>1 DEF TypeInv, Types
  <2>. QED  BY <2>1 DEF Row
<1>6. worker[w].row => rec'[r] = x /\ \A q \in Recordings \ {r} : rec'[q] = rec[q]
  <2>. HIDE DEF x
  <2>. QED  BY <1>1, <1>3 DEF TypeInv, Types
<1>. QED  BY <1>1, <1>2, <1>4, <1>5, <1>6

------------------------------------------------------------------------------
(* Objects and the rows that name them.                                    *)

LEMMA AssetInvInit == Init => AssetInv
BY DEF Init, AssetInv, OwnAsset, OwnUpload, OldOnly, Playable, ObjectsAreTracked, NoRow,
       IdleWorker, IdleJanitor

\* Most actions move no asset and make no recording available.
Quiet ==
  /\ UNCHANGED <<fileAsset, objects, leaked, janitor>>
  /\ \A r \in Recordings : /\ rec'[r].asset = rec[r].asset
                           /\ rec[r].old => rec'[r].old
                           /\ rec'[r].status = "available" => rec[r].status = "available"
  /\ \A w \in Workers : /\ worker'[w].asset = worker[w].asset
                        /\ worker'[w].pc = "finalize" => worker[w].pc = "finalize"

LEMMA QuietStep ==
  ASSUME TypeInv, TypeInv', AssetInv, Quiet
  PROVE  AssetInv'
<1>1. OwnAsset'
  BY DEF AssetInv, OwnAsset, Quiet
<1>2. OwnUpload'
  BY DEF AssetInv, OwnUpload, Quiet
<1>3. OldOnly'
  BY DEF AssetInv, OldOnly, Quiet
<1>4. Playable'
  <2>. SUFFICES ASSUME NEW r \in Recordings, rec'[r].status = "available" /\ ~rec'[r].old
                PROVE  /\ rec'[r].asset # NoAsset
                       /\ fileAsset'[rec'[r].asset] = "available" /\ rec'[r].asset \in objects'
    BY DEF Playable
  <2>1. rec[r].old \in BOOLEAN /\ rec'[r].old \in BOOLEAN
    BY DEF TypeInv, Types, Row
  <2>2. rec[r].status = "available" /\ ~rec[r].old
    BY <2>1 DEF Quiet
  <2>. QED  BY <2>2 DEF AssetInv, Playable, Quiet
<1>5. ObjectsAreTracked'
  BY DEF AssetInv, ObjectsAreTracked, Quiet
<1>. QED  BY <1>1, <1>2, <1>3, <1>4, <1>5 DEF AssetInv

LEMMA AssetStep == TypeInv /\ TypeInv' /\ AssetInv /\ [Next]_vars => AssetInv'
<1>. SUFFICES ASSUME TypeInv, TypeInv', AssetInv, [Next]_vars PROVE AssetInv'
  OBVIOUS
<1>1. ASSUME NEW w \in Workers, Preflight(w) PROVE AssetInv'
  <2>1. Quiet
    BY <1>1, GotoFields DEF Preflight, store, Quiet
  <2>. QED  BY <2>1, QuietStep
<1>2. ASSUME NEW w \in Workers, Remux(w) PROVE AssetInv'
  <2>1. Quiet
    BY <1>2, GotoFields DEF Remux, store, Quiet
  <2>. QED  BY <2>1, QuietStep
<1>3. ASSUME NEW w \in Workers, SetUploading(w) PROVE AssetInv'
  <2>1. Quiet
    BY <1>3, GotoFields, SetStatusFields DEF SetUploading, store, Quiet, Statuses
  <2>. QED  BY <2>1, QuietStep
<1>4. ASSUME NEW w \in Workers, Reserve(w) PROVE AssetInv'
  <2>1. Quiet
    BY <1>4, GotoFields DEF Reserve, Quiet
  <2>. QED  BY <2>1, QuietStep
<1>5. ASSUME NEW w \in Workers, StepFails(w) PROVE AssetInv'
  <2>1. Quiet
    BY <1>5, GotoFields DEF StepFails, store, Quiet
  <2>. QED  BY <2>1, QuietStep
<1>6. ASSUME NEW w \in Workers, FinalizeFails(w) PROVE AssetInv'
  <2>1. Quiet
    BY <1>6, GotoFields DEF FinalizeFails, store, Quiet
  <2>. QED  BY <2>1, QuietStep
<1>7. ASSUME NEW w \in Workers, MarkFailed(w) PROVE AssetInv'
  <2>1. worker[w].asset = NoAsset
    BY <1>7 DEF MarkFailed, TypeInv, Busy
  <2>2. /\ UNCHANGED <<fileAsset, objects, leaked, janitor>>
        /\ rec' = rec \/ SetStatus(w, "failed")
        /\ Finish(w) /\ worker[w].pc # "idle"
    BY <1>7 DEF MarkFailed, FailRow
  <2>3. \A r \in Recordings :
          /\ rec'[r].asset = rec[r].asset /\ rec'[r].old = rec[r].old
          /\ rec'[r].status = "available" => rec[r].status = "available"
    <3>1. CASE rec' = rec
      BY <3>1
    <3>2. CASE SetStatus(w, "failed")
      BY <2>2, <3>2, SetStatusFields DEF Statuses
    <3>. QED  BY <2>2, <3>1, <3>2
  <2>4. Quiet
    BY <2>1, <2>2, <2>3, FinishFields DEF Quiet
  <2>. QED  BY <2>4, QuietStep
<1>8. ASSUME NEW w \in Workers, Reclaim(w) PROVE AssetInv'
  <2>1. worker[w].asset = NoAsset
    BY <1>8 DEF Reclaim, TypeInv, Busy
  <2>2. /\ UNCHANGED <<fileAsset, objects, leaked, janitor>>
        /\ rec' = rec \/ SetStatus(w, "failed")
        /\ Finish(w) /\ worker[w].pc # "idle"
    BY <1>8 DEF Reclaim, FailRow
  <2>3. \A r \in Recordings :
          /\ rec'[r].asset = rec[r].asset /\ rec'[r].old = rec[r].old
          /\ rec'[r].status = "available" => rec[r].status = "available"
    <3>1. CASE rec' = rec
      BY <3>1
    <3>2. CASE SetStatus(w, "failed")
      BY <2>2, <3>2, SetStatusFields DEF Statuses
    <3>. QED  BY <2>2, <3>1, <3>2
  <2>4. Quiet
    BY <2>1, <2>2, <2>3, FinishFields DEF Quiet
  <2>. QED  BY <2>4, QuietStep
<1>9. ASSUME NEW w \in Workers, ReclaimFails(w) PROVE AssetInv'
  <2>1. worker[w].asset = NoAsset
    BY <1>9 DEF ReclaimFails, TypeInv, Busy
  <2>2. Quiet
    BY <1>9, <2>1, FinishFields DEF ReclaimFails, store, Quiet
  <2>. QED  BY <2>2, QuietStep
<1>10. ASSUME NEW w \in Workers, NEW r \in Recordings, Claim(w, r) PROVE AssetInv'
  <2>1. worker[w].asset = NoAsset
    BY <1>10 DEF Claim, TypeInv, Busy
  <2>2. /\ worker'[w].pc = "preflight" /\ worker'[w].asset = NoAsset
        /\ \A o \in Workers \ {w} : worker'[o] = worker[o]
    BY <1>10 DEF Claim, TypeInv, Types
  <2>3. rec' = [rec EXCEPT ![r] = [rec[r] EXCEPT !.status = "remuxing", !.stuck = FALSE]]
    BY <1>10 DEF Claim
  <2>4. /\ rec'[r].status = "remuxing"
        /\ \A q \in Recordings : rec'[q].asset = rec[q].asset /\ rec'[q].old = rec[q].old
        /\ \A q \in Recordings \ {r} : rec'[q] = rec[q]
    BY <2>3, UpdateFields DEF Statuses
  <2>5. Quiet
    BY <1>10, <2>1, <2>2, <2>4 DEF Claim, store, Quiet
  <2>. QED  BY <2>5, QuietStep
<1>11. ASSUME NEW w \in Workers, NEW r \in Recordings, ListStuck(w, r) PROVE AssetInv'
  <2>1. worker[w].asset = NoAsset
    BY <1>11 DEF ListStuck, TypeInv, Busy
  <2>2. /\ worker'[w].pc = "reclaim" /\ worker'[w].asset = NoAsset
        /\ \A o \in Workers \ {w} : worker'[o] = worker[o]
    BY <1>11 DEF ListStuck, TypeInv, Types
  <2>3. Quiet
    BY <1>11, <2>1, <2>2 DEF ListStuck, store, Quiet
  <2>. QED  BY <2>3, QuietStep
<1>12. ASSUME NEW r \in Recordings, Stuck(r) PROVE AssetInv'
  <2>1. Quiet
    BY <1>12, StuckFields DEF Stuck, store, Quiet
  <2>. QED  BY <2>1, QuietStep
<1>13. ASSUME NEW r \in Recordings, Expire(r) PROVE AssetInv'
  <2>1. Quiet
    BY <1>13 DEF Expire, Quiet
  <2>. QED  BY <2>1, QuietStep
<1>14. ASSUME NEW r \in Recordings, Age(r) PROVE AssetInv'
  <2>1. Quiet
    BY <1>14, AgeFields DEF Age, store, Quiet
  <2>. QED  BY <2>1, QuietStep
<1>15. ASSUME NEW t \in Teachers, RetryWrite(t) PROVE AssetInv'
  <2>1. retry[t] \in Recordings
    BY <1>15 DEF RetryWrite, TypeInv, Types
  <2>2. Quiet
    BY <1>15, <2>1, UpdateFields DEF RetryWrite, store, Quiet, Statuses
  <2>. QED  BY <2>2, QuietStep
<1>16. ASSUME NEW t \in Teachers, NEW r \in Recordings, RetryRead(t, r) PROVE AssetInv'
  <2>1. Quiet
    BY <1>16 DEF RetryRead, store, Quiet
  <2>. QED  BY <2>1, QuietStep
<1>17. CASE UNCHANGED vars
  <2>1. Quiet
    BY <1>17 DEF vars, Quiet
  <2>. QED  BY <2>1, QuietStep
<1>18. ASSUME NEW w \in Workers, Put(w) PROVE AssetInv'
  <2>. DEFINE a == CHOOSE a \in NewAsset : TRUE
  <2>1. /\ a \in Assets /\ a # NoAsset /\ fileAsset[a] = "none"
        /\ \A o \in Workers : worker[o].asset # a
    <3>1. a \in NewAsset
      BY <1>18 DEF Put
    <3>. QED  BY <3>1 DEF NewAsset, Assets, NoAsset
  <2>2. /\ objects' = objects \cup {a}
        /\ UNCHANGED <<rec, fileAsset, janitor, leaked>>
    BY <1>18 DEF Put
  <2>3. worker'[w].asset = a /\ \A o \in Workers \ {w} : worker'[o] = worker[o]
    <3>1. worker' = [worker EXCEPT ![w] = [worker[w] EXCEPT !.asset = a, !.pc = "finalize"]]
      BY <1>18 DEF Put
    <3>2. worker[w] \in Worker
      BY Fields
    <3>. QED  BY <3>1, <3>2 DEF Worker, TypeInv, Types
  <2>. HIDE DEF a
  <2>4. OwnAsset' /\ Playable'
    BY <2>2 DEF AssetInv, OwnAsset, Playable
  <2>5. OwnUpload'
    BY <2>1, <2>2, <2>3 DEF AssetInv, OwnUpload
  <2>6. OldOnly'
    BY <2>1, <2>2 DEF AssetInv, OldOnly
  <2>7. worker[w].asset = NoAsset
    BY <1>18 DEF Put, TypeInv, Busy
  <2>8. ObjectsAreTracked'
    BY <2>2, <2>3, <2>7 DEF AssetInv, ObjectsAreTracked, TypeInv, Types, Assets, NoAsset
  <2>. QED  BY <2>4, <2>5, <2>6, <2>8 DEF AssetInv
<1>19. ASSUME NEW w \in Workers, worker[w].pc = "finalize", Commits(w), Finish(w),
              UNCHANGED <<janitor, leaked>>
       PROVE  AssetInv'
  <2>. DEFINE a == worker[w].asset  r == worker[w].r
  <2>1. a # NoAsset /\ fileAsset[a] = "none" /\ a \in objects
    BY <1>19 DEF TypeInv, Busy, AssetInv, OwnUpload
  <2>2. /\ r \in Recordings /\ a \in Assets
        /\ fileAsset'[a] = "available" /\ objects' = objects
        /\ \A b \in Assets \ {a} : fileAsset'[b] = fileAsset[b]
        /\ worker[w].row => rec'[r].status = "available" /\ rec'[r].asset = a
        /\ \A q \in Recordings : rec'[q] = rec[q] \/ (worker[w].row /\ q = r)
    BY <1>19, CommitsFields
  <2>3. /\ worker'[w].asset = NoAsset /\ worker'[w].pc = "idle"
        /\ \A o \in Workers \ {w} : worker'[o] = worker[o] /\ worker[o].asset # a
    BY <1>19, <2>1, FinishFields DEF AssetInv, OwnUpload
  <2>4. \A q \in Recordings : /\ rec[q].asset # a /\ rec[q].asset \in Assets \cup {NoAsset}
                              /\ rec'[q].asset \in Assets \cup {NoAsset}
    BY <2>1 DEF AssetInv, OwnAsset, TypeInv, Types, Row
  <2>5. \A o \in Workers : worker[o].asset \in Assets \cup {NoAsset}
    BY Fields
  <2>. HIDE DEF a, r
  <2>6. OwnAsset'
    BY <2>1, <2>2, <2>4 DEF AssetInv, OwnAsset
  <2>7. OwnUpload'
    BY <2>2, <2>3, <2>5 DEF AssetInv, OwnUpload
  <2>8. OldOnly'
    <3>1. janitor.asset \in Assets \cup {NoAsset} /\ janitor' = janitor
      BY <1>19 DEF TypeInv, Types, Janitor
    <3>2. CASE janitor.pc \in {"object", "prune"}
      <4>1. janitor.asset # a /\ janitor.asset # NoAsset
        BY <2>1, <3>2 DEF AssetInv, OldOnly, TypeInv, Busy
      <4>. QED  BY <1>19, <2>2, <3>1, <4>1, <3>2 DEF AssetInv, OldOnly
    <3>3. CASE janitor.pc \notin {"object", "prune"}
      BY <3>1, <3>3 DEF OldOnly
    <3>. QED  BY <3>2, <3>3
  <2>9. Playable'
    BY <2>1, <2>2, <2>4 DEF AssetInv, Playable
  <2>10. ObjectsAreTracked'
    BY <1>19, <2>2, <2>3 DEF a, AssetInv, ObjectsAreTracked
  <2>. QED  BY <2>6, <2>7, <2>8, <2>9, <2>10 DEF AssetInv
<1>20. ASSUME NEW w \in Workers, Finish(w), leaked \subseteq leaked',
              worker[w].asset \in leaked' \cup {NoAsset}, leaked' \subseteq Assets,
              UNCHANGED <<rec, fileAsset, objects, janitor>>
       PROVE  AssetInv'
  <2>1. /\ worker'[w].asset = NoAsset /\ worker'[w].pc = "idle"
        /\ \A o \in Workers \ {w} : worker'[o] = worker[o]
    BY <1>20, FinishFields
  <2>2. OwnAsset' /\ Playable'
    BY <1>20 DEF AssetInv, OwnAsset, Playable
  <2>3. OwnUpload'
    BY <1>20, <2>1 DEF AssetInv, OwnUpload
  <2>4. OldOnly'
    BY <1>20 DEF AssetInv, OldOnly
  <2>5. ObjectsAreTracked'
    BY <1>20, <2>1 DEF AssetInv, ObjectsAreTracked, TypeInv, Types, Assets, NoAsset
  <2>. QED  BY <2>2, <2>3, <2>4, <2>5 DEF AssetInv
<1>21. ASSUME NEW w \in Workers, Finalize(w) PROVE AssetInv'
  BY <1>21, <1>19 DEF Finalize
<1>22. ASSUME NEW w \in Workers, CommitUncertain(w) PROVE AssetInv'
  <2>1. CASE Commits(w) /\ UNCHANGED leaked
    BY <1>22, <2>1, <1>19 DEF CommitUncertain
  <2>2. CASE leaked' = leaked \cup {worker[w].asset} /\ UNCHANGED <<rec, store>>
    BY <1>22, <2>2, <1>20 DEF CommitUncertain, store, TypeInv, Types
  <2>. QED  BY <1>22, <2>1, <2>2 DEF CommitUncertain
<1>23. ASSUME NEW w \in Workers, Crash(w) PROVE AssetInv'
  BY <1>23, <1>20 DEF Crash, store, TypeInv, Types
<1>24. ASSUME NEW w \in Workers, Discard(w) PROVE AssetInv'
  <2>. DEFINE a == worker[w].asset
  <2>1. a # NoAsset /\ fileAsset[a] = "none"
    BY <1>24 DEF Discard, TypeInv, Busy, AssetInv, OwnUpload
  <2>2. /\ \/ objects' = objects \ {a} /\ leaked' = leaked
           \/ leaked' = leaked \cup {a} /\ objects' = objects
        /\ UNCHANGED <<rec, fileAsset, janitor>>
    BY <1>24 DEF Discard
  <2>3. /\ worker'[w].asset = NoAsset /\ worker'[w].pc = "fail"
        /\ \A o \in Workers \ {w} : worker'[o] = worker[o]
    <3>1. worker' = [worker EXCEPT ![w] = [worker[w] EXCEPT !.asset = NoAsset, !.pc = "fail"]]
      BY <1>24 DEF Discard
    <3>2. worker[w] \in Worker
      BY Fields
    <3>. QED  BY <3>1, <3>2 DEF Worker, TypeInv, Types
  <2>4. \A o \in Workers \ {w} : worker[o].asset # a
    BY <2>1 DEF AssetInv, OwnUpload
  <2>5. \A q \in Recordings : rec[q].asset # NoAsset => rec[q].asset # a
    BY <2>1 DEF AssetInv, OwnAsset
  <2>6. \A o \in Workers : worker[o].pc = "finalize" => worker[o].asset # NoAsset
    BY DEF TypeInv, Busy
  <2>7. OwnUpload'
    BY <2>2, <2>3, <2>4 DEF AssetInv, OwnUpload
  <2>8. OwnAsset'
    BY <2>2 DEF AssetInv, OwnAsset
  <2>9. OldOnly'
    BY <2>1, <2>2 DEF AssetInv, OldOnly
  <2>10. Playable'
    BY <2>2, <2>5 DEF AssetInv, Playable
  <2>11. ObjectsAreTracked'
    BY <2>2, <2>3 DEF AssetInv, ObjectsAreTracked, TypeInv, Types
  <2>. QED  BY <2>7, <2>8, <2>9, <2>10, <2>11 DEF AssetInv
<1>25. ASSUME NEW r \in Recordings, JanitorList(r) PROVE AssetInv'
  <2>1. /\ janitor'.asset = rec[r].asset /\ rec[r].old
        /\ janitor'.pc = IF rec[r].asset = NoAsset THEN "row" ELSE "object"
        /\ UNCHANGED <<rec, fileAsset, objects, leaked, worker>>
    BY <1>25 DEF JanitorList, store
  <2>2. OldOnly'
    BY <2>1 DEF AssetInv, OldOnly, OwnAsset
  <2>. QED  BY <2>1, <2>2 DEF AssetInv, OwnAsset, OwnUpload, Playable, ObjectsAreTracked
<1>26. ASSUME JanitorDeleteObject PROVE AssetInv'
  <2>. DEFINE a == janitor.asset
  <2>1. /\ \/ objects' = objects \ {a} /\ leaked' = leaked
           \/ leaked' = leaked \cup {a} /\ objects' = objects
        /\ UNCHANGED <<rec, fileAsset, worker>>
    BY <1>26 DEF JanitorDeleteObject
  <2>2. janitor'.pc = "prune" /\ janitor'.asset = a
    BY <1>26 DEF JanitorDeleteObject, TypeInv, Types, Janitor
  <2>3. fileAsset[a] # "none" /\ \A r \in Recordings : rec[r].asset = a => rec[r].old
    BY <1>26 DEF JanitorDeleteObject, AssetInv, OldOnly
  <2>4. \A w \in Workers : worker[w].pc = "finalize" => worker[w].asset # a
    BY <2>3 DEF AssetInv, OwnUpload, TypeInv, Busy
  <2>5. OldOnly'
    BY <2>1, <2>2, <2>3 DEF OldOnly
  <2>6. OwnUpload'
    BY <2>1, <2>4 DEF AssetInv, OwnUpload
  <2>7. Playable'
    BY <2>1, <2>3 DEF AssetInv, Playable
  <2>8. OwnAsset' /\ ObjectsAreTracked'
    BY <2>1 DEF AssetInv, OwnAsset, ObjectsAreTracked
  <2>. QED  BY <2>5, <2>6, <2>7, <2>8 DEF AssetInv
<1>27. ASSUME JanitorPrune PROVE AssetInv'
  <2>. DEFINE a == janitor.asset
  <2>1. /\ \/ fileAsset' = fileAsset
           \/ fileAsset' = [fileAsset EXCEPT ![a] = "pruned"]
        /\ UNCHANGED <<rec, objects, leaked, worker>>
    BY <1>27 DEF JanitorPrune
  <2>2. janitor'.pc = "row"
    BY <1>27 DEF JanitorPrune, TypeInv, Types, Janitor
  <2>3. /\ fileAsset[a] # "none" /\ a # NoAsset /\ a \in Assets
        /\ \A r \in Recordings : rec[r].asset = a => rec[r].old
        /\ a \notin objects \/ a \in leaked
    BY <1>27 DEF JanitorPrune, AssetInv, OldOnly, TypeInv, Types, Busy, Janitor
  <2>4. /\ fileAsset'[a] # "none"
        /\ \A b \in Assets : b # a => fileAsset'[b] = fileAsset[b]
    BY <2>1, <2>3 DEF TypeInv, Types
  <2>5. /\ \A w \in Workers : worker[w].asset \in Assets \cup {NoAsset}
        /\ \A r \in Recordings : rec[r].asset \in Assets \cup {NoAsset}
    BY DEF TypeInv, Types, Worker, Row
  <2>. HIDE DEF a
  <2>6. OldOnly'
    BY <2>2 DEF OldOnly
  <2>7. OwnUpload'
    BY <2>1, <2>3, <2>4, <2>5 DEF AssetInv, OwnUpload
  <2>8. Playable'
    BY <2>1, <2>3, <2>4, <2>5 DEF AssetInv, Playable
  <2>9. OwnAsset'
    BY <2>1, <2>4, <2>5 DEF AssetInv, OwnAsset
  <2>10. ObjectsAreTracked'
    BY <2>1, <2>3, <2>4 DEF AssetInv, ObjectsAreTracked
  <2>. QED  BY <2>6, <2>7, <2>8, <2>9, <2>10 DEF AssetInv
<1>28. ASSUME JanitorDeleteRow PROVE AssetInv'
  <2>1. /\ UNCHANGED <<fileAsset, objects, leaked>> /\ janitor'.pc = "idle"
        /\ janitor.r \in Recordings
    BY <1>28 DEF JanitorDeleteRow, IdleJanitor, TypeInv, Busy
  <2>2. /\ rec'[janitor.r].asset = NoAsset /\ rec'[janitor.r].status = "none"
        /\ \A q \in Recordings \ {janitor.r} : rec'[q] = rec[q]
    BY <1>28, <2>1 DEF JanitorDeleteRow, NoRow, TypeInv, Types
  <2>3. \A w \in Workers : worker'[w].asset = worker[w].asset /\ worker'[w].pc = worker[w].pc
    <3>. SUFFICES ASSUME NEW w \in Workers
                  PROVE  worker'[w].asset = worker[w].asset /\ worker'[w].pc = worker[w].pc
      OBVIOUS
    <3>1. worker'[w] \in {worker[w], [worker[w] EXCEPT !.row = FALSE]} /\ worker[w] \in Worker
      BY <1>28, Fields DEF JanitorDeleteRow
    <3>. QED  BY <3>1 DEF Worker
  <2>4. OwnAsset'
    BY <2>1, <2>2 DEF AssetInv, OwnAsset
  <2>5. OwnUpload'
    BY <2>1, <2>3 DEF AssetInv, OwnUpload
  <2>6. OldOnly'
    BY <2>1 DEF OldOnly
  <2>7. Playable'
    BY <2>1, <2>2 DEF AssetInv, Playable
  <2>8. ObjectsAreTracked'
    BY <2>1, <2>3 DEF AssetInv, ObjectsAreTracked
  <2>. QED  BY <2>4, <2>5, <2>6, <2>7, <2>8 DEF AssetInv
<1>29. ASSUME JanitorStops PROVE AssetInv'
  <2>1. janitor'.pc = "idle" /\ UNCHANGED <<rec, fileAsset, objects, leaked, worker>>
    BY <1>29 DEF JanitorStops, IdleJanitor, store
  <2>. QED  BY <2>1 DEF AssetInv, OldOnly, OwnAsset, OwnUpload, Playable, ObjectsAreTracked
<1>. QED  BY <1>1, <1>2, <1>3, <1>4, <1>5, <1>6, <1>7, <1>8, <1>9, <1>10, <1>11, <1>12, <1>13,
             <1>14, <1>15, <1>16, <1>17, <1>18, <1>21, <1>22, <1>23, <1>24, <1>25, <1>26, <1>27,
             <1>28, <1>29 DEF Next, Pipeline

LEMMA AssetInvariant == Spec => []AssetInv
<1>1. Init => AssetInv
  BY AssetInvInit
<1>2. TypeInv /\ TypeInv' /\ AssetInv /\ [Next]_vars => AssetInv'
  BY AssetStep
<1>. QED  BY <1>1, <1>2, TypeInvariant, PTL DEF Spec

\* An available recording can be played back until its retention has passed,
\* for any number of recordings and replicas: a commit publishes an object that
\* only this worker could have deleted, and the janitor deletes what is old.
THEOREM Playback == Spec => []AvailableIsPlayable
<1>1. AssetInv => AvailableIsPlayable
  BY DEF AssetInv, Playable, AvailableIsPlayable
<1>. QED  BY <1>1, AssetInvariant, PTL

\* No object is lost track of, but for a failed deletion and a dead replica.
THEOREM Tracking == Spec => []ObjectsAreTracked
<1>1. AssetInv => ObjectsAreTracked
  BY DEF AssetInv
<1>. QED  BY <1>1, AssetInvariant, PTL

------------------------------------------------------------------------------
(* What is stored and reserved.                                            *)

\* The terms are natural numbers, and so are their sums.
LEMMA SumsAreNat ==
  ASSUME NEW S \in SUBSET Recordings
  PROVE  /\ IsFiniteSet(S) /\ SumFunctionOnSet(Size, S) \in Nat
         /\ \A r \in S : Size[r] \in Nat /\ Size[r] \in Int /\ Size[r] <= Size[r]
<1>1. IsFiniteSet(S) /\ \A r \in S : Size[r] \in Nat /\ Size[r] \in Int /\ Size[r] <= Size[r]
  BY RecordingAssumption, FS_Subset
<1>. QED  BY <1>1, SumNat

\* Fewer recordings do not take more.
LEMMA FewerTakeLess ==
  ASSUME NEW S \in SUBSET Recordings, NEW T \in SUBSET S
  PROVE  SumFunctionOnSet(Size, T) <= SumFunctionOnSet(Size, S)
BY SumsAreNat, SumLeq

\* One more takes its size, and not even that if it was there.
LEMMA OneMore ==
  ASSUME NEW S \in SUBSET Recordings, NEW r \in Recordings
  PROVE  SumFunctionOnSet(Size, S \cup {r}) <= SumFunctionOnSet(Size, S) + Size[r]
<1>. DEFINE T == S \cup {r}
<1>1. SumFunctionOnSet(Size, T) = Size[r] + SumFunctionOnSet(Size, T \ {r})
  BY SumsAreNat, SumSplit
<1>2. SumFunctionOnSet(Size, T \ {r}) <= SumFunctionOnSet(Size, S)
  BY FewerTakeLess
<1>3. /\ SumFunctionOnSet(Size, T \ {r}) \in Nat /\ SumFunctionOnSet(Size, S) \in Nat
      /\ Size[r] \in Nat
  BY SumsAreNat, RecordingAssumption
<1>. HIDE DEF T
<1>. QED  BY <1>1, <1>2, <1>3 DEF T

LEMMA UsedNext ==
  Used({})' = SumFunctionOnSet(Size, Stored') + SumFunctionOnSet(Size, reserved')
<1>1. reserved' \ {} = reserved'
  OBVIOUS
<1>. QED  BY <1>1 DEF Used

\* A step that stores and reserves nothing new.
LEMMA NothingNew ==
  ASSUME StorageWithinLimit, TypeInv, Stored' \subseteq Stored, reserved' \subseteq reserved
  PROVE  StorageWithinLimit'
<1>. DEFINE s == SumFunctionOnSet(Size, Stored) s1 == SumFunctionOnSet(Size, Stored')
            q == SumFunctionOnSet(Size, reserved) q1 == SumFunctionOnSet(Size, reserved')
<1>1. Stored \in SUBSET Recordings /\ reserved \in SUBSET Recordings
  BY DEF Stored, TypeInv, Types
<1>2. s1 <= s /\ q1 <= q
  BY <1>1, FewerTakeLess
<1>3. s \in Nat /\ s1 \in Nat /\ q \in Nat /\ q1 \in Nat
  <2>1. Stored' \in SUBSET Recordings /\ reserved' \in SUBSET Recordings
    BY <1>1
  <2>. QED  BY <1>1, <2>1, SumsAreNat
<1>4. Used({}) = s + q /\ Used({})' = s1 + q1
  <2>1. reserved \ {} = reserved
    OBVIOUS
  <2>. QED  BY <2>1, UsedNext DEF Used
<1>. HIDE DEF s, s1, q, q1
<1>. QED  BY <1>2, <1>3, <1>4, RecordingAssumption DEF StorageWithinLimit

\* What is stored is known from the file assets the rows point to.
LEMMA StoredStep ==
  ASSUME TypeInv, fileAsset' = fileAsset,
         \A r \in Recordings : rec'[r].asset \in {rec[r].asset, NoAsset}
  PROVE  Stored' \subseteq Stored
BY DEF Stored, TypeInv, Types

\* The upload of a worker takes at most its size, be it reserved or not.
LEMMA CommitStored ==
  ASSUME TypeInv, AssetInv, NEW w \in Workers, worker[w].pc = "finalize", Commits(w)
  PROVE  /\ worker[w].row => Stored' \subseteq Stored \cup {worker[w].r}
         /\ ~worker[w].row => Stored' \subseteq Stored
<1>. DEFINE a == worker[w].asset
<1>1. /\ a \in Assets /\ a # NoAsset
      /\ \A q \in Recordings : rec[q].asset # a
  <2>1. a \in Assets /\ a # NoAsset
    BY CommitsFields DEF Assets, NoAsset
  <2>. QED  BY <2>1 DEF AssetInv, OwnAsset, OwnUpload
<1>2. \A q \in Recordings : rec'[q] = rec[q] \/ (worker[w].row /\ q = worker[w].r)
  BY CommitsFields
<1>3. \A q \in Recordings : rec[q].asset # NoAsset => rec[q].asset \in Assets
  BY DEF TypeInv, Types, Row
<1>4. \A q \in Recordings : rec[q].asset # NoAsset => fileAsset'[rec[q].asset] = fileAsset[rec[q].asset]
  BY <1>1, <1>3, CommitsFields
<1>5. ASSUME NEW q \in Stored', q \notin Stored PROVE worker[w].row /\ q = worker[w].r
  BY <1>2, <1>4, <1>5 DEF Stored
<1>. QED  BY <1>5

LEMMA CommitFits ==
  ASSUME TypeInv, TypeInv', AssetInv, StorageWithinLimit, NEW w \in Workers,
         worker[w].pc = "finalize", Commits(w), RoomToFinalize(w)
  PROVE  StorageWithinLimit'
<1>. DEFINE r == worker[w].r
            s == SumFunctionOnSet(Size, Stored)
            s1 == SumFunctionOnSet(Size, Stored')
            q1 == SumFunctionOnSet(Size, reserved \ {r})
<1>1. CASE ~worker[w].row
  BY <1>1, CommitStored, NothingNew DEF Commits
<1>2. CASE worker[w].row
  <2>1. r \in Recordings /\ reserved' = reserved \ {r}
    BY <1>2, CommitsFields DEF Commits
  <2>2. /\ Stored \in SUBSET Recordings /\ Stored' \in SUBSET (Stored \cup {r})
        /\ Stored \cup {r} \in SUBSET Recordings /\ reserved \ {r} \in SUBSET Recordings
    BY <1>2, <2>1, CommitStored DEF Stored, TypeInv, Types
  <2>3. s1 <= SumFunctionOnSet(Size, Stored \cup {r})
    BY <2>2, FewerTakeLess
  <2>4. SumFunctionOnSet(Size, Stored \cup {r}) <= s + Size[r]
    BY <2>1, <2>2, OneMore
  <2>5. /\ s \in Nat /\ s1 \in Nat /\ q1 \in Nat /\ Size[r] \in Nat
        /\ SumFunctionOnSet(Size, Stored \cup {r}) \in Nat
    <3>1. Stored' \in SUBSET Recordings
      BY <2>2
    <3>. QED  BY <2>1, <2>2, <3>1, SumsAreNat, RecordingAssumption
  <2>6. StorageLimit >= 0 => Size[r] <= StorageLimit - (s + q1)
    <3>1. StorageLimit >= 0 => ~(Size[r] > StorageLimit - (s + q1))
      BY DEF RoomToFinalize, LimitReached, Used
    <3>. HIDE DEF s, q1, r
    <3>. QED  BY <2>5, <3>1, RecordingAssumption
  <2>7. Used({})' = s1 + q1
    BY <2>1, UsedNext
  <2>. HIDE DEF s, s1, q1, r
  <2>. QED  BY <2>3, <2>4, <2>5, <2>6, <2>7, RecordingAssumption DEF StorageWithinLimit
<1>. QED  BY <1>1, <1>2 DEF TypeInv, Types, Worker

\* A reservation is made when there is room for it beside what is stored and reserved.
LEMMA ReserveFits ==
  ASSUME TypeInv, StorageWithinLimit, NEW w \in Workers, Reserve(w)
  PROVE  StorageWithinLimit'
<1>. DEFINE r == worker[w].r
            s == SumFunctionOnSet(Size, Stored)
            q1 == SumFunctionOnSet(Size, reserved \ {r})
            q2 == SumFunctionOnSet(Size, reserved')
<1>0. rec' = rec /\ fileAsset' = fileAsset /\ Stored' = Stored
  BY DEF Reserve, Stored
<1>1. CASE reserved' = reserved
  BY <1>0, <1>1, NothingNew
<1>2. CASE reserved' # reserved
  <2>1. r \in Recordings /\ reserved' = (reserved \ {r}) \cup {r} /\ ~LimitReached({r}, Size[r])
    BY <1>2 DEF Reserve, TypeInv, Busy
  <2>2. /\ Stored \in SUBSET Recordings /\ reserved \ {r} \in SUBSET Recordings
        /\ reserved' \in SUBSET Recordings
    BY <2>1 DEF Stored, TypeInv, Types
  <2>3. q2 <= q1 + Size[r]
    BY <2>1, <2>2, OneMore
  <2>4. s \in Nat /\ q1 \in Nat /\ q2 \in Nat /\ Size[r] \in Nat
    BY <2>1, <2>2, SumsAreNat, RecordingAssumption
  <2>5. StorageLimit >= 0 => ~(Size[r] > StorageLimit - (s + q1))
    BY <2>1 DEF LimitReached, Used
  <2>6. Used({})' = s + q2
    BY <1>0, UsedNext
  <2>. HIDE DEF s, q1, q2, r
  <2>. QED  BY <2>3, <2>4, <2>5, <2>6, RecordingAssumption DEF StorageWithinLimit
<1>. QED  BY <1>1, <1>2

LEMMA StorageStep ==
  TypeInv /\ TypeInv' /\ AssetInv /\ StorageWithinLimit /\ [Next]_vars => StorageWithinLimit'
<1>. SUFFICES ASSUME TypeInv, TypeInv', AssetInv, StorageWithinLimit, [Next]_vars
              PROVE  StorageWithinLimit'
  OBVIOUS
<1>. DEFINE Less == /\ \A r \in Recordings : rec'[r].asset \in {rec[r].asset, NoAsset}
                    /\ fileAsset' = fileAsset /\ reserved' \subseteq reserved
<1>1. Less => StorageWithinLimit'
  BY StoredStep, NothingNew
<1>2. ASSUME NEW w \in Workers, Finalize(w) \/ CommitUncertain(w), Commits(w)
      PROVE  StorageWithinLimit'
  BY <1>2, CommitFits DEF Finalize, CommitUncertain
<1>3. ASSUME NEW w \in Workers, CommitUncertain(w), ~Commits(w) PROVE Less
  BY <1>3 DEF CommitUncertain, store
<1>4. ASSUME NEW w \in Workers, SetUploading(w) PROVE Less
  BY <1>4, SetStatusFields DEF SetUploading, store, Statuses
<1>5. ASSUME NEW w \in Workers, FailRow(w), worker[w].pc # "idle", UNCHANGED fileAsset PROVE Less
  BY <1>5, SetStatusFields DEF FailRow, Statuses
<1>6. ASSUME NEW w \in Workers, MarkFailed(w) \/ Reclaim(w) PROVE Less
  BY <1>5, <1>6 DEF MarkFailed, Reclaim
<1>7. ASSUME NEW w \in Workers,
             \/ Preflight(w) \/ Remux(w) \/ Put(w) \/ StepFails(w) \/ FinalizeFails(w)
             \/ Discard(w) \/ ReclaimFails(w) \/ Crash(w)
      PROVE  Less
  BY <1>7 DEF Preflight, Remux, Put, StepFails, FinalizeFails, Discard, ReclaimFails, Crash, store
<1>8. ASSUME NEW w \in Workers, NEW r \in Recordings, Claim(w, r) \/ ListStuck(w, r) PROVE Less
  <2>1. CASE Claim(w, r)
    BY <2>1, UpdateFields DEF Claim, store, Statuses
  <2>2. CASE ListStuck(w, r)
    BY <2>2 DEF ListStuck, store
  <2>. QED  BY <1>8, <2>1, <2>2
<1>9. ASSUME NEW r \in Recordings, Stuck(r) \/ Expire(r) \/ Age(r) \/ JanitorList(r) PROVE Less
  <2>1. CASE Stuck(r)
    BY <2>1, StuckFields DEF Stuck, store
  <2>2. CASE Age(r)
    BY <2>2, AgeFields DEF Age, store
  <2>3. CASE Expire(r) \/ JanitorList(r)
    BY <2>3 DEF Expire, JanitorList, store
  <2>. QED  BY <1>9, <2>1, <2>2, <2>3
<1>10. ASSUME NEW t \in Teachers, RetryWrite(t) PROVE Less
  <2>1. CASE rec' = rec
    BY <1>10, <2>1 DEF RetryWrite, store
  <2>2. CASE rec' # rec
    <3>1. retry[t] \in Recordings
      BY <1>10 DEF RetryWrite, TypeInv, Types
    <3>. QED  BY <1>10, <2>2, <3>1, UpdateFields DEF RetryWrite, store, Statuses
  <2>. QED  BY <2>1, <2>2
<1>11. ASSUME NEW t \in Teachers, NEW r \in Recordings, RetryRead(t, r) PROVE Less
  BY <1>11 DEF RetryRead, store
<1>12. CASE JanitorDeleteObject \/ JanitorStops
  BY <1>1, <1>12 DEF JanitorDeleteObject, JanitorStops, store
<1>13. CASE JanitorPrune
  <2>1. \A a \in Assets : fileAsset'[a] \in {fileAsset[a], "pruned"}
    BY <1>13 DEF JanitorPrune, TypeInv, Types
  <2>2. rec' = rec /\ reserved' = reserved
    BY <1>13 DEF JanitorPrune
  <2>3. Stored' \subseteq Stored
    BY <2>1, <2>2 DEF Stored, TypeInv, Types, Row
  <2>. QED  BY <2>2, <2>3, NothingNew
<1>14. CASE JanitorDeleteRow
  <2>1. \A r \in Recordings : rec'[r] \in {rec[r], NoRow}
    BY <1>14 DEF JanitorDeleteRow, TypeInv, Types
  <2>. QED  BY <1>1, <1>14, <2>1 DEF JanitorDeleteRow, NoRow
<1>15. CASE UNCHANGED vars
  BY <1>1, <1>15 DEF vars
<1>. QED
  BY <1>1, <1>2, <1>3, <1>4, <1>6, <1>7, <1>8, <1>9, <1>10, <1>11, <1>12, <1>13, <1>14, <1>15,
     ReserveFits DEF Next, Pipeline, Finalize

LEMMA StorageInit == Init => StorageWithinLimit
<1>. SUFFICES ASSUME Init PROVE StorageWithinLimit
  OBVIOUS
<1>1. Stored = {} /\ reserved \ {} = {}
  BY DEF Init, Stored, NoRow
<1>2. Used({}) = 0
  BY <1>1, SumEmpty DEF Used
<1>. QED  BY <1>2, RecordingAssumption DEF StorageWithinLimit

\* What is stored and reserved stays within the plan, for any number of recordings,
\* replicas and uploads: reservations may expire under an upload and be taken by another,
\* as the limit is tested again in the transaction that makes the recording available.
THEOREM WithinPlan == Spec => []StorageWithinLimit
BY StorageInit, StorageStep, TypeInvariant, AssetInvariant, PTL DEF Spec

------------------------------------------------------------------------------
(* A row in progress has one owner.                                        *)

LEMMA OwnerInvInit == Init => OwnerInv
BY DEF Init, OwnerInv, OwnRow, OthersKeepOff, IdleWorker, IdleJanitor

\* Most actions write no status, or only that of the row the worker owns.
LEMMA OwnerQuiet ==
  ASSUME OwnerInv, UNCHANGED <<retry, janitor>>,
         \A w \in Workers : worker'[w].row =>
           /\ worker[w].row /\ worker'[w].r = worker[w].r /\ worker'[w].pc # "idle",
         \A r \in Recordings : rec[r].old => rec'[r].old,
         \A r \in Recordings : rec[r].status \in InProgress => rec'[r].status \in InProgress,
         \A r \in Recordings : rec[r].status = "failed" => rec'[r].status = "failed",
         TypeInv
  PROVE  OwnerInv'
BY DEF OwnerInv, OwnRow, OthersKeepOff, TypeInv, Types, Busy

\* ... and a worker that is done has given the row up.
LEMMA OwnerDone ==
  ASSUME OwnerInv, TypeInv, NEW w \in Workers, Finish(w), worker[w].pc # "idle",
         UNCHANGED <<retry, janitor>>,
         \A r \in Recordings : rec[r].old => rec'[r].old,
         \A q \in Recordings : rec'[q] = rec[q] \/ (worker[w].row /\ q = worker[w].r)
  PROVE  OwnerInv'
<1>1. worker'[w].row = FALSE /\ \A o \in Workers \ {w} : worker'[o] = worker[o]
  BY FinishFields
<1>2. \A o \in Workers \ {w} : worker[o].row => rec'[worker[o].r] = rec[worker[o].r]
  BY DEF OwnerInv, OwnRow, TypeInv, Busy
<1>3. OwnRow'
  BY <1>1, <1>2 DEF OwnerInv, OwnRow
<1>4. \A t \in Teachers : retry[t] # NoRecording => rec'[retry[t]] = rec[retry[t]]
  BY DEF OwnerInv, OwnRow, OthersKeepOff, TypeInv, Types, InProgress
<1>5. OthersKeepOff'
  BY <1>4 DEF OwnerInv, OthersKeepOff, TypeInv, Busy
<1>. QED  BY <1>3, <1>5 DEF OwnerInv

\* One retry at a time, and no replica is overtaken.
OneRetry == Timely /\ \A t, u \in Teachers : t = u

LEMMA OwnerStep == OneRetry /\ TypeInv /\ TypeInv' /\ OwnerInv /\ [Next]_vars => OwnerInv'
<1>. SUFFICES ASSUME OneRetry, TypeInv, TypeInv', OwnerInv, [Next]_vars PROVE OwnerInv'
  OBVIOUS
<1>1. ASSUME NEW w \in Workers, Preflight(w) PROVE OwnerInv'
  <2>1. \A o \in Workers : worker'[o].row = worker[o].row /\ worker'[o].r = worker[o].r
                           /\ (worker[o].pc # "idle" => worker'[o].pc # "idle")
    BY <1>1, GotoFields DEF Preflight
  <2>. QED  BY <1>1, <2>1, OwnerQuiet DEF Preflight, OwnerInv, OwnRow
<1>2. ASSUME NEW w \in Workers, Remux(w) PROVE OwnerInv'
  <2>1. \A o \in Workers : worker'[o].row = worker[o].row /\ worker'[o].r = worker[o].r
                           /\ (worker[o].pc # "idle" => worker'[o].pc # "idle")
    BY <1>2, GotoFields DEF Remux
  <2>. QED  BY <1>2, <2>1, OwnerQuiet DEF Remux, OwnerInv, OwnRow
<1>3. ASSUME NEW w \in Workers, SetUploading(w) PROVE OwnerInv'
  <2>1. \A o \in Workers : worker'[o].row = worker[o].row /\ worker'[o].r = worker[o].r
                           /\ (worker[o].pc # "idle" => worker'[o].pc # "idle")
    BY <1>3, GotoFields DEF SetUploading
  <2>2. SetStatus(w, "uploading") /\ worker[w].pc # "idle" /\ UNCHANGED <<retry, janitor>>
    BY <1>3 DEF SetUploading
  <2>3. /\ worker[w].row => rec'[worker[w].r].status = "uploading"
        /\ \A q \in Recordings : rec'[q].old = rec[q].old
        /\ \A q \in Recordings : rec'[q] = rec[q] \/ (worker[w].row /\ q = worker[w].r)
    BY <2>2, SetStatusFields DEF Statuses
  <2>4. worker[w].row => rec[worker[w].r].status \in InProgress
    BY DEF OwnerInv, OwnRow
  <2>. QED  BY <2>1, <2>2, <2>3, <2>4, OwnerQuiet DEF InProgress, OwnerInv, OwnRow
<1>4. ASSUME NEW w \in Workers, Reserve(w) PROVE OwnerInv'
  <2>1. \A o \in Workers : worker'[o].row = worker[o].row /\ worker'[o].r = worker[o].r
                           /\ (worker[o].pc # "idle" => worker'[o].pc # "idle")
    BY <1>4, GotoFields DEF Reserve
  <2>. QED  BY <1>4, <2>1, OwnerQuiet DEF Reserve, OwnerInv, OwnRow
<1>5. ASSUME NEW w \in Workers, StepFails(w) PROVE OwnerInv'
  <2>1. \A o \in Workers : worker'[o].row = worker[o].row /\ worker'[o].r = worker[o].r
                           /\ (worker[o].pc # "idle" => worker'[o].pc # "idle")
    BY <1>5, GotoFields DEF StepFails
  <2>. QED  BY <1>5, <2>1, OwnerQuiet DEF StepFails, OwnerInv, OwnRow
<1>6. ASSUME NEW w \in Workers, FinalizeFails(w) PROVE OwnerInv'
  <2>1. \A o \in Workers : worker'[o].row = worker[o].row /\ worker'[o].r = worker[o].r
                           /\ (worker[o].pc # "idle" => worker'[o].pc # "idle")
    BY <1>6, GotoFields DEF FinalizeFails
  <2>. QED  BY <1>6, <2>1, OwnerQuiet DEF FinalizeFails, OwnerInv, OwnRow
<1>7. ASSUME NEW w \in Workers, Put(w) PROVE OwnerInv'
  <2>. DEFINE a == CHOOSE a \in NewAsset : TRUE
  <2>1. worker' = [worker EXCEPT ![w] = [worker[w] EXCEPT !.asset = a, !.pc = "finalize"]]
    BY <1>7 DEF Put
  <2>. HIDE DEF a
  <2>2. \A o \in Workers : worker'[o].row = worker[o].row /\ worker'[o].r = worker[o].r
                           /\ (worker[o].pc # "idle" => worker'[o].pc # "idle")
    BY <2>1, Fields DEF Worker, TypeInv, Types
  <2>. QED  BY <1>7, <2>2, OwnerQuiet DEF Put, OwnerInv, OwnRow
<1>8. ASSUME NEW w \in Workers, Discard(w) PROVE OwnerInv'
  <2>1. worker' = [worker EXCEPT ![w] = [worker[w] EXCEPT !.asset = NoAsset, !.pc = "fail"]]
    BY <1>8 DEF Discard
  <2>2. \A o \in Workers : worker'[o].row = worker[o].row /\ worker'[o].r = worker[o].r
                           /\ (worker[o].pc # "idle" => worker'[o].pc # "idle")
    BY <2>1, Fields DEF Worker, TypeInv, Types
  <2>. QED  BY <1>8, <2>2, OwnerQuiet DEF Discard, OwnerInv, OwnRow
<1>9. ASSUME NEW w \in Workers, MarkFailed(w) PROVE OwnerInv'
  <2>1. /\ Finish(w) /\ worker[w].pc # "idle" /\ UNCHANGED <<retry, janitor>>
        /\ rec' = rec \/ SetStatus(w, "failed")
    BY <1>9 DEF MarkFailed, FailRow
  <2>. QED  BY <2>1, SetStatusFields, OwnerDone DEF Statuses
<1>10. ASSUME NEW w \in Workers, Reclaim(w) PROVE OwnerInv'
  <2>1. /\ Finish(w) /\ worker[w].pc # "idle" /\ UNCHANGED <<retry, janitor>>
        /\ SetStatus(w, "failed")
    BY <1>10 DEF Reclaim, FailRow
  <2>. QED  BY <2>1, SetStatusFields, OwnerDone DEF Statuses
<1>11. ASSUME NEW w \in Workers, ReclaimFails(w) PROVE OwnerInv'
  BY <1>11, OwnerDone DEF ReclaimFails
<1>12. ASSUME NEW w \in Workers, Crash(w) PROVE OwnerInv'
  BY <1>12, OwnerDone DEF Crash
<1>13. ASSUME NEW w \in Workers, Finalize(w) PROVE OwnerInv'
  BY <1>13, CommitsFields, OwnerDone DEF Finalize
<1>14. ASSUME NEW w \in Workers, CommitUncertain(w) PROVE OwnerInv'
  BY <1>14, CommitsFields, OwnerDone DEF CommitUncertain
<1>15. ASSUME NEW w \in Workers, NEW r \in Recordings, Claim(w, r) PROVE OwnerInv'
  <2>1. /\ worker'[w].pc = "preflight" /\ worker'[w].r = r
        /\ \A o \in Workers \ {w} : worker'[o] = worker[o]
    BY <1>15 DEF Claim, TypeInv, Types
  <2>2. rec' = [rec EXCEPT ![r] = [rec[r] EXCEPT !.status = "remuxing", !.stuck = FALSE]]
    BY <1>15 DEF Claim
  <2>3. /\ rec'[r].status = "remuxing"
        /\ \A q \in Recordings : rec'[q].old = rec[q].old
        /\ \A q \in Recordings \ {r} : rec'[q] = rec[q]
    BY <2>2, UpdateFields DEF Statuses
  <2>4. rec[r].status \in {"none", "pending"} /\ UNCHANGED <<retry, janitor>>
    BY <1>15 DEF Claim
  <2>5. \A o \in Workers : worker[o].row => worker[o].r # r /\ worker[o].r \in Recordings
    BY <2>4 DEF OwnerInv, OwnRow, InProgress, TypeInv, Busy
  <2>6. OwnRow'
    BY <2>1, <2>3, <2>5 DEF OwnerInv, OwnRow, InProgress
  <2>7. OthersKeepOff'
    BY <2>3, <2>4 DEF OwnerInv, OthersKeepOff, TypeInv, Types, Busy
  <2>. QED  BY <2>6, <2>7 DEF OwnerInv
<1>16. ASSUME NEW w \in Workers, NEW r \in Recordings, ListStuck(w, r) PROVE OwnerInv'
  <2>1. /\ worker'[w].pc = "reclaim" /\ worker'[w].r = r
        /\ \A o \in Workers \ {w} : worker'[o] = worker[o]
    BY <1>16 DEF ListStuck, TypeInv, Types
  <2>2. /\ rec[r].status \in InProgress /\ UNCHANGED <<rec, retry, janitor>>
        /\ \A o \in Workers : worker[o].r # r
    BY <1>16 DEF ListStuck, OneRetry, store
  <2>3. OwnRow'
    BY <2>1, <2>2 DEF OwnerInv, OwnRow
  <2>4. OthersKeepOff'
    BY <2>2 DEF OwnerInv, OthersKeepOff
  <2>. QED  BY <2>3, <2>4 DEF OwnerInv
<1>17. ASSUME NEW r \in Recordings, Stuck(r) PROVE OwnerInv'
  <2>1. \A q \in Recordings : rec'[q].status = rec[q].status /\ rec'[q].old = rec[q].old
    BY <1>17, StuckFields DEF Stuck
  <2>. QED  BY <1>17, <2>1, OwnerQuiet DEF Stuck, OwnerInv, OwnRow
<1>18. ASSUME NEW r \in Recordings, Age(r) PROVE OwnerInv'
  <2>1. \A q \in Recordings : /\ rec'[q].status = rec[q].status
                              /\ rec'[q].old = (rec[q].old \/ q = r)
    BY <1>18, AgeFields DEF Age
  <2>. QED  BY <1>18, <2>1, OwnerQuiet DEF Age, OwnerInv, OwnRow
<1>19. ASSUME NEW r \in Recordings, Expire(r) PROVE OwnerInv'
  BY <1>19, OwnerQuiet DEF Expire, OwnerInv, OwnRow
<1>20. ASSUME NEW r \in Recordings, JanitorList(r) PROVE OwnerInv'
  <2>1. janitor'.r = r /\ rec[r].old /\ UNCHANGED <<rec, worker, retry>>
    BY <1>20 DEF JanitorList
  <2>. QED  BY <2>1 DEF OwnerInv, OwnRow, OthersKeepOff
<1>21. ASSUME NEW t \in Teachers, RetryWrite(t) PROVE OwnerInv'
  <2>1. retry[t] \in Recordings /\ rec[retry[t]].status = "failed"
    BY <1>21 DEF RetryWrite, TypeInv, Types, OwnerInv, OthersKeepOff
  <2>2. /\ rec' = rec \/ rec' = [rec EXCEPT ![retry[t]] =
                                  [rec[retry[t]] EXCEPT !.status = "pending", !.stuck = FALSE]]
        /\ UNCHANGED <<worker, janitor>> /\ retry' = [retry EXCEPT ![t] = NoRecording]
    BY <1>21 DEF RetryWrite
  <2>3. /\ \A q \in Recordings : rec'[q].old = rec[q].old
        /\ \A q \in Recordings \ {retry[t]} : rec'[q] = rec[q]
    BY <2>1, <2>2, UpdateFields DEF Statuses
  <2>4. \A u \in Teachers : retry'[u] = NoRecording
    BY <2>2 DEF OneRetry, TypeInv, Types
  <2>5. OwnRow'
    BY <2>1, <2>2, <2>3 DEF OwnerInv, OwnRow, InProgress, TypeInv, Busy
  <2>6. OthersKeepOff'
    BY <2>2, <2>3, <2>4 DEF OwnerInv, OthersKeepOff, TypeInv, Busy
  <2>. QED  BY <2>5, <2>6 DEF OwnerInv
<1>22. ASSUME NEW t \in Teachers, NEW r \in Recordings, RetryRead(t, r) PROVE OwnerInv'
  <2>1. /\ rec[r].status = "failed" /\ UNCHANGED <<rec, worker, janitor>>
        /\ retry' = [retry EXCEPT ![t] = r]
    BY <1>22 DEF RetryRead
  <2>. QED  BY <2>1 DEF OwnerInv, OwnRow, OthersKeepOff, TypeInv, Types
<1>23. ASSUME JanitorDeleteObject PROVE OwnerInv'
  <2>1. UNCHANGED <<rec, worker, retry>> /\ janitor.pc # "idle" /\ janitor'.r = janitor.r
    BY <1>23 DEF JanitorDeleteObject, TypeInv, Types, Janitor
  <2>. QED  BY <2>1 DEF OwnerInv, OwnRow, OthersKeepOff
<1>24. ASSUME JanitorPrune PROVE OwnerInv'
  <2>1. UNCHANGED <<rec, worker, retry>> /\ janitor.pc # "idle" /\ janitor'.r = janitor.r
    BY <1>24 DEF JanitorPrune, TypeInv, Types, Janitor
  <2>. QED  BY <2>1 DEF OwnerInv, OwnRow, OthersKeepOff
<1>25. ASSUME JanitorDeleteRow PROVE OwnerInv'
  <2>1. /\ janitor'.pc = "idle" /\ janitor.r \in Recordings
        /\ retry' = [t \in Teachers |-> IF retry[t] = janitor.r THEN NoRecording ELSE retry[t]]
    BY <1>25 DEF JanitorDeleteRow, IdleJanitor, TypeInv, Busy
  <2>2. \A q \in Recordings \ {janitor.r} : rec'[q] = rec[q]
    BY <1>25 DEF JanitorDeleteRow, TypeInv, Types
  <2>3. \A w \in Workers : /\ worker'[w].r = worker[w].r /\ worker'[w].pc = worker[w].pc
                           /\ worker'[w].row => worker[w].row /\ worker[w].r # janitor.r
    <3>. SUFFICES ASSUME NEW w \in Workers
                  PROVE  /\ worker'[w].r = worker[w].r /\ worker'[w].pc = worker[w].pc
                         /\ worker'[w].row => worker[w].row /\ worker[w].r # janitor.r
      OBVIOUS
    <3>1. /\ worker'[w] = IF worker[w].r = janitor.r THEN [worker[w] EXCEPT !.row = FALSE]
                          ELSE worker[w]
          /\ worker[w] \in Worker
      BY <1>25, Fields DEF JanitorDeleteRow
    <3>. QED  BY <3>1 DEF Worker
  <2>4. OwnRow'
    BY <2>2, <2>3 DEF OwnerInv, OwnRow, TypeInv, Busy
  <2>5. OthersKeepOff'
    BY <2>1, <2>2 DEF OwnerInv, OthersKeepOff, TypeInv, Types
  <2>. QED  BY <2>4, <2>5 DEF OwnerInv
<1>26. ASSUME JanitorStops PROVE OwnerInv'
  BY <1>26 DEF JanitorStops, IdleJanitor, OwnerInv, OwnRow, OthersKeepOff
<1>27. CASE UNCHANGED vars
  BY <1>27 DEF vars, OwnerInv, OwnRow, OthersKeepOff
<1>. QED  BY <1>1, <1>2, <1>3, <1>4, <1>5, <1>6, <1>7, <1>8, <1>9, <1>10, <1>11, <1>12, <1>13,
             <1>14, <1>15, <1>16, <1>17, <1>18, <1>19, <1>20, <1>21, <1>22, <1>23, <1>24, <1>25,
             <1>26, <1>27 DEF Next, Pipeline

LEMMA OwnerInvariant == ASSUME OneRetry PROVE Spec => []OwnerInv
<1>1. Init => OwnerInv
  BY OwnerInvInit
<1>2. TypeInv /\ TypeInv' /\ OwnerInv /\ [Next]_vars => OwnerInv'
  BY OwnerStep
<1>. QED  BY <1>1, <1>2, TypeInvariant, PTL DEF Spec

\* A write of a worker with its row finds it in progress, hence not available.
LEMMA StaysStep ==
  TypeInv /\ OwnerInv /\ [Next]_vars =>
    \A r \in Recordings : rec[r].status = "available" /\ ~rec[r].old =>
      rec'[r].status = "available"
<1>. SUFFICES ASSUME TypeInv, OwnerInv, [Next]_vars, NEW r \in Recordings,
                     rec[r].status = "available", ~rec[r].old
              PROVE  rec'[r].status = "available"
  OBVIOUS
<1>1. ASSUME NEW w \in Workers PROVE ~(worker[w].row /\ worker[w].r = r)
  BY DEF OwnerInv, OwnRow, InProgress
<1>2. ASSUME NEW w \in Workers, NEW s \in Statuses, SetStatus(w, s), worker[w].pc # "idle"
      PROVE  rec'[r] = rec[r]
  BY <1>1, <1>2, SetStatusFields
<1>3. ASSUME NEW w \in Workers, Pipeline(w) \/ ReclaimFails(w) \/ Crash(w) PROVE rec'[r] = rec[r]
  <2>1. CASE SetUploading(w) \/ MarkFailed(w) \/ Reclaim(w)
    BY <1>2, <2>1 DEF SetUploading, MarkFailed, Reclaim, FailRow, Statuses
  <2>2. CASE Finalize(w) \/ CommitUncertain(w)
    BY <1>1, <2>2, CommitsFields DEF Finalize, CommitUncertain
  <2>3. CASE \/ Preflight(w) \/ Remux(w) \/ Reserve(w) \/ Put(w) \/ StepFails(w)
             \/ FinalizeFails(w) \/ Discard(w) \/ ReclaimFails(w) \/ Crash(w)
    BY <2>3 DEF Preflight, Remux, Reserve, Put, StepFails, FinalizeFails, Discard,
                ReclaimFails, Crash
  <2>. QED  BY <1>3, <2>1, <2>2, <2>3 DEF Pipeline
<1>4. ASSUME NEW w \in Workers, NEW q \in Recordings, Claim(w, q) \/ ListStuck(w, q)
      PROVE  rec'[r] = rec[r]
  <2>1. CASE Claim(w, q)
    BY <2>1 DEF Claim, TypeInv, Types
  <2>. QED  BY <1>4, <2>1 DEF ListStuck
<1>5. ASSUME NEW q \in Recordings, Stuck(q) \/ Expire(q) \/ Age(q) \/ JanitorList(q)
      PROVE  rec'[r].status = "available"
  <2>1. CASE Stuck(q)
    BY <2>1, StuckFields DEF Stuck
  <2>2. CASE Age(q)
    BY <2>2, AgeFields DEF Age
  <2>3. CASE Expire(q) \/ JanitorList(q)
    BY <2>3 DEF Expire, JanitorList
  <2>. QED  BY <1>5, <2>1, <2>2, <2>3
<1>6. ASSUME NEW t \in Teachers, RetryWrite(t) \/ \E q \in Recordings : RetryRead(t, q)
      PROVE  rec'[r] = rec[r]
  <2>1. retry[t] # NoRecording => retry[t] # r
    BY DEF OwnerInv, OthersKeepOff
  <2>2. CASE RetryWrite(t)
    BY <2>1, <2>2 DEF RetryWrite, TypeInv, Types
  <2>. QED  BY <1>6, <2>2 DEF RetryRead
<1>7. ASSUME JanitorDeleteObject \/ JanitorPrune \/ JanitorDeleteRow \/ JanitorStops
      PROVE  rec'[r] = rec[r]
  <2>1. janitor.pc # "idle" => janitor.r # r
    BY DEF OwnerInv, OthersKeepOff
  <2>2. CASE JanitorDeleteRow
    BY <2>1, <2>2 DEF JanitorDeleteRow, TypeInv, Types
  <2>. QED  BY <1>7, <2>2 DEF JanitorDeleteObject, JanitorPrune, JanitorStops
<1>8. CASE UNCHANGED vars
  BY <1>8 DEF vars
<1>. QED  BY <1>3, <1>4, <1>5, <1>6, <1>7, <1>8 DEF Next

\* With timely pipelines and one retry at a time, an available recording is not
\* downgraded before its retention has passed, whatever fails, whoever dies and
\* however late a worker or the janitor writes.
THEOREM Stays == ASSUME OneRetry PROVE Spec => AvailableStays
<1>1. TypeInv /\ OwnerInv /\ [Next]_vars =>
        [\A r \in Recordings : rec[r].status = "available" /\ ~rec[r].old =>
           rec'[r].status = "available"]_vars
  BY StaysStep
<1>. QED  BY <1>1, TypeInvariant, OwnerInvariant, PTL DEF Spec, AvailableStays
===============================================================================
