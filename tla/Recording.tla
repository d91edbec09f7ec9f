------------------------------- MODULE Recording -------------------------------
(***************************************************************************)
(* The recordings of ended classes: the sweep of each replica claims them, *)
(* remuxes and uploads them and makes them available within the storage    *)
(* of the plan; a stuck one is reclaimed as failed, a teacher may retry a  *)
(* failed one, and the retention janitor deletes the old ones.             *)
(*                                                                         *)
(* Each action is one database transaction, one call of the object store   *)
(* or one external command. All the sessions have ended, ran for at least  *)
(* five seconds and are to be recorded, so each is a candidate until it    *)
(* has a row that is not pending.                                          *)
(***************************************************************************)
EXTENDS Integers, FiniteSets, Functions

CONSTANTS
  Recordings,    \* one for each ended session of the tenant
  NoRecording,   \* nobody works on a recording
  Workers,       \* the recording sweeps, one per replica
  Teachers,      \* callers of the retry endpoint
  Size,          \* bytes of the remuxed file
  StorageLimit,  \* plans.included_recording_gb, < 0: none
  Timely,        \* a pipeline takes less than 15 minutes, and no replica is
                 \* overtaken between listing and marking a stuck recording
  MaxAssets      \* bound on the uploads

ASSUME RecordingAssumption ==
  /\ IsFiniteSet(Recordings) /\ Size \in [Recordings -> Nat \ {0}]
  /\ StorageLimit \in Int /\ MaxAssets \in Nat
  /\ Timely \in BOOLEAN
  /\ NoRecording \notin Recordings

VARIABLES
  rec,       \* the recordings table: at most one row for each session
  fileAsset, \* file_assets.status
  objects,   \* what the object store holds
  reserved,  \* recordings with an unexpired row in recording_storage_reservations
  worker,    \* where each sweep stands
  retry,     \* the recording a retry request has read as failed
  janitor,   \* where the retention janitor stands
  leaked     \* history: objects whose deletion failed or was never reached

vars == <<rec, fileAsset, objects, reserved, worker, retry, janitor, leaked>>
store == <<fileAsset, objects, reserved>>

Assets == 1..MaxAssets
NoAsset == 0
Statuses == {"none", "pending", "remuxing", "uploading", "available", "failed"}
InProgress == {"remuxing", "uploading"}
Row == [status : Statuses, asset : Assets \cup {NoAsset},
        old : BOOLEAN,     \* past its tenant's retention
        stuck : BOOLEAN]   \* unchanged for 15 minutes
NoRow == [status |-> "none", asset |-> NoAsset, old |-> FALSE, stuck |-> FALSE]

\* A sweep between two candidates, and the janitor between two recordings.
IdleWorker == [pc |-> "idle", r |-> NoRecording, asset |-> NoAsset, row |-> FALSE]
IdleJanitor == [pc |-> "idle", r |-> NoRecording, asset |-> NoAsset]

Init ==
  /\ rec = [r \in Recordings |-> NoRow]
  /\ fileAsset = [a \in Assets |-> "none"]
  /\ objects = {} /\ reserved = {} /\ leaked = {}
  /\ worker = [w \in Workers |-> IdleWorker]
  /\ retry = [t \in Teachers |-> NoRecording]
  /\ janitor = IdleJanitor

------------------------------------------------------------------------------
(* Storage (db/usage_limits.rs), each use of it under the tenant lock.     *)

Stored == {r \in Recordings : /\ rec[r].asset # NoAsset
                              /\ fileAsset[rec[r].asset] = "available"}
Used(except) ==
  SumFunctionOnSet(Size, Stored) + SumFunctionOnSet(Size, reserved \ except)

LimitReached(except, bytes) ==
  StorageLimit >= 0 /\ bytes > StorageLimit - Used(except)

\* The lease of an hour runs out.
Expire(r) ==
  /\ r \in reserved
  /\ reserved' = reserved \ {r}
  /\ UNCHANGED <<rec, fileAsset, objects, worker, retry, janitor, leaked>>

------------------------------------------------------------------------------
(* process_one_session.                                                    *)

Goto(w, pc) == worker' = [worker EXCEPT ![w].pc = pc]
Finish(w) == worker' = [worker EXCEPT ![w] = IdleWorker]

\* An UPDATE ... WHERE id of the row the worker claimed; it may be gone.
SetStatus(w, status) ==
  rec' = IF worker[w].row
         THEN [rec EXCEPT ![worker[w].r] = [@ EXCEPT !.status = status, !.stuck = FALSE]]
         ELSE rec

\* claim_for_processing: the row is inserted unless there is one, and only a
\* pending one is taken.
Claim(w, r) ==
  /\ worker[w].pc = "idle"
  /\ rec[r].status \in {"none", "pending"}
  /\ rec' = [rec EXCEPT ![r] = [@ EXCEPT !.status = "remuxing", !.stuck = FALSE]]
  /\ worker' = [worker EXCEPT ![w] = [pc |-> "preflight", r |-> r, asset |-> NoAsset,
                                      row |-> TRUE]]
  /\ UNCHANGED <<store, retry, janitor, leaked>>

\* No room for even one more byte, or the check fails.
Preflight(w) ==
  /\ worker[w].pc = "preflight"
  /\ Goto(w, IF LimitReached({}, 1) THEN "fail" ELSE "remux")
  /\ UNCHANGED <<rec, store, retry, janitor, leaked>>

\* Segments, ffmpeg and ffprobe.
Remux(w) ==
  /\ worker[w].pc = "remux"
  /\ Goto(w, "status")
  /\ UNCHANGED <<rec, store, retry, janitor, leaked>>

SetUploading(w) ==
  /\ worker[w].pc = "status"
  /\ SetStatus(w, "uploading")
  /\ Goto(w, "reserve")
  /\ UNCHANGED <<store, retry, janitor, leaked>>

\* Exact bytes, before the object is written. A reservation needs its row; an
\* unlimited plan needs no reservation.
Reserve(w) ==
  LET r == worker[w].r
      fits == worker[w].row /\ ~LimitReached({r}, Size[r]) IN
  /\ worker[w].pc = "reserve"
  /\ \/ StorageLimit < 0 /\ Goto(w, "put") /\ UNCHANGED reserved
     \/ StorageLimit >= 0 /\ fits /\ Goto(w, "put") /\ reserved' = reserved \cup {r}
     \/ StorageLimit >= 0 /\ ~fits /\ Goto(w, "fail") /\ UNCHANGED reserved
  /\ UNCHANGED <<rec, fileAsset, objects, retry, janitor, leaked>>

\* Each upload has a key of its own, whichever.
NewAsset == {a \in Assets : /\ fileAsset[a] = "none" /\ a \notin objects
                            /\ a \notin leaked
                            /\ \A w \in Workers : worker[w].asset # a}

Put(w) ==
  /\ worker[w].pc = "put" /\ NewAsset # {}
  /\ LET a == CHOOSE a \in NewAsset : TRUE IN
       /\ objects' = objects \cup {a}
       /\ worker' = [worker EXCEPT ![w] = [@ EXCEPT !.asset = a, !.pc = "finalize"]]
  /\ UNCHANGED <<rec, fileAsset, reserved, retry, janitor, leaked>>

\* Any step before the upload, and the upload, may fail.
StepFails(w) ==
  /\ worker[w].pc \in {"preflight", "remux", "status", "reserve", "put"}
  /\ Goto(w, "fail")
  /\ UNCHANGED <<rec, store, retry, janitor, leaked>>

\* The final transaction: file asset, status and reservation together.
Commits(w) ==
  LET r == worker[w].r a == worker[w].asset IN
  /\ fileAsset' = [fileAsset EXCEPT ![a] = "available"]
  /\ rec' = IF worker[w].row
            THEN [rec EXCEPT ![r] = [@ EXCEPT !.status = "available", !.asset = a,
                                              !.stuck = FALSE]]
            ELSE rec
  /\ reserved' = IF worker[w].row THEN reserved \ {r} ELSE reserved
  /\ UNCHANGED objects

RoomToFinalize(w) == ~LimitReached({worker[w].r}, Size[worker[w].r])

\* Mutant: the plan's limit is not tested again.
FinalizeUnchecked(w) ==
  /\ worker[w].pc = "finalize"
  /\ Commits(w)
  /\ Finish(w)
  /\ UNCHANGED <<retry, janitor, leaked>>

Finalize(w) ==
  /\ worker[w].pc = "finalize" /\ RoomToFinalize(w)
  /\ Commits(w)
  /\ Finish(w)
  /\ UNCHANGED <<retry, janitor, leaked>>

\* Mutant: a lost connection is taken for a failure.
CommitUncertainFails(w) ==
  /\ worker[w].pc = "finalize" /\ RoomToFinalize(w)
  /\ Commits(w)
  /\ Goto(w, "discard")
  /\ UNCHANGED <<retry, janitor, leaked>>

\* The connection is lost during the COMMIT: it happened or it did not, and
\* the worker leaves everything as it is.
CommitUncertain(w) ==
  /\ worker[w].pc = "finalize" /\ RoomToFinalize(w)
  /\ \/ Commits(w) /\ UNCHANGED leaked
     \/ leaked' = leaked \cup {worker[w].asset} /\ UNCHANGED <<rec, store>>
  /\ Finish(w)
  /\ UNCHANGED <<retry, janitor>>

\* The limit is reached after all, or a statement fails.
FinalizeFails(w) ==
  /\ worker[w].pc = "finalize"
  /\ Goto(w, "discard")
  /\ UNCHANGED <<rec, store, retry, janitor, leaked>>

\* Mutant: the object of a failed recording stays.
DiscardNothing(w) ==
  /\ worker[w].pc = "discard"
  /\ worker' = [worker EXCEPT ![w] = [@ EXCEPT !.asset = NoAsset, !.pc = "fail"]]
  /\ UNCHANGED <<rec, store, retry, janitor, leaked>>

\* The upload is deleted again, best effort.
Discard(w) ==
  LET a == worker[w].asset IN
  /\ worker[w].pc = "discard"
  /\ \/ objects' = objects \ {a} /\ UNCHANGED leaked
     \/ leaked' = leaked \cup {a} /\ UNCHANGED objects
  /\ worker' = [worker EXCEPT ![w] = [@ EXCEPT !.asset = NoAsset, !.pc = "fail"]]
  /\ UNCHANGED <<rec, fileAsset, reserved, retry, janitor>>

\* mark_failed releases the reservation in a transaction of its own, which may
\* fail. (It may also come late: Expire takes a reservation away at any time.)
FailRow(w) ==
  /\ SetStatus(w, "failed")
  /\ reserved' \in {reserved, IF worker[w].row THEN reserved \ {worker[w].r} ELSE reserved}

\* Best effort.
MarkFailed(w) ==
  /\ worker[w].pc = "fail"
  /\ FailRow(w) \/ UNCHANGED <<rec, reserved>>
  /\ Finish(w)
  /\ UNCHANGED <<fileAsset, objects, retry, janitor, leaked>>

\* The replica dies and is restarted.
Crash(w) ==
  /\ worker[w].pc # "idle"
  /\ leaked' = IF worker[w].asset # NoAsset THEN leaked \cup {worker[w].asset} ELSE leaked
  /\ Finish(w)
  /\ UNCHANGED <<rec, store, retry, janitor>>

------------------------------------------------------------------------------
(* Stuck recordings.                                                       *)

Stuck(r) ==
  /\ rec[r].status \in InProgress /\ ~rec[r].stuck
  /\ Timely => \A w \in Workers : worker[w].r # r
  /\ rec' = [rec EXCEPT ![r].stuck = TRUE]
  /\ UNCHANGED <<store, worker, retry, janitor, leaked>>

\* Mutant: an upload that hangs is not looked for.
ListStuckRemuxing(w, r) ==
  /\ worker[w].pc = "idle"
  /\ rec[r].status = "remuxing" /\ rec[r].stuck
  /\ worker' = [worker EXCEPT ![w] = [pc |-> "reclaim", r |-> r, asset |-> NoAsset,
                                      row |-> TRUE]]
  /\ UNCHANGED <<rec, store, retry, janitor, leaked>>

\* A round of the sweep begins with the recordings stuck for 15 minutes ...
ListStuck(w, r) ==
  /\ worker[w].pc = "idle"
  /\ rec[r].status \in InProgress /\ rec[r].stuck
  /\ Timely => \A o \in Workers : worker[o].r # r
  /\ worker' = [worker EXCEPT ![w] = [pc |-> "reclaim", r |-> r, asset |-> NoAsset,
                                      row |-> TRUE]]
  /\ UNCHANGED <<rec, store, retry, janitor, leaked>>

\* ... and marks them failed, whatever they have become ...
Reclaim(w) ==
  /\ worker[w].pc = "reclaim"
  /\ FailRow(w)
  /\ Finish(w)
  /\ UNCHANGED <<fileAsset, objects, retry, janitor, leaked>>

\* ... or fails to, and tries again a round later.
ReclaimFails(w) ==
  /\ worker[w].pc = "reclaim"
  /\ Finish(w)
  /\ UNCHANGED <<rec, store, retry, janitor, leaked>>

------------------------------------------------------------------------------
(* POST /v1/sessions/{id}/recording/retry: two transactions.               *)

RetryRead(t, r) ==
  /\ retry[t] = NoRecording
  /\ rec[r].status = "failed"
  /\ retry' = [retry EXCEPT ![t] = r]
  /\ UNCHANGED <<rec, store, worker, janitor, leaked>>

RetryWrite(t) ==
  /\ retry[t] # NoRecording
  /\ \/ /\ ~LimitReached({}, 1) /\ rec[retry[t]].status # "none"
        /\ rec' = [rec EXCEPT ![retry[t]] = [@ EXCEPT !.status = "pending", !.stuck = FALSE]]
     \/ UNCHANGED rec
  /\ retry' = [retry EXCEPT ![t] = NoRecording]
  /\ UNCHANGED <<store, worker, janitor, leaked>>

------------------------------------------------------------------------------
(* run_retention_janitor.                                                  *)

Age(r) ==
  /\ rec[r].status # "none" /\ ~rec[r].old
  /\ rec' = [rec EXCEPT ![r].old = TRUE]
  /\ UNCHANGED <<store, worker, retry, janitor, leaked>>

\* The recording is listed with the file asset it has by now.
JanitorList(r) ==
  /\ janitor.pc = "idle" /\ rec[r].old
  /\ janitor' = [pc |-> IF rec[r].asset = NoAsset THEN "row" ELSE "object",
                 r |-> r, asset |-> rec[r].asset]
  /\ UNCHANGED <<rec, store, worker, retry, leaked>>

\* Best effort.
JanitorDeleteObject ==
  /\ janitor.pc = "object"
  /\ \/ objects' = objects \ {janitor.asset} /\ UNCHANGED leaked
     \/ leaked' = leaked \cup {janitor.asset} /\ UNCHANGED objects
  /\ janitor' = [janitor EXCEPT !.pc = "prune"]
  /\ UNCHANGED <<rec, fileAsset, reserved, worker, retry>>

\* Best effort as well.
JanitorPrune ==
  /\ janitor.pc = "prune"
  /\ fileAsset' \in {fileAsset, [fileAsset EXCEPT ![janitor.asset] = "pruned"]}
  /\ janitor' = [janitor EXCEPT !.pc = "row"]
  /\ UNCHANGED <<rec, objects, reserved, worker, retry, leaked>>

\* The row goes, its reservation with it; whoever holds its id updates nothing.
JanitorDeleteRow ==
  LET r == janitor.r IN
  /\ janitor.pc = "row"
  /\ rec' = [rec EXCEPT ![r] = NoRow]
  /\ reserved' = reserved \ {r}
  /\ worker' = [w \in Workers |-> IF worker[w].r = r THEN [worker[w] EXCEPT !.row = FALSE]
                                  ELSE worker[w]]
  /\ retry' = [t \in Teachers |-> IF retry[t] = r THEN NoRecording ELSE retry[t]]
  /\ janitor' = IdleJanitor
  /\ UNCHANGED <<fileAsset, objects, leaked>>

\* The pass ends early: a crash, or a connection that cannot be had.
JanitorStops ==
  /\ janitor.pc # "idle"
  /\ janitor' = IdleJanitor
  /\ UNCHANGED <<rec, store, worker, retry, leaked>>

Pipeline(w) ==
  \/ Preflight(w) \/ Remux(w) \/ SetUploading(w) \/ Reserve(w) \/ Put(w) \/ StepFails(w)
  \/ Finalize(w) \/ CommitUncertain(w) \/ FinalizeFails(w) \/ Discard(w)
  \/ MarkFailed(w) \/ Reclaim(w)

Next ==
  \/ \E w \in Workers : Pipeline(w) \/ ReclaimFails(w) \/ Crash(w)
  \/ \E w \in Workers, r \in Recordings : Claim(w, r) \/ ListStuck(w, r)
  \/ \E r \in Recordings : Stuck(r) \/ Expire(r) \/ Age(r) \/ JanitorList(r)
  \/ \E t \in Teachers : RetryWrite(t) \/ \E r \in Recordings : RetryRead(t, r)
  \/ JanitorDeleteObject \/ JanitorPrune \/ JanitorDeleteRow \/ JanitorStops

Spec == Init /\ [][Next]_vars

\* A sweep goes on until its replica dies, and replicas do not die for ever;
\* every minute it lists anew, and 15 minutes pass. The janitor, the teachers
\* and the leases may take as long as they like.
Fairness ==
  /\ \A w \in Workers : WF_vars(Pipeline(w)) /\ SF_vars(Reclaim(w))
  /\ \A r \in Recordings :
       /\ WF_vars(Stuck(r))
       /\ SF_vars(\E w \in Workers : Claim(w, r))
       /\ SF_vars(\E w \in Workers : ListStuck(w, r))

FairSpec == Spec /\ Fairness

------------------------------------------------------------------------------
Working == {"preflight", "remux", "status", "reserve", "put", "finalize", "discard", "fail"}

TypeOK ==
  /\ rec \in [Recordings -> Row]
  /\ fileAsset \in [Assets -> {"none", "available", "pruned"}]
  /\ objects \subseteq Assets /\ leaked \subseteq Assets /\ reserved \subseteq Recordings
  /\ worker \in [Workers -> [pc : Working \cup {"idle", "reclaim"},
                             r : Recordings \cup {NoRecording},
                             asset : Assets \cup {NoAsset}, row : BOOLEAN]]
  /\ retry \in [Teachers -> Recordings \cup {NoRecording}]
  /\ janitor \in [pc : {"idle", "object", "prune", "row"},
                  r : Recordings \cup {NoRecording}, asset : Assets \cup {NoAsset}]

\* What is stored and what is reserved never exceeds the plan, although
\* reservations expire under a running upload and replicas work in parallel.
StorageWithinLimit == StorageLimit >= 0 => Used({}) <= StorageLimit

\* An available recording can be played back, whatever fails and wherever a
\* replica dies, until its retention has passed.
AvailableIsPlayable ==
  \A r \in Recordings : rec[r].status = "available" /\ ~rec[r].old =>
    fileAsset[rec[r].asset] = "available" /\ rec[r].asset \in objects

\* With timely pipelines and one retry at a time, an available recording is
\* never downgraded or processed again before its retention has passed.
AvailableStays ==
  [][\A r \in Recordings : rec[r].status = "available" /\ ~rec[r].old =>
       rec'[r].status = "available"]_vars

\* Every object is tracked by a file asset or by the worker that uploaded it,
\* but for those whose deletion failed or that a dead replica left behind.
ObjectsAreTracked ==
  objects \subseteq leaked \cup {a \in Assets : fileAsset[a] = "available"}
                           \cup {worker[w].asset : w \in Workers}

\* A recording does not stay in progress: it becomes available or is marked
\* failed for the teacher to see, also when the replica working on it died.
EverySessionSettles ==
  \A r \in Recordings :
    rec[r].status \in InProgress ~> rec[r].status \notin InProgress

================================================================================
