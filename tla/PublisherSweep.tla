---------------------------- MODULE PublisherSweep ----------------------------
(***************************************************************************)
(* The sweep that reclaims a live class whose publisher is gone: once a    *)
(* minute every backend replica lists the live sessions, asks the media    *)
(* server whether a publisher is on the path, and refreshes, seeds or acts *)
(* on publisher_last_seen_at, each in a transaction of its own.            *)
(*                                                                         *)
(* One session, any number of replicas. Timestamps are kept as ages in     *)
(* minutes, saturated at Cap: the code only asks whether one is older than *)
(* Grace, so nothing is lost and the clock needs no bound.                 *)
(***************************************************************************)
EXTENDS Integers

CONSTANTS
  Replicas,  \* backend processes running the sweep
  Grace,     \* PUBLISHER_GONE_GRACE_MINUTES
  Faults     \* which of "probe_error", "db_error", "crash" and "slow" may happen

ASSUME SweepAssumption ==
  /\ Grace \in Nat \ {0}
  /\ Faults \subseteq {"probe_error", "db_error", "crash", "slow"}

VARIABLES
  status,       \* live_sessions.status
  startAge,     \* age of actual_started_at
  endAge,       \* age of actual_ended_at
  seenAge,      \* age of publisher_last_seen_at
  credential,   \* an unspent publish nonce is stored
  onAir,        \* the media server has a publisher on the path
  sweep,        \* where each replica's sweep stands
  due,          \* the replica has not yet swept in this minute
  inactiveAge,  \* history: age of the first probe since the last Active
                \* one that answered Inactive
  steady        \* history: no probe or statement failed, no replica died and
                \* every round was done within its minute, so far

sweepVars == <<status, startAge, endAge, seenAge, credential, onAir, sweep, due,
          inactiveAge, steady>>
class == <<status, startAge, endAge, credential>>

Null == -1
Cap == Grace + 1
Ages == {Null} \cup 0..Cap
Older(age) == IF age = Null THEN Null ELSE IF age < Cap THEN age + 1 ELSE Cap

SweepInit ==
  /\ status = "scheduled"
  /\ startAge = Null /\ endAge = Null /\ seenAge = Null
  /\ credential = FALSE /\ onAir = FALSE
  /\ sweep = [w \in Replicas |-> "idle"]
  /\ due = [w \in Replicas |-> TRUE]
  /\ inactiveAge = Null /\ steady = TRUE

------------------------------------------------------------------------------
(* The class and its publisher.                                            *)

\* go-live, again and again while the class runs: each call stores a fresh
\* credential. It does not touch publisher_last_seen_at.
GoLive ==
  /\ status \in {"scheduled", "live"}
  /\ status' = "live"
  /\ startAge' = IF startAge = Null THEN 0 ELSE startAge
  /\ credential' = TRUE
  /\ UNCHANGED <<endAge, seenAge, onAir, sweep, due, inactiveAge, steady>>

\* The publisher connects: the auth callback spends the credential.
Publish ==
  /\ credential /\ status \in {"scheduled", "live"}
  /\ credential' = FALSE
  /\ onAir' = TRUE
  /\ UNCHANGED <<status, startAge, endAge, seenAge, sweep, due, inactiveAge, steady>>

Drop ==
  /\ onAir
  /\ onAir' = FALSE
  /\ UNCHANGED <<class, seenAge, sweep, due, inactiveAge, steady>>

\* POST /end-class keeps an end time that is already there.
EndClass ==
  /\ status \in {"live", "ended"}
  /\ status' = "ended"
  /\ endAge' = IF endAge = Null THEN 0 ELSE endAge
  /\ credential' = FALSE
  /\ UNCHANGED <<startAge, seenAge, onAir, sweep, due, inactiveAge, steady>>

------------------------------------------------------------------------------
(* One round of a replica's sweep.                                         *)

GoOn(w, pc) == sweep' = [sweep EXCEPT ![w] = pc]

\* The interval ticks; the session is a candidate if it is live.
List(w) ==
  /\ sweep[w] = "idle" /\ due[w]
  /\ due' = [due EXCEPT ![w] = FALSE]
  /\ GoOn(w, IF status = "live" THEN "probe" ELSE "idle")
  /\ UNCHANGED <<class, seenAge, onAir, inactiveAge, steady>>

\* path_status answers Active ...
ProbeActive(w) ==
  /\ sweep[w] = "probe" /\ onAir
  /\ GoOn(w, "mark")
  /\ inactiveAge' = Null
  /\ UNCHANGED <<class, seenAge, onAir, due, steady>>

\* ... or Inactive ...
ProbeInactive(w) ==
  /\ sweep[w] = "probe" /\ ~onAir
  /\ GoOn(w, "seed")
  /\ inactiveAge' = IF inactiveAge = Null THEN 0 ELSE inactiveAge
  /\ UNCHANGED <<class, seenAge, onAir, due, steady>>

\* ... or fails, which is inconclusive: the absence clock is left alone.
ProbeFails(w) ==
  /\ "probe_error" \in Faults
  /\ sweep[w] = "probe"
  /\ GoOn(w, "idle")
  /\ UNCHANGED <<class, seenAge, onAir, due, inactiveAge>>
  /\ steady' = FALSE

\* Mutant: a present publisher does not restart the clock.
MarkNothing(w) ==
  /\ sweep[w] = "mark"
  /\ GoOn(w, "idle")
  /\ UNCHANGED <<class, seenAge, onAir, due, inactiveAge, steady>>

\* mark_publisher_seen, whatever the status has become.
MarkSeen(w) ==
  /\ sweep[w] = "mark"
  /\ seenAge' = 0
  /\ GoOn(w, "idle")
  /\ UNCHANGED <<class, onAir, due, inactiveAge, steady>>

\* Mutant: only a class that has been on air gets a clock.
SeedNothing(w) ==
  /\ sweep[w] = "seed"
  /\ GoOn(w, "end")
  /\ UNCHANGED <<class, seenAge, onAir, due, inactiveAge, steady>>

\* seed_publisher_absence: only a NULL clock is set, to the start of the class.
Seed(w) ==
  /\ sweep[w] = "seed"
  /\ seenAge' = IF seenAge # Null THEN seenAge
                ELSE IF startAge # Null THEN startAge ELSE 0
  /\ GoOn(w, "end")
  /\ UNCHANGED <<class, onAir, due, inactiveAge, steady>>

PublisherGone == status = "live" /\ seenAge > Grace

\* end_if_publisher_gone tests the row, and only the row, once more.
EndGone(w) ==
  /\ sweep[w] = "end" /\ PublisherGone
  /\ status' = "ended"
  /\ endAge' = 0
  /\ credential' = FALSE
  /\ GoOn(w, "idle")
  /\ UNCHANGED <<startAge, seenAge, onAir, due, inactiveAge, steady>>

\* Still inside the window, or somebody else ended the class.
KeepLive(w) ==
  /\ sweep[w] = "end" /\ ~PublisherGone
  /\ GoOn(w, "idle")
  /\ UNCHANGED <<class, seenAge, onAir, due, inactiveAge, steady>>

\* A statement fails and the sweep goes on to the next candidate.
DbError(w) ==
  /\ "db_error" \in Faults
  /\ sweep[w] \in {"mark", "seed", "end"}
  /\ GoOn(w, "idle")
  /\ UNCHANGED <<class, seenAge, onAir, due, inactiveAge>>
  /\ steady' = FALSE

\* The replica dies, losing its round, and comes back.
Crash(w) ==
  /\ "crash" \in Faults
  /\ sweep[w] # "down"
  /\ GoOn(w, "down")
  /\ UNCHANGED <<class, seenAge, onAir, due, inactiveAge>>
  /\ steady' = FALSE

Restart(w) ==
  /\ sweep[w] = "down"
  /\ GoOn(w, "idle")
  /\ due' = [due EXCEPT ![w] = TRUE]
  /\ UNCHANGED <<class, seenAge, onAir, inactiveAge, steady>>

------------------------------------------------------------------------------
\* A minute passes. Unless rounds may be slow (the candidates are probed one
\* after the other, and a missed tick is skipped), the next minute does not
\* begin before every running replica has finished its round.
RoundsDone == \A w \in Replicas : sweep[w] = "down" \/ (sweep[w] = "idle" /\ ~due[w])

Tick ==
  /\ RoundsDone \/ "slow" \in Faults
  /\ steady' = (steady /\ RoundsDone)
  /\ startAge' = Older(startAge) /\ endAge' = Older(endAge)
  /\ seenAge' = Older(seenAge)
  /\ inactiveAge' = Older(inactiveAge)
  /\ due' = [w \in Replicas |-> TRUE]
  /\ UNCHANGED <<status, credential, onAir, sweep>>

Sweep(w) ==
  \/ List(w) \/ ProbeActive(w) \/ ProbeInactive(w) \/ MarkSeen(w) \/ Seed(w)
  \/ EndGone(w) \/ KeepLive(w)

SweepNext ==
  \/ GoLive \/ Publish \/ Drop \/ EndClass \/ Tick
  \/ \E w \in Replicas : \/ Sweep(w) \/ ProbeFails(w) \/ DbError(w)
                         \/ Crash(w) \/ Restart(w)

SweepSpec == SweepInit /\ [][SweepNext]_sweepVars

\* Time passes, a running sweep goes on and a dead replica is restarted. A
\* probe that keeps being repeated is in the end answered, and the statement
\* after it executed: strong fairness, as failures are not permanent.
SweepFairness ==
  /\ SF_sweepVars(Tick)
  /\ \A w \in Replicas :
       /\ WF_sweepVars(Restart(w)) /\ SF_sweepVars(List(w))
       /\ SF_sweepVars(ProbeActive(w) \/ ProbeInactive(w))
       /\ SF_sweepVars(MarkSeen(w)) /\ SF_sweepVars(Seed(w))
       /\ SF_sweepVars(EndGone(w) \/ KeepLive(w))

FairSweepSpec == SweepSpec /\ SweepFairness

------------------------------------------------------------------------------
SweepTypeOK ==
  /\ status \in {"scheduled", "live", "ended"}
  /\ {startAge, endAge, seenAge, inactiveAge} \subseteq Ages
  /\ credential \in BOOLEAN /\ onAir \in BOOLEAN
  /\ sweep \in [Replicas -> {"idle", "probe", "mark", "seed", "end", "down"}]
  /\ due \in [Replicas -> BOOLEAN] /\ steady \in BOOLEAN

SweepEnds == \E w \in Replicas : sweep[w] = "end" /\ status = "live" /\ status' = "ended"
                                 /\ sweep'[w] = "idle"

\* The confirmation window is sampled: when the sweep ends a class, every
\* probe of the last Grace minutes answered Inactive, the first of them that
\* long ago, provided that nothing failed and no round was slow. A blip that a
\* probe did not see, or an old clock, ends nothing.
AbsenceObservedForWindow == [][steady /\ SweepEnds => inactiveAge >= Grace]_sweepVars

\* A class whose publisher is gone for good is reclaimed, also one that never
\* got on air, across crashes and failed probes.
GoneIsReclaimed == (status = "live" /\ []~onAir) ~> status = "ended"

==============================================================================
