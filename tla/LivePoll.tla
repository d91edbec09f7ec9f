------------------------------- MODULE LivePoll -------------------------------
(***************************************************************************)
(* The in-class polls of one live room. The poll in progress lives in two  *)
(* Redis keys, its tally and the set of its voters; a row of the table     *)
(* live_session_polls keeps it for review after class; and every client    *)
(* shows what the room's channel last told it. A socket works off one      *)
(* command at a time, one Redis command, statement or publication per      *)
(* action, while other sockets do the same.                                *)
(*                                                                         *)
(* Publications of a channel reach all its subscribers in one order, so    *)
(* one screen stands for every client that was there from the beginning;   *)
(* a client that joins later is not told of a poll in progress. Validation *)
(* of texts, the rate limit and refusals that change nothing are left out. *)
(***************************************************************************)
EXTENDS Integers

CONSTANTS
  Sockets,  \* connections to the room
  Staff,    \* those of teachers and admins, who start and end polls
  Users,
  UserOf,   \* the user of each connection; one user may have several
  Polls,    \* poll ids
  Options,  \* the choices of a poll
  NoPoll,
  MaxFaults \* bound on faults

ASSUME LivePollAssumption ==
  /\ Staff \subseteq Sockets
  /\ UserOf \in [Sockets -> Users]
  /\ NoPoll \notin Polls
  /\ MaxFaults \in Nat

VARIABLES
  state,    \* the key of the poll in progress
  voters,   \* the voter set of each poll
  rows,     \* live_session_polls
  sock,     \* where the command of each socket stands, and its variables
  closer,   \* where end-class stands in clearing the room, and what it read
  minted,   \* poll ids in use
  known,    \* polls that were announced
  screen,   \* what the clients show
  tally,    \* history: votes counted, by poll and option
  times,    \* history: how often each user was counted in each poll
  dropped,  \* history: polls whose voters were dropped ahead of the state
  crowded,  \* history: two staff commands were under way at once
  faults    \* how often a command failed, or a key expired, so far

vars == <<state, voters, rows, sock, closer, minted, known, screen, tally, times,
          dropped, crowded, faults>>
counting == <<tally, times>>

Zero == [o \in Options |-> 0]
Counts == [Options -> Nat]
SomePoll == Polls \cup {NoPoll}
NoState == [poll |-> NoPoll, counts |-> Zero]
State == [poll : SomePoll, counts : Counts]
Row == [saved : BOOLEAN, ended : BOOLEAN, counts : Counts]
Screen == [poll : SomePoll, ended : BOOLEAN, counts : Counts]
Idle == [at |-> "idle", poll |-> NoPoll, old |-> NoPoll, counts |-> Zero]
Steps == {"idle", "drop", "set", "insert", "announce", "tally", "results", "delete",
          "close", "ended"}
Command == [at : Steps, poll : SomePoll, old : SomePoll, counts : Counts]

\* The staff commands that are being worked off.
Conducting == {s \in Staff : sock[s].at \notin {"idle", "tally", "results"}}

\* Something goes wrong.
Fault == faults < MaxFaults /\ faults' = faults + 1

Init ==
  /\ state = NoState
  /\ voters = [p \in Polls |-> {}]
  /\ rows = [p \in Polls |-> [saved |-> FALSE, ended |-> FALSE, counts |-> Zero]]
  /\ sock = [s \in Sockets |-> Idle]
  /\ closer = [at |-> "idle", poll |-> NoPoll]
  /\ minted = {} /\ known = {}
  /\ screen = [poll |-> NoPoll, ended |-> FALSE, counts |-> Zero]
  /\ tally = [p \in Polls |-> Zero]
  /\ times = [p \in Polls |-> [u \in Users |-> 0]]
  /\ dropped = {}
  /\ crowded = FALSE /\ faults = 0

Goto(s, at) == sock' = [sock EXCEPT ![s].at = at]
Done(s) == sock' = [sock EXCEPT ![s] = Idle]

\* Poll ids are random and never come again.
Unused(p) == p \notin minted

------------------------------------------------------------------------------
(* StartPoll.                                                              *)

\* poll_start reads the poll it replaces.
StartPoll(s, p) ==
  /\ s \in Staff /\ sock[s] = Idle /\ Unused(p)
  /\ sock' = [sock EXCEPT ![s] = [at |-> "drop", poll |-> p, old |-> state.poll,
                                  counts |-> Zero]]
  /\ minted' = minted \cup {p}
  /\ crowded' = (crowded \/ Conducting # {})
  /\ UNCHANGED <<state, voters, rows, closer, known, screen, counting, dropped, faults>>

\* It drops the voters of that poll, which is still in progress,
DropVoters(s) ==
  /\ sock[s].at = "drop"
  /\ IF sock[s].old = NoPoll
     THEN UNCHANGED <<voters, dropped>>
     ELSE /\ voters' = [voters EXCEPT ![sock[s].old] = {}]
          /\ dropped' = dropped \cup {sock[s].old}
  /\ Goto(s, "set")
  /\ UNCHANGED <<state, rows, closer, known, screen, counting, minted, crowded, faults>>

\* and then replaces the state.
SetState(s) ==
  /\ sock[s].at = "set"
  /\ state' = [poll |-> sock[s].poll, counts |-> Zero]
  /\ Goto(s, "insert")
  /\ UNCHANGED <<voters, rows, closer, known, screen, counting, minted, dropped,
                 crowded, faults>>

\* An error of the SET, which may have been carried out, ends the command.
SetFails(s) ==
  /\ sock[s].at = "set" /\ Fault
  /\ state' \in {state, [poll |-> sock[s].poll, counts |-> Zero]}
  /\ Done(s)
  /\ UNCHANGED <<voters, rows, closer, known, screen, counting, minted, dropped,
                 crowded>>

\* persist_poll_started.
InsertRow(s) ==
  /\ sock[s].at = "insert"
  /\ rows' = [rows EXCEPT ![sock[s].poll] =
                [saved |-> TRUE, ended |-> FALSE, counts |-> Zero]]
  /\ Goto(s, "announce")
  /\ UNCHANGED <<state, voters, closer, known, screen, counting, minted, dropped,
                 crowded, faults>>

\* Mutant: the poll that was replaced is announced.
AnnounceOldPoll(s) ==
  /\ sock[s].at = "announce"
  /\ known' = known \cup {sock[s].old}
  /\ screen' = [poll |-> sock[s].old, ended |-> FALSE, counts |-> Zero]
  /\ Done(s)
  /\ UNCHANGED <<state, voters, rows, closer, counting, minted, dropped, crowded,
                 faults>>

\* PollStarted, which makes the clients show the poll with empty counts.
AnnouncePoll(s) ==
  /\ sock[s].at = "announce"
  /\ known' = known \cup {sock[s].poll}
  /\ screen' = [poll |-> sock[s].poll, ended |-> FALSE, counts |-> Zero]
  /\ Done(s)
  /\ UNCHANGED <<state, voters, rows, closer, counting, minted, dropped, crowded,
                 faults>>

------------------------------------------------------------------------------
(* PollVote.                                                               *)

\* Mutant: the tally is written back from an older copy of it, as when it was
\* read and replaced by separate commands.
CountedFromRow(s, p, o) ==
  [poll |-> p, counts |-> [rows[p].counts EXCEPT ![o] = @ + 1]]

\* The tally is read and written by one script.
Counted(s, p, o) ==
  [poll |-> p, counts |-> [state.counts EXCEPT ![o] = @ + 1]]

\* Mutant: a vote that is sent again is counted again.
VoteUndeduplicated(s, p, o) ==
  /\ sock[s] = Idle /\ p \in known
  /\ state.poll = p /\ times[p][UserOf[s]] < 2
  /\ voters' = [voters EXCEPT ![p] = @ \cup {UserOf[s]}]
  /\ state' = Counted(s, p, o)
  /\ tally' = [tally EXCEPT ![p][o] = @ + 1]
  /\ times' = [times EXCEPT ![p][UserOf[s]] = @ + 1]

\* POLL_VOTE_SCRIPT: in one step, if the poll is the one in progress, the voter
\* is added to the set and, being new there, counted. Otherwise nothing changes.
VoteScript(s, p, o) ==
  /\ sock[s] = Idle /\ p \in known
  /\ state.poll = p /\ UserOf[s] \notin voters[p]
  /\ voters' = [voters EXCEPT ![p] = @ \cup {UserOf[s]}]
  /\ state' = Counted(s, p, o)
  /\ tally' = [tally EXCEPT ![p][o] = @ + 1]
  /\ times' = [times EXCEPT ![p][UserOf[s]] = @ + 1]

Vote(s, p, o) ==
  /\ VoteScript(s, p, o)
  /\ sock' = [sock EXCEPT ![s] = [at |-> "tally", poll |-> p, old |-> NoPoll,
                                  counts |-> state'.counts]]
  /\ UNCHANGED <<rows, closer, minted, known, screen, dropped, crowded, faults>>

\* The script ran, but its answer is lost.
VoteUnanswered(s, p, o) ==
  /\ VoteScript(s, p, o) /\ Fault
  /\ UNCHANGED <<rows, sock, closer, minted, known, screen, dropped, crowded>>

\* persist_poll_counts overwrites the tally of the row, whatever it holds.
SaveCounts(s) ==
  /\ sock[s].at = "tally"
  /\ rows' = IF rows[sock[s].poll].saved
             THEN [rows EXCEPT ![sock[s].poll].counts = sock[s].counts]
             ELSE rows
  /\ Goto(s, "results")
  /\ UNCHANGED <<state, voters, closer, known, screen, counting, minted, dropped,
                 crowded, faults>>

\* Mutant: the clients accept results of any poll.
ShowAnyResults(s) ==
  /\ sock[s].at = "results"
  /\ screen' = [screen EXCEPT !.counts = sock[s].counts]
  /\ Done(s)
  /\ UNCHANGED <<state, voters, rows, closer, known, counting, minted, dropped,
                 crowded, faults>>

\* PollResults; the clients take it if they show that poll and it is not ended.
PublishResults(s) ==
  /\ sock[s].at = "results"
  /\ screen' = IF screen.poll = sock[s].poll /\ ~screen.ended
               THEN [screen EXCEPT !.counts = sock[s].counts]
               ELSE screen
  /\ Done(s)
  /\ UNCHANGED <<state, voters, rows, closer, known, counting, minted, dropped,
                 crowded, faults>>

------------------------------------------------------------------------------
(* EndPoll.                                                                *)

\* poll_end reads the state, and goes on if it is that poll.
EndPoll(s, p) ==
  /\ s \in Staff /\ sock[s] = Idle /\ p \in known /\ state.poll = p
  /\ sock' = [sock EXCEPT ![s] = [at |-> "delete", poll |-> p, old |-> NoPoll,
                                  counts |-> state.counts]]
  /\ crowded' = (crowded \/ Conducting # {})
  /\ UNCHANGED <<state, voters, rows, closer, known, screen, counting, minted,
                 dropped, faults>>

\* Mutant: the poll that was ended stays the one in progress.
DeleteVotersOnly(s) ==
  /\ sock[s].at = "delete"
  /\ voters' = [voters EXCEPT ![sock[s].poll] = {}]
  /\ dropped' = dropped \cup {sock[s].poll}
  /\ Goto(s, "close")
  /\ UNCHANGED <<state, rows, closer, known, screen, counting, minted, crowded, faults>>

\* It deletes the state, of whichever poll by now, and the voters of its own.
DeleteKeys(s) ==
  /\ state' = NoState
  /\ voters' = [voters EXCEPT ![sock[s].poll] = {}]

DeletePoll(s) ==
  /\ sock[s].at = "delete"
  /\ DeleteKeys(s)
  /\ Goto(s, "close")
  /\ UNCHANGED <<rows, closer, known, screen, counting, minted, dropped, crowded,
                 faults>>

\* An error of the DEL, carried out or not, ends the command.
DeleteFails(s) ==
  /\ sock[s].at = "delete" /\ Fault
  /\ DeleteKeys(s) \/ UNCHANGED <<state, voters>>
  /\ Done(s)
  /\ UNCHANGED <<rows, closer, known, screen, counting, minted, dropped, crowded>>

\* persist_poll_ended writes the final counts into a row that is not ended.
SaveEnded(s) ==
  /\ sock[s].at = "close"
  /\ rows' = IF rows[sock[s].poll].saved /\ ~rows[sock[s].poll].ended
             THEN [rows EXCEPT ![sock[s].poll] =
                     [saved |-> TRUE, ended |-> TRUE, counts |-> sock[s].counts]]
             ELSE rows
  /\ Goto(s, "ended")
  /\ UNCHANGED <<state, voters, closer, known, screen, counting, minted, dropped,
                 crowded, faults>>

\* PollEnded freezes the poll if the clients show it.
PublishEnded(s) ==
  /\ sock[s].at = "ended"
  /\ screen' = IF screen.poll = sock[s].poll
               THEN [screen EXCEPT !.counts = sock[s].counts, !.ended = TRUE]
               ELSE screen
  /\ Done(s)
  /\ UNCHANGED <<state, voters, rows, closer, known, counting, minted, dropped,
                 crowded, faults>>

------------------------------------------------------------------------------
(* Failures that end no command but leave a step of it out: the DEL of old *)
(* voters, a write of the row, a publication.                              *)

Following ==
  [drop |-> "set", insert |-> "announce", tally |-> "results", close |-> "ended"]

StepFails(s) ==
  /\ sock[s].at \in DOMAIN Following /\ Fault
  /\ Goto(s, Following[sock[s].at])
  /\ UNCHANGED <<state, voters, rows, closer, known, screen, counting, minted,
                 dropped, crowded>>

PublishFails(s) ==
  /\ sock[s].at \in {"announce", "results", "ended"} /\ Fault
  /\ Done(s)
  /\ UNCHANGED <<state, voters, rows, closer, known, screen, counting, minted,
                 dropped, crowded>>

------------------------------------------------------------------------------
(* The rest of the room.                                                   *)

\* end-class clears the room: it reads the poll, drops the voters of what it
\* read, then drops the state. The sockets hear that the class is over only when
\* they next read from their subscription.
ClearRead ==
  /\ closer.at = "idle"
  /\ closer' = [at |-> "voters", poll |-> state.poll]
  /\ UNCHANGED <<state, voters, rows, sock, known, screen, counting, minted, dropped,
                 crowded, faults>>

ClearVoters ==
  /\ closer.at = "voters"
  /\ IF closer.poll = NoPoll
     THEN UNCHANGED <<voters, dropped>>
     ELSE /\ voters' = [voters EXCEPT ![closer.poll] = {}]
          /\ dropped' = dropped \cup {closer.poll}
  /\ closer' = [closer EXCEPT !.at = "state"]
  /\ UNCHANGED <<state, rows, sock, known, screen, counting, minted, crowded, faults>>

ClearState ==
  /\ closer.at = "state"
  /\ state' = NoState
  /\ closer' = [at |-> "done", poll |-> NoPoll]
  /\ UNCHANGED <<voters, rows, sock, known, screen, counting, minted, dropped,
                 crowded, faults>>

\* It goes on after errors, and ends without having dropped the state if that fails.
AfterClear == [idle |-> "voters", voters |-> "state", state |-> "done"]

ClearFails ==
  /\ closer.at \in DOMAIN AfterClear /\ Fault
  /\ closer' = [at |-> AfterClear[closer.at], poll |-> NoPoll]
  /\ UNCHANGED <<state, voters, rows, sock, known, screen, counting, minted, dropped,
                 crowded>>

\* Nobody voted for six hours. A vote renews both keys together, so the state
\* never outlives the voters.
Expire ==
  /\ state.poll # NoPoll /\ Fault
  /\ state' = NoState
  /\ UNCHANGED <<voters, rows, sock, closer, known, screen, counting, minted, dropped,
                 crowded>>

Next ==
  \/ \E s \in Sockets, p \in Polls :
       \/ StartPoll(s, p) \/ EndPoll(s, p)
       \/ \E o \in Options : Vote(s, p, o) \/ VoteUnanswered(s, p, o)
  \/ \E s \in Sockets :
       \/ DropVoters(s) \/ SetState(s) \/ SetFails(s) \/ InsertRow(s) \/ AnnouncePoll(s)
       \/ SaveCounts(s) \/ PublishResults(s)
       \/ DeletePoll(s) \/ DeleteFails(s) \/ SaveEnded(s) \/ PublishEnded(s)
       \/ StepFails(s) \/ PublishFails(s)
  \/ ClearRead \/ ClearVoters \/ ClearState \/ ClearFails \/ Expire

Spec == Init /\ [][Next]_vars

------------------------------------------------------------------------------
(* Properties.                                                             *)

\* The variables have the types of the keys, columns and messages they model.
TypeOK ==
  /\ state \in State
  /\ voters \in [Polls -> SUBSET Users]
  /\ rows \in [Polls -> Row]
  /\ sock \in [Sockets -> Command]
  /\ closer \in [at : {"idle", "voters", "state", "done"}, poll : SomePoll]
  /\ known \subseteq minted /\ minted \subseteq Polls
  /\ screen \in Screen
  /\ tally \in [Polls -> Counts]
  /\ times \in [Polls -> [Users -> Nat]]
  /\ dropped \subseteq Polls
  /\ crowded \in BOOLEAN
  /\ faults \in 0..MaxFaults

\* No increment is lost: however votes, replacements and ends interleave, the
\* tally of the poll in progress is what was counted for it. (This is what
\* POLL_VOTE_SCRIPT was written for.)
TallyIsWhatWasCast == state.poll # NoPoll => state.counts = tally[state.poll]

\* "A vote is recorded only once per (poll, user)", and nobody is turned away as a
\* repeated voter without having been counted; but a voter set that was dropped
\* ahead of the state, by the start of the next poll or by end-class, lets its
\* voters vote again.
VotersAreCountedOnce ==
  \A p \in Polls, u \in Users :
    /\ u \in voters[p] => times[p][u] > 0
    /\ times[p][u] > 1 => p \in dropped

\* Neither the clients nor the table ever have a vote that was not counted for
\* the poll they file it under, however late and in whatever order it arrives.
ShownWasCast ==
  /\ screen.poll # NoPoll =>
       \A o \in Options : screen.counts[o] <= tally[screen.poll][o]
  /\ \A p \in Polls, o \in Options : rows[p].counts[o] <= tally[p][o]

\* While no staff command is under way, the poll the clients offer is the one
\* that takes votes, and an ended one takes none; provided that nothing failed or
\* expired, the room was not cleared, and staff commands never overlapped.
ScreenFollowsBroker ==
  faults = 0 /\ ~crowded /\ closer.at = "idle" /\ Conducting = {} =>
    state.poll = IF screen.ended THEN NoPoll ELSE screen.poll

==============================================================================
