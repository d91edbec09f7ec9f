---------------------------- MODULE LivePoll_proofs ----------------------------
(***************************************************************************)
(* What the clients of a live room see of its polls (LivePoll) and of its  *)
(* whiteboard (Whiteboard), for any number of connections, users, polls,   *)
(* options and strokes and any number of failures. Votes are counted,      *)
(* once, and nothing else is shown; whoever has received what was sent     *)
(* shows the poll and the board that Redis has.                            *)
(***************************************************************************)
EXTENDS LivePoll, Whiteboard, Sums, SequenceTheorems, TLAPS

LEMMA PollValues ==
  /\ NoPoll \in SomePoll /\ Polls \subseteq SomePoll
  /\ Zero \in Counts /\ NoState \in State /\ Idle \in Command
  /\ \A f \in Counts, o \in Options : [f EXCEPT ![o] = @ + 1] \in Counts
  /\ \A f \in Counts, p \in SomePoll : [poll |-> p, counts |-> f] \in State
BY DEF SomePoll, Zero, Counts, NoState, State, Idle, Command, Steps

LEMMA FollowingIs ==
  \A at \in DOMAIN Following :
    /\ at \in {"drop", "insert", "tally", "close"}
    /\ Following[at] \in Steps
    /\ at = "drop" => Following[at] = "set"
    /\ at = "insert" => Following[at] = "announce"
    /\ at = "tally" => Following[at] = "results"
    /\ at = "close" => Following[at] = "ended"
BY DEF Following, Steps

LEMMA AfterClearIs ==
  \A at \in DOMAIN AfterClear :
    at \in {"idle", "voters", "state"} /\ AfterClear[at] \in {"voters", "state", "done"}
BY DEF AfterClear

\* A socket goes on with its command, ends it, or begins one.
LEMMA GotoSock ==
  ASSUME sock \in [Sockets -> Command], NEW s \in Sockets, NEW at \in Steps, Goto(s, at)
  PROVE  /\ sock' \in [Sockets -> Command]
         /\ sock'[s].at = at /\ sock'[s].poll = sock[s].poll
         /\ sock'[s].old = sock[s].old /\ sock'[s].counts = sock[s].counts
         /\ \A q \in Sockets \ {s} : sock'[q] = sock[q]
<1>1. sock' = [sock EXCEPT ![s] = [sock[s] EXCEPT !.at = at]] /\ sock[s] \in Command
  BY DEF Goto
<1>2. [sock[s] EXCEPT !.at = at] \in Command
  BY <1>1 DEF Command
<1>. QED  BY <1>1, <1>2 DEF Command

LEMMA DoneSock ==
  ASSUME sock \in [Sockets -> Command], NEW s \in Sockets, Done(s)
  PROVE  /\ sock' \in [Sockets -> Command]
         /\ sock'[s].at = "idle" /\ sock'[s].poll = NoPoll
         /\ sock'[s].old = NoPoll /\ sock'[s].counts = Zero
         /\ \A q \in Sockets \ {s} : sock'[q] = sock[q]
BY PollValues DEF Done, Idle

LEMMA BeginSock ==
  ASSUME sock \in [Sockets -> Command], NEW s \in Sockets, NEW at \in Steps,
         NEW p \in SomePoll, NEW old \in SomePoll, NEW f \in Counts,
         sock' = [sock EXCEPT ![s] = [at |-> at, poll |-> p, old |-> old, counts |-> f]]
  PROVE  /\ sock' \in [Sockets -> Command]
         /\ sock'[s].at = at /\ sock'[s].poll = p
         /\ sock'[s].old = old /\ sock'[s].counts = f
         /\ \A q \in Sockets \ {s} : sock'[q] = sock[q]
BY DEF Command

LEMMA SockFields ==
  ASSUME TypeOK, NEW s \in Sockets
  PROVE  /\ sock[s] \in Command /\ sock[s].at \in Steps /\ sock[s].poll \in SomePoll
         /\ sock[s].old \in SomePoll /\ sock[s].counts \in Counts
BY DEF TypeOK, Command

\* A command that is under way is about a poll; a staff command is of a staff socket, and
\* what is announced, ended or voted on is a poll in use.
CommandsAreSane ==
  \A s \in Sockets :
    /\ sock[s].at # "idle" => sock[s].poll \in minted
    /\ sock[s].at \notin {"idle", "tally", "results"} => s \in Staff

\* A poll whose start is under way is that command's alone; until it is the one in
\* progress, nobody has voted on it.
StartsAreFresh ==
  /\ \A s \in Sockets : sock[s].at \in {"drop", "set", "insert", "announce"} =>
       /\ sock[s].poll \notin known
       /\ \A q \in Sockets : sock[q].poll = sock[s].poll => q = s
  /\ \A s \in Sockets : sock[s].at \in {"drop", "set"} =>
       /\ state.poll # sock[s].poll
       /\ tally[sock[s].poll] = Zero
       /\ \A u \in Users : times[sock[s].poll][u] = 0
  /\ \A p \in Polls \ minted :
       /\ state.poll # p /\ tally[p] = Zero
       /\ \A s \in Sockets : sock[s].poll # p
       /\ \A u \in Users : times[p][u] = 0

PollInv == TypeOK /\ CommandsAreSane /\ StartsAreFresh

LEMMA PollInit == Init => PollInv
<1>. SUFFICES ASSUME Init PROVE PollInv
  OBVIOUS
<1>1. TypeOK
  <2>1. state \in State
    BY PollValues DEF Init
  <2>2. rows \in [Polls -> Row] /\ screen \in Screen
    BY PollValues DEF Init, Row, Screen
  <2>3. sock \in [Sockets -> Command] /\ tally \in [Polls -> Counts]
    BY PollValues DEF Init
  <2>4. /\ voters \in [Polls -> SUBSET Users] /\ times \in [Polls -> [Users -> Nat]]
        /\ closer \in [at : {"idle", "voters", "state", "done"}, poll : SomePoll]
    BY PollValues DEF Init
  <2>5. /\ known \subseteq minted /\ minted \subseteq Polls /\ dropped \subseteq Polls
        /\ faults \in 0..MaxFaults
    BY LivePollAssumption DEF Init
  <2>6. crowded \in BOOLEAN
    BY DEF Init
  <2>. QED  BY <2>1, <2>2, <2>3, <2>4, <2>5, <2>6 DEF TypeOK
<1>2. CommandsAreSane
  BY DEF Init, CommandsAreSane, Idle
<1>3. StartsAreFresh
  BY LivePollAssumption DEF Init, StartsAreFresh, Idle, NoState
<1>. QED  BY <1>1, <1>2, <1>3 DEF PollInv

LEMMA PollTypeStep == TypeOK /\ CommandsAreSane /\ [Next]_vars => TypeOK'
<1>. SUFFICES ASSUME TypeOK, CommandsAreSane, [Next]_vars PROVE TypeOK'
  OBVIOUS
<1>. USE PollValues, SockFields DEF TypeOK, counting
<1>0. /\ \A s \in Sockets : sock[s].at # "idle" => sock[s].poll \in Polls
      /\ Staff \subseteq Sockets /\ MaxFaults \in Nat /\ UserOf \in [Sockets -> Users]
      /\ Fault => faults' \in 0..MaxFaults
  BY LivePollAssumption DEF CommandsAreSane, Fault
<1>1. ASSUME NEW s \in Sockets, NEW p \in Polls, StartPoll(s, p) PROVE TypeOK'
  <2>1. sock' \in [Sockets -> Command]
    BY <1>1, BeginSock DEF StartPoll, Steps, State
  <2>. QED  BY <1>1, <2>1 DEF StartPoll
<1>2. ASSUME NEW s \in Sockets, NEW p \in Polls, EndPoll(s, p) PROVE TypeOK'
  <2>1. sock' \in [Sockets -> Command]
    BY <1>2, BeginSock DEF EndPoll, Steps, State
  <2>. QED  BY <1>2, <2>1 DEF EndPoll
<1>3. ASSUME NEW s \in Sockets, NEW p \in Polls, NEW o \in Options, VoteScript(s, p, o)
      PROVE  /\ state' \in State /\ voters' \in [Polls -> SUBSET Users]
             /\ tally' \in [Polls -> Counts] /\ times' \in [Polls -> [Users -> Nat]]
  <2>1. UserOf[s] \in Users /\ state.counts \in Counts /\ tally[p] \in Counts
    BY <1>0 DEF State
  <2>2. state' \in State
    BY <1>3, <2>1 DEF VoteScript, Counted
  <2>3. voters' \in [Polls -> SUBSET Users]
    BY <1>3, <2>1 DEF VoteScript
  <2>4. tally' \in [Polls -> Counts]
    BY <1>3, <2>1 DEF VoteScript
  <2>5. times' \in [Polls -> [Users -> Nat]]
    BY <1>3, <2>1 DEF VoteScript
  <2>. QED  BY <2>2, <2>3, <2>4, <2>5
<1>4. ASSUME NEW s \in Sockets, NEW p \in Polls, NEW o \in Options, Vote(s, p, o) PROVE TypeOK'
  <2>1. state' \in State
    BY <1>3, <1>4 DEF Vote
  <2>2. sock' \in [Sockets -> Command]
    BY <1>4, <2>1, BeginSock DEF Vote, Steps, State
  <2>. QED  BY <1>3, <1>4, <2>2 DEF Vote
<1>5. ASSUME NEW s \in Sockets, NEW p \in Polls, NEW o \in Options, VoteUnanswered(s, p, o)
      PROVE  TypeOK'
  BY <1>0, <1>3, <1>5 DEF VoteUnanswered
<1>6. ASSUME NEW s \in Sockets, DropVoters(s) PROVE TypeOK'
  <2>1. sock' \in [Sockets -> Command]
    BY <1>6, GotoSock DEF DropVoters, Steps
  <2>2. sock[s].old # NoPoll => sock[s].old \in Polls
    BY DEF SomePoll
  <2>. QED  BY <1>6, <2>1, <2>2 DEF DropVoters
<1>7. ASSUME NEW s \in Sockets, SetState(s) PROVE TypeOK'
  <2>1. sock' \in [Sockets -> Command]
    BY <1>7, GotoSock DEF SetState, Steps
  <2>. QED  BY <1>7, <2>1 DEF SetState
<1>8. ASSUME NEW s \in Sockets, SetFails(s) PROVE TypeOK'
  <2>1. sock' \in [Sockets -> Command]
    BY <1>8, DoneSock DEF SetFails
  <2>. QED  BY <1>0, <1>8, <2>1 DEF SetFails
<1>9. ASSUME NEW s \in Sockets, InsertRow(s) PROVE TypeOK'
  <2>1. sock' \in [Sockets -> Command]
    BY <1>9, GotoSock DEF InsertRow, Steps
  <2>2. rows' \in [Polls -> Row]
    BY <1>9 DEF InsertRow, Row
  <2>. QED  BY <1>9, <2>1, <2>2 DEF InsertRow
<1>10. ASSUME NEW s \in Sockets, AnnouncePoll(s) PROVE TypeOK'
  <2>1. sock' \in [Sockets -> Command] /\ sock[s].poll \in minted
    BY <1>10, DoneSock DEF AnnouncePoll, CommandsAreSane
  <2>2. screen' \in Screen
    BY <1>10 DEF AnnouncePoll, Screen
  <2>. QED  BY <1>10, <2>1, <2>2 DEF AnnouncePoll
<1>11. ASSUME NEW s \in Sockets, SaveCounts(s) PROVE TypeOK'
  <2>1. sock' \in [Sockets -> Command]
    BY <1>11, GotoSock DEF SaveCounts, Steps
  <2>2. rows' \in [Polls -> Row]
    BY <1>11 DEF SaveCounts, Row
  <2>. QED  BY <1>11, <2>1, <2>2 DEF SaveCounts
<1>12. ASSUME NEW s \in Sockets, PublishResults(s) PROVE TypeOK'
  <2>1. sock' \in [Sockets -> Command]
    BY <1>12, DoneSock DEF PublishResults
  <2>2. screen' \in Screen
    BY <1>12 DEF PublishResults, Screen
  <2>. QED  BY <1>12, <2>1, <2>2 DEF PublishResults
<1>13. ASSUME NEW s \in Sockets, DeletePoll(s) PROVE TypeOK'
  <2>1. sock' \in [Sockets -> Command]
    BY <1>13, GotoSock DEF DeletePoll, Steps
  <2>. QED  BY <1>13, <2>1 DEF DeletePoll, DeleteKeys
<1>14. ASSUME NEW s \in Sockets, DeleteFails(s) PROVE TypeOK'
  <2>1. sock' \in [Sockets -> Command]
    BY <1>14, DoneSock DEF DeleteFails
  <2>. QED  BY <1>0, <1>14, <2>1 DEF DeleteFails, DeleteKeys
<1>15. ASSUME NEW s \in Sockets, SaveEnded(s) PROVE TypeOK'
  <2>1. sock' \in [Sockets -> Command]
    BY <1>15, GotoSock DEF SaveEnded, Steps
  <2>2. rows' \in [Polls -> Row]
    BY <1>15 DEF SaveEnded, Row
  <2>. QED  BY <1>15, <2>1, <2>2 DEF SaveEnded
<1>16. ASSUME NEW s \in Sockets, PublishEnded(s) PROVE TypeOK'
  <2>1. sock' \in [Sockets -> Command]
    BY <1>16, DoneSock DEF PublishEnded
  <2>2. screen' \in Screen
    BY <1>16 DEF PublishEnded, Screen
  <2>. QED  BY <1>16, <2>1, <2>2 DEF PublishEnded
<1>17. ASSUME NEW s \in Sockets, StepFails(s) PROVE TypeOK'
  <2>1. sock' \in [Sockets -> Command]
    BY <1>17, GotoSock, FollowingIs DEF StepFails
  <2>. QED  BY <1>0, <1>17, <2>1 DEF StepFails
<1>18. ASSUME NEW s \in Sockets, PublishFails(s) PROVE TypeOK'
  <2>1. sock' \in [Sockets -> Command]
    BY <1>18, DoneSock DEF PublishFails
  <2>. QED  BY <1>0, <1>18, <2>1 DEF PublishFails
<1>19. ASSUME ClearRead PROVE TypeOK'
  BY <1>19 DEF ClearRead, State
<1>20. ASSUME ClearVoters PROVE TypeOK'
  BY <1>20 DEF ClearVoters, SomePoll
<1>21. ASSUME ClearState PROVE TypeOK'
  BY <1>21 DEF ClearState
<1>22. ASSUME ClearFails PROVE TypeOK'
  BY <1>0, <1>22, AfterClearIs DEF ClearFails
<1>23. ASSUME Expire PROVE TypeOK'
  BY <1>0, <1>23 DEF Expire
<1>24. ASSUME UNCHANGED vars PROVE TypeOK'
  BY <1>24 DEF vars
<1>. QED
  BY <1>1, <1>2, <1>4, <1>5, <1>6, <1>7, <1>8, <1>9, <1>10, <1>11, <1>12, <1>13, <1>14,
     <1>15, <1>16, <1>17, <1>18, <1>19, <1>20, <1>21, <1>22, <1>23, <1>24 DEF Next

------------------------------------------------------------------------------
(* Commands and the polls they are about.                                  *)

Starts == {"drop", "set", "insert", "announce"}

\* Most steps count no vote, make nothing known and begin nothing.
Routine ==
  /\ UNCHANGED <<tally, times, known, minted>> /\ state'.poll \in {state.poll, NoPoll}
  /\ \A q \in Sockets :
       \/ sock'[q] = sock[q]
       \/ sock'[q].at = "idle" /\ sock'[q].poll = NoPoll
       \/ /\ sock'[q].poll = sock[q].poll
          /\ sock[q].at # "idle"
          /\ sock'[q].at \in Starts => sock[q].at \in Starts
          /\ sock'[q].at \in {"drop", "set"} => sock[q].at \in {"drop", "set"}
          /\ sock'[q].at \notin {"idle", "tally", "results"} =>
               sock[q].at \notin {"idle", "tally", "results"}

LEMMA RoutineStep ==
  ASSUME PollInv, Routine
  PROVE  CommandsAreSane' /\ StartsAreFresh'
<1>0. /\ \A s \in Sockets : sock[s].at # "idle" => sock[s].poll \in minted /\ sock[s].poll # NoPoll
      /\ NoPoll \notin Polls /\ minted \subseteq Polls
  BY LivePollAssumption DEF PollInv, TypeOK, CommandsAreSane
<1>1. CommandsAreSane'
  BY <1>0 DEF PollInv, CommandsAreSane, Routine
<1>2. ASSUME NEW s \in Sockets, sock'[s].at \in Starts
      PROVE  /\ sock'[s].poll \notin known'
             /\ \A q \in Sockets : sock'[q].poll = sock'[s].poll => q = s
  BY <1>0, <1>2 DEF PollInv, StartsAreFresh, Routine, Starts
<1>3. ASSUME NEW s \in Sockets, sock'[s].at \in {"drop", "set"}
      PROVE  /\ state'.poll # sock'[s].poll
             /\ tally'[sock'[s].poll] = Zero
             /\ \A u \in Users : times'[sock'[s].poll][u] = 0
  BY <1>0, <1>3 DEF PollInv, StartsAreFresh, Routine
<1>4. ASSUME NEW p \in Polls \ minted'
      PROVE  /\ state'.poll # p /\ tally'[p] = Zero
             /\ \A s \in Sockets : sock'[s].poll # p
             /\ \A u \in Users : times'[p][u] = 0
  BY <1>0, <1>4 DEF PollInv, StartsAreFresh, Routine
<1>. QED  BY <1>1, <1>2, <1>3, <1>4 DEF StartsAreFresh, Starts

\* Which steps are of that kind.
LEMMA RoutineIs ==
  ASSUME PollInv
  PROVE  /\ \A s \in Sockets :
              \/ DropVoters(s) \/ InsertRow(s) \/ SaveCounts(s) \/ PublishResults(s)
              \/ DeletePoll(s) \/ DeleteFails(s) \/ SaveEnded(s) \/ PublishEnded(s)
              \/ StepFails(s) \/ PublishFails(s)
              => Routine
         /\ ClearRead \/ ClearVoters \/ ClearState \/ ClearFails \/ Expire => Routine
         /\ UNCHANGED vars => Routine
<1>0. sock \in [Sockets -> Command]
  BY DEF PollInv, TypeOK
<1>1. ASSUME NEW s \in Sockets, NEW at \in Steps, Goto(s, at), sock[s].at # "idle",
             UNCHANGED <<tally, times, known, minted>>, state'.poll \in {state.poll, NoPoll},
             at \in Starts => sock[s].at \in Starts,
             at \in {"drop", "set"} => sock[s].at \in {"drop", "set"},
             at \notin {"idle", "tally", "results"} =>
               sock[s].at \notin {"idle", "tally", "results"}
      PROVE  Routine
  BY <1>0, <1>1, GotoSock DEF Routine
<1>2. ASSUME NEW s \in Sockets, Done(s),
             UNCHANGED <<tally, times, known, minted>>, state'.poll \in {state.poll, NoPoll}
      PROVE  Routine
  BY <1>0, <1>2, DoneSock DEF Routine
<1>3. ASSUME NEW s \in Sockets, DropVoters(s) \/ InsertRow(s) \/ SaveCounts(s) PROVE Routine
  BY <1>1, <1>3 DEF DropVoters, InsertRow, SaveCounts, counting, Steps, Starts
<1>4. ASSUME NEW s \in Sockets, DeletePoll(s) \/ SaveEnded(s) PROVE Routine
  BY <1>1, <1>4 DEF DeletePoll, DeleteKeys, SaveEnded, counting, Steps, Starts, NoState
<1>5. ASSUME NEW s \in Sockets, PublishResults(s) \/ PublishEnded(s) \/ PublishFails(s) PROVE Routine
  BY <1>2, <1>5 DEF PublishResults, PublishEnded, PublishFails, counting
<1>6. ASSUME NEW s \in Sockets, DeleteFails(s) PROVE Routine
  BY <1>2, <1>6 DEF DeleteFails, DeleteKeys, counting, NoState
<1>7. ASSUME NEW s \in Sockets, StepFails(s) PROVE Routine
  <2>1. /\ sock[s].at \in DOMAIN Following /\ Goto(s, Following[sock[s].at])
        /\ UNCHANGED <<tally, times, known, minted, state>>
    BY <1>7 DEF StepFails, counting
  <2>. QED  BY <1>1, <2>1, FollowingIs DEF Starts
<1>8. ASSUME UNCHANGED <<sock, tally, times, known, minted>>, state'.poll \in {state.poll, NoPoll}
      PROVE  Routine
  BY <1>8 DEF Routine
<1>9. ClearRead \/ ClearVoters \/ ClearState \/ ClearFails \/ Expire \/ UNCHANGED vars => Routine
  BY <1>8 DEF ClearRead, ClearVoters, ClearState, ClearFails, Expire, vars, counting, NoState
<1>. QED  BY <1>3, <1>4, <1>5, <1>6, <1>7, <1>9

LEMMA VoteScriptIs ==
  ASSUME TypeOK, NEW s \in Sockets, NEW p \in Polls, NEW o \in Options, VoteScript(s, p, o)
  PROVE  /\ p \in known /\ state.poll = p /\ state'.poll = p
         /\ UserOf[s] \in Users /\ UserOf[s] \notin voters[p] /\ sock[s] = Idle
         /\ voters'[p] = voters[p] \cup {UserOf[s]}
         /\ \A q \in Polls \ {p} : voters'[q] = voters[q] /\ tally'[q] = tally[q] /\ times'[q] = times[q]
         /\ state'.counts = [state.counts EXCEPT ![o] = @ + 1]
         /\ tally'[p] = [tally[p] EXCEPT ![o] = @ + 1]
         /\ times'[p] = [times[p] EXCEPT ![UserOf[s]] = @ + 1]
BY LivePollAssumption DEF TypeOK, VoteScript, Counted

LEMMA PollStep == PollInv /\ [Next]_vars => PollInv'
<1>. SUFFICES ASSUME PollInv, [Next]_vars PROVE PollInv'
  OBVIOUS
<1>. DEFINE Goal == CommandsAreSane' /\ StartsAreFresh'
<1>0. /\ TypeOK /\ TypeOK' /\ sock \in [Sockets -> Command]
      /\ NoPoll \notin Polls /\ minted \subseteq Polls /\ known \subseteq minted
      /\ \A s \in Sockets : sock[s].at # "idle" => sock[s].poll \in minted
      /\ \A s \in Sockets : /\ sock[s].poll \in SomePoll /\ sock[s].at \in Steps
                            /\ sock[s].old \in SomePoll /\ sock[s].counts \in Counts
  BY PollTypeStep, SockFields, LivePollAssumption DEF PollInv, TypeOK, CommandsAreSane
<1>. USE DEF PollInv, CommandsAreSane, StartsAreFresh
<1>1. ASSUME NEW s \in Sockets, NEW p \in Polls, StartPoll(s, p) PROVE Goal
  <2>1. /\ p \notin minted /\ minted' = minted \cup {p} /\ s \in Staff
        /\ UNCHANGED <<state, known, tally, times>>
    BY <1>1 DEF StartPoll, Unused, counting
  <2>2. /\ sock'[s].at = "drop" /\ sock'[s].poll = p
        /\ \A q \in Sockets \ {s} : sock'[q] = sock[q]
    BY <1>0, <1>1, BeginSock, PollValues DEF StartPoll, Steps, State, TypeOK
  <2>3. CommandsAreSane'
    BY <2>1, <2>2
  <2>4. StartsAreFresh'
    BY <1>0, <2>1, <2>2
  <2>. QED  BY <2>3, <2>4
<1>2. ASSUME NEW s \in Sockets, NEW p \in Polls, EndPoll(s, p) PROVE Goal
  <2>1. p \in known /\ s \in Staff /\ UNCHANGED <<state, known, tally, times, minted>>
    BY <1>2 DEF EndPoll, counting
  <2>2. /\ sock'[s].at = "delete" /\ sock'[s].poll = p
        /\ \A q \in Sockets \ {s} : sock'[q] = sock[q]
    BY <1>0, <1>2, BeginSock, PollValues DEF EndPoll, Steps, State, TypeOK
  <2>. QED  BY <1>0, <2>1, <2>2
<1>3. ASSUME NEW s \in Sockets, NEW p \in Polls, NEW o \in Options, VoteScript(s, p, o),
             UNCHANGED <<known, minted>>,
             \A q \in Sockets \ {s} : sock'[q] = sock[q],
             sock'[s] = sock[s] \/ (sock'[s].at = "tally" /\ sock'[s].poll = p)
      PROVE  Goal
  <2>0. sock[s].at = "idle"
    BY <1>3 DEF VoteScript, Idle
  <2>1. /\ p \in known /\ state.poll = p /\ state'.poll = p
        /\ \A q \in Polls \ {p} : tally'[q] = tally[q] /\ times'[q] = times[q]
    BY ONLY TypeOK, <1>0, VoteScript(s, p, o), <1>3, VoteScriptIs
  <2>2. CommandsAreSane'
    <3>. SUFFICES ASSUME NEW q \in Sockets
                  PROVE  /\ sock'[q].at # "idle" => sock'[q].poll \in minted'
                         /\ sock'[q].at \notin {"idle", "tally", "results"} => q \in Staff
      OBVIOUS
    <3>. HIDE DEF StartsAreFresh
    <3>1. CASE q = s
      BY <1>0, <1>3, <2>0, <2>1, <3>1
    <3>2. CASE q # s
      BY <1>0, <1>3, <3>2
    <3>. QED  BY <3>1, <3>2
  <2>3. ASSUME NEW q \in Sockets, sock'[q].at \in Starts
        PROVE  q # s /\ sock'[q] = sock[q] /\ sock[q].poll # p /\ sock[q].poll \in Polls
    <3>1. q # s
      BY <1>3, <2>0, <2>3 DEF Starts
    <3>. QED  BY <1>0, <1>3, <2>1, <2>3, <3>1 DEF Starts
  <2>4. ASSUME NEW q \in Polls \ minted' PROVE q # p
    BY <1>0, <1>3, <2>1
  <2>. QED  BY <1>0, <1>3, <2>1, <2>2, <2>3, <2>4 DEF Starts
<1>4. ASSUME NEW s \in Sockets, NEW p \in Polls, NEW o \in Options, Vote(s, p, o) PROVE Goal
  <2>1. /\ sock'[s].at = "tally" /\ sock'[s].poll = p
        /\ \A q \in Sockets \ {s} : sock'[q] = sock[q]
    BY <1>0, <1>4, BeginSock, PollValues DEF Vote, Steps, State, TypeOK
  <2>. QED  BY <1>3, <1>4, <2>1 DEF Vote
<1>5. ASSUME NEW s \in Sockets, NEW p \in Polls, NEW o \in Options, VoteUnanswered(s, p, o)
      PROVE  Goal
  BY <1>3, <1>5 DEF VoteUnanswered
<1>6. ASSUME NEW s \in Sockets, SetState(s) PROVE Goal
  <2>1. /\ sock'[s].at = "insert" /\ sock'[s].poll = sock[s].poll /\ sock[s].at = "set"
        /\ \A q \in Sockets \ {s} : sock'[q] = sock[q]
        /\ state'.poll = sock[s].poll /\ UNCHANGED <<known, tally, times, minted>>
    BY <1>0, <1>6, GotoSock DEF SetState, Steps, counting
  <2>2. CommandsAreSane'
    BY <2>1
  <2>. QED  BY <1>0, <2>1, <2>2
<1>7. ASSUME NEW s \in Sockets, SetFails(s) PROVE Goal
  <2>1. /\ sock'[s].at = "idle" /\ sock'[s].poll = NoPoll /\ sock[s].at = "set"
        /\ \A q \in Sockets \ {s} : sock'[q] = sock[q]
        /\ state'.poll \in {state.poll, sock[s].poll} /\ UNCHANGED <<known, tally, times, minted>>
    BY <1>0, <1>7, DoneSock DEF SetFails, counting
  <2>2. CommandsAreSane'
    BY <2>1
  <2>. QED  BY <1>0, <2>1, <2>2
<1>8. ASSUME NEW s \in Sockets, AnnouncePoll(s) PROVE Goal
  <2>1. /\ sock'[s].at = "idle" /\ sock'[s].poll = NoPoll /\ sock[s].at = "announce"
        /\ \A q \in Sockets \ {s} : sock'[q] = sock[q]
        /\ known' = known \cup {sock[s].poll} /\ UNCHANGED <<state, tally, times, minted>>
    BY <1>0, <1>8, DoneSock DEF AnnouncePoll, counting
  <2>2. CommandsAreSane'
    BY <2>1
  <2>. QED  BY <1>0, <2>1, <2>2
<1>9. Goal => PollInv'
  BY <1>0
<1>. HIDE DEF PollInv, CommandsAreSane, StartsAreFresh
<1>. QED
  BY <1>1, <1>2, <1>4, <1>5, <1>6, <1>7, <1>8, <1>9, RoutineIs, RoutineStep DEF Next

------------------------------------------------------------------------------
(* Votes.                                                                  *)

\* Each of the counts f was cast for poll p.
Cast(p, f) == \A o \in Options : f[o] <= tally[p][o]

\* Whoever was counted for the poll in progress is in its voter set, unless that was dropped.
VotersAreKept ==
  \A p \in Polls \ dropped, u \in Users : state.poll = p /\ times[p][u] > 0 => u \in voters[p]

\* What a command is going to save or tell was cast.
MessagesWereCast == \A s \in Sockets : sock[s].poll # NoPoll => Cast(sock[s].poll, sock[s].counts)

CountInv ==
  TallyIsWhatWasCast /\ VotersAreKept /\ VotersAreCountedOnce /\ MessagesWereCast /\ ShownWasCast

LEMMA CastZero == TypeOK => \A p \in Polls : Cast(p, Zero) /\ Cast(p, tally[p])
BY DEF TypeOK, Cast, Zero, Counts

LEMMA CountInit == Init => CountInv
<1>. SUFFICES ASSUME Init PROVE CountInv
  OBVIOUS
<1>1. TypeOK
  BY PollInit DEF PollInv
<1>2. TallyIsWhatWasCast /\ VotersAreKept /\ VotersAreCountedOnce /\ MessagesWereCast
  BY DEF Init, TallyIsWhatWasCast, VotersAreKept, VotersAreCountedOnce, MessagesWereCast, NoState,
         Idle
<1>3. ShownWasCast
  BY <1>1, CastZero DEF Init, ShownWasCast, Cast
<1>. QED  BY <1>2, <1>3 DEF CountInv

\* A step that counts no vote keeps the counts, as long as voters are only dropped with the
\* state, or with a note of it, and nothing is saved, sent or shown that was not cast.
LEMMA NoVoteStep ==
  ASSUME TypeOK, TypeOK', CountInv, UNCHANGED <<tally, times>>, dropped \subseteq dropped',
         \A p \in Polls : voters'[p] \subseteq voters[p],
         \/ state' = state /\ \A p \in Polls \ dropped' : state.poll = p => voters'[p] = voters[p]
         \/ state'.poll = NoPoll
         \/ \E p \in Polls : /\ state' = [poll |-> p, counts |-> Zero] /\ tally[p] = Zero
                             /\ \A u \in Users : times[p][u] = 0,
         \A q \in Sockets : \/ sock'[q].poll = sock[q].poll /\ sock'[q].counts = sock[q].counts
                            \/ sock'[q].poll = NoPoll
                            \/ Cast(sock'[q].poll, sock'[q].counts),
         \/ screen'.poll = screen.poll /\ screen'.counts = screen.counts
         \/ Cast(screen'.poll, screen'.counts),
         \A p \in Polls : rows'[p].counts = rows[p].counts \/ Cast(p, rows'[p].counts)
  PROVE  CountInv'
<1>0. NoPoll \notin Polls
  BY LivePollAssumption
<1>1. TallyIsWhatWasCast'
  BY <1>0 DEF CountInv, TallyIsWhatWasCast
<1>2. VotersAreKept'
  <2>1. CASE state' = state /\ \A p \in Polls \ dropped' : state.poll = p => voters'[p] = voters[p]
    BY <2>1 DEF CountInv, VotersAreKept
  <2>2. CASE state'.poll = NoPoll
    BY <1>0, <2>2 DEF VotersAreKept
  <2>3. CASE \E p \in Polls : /\ state' = [poll |-> p, counts |-> Zero]
                              /\ \A u \in Users : times[p][u] = 0
    BY <2>3 DEF VotersAreKept
  <2>. QED  BY <2>1, <2>2, <2>3
<1>3. VotersAreCountedOnce'
  BY DEF CountInv, VotersAreCountedOnce
<1>4. MessagesWereCast'
  BY DEF CountInv, MessagesWereCast, Cast
<1>5. ShownWasCast'
  BY DEF CountInv, ShownWasCast, Cast
<1>. QED  BY <1>1, <1>2, <1>3, <1>4, <1>5 DEF CountInv

LEMMA VoteStep ==
  ASSUME PollInv, TypeOK', CountInv, NEW s \in Sockets, NEW p \in Polls, NEW o \in Options,
         VoteScript(s, p, o), UNCHANGED <<rows, screen, dropped>>,
         \A q \in Sockets \ {s} : sock'[q] = sock[q],
         sock'[s] = sock[s] \/ (sock'[s].poll = p /\ sock'[s].counts = state'.counts)
  PROVE  CountInv'
<1>. DEFINE u == UserOf[s]
<1>0. TypeOK /\ NoPoll \notin Polls
  BY LivePollAssumption DEF PollInv
<1>1. /\ state.poll = p /\ state'.poll = p /\ u \in Users /\ u \notin voters[p]
      /\ voters'[p] = voters[p] \cup {u}
      /\ \A q \in Polls \ {p} : voters'[q] = voters[q] /\ tally'[q] = tally[q] /\ times'[q] = times[q]
      /\ state'.counts = [state.counts EXCEPT ![o] = @ + 1]
      /\ tally'[p] = [tally[p] EXCEPT ![o] = @ + 1]
      /\ times'[p] = [times[p] EXCEPT ![u] = @ + 1]
  BY <1>0, VoteScriptIs
<1>2. state.counts = tally[p]
  BY <1>0, <1>1 DEF CountInv, TallyIsWhatWasCast
<1>3. TallyIsWhatWasCast'
  BY <1>1, <1>2 DEF TallyIsWhatWasCast
<1>4. times[p] \in [Users -> Nat] /\ \A v \in Users \ {u} : times'[p][v] = times[p][v]
  BY <1>0, <1>1 DEF TypeOK
<1>5. times'[p][u] = times[p][u] + 1
  BY <1>1, <1>4
<1>6. VotersAreKept'
  <2>. SUFFICES ASSUME NEW v \in Users, p \notin dropped, times'[p][v] > 0
                PROVE  v \in voters'[p]
    BY <1>1 DEF VotersAreKept
  <2>. QED  BY <1>1, <1>4 DEF CountInv, VotersAreKept
<1>7. VotersAreCountedOnce'
  <2>. SUFFICES ASSUME NEW q \in Polls, NEW v \in Users
                PROVE  /\ v \in voters'[q] => times'[q][v] > 0
                       /\ times'[q][v] > 1 => q \in dropped
    BY DEF VotersAreCountedOnce
  <2>1. CASE q # p \/ v # u
    BY <1>1, <1>4, <2>1 DEF CountInv, VotersAreCountedOnce
  <2>2. CASE q = p /\ v = u
    <3>1. times[p][u] > 0 => p \in dropped
      BY <1>1 DEF CountInv, VotersAreKept
    <3>. QED  BY <1>4, <1>5, <2>2, <3>1
  <2>. QED  BY <2>1, <2>2
<1>8. \A q \in Polls, x \in Options : tally[q][x] <= tally'[q][x] /\ tally[q][x] \in Nat /\ tally'[q][x] \in Nat
  <2>1. tally[p] \in [Options -> Nat] /\ \A q \in Polls, x \in Options : tally[q][x] \in Nat
    BY <1>0 DEF TypeOK, Counts
  <2>2. \A x \in Options : tally[p][x] <= tally'[p][x]
    BY <1>1, <2>1
  <2>3. \A q \in Polls, x \in Options : tally'[q][x] \in Nat
    BY DEF TypeOK, Counts
  <2>. QED  BY <1>1, <2>1, <2>2, <2>3
<1>10. MessagesWereCast'
  <2>. SUFFICES ASSUME NEW q \in Sockets, sock'[q].poll # NoPoll
                PROVE  \A x \in Options : sock'[q].counts[x] <= tally'[sock'[q].poll][x]
    BY DEF MessagesWereCast, Cast
  <2>1. CASE sock'[q] = sock[q]
    <3>1. sock[q].poll \in Polls /\ sock[q].counts \in Counts /\ Cast(sock[q].poll, sock[q].counts)
      BY <1>0, <2>1, SockFields DEF SomePoll, CountInv, MessagesWereCast
    <3>2. \A x \in Options : sock[q].counts[x] <= tally'[sock[q].poll][x]
      BY <1>8, <3>1 DEF Cast, Counts
    <3>. QED  BY <2>1, <3>2
  <2>2. CASE q = s /\ sock'[s].poll = p /\ sock'[s].counts = state'.counts
    <3>1. state'.counts = tally'[p]
      BY <1>1, <1>2
    <3>. QED  BY <1>8, <2>2, <3>1
  <2>. QED  BY <2>1, <2>2
<1>11. ShownWasCast'
  <2>1. ASSUME screen.poll # NoPoll, NEW x \in Options
        PROVE  screen.counts[x] <= tally'[screen.poll][x]
    <3>1. screen.poll \in Polls /\ screen.counts[x] \in Nat
      BY <1>0, <2>1 DEF TypeOK, Screen, SomePoll, Counts
    <3>2. screen.counts[x] <= tally[screen.poll][x]
      BY <2>1 DEF CountInv, ShownWasCast
    <3>. QED  BY <1>8, <3>1, <3>2
  <2>2. ASSUME NEW q \in Polls, NEW x \in Options PROVE rows[q].counts[x] <= tally'[q][x]
    <3>1. rows[q].counts[x] \in Nat
      BY <1>0 DEF TypeOK, Row, Counts
    <3>2. rows[q].counts[x] <= tally[q][x]
      BY DEF CountInv, ShownWasCast
    <3>. QED  BY <1>8, <3>1, <3>2
  <2>. QED  BY <2>1, <2>2 DEF ShownWasCast
<1>. QED  BY <1>3, <1>6, <1>7, <1>10, <1>11 DEF CountInv

LEMMA CountStep == PollInv /\ CountInv /\ [Next]_vars => CountInv'
<1>. SUFFICES ASSUME PollInv, CountInv, [Next]_vars PROVE CountInv'
  OBVIOUS
<1>0. /\ TypeOK /\ TypeOK' /\ sock \in [Sockets -> Command] /\ NoPoll \notin Polls
      /\ state.poll \in SomePoll /\ state.counts \in Counts /\ voters \in [Polls -> SUBSET Users]
      /\ \A s \in Sockets : sock[s].at # "idle" => sock[s].poll \in Polls
      /\ \A s \in Sockets : sock[s].old \in SomePoll /\ sock[s].counts \in Counts
      /\ rows \in [Polls -> Row] /\ \A r \in Row : r.counts \in Counts
      /\ \A p \in Polls : Cast(p, Zero)
      /\ \A s \in Sockets : sock[s].poll # NoPoll => Cast(sock[s].poll, sock[s].counts)
      /\ PollInv'
  <2>1. \A s \in Sockets : sock[s].at # "idle" => sock[s].poll \in Polls
    BY DEF PollInv, CommandsAreSane, TypeOK
  <2>. QED  BY <2>1, PollStep, SockFields, CastZero, LivePollAssumption
            DEF PollInv, TypeOK, State, Row, CountInv, MessagesWereCast
<1>. DEFINE Quiet == /\ UNCHANGED <<tally, times>>
                     /\ \A q \in Sockets :
                          \/ sock'[q].poll = sock[q].poll /\ sock'[q].counts = sock[q].counts
                          \/ sock'[q].poll = NoPoll
                          \/ Cast(sock'[q].poll, sock'[q].counts)
<1>1. ASSUME NEW s \in Sockets, NEW at \in Steps, Goto(s, at), UNCHANGED <<tally, times>> PROVE Quiet
  BY <1>0, <1>1, GotoSock
<1>2. ASSUME NEW s \in Sockets, Done(s), UNCHANGED <<tally, times>> PROVE Quiet
  BY <1>0, <1>2, DoneSock
<1>3. ASSUME Quiet, UNCHANGED <<rows, voters, dropped, screen, state>> PROVE CountInv'
  BY <1>0, <1>3, NoVoteStep
<1>4. ASSUME NEW s \in Sockets, NEW p \in Polls, StartPoll(s, p) PROVE CountInv'
  <2>1. Quiet
    BY <1>0, <1>4, BeginSock, PollValues DEF StartPoll, Steps, counting
  <2>. QED  BY <1>3, <1>4, <2>1 DEF StartPoll
<1>5. ASSUME NEW s \in Sockets, NEW p \in Polls, EndPoll(s, p) PROVE CountInv'
  <2>1. Cast(p, state.counts)
    BY <1>0, <1>5, CastZero DEF EndPoll, CountInv, TallyIsWhatWasCast
  <2>2. Quiet
    BY <1>0, <1>5, <2>1, BeginSock, PollValues DEF EndPoll, Steps, counting
  <2>. QED  BY <1>3, <1>5, <2>2 DEF EndPoll
<1>6. ASSUME NEW s \in Sockets, NEW p \in Polls, NEW o \in Options, Vote(s, p, o) PROVE CountInv'
  <2>1. state'.counts \in Counts
    BY <1>0 DEF TypeOK, State
  <2>2. /\ sock'[s].poll = p /\ sock'[s].counts = state'.counts
        /\ \A q \in Sockets \ {s} : sock'[q] = sock[q]
    BY <1>0, <1>6, <2>1, BeginSock, PollValues DEF Vote, Steps
  <2>. QED  BY <1>0, <1>6, <2>2, VoteStep DEF Vote
<1>7. ASSUME NEW s \in Sockets, NEW p \in Polls, NEW o \in Options, VoteUnanswered(s, p, o)
      PROVE  CountInv'
  BY <1>0, <1>7, VoteStep DEF VoteUnanswered
<1>8. ASSUME NEW s \in Sockets, DropVoters(s) PROVE CountInv'
  <2>1. Quiet
    BY <1>1, <1>8 DEF DropVoters, Steps, counting
  <2>2. sock[s].old # NoPoll => sock[s].old \in Polls
    BY <1>0 DEF SomePoll
  <2>. QED  BY <1>0, <1>8, <2>1, <2>2, NoVoteStep DEF DropVoters
<1>9. ASSUME NEW s \in Sockets, sock[s].at = "set", Quiet, UNCHANGED <<rows, voters, dropped, screen>>,
             state' \in {state, [poll |-> sock[s].poll, counts |-> Zero]}
      PROVE  CountInv'
  <2>1. /\ tally[sock[s].poll] = Zero /\ sock[s].poll \in Polls
        /\ \A u \in Users : times[sock[s].poll][u] = 0
    BY <1>0, <1>9 DEF PollInv, StartsAreFresh
  <2>. QED  BY <1>0, <1>9, <2>1, NoVoteStep
<1>10. ASSUME NEW s \in Sockets, SetState(s) PROVE CountInv'
  <2>1. Quiet
    BY <1>1, <1>10 DEF SetState, Steps, counting
  <2>. QED  BY <1>9, <1>10, <2>1 DEF SetState
<1>11. ASSUME NEW s \in Sockets, SetFails(s) PROVE CountInv'
  <2>1. Quiet
    BY <1>2, <1>11 DEF SetFails, counting
  <2>. QED  BY <1>9, <1>11, <2>1 DEF SetFails
<1>12. ASSUME NEW s \in Sockets, InsertRow(s) PROVE CountInv'
  <2>1. Quiet
    BY <1>1, <1>12 DEF InsertRow, Steps, counting
  <2>2. \A p \in Polls : rows'[p].counts = rows[p].counts \/ Cast(p, rows'[p].counts)
    BY <1>0, <1>12 DEF InsertRow
  <2>. QED  BY <1>0, <1>12, <2>1, <2>2, NoVoteStep DEF InsertRow
<1>13. ASSUME NEW s \in Sockets, SaveCounts(s) PROVE CountInv'
  <2>1. Quiet
    BY <1>1, <1>13 DEF SaveCounts, Steps, counting
  <2>2. \A p \in Polls : rows'[p].counts = rows[p].counts \/ Cast(p, rows'[p].counts)
    BY <1>0, <1>13 DEF SaveCounts, Row
  <2>. QED  BY <1>0, <1>13, <2>1, <2>2, NoVoteStep DEF SaveCounts
<1>14. ASSUME NEW s \in Sockets, SaveEnded(s) PROVE CountInv'
  <2>1. Quiet
    BY <1>1, <1>14 DEF SaveEnded, Steps, counting
  <2>2. \A p \in Polls : rows'[p].counts = rows[p].counts \/ Cast(p, rows'[p].counts)
    BY <1>0, <1>14 DEF SaveEnded
  <2>. QED  BY <1>0, <1>14, <2>1, <2>2, NoVoteStep DEF SaveEnded
<1>15. ASSUME NEW s \in Sockets, AnnouncePoll(s) \/ PublishResults(s) \/ PublishEnded(s) PROVE CountInv'
  <2>1. Quiet
    BY <1>2, <1>15 DEF AnnouncePoll, PublishResults, PublishEnded, counting
  <2>2. screen \in Screen /\ sock[s].poll \in Polls
    BY <1>0, <1>15 DEF AnnouncePoll, PublishResults, PublishEnded, TypeOK
  <2>3. \/ screen' = screen
        \/ Cast(screen'.poll, screen'.counts)
    <3>1. CASE AnnouncePoll(s)
      BY <1>0, <2>2, <3>1 DEF AnnouncePoll
    <3>2. CASE PublishResults(s)
      BY <1>0, <2>2, <3>2 DEF PublishResults, Screen
    <3>3. CASE PublishEnded(s)
      BY <1>0, <2>2, <3>3 DEF PublishEnded, Screen
    <3>. QED  BY <1>15, <3>1, <3>2, <3>3
  <2>. QED  BY <1>0, <1>15, <2>1, <2>3, NoVoteStep DEF AnnouncePoll, PublishResults, PublishEnded
<1>16. ASSUME NEW s \in Sockets, DeletePoll(s) \/ DeleteFails(s) PROVE CountInv'
  <2>1. Quiet
    BY <1>1, <1>2, <1>16 DEF DeletePoll, DeleteFails, Steps, counting
  <2>2. /\ \A p \in Polls : voters'[p] \subseteq voters[p]
        /\ (state' = state /\ voters' = voters) \/ state'.poll = NoPoll
        /\ UNCHANGED <<rows, dropped, screen>>
    BY <1>0, <1>16 DEF DeletePoll, DeleteFails, DeleteKeys, NoState
  <2>. QED  BY <1>0, <2>1, <2>2, NoVoteStep
<1>17. ASSUME NEW s \in Sockets, StepFails(s) \/ PublishFails(s) PROVE CountInv'
  <2>1. Quiet
    BY <1>1, <1>2, <1>17, FollowingIs DEF StepFails, PublishFails, counting
  <2>. QED  BY <1>3, <1>17, <2>1 DEF StepFails, PublishFails
<1>18. ASSUME ClearRead \/ ClearFails \/ UNCHANGED vars PROVE CountInv'
  BY <1>3, <1>18 DEF ClearRead, ClearFails, vars, counting
<1>19. ASSUME ClearVoters PROVE CountInv'
  <2>1. closer.poll # NoPoll => closer.poll \in Polls
    BY <1>0 DEF TypeOK, SomePoll
  <2>. QED  BY <1>0, <1>19, <2>1, NoVoteStep DEF ClearVoters, counting
<1>20. ASSUME ClearState \/ Expire PROVE CountInv'
  <2>1. state'.poll = NoPoll
    BY <1>20 DEF ClearState, Expire, NoState
  <2>. QED  BY <1>0, <1>20, <2>1, NoVoteStep DEF ClearState, Expire, counting
<1>. QED
  BY <1>4, <1>5, <1>6, <1>7, <1>8, <1>10, <1>11, <1>12, <1>13, <1>14, <1>15, <1>16, <1>17,
     <1>18, <1>19, <1>20 DEF Next

------------------------------------------------------------------------------
(* What the clients show.                                                  *)

\* Nothing failed, the room was not cleared, and staff commands did not overlap.
Orderly == faults = 0 /\ ~crowded /\ closer.at = "idle"

Shown == IF screen.ended THEN NoPoll ELSE screen.poll

\* What the staff command under way has done so far; there is one at most.
Conducted(s) ==
  LET at == sock[s].at p == sock[s].poll IN
  /\ at \in {"drop", "set"} => state.poll = Shown
  /\ at \in {"insert", "announce"} => state.poll = p
  /\ at = "delete" => state.poll = p /\ screen.poll = p /\ ~screen.ended
  /\ at \in {"close", "ended"} => state.poll = NoPoll /\ screen.poll = p

\* What the clients show follows the broker, but for what that command has left to do.
Follows ==
  /\ Conducting = {} => state.poll = Shown
  /\ \A s, q \in Conducting : s = q
  /\ \A s \in Conducting : Conducted(s)

ScreenInv == Orderly => Follows

LEMMA ScreenInit == Init => ScreenInv
<1>. SUFFICES ASSUME Init PROVE Follows
  BY DEF ScreenInv
<1>1. Conducting = {}
  BY LivePollAssumption DEF Init, Conducting, Idle
<1>. QED  BY <1>1 DEF Init, Follows, Shown, NoState

\* Steps that leave the poll of the broker, that of the screen and the conductors alone.
LEMMA AudienceStep ==
  ASSUME ScreenInv, Orderly' => Orderly, state'.poll = state.poll,
         screen'.poll = screen.poll, screen'.ended = screen.ended,
         \A q \in Sockets :
           \/ sock'[q] = sock[q]
           \/ {sock[q].at, sock'[q].at} \subseteq {"idle", "tally", "results"}
  PROVE  ScreenInv'
<1>1. Conducting' = Conducting /\ Conducting \subseteq Sockets
  BY LivePollAssumption DEF Conducting
<1>2. \A s \in Conducting : sock'[s] = sock[s]
  BY <1>1 DEF Conducting
<1>3. Shown' = Shown
  BY DEF Shown
<1>4. \A s \in Conducting : Conducted(s) => Conducted(s)'
  BY <1>2, <1>3 DEF Conducted
<1>. QED  BY <1>1, <1>3, <1>4 DEF ScreenInv, Follows

\* A step of the staff command of s, which may be its first or its last.
LEMMA ConductStep ==
  ASSUME ScreenInv, Orderly' => Orderly, NEW s \in Staff,
         Orderly' => Conducting \subseteq {s},
         \A q \in Sockets \ {s} : sock'[q] = sock[q],
         Orderly /\ (IF s \in Conducting THEN Conducted(s) ELSE state.poll = Shown) =>
           IF sock'[s].at \in {"idle", "tally", "results"} THEN state'.poll = Shown'
           ELSE Conducted(s)'
  PROVE  ScreenInv'
<1>. SUFFICES ASSUME Orderly' PROVE Follows'
  BY DEF ScreenInv
<1>1. Orderly /\ Follows
  BY DEF ScreenInv
<1>2. IF s \in Conducting THEN Conducted(s) ELSE state.poll = Shown
  BY <1>1 DEF Follows
<1>3. IF sock'[s].at \in {"idle", "tally", "results"} THEN state'.poll = Shown' ELSE Conducted(s)'
  BY <1>1, <1>2
<1>4. \A q \in Staff \ {s} : q \notin Conducting /\ sock'[q] = sock[q]
  BY LivePollAssumption
<1>5. Conducting' \subseteq {s}
  BY <1>4 DEF Conducting
<1>6. s \in Conducting' <=> sock'[s].at \notin {"idle", "tally", "results"}
  BY DEF Conducting
<1>. QED  BY <1>3, <1>5, <1>6 DEF Follows

LEMMA ScreenStep == PollInv /\ ScreenInv /\ [Next]_vars => ScreenInv'
<1>. SUFFICES ASSUME PollInv, ScreenInv, [Next]_vars PROVE ScreenInv'
  OBVIOUS
<1>0. /\ TypeOK /\ sock \in [Sockets -> Command] /\ Staff \subseteq Sockets /\ NoPoll \notin Polls
      /\ \A s \in Sockets : /\ sock[s].poll \in SomePoll /\ sock[s].at \in Steps
                            /\ sock[s].old \in SomePoll /\ sock[s].counts \in Counts
      /\ \A s \in Sockets :
           sock[s].at \notin {"idle", "tally", "results"} =>
             s \in Staff /\ s \in Conducting /\ sock[s].poll # NoPoll
      /\ state.counts \in Counts
  <2>1. TypeOK /\ CommandsAreSane /\ Staff \subseteq Sockets /\ NoPoll \notin Polls
    BY LivePollAssumption DEF PollInv
  <2>2. \A s \in Sockets : /\ sock[s].poll \in SomePoll /\ sock[s].at \in Steps
                           /\ sock[s].old \in SomePoll /\ sock[s].counts \in Counts
    BY <2>1, SockFields
  <2>. QED  BY <2>1, <2>2 DEF TypeOK, CommandsAreSane, Conducting, State
<1>1. ASSUME Fault PROVE ScreenInv'
  BY <1>0, <1>1 DEF Fault, TypeOK, ScreenInv, Orderly
<1>2. Orderly => \A s, q \in Conducting : s = q
  BY DEF ScreenInv, Follows
<1>3. ASSUME NEW s \in Sockets, NEW at \in Steps, Goto(s, at)
      PROVE  /\ sock'[s].at = at /\ sock'[s].poll = sock[s].poll
             /\ \A q \in Sockets \ {s} : sock'[q] = sock[q]
  BY <1>0, <1>3, GotoSock
<1>4. ASSUME NEW s \in Sockets, Done(s)
      PROVE  sock'[s].at = "idle" /\ \A q \in Sockets \ {s} : sock'[q] = sock[q]
  BY <1>0, <1>4, DoneSock
<1>5. ASSUME NEW s \in Sockets, NEW p \in Polls, StartPoll(s, p) \/ EndPoll(s, p)
      PROVE  ScreenInv'
  <2>1. /\ s \in Staff /\ sock[s].at = "idle"
        /\ UNCHANGED <<state, screen, faults, closer>>
        /\ crowded' = (crowded \/ Conducting # {})
    BY <1>5 DEF StartPoll, EndPoll, Idle
  <2>2. /\ sock'[s].poll = p
        /\ \/ sock'[s].at = "drop"
           \/ sock'[s].at = "delete" /\ state.poll = p
        /\ \A q \in Sockets \ {s} : sock'[q] = sock[q]
    <3>1. CASE StartPoll(s, p)
      BY <1>0, <3>1, BeginSock, PollValues DEF StartPoll, Steps, State, TypeOK
    <3>2. CASE EndPoll(s, p)
      BY <1>0, <3>2, BeginSock, PollValues DEF EndPoll, Steps, State, TypeOK
    <3>. QED  BY <1>5, <3>1, <3>2
  <2>3. Orderly' => Orderly /\ Conducting = {}
    BY <2>1 DEF Orderly
  <2>4. s \notin Conducting
    BY <2>1 DEF Conducting
  <2>5. Shown' = Shown
    BY <2>1 DEF Shown
  <2>6. state.poll = Shown => Conducted(s)'
    BY <1>0, <2>1, <2>2, <2>5 DEF Conducted, Shown
  <2>7. sock'[s].at \notin {"idle", "tally", "results"}
    BY <2>2
  <2>. QED  BY <2>1, <2>2, <2>3, <2>4, <2>6, <2>7, ConductStep
<1>6. ASSUME NEW s \in Sockets, NEW p \in Polls, NEW o \in Options,
             Vote(s, p, o) \/ VoteUnanswered(s, p, o)
      PROVE  ScreenInv'
  <2>1. CASE VoteUnanswered(s, p, o)
    BY <1>1, <2>1 DEF VoteUnanswered
  <2>2. CASE Vote(s, p, o)
    <3>0. VoteScript(s, p, o) /\ sock[s].at = "idle"
      BY <2>2 DEF Vote, VoteScript, Idle
    <3>1. state'.poll = state.poll
      BY <1>0, <3>0, VoteScriptIs
    <3>2. UNCHANGED <<screen, faults, crowded, closer>>
      BY <2>2 DEF Vote
    <3>3. sock'[s].at = "tally" /\ \A q \in Sockets \ {s} : sock'[q] = sock[q]
      BY <1>0, <2>2 DEF Vote
    <3>. QED  BY <3>0, <3>1, <3>2, <3>3, AudienceStep DEF Orderly
  <2>. QED  BY <1>6, <2>1, <2>2
<1>7. ASSUME NEW s \in Sockets, SaveCounts(s) \/ PublishResults(s) PROVE ScreenInv'
  <2>1. /\ sock[s].at \in {"idle", "tally", "results"} /\ UNCHANGED <<state, faults, crowded, closer>>
        /\ screen'.poll = screen.poll /\ screen'.ended = screen.ended
    BY <1>0, <1>7 DEF SaveCounts, PublishResults, TypeOK, Screen
  <2>2. /\ sock'[s].at \in {"idle", "tally", "results"}
        /\ \A q \in Sockets \ {s} : sock'[q] = sock[q]
    BY <1>3, <1>4, <1>7 DEF SaveCounts, PublishResults, Steps
  <2>. QED  BY <2>1, <2>2, AudienceStep DEF Orderly
<1>8. ASSUME NEW s \in Sockets, sock[s].at \notin {"idle", "tally", "results"},
             UNCHANGED <<faults, crowded, closer>>,
             \A q \in Sockets \ {s} : sock'[q] = sock[q],
             Orderly /\ Conducted(s) =>
               IF sock'[s].at \in {"idle", "tally", "results"} THEN state'.poll = Shown'
               ELSE Conducted(s)'
      PROVE  ScreenInv'
  <2>1. s \in Staff /\ s \in Conducting
    BY <1>0, <1>8
  <2>2. (Orderly' => Orderly) /\ (Orderly' => Conducting \subseteq {s})
    BY <1>2, <1>8, <2>1 DEF Orderly
  <2>. QED  BY <1>8, <2>1, <2>2, ConductStep
<1>9. ASSUME NEW s \in Sockets, DropVoters(s) \/ SetState(s) \/ InsertRow(s) PROVE ScreenInv'
  <2>1. UNCHANGED <<screen, faults, crowded, closer>>
    BY <1>9 DEF DropVoters, SetState, InsertRow
  <2>2. /\ \A q \in Sockets \ {s} : sock'[q] = sock[q]
        /\ sock'[s].poll = sock[s].poll
        /\ \/ sock[s].at = "drop" /\ sock'[s].at = "set" /\ state' = state
           \/ sock[s].at = "set" /\ sock'[s].at = "insert" /\ state'.poll = sock[s].poll
           \/ sock[s].at = "insert" /\ sock'[s].at = "announce" /\ state' = state
    BY <1>3, <1>9 DEF DropVoters, SetState, InsertRow, Steps
  <2>3. Shown' = Shown
    BY <2>1 DEF Shown
  <2>4. Conducted(s) => Conducted(s)'
    BY <2>2, <2>3 DEF Conducted
  <2>. QED  BY <1>8, <2>1, <2>2, <2>4
<1>10. ASSUME NEW s \in Sockets, AnnouncePoll(s) PROVE ScreenInv'
  <2>1. /\ sock[s].at = "announce" /\ sock'[s].at = "idle" /\ UNCHANGED <<state, faults, crowded, closer>>
        /\ \A q \in Sockets \ {s} : sock'[q] = sock[q]
        /\ screen' = [poll |-> sock[s].poll, ended |-> FALSE, counts |-> Zero]
    BY <1>4, <1>10 DEF AnnouncePoll
  <2>2. Conducted(s) => state'.poll = Shown'
    BY <2>1 DEF Conducted, Shown
  <2>. QED  BY <1>8, <2>1, <2>2
<1>11. ASSUME NEW s \in Sockets, DeletePoll(s) \/ SaveEnded(s) PROVE ScreenInv'
  <2>1. UNCHANGED <<screen, faults, crowded, closer>>
    BY <1>11 DEF DeletePoll, SaveEnded
  <2>2. /\ \A q \in Sockets \ {s} : sock'[q] = sock[q]
        /\ sock'[s].poll = sock[s].poll
        /\ \/ sock[s].at = "delete" /\ sock'[s].at = "close" /\ state'.poll = NoPoll
           \/ sock[s].at = "close" /\ sock'[s].at = "ended" /\ state' = state
    BY <1>3, <1>11 DEF DeletePoll, DeleteKeys, SaveEnded, Steps, NoState
  <2>3. Conducted(s) => Conducted(s)'
    BY <2>1, <2>2 DEF Conducted
  <2>. QED  BY <1>8, <2>1, <2>2, <2>3
<1>12. ASSUME NEW s \in Sockets, PublishEnded(s) PROVE ScreenInv'
  <2>1. /\ sock[s].at = "ended" /\ sock'[s].at = "idle" /\ UNCHANGED <<state, faults, crowded, closer>>
        /\ \A q \in Sockets \ {s} : sock'[q] = sock[q]
    BY <1>4, <1>12 DEF PublishEnded
  <2>2. screen.poll = sock[s].poll => screen'.ended = TRUE
    BY <1>0, <1>12 DEF PublishEnded, TypeOK, Screen
  <2>3. Conducted(s) => state'.poll = Shown'
    BY <2>1, <2>2 DEF Conducted, Shown
  <2>. QED  BY <1>8, <2>1, <2>3
<1>13. ASSUME NEW s \in Sockets,
              SetFails(s) \/ DeleteFails(s) \/ StepFails(s) \/ PublishFails(s)
       PROVE  ScreenInv'
  BY <1>1, <1>13 DEF SetFails, DeleteFails, StepFails, PublishFails
<1>14. ASSUME ClearRead \/ ClearVoters \/ ClearState PROVE ScreenInv'
  <2>1. closer'.at # "idle"
    BY <1>0, <1>14 DEF ClearRead, ClearVoters, ClearState, TypeOK
  <2>. QED  BY <2>1 DEF ScreenInv, Orderly
<1>15. ASSUME ClearFails \/ Expire PROVE ScreenInv'
  BY <1>1, <1>15 DEF ClearFails, Expire
<1>16. ASSUME UNCHANGED vars PROVE ScreenInv'
  BY <1>16, AudienceStep DEF vars, Orderly
<1>. QED
  BY <1>5, <1>6, <1>7, <1>9, <1>10, <1>11, <1>12, <1>13, <1>14, <1>15, <1>16 DEF Next

------------------------------------------------------------------------------
(* The theorems on polls.                                                  *)

\* The keys, rows and messages of the polls, and what sockets hold of them between two
\* steps, always have their types.
THEOREM TypeCorrect == Spec => []TypeOK
<1>1. PollInv => TypeOK
  BY DEF PollInv
<1>. QED  BY PollInit, PollStep, <1>1, PTL DEF Spec

LEMMA Counting == Spec => [](PollInv /\ CountInv)
BY PollInit, PollStep, CountInit, CountStep, PTL DEF Spec

\* No increment is lost: however votes, replacements and ends interleave and whatever
\* fails, the tally in Redis is what was counted for its poll (poll_vote's script).
THEOREM TallyIsExact == Spec => []TallyIsWhatWasCast
<1>1. CountInv => TallyIsWhatWasCast
  BY DEF CountInv
<1>. QED  BY Counting, <1>1, PTL

\* Each user is counted once in each poll, whatever is sent twice, as long as the voters
\* of the poll were not dropped ahead of its state (poll_vote's voter set).
THEOREM VotesAreUnique == Spec => []VotersAreCountedOnce
<1>1. CountInv => VotersAreCountedOnce
  BY DEF CountInv
<1>. QED  BY Counting, <1>1, PTL

\* The counts that clients show and rows keep never exceed what was counted for the poll
\* they stand under, however late they arrive (persist_poll_counts and PollResults).
THEOREM ResultsAreReal == Spec => []ShownWasCast
<1>1. CountInv => ShownWasCast
  BY DEF CountInv
<1>. QED  BY Counting, <1>1, PTL

\* If nothing fails and staff commands do not overlap, clients offer the poll that takes
\* votes, and none after it has ended, whenever no staff command is under way.
THEOREM ClientsFollow == Spec => []ScreenFollowsBroker
<1>1. ScreenInv => ScreenFollowsBroker
  BY DEF ScreenInv, Orderly, Follows, Shown, ScreenFollowsBroker
<1>. QED  BY PollInit, PollStep, ScreenInit, ScreenStep, <1>1, PTL DEF Spec

------------------------------------------------------------------------------
(***************************************************************************)
(* The whiteboard.                                                         *)
(***************************************************************************)

Distinct(q) == \A i, j \in DOMAIN q : q[i] = q[j] => i = j
Drawing(s) == \E w \in Connections : cmd[w].at = "draw" /\ cmd[w].stroke = s
Pending(s) == \E w \in Connections : cmd[w].at = "stroke" /\ cmd[w].stroke = s
Told(c, s) == \E i \in DOMAIN backlog[c] : backlog[c][i].kind = "stroke" /\ backlog[c][i].stroke = s

\* What a command or an event names.
Named ==
  /\ \A w \in Connections :
       cmd[w].at \in {"draw", "erase", "remove", "stroke", "removed"} => cmd[w].stroke \in Strokes
  /\ \A c \in Connections : \A i \in DOMAIN backlog[c] :
       backlog[c][i].kind # "clear" => backlog[c][i].stroke \in Strokes
  /\ \A c \in Connections : joined[c] = "out" => backlog[c] = <<>>

\* A stroke that is not drawn yet, or still on its way to the list, is nowhere. It is
\* announced once: what a client shows of it before that is from a snapshot.
OwnInv ==
  /\ Distinct(list)
  /\ \A w \in Connections : cmd[w].at \in {"draw", "stroke"} =>
       cmd[w].stroke \in drawn /\ AuthorOf[cmd[w].stroke] = w
  /\ \A s \in Strokes : s \notin drawn \/ Drawing(s) =>
       s \notin Elements(list) /\ \A c \in Connections : board[c][s] = 0 /\ ~Told(c, s)
  /\ \A s \in Strokes, c \in Connections : Pending(s) => ~Told(c, s)
  /\ \A c \in Connections : \A i, j \in DOMAIN backlog[c] :
       backlog[c][i].kind = "stroke" /\ backlog[c][i] = backlog[c][j] => i = j
  /\ \A c \in Connections : \A s \in Strokes :
       (Told(c, s) \/ Pending(s)) /\ board[c][s] > 0 => s \in twice[c]
  /\ StrokeAppearsOnce

\* What the events say of a stroke.
Touches(e, s) == e.kind = "clear" \/ e.stroke = s
LastOf(c, s, i) ==
  /\ i \in DOMAIN backlog[c] /\ Touches(backlog[c][i], s)
  /\ \A j \in DOMAIN backlog[c] : j > i => ~Touches(backlog[c][j], s)
Untouched(c, s) == \A i \in DOMAIN backlog[c] : ~Touches(backlog[c][i], s)
Announces(k, s) == k.at \in Kinds /\ (k.at = "clear" \/ k.stroke = s)
Announcing(s) == \E w \in Connections : Announces(cmd[w], s)

\* Commands that do not overlap change the list and then say so; each stroke is in the
\* list or not as the last event of it says that a client is to receive, or as the
\* client shows if there is none.
AgreeInv ==
  ~rough =>
    /\ \A v, w \in Busy : v = w
    /\ \A w \in Connections :
         /\ cmd[w].at = "stroke" => cmd[w].stroke \in Elements(list)
         /\ cmd[w].at = "removed" => cmd[w].stroke \notin Elements(list)
         /\ cmd[w].at = "clear" => list = <<>>
    /\ \A c \in Connections, s \in Strokes : ~Announcing(s) =>
         /\ \A i \in DOMAIN backlog[c] : LastOf(c, s, i) =>
              (s \in Elements(list) <=> backlog[c][i].kind = "stroke")
         /\ joined[c] = "in" /\ Untouched(c, s) => (s \in Elements(list) <=> board[c][s] > 0)

------------------------------------------------------------------------------
(* Sequences without repetitions.                                          *)

LEMMA ElementsAre ==
  ASSUME NEW S, NEW q \in Seq(S), NEW x
  PROVE  x \in Elements(q) <=> \E i \in 1..Len(q) : x = q[i]
<1>1. DOMAIN q = 1..Len(q)
  BY LenProperties
<1> QED  BY <1>1 DEF Elements

LEMMA WithoutIs ==
  ASSUME NEW S, NEW q \in Seq(S), Distinct(q), NEW s
  PROVE  /\ Without(q, s) \in Seq(S) /\ Len(Without(q, s)) <= Len(q)
         /\ Distinct(Without(q, s)) /\ Elements(Without(q, s)) = Elements(q) \ {s}
<1>1. Len(q) \in Nat /\ DOMAIN q = 1..Len(q) /\ \A i \in 1..Len(q) : q[i] \in S
  BY LenProperties, ElementOfSeq
<1>2. CASE s \notin Elements(q)
  BY <1>1, <1>2 DEF Without
<1>3. CASE s \in Elements(q)
  <2> DEFINE n == CHOOSE i \in DOMAIN q : q[i] = s
             a == SubSeq(q, 1, n - 1)
             b == SubSeq(q, n + 1, Len(q))
             r == a \o b
             h == [k \in 1..(Len(q) - 1) |-> IF k < n THEN k ELSE k + 1]
  <2>1. n \in 1..Len(q) /\ q[n] = s
    BY <1>1, <1>3 DEF Elements
  <2>2. Without(q, s) = r
    BY <1>3 DEF Without
  <2> HIDE DEF n
  <2>3. /\ a \in Seq(S) /\ Len(a) = n - 1
        /\ \A i \in 1..n - 1 : a[i] = q[i]
    <3>1. \A i \in 1..n - 1 : q[i] \in S
      BY <1>1, <2>1
    <3>2. /\ SubSeq(q, 1, n - 1) \in Seq(S)
          /\ Len(SubSeq(q, 1, n - 1)) = IF 1 <= n - 1 THEN (n - 1) - 1 + 1 ELSE 0
          /\ \A i \in 1..(n - 1) - 1 + 1 : SubSeq(q, 1, n - 1)[i] = q[1 + i - 1]
      BY <1>1, <2>1, <3>1, SubSeqProperties
    <3> QED  BY <2>1, <3>2
  <2>4. /\ b \in Seq(S) /\ Len(b) = Len(q) - n
        /\ \A i \in 1..Len(q) - n : b[i] = q[n + i]
    <3>1. \A i \in n + 1..Len(q) : q[i] \in S
      BY <1>1, <2>1
    <3>2. /\ SubSeq(q, n + 1, Len(q)) \in Seq(S)
          /\ Len(SubSeq(q, n + 1, Len(q))) = IF n + 1 <= Len(q) THEN Len(q) - (n + 1) + 1 ELSE 0
          /\ \A i \in 1..Len(q) - (n + 1) + 1 : SubSeq(q, n + 1, Len(q))[i] = q[(n + 1) + i - 1]
      BY <1>1, <2>1, <3>1, SubSeqProperties
    <3>0. n \in Int /\ Len(q) \in Int /\ n <= Len(q)
      BY <1>1, <2>1
    <3>3. /\ Len(q) - (n + 1) + 1 = Len(q) - n
          /\ (IF n + 1 <= Len(q) THEN Len(q) - (n + 1) + 1 ELSE 0) = Len(q) - n
          /\ \A i \in 1..Len(q) - n : (n + 1) + i - 1 = n + i
      BY <3>0
    <3> HIDE DEF b
    <3>4. b \in Seq(S) /\ Len(b) = Len(q) - n
      BY <3>2, <3>3 DEF b
    <3>5. ASSUME NEW i \in 1..Len(q) - n PROVE b[i] = q[n + i]
      <4>1. b[i] = q[(n + 1) + i - 1]
        BY <3>2, <3>3 DEF b
      <4> QED  BY <3>3, <4>1
    <3> QED  BY <3>4, <3>5
  <2> HIDE DEF a, b
  <2>5. /\ r \in Seq(S) /\ Len(r) = Len(q) - 1
        /\ \A i \in 1..Len(q) - 1 : r[i] = IF i <= n - 1 THEN a[i] ELSE b[i - (n - 1)]
    <3>1. /\ a \o b \in Seq(S)
          /\ Len(a \o b) = Len(a) + Len(b)
          /\ \A i \in 1..Len(a) + Len(b) :
               (a \o b)[i] = IF i <= Len(a) THEN a[i] ELSE b[i - Len(a)]
      BY <2>3, <2>4, ConcatProperties
    <3>2. Len(a) + Len(b) = Len(q) - 1 /\ Len(a) = n - 1
      BY <1>1, <2>1, <2>3, <2>4
    <3> HIDE DEF r
    <3>3. r = a \o b
      BY DEF r
    <3> QED  BY <3>1, <3>2, <3>3
  <2>6. ASSUME NEW i \in 1..Len(q) - 1
        PROVE  \E k \in 1..Len(q) : k = (IF i < n THEN i ELSE i + 1) /\ r[i] = q[k]
    <3>1. CASE i <= n - 1
      BY <1>1, <2>1, <2>3, <2>5, <3>1
    <3>2. CASE ~(i <= n - 1)
      <4>1. i - (n - 1) \in 1..Len(q) - n /\ n + (i - (n - 1)) = i + 1
        BY <1>1, <2>1, <3>2
      <4>2. r[i] = b[i - (n - 1)] /\ b[i - (n - 1)] = q[n + (i - (n - 1))]
        BY <2>4, <2>5, <3>2, <4>1
      <4> QED  BY <1>1, <2>1, <3>2, <4>1, <4>2
    <3> QED  BY <3>1, <3>2
  <2> HIDE DEF r
  <2>7. n \in Int /\ Len(q) \in Nat /\ \A k \in 1..Len(q) : q[k] = s <=> k = n
    BY <1>1, <2>1 DEF Distinct
  <2>8. Distinct(r)
    <3>1. DOMAIN r = 1..Len(q) - 1
      BY <2>5, LenProperties
    <3> SUFFICES ASSUME NEW i \in 1..Len(q) - 1, NEW j \in 1..Len(q) - 1, r[i] = r[j] PROVE i = j
      BY <3>1 DEF Distinct
    <3>2. PICK k \in 1..Len(q) : k = (IF i < n THEN i ELSE i + 1) /\ r[i] = q[k]
      BY <2>6
    <3>3. PICK l \in 1..Len(q) : l = (IF j < n THEN j ELSE j + 1) /\ r[j] = q[l]
      BY <2>6
    <3>4. k = l
      BY <1>1, <3>2, <3>3 DEF Distinct
    <3> QED  BY <2>7, <3>2, <3>3, <3>4
  <2>9. Elements(r) \subseteq Elements(q) \ {s}
    <3> SUFFICES ASSUME NEW x \in Elements(r) PROVE x \in Elements(q) /\ x # s
      OBVIOUS
    <3>1. PICK i \in 1..Len(q) - 1 : x = r[i]
      BY <2>5, ElementsAre
    <3>2. PICK k \in 1..Len(q) : k = (IF i < n THEN i ELSE i + 1) /\ r[i] = q[k]
      BY <2>6
    <3>3. k # n
      BY <2>7, <3>2
    <3>4. x = q[k] /\ x # s
      BY <2>7, <3>1, <3>2, <3>3
    <3> QED  BY <3>4, ElementsAre
  <2>10. Elements(q) \ {s} \subseteq Elements(r)
    <3> SUFFICES ASSUME NEW x \in Elements(q), x # s PROVE x \in Elements(r)
      OBVIOUS
    <3>1. PICK k \in 1..Len(q) : x = q[k]
      BY ElementsAre
    <3>2. PICK i \in 1..Len(q) - 1 : k = (IF i < n THEN i ELSE i + 1)
      <4>1. k # n
        BY <2>7, <3>1
      <4>2. (k < n /\ k \in 1..Len(q) - 1) \/ (k > n /\ k - 1 \in 1..Len(q) - 1 /\ ~(k - 1 < n))
        BY <2>1, <2>7, <4>1
      <4>3. CASE k < n /\ k \in 1..Len(q) - 1
        BY <4>3
      <4>4. CASE k > n /\ k - 1 \in 1..Len(q) - 1 /\ ~(k - 1 < n)
        <5>1. k = (k - 1) + 1
          OBVIOUS
        <5> QED  BY <4>4, <5>1
      <4> QED  BY <4>2, <4>3, <4>4
    <3>3. x = r[i]
      BY <2>6, <3>1, <3>2
    <3> QED  BY <2>5, <3>3, ElementsAre
  <2> QED  BY <1>1, <2>2, <2>5, <2>8, <2>9, <2>10
<1> QED  BY <1>2, <1>3

\* The front of a sequence, and what is left of it when its oldest element is trimmed.
LEMMA FrontIs ==
  ASSUME NEW S, NEW q \in Seq(S), Distinct(q), q # <<>>
  PROVE  LET r == SubSeq(q, 1, Len(q) - 1)
         IN  /\ r \in Seq(S) /\ Len(r) <= Len(q)
             /\ Distinct(r) /\ Elements(r) = Elements(q) \ {q[Len(q)]}
<1> DEFINE r == SubSeq(q, 1, Len(q) - 1)
           n == Len(q)
<1>1. n \in Nat \ {0} /\ DOMAIN q = 1..n /\ \A i \in 1..n : q[i] \in S
  BY LenProperties, ElementOfSeq, EmptySeq
<1>2. /\ r \in Seq(S) /\ Len(r) = n - 1
      /\ \A i \in 1..n - 1 : r[i] = q[i]
  <2>1. \A i \in 1..n - 1 : q[i] \in S
    BY <1>1
  <2>2. /\ SubSeq(q, 1, n - 1) \in Seq(S)
        /\ Len(SubSeq(q, 1, n - 1)) = IF 1 <= n - 1 THEN (n - 1) - 1 + 1 ELSE 0
        /\ \A i \in 1..(n - 1) - 1 + 1 : SubSeq(q, 1, n - 1)[i] = q[1 + i - 1]
    BY <1>1, <2>1, SubSeqProperties
  <2> QED  BY <1>1, <2>2
<1>3. DOMAIN r = 1..n - 1
  BY <1>2, LenProperties
<1> HIDE DEF r, n
<1>4. Distinct(r)
  BY <1>1, <1>2, <1>3 DEF Distinct
<1>5. Elements(r) = Elements(q) \ {q[n]}
  BY <1>1, <1>2, <1>3 DEF Distinct, Elements
<1> QED  BY <1>1, <1>2, <1>4, <1>5 DEF r, n

LEMMA AppendIs ==
  ASSUME NEW S, NEW q \in Seq(S), NEW s \in S
  PROVE  /\ Append(q, s) \in Seq(S) /\ Len(Append(q, s)) = Len(q) + 1
         /\ DOMAIN Append(q, s) = 1..Len(q) + 1 /\ DOMAIN q = 1..Len(q) /\ Len(q) \in Nat
         /\ \A i \in 1..Len(q) : Append(q, s)[i] = q[i]
         /\ Append(q, s)[Len(q) + 1] = s
BY AppendProperties, LenProperties

LEMMA TailIs ==
  ASSUME NEW S, NEW q \in Seq(S), q # <<>>
  PROVE  /\ Tail(q) \in Seq(S) /\ Len(q) \in Nat \ {0} /\ DOMAIN q = 1..Len(q)
         /\ DOMAIN Tail(q) = 1..Len(q) - 1 /\ Len(Tail(q)) = Len(q) - 1
         /\ \A i \in 1..Len(q) - 1 : Tail(q)[i] = q[i + 1]
         /\ Head(q) = q[1]
<1>1. /\ Tail(q) \in Seq(S) /\ Len(Tail(q)) = Len(q) - 1
      /\ \A i \in 1..Len(Tail(q)) : Tail(q)[i] = q[i + 1]
  BY HeadTailProperties
<1>2. Len(q) \in Nat \ {0} /\ DOMAIN q = 1..Len(q) /\ DOMAIN Tail(q) = 1..Len(Tail(q))
  BY <1>1, LenProperties, EmptySeq
<1> QED  BY <1>1, <1>2

LEMMA KeptIs ==
  ASSUME NEW S, NEW q \in Seq(S), Distinct(q), Len(q) <= MaxStrokes, NEW s \in S,
         s \notin Elements(q)
  PROVE  LET r == Kept(Append(q, s))
         IN  /\ r \in Seq(S) /\ Len(r) <= MaxStrokes
             /\ Distinct(r) /\ Elements(r) \subseteq Elements(q) \cup {s}
             /\ Len(q) # MaxStrokes => Elements(r) = Elements(q) \cup {s}
<1> DEFINE a == Append(q, s)
<1>1. /\ a \in Seq(S) /\ Len(a) = Len(q) + 1 /\ DOMAIN a = 1..Len(q) + 1
      /\ DOMAIN q = 1..Len(q) /\ Len(q) \in Nat
      /\ \A i \in 1..Len(q) : a[i] = q[i]
      /\ a[Len(q) + 1] = s
  BY AppendIs
<1> HIDE DEF a
<1>2. Distinct(a)
  BY <1>1 DEF Distinct, Elements
<1>3. Elements(a) = Elements(q) \cup {s}
  <2>1. \A i \in 1..Len(q) + 1 : i \in 1..Len(q) \/ i = Len(q) + 1
    BY <1>1
  <2> QED  BY <1>1, <2>1 DEF Elements
<1>4. CASE Len(a) > MaxStrokes
  <2>1. a # <<>>
    BY <1>1, EmptySeq
  <2>2. /\ Tail(a) \in Seq(S) /\ DOMAIN Tail(a) = 1..Len(a) - 1 /\ Len(Tail(a)) = Len(a) - 1
        /\ \A i \in 1..Len(a) - 1 : Tail(a)[i] = a[i + 1]
    BY <1>1, <2>1, TailIs
  <2>3. Distinct(Tail(a)) /\ Elements(Tail(a)) \subseteq Elements(a)
    BY <1>1, <1>2, <2>2 DEF Distinct, Elements
  <2>4. Kept(a) = Tail(a)
    BY <1>4 DEF Kept
  <2>5. Len(q) = MaxStrokes /\ Len(Tail(a)) = MaxStrokes
    <3>1. Len(q) \in Nat /\ MaxStrokes \in Nat /\ Len(q) <= MaxStrokes /\ Len(a) = Len(q) + 1
      BY <1>1, WhiteboardAssumption
    <3>2. Len(Tail(a)) = Len(a) - 1
      BY <2>2
    <3> QED  BY <1>4, <3>1, <3>2
  <2> HIDE DEF a
  <2>6. /\ Kept(a) \in Seq(S) /\ Len(Kept(a)) <= MaxStrokes
        /\ Distinct(Kept(a)) /\ Elements(Kept(a)) \subseteq Elements(q) \cup {s}
    BY <1>3, <2>2, <2>3, <2>4, <2>5, WhiteboardAssumption
  <2> QED  BY <2>5, <2>6 DEF a
<1>5. CASE ~(Len(a) > MaxStrokes)
  <2>1. Kept(a) = a
    BY <1>5 DEF Kept
  <2>2. Len(a) <= MaxStrokes
    BY <1>1, <1>5, WhiteboardAssumption
  <2> HIDE DEF a
  <2>3. /\ Kept(a) \in Seq(S) /\ Len(Kept(a)) <= MaxStrokes
        /\ Distinct(Kept(a)) /\ Elements(Kept(a)) = Elements(q) \cup {s}
    BY <1>1, <1>2, <1>3, <2>1, <2>2
  <2> QED  BY <2>3 DEF a
<1> QED  BY <1>4, <1>5

------------------------------------------------------------------------------
(* Boards.                                                                 *)

LEMMA SizeIs ==
  ASSUME NEW b \in [Strokes -> Nat]
  PROVE  Size(b) \in Nat
BY SumNat, WhiteboardAssumption DEF Size

LEMMA BlankIs == Blank \in [Strokes -> Nat] /\ Size(Blank) = 0
<1>1. Blank \in [Strokes -> Nat] /\ \A s \in Strokes : Blank[s] = IF s \in {} THEN 1 ELSE 0
  BY DEF Blank
<1>2. Strokes \cap {} = {}
  OBVIOUS
<1> HIDE DEF Blank
<1>3. SumFunctionOnSet(Blank, Strokes) = Cardinality({})
  BY <1>1, <1>2, SumMembers, WhiteboardAssumption
<1> QED  BY <1>1, <1>3, FS_EmptySet DEF Size

\* A stroke more, and a stroke removed.
LEMMA MoreIs ==
  ASSUME NEW b \in [Strokes -> Nat], NEW s \in Strokes
  PROVE  LET m == [b EXCEPT ![s] = @ + 1]
         IN  m \in [Strokes -> Nat] /\ Size(m) = Size(b) + 1
<1> DEFINE m == [b EXCEPT ![s] = @ + 1]
<1>1. m \in [Strokes -> Nat] /\ m[s] = b[s] + 1 /\ \A x \in Strokes \ {s} : m[x] = b[x]
  OBVIOUS
<1> HIDE DEF m
<1>2. IsFiniteSet(Strokes) /\ IsFiniteSet(Strokes \ {s})
  BY WhiteboardAssumption, FS_Subset
<1>3. SumFunctionOnSet(m, Strokes) = m[s] + SumFunctionOnSet(m, Strokes \ {s})
  BY <1>1, <1>2, SumSplit
<1>4. SumFunctionOnSet(b, Strokes) = b[s] + SumFunctionOnSet(b, Strokes \ {s})
  BY <1>2, SumSplit
<1>5. SumFunctionOnSet(m, Strokes \ {s}) = SumFunctionOnSet(b, Strokes \ {s})
  BY <1>1, <1>2, SumEqual
<1>6. SumFunctionOnSet(b, Strokes \ {s}) \in Nat
  BY <1>2, SumNat
<1>7. Size(m) = Size(b) + 1
  BY <1>1, <1>3, <1>4, <1>5, <1>6 DEF Size
<1> QED  BY <1>1, <1>7 DEF m

LEMMA LessIs ==
  ASSUME NEW b \in [Strokes -> Nat], NEW s \in Strokes
  PROVE  LET m == [b EXCEPT ![s] = 0]
         IN  m \in [Strokes -> Nat] /\ Size(m) <= Size(b)
<1> DEFINE m == [b EXCEPT ![s] = 0]
<1>1. m \in [Strokes -> Nat] /\ \A x \in Strokes : m[x] \in Int /\ m[x] <= b[x]
  OBVIOUS
<1> HIDE DEF m
<1>2. Size(m) <= Size(b)
  BY <1>1, SumLeq, WhiteboardAssumption DEF Size
<1> QED  BY <1>1, <1>2 DEF m

\* A snapshot shows each stroke of the list once.
LEMMA SnapshotIs ==
  ASSUME NEW q \in Seq(Strokes), Distinct(q)
  PROVE  /\ Snapshot(q) \in [Strokes -> Nat] /\ Size(Snapshot(q)) <= Len(q)
         /\ \A s \in Strokes : Snapshot(q)[s] = IF s \in Elements(q) THEN 1 ELSE 0
<1>1. DOMAIN q = 1..Len(q) /\ Len(q) \in Nat
  BY LenProperties
<1>2. ASSUME NEW s \in Strokes
      PROVE  Snapshot(q)[s] = IF s \in Elements(q) THEN 1 ELSE 0
  <2>1. Snapshot(q)[s] = Cardinality({i \in DOMAIN q : q[i] = s})
    BY DEF Snapshot
  <2>2. CASE s \in Elements(q)
    <3>1. PICK n \in DOMAIN q : q[n] = s
      BY <2>2 DEF Elements
    <3>2. {i \in DOMAIN q : q[i] = s} = {n}
      BY <3>1 DEF Distinct
    <3> QED  BY <2>1, <2>2, <3>2, FS_Singleton
  <2>3. CASE s \notin Elements(q)
    <3>1. {i \in DOMAIN q : q[i] = s} = {}
      BY <2>3 DEF Elements
    <3> QED  BY <2>1, <2>3, <3>1, FS_EmptySet
  <2> QED  BY <2>2, <2>3
<1>3. Snapshot(q) \in [Strokes -> Nat]
  <2>1. Snapshot(q) = [s \in Strokes |-> Snapshot(q)[s]]
    BY DEF Snapshot
  <2>2. \A s \in Strokes : Snapshot(q)[s] \in Nat
    BY <1>2
  <2> QED  BY <2>1, <2>2
<1>4. Size(Snapshot(q)) = Cardinality(Strokes \cap Elements(q))
  BY <1>2, SumMembers, WhiteboardAssumption DEF Size
<1>5. IsFiniteSet(1..Len(q)) /\ Cardinality(1..Len(q)) = Len(q)
  BY <1>1, FS_Interval
<1>6. IsFiniteSet(Elements(q)) /\ Cardinality(Elements(q)) <= Len(q)
  <2> DEFINE f == [i \in 1..Len(q) |-> q[i]]
  <2>1. f \in Surjection(1..Len(q), Elements(q))
    BY <1>1 DEF Elements, Surjection
  <2> QED  BY <1>5, <2>1, FS_Surjection
<1>7. Cardinality(Strokes \cap Elements(q)) <= Cardinality(Elements(q))
  BY <1>6, FS_Subset
<1>8. Cardinality(Strokes \cap Elements(q)) \in Nat /\ Cardinality(Elements(q)) \in Nat
  BY <1>6, FS_Subset, FS_CardinalityType
<1> QED  BY <1>1, <1>2, <1>3, <1>4, <1>6, <1>7, <1>8

------------------------------------------------------------------------------
(* Types.                                                                  *)

BoardInv == BoardTypeOK /\ Named

LEMMA BoardValues ==
  /\ NoCommand \in BoardCommand /\ NoCommand.at = "idle"
  /\ \A at \in BoardSteps \cup Kinds, s \in Strokes \cup {NoStroke} :
       /\ [at |-> at, stroke |-> s] \in BoardCommand
       /\ at # "idle" => [at |-> at, stroke |-> s] # NoCommand
BY DEF NoCommand, BoardCommand, BoardSteps, Kinds

\* What a command may become next.
LEMMA CommandTypes ==
  ASSUME BoardInv, NEW w \in Connections, NEW k \in BoardCommand,
         k.at \in {"draw", "erase", "remove", "stroke", "removed"} => k.stroke \in Strokes,
         cmd' = [cmd EXCEPT ![w] = k]
  PROVE  /\ cmd' \in [Connections -> BoardCommand]
         /\ \A v \in Connections :
              cmd'[v].at \in {"draw", "erase", "remove", "stroke", "removed"} => cmd'[v].stroke \in Strokes
BY DEF BoardInv, BoardTypeOK, Named

LEMMA FinishTypes ==
  ASSUME BoardInv, NEW w \in Connections, Finish(w)
  PROVE  /\ cmd' \in [Connections -> BoardCommand]
         /\ \A v \in Connections :
              cmd'[v].at \in {"draw", "erase", "remove", "stroke", "removed"} => cmd'[v].stroke \in Strokes
BY BoardValues, CommandTypes DEF Finish

LEMMA GoOnTypes ==
  ASSUME BoardInv, NEW w \in Connections, NEW at \in BoardSteps \cup Kinds,
         NEW s \in Strokes \cup {NoStroke}, GoOn(w, at, s),
         at \in {"draw", "erase", "remove", "stroke", "removed"} => s \in Strokes
  PROVE  /\ cmd' \in [Connections -> BoardCommand]
         /\ \A v \in Connections :
              cmd'[v].at \in {"draw", "erase", "remove", "stroke", "removed"} => cmd'[v].stroke \in Strokes
<1> DEFINE k == [at |-> at, stroke |-> s]
<1>1. k \in BoardCommand /\ k.at = at /\ k.stroke = s /\ cmd' = [cmd EXCEPT ![w] = k]
  BY BoardValues DEF GoOn
<1> HIDE DEF k
<1> QED  BY <1>1, CommandTypes

LEMMA BoardInvInit == BoardInit => BoardInv
<1> SUFFICES ASSUME BoardInit PROVE BoardInv
  OBVIOUS
<1>0. MaxStrokes \in Nat /\ MaxBacklog \in Nat /\ MaxErrors \in Nat
  BY WhiteboardAssumption
<1>1. /\ MaxStrokes \in Nat /\ MaxBacklog \in Nat /\ MaxErrors \in Nat
      /\ Len(<<>>) = 0 /\ DOMAIN <<>> = {}
  BY ONLY <1>0
<1>2. BoardTypeOK
  <2>1. /\ board \in [Connections -> [Strokes -> Nat]]
        /\ \A c \in Connections : Size(board[c]) <= MaxStrokes
    <3>1. \A c \in Connections : board[c] = Blank
      BY DEF BoardInit
    <3>2. board = [c \in Connections |-> Blank]
      BY DEF BoardInit
    <3>3. Size(Blank) <= MaxStrokes /\ Blank \in [Strokes -> Nat]
      BY <1>0, BlankIs
    <3>4. \A c \in Connections : Size(board[c]) <= MaxStrokes
      BY <3>1, <3>3
    <3> QED  BY <3>2, <3>3, <3>4
  <2>2. list \in Seq(Strokes) /\ Len(list) <= MaxStrokes /\ drawOpen \in BOOLEAN
    <3>1. list = <<>> /\ drawOpen = FALSE
      BY DEF BoardInit
    <3>2. Len(list) = 0 /\ list \in Seq(Strokes)
      BY <3>1
    <3>3. Len(list) <= MaxStrokes
      BY <1>0, <3>2
    <3>4. drawOpen \in BOOLEAN
      BY <3>1
    <3> QED  BY <3>2, <3>3, <3>4
  <2>3. backlog \in [Connections -> Seq(Event)] /\ \A c \in Connections : Len(backlog[c]) <= MaxBacklog
    BY <1>1 DEF BoardInit
  <2>4. /\ cmd \in [Connections -> BoardCommand] /\ joined \in [Connections -> {"out", "subscribed", "in"}]
        /\ drawn \subseteq Strokes /\ twice \in [Connections -> SUBSET Strokes]
        /\ rough \in BOOLEAN /\ errors \in 0..MaxErrors
    <3>1. drawn = {} /\ twice = [c \in Connections |-> {}] /\ rough = FALSE /\ errors = 0
      BY DEF BoardInit
    <3>2. cmd = [w \in Connections |-> NoCommand] /\ joined = [c \in Connections |-> "out"]
      BY DEF BoardInit
    <3>3. errors \in 0..MaxErrors
      BY <1>0, <3>1
    <3>4. drawn \subseteq Strokes /\ twice \in [Connections -> SUBSET Strokes]
      BY <3>1
    <3> QED  BY <3>1, <3>2, <3>3, <3>4, BoardValues
  <2> QED  BY <2>1, <2>2, <2>3, <2>4 DEF BoardTypeOK
<1>3. Named
  BY <1>1, BoardValues DEF BoardInit, Named
<1> QED  BY <1>2, <1>3 DEF BoardInv

LEMMA BoardInvStep ==
  ASSUME BoardInv, Distinct(list), \A w \in Connections : cmd[w].at = "draw" => cmd[w].stroke \notin Elements(list),
         [BoardNext]_boardVars
  PROVE  BoardInv'
<1> USE DEF BoardInv
<1> DEFINE Commands ==
             /\ cmd \in [Connections -> BoardCommand]
             /\ \A v \in Connections :
                  cmd[v].at \in {"draw", "erase", "remove", "stroke", "removed"} => cmd[v].stroke \in Strokes
           Backlogs ==
             /\ backlog \in [Connections -> Seq(Event)]
             /\ \A c \in Connections : Len(backlog[c]) <= MaxBacklog
             /\ joined \in [Connections -> {"out", "subscribed", "in"}]
             /\ \A c \in Connections : \A i \in DOMAIN backlog[c] :
                  backlog[c][i].kind # "clear" => backlog[c][i].stroke \in Strokes
             /\ \A c \in Connections : joined[c] = "out" => backlog[c] = <<>>
           Lists == list \in Seq(Strokes) /\ Len(list) <= MaxStrokes
           Boards ==
             /\ board \in [Connections -> [Strokes -> Nat]]
             /\ \A c \in Connections : Size(board[c]) <= MaxStrokes
           Others ==
             /\ drawOpen \in BOOLEAN /\ drawn \subseteq Strokes
             /\ twice \in [Connections -> SUBSET Strokes]
             /\ rough \in BOOLEAN /\ errors \in 0..MaxErrors
<1>0. (BoardInv <=> Commands /\ Backlogs /\ Lists /\ Boards /\ Others)
      /\ (BoardInv' <=> Commands' /\ Backlogs' /\ Lists' /\ Boards' /\ Others')
  BY DEF BoardTypeOK, Named
<1>1. Commands /\ Backlogs /\ Lists /\ Boards /\ Others
  BY <1>0
<1>2. UNCHANGED client => Backlogs' /\ Boards'
  BY <1>1 DEF client
<1>3. UNCHANGED shared => Lists'
  BY <1>1 DEF shared
<1>4. UNCHANGED history /\ UNCHANGED drawOpen /\ UNCHANGED errors => Others'
  BY <1>1 DEF history
<1>5. ASSUME NEW w \in Connections, NEW at, NEW s, Start(w, at, s), drawn' \subseteq Strokes,
             at \in BoardSteps, s \in Strokes \cup {NoStroke},
             at \in {"draw", "erase", "remove", "stroke", "removed"} => s \in Strokes
      PROVE  BoardInv'
  <2>1. Commands'
    BY <1>5, GoOnTypes DEF Start
  <2>2. Backlogs' /\ Boards' /\ Lists' /\ Others'
    BY <1>1, <1>2, <1>3, <1>5 DEF Start, client, shared
  <2> QED  BY <1>0, <2>1, <2>2
<1>6. ASSUME NEW w \in Connections, NEW s \in Strokes, AskToDraw(w, s) \/ AskToErase(w, s)
      PROVE  BoardInv'
  <2>1. drawn' \subseteq Strokes /\ (Start(w, "draw", s) \/ Start(w, "erase", s))
    BY <1>1, <1>6 DEF AskToDraw, AskToErase
  <2>2. "draw" \in BoardSteps /\ "erase" \in BoardSteps
    BY DEF BoardSteps
  <2> QED  BY <1>5, <2>1, <2>2
<1>7. ASSUME NEW w \in Connections, AskToUndo(w) \/ AskToClear(w)
      PROVE  BoardInv'
  <2>1. drawn' \subseteq Strokes
        /\ (Start(w, "undo", NoStroke) \/ Start(w, "pop", NoStroke) \/ Start(w, "wipe", NoStroke))
    BY <1>1, <1>7 DEF AskToUndo, AskToClear
  <2>2. "undo" \in BoardSteps /\ "pop" \in BoardSteps /\ "wipe" \in BoardSteps
    BY DEF BoardSteps
  <2> QED  BY <1>5, <2>1, <2>2
<1>8. ASSUME NEW w \in Connections, SetDrawPermission(w) PROVE BoardInv'
  <2>1. Commands' /\ Backlogs' /\ Boards' /\ Lists' /\ Others'
    BY <1>1, <1>8 DEF SetDrawPermission, client, history
  <2> QED  BY <1>0, <2>1
<1>9. ASSUME NEW w \in Connections, AppendStroke(w) PROVE BoardInv'
  <2>1. cmd[w].stroke \in Strokes /\ cmd[w].stroke \notin Elements(list)
    BY <1>1, <1>9 DEF AppendStroke
  <2>2. Lists'
    BY <1>1, <1>9, <2>1, KeptIs DEF AppendStroke
  <2>3. Commands'
    BY <1>9, <2>1, GoOnTypes DEF AppendStroke, Kinds
  <2>4. Backlogs' /\ Boards' /\ Others'
    BY <1>1, <1>2, <1>9 DEF AppendStroke
  <2> QED  BY <1>0, <2>2, <2>3, <2>4
<1>10. ASSUME NEW w \in Connections, FindStroke(w) PROVE BoardInv'
  <2>1. Finish(w) \/ \E s \in Strokes : GoOn(w, "remove", s)
    <3>1. \A i \in DOMAIN list : list[i] \in Strokes
      BY <1>1, ElementOfSeq, LenProperties
    <3>2. \A i \in LastOwn(w) : i \in DOMAIN list
      BY DEF LastOwn
    <3>3. \A s \in Elements(list) : s \in Strokes
      BY <3>1 DEF Elements
    <3> QED  BY <1>10, <3>1, <3>2, <3>3 DEF FindStroke
  <2>2. Commands'
    BY <2>1, FinishTypes, GoOnTypes DEF BoardSteps
  <2>3. Backlogs' /\ Boards' /\ Lists' /\ Others'
    BY <1>1, <1>2, <1>3, <1>4, <1>10 DEF FindStroke, shared
  <2> QED  BY <1>0, <2>2, <2>3
<1>11. ASSUME NEW w \in Connections, RemoveStroke(w) PROVE BoardInv'
  <2>1. cmd[w].stroke \in Strokes
    BY <1>1, <1>11 DEF RemoveStroke
  <2>2. Lists'
    <3>1. Without(list, cmd[w].stroke) \in Seq(Strokes) /\ Len(Without(list, cmd[w].stroke)) <= Len(list)
      BY <1>1, WithoutIs
    <3>2. Len(list) \in Nat /\ Len(Without(list, cmd[w].stroke)) \in Nat /\ MaxStrokes \in Nat
      BY <1>1, <3>1, LenProperties, WhiteboardAssumption
    <3> QED  BY <1>1, <1>11, <3>1, <3>2 DEF RemoveStroke
  <2>3. Commands'
    BY <1>11, <2>1, FinishTypes, GoOnTypes DEF RemoveStroke, Kinds
  <2>4. Backlogs' /\ Boards' /\ Others'
    BY <1>2, <1>4, <1>11 DEF RemoveStroke
  <2> QED  BY <1>0, <2>2, <2>3, <2>4
<1>12. ASSUME NEW w \in Connections, PopStroke(w) PROVE BoardInv'
  <2>1. CASE list = <<>>
    <3>1. Commands' /\ Lists'
      BY <1>1, <1>12, <2>1, FinishTypes DEF PopStroke
    <3>2. Backlogs' /\ Boards' /\ Others'
      BY <1>2, <1>4, <1>12 DEF PopStroke
    <3> QED  BY <1>0, <3>1, <3>2
  <2>2. CASE list # <<>>
    <3>1. list' \in Seq(Strokes) /\ Len(list') <= Len(list)
      BY <1>1, <1>12, <2>2, FrontIs DEF PopStroke
    <3>2. Len(list) \in Nat /\ Len(list') \in Nat /\ MaxStrokes \in Nat
      BY <1>1, <3>1, LenProperties, WhiteboardAssumption
    <3>3. list[Len(list)] \in Strokes
      <4>1. Len(list) \in 1..Len(list)
        BY <1>1, <2>2, LenProperties, EmptySeq
      <4> QED  BY <1>1, <4>1, ElementOfSeq
    <3>4. Commands'
      BY <1>12, <2>2, <3>3, GoOnTypes DEF PopStroke, Kinds
    <3>5. Backlogs' /\ Boards' /\ Others'
      BY <1>2, <1>4, <1>12 DEF PopStroke
    <3> QED  BY <1>0, <1>1, <3>1, <3>2, <3>4, <3>5
  <2> QED  BY <2>1, <2>2
<1>13. ASSUME NEW w \in Connections, Wipe(w) PROVE BoardInv'
  <2>1. Lists'
    BY <1>13, WhiteboardAssumption DEF Wipe
  <2>2. Commands'
    BY <1>13, GoOnTypes DEF Wipe, Kinds
  <2>3. Backlogs' /\ Boards' /\ Others'
    BY <1>2, <1>4, <1>13 DEF Wipe
  <2> QED  BY <1>0, <2>1, <2>2, <2>3
<1>14. ASSUME NEW w \in Connections, CommandFails(w) PROVE BoardInv'
  <2>1. Commands'
    <3>1. cmd[w].at = "draw" => cmd[w].stroke \in Strokes
      BY <1>1
    <3> QED  BY <1>14, <3>1, FinishTypes, GoOnTypes DEF CommandFails, Kinds
  <2>2. Others'
    BY <1>1, <1>14, WhiteboardAssumption DEF CommandFails, Fails, shared
  <2>3. Backlogs' /\ Boards' /\ Lists'
    BY <1>2, <1>3, <1>14 DEF CommandFails
  <2> QED  BY <1>0, <2>1, <2>2, <2>3
<1>15. ASSUME NEW w \in Connections, Publish(w) PROVE BoardInv'
  <2>1. Commands'
    BY <1>15, FinishTypes DEF Publish
  <2>2. PICK e : e = Announced(w)
    OBVIOUS
  <2>3. e \in Event /\ (e.kind # "clear" => e.stroke \in Strokes)
    BY <1>1, <1>15, <2>2 DEF Publish, Announced, Event, BoardCommand, Kinds
  <2>4. ASSUME NEW c \in Connections
        PROVE  /\ backlog'[c] \in Seq(Event) /\ Len(backlog'[c]) <= MaxBacklog
               /\ joined'[c] \in {"out", "subscribed", "in"}
               /\ \A i \in DOMAIN backlog'[c] : backlog'[c][i].kind # "clear" => backlog'[c][i].stroke \in Strokes
               /\ joined'[c] = "out" => backlog'[c] = <<>>
    <3>1. CASE joined[c] = "out" \/ c \in Overrun
      <4>1. backlog'[c] = <<>> /\ joined'[c] = "out"
        BY <1>15, <3>1 DEF Publish, Overrun
      <4> QED  BY <4>1, WhiteboardAssumption
    <3>2. CASE joined[c] # "out" /\ c \notin Overrun
      <4>1. backlog'[c] = Append(backlog[c], e) /\ joined'[c] = joined[c]
        BY <1>15, <2>2, <3>2 DEF Publish
      <4>2. backlog[c] \in Seq(Event) /\ Len(backlog[c]) <= MaxBacklog /\ Len(backlog[c]) # MaxBacklog
        BY <1>1, <3>2 DEF Overrun
      <4>3. /\ Append(backlog[c], e) \in Seq(Event) /\ Len(Append(backlog[c], e)) = Len(backlog[c]) + 1
            /\ DOMAIN Append(backlog[c], e) = 1..Len(backlog[c]) + 1 /\ DOMAIN backlog[c] = 1..Len(backlog[c])
            /\ Len(backlog[c]) \in Nat
            /\ \A i \in 1..Len(backlog[c]) : Append(backlog[c], e)[i] = backlog[c][i]
            /\ Append(backlog[c], e)[Len(backlog[c]) + 1] = e
        BY <2>3, <4>2, AppendIs
      <4>4. Len(backlog'[c]) <= MaxBacklog
        BY <4>1, <4>2, <4>3, WhiteboardAssumption
      <4>5. ASSUME NEW i \in DOMAIN backlog'[c], backlog'[c][i].kind # "clear"
            PROVE  backlog'[c][i].stroke \in Strokes
        <5>1. i \in 1..Len(backlog[c]) \/ i = Len(backlog[c]) + 1
          BY <4>1, <4>3
        <5> QED  BY <1>1, <2>3, <4>1, <4>3, <4>5, <5>1
      <4> QED  BY <1>1, <3>2, <4>1, <4>3, <4>4, <4>5
    <3> QED  BY <3>1, <3>2
  <2>5. Backlogs'
    <3>1. backlog' = [c \in Connections |-> backlog'[c]] /\ joined' = [c \in Connections |-> joined'[c]]
      BY <1>15 DEF Publish
    <3> QED  BY <2>4, <3>1
  <2>6. Boards' /\ Lists' /\ Others'
    BY <1>1, <1>3, <1>4, <1>15 DEF Publish, shared
  <2> QED  BY <1>0, <2>1, <2>5, <2>6
<1>16. ASSUME NEW c \in Connections, Subscribe(c) \/ HydrateFails(c) \/ Leave(c) PROVE BoardInv'
  <2>1. Backlogs'
    <3>1. MaxBacklog \in Nat /\ Len(<<>>) = 0 /\ DOMAIN <<>> = {} /\ <<>> \in Seq(Event)
      BY WhiteboardAssumption
    <3>2. CASE Subscribe(c) \/ HydrateFails(c)
      BY <1>1, <3>2 DEF Subscribe, HydrateFails
    <3>3. CASE Leave(c)
      BY <1>1, <3>1, <3>3 DEF Leave
    <3> QED  BY <1>16, <3>2, <3>3
  <2>2. Others'
    <3>1. CASE Subscribe(c) \/ Leave(c)
      BY <1>1, <3>1 DEF Subscribe, Leave, shared, history
    <3>2. CASE HydrateFails(c)
      BY <1>1, <3>2, WhiteboardAssumption DEF HydrateFails, Fails, shared
    <3> QED  BY <1>16, <3>1, <3>2
  <2>3. Commands' /\ Boards' /\ Lists'
    BY <1>1, <1>3, <1>16 DEF Subscribe, HydrateFails, Leave
  <2> QED  BY <1>0, <2>1, <2>2, <2>3
<1>17. ASSUME NEW c \in Connections, Hydrate(c) PROVE BoardInv'
  <2>1. Boards'
    <3>1. Snapshot(list) \in [Strokes -> Nat] /\ Size(Snapshot(list)) <= Len(list)
      BY <1>1, SnapshotIs
    <3>2. Size(Snapshot(list)) <= MaxStrokes
      <4>1. Size(Snapshot(list)) \in Nat /\ Len(list) \in Nat /\ MaxStrokes \in Nat /\ Len(list) <= MaxStrokes
        BY <1>1, <3>1, SizeIs, LenProperties, WhiteboardAssumption
      <4> QED  BY <3>1, <4>1
    <3> QED  BY <1>1, <1>17, <3>1, <3>2 DEF Hydrate
  <2>2. Backlogs'
    BY <1>1, <1>17 DEF Hydrate
  <2>3. Others' /\ Commands' /\ Lists'
    BY <1>1, <1>17 DEF Hydrate, shared, Coming
  <2> QED  BY <1>0, <2>1, <2>2, <2>3
<1>18. ASSUME NEW c \in Connections, Receive(c) PROVE BoardInv'
  <2>1. PICK e, q : e = Head(backlog[c]) /\ q = backlog[c]
    OBVIOUS
  <2>2. /\ q \in Seq(Event) /\ Len(q) \in Nat \ {0} /\ DOMAIN q = 1..Len(q)
        /\ Tail(q) \in Seq(Event) /\ DOMAIN Tail(q) = 1..Len(q) - 1 /\ Len(Tail(q)) = Len(q) - 1
        /\ \A i \in 1..Len(q) - 1 : Tail(q)[i] = q[i + 1]
        /\ e = q[1]
    BY <1>1, <1>18, <2>1, TailIs DEF Receive
  <2>3. e \in Event /\ e.kind \in Kinds /\ (e.kind # "clear" => e.stroke \in Strokes)
    <3>1. e \in Event
      BY <2>2, ElementOfSeq
    <3> QED  BY <1>1, <2>1, <2>2, <3>1 DEF Event
  <2>4. PICK b : b = board[c]
    OBVIOUS
  <2>5. Applied(b, e) \in [Strokes -> Nat] /\ Size(Applied(b, e)) <= MaxStrokes
    <3>1. b \in [Strokes -> Nat] /\ Size(b) <= MaxStrokes /\ Size(b) \in Nat /\ MaxStrokes \in Nat
      BY <1>1, <2>4, SizeIs, WhiteboardAssumption
    <3>2. CASE e.kind = "stroke"
      <4>1. Applied(b, e) = IF Size(b) < MaxStrokes THEN [b EXCEPT ![e.stroke] = @ + 1] ELSE b
        BY <3>2 DEF Applied
      <4>2. /\ [b EXCEPT ![e.stroke] = @ + 1] \in [Strokes -> Nat]
            /\ Size([b EXCEPT ![e.stroke] = @ + 1]) = Size(b) + 1
        BY <2>3, <3>1, <3>2, MoreIs
      <4> QED  BY <3>1, <4>1, <4>2
    <3>3. CASE e.kind = "removed"
      <4>1. Applied(b, e) = [b EXCEPT ![e.stroke] = 0]
        BY <3>3 DEF Applied
      <4>2. [b EXCEPT ![e.stroke] = 0] \in [Strokes -> Nat] /\ Size([b EXCEPT ![e.stroke] = 0]) <= Size(b)
        BY <2>3, <3>1, <3>3, LessIs
      <4>3. Size([b EXCEPT ![e.stroke] = 0]) \in Nat
        BY <4>2, SizeIs
      <4> QED  BY <3>1, <4>1, <4>2, <4>3
    <3>4. CASE e.kind = "clear"
      BY <3>1, <3>4, BlankIs DEF Applied
    <3> QED  BY <2>3, <3>2, <3>3, <3>4 DEF Kinds
  <2>6. Boards'
    BY <1>1, <1>18, <2>1, <2>4, <2>5 DEF Receive
  <2>7. Backlogs'
    <3>1. backlog' = [backlog EXCEPT ![c] = Tail(q)] /\ joined' = joined /\ joined[c] = "in"
      BY <1>18, <2>1 DEF Receive
    <3>2. Len(q) <= MaxBacklog /\ \A i \in 1..Len(q) : q[i].kind # "clear" => q[i].stroke \in Strokes
      BY <1>1, <2>1, <2>2
    <3>3. Len(Tail(q)) <= MaxBacklog
      BY <2>2, <3>2, WhiteboardAssumption
    <3>4. \A i \in DOMAIN Tail(q) : Tail(q)[i].kind # "clear" => Tail(q)[i].stroke \in Strokes
      BY <2>2, <3>2
    <3> QED  BY <1>1, <2>2, <3>1, <3>3, <3>4
  <2>8. rough' \in BOOLEAN
    BY <1>1, <1>18 DEF Receive
  <2>9. Commands' /\ Lists' /\ Others'
    BY <1>1, <1>18, <2>8 DEF Receive, shared
  <2> QED  BY <1>0, <2>6, <2>7, <2>9
<1>19. ASSUME UNCHANGED boardVars PROVE BoardInv'
  BY <1>0, <1>1, <1>2, <1>3, <1>4, <1>19 DEF boardVars, client, shared, history
<1> QED
  BY <1>6, <1>7, <1>8, <1>9, <1>10, <1>11, <1>12, <1>13, <1>14, <1>15, <1>16, <1>17, <1>18, <1>19 DEF BoardNext

------------------------------------------------------------------------------
(* A stroke is drawn once, and told of once.                               *)

LEMMA ComingIs ==
  ASSUME BoardInv, NEW c \in Connections, NEW s \in Strokes
  PROVE  s \in Coming(c) <=> Told(c, s) \/ Pending(s)
<1>1. ASSUME NEW w \in Connections
      PROVE  cmd[w] = [at |-> "stroke", stroke |-> s] <=> cmd[w].at = "stroke" /\ cmd[w].stroke = s
  BY DEF BoardInv, BoardTypeOK, BoardCommand
<1>2. ASSUME NEW i \in DOMAIN backlog[c]
      PROVE  backlog[c][i] = [kind |-> "stroke", stroke |-> s]
             <=> backlog[c][i].kind = "stroke" /\ backlog[c][i].stroke = s
  <2>1. backlog[c] \in Seq(Event)
    BY DEF BoardInv, BoardTypeOK
  <2>2. backlog[c][i] \in Event
    BY <2>1, ElementOfSeq, LenProperties
  <2> QED  BY <2>2 DEF Event
<1> QED  BY <1>1, <1>2 DEF Coming, Told, Pending

\* What an event does to the number of times that a board shows a stroke.
LEMMA AppliedIs ==
  ASSUME NEW b \in [Strokes -> Nat], NEW e \in Event, e.kind # "clear" => e.stroke \in Strokes,
         NEW x \in Strokes
  PROVE  /\ ~Touches(e, x) => Applied(b, e)[x] = b[x]
         /\ Touches(e, x) /\ e.kind # "stroke" => Applied(b, e)[x] = 0
         /\ Touches(e, x) /\ e.kind = "stroke" =>
              /\ Applied(b, e)[x] \in {b[x], b[x] + 1}
              /\ Size(b) < MaxStrokes => Applied(b, e)[x] = b[x] + 1
<1>1. e.kind \in Kinds
  BY DEF Event
<1>2. CASE e.kind = "stroke"
  <2>1. Applied(b, e) = IF Size(b) < MaxStrokes THEN [b EXCEPT ![e.stroke] = @ + 1] ELSE b
    BY <1>2 DEF Applied
  <2>2. [b EXCEPT ![e.stroke] = @ + 1][x] = IF x = e.stroke THEN b[x] + 1 ELSE b[x]
    OBVIOUS
  <2> QED  BY <1>2, <2>1, <2>2 DEF Touches
<1>3. CASE e.kind = "removed"
  <2>1. Applied(b, e) = [b EXCEPT ![e.stroke] = 0]
    BY <1>3 DEF Applied
  <2>2. [b EXCEPT ![e.stroke] = 0][x] = IF x = e.stroke THEN 0 ELSE b[x]
    OBVIOUS
  <2> QED  BY <1>3, <2>1, <2>2 DEF Touches
<1>4. CASE e.kind = "clear"
  <2>1. Applied(b, e)[x] = 0
    BY <1>4 DEF Applied, Blank
  <2> QED  BY <1>4, <2>1 DEF Touches
<1> QED  BY <1>1, <1>2, <1>3, <1>4 DEF Kinds

LEMMA OwnInit == BoardInit => OwnInv
<1> SUFFICES ASSUME BoardInit PROVE OwnInv
  OBVIOUS
<1>1. list = <<>> /\ drawn = {} /\ (\A w \in Connections : cmd[w] = NoCommand)
      /\ (\A c \in Connections : backlog[c] = <<>> /\ board[c] = Blank)
  BY DEF BoardInit
<1>2. DOMAIN <<>> = {} /\ \A s \in Strokes : Blank[s] = 0
  BY DEF Blank
<1>3. \A w \in Connections : cmd[w].at = "idle"
  BY <1>1, BoardValues
<1>4. Distinct(list) /\ Elements(list) = {} /\ \A c \in Connections : DOMAIN backlog[c] = {}
  BY <1>1, <1>2 DEF Distinct, Elements
<1>5. \A c \in Connections, s \in Strokes : ~Told(c, s) /\ ~Pending(s) /\ board[c][s] = 0
  BY <1>1, <1>2, <1>3, <1>4 DEF Told, Pending
<1> QED  BY <1>3, <1>4, <1>5 DEF OwnInv, StrokeAppearsOnce

\* Most steps take up no stroke, add none to the list and tell of none.
LEMMA OwnKept ==
  ASSUME BoardInv, BoardInv', OwnInv,
         \A v \in Connections : cmd'[v].at \in {"draw", "stroke"} => cmd'[v] = cmd[v],
         Distinct(list'), Elements(list') \subseteq Elements(list),
         drawn' = drawn, board' = board, twice' = twice,
         \A c \in Connections : backlog'[c] = backlog[c] \/ backlog'[c] = <<>>
  PROVE  OwnInv'
<1>1. \A s \in Strokes : (Drawing(s)' => Drawing(s)) /\ (Pending(s)' => Pending(s))
  BY DEF Drawing, Pending
<1>2. DOMAIN <<>> = {}
  OBVIOUS
<1>3. \A c \in Connections, s \in Strokes : Told(c, s)' => Told(c, s)
  BY <1>2 DEF Told
<1>4. \A w \in Connections : cmd'[w].at \in {"draw", "stroke"} =>
        cmd'[w].stroke \in drawn' /\ AuthorOf[cmd'[w].stroke] = w
  BY DEF OwnInv
<1>5. \A s \in Strokes : s \notin drawn' \/ Drawing(s)' =>
        s \notin Elements(list') /\ \A c \in Connections : board'[c][s] = 0 /\ ~Told(c, s)'
  BY <1>1, <1>3 DEF OwnInv
<1>6. \A s \in Strokes, c \in Connections : Pending(s)' => ~Told(c, s)'
  BY <1>1, <1>3 DEF OwnInv
<1>7. \A c \in Connections : \A i, j \in DOMAIN backlog'[c] :
        backlog'[c][i].kind = "stroke" /\ backlog'[c][i] = backlog'[c][j] => i = j
  BY <1>2 DEF OwnInv
<1>8. \A c \in Connections : \A s \in Strokes :
        (Told(c, s)' \/ Pending(s)') /\ board'[c][s] > 0 => s \in twice'[c]
  BY <1>1, <1>3 DEF OwnInv
<1>9. StrokeAppearsOnce'
  BY DEF OwnInv, StrokeAppearsOnce
<1> QED  BY <1>4, <1>5, <1>6, <1>7, <1>8, <1>9 DEF OwnInv

\* A stroke goes to the list, and is to be announced.
LEMMA OwnDrawn ==
  ASSUME BoardInv, BoardInv', OwnInv, NEW w \in Connections, NEW s \in Strokes,
         cmd[w].at = "draw", cmd[w].stroke = s, GoOn(w, "stroke", s),
         Distinct(list'), Elements(list') \subseteq Elements(list) \cup {s},
         drawn' = drawn, twice' = twice, UNCHANGED client
  PROVE  OwnInv'
<1>1. /\ cmd'[w].at = "stroke" /\ cmd'[w].stroke = s
      /\ \A v \in Connections \ {w} : cmd'[v] = cmd[v]
      /\ backlog' = backlog /\ board' = board
  BY DEF GoOn, client, BoardInv, BoardTypeOK
<1>2. Drawing(s) /\ s \in drawn /\ AuthorOf[s] = w
  BY DEF Drawing, OwnInv
<1>3. \A x \in Strokes : /\ Drawing(x)' => Drawing(x) /\ x # s
                         /\ Pending(x)' => Pending(x) \/ x = s
  BY <1>1, <1>2 DEF Drawing, Pending, OwnInv
<1>4. \A c \in Connections, x \in Strokes : Told(c, x)' <=> Told(c, x)
  BY <1>1 DEF Told
<1>5. s \notin Elements(list) /\ \A c \in Connections : board[c][s] = 0 /\ ~Told(c, s)
  BY <1>2 DEF OwnInv
<1>6. \A v \in Connections : cmd'[v].at \in {"draw", "stroke"} =>
        cmd'[v].stroke \in drawn' /\ AuthorOf[cmd'[v].stroke] = v
  BY <1>1, <1>2 DEF OwnInv
<1>7. \A x \in Strokes : x \notin drawn' \/ Drawing(x)' =>
        x \notin Elements(list') /\ \A c \in Connections : board'[c][x] = 0 /\ ~Told(c, x)'
  BY <1>1, <1>2, <1>3, <1>4 DEF OwnInv
<1>8. \A x \in Strokes, c \in Connections : Pending(x)' => ~Told(c, x)'
  BY <1>3, <1>4, <1>5 DEF OwnInv
<1>9. \A c \in Connections : \A x \in Strokes :
        (Told(c, x)' \/ Pending(x)') /\ board'[c][x] > 0 => x \in twice'[c]
  BY <1>1, <1>3, <1>4, <1>5 DEF OwnInv
<1>10. StrokeAppearsOnce'
  BY <1>1 DEF OwnInv, StrokeAppearsOnce
<1>11. \A c \in Connections : \A i, j \in DOMAIN backlog'[c] :
        backlog'[c][i].kind = "stroke" /\ backlog'[c][i] = backlog'[c][j] => i = j
  BY <1>1 DEF OwnInv
<1> QED  BY <1>6, <1>7, <1>8, <1>9, <1>10, <1>11 DEF OwnInv

LEMMA OwnStep ==
  ASSUME BoardInv, BoardInv', OwnInv, [BoardNext]_boardVars
  PROVE  OwnInv'
<1>0. /\ list \in Seq(Strokes) /\ Len(list) <= MaxStrokes /\ Distinct(list)
      /\ cmd \in [Connections -> BoardCommand]
      /\ backlog \in [Connections -> Seq(Event)]
      /\ board \in [Connections -> [Strokes -> Nat]]
      /\ twice \in [Connections -> SUBSET Strokes]
  BY DEF BoardInv, BoardTypeOK, OwnInv
<1>1. ASSUME NEW w \in Connections, NEW at, NEW s, Start(w, at, s), at \notin {"draw", "stroke"}, UNCHANGED drawn
      PROVE  OwnInv'
  BY <1>0, <1>1, OwnKept DEF Start, GoOn, client, shared
<1>2. ASSUME NEW w \in Connections, NEW s \in Strokes, AskToDraw(w, s) PROVE OwnInv'
  <2>1. /\ AuthorOf[s] = w /\ s \notin drawn /\ drawn' = drawn \cup {s}
        /\ cmd'[w].at = "draw" /\ cmd'[w].stroke = s
        /\ (\A v \in Connections \ {w} : cmd'[v] = cmd[v])
        /\ UNCHANGED <<list, board, backlog, twice>>
    BY <1>0, <1>2 DEF AskToDraw, Start, GoOn, client, shared
  <2>2. \A x \in Strokes : /\ Drawing(x)' => Drawing(x) \/ x = s
                           /\ Pending(x)' => Pending(x)
    BY <2>1 DEF Drawing, Pending
  <2>3. \A c \in Connections, x \in Strokes : Told(c, x)' <=> Told(c, x)
    BY <2>1 DEF Told
  <2>4. \A v \in Connections : cmd'[v].at \in {"draw", "stroke"} =>
          cmd'[v].stroke \in drawn' /\ AuthorOf[cmd'[v].stroke] = v
    BY <2>1 DEF OwnInv
  <2>5. \A x \in Strokes : x \notin drawn' \/ Drawing(x)' =>
          x \notin Elements(list') /\ \A c \in Connections : board'[c][x] = 0 /\ ~Told(c, x)'
    BY <2>1, <2>2, <2>3 DEF OwnInv
  <2>6. \A x \in Strokes, c \in Connections : Pending(x)' => ~Told(c, x)'
    BY <2>2, <2>3 DEF OwnInv
  <2>7. \A c \in Connections : \A x \in Strokes :
          (Told(c, x)' \/ Pending(x)') /\ board'[c][x] > 0 => x \in twice'[c]
    BY <2>1, <2>2, <2>3 DEF OwnInv
  <2>8. /\ StrokeAppearsOnce' /\ Distinct(list')
        /\ \A c \in Connections : \A i, j \in DOMAIN backlog'[c] :
             backlog'[c][i].kind = "stroke" /\ backlog'[c][i] = backlog'[c][j] => i = j
    BY <2>1 DEF OwnInv, StrokeAppearsOnce
  <2> QED  BY <2>4, <2>5, <2>6, <2>7, <2>8 DEF OwnInv
<1>3. ASSUME NEW w \in Connections, NEW s \in Strokes, AskToErase(w, s) PROVE OwnInv'
  BY <1>1, <1>3 DEF AskToErase
<1>4. ASSUME NEW w \in Connections, AskToUndo(w) \/ AskToClear(w) PROVE OwnInv'
  BY <1>1, <1>4 DEF AskToUndo, AskToClear
<1>5. ASSUME NEW w \in Connections, SetDrawPermission(w) PROVE OwnInv'
  BY <1>0, <1>5, OwnKept DEF SetDrawPermission, client, history
<1>6. ASSUME NEW w \in Connections, AppendStroke(w) PROVE OwnInv'
  <2>1. PICK s : s = cmd[w].stroke
    OBVIOUS
  <2>2. s \in Strokes /\ cmd[w].at = "draw"
    BY <1>6, <2>1 DEF AppendStroke, BoardInv, Named
  <2>3. s \notin Elements(list)
    BY <2>1, <2>2 DEF OwnInv, Drawing
  <2>4. Distinct(list') /\ Elements(list') \subseteq Elements(list) \cup {s}
    BY <1>0, <1>6, <2>1, <2>2, <2>3, KeptIs DEF AppendStroke
  <2> QED  BY <1>6, <2>1, <2>2, <2>4, OwnDrawn DEF AppendStroke
<1>7. ASSUME NEW w \in Connections, FindStroke(w) PROVE OwnInv'
  <2>1. \A v \in Connections : cmd'[v].at \in {"draw", "stroke"} => cmd'[v] = cmd[v]
    BY <1>0, <1>7, BoardValues DEF FindStroke, GoOn, Finish
  <2> QED  BY <1>0, <1>7, <2>1, OwnKept DEF FindStroke, client, shared, history
<1>8. ASSUME NEW w \in Connections, RemoveStroke(w) PROVE OwnInv'
  <2>1. \A v \in Connections : cmd'[v].at \in {"draw", "stroke"} => cmd'[v] = cmd[v]
    BY <1>0, <1>8, BoardValues DEF RemoveStroke, GoOn, Finish
  <2>2. Distinct(list') /\ Elements(list') \subseteq Elements(list)
    <3>1. \A s : Distinct(Without(list, s)) /\ Elements(Without(list, s)) = Elements(list) \ {s}
      BY <1>0, WithoutIs
    <3> QED  BY <1>8, <3>1 DEF RemoveStroke
  <2> QED  BY <1>8, <2>1, <2>2, OwnKept DEF RemoveStroke, client, history
<1>9. ASSUME NEW w \in Connections, PopStroke(w) PROVE OwnInv'
  <2>1. \A v \in Connections : cmd'[v].at \in {"draw", "stroke"} => cmd'[v] = cmd[v]
    BY <1>0, <1>9, BoardValues DEF PopStroke, GoOn, Finish
  <2>2. Distinct(list') /\ Elements(list') \subseteq Elements(list)
    BY <1>0, <1>9, FrontIs DEF PopStroke
  <2> QED  BY <1>9, <2>1, <2>2, OwnKept DEF PopStroke, client, history
<1>10. ASSUME NEW w \in Connections, Wipe(w) PROVE OwnInv'
  <2>1. \A v \in Connections : cmd'[v].at \in {"draw", "stroke"} => cmd'[v] = cmd[v]
    BY <1>0, <1>10 DEF Wipe, GoOn
  <2>2. Distinct(list') /\ Elements(list') \subseteq Elements(list)
    BY <1>10 DEF Wipe, Distinct, Elements
  <2> QED  BY <1>10, <2>1, <2>2, OwnKept DEF Wipe, client, history
<1>11. ASSUME NEW w \in Connections, CommandFails(w) PROVE OwnInv'
  <2>1. UNCHANGED <<list, backlog, board, drawn, twice>> /\ UNCHANGED client
    BY <1>11 DEF CommandFails, client, shared
  <2>2. CASE cmd[w].at = "draw" /\ GoOn(w, "stroke", cmd[w].stroke)
    <3>1. PICK s : s = cmd[w].stroke
      OBVIOUS
    <3>2. s \in Strokes
      BY <2>2, <3>1 DEF BoardInv, Named
    <3>3. Distinct(list') /\ Elements(list') \subseteq Elements(list) \cup {s}
      BY <1>0, <2>1
    <3> QED  BY <2>1, <2>2, <3>1, <3>2, <3>3, OwnDrawn
  <2>3. CASE GoOn(w, "clear", NoStroke) \/ Finish(w)
    <3>1. \A v \in Connections : cmd'[v].at \in {"draw", "stroke"} => cmd'[v] = cmd[v]
      BY <1>0, <2>3, BoardValues DEF GoOn, Finish
    <3> QED  BY <1>0, <2>1, <3>1, OwnKept
  <2> QED  BY <1>11, <2>2, <2>3 DEF CommandFails
<1>12. ASSUME NEW w \in Connections, Publish(w) PROVE OwnInv'
  <2>1. PICK e : e = Announced(w)
    OBVIOUS
  <2>2. e.kind = cmd[w].at /\ e.stroke = cmd[w].stroke /\ e \in Event
    BY <1>0, <1>12, <2>1 DEF Publish, Announced, Event, BoardCommand
  <2>3. /\ cmd'[w].at = "idle" /\ (\A v \in Connections \ {w} : cmd'[v] = cmd[v])
        /\ UNCHANGED <<list, board, drawn, twice>>
    BY <1>0, <1>12, BoardValues DEF Publish, Finish, shared, history
  <2>4. ASSUME NEW c \in Connections
        PROVE  \/ backlog'[c] = <<>>
               \/ /\ backlog'[c] = Append(backlog[c], e)
                  /\ DOMAIN backlog'[c] = 1..Len(backlog[c]) + 1 /\ DOMAIN backlog[c] = 1..Len(backlog[c])
                  /\ Len(backlog[c]) \in Nat
                  /\ \A i \in 1..Len(backlog[c]) : backlog'[c][i] = backlog[c][i]
                  /\ backlog'[c][Len(backlog[c]) + 1] = e
    <3>1. backlog'[c] = <<>> \/ backlog'[c] = Append(backlog[c], e)
      BY <1>12, <2>1 DEF Publish
    <3>2. backlog[c] \in Seq(Event)
      BY <1>0
    <3> QED  BY <2>2, <3>1, <3>2, AppendIs
  <2>5. DOMAIN <<>> = {}
    OBVIOUS
  <2>6. ASSUME NEW c \in Connections, NEW x \in Strokes, Told(c, x)'
        PROVE  Told(c, x) \/ (e.kind = "stroke" /\ e.stroke = x)
    <3>1. PICK i \in DOMAIN backlog'[c] : backlog'[c][i].kind = "stroke" /\ backlog'[c][i].stroke = x
      BY <2>6 DEF Told
    <3>2. Len(backlog[c]) \in Nat /\ DOMAIN backlog'[c] = 1..Len(backlog[c]) + 1
      BY <2>4, <2>5, <3>1
    <3>3. i \in 1..Len(backlog[c]) \/ i = Len(backlog[c]) + 1
      BY <3>1, <3>2
    <3> QED  BY <2>4, <2>5, <3>1, <3>3 DEF Told
  <2>7. \A x \in Strokes : /\ Drawing(x)' => Drawing(x)
                           /\ Pending(x)' => Pending(x)
                           /\ e.kind = "stroke" /\ e.stroke = x =>
                                Pending(x) /\ x \in drawn /\ ~Drawing(x)' /\ ~Pending(x)'
    BY <2>2, <2>3 DEF Drawing, Pending, OwnInv
  <2>8. \A v \in Connections : cmd'[v].at \in {"draw", "stroke"} =>
          cmd'[v].stroke \in drawn' /\ AuthorOf[cmd'[v].stroke] = v
    BY <2>3 DEF OwnInv
  <2>9. \A x \in Strokes : x \notin drawn' \/ Drawing(x)' =>
          x \notin Elements(list') /\ \A c \in Connections : board'[c][x] = 0 /\ ~Told(c, x)'
    BY <2>3, <2>6, <2>7 DEF OwnInv
  <2>10. \A x \in Strokes, c \in Connections : Pending(x)' => ~Told(c, x)'
    BY <2>6, <2>7 DEF OwnInv
  <2>11. \A c \in Connections : \A x \in Strokes :
           (Told(c, x)' \/ Pending(x)') /\ board'[c][x] > 0 => x \in twice'[c]
    BY <2>3, <2>6, <2>7 DEF OwnInv
  <2>12. ASSUME NEW c \in Connections, NEW i \in DOMAIN backlog'[c], NEW j \in DOMAIN backlog'[c],
                backlog'[c][i].kind = "stroke", backlog'[c][i] = backlog'[c][j]
         PROVE  i = j
    <3>1. PICK n \in Nat : n = Len(backlog[c])
      BY <2>4, <2>5, <2>12
    <3>2. /\ DOMAIN backlog'[c] = 1..n + 1 /\ DOMAIN backlog[c] = 1..n
          /\ (\A k \in 1..n : backlog'[c][k] = backlog[c][k]) /\ backlog'[c][n + 1] = e
      BY <2>4, <2>5, <2>12, <3>1
    <3>3. /\ i \in 1..n \/ i = n + 1
          /\ j \in 1..n \/ j = n + 1
      BY <2>12, <3>2
    <3>4. e.kind = "stroke" => \A k \in 1..n : backlog[c][k] # e
      <4> SUFFICES ASSUME e.kind = "stroke", NEW k \in 1..n, backlog[c][k] = e PROVE FALSE
        OBVIOUS
      <4>1. e.stroke \in Strokes /\ Pending(e.stroke)
        BY <2>2 DEF Pending, BoardInv, Named
      <4>2. Told(c, e.stroke)
        BY <3>2 DEF Told
      <4> QED  BY <4>1, <4>2 DEF OwnInv
    <3> QED  BY <2>12, <3>2, <3>3, <3>4 DEF OwnInv
  <2>13. StrokeAppearsOnce' /\ Distinct(list')
    BY <2>3 DEF OwnInv, StrokeAppearsOnce
  <2> QED  BY <2>8, <2>9, <2>10, <2>11, <2>12, <2>13 DEF OwnInv
<1>13. ASSUME NEW c \in Connections, Subscribe(c) \/ HydrateFails(c) \/ Leave(c) PROVE OwnInv'
  <2>1. UNCHANGED <<list, cmd, board, drawn, twice>>
        /\ \A d \in Connections : backlog'[d] = backlog[d] \/ backlog'[d] = <<>>
    BY <1>0, <1>13 DEF Subscribe, HydrateFails, Leave, shared, history
  <2> QED  BY <1>0, <2>1, OwnKept
<1>14. ASSUME NEW c \in Connections, Hydrate(c) PROVE OwnInv'
  <2>1. /\ UNCHANGED <<list, cmd, backlog, drawn>>
        /\ board' = [board EXCEPT ![c] = Snapshot(list)]
        /\ twice' = [twice EXCEPT ![c] = Elements(list) \cap Coming(c)]
    BY <1>14 DEF Hydrate, shared
  <2>2. \A s \in Strokes : board'[c][s] = IF s \in Elements(list) THEN 1 ELSE 0
    <3>1. \A s \in Strokes : Snapshot(list)[s] = IF s \in Elements(list) THEN 1 ELSE 0
      BY <1>0, SnapshotIs
    <3> QED  BY <1>0, <2>1, <3>1
  <2>3. \A d \in Connections \ {c} : board'[d] = board[d] /\ twice'[d] = twice[d]
    BY <1>0, <2>1
  <2>4. \A s \in Strokes : s \in twice'[c] <=> s \in Elements(list) /\ (Told(c, s) \/ Pending(s))
    BY <1>0, <2>1, ComingIs
  <2>5. \A s \in Strokes : (Drawing(s)' <=> Drawing(s)) /\ (Pending(s)' <=> Pending(s))
    BY <2>1 DEF Drawing, Pending
  <2>6. \A d \in Connections, s \in Strokes : Told(d, s)' <=> Told(d, s)
    BY <2>1 DEF Told
  <2>7. \A x \in Strokes : x \notin drawn' \/ Drawing(x)' =>
          x \notin Elements(list') /\ \A d \in Connections : board'[d][x] = 0 /\ ~Told(d, x)'
    BY <2>1, <2>2, <2>3, <2>5, <2>6 DEF OwnInv
  <2>8. \A d \in Connections : \A x \in Strokes :
          (Told(d, x)' \/ Pending(x)') /\ board'[d][x] > 0 => x \in twice'[d]
    BY <2>2, <2>3, <2>4, <2>5, <2>6 DEF OwnInv
  <2>9. StrokeAppearsOnce'
    <3> SUFFICES ASSUME NEW d \in Connections, NEW s \in Strokes, board'[d][s] > 1 PROVE s \in twice'[d]
      BY DEF StrokeAppearsOnce
    <3> QED  BY <2>2, <2>3 DEF OwnInv, StrokeAppearsOnce
  <2>10. /\ Distinct(list')
         /\ \A v \in Connections : cmd'[v].at \in {"draw", "stroke"} =>
              cmd'[v].stroke \in drawn' /\ AuthorOf[cmd'[v].stroke] = v
         /\ \A s \in Strokes, d \in Connections : Pending(s)' => ~Told(d, s)'
         /\ \A d \in Connections : \A i, j \in DOMAIN backlog'[d] :
              backlog'[d][i].kind = "stroke" /\ backlog'[d][i] = backlog'[d][j] => i = j
    BY <2>1, <2>5, <2>6 DEF OwnInv
  <2> QED  BY <2>7, <2>8, <2>9, <2>10 DEF OwnInv
<1>15. ASSUME NEW c \in Connections, Receive(c) PROVE OwnInv'
  <2>1. PICK e, q, b : e = Head(backlog[c]) /\ q = backlog[c] /\ b = board[c]
    OBVIOUS
  <2>2. /\ UNCHANGED <<list, cmd, drawn, twice>>
        /\ board' = [board EXCEPT ![c] = Applied(b, e)]
        /\ backlog' = [backlog EXCEPT ![c] = Tail(q)]
    BY <1>15, <2>1 DEF Receive, shared
  <2>3. /\ Len(q) \in Nat \ {0} /\ DOMAIN q = 1..Len(q)
        /\ DOMAIN Tail(q) = 1..Len(q) - 1
        /\ \A i \in 1..Len(q) - 1 : Tail(q)[i] = q[i + 1]
        /\ e = q[1] /\ e \in Event
    <3>1. q \in Seq(Event) /\ q # <<>>
      BY <1>0, <1>15, <2>1 DEF Receive
    <3> QED  BY <2>1, <3>1, TailIs, ElementOfSeq
  <2>4. /\ backlog'[c] = Tail(q) /\ board'[c] = Applied(b, e)
        /\ \A d \in Connections \ {c} : backlog'[d] = backlog[d] /\ board'[d] = board[d]
    BY <1>0, <2>2
  <2>5. \A i \in DOMAIN backlog'[c] : i + 1 \in DOMAIN q /\ i + 1 # 1 /\ backlog'[c][i] = q[i + 1]
    BY <2>3, <2>4
  <2>6. \A s \in Strokes : (Drawing(s)' <=> Drawing(s)) /\ (Pending(s)' <=> Pending(s))
    BY <2>2 DEF Drawing, Pending
  <2>7. \A d \in Connections, s \in Strokes : Told(d, s)' => Told(d, s)
    <3>1. \A s \in Strokes : Told(c, s)' => Told(c, s)
      BY <2>1, <2>5 DEF Told
    <3>2. \A d \in Connections \ {c}, s \in Strokes : Told(d, s)' => Told(d, s)
      BY <2>4 DEF Told
    <3> QED  BY <3>1, <3>2
  <2>8. \A s \in Strokes : e.kind = "stroke" /\ e.stroke = s => Told(c, s) /\ ~Pending(s) /\ ~Told(c, s)'
    <3> SUFFICES ASSUME NEW s \in Strokes, e.kind = "stroke", e.stroke = s
                 PROVE  Told(c, s) /\ ~Pending(s) /\ ~Told(c, s)'
      OBVIOUS
    <3>1. 1 \in DOMAIN q
      BY <2>3
    <3>2. Told(c, s)
      BY <2>1, <2>3, <3>1 DEF Told
    <3>3. ~Told(c, s)'
      <4> SUFFICES ASSUME NEW i \in DOMAIN backlog'[c], backlog'[c][i].kind = "stroke", backlog'[c][i].stroke = s
                   PROVE  FALSE
        BY DEF Told
      <4>1. q[i + 1].kind = "stroke" /\ q[i + 1].stroke = s /\ q[i + 1] \in Event /\ i + 1 \in DOMAIN q /\ i + 1 # 1
        <5>1. q \in Seq(Event)
          BY <1>0, <2>1
        <5> QED  BY <2>3, <2>5, <5>1, ElementOfSeq
      <4>2. q[i + 1] = q[1]
        BY <2>3, <4>1 DEF Event
      <4> QED  BY <2>1, <2>3, <3>1, <4>1, <4>2 DEF OwnInv
    <3> QED  BY <3>2, <3>3 DEF OwnInv
  <2>9. \A s \in Strokes : /\ ~(e.kind = "stroke" /\ e.stroke = s) => Applied(b, e)[s] = b[s] \/ Applied(b, e)[s] = 0
                           /\ Applied(b, e)[s] \in {0, b[s], b[s] + 1} /\ b[s] \in Nat
    <3>1. b \in [Strokes -> Nat]
      BY <1>0, <2>1
    <3>2. e.kind # "clear" => e.stroke \in Strokes
      <4>1. 1 \in DOMAIN q
        BY <2>3
      <4> QED  BY <2>1, <2>3, <4>1 DEF BoardInv, Named
    <3>3. e.kind \in Kinds
      BY <2>3 DEF Event
    <3> QED  BY <2>3, <3>1, <3>2, <3>3, AppliedIs DEF Touches, Kinds
  <2>10. \A x \in Strokes : x \notin drawn' \/ Drawing(x)' =>
           x \notin Elements(list') /\ \A d \in Connections : board'[d][x] = 0 /\ ~Told(d, x)'
    <3> SUFFICES ASSUME NEW x \in Strokes, x \notin drawn \/ Drawing(x)
                 PROVE  x \notin Elements(list) /\ \A d \in Connections : board'[d][x] = 0 /\ ~Told(d, x)'
      BY <2>2, <2>6
    <3>1. x \notin Elements(list) /\ \A d \in Connections : board[d][x] = 0 /\ ~Told(d, x)
      BY DEF OwnInv
    <3>2. Applied(b, e)[x] = 0
      BY <2>1, <2>8, <2>9, <3>1
    <3> QED  BY <2>4, <2>7, <3>1, <3>2
  <2>11. \A d \in Connections : \A x \in Strokes :
           (Told(d, x)' \/ Pending(x)') /\ board'[d][x] > 0 => x \in twice'[d]
    <3> SUFFICES ASSUME NEW d \in Connections, NEW x \in Strokes, Told(d, x)' \/ Pending(x)', board'[d][x] > 0
                 PROVE  x \in twice[d]
      BY <2>2
    <3>1. Told(d, x) \/ Pending(x)
      BY <2>6, <2>7
    <3>2. board[d][x] > 0
      <4>1. CASE d = c
        <5>1. ~(e.kind = "stroke" /\ e.stroke = x)
          BY <2>6, <2>8, <4>1
        <5> QED  BY <2>1, <2>4, <2>9, <4>1, <5>1
      <4>2. CASE d # c
        BY <2>4, <4>2
      <4> QED  BY <4>1, <4>2
    <3> QED  BY <3>1, <3>2 DEF OwnInv
  <2>12. StrokeAppearsOnce'
    <3> SUFFICES ASSUME NEW d \in Connections, NEW x \in Strokes, board'[d][x] > 1 PROVE x \in twice[d]
      BY <2>2 DEF StrokeAppearsOnce
    <3>1. CASE board[d][x] > 1
      BY <3>1 DEF OwnInv, StrokeAppearsOnce
    <3>2. CASE ~(board[d][x] > 1)
      <4>1. d = c
        BY <2>4, <3>2
      <4>2. e.kind = "stroke" /\ e.stroke = x /\ b[x] > 0
        BY <2>1, <2>4, <2>9, <3>2, <4>1
      <4> QED  BY <2>1, <2>8, <4>1, <4>2 DEF OwnInv
    <3> QED  BY <3>1, <3>2
  <2>13. \A d \in Connections : \A i, j \in DOMAIN backlog'[d] :
           backlog'[d][i].kind = "stroke" /\ backlog'[d][i] = backlog'[d][j] => i = j
    <3> SUFFICES ASSUME NEW d \in Connections, NEW i \in DOMAIN backlog'[d], NEW j \in DOMAIN backlog'[d],
                        backlog'[d][i].kind = "stroke", backlog'[d][i] = backlog'[d][j]
                 PROVE  i = j
      OBVIOUS
    <3>1. CASE d = c
      <4>1. i + 1 = j + 1
        BY <2>1, <2>5, <3>1 DEF OwnInv
      <4>2. i \in Int /\ j \in Int
        BY <2>3, <2>4, <3>1
      <4> QED  BY <4>1, <4>2
    <3>2. CASE d # c
      BY <2>4, <3>2 DEF OwnInv
    <3> QED  BY <3>1, <3>2
  <2>14. /\ Distinct(list')
         /\ \A v \in Connections : cmd'[v].at \in {"draw", "stroke"} =>
              cmd'[v].stroke \in drawn' /\ AuthorOf[cmd'[v].stroke] = v
         /\ \A s \in Strokes, d \in Connections : Pending(s)' => ~Told(d, s)'
    BY <2>2, <2>6, <2>7 DEF OwnInv
  <2> QED  BY <2>10, <2>11, <2>12, <2>13, <2>14 DEF OwnInv
<1>16. ASSUME UNCHANGED boardVars PROVE OwnInv'
  BY <1>0, <1>16, OwnKept DEF boardVars
<1> QED
  BY <1>2, <1>3, <1>4, <1>5, <1>6, <1>7, <1>8, <1>9, <1>10, <1>11, <1>12, <1>13, <1>14, <1>15, <1>16 DEF BoardNext

------------------------------------------------------------------------------
(* Clients end up with the board of the list.                              *)

LEMMA AgreeInit == BoardInit => AgreeInv
<1> SUFFICES ASSUME BoardInit PROVE AgreeInv
  OBVIOUS
<1>1. /\ list = <<>> /\ (\A w \in Connections : cmd[w] = NoCommand /\ cmd[w].at = "idle")
      /\ \A c \in Connections : backlog[c] = <<>> /\ joined[c] = "out"
  BY BoardValues DEF BoardInit
<1>2. Busy = {}
  BY <1>1 DEF Busy
<1>3. DOMAIN <<>> = {}
  OBVIOUS
<1> QED  BY <1>1, <1>2, <1>3 DEF AgreeInv, LastOf

\* A command changes the list, or not, and is then to say which strokes it may have changed.
LEMMA AgreeChanged ==
  ASSUME BoardInv, AgreeInv, ~rough, UNCHANGED client, NEW w \in Connections,
         Busy \subseteq {w}, cmd[w].at \notin Kinds, NEW k \in BoardCommand, cmd' = [cmd EXCEPT ![w] = k],
         k.at = "stroke" => k.stroke \in Elements(list'),
         k.at = "removed" => k.stroke \notin Elements(list'),
         k.at = "clear" => list' = <<>>,
         \A x \in Strokes : Announces(k, x) \/ (x \in Elements(list') <=> x \in Elements(list))
  PROVE  AgreeInv'
<1>1. /\ cmd'[w] = k /\ \A v \in Connections \ {w} : cmd'[v] = cmd[v] /\ cmd[v] = NoCommand
      /\ UNCHANGED <<backlog, board, joined>>
  BY DEF client, Busy, BoardInv, BoardTypeOK
<1>2. \A u, v \in Busy' : u = v
  BY <1>1 DEF Busy
<1>3. \A v \in Connections :
        /\ cmd'[v].at = "stroke" => cmd'[v].stroke \in Elements(list')
        /\ cmd'[v].at = "removed" => cmd'[v].stroke \notin Elements(list')
        /\ cmd'[v].at = "clear" => list' = <<>>
  BY <1>1, BoardValues
<1>4. ASSUME NEW c \in Connections, NEW s \in Strokes, ~Announcing(s)'
      PROVE  /\ \A i \in DOMAIN backlog'[c] : LastOf(c, s, i)' =>
                  (s \in Elements(list') <=> backlog'[c][i].kind = "stroke")
             /\ joined'[c] = "in" /\ Untouched(c, s)' => (s \in Elements(list') <=> board'[c][s] > 0)
  <2>1. s \in Elements(list') <=> s \in Elements(list)
    BY <1>1, <1>4 DEF Announcing
  <2>2. ~Announcing(s)
    BY <1>1, BoardValues DEF Announcing, Announces, Kinds
  <2>3. (Untouched(c, s)' <=> Untouched(c, s)) /\ \A i : LastOf(c, s, i)' <=> LastOf(c, s, i)
    BY <1>1 DEF Untouched, LastOf
  <2> QED  BY <1>1, <2>1, <2>2, <2>3 DEF AgreeInv
<1> QED  BY <1>2, <1>3, <1>4 DEF AgreeInv

LEMMA AgreeStep ==
  ASSUME BoardInv, BoardInv', OwnInv, AgreeInv, [BoardNext]_boardVars
  PROVE  AgreeInv'
<1>0. /\ list \in Seq(Strokes) /\ Len(list) <= MaxStrokes /\ Distinct(list)
      /\ cmd \in [Connections -> BoardCommand]
      /\ backlog \in [Connections -> Seq(Event)]
      /\ board \in [Connections -> [Strokes -> Nat]]
      /\ joined \in [Connections -> {"out", "subscribed", "in"}]
      /\ rough \in BOOLEAN
  BY DEF BoardInv, BoardTypeOK, OwnInv
<1> SUFFICES ASSUME ~rough' PROVE AgreeInv'
  BY DEF AgreeInv
<1>1. \A w \in Connections : cmd[w] # NoCommand /\ ~rough => Busy \subseteq {w}
  BY DEF AgreeInv, Busy
<1>2. \A w \in Connections : cmd[w].at # "idle" => cmd[w] # NoCommand
  BY BoardValues
<1>3. ASSUME NEW w \in Connections, NEW at \in BoardSteps, NEW s \in Strokes \cup {NoStroke}, Start(w, at, s)
      PROVE  AgreeInv'
  <2>1. PICK k \in BoardCommand : k = [at |-> at, stroke |-> s]
    BY BoardValues
  <2>2. k.at \in BoardSteps /\ cmd' = [cmd EXCEPT ![w] = k]
    BY <1>3, <2>1 DEF Start, GoOn
  <2>3. k.at \notin Kinds
    BY <2>2 DEF BoardSteps, Kinds
  <2>4. ~rough /\ Busy = {} /\ UNCHANGED client /\ list' = list
    BY <1>0, <1>3 DEF Start, shared
  <2>5. cmd[w].at \notin Kinds
    BY <1>3, BoardValues DEF Start, Kinds
  <2> QED  BY <2>2, <2>3, <2>4, <2>5, AgreeChanged DEF Kinds
<1>4. ASSUME NEW w \in Connections, NEW s \in Strokes, AskToDraw(w, s) \/ AskToErase(w, s)
      PROVE  AgreeInv'
  <2>1. "draw" \in BoardSteps /\ "erase" \in BoardSteps
    BY DEF BoardSteps
  <2> QED  BY <1>3, <1>4, <2>1 DEF AskToDraw, AskToErase
<1>5. ASSUME NEW w \in Connections, AskToUndo(w) \/ AskToClear(w)
      PROVE  AgreeInv'
  <2>1. "undo" \in BoardSteps /\ "pop" \in BoardSteps /\ "wipe" \in BoardSteps
    BY DEF BoardSteps
  <2> QED  BY <1>3, <1>5, <2>1 DEF AskToUndo, AskToClear
<1>6. ASSUME UNCHANGED <<list, cmd, backlog, board, joined, rough>> PROVE AgreeInv'
  BY <1>6 DEF AgreeInv, Busy, Announcing, LastOf, Untouched
<1>7. ASSUME NEW w \in Connections, SetDrawPermission(w) PROVE AgreeInv'
  BY <1>6, <1>7 DEF SetDrawPermission, client, history
<1>8. ASSUME NEW w \in Connections, AppendStroke(w) PROVE AgreeInv'
  <2>1. PICK s : s = cmd[w].stroke
    OBVIOUS
  <2>2. s \in Strokes /\ cmd[w].at = "draw" /\ ~rough /\ Len(list) # MaxStrokes
    BY <1>0, <1>8, <2>1 DEF AppendStroke, BoardInv, Named
  <2>3. s \notin Elements(list)
    BY <2>1, <2>2 DEF OwnInv, Drawing
  <2>4. Elements(list') = Elements(list) \cup {s}
    BY <1>0, <1>8, <2>1, <2>2, <2>3, KeptIs DEF AppendStroke
  <2>5. PICK k \in BoardCommand : k = [at |-> "stroke", stroke |-> s]
    BY <2>2, BoardValues DEF Kinds
  <2>6. k.at = "stroke" /\ k.stroke = s /\ cmd' = [cmd EXCEPT ![w] = k] /\ UNCHANGED client
    BY <1>8, <2>1, <2>5 DEF AppendStroke, GoOn
  <2>7. Busy \subseteq {w} /\ cmd[w].at \notin Kinds
    BY <1>1, <1>2, <2>2 DEF Kinds
  <2>8. \A x \in Strokes : Announces(k, x) \/ (x \in Elements(list') <=> x \in Elements(list))
    BY <2>4, <2>6 DEF Announces, Kinds
  <2> QED  BY <2>2, <2>4, <2>6, <2>7, <2>8, AgreeChanged
<1>9. ASSUME NEW w \in Connections, cmd[w].at \in BoardSteps \ {"idle"}, ~rough, UNCHANGED client,
             NEW k \in BoardCommand, cmd' = [cmd EXCEPT ![w] = k], k.at \notin Kinds,
             \A x \in Strokes : x \in Elements(list') <=> x \in Elements(list)
      PROVE  AgreeInv'
  <2>1. Busy \subseteq {w} /\ cmd[w].at \notin Kinds
    BY <1>1, <1>2, <1>9 DEF BoardSteps, Kinds
  <2> QED  BY <1>9, <2>1, AgreeChanged DEF Kinds
<1>10. NoCommand \in BoardCommand /\ NoCommand.at \notin Kinds
  BY BoardValues DEF Kinds
<1>11. ASSUME NEW w \in Connections, FindStroke(w) PROVE AgreeInv'
  <2>1. ~rough /\ UNCHANGED client /\ list' = list /\ cmd[w].at \in BoardSteps \ {"idle"}
    BY <1>0, <1>11 DEF FindStroke, shared, history, BoardSteps
  <2>2. \E k \in BoardCommand : k.at \notin Kinds /\ cmd' = [cmd EXCEPT ![w] = k]
    <3>1. CASE Finish(w)
      BY <1>10, <3>1 DEF Finish
    <3>2. ASSUME NEW s, GoOn(w, "remove", s) PROVE \E k \in BoardCommand : k.at \notin Kinds /\ cmd' = [cmd EXCEPT ![w] = k]
      <4> DEFINE k == [at |-> "remove", stroke |-> s]
      <4>1. k.at \notin Kinds /\ cmd' = [cmd EXCEPT ![w] = k]
        BY <3>2 DEF GoOn, Kinds
      <4>2. k = cmd'[w] /\ cmd'[w] \in BoardCommand
        BY <1>0, <4>1 DEF BoardInv, BoardTypeOK
      <4> HIDE DEF k
      <4> QED  BY <4>1, <4>2
    <3> QED  BY <1>11, <3>1, <3>2 DEF FindStroke
  <2> QED  BY <1>9, <2>1, <2>2
<1>12. ASSUME NEW w \in Connections, NEW s \in Strokes, cmd[w].at \in BoardSteps \ {"idle"}, ~rough,
              UNCHANGED client, GoOn(w, "removed", s), Elements(list') = Elements(list) \ {s}
       PROVE  AgreeInv'
  <2>1. PICK k \in BoardCommand : k = [at |-> "removed", stroke |-> s]
    BY BoardValues DEF Kinds
  <2>2. k.at = "removed" /\ k.stroke = s /\ cmd' = [cmd EXCEPT ![w] = k]
    BY <1>12, <2>1 DEF GoOn
  <2>3. Busy \subseteq {w} /\ cmd[w].at \notin Kinds
    BY <1>1, <1>2, <1>12 DEF BoardSteps, Kinds
  <2>4. \A x \in Strokes : Announces(k, x) \/ (x \in Elements(list') <=> x \in Elements(list))
    BY <1>12, <2>2 DEF Announces, Kinds
  <2> QED  BY <1>12, <2>2, <2>3, <2>4, AgreeChanged
<1>13. ASSUME NEW w \in Connections, RemoveStroke(w) PROVE AgreeInv'
  <2>1. PICK s : s = cmd[w].stroke
    OBVIOUS
  <2>2. s \in Strokes /\ cmd[w].at \in BoardSteps \ {"idle"} /\ ~rough /\ UNCHANGED client
    BY <1>0, <1>13, <2>1 DEF RemoveStroke, BoardInv, Named, history, BoardSteps
  <2>3. Elements(list') = Elements(list) \ {s}
    BY <1>0, <1>13, <2>1, WithoutIs DEF RemoveStroke
  <2>4. CASE s \in Elements(list)
    BY <1>12, <1>13, <2>1, <2>2, <2>3, <2>4 DEF RemoveStroke
  <2>5. CASE s \notin Elements(list)
    <3>1. cmd' = [cmd EXCEPT ![w] = NoCommand]
      BY <1>13, <2>1, <2>5 DEF RemoveStroke, Finish
    <3>2. \A x \in Strokes : x \in Elements(list') <=> x \in Elements(list)
      BY <2>3, <2>5
    <3> QED  BY <1>9, <1>10, <2>2, <3>1, <3>2
  <2> QED  BY <2>4, <2>5
<1>14. ASSUME NEW w \in Connections, PopStroke(w) PROVE AgreeInv'
  <2>1. cmd[w].at \in BoardSteps \ {"idle"} /\ ~rough /\ UNCHANGED client
    BY <1>0, <1>14 DEF PopStroke, history, BoardSteps
  <2>2. CASE list = <<>>
    <3>1. cmd' = [cmd EXCEPT ![w] = NoCommand] /\ list' = list
      BY <1>14, <2>2 DEF PopStroke, Finish
    <3> QED  BY <1>9, <1>10, <2>1, <3>1
  <2>3. CASE list # <<>>
    <3>1. PICK s : s = list[Len(list)]
      OBVIOUS
    <3>2. s \in Strokes
      <4>1. Len(list) \in 1..Len(list)
        BY <1>0, <2>3, LenProperties, EmptySeq
      <4> QED  BY <1>0, <3>1, <4>1, ElementOfSeq
    <3>3. Elements(list') = Elements(list) \ {s} /\ GoOn(w, "removed", s)
      BY <1>0, <1>14, <2>3, <3>1, FrontIs DEF PopStroke
    <3> QED  BY <1>12, <2>1, <3>2, <3>3
  <2> QED  BY <2>2, <2>3
<1>15. ASSUME NEW w \in Connections, Wipe(w) PROVE AgreeInv'
  <2>1. cmd[w].at = "wipe" /\ ~rough /\ UNCHANGED client /\ list' = <<>>
    BY <1>0, <1>15 DEF Wipe, history
  <2>2. PICK k \in BoardCommand : k = [at |-> "clear", stroke |-> NoStroke]
    BY BoardValues DEF Kinds
  <2>3. k.at = "clear" /\ cmd' = [cmd EXCEPT ![w] = k]
    BY <1>15, <2>2 DEF Wipe, GoOn
  <2>4. Busy \subseteq {w} /\ cmd[w].at \notin Kinds
    BY <1>1, <1>2, <2>1 DEF Kinds
  <2>5. \A x \in Strokes : Announces(k, x)
    BY <2>3 DEF Announces, Kinds
  <2> QED  BY <2>1, <2>3, <2>4, <2>5, AgreeChanged
<1>16. ASSUME NEW w \in Connections, CommandFails(w) \/ HydrateFails(w) PROVE AgreeInv'
  BY <1>16 DEF CommandFails, HydrateFails, Fails
<1>17. ASSUME NEW w \in Connections, Publish(w) PROVE AgreeInv'
  <2>1. PICK e : e = Announced(w)
    OBVIOUS
  <2>2. e.kind = cmd[w].at /\ e.stroke = cmd[w].stroke /\ e \in Event /\ e.kind \in Kinds
    BY <1>0, <1>17, <2>1 DEF Publish, Announced, Event, BoardCommand
  <2>3. ~rough /\ cmd'[w] = NoCommand /\ UNCHANGED <<list, board>>
    BY <1>0, <1>17 DEF Publish, Finish, shared, history
  <2>4. Busy \subseteq {w}
    BY <1>1, <1>2, <2>2, <2>3 DEF Kinds
  <2>5. \A v \in Connections : cmd'[v] = NoCommand
    BY <1>0, <1>17, <2>3, <2>4 DEF Publish, Finish, Busy
  <2>6. \A x \in Strokes : Touches(e, x) => (x \in Elements(list) <=> e.kind = "stroke")
    <3>1. Elements(<<>>) = {}
      BY DEF Elements
    <3> QED  BY <2>2, <2>3, <3>1 DEF AgreeInv, Touches, Kinds
  <2>7. \A x \in Strokes : ~Touches(e, x) => ~Announcing(x)
    BY <2>2, <2>4, BoardValues DEF Announcing, Announces, Touches, Busy, Kinds
  <2>8. ASSUME NEW c \in Connections, NEW s \in Strokes
        PROVE  /\ \A i \in DOMAIN backlog'[c] : LastOf(c, s, i)' =>
                    (s \in Elements(list') <=> backlog'[c][i].kind = "stroke")
               /\ joined'[c] = "in" /\ Untouched(c, s)' => (s \in Elements(list') <=> board'[c][s] > 0)
    <3>1. CASE joined[c] = "out" \/ c \in Overrun
      <4>1. backlog'[c] = <<>> /\ joined'[c] = "out"
        BY <1>17, <3>1 DEF Publish, Overrun
      <4>2. DOMAIN <<>> = {}
        OBVIOUS
      <4> QED  BY <4>1, <4>2
    <3>2. CASE joined[c] # "out" /\ c \notin Overrun
      <4>1. backlog'[c] = Append(backlog[c], e) /\ joined'[c] = joined[c]
        BY <1>17, <2>1, <3>2 DEF Publish
      <4>2. PICK n \in Nat : n = Len(backlog[c])
        BY <1>0, LenProperties
      <4>3. /\ DOMAIN backlog'[c] = 1..n + 1 /\ DOMAIN backlog[c] = 1..n
            /\ (\A i \in 1..n : backlog'[c][i] = backlog[c][i]) /\ backlog'[c][n + 1] = e
        <5>1. backlog[c] \in Seq(Event)
          BY <1>0
        <5> QED  BY <2>2, <4>1, <4>2, <5>1, AppendIs
      <4>4. CASE Touches(e, s)
        <5>1. ~Untouched(c, s)'
          <6>1. n + 1 \in DOMAIN backlog'[c]
            BY <4>3
          <6> QED  BY <4>3, <4>4, <6>1 DEF Untouched
        <5>2. ASSUME NEW i \in DOMAIN backlog'[c], LastOf(c, s, i)' PROVE i = n + 1
          <6>1. n + 1 \in DOMAIN backlog'[c] /\ (i = n + 1 \/ n + 1 > i)
            BY <4>3
          <6> QED  BY <4>3, <4>4, <5>2, <6>1 DEF LastOf
        <5> QED  BY <2>3, <2>6, <4>3, <4>4, <5>1, <5>2
      <4>5. CASE ~Touches(e, s)
        <5>1. ~Announcing(s)
          BY <2>7, <4>5
        <5>2. ASSUME NEW i \in DOMAIN backlog'[c], LastOf(c, s, i)'
              PROVE  i \in DOMAIN backlog[c] /\ LastOf(c, s, i) /\ backlog'[c][i] = backlog[c][i]
          <6>1. i \in 1..n
            <7>1. i # n + 1
              BY <4>3, <4>5, <5>2 DEF LastOf
            <7> QED  BY <4>3, <7>1
          <6>2. \A j \in 1..n : j \in 1..n + 1
            OBVIOUS
          <6> QED  BY <4>3, <5>2, <6>1, <6>2 DEF LastOf
        <5>3. Untouched(c, s)' => Untouched(c, s)
          <6>1. \A j \in 1..n : j \in 1..n + 1
            OBVIOUS
          <6> QED  BY <4>3, <6>1 DEF Untouched
        <5> QED  BY <2>3, <4>1, <5>1, <5>2, <5>3 DEF AgreeInv
      <4> QED  BY <4>4, <4>5
    <3> QED  BY <3>1, <3>2
  <2>9. Busy' = {}
    BY <2>5 DEF Busy
  <2> QED  BY <2>5, <2>8, <2>9, BoardValues DEF AgreeInv
<1>18. ASSUME NEW c \in Connections, Subscribe(c) \/ Leave(c) PROVE AgreeInv'
  <2>1. /\ UNCHANGED <<list, cmd, board, rough>> /\ ~rough
        /\ joined'[c] # "in" /\ (backlog'[c] = backlog[c] \/ backlog'[c] = <<>>)
        /\ \A d \in Connections \ {c} : joined'[d] = joined[d] /\ backlog'[d] = backlog[d]
    BY <1>0, <1>18 DEF Subscribe, Leave, shared, history
  <2>2. \A s \in Strokes : Announcing(s)' <=> Announcing(s)
    BY <2>1 DEF Announcing
  <2>3. DOMAIN <<>> = {}
    OBVIOUS
  <2>4. ASSUME NEW d \in Connections, NEW s \in Strokes, ~Announcing(s)'
        PROVE  /\ \A i \in DOMAIN backlog'[d] : LastOf(d, s, i)' =>
                    (s \in Elements(list') <=> backlog'[d][i].kind = "stroke")
               /\ joined'[d] = "in" /\ Untouched(d, s)' => (s \in Elements(list') <=> board'[d][s] > 0)
    <3>1. CASE backlog'[d] = <<>>  /\ d = c
      BY <2>1, <2>3, <3>1
    <3>2. CASE backlog'[d] = backlog[d]
      <4>1. (Untouched(d, s)' <=> Untouched(d, s)) /\ \A i : LastOf(d, s, i)' <=> LastOf(d, s, i)
        BY <3>2 DEF Untouched, LastOf
      <4> QED  BY <2>1, <2>2, <2>4, <3>2, <4>1 DEF AgreeInv
    <3> QED  BY <2>1, <3>1, <3>2
  <2>5. Busy' = Busy
    BY <2>1 DEF Busy
  <2> QED  BY <2>1, <2>4, <2>5 DEF AgreeInv
<1>19. ASSUME NEW c \in Connections, Hydrate(c) PROVE AgreeInv'
  <2>1. /\ UNCHANGED <<list, cmd, backlog, rough>> /\ ~rough
        /\ board'[c] = Snapshot(list)
        /\ \A d \in Connections \ {c} : joined'[d] = joined[d] /\ board'[d] = board[d]
    BY <1>0, <1>19 DEF Hydrate, shared
  <2>2. \A s \in Strokes : Announcing(s)' <=> Announcing(s)
    BY <2>1 DEF Announcing
  <2>3. \A s \in Strokes : s \in Elements(list) <=> board'[c][s] > 0
    <3>1. \A s \in Strokes : Snapshot(list)[s] = IF s \in Elements(list) THEN 1 ELSE 0
      BY <1>0, SnapshotIs
    <3> QED  BY <2>1, <3>1
  <2>4. \A d \in Connections, s \in Strokes :
          (Untouched(d, s)' <=> Untouched(d, s)) /\ \A i : LastOf(d, s, i)' <=> LastOf(d, s, i)
    BY <2>1 DEF Untouched, LastOf
  <2>5. ASSUME NEW d \in Connections, NEW s \in Strokes, ~Announcing(s)'
        PROVE  /\ \A i \in DOMAIN backlog'[d] : LastOf(d, s, i)' =>
                    (s \in Elements(list') <=> backlog'[d][i].kind = "stroke")
               /\ joined'[d] = "in" /\ Untouched(d, s)' => (s \in Elements(list') <=> board'[d][s] > 0)
    <3>1. CASE d = c
      BY <2>1, <2>2, <2>3, <2>4, <2>5, <3>1 DEF AgreeInv
    <3>2. CASE d # c
      BY <2>1, <2>2, <2>4, <2>5, <3>2 DEF AgreeInv
    <3> QED  BY <3>1, <3>2
  <2>6. Busy' = Busy
    BY <2>1 DEF Busy
  <2> QED  BY <2>1, <2>5, <2>6 DEF AgreeInv
<1>20. ASSUME NEW c \in Connections, Receive(c) PROVE AgreeInv'
  <2>1. PICK e, q, b : e = Head(backlog[c]) /\ q = backlog[c] /\ b = board[c]
    OBVIOUS
  <2>2. /\ UNCHANGED <<list, cmd, joined>> /\ ~rough /\ joined[c] = "in"
        /\ board' = [board EXCEPT ![c] = Applied(b, e)]
        /\ backlog' = [backlog EXCEPT ![c] = Tail(q)]
        /\ e.kind = "stroke" => Size(b) # MaxStrokes
    BY <1>0, <1>20, <2>1 DEF Receive, shared
  <2>3. /\ Len(q) \in Nat \ {0} /\ DOMAIN q = 1..Len(q)
        /\ DOMAIN Tail(q) = 1..Len(q) - 1
        /\ \A i \in 1..Len(q) - 1 : Tail(q)[i] = q[i + 1]
        /\ e = q[1] /\ e \in Event
    <3>1. q \in Seq(Event) /\ q # <<>>
      BY <1>0, <1>20, <2>1 DEF Receive
    <3> QED  BY <2>1, <3>1, TailIs, ElementOfSeq
  <2>4. /\ backlog'[c] = Tail(q) /\ board'[c] = Applied(b, e)
        /\ \A d \in Connections \ {c} : backlog'[d] = backlog[d] /\ board'[d] = board[d]
    BY <1>0, <2>2
  <2>5. PICK n \in Nat : n = Len(q) - 1
    <3>1. Len(q) - 1 \in Nat
      BY <2>3
    <3> QED  BY <3>1
  <2>6. /\ DOMAIN q = 1..n + 1 /\ DOMAIN backlog'[c] = 1..n
        /\ \A i \in 1..n : backlog'[c][i] = q[i + 1]
    BY <2>3, <2>4, <2>5
  <2>7. b \in [Strokes -> Nat] /\ (e.kind = "stroke" => Size(b) < MaxStrokes)
    <3>1. b \in [Strokes -> Nat] /\ Size(b) <= MaxStrokes /\ Size(b) \in Nat /\ MaxStrokes \in Nat
      BY <1>0, <2>1, SizeIs, WhiteboardAssumption DEF BoardInv, BoardTypeOK
    <3> QED  BY <2>2, <3>1
  <2>8. \A s \in Strokes :
          /\ ~Touches(e, s) => Applied(b, e)[s] = b[s]
          /\ Touches(e, s) => (Applied(b, e)[s] > 0 <=> e.kind = "stroke")
    <3>1. e.kind # "clear" => e.stroke \in Strokes
      <4>1. 1 \in DOMAIN q
        BY <2>3
      <4> QED  BY <2>1, <2>3, <4>1 DEF BoardInv, Named
    <3>2. ASSUME NEW s \in Strokes
          PROVE  /\ ~Touches(e, s) => Applied(b, e)[s] = b[s]
                 /\ Touches(e, s) /\ e.kind # "stroke" => Applied(b, e)[s] = 0
                 /\ Touches(e, s) /\ e.kind = "stroke" => Applied(b, e)[s] = b[s] + 1
      BY <2>3, <2>7, <3>1, AppliedIs
    <3>3. \A s \in Strokes : b[s] \in Nat
      BY <2>7
    <3> QED  BY <3>2, <3>3
  <2>9. \A s \in Strokes : Announcing(s)' <=> Announcing(s)
    BY <2>2 DEF Announcing
  <2>10. ASSUME NEW s \in Strokes, ~Announcing(s)
         PROVE  /\ \A i \in DOMAIN backlog'[c] : LastOf(c, s, i)' =>
                     (s \in Elements(list') <=> backlog'[c][i].kind = "stroke")
                /\ Untouched(c, s)' => (s \in Elements(list') <=> board'[c][s] > 0)
    <3>1. ASSUME NEW i \in DOMAIN backlog'[c], LastOf(c, s, i)'
          PROVE  s \in Elements(list') <=> backlog'[c][i].kind = "stroke"
      <4>1. i \in 1..n /\ i + 1 \in 1..n + 1 /\ backlog'[c][i] = q[i + 1]
        BY <2>6
      <4>2. ASSUME NEW j \in 1..n + 1, j > i + 1 PROVE ~Touches(q[j], s)
        <5>1. j - 1 \in 1..n /\ j - 1 > i /\ (j - 1) + 1 = j
          BY <4>1, <4>2
        <5>2. backlog'[c][j - 1] = q[j]
          BY <2>6, <5>1
        <5> QED  BY <2>6, <3>1, <5>1, <5>2 DEF LastOf
      <4>3. LastOf(c, s, i + 1)
        BY <2>1, <2>6, <3>1, <4>1, <4>2 DEF LastOf
      <4> QED  BY <2>1, <2>2, <2>6, <2>10, <4>1, <4>3 DEF AgreeInv
    <3>2. ASSUME Untouched(c, s)' PROVE s \in Elements(list') <=> board'[c][s] > 0
      <4>1. ASSUME NEW j \in 1..n + 1, j # 1 PROVE ~Touches(q[j], s)
        <5>1. j - 1 \in 1..n /\ (j - 1) + 1 = j
          BY <4>1
        <5>2. backlog'[c][j - 1] = q[j]
          BY <2>6, <5>1
        <5> QED  BY <2>6, <3>2, <5>1, <5>2 DEF Untouched
      <4>2. CASE Touches(e, s)
        <5>1. LastOf(c, s, 1)
          <6>1. 1 \in 1..n + 1 /\ \A j \in 1..n + 1 : j > 1 => j # 1
            OBVIOUS
          <6> QED  BY <2>1, <2>3, <2>6, <4>1, <4>2, <6>1 DEF LastOf
        <5>2. s \in Elements(list) <=> e.kind = "stroke"
          BY <2>1, <2>2, <2>3, <2>6, <2>10, <5>1 DEF AgreeInv, LastOf
        <5> QED  BY <2>2, <2>4, <2>8, <4>2, <5>2
      <4>3. CASE ~Touches(e, s)
        <5>1. Untouched(c, s)
          BY <2>1, <2>3, <2>6, <4>1, <4>3 DEF Untouched
        <5>2. s \in Elements(list) <=> b[s] > 0
          BY <2>1, <2>2, <2>10, <5>1 DEF AgreeInv
        <5> QED  BY <2>2, <2>4, <2>8, <4>3, <5>2
      <4> QED  BY <4>2, <4>3
    <3> QED  BY <3>1, <3>2
  <2>11. ASSUME NEW d \in Connections \ {c}, NEW s \in Strokes, ~Announcing(s)
         PROVE  /\ \A i \in DOMAIN backlog'[d] : LastOf(d, s, i)' =>
                     (s \in Elements(list') <=> backlog'[d][i].kind = "stroke")
                /\ joined'[d] = "in" /\ Untouched(d, s)' => (s \in Elements(list') <=> board'[d][s] > 0)
    <3>1. (Untouched(d, s)' <=> Untouched(d, s)) /\ \A i : LastOf(d, s, i)' <=> LastOf(d, s, i)
      BY <2>4 DEF Untouched, LastOf
    <3> QED  BY <2>2, <2>4, <2>11, <3>1 DEF AgreeInv
  <2>12. Busy' = Busy
    BY <2>2 DEF Busy
  <2> QED  BY <2>2, <2>9, <2>10, <2>11, <2>12 DEF AgreeInv
<1>21. ASSUME UNCHANGED boardVars PROVE AgreeInv'
  BY <1>6, <1>21 DEF boardVars
<1> QED
  BY <1>4, <1>5, <1>7, <1>8, <1>11, <1>13, <1>14, <1>15, <1>16, <1>17, <1>18, <1>19, <1>20, <1>21 DEF BoardNext

------------------------------------------------------------------------------
(* The theorems on whiteboards.                                            *)

LEMMA Whiteboards == BoardSpec => [](BoardInv /\ OwnInv)
<1>1. BoardInv /\ OwnInv /\ [BoardNext]_boardVars => BoardInv' /\ OwnInv'
  <2> SUFFICES ASSUME BoardInv, OwnInv, [BoardNext]_boardVars PROVE BoardInv' /\ OwnInv'
    OBVIOUS
  <2>1. Distinct(list) /\ \A w \in Connections : cmd[w].at = "draw" => cmd[w].stroke \notin Elements(list)
    BY DEF OwnInv, Drawing, BoardInv, Named
  <2> QED  BY <2>1, BoardInvStep, OwnStep
<1> QED  BY BoardInvInit, OwnInit, <1>1, PTL DEF BoardSpec

\* The keys, commands, events and boards have their types, and neither the list in Redis
\* (the append script) nor what a client shows of it (append_stroke) outgrows its limit.
THEOREM BoardTypeCorrect == BoardSpec => []BoardTypeOK
<1>1. BoardInv => BoardTypeOK
  BY DEF BoardInv
<1> QED  BY Whiteboards, <1>1, PTL

\* No client shows a stroke twice, unless the snapshot that it took over when it connected
\* already had a stroke whose event was still to come.
THEOREM OncePerBoard == BoardSpec => []StrokeAppearsOnce
<1>1. OwnInv => StrokeAppearsOnce
  BY DEF OwnInv
<1> QED  BY Whiteboards, <1>1, PTL

\* As long as nothing fails, commands do not overlap and the limit is not met, a client
\* that has received its events shows what a late joiner would be given.
THEOREM BoardsMeet == BoardSpec => []BoardsAgree
<1>1. BoardInv /\ OwnInv /\ AgreeInv /\ [BoardNext]_boardVars /\ BoardInv' => AgreeInv'
  BY AgreeStep
<1>2. BoardInv /\ AgreeInv => BoardsAgree
  <2> SUFFICES ASSUME BoardInv, AgreeInv, ~rough, Busy = {}, NEW c \in Connections,
                      joined[c] = "in", backlog[c] = <<>>
               PROVE  {s \in Strokes : board[c][s] > 0} = Elements(list)
    BY DEF BoardsAgree
  <2>1. \A s \in Strokes : ~Announcing(s) /\ Untouched(c, s)
    <3>1. DOMAIN <<>> = {} /\ \A w \in Connections : cmd[w].at = "idle"
      BY BoardValues DEF Busy
    <3> QED  BY <3>1 DEF Announcing, Announces, Kinds, Untouched
  <2>2. \A s \in Strokes : s \in Elements(list) <=> board[c][s] > 0
    BY <2>1 DEF AgreeInv
  <2>3. Elements(list) \subseteq Strokes
    <3>1. list \in Seq(Strokes)
      BY DEF BoardInv, BoardTypeOK
    <3> QED  BY <3>1, ElementsAre, ElementOfSeq
  <2> QED  BY <2>2, <2>3
<1> QED  BY Whiteboards, AgreeInit, <1>1, <1>2, PTL DEF BoardSpec

==============================================================================
