------------------------------- MODULE LiveRoom -------------------------------
(***************************************************************************)
(* Who is in a live room: the connections of its users from the gate of    *)
(* the upgrade request to the farewell of run_socket, the presence keys in *)
(* Redis, kicks, and the end of the class. One statement, Redis command or *)
(* event per action.                                                       *)
(*                                                                         *)
(* The subscription of a connection delivers the events of the room from   *)
(* the moment it subscribed, in one order. The clients are taken to show a *)
(* published count at once; the events that end a connection wait. The     *)
(* other commands of a socket are modelled in LivePoll, Whiteboard and     *)
(* LiveStage, what a connection leaves in the attendance table in          *)
(* Attendance. The kicks: keys in Redis, which kick_set writes, have no    *)
(* reader and are left out.                                                *)
(***************************************************************************)
EXTENDS Integers, FiniteSets

CONSTANTS
  Connections, \* upgrade requests; one that ended is not used again
  Users,
  UserOf,      \* the user of each connection; one user may have several
  Staff,       \* connections of teachers and admins
  NoUser,
  MaxKicks,    \* bound on kicks
  MaxFaults    \* bound on faults

ASSUME RoomAssumption ==
  /\ UserOf \in [Connections -> Users]
  /\ Staff \subseteq Connections
  /\ IsFiniteSet(Users) /\ NoUser \notin Users
  /\ MaxKicks \in Nat /\ MaxFaults \in Nat

VARIABLES
  over,    \* live_sessions.status is no longer scheduled or live
  kicked,  \* live_room_kicks
  present, \* the presence keys
  at,      \* where each connection stands
  read,    \* the count it has read and has yet to publish
  target,  \* whom it is about to announce as kicked
  told,    \* connections that have yet to handle an event that dismisses them
  shown,   \* the count that was published last, which the clients show
  closer,  \* where end-class stands
  slipped, \* history: connections that missed an event meant for them
  doubled, \* history: users who had two connections in the room at once
  crowded, \* history: two connections were arriving or leaving at once
  kicks,   \* how often somebody was kicked
  faults   \* how often something failed so far

vars == <<over, kicked, present, at, read, target, told, shown, closer, slipped,
          doubled, crowded, kicks, faults>>
room == <<over, kicked>>
history == <<slipped, doubled, crowded, kicks>>

Steps == {"new", "loaded", "admitted", "subscribed", "joined", "counted", "in",
          "kick", "leaving", "left", "farewell", "gone"}
Subscribed == {"subscribed", "joined", "counted", "in", "kick"}
Inside == {"joined", "counted", "in", "kick", "leaving"}
Moving == {"joined", "counted", "left", "farewell"}
Fault == faults < MaxFaults /\ faults' = faults + 1
Goto(c, step) == at' = [at EXCEPT ![c] = step]

Init ==
  /\ over = FALSE /\ kicked = {} /\ present = {}
  /\ at = [c \in Connections |-> "new"]
  /\ read = [c \in Connections |-> 0]
  /\ target = [c \in Connections |-> NoUser]
  /\ told = {} /\ shown = 0
  /\ closer = "idle"
  /\ slipped = {} /\ doubled = {} /\ crowded = FALSE
  /\ kicks = 0 /\ faults = 0

------------------------------------------------------------------------------
(* Arriving.                                                               *)

\* socket_gate loads the session, and will refuse one that is over.
Load(c) ==
  /\ at[c] = "new" /\ ~over
  /\ Goto(c, "loaded")
  /\ UNCHANGED <<room, present, read, target, told, shown, closer, history, faults>>

\* Mutant: the gate does not look for a kick.
AdmitAll(c) ==
  /\ at[c] = "loaded"
  /\ Goto(c, "admitted")
  /\ UNCHANGED <<room, present, read, target, told, shown, closer, history, faults>>

\* It then looks for a kick.
CheckKick(c) ==
  /\ at[c] = "loaded"
  /\ Goto(c, IF UserOf[c] \in kicked THEN "gone" ELSE "admitted")
  /\ UNCHANGED <<room, present, read, target, told, shown, closer, history, faults>>

Subscribe(c) ==
  /\ at[c] = "admitted"
  /\ Goto(c, "subscribed")
  /\ UNCHANGED <<room, present, read, target, told, shown, closer, history, faults>>

\* Mutant: a connection after the first does not list its user.
JoinOnce(c) ==
  /\ at[c] = "subscribed"
  /\ present' = IF \E d \in Connections \ {c} : UserOf[d] = UserOf[c] /\ at[d] # "new"
                THEN present ELSE present \cup {UserOf[c]}
  /\ Goto(c, "joined")
  /\ doubled' = IF \E d \in Connections : UserOf[d] = UserOf[c] /\ at[d] \in Inside
                THEN doubled \cup {UserOf[c]} ELSE doubled
  /\ crowded' = (crowded \/ \E d \in Connections : at[d] \in Moving)
  /\ UNCHANGED <<room, read, target, told, shown, closer, slipped, kicks, faults>>

\* presence_join.
Join(c) ==
  /\ at[c] = "subscribed"
  /\ present' = present \cup {UserOf[c]}
  /\ Goto(c, "joined")
  /\ doubled' = IF \E d \in Connections : UserOf[d] = UserOf[c] /\ at[d] \in Inside
                THEN doubled \cup {UserOf[c]} ELSE doubled
  /\ crowded' = (crowded \/ \E d \in Connections : at[d] \in Moving)
  /\ UNCHANGED <<room, read, target, told, shown, closer, slipped, kicks, faults>>

\* presence_count, after joining and after leaving; a failure counts as nobody.
Count(c) ==
  /\ at[c] \in {"joined", "left"}
  /\ \/ read' = [read EXCEPT ![c] = Cardinality(present)] /\ UNCHANGED faults
     \/ read' = [read EXCEPT ![c] = 0] /\ Fault
  /\ Goto(c, IF at[c] = "joined" THEN "counted" ELSE "farewell")
  /\ UNCHANGED <<room, present, target, told, shown, closer, history>>

PublishCount(c) ==
  /\ at[c] \in {"counted", "farewell"}
  /\ \/ shown' = read[c] /\ UNCHANGED faults
     \/ UNCHANGED shown /\ Fault
  /\ Goto(c, IF at[c] = "counted" THEN "in" ELSE "gone")
  /\ read' = [read EXCEPT ![c] = 0]
  /\ UNCHANGED <<room, present, target, told, closer, history>>

------------------------------------------------------------------------------
(* In the room.                                                            *)

\* The loop ends when an event says that the class is over or that this user is
\* kicked; other events go to the client.
Receive(c) ==
  /\ at[c] = "in" /\ c \in told
  /\ Goto(c, "leaving")
  /\ told' = told \ {c}
  /\ UNCHANGED <<room, present, read, target, shown, closer, history, faults>>

\* The client closes, stops answering, or the subscription ends.
Close(c) ==
  /\ at[c] = "in"
  /\ Goto(c, "leaving")
  /\ told' = told \ {c}
  /\ UNCHANGED <<room, present, read, target, shown, closer, history, faults>>

\* Kick commits the row, whether there is one already or not,
Kick(c, u) ==
  /\ at[c] = "in" /\ c \in Staff /\ u # UserOf[c]
  /\ kicks < MaxKicks /\ kicks' = kicks + 1
  /\ kicked' = kicked \cup {u}
  /\ target' = [target EXCEPT ![c] = u]
  /\ Goto(c, "kick")
  /\ UNCHANGED <<over, present, read, told, shown, closer, slipped, doubled, crowded,
                 faults>>

\* and tells the room: those subscribed, so not a connection that has passed the
\* gate and not got further; and nobody if the publication fails.
Of(u) == {d \in Connections : UserOf[d] = u}

\* Mutant: only those whose loop runs are told.
ReachedIn(D) == {d \in D : at[d] = "in"}

Reached(D) == {d \in D : at[d] \in Subscribed}

AnnounceKick(c) ==
  /\ at[c] = "kick"
  /\ \/ /\ told' = told \cup Reached(Of(target[c]))
        /\ slipped' = slipped \cup {d \in Of(target[c]) : at[d] = "admitted"}
        /\ UNCHANGED faults
     \/ UNCHANGED told /\ Fault /\ slipped' = slipped \cup Of(target[c])
  /\ Goto(c, "in")
  /\ target' = [target EXCEPT ![c] = NoUser]
  /\ UNCHANGED <<room, present, read, shown, closer, doubled, crowded, kicks>>

------------------------------------------------------------------------------
(* Leaving.                                                                *)

\* Mutant: the room is told the count from before the user left.
LeaveUncounted(c) ==
  /\ at[c] = "leaving"
  /\ present' = present \ {UserOf[c]}
  /\ read' = [read EXCEPT ![c] = Cardinality(present)]
  /\ Goto(c, "farewell")
  /\ crowded' = (crowded \/ \E d \in Connections : at[d] \in Moving)
  /\ UNCHANGED <<room, target, told, shown, closer, slipped, doubled, kicks,
                 faults>>

\* presence_leave removes the user, whose other connections are not looked at.
Leave(c) ==
  /\ at[c] = "leaving"
  /\ present' = present \ {UserOf[c]}
  /\ Goto(c, "left")
  /\ crowded' = (crowded \/ \E d \in Connections : at[d] \in Moving)
  /\ UNCHANGED <<room, read, target, told, shown, closer, slipped, doubled, kicks,
                 faults>>

\* Errors of presence_join and presence_leave are ignored; one of subscribe ends
\* the connection, and so does the death of the replica.
PresenceFails(c) ==
  /\ at[c] \in {"subscribed", "leaving"} /\ Fault
  /\ Goto(c, IF at[c] = "subscribed" THEN "joined" ELSE "left")
  /\ UNCHANGED <<room, present, read, target, told, shown, closer, history>>

Die(c) ==
  /\ at[c] \notin {"new", "gone"} /\ Fault
  /\ Goto(c, "gone")
  /\ slipped' = IF at[c] = "kick"
                THEN slipped \cup Of(target[c])
                ELSE slipped
  /\ told' = told \ {c}
  /\ UNCHANGED <<room, present, read, target, shown, closer, doubled, crowded,
                 kicks>>

------------------------------------------------------------------------------
(* End-class.                                                              *)

\* It commits the end,
End ==
  /\ closer = "idle"
  /\ over' = TRUE
  /\ closer' = "ended"
  /\ UNCHANGED <<kicked, present, at, read, target, told, shown, history, faults>>

\* tells the room,
AnnounceEnd ==
  /\ closer = "ended"
  /\ \/ /\ told' = told \cup Reached(Connections)
        /\ slipped' = slipped \cup {c \in Connections : at[c] \in {"loaded", "admitted"}}
        /\ UNCHANGED faults
     \/ UNCHANGED told /\ Fault /\ slipped' = Connections
  /\ closer' = "announced"
  /\ UNCHANGED <<room, present, at, read, target, shown, doubled, crowded, kicks>>

\* and drops the keys of the room.
ClearRoom ==
  /\ closer = "announced"
  /\ \/ present' = {} /\ UNCHANGED faults
     \/ UNCHANGED present /\ Fault
  /\ closer' = "done"
  /\ UNCHANGED <<room, at, read, target, told, shown, history>>

------------------------------------------------------------------------------

Next ==
  \/ \E c \in Connections :
       \/ Load(c) \/ CheckKick(c) \/ Subscribe(c) \/ Join(c) \/ Count(c)
       \/ PublishCount(c) \/ Receive(c) \/ Close(c) \/ AnnounceKick(c) \/ Leave(c)
       \/ PresenceFails(c) \/ Die(c)
       \/ \E u \in Users : Kick(c, u)
  \/ End \/ AnnounceEnd \/ ClearRoom

Spec == Init /\ [][Next]_vars

------------------------------------------------------------------------------
(* Properties.                                                             *)

\* The variables have the types of the columns, keys and messages they model.
TypeOK ==
  /\ over \in BOOLEAN
  /\ kicked \subseteq Users /\ present \subseteq Users
  /\ at \in [Connections -> Steps]
  /\ read \in [Connections -> 0..Cardinality(Users)]
  /\ target \in [Connections -> Users \cup {NoUser}]
  /\ told \subseteq Connections
  /\ shown \in 0..Cardinality(Users)
  /\ closer \in {"idle", "ended", "announced", "done"}
  /\ slipped \subseteq Connections /\ doubled \subseteq Users
  /\ crowded \in BOOLEAN
  /\ kicks \in 0..MaxKicks /\ faults \in 0..MaxFaults

\* A user who was kicked has no connection in the room that does not know it: once
\* the kick is committed and the room was told, each connection of the user is
\* refused at the gate, on its way out, or about to read that it must leave; but
\* for those that had passed the gate, and not subscribed, when the room was told.
Unannounced(u) == \E d \in Connections : at[d] = "kick" /\ target[d] = u
Outside == {"new", "loaded", "leaving", "left", "farewell", "gone"}

KickedIsTold ==
  \A c \in Connections :
    UserOf[c] \in kicked /\ ~Unannounced(UserOf[c]) =>
      at[c] \in Outside \/ c \in told \/ c \in slipped

\* The same for everybody at the end of the class, with the gate closed; but for
\* connections that were at the gate, or past it and not subscribed.
EndIsTold ==
  closer \in {"announced", "done"} =>
    \A c \in Connections : at[c] \in Outside \ {"loaded"} \/ c \in told \/ c \in slipped

\* The presence keys list who is there, provided that nothing failed. Nobody lingers
\* in them, during the class or after it: who is listed has a connection in the
\* room or leaving it. And who has one is listed until the keys are dropped, but
\* for users who had two at once: the first of them to leave takes the user off.
ListedIsConnected ==
  faults = 0 =>
    /\ \A u \in present : \E c \in Connections : UserOf[c] = u /\ at[c] \in Inside
    /\ closer # "done" =>
         \A c \in Connections :
           at[c] \in Inside /\ UserOf[c] \notin doubled => UserOf[c] \in present

\* When nobody is coming or going the clients show the number of users listed,
\* provided that nothing failed, the keys were not dropped, and arrivals and
\* departures never overlapped: of two that do, the count that was read first may
\* be published last.
ShownIsListed ==
  faults = 0 /\ ~crowded /\ closer # "done" /\ (\A d \in Connections : at[d] \notin Moving) =>
    shown = Cardinality(present)

==============================================================================
