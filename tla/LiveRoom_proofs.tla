---------------------------- MODULE LiveRoom_proofs ----------------------------
(***************************************************************************)
(* The membership of a live room (LiveRoom), its raised hands and promoted *)
(* students (LiveStage), and the sweep that ends the class when its        *)
(* publisher is gone (PublisherSweep); for any number of connections,      *)
(* users, tabs, teachers and replicas, and of kicks and failures. Who was  *)
(* kicked, or is in a class that has ended, knows it; the presence keys    *)
(* list whoever is connected, and the clients show how many; a credential  *)
(* lets one publisher in, the queue holds what is shown, and who was       *)
(* demoted is quiet; an end does not move, and one replica ends a class    *)
(* only after a window in which nobody was seen on its path.               *)
(***************************************************************************)
EXTENDS LiveRoom, LiveStage, PublisherSweep, FiniteSetTheorems, TLAPS

\* End-class announces an end it has committed.
EndIsCommitted == closer # "idle" => over

\* Without failures, a user with two connections in the room was noted as such.
DoublesAreNoted ==
  faults = 0 =>
    \A c, d \in Connections :
      UserOf[c] = UserOf[d] /\ at[c] \in Inside /\ at[d] \in Inside /\ c # d =>
        UserOf[c] \in doubled

\* As long as arrivals and departures do not overlap, one connection at a time is
\* moving, and the count it is about to publish is the present one.
Steady == faults = 0 /\ ~crowded /\ closer # "done"

CountsAreFresh ==
  Steady =>
    /\ \A c, d \in Connections : at[c] \in Moving /\ at[d] \in Moving => c = d
    /\ \A c \in Connections :
         at[c] \in {"counted", "farewell"} => read[c] = Cardinality(present)

------------------------------------------------------------------------------
(* Types.                                                                  *)

LEMMA CountType ==
  ASSUME NEW S \in SUBSET Users
  PROVE  Cardinality(S) \in 0..Cardinality(Users) /\ 0 \in 0..Cardinality(Users)
<1>1. IsFiniteSet(Users)
  BY RoomAssumption
<1>2. IsFiniteSet(S) /\ Cardinality(S) <= Cardinality(Users)
  BY <1>1, FS_Subset
<1>3. Cardinality(S) \in Nat /\ Cardinality(Users) \in Nat
  BY <1>1, <1>2, FS_CardinalityType
<1> QED BY <1>2, <1>3

LEMMA TypeInit == Init => TypeOK
<1> SUFFICES ASSUME Init PROVE TypeOK
  OBVIOUS
<1>1. 0 \in 0..Cardinality(Users)
  BY CountType
<1>2. MaxKicks \in Nat /\ MaxFaults \in Nat
  BY RoomAssumption
<1>3. over \in BOOLEAN /\ crowded \in BOOLEAN
  BY DEF Init
<1>4. 0 \in 0..MaxKicks /\ 0 \in 0..MaxFaults
  BY <1>2
<1>5. at \in [Connections -> Steps] /\ target \in [Connections -> Users \cup {NoUser}]
  BY DEF Init, Steps
<1>6. read \in [Connections -> 0..Cardinality(Users)]
  BY <1>1 DEF Init
<1> QED BY <1>1, <1>3, <1>4, <1>5, <1>6 DEF Init, TypeOK

LEMMA FaultType ==
  ASSUME TypeOK, Fault
  PROVE  faults' \in 0..MaxFaults /\ faults' # 0
BY RoomAssumption DEF TypeOK, Fault

LEMMA TypeStep == TypeOK /\ [Next]_vars => TypeOK'
<1> SUFFICES ASSUME TypeOK, [Next]_vars PROVE TypeOK'
  OBVIOUS
<1> USE RoomAssumption DEF TypeOK, Steps, Goto, room, history
<1>1. ASSUME NEW c \in Connections, Load(c) \/ CheckKick(c) \/ Subscribe(c)
      PROVE  TypeOK'
  BY <1>1 DEF Load, CheckKick, Subscribe
<1>2. ASSUME NEW c \in Connections, Join(c) \/ Leave(c)
      PROVE  TypeOK'
  <2>1. crowded' \in BOOLEAN
    BY <1>2 DEF Join, Leave
  <2>2. /\ at' \in [Connections -> Steps]
        /\ present' \subseteq Users /\ doubled' \subseteq Users
    BY <1>2 DEF Join, Leave
  <2>3. UNCHANGED <<room, read, target, told, shown, closer, slipped, kicks, faults>>
    BY <1>2 DEF Join, Leave
  <2> QED BY <2>1, <2>2, <2>3
<1>3. ASSUME NEW c \in Connections, Count(c)
      PROVE  TypeOK'
  <2>1. read' \in [Connections -> 0..Cardinality(Users)]
    BY <1>3, CountType DEF Count
  <2>2. faults' \in 0..MaxFaults
    BY <1>3, FaultType DEF Count
  <2> QED BY <1>3, <2>1, <2>2 DEF Count
<1>4. ASSUME NEW c \in Connections, PublishCount(c)
      PROVE  TypeOK'
  <2>1. 0 \in 0..Cardinality(Users)
    BY CountType
  <2>2. faults' \in 0..MaxFaults
    BY <1>4, FaultType DEF PublishCount
  <2> QED BY <1>4, <2>1, <2>2 DEF PublishCount
<1>5. ASSUME NEW c \in Connections, Receive(c) \/ Close(c)
      PROVE  TypeOK'
  BY <1>5 DEF Receive, Close
<1>6. ASSUME NEW c \in Connections, NEW u \in Users, Kick(c, u)
      PROVE  TypeOK'
  BY <1>6 DEF Kick
<1>7. ASSUME NEW c \in Connections, AnnounceKick(c)
      PROVE  TypeOK'
  <2>1. faults' \in 0..MaxFaults
    BY <1>7, FaultType DEF AnnounceKick
  <2>2. told' \subseteq Connections /\ slipped' \subseteq Connections
    BY <1>7 DEF AnnounceKick, Of, Reached
  <2> QED BY <1>7, <2>1, <2>2 DEF AnnounceKick
<1>8. ASSUME NEW c \in Connections, PresenceFails(c)
      PROVE  TypeOK'
  <2>1. faults' \in 0..MaxFaults
    BY <1>8, FaultType DEF PresenceFails
  <2> QED BY <1>8, <2>1 DEF PresenceFails
<1>9. ASSUME NEW c \in Connections, Die(c)
      PROVE  TypeOK'
  <2>1. faults' \in 0..MaxFaults
    BY <1>9, FaultType DEF Die
  <2>2. slipped' \subseteq Connections
    BY <1>9 DEF Die, Of
  <2> QED BY <1>9, <2>1, <2>2 DEF Die
<1>10. CASE End
  BY <1>10 DEF End
<1>11. CASE AnnounceEnd
  <2>1. faults' \in 0..MaxFaults
    BY <1>11, FaultType DEF AnnounceEnd
  <2> QED BY <1>11, <2>1 DEF AnnounceEnd, Reached
<1>12. CASE ClearRoom
  <2>1. faults' \in 0..MaxFaults
    BY <1>12, FaultType DEF ClearRoom
  <2> QED BY <1>12, <2>1 DEF ClearRoom
<1>13. CASE UNCHANGED vars
  BY <1>13 DEF vars
<1> QED
  BY <1>1, <1>2, <1>3, <1>4, <1>5, <1>6, <1>7, <1>8, <1>9, <1>10, <1>11, <1>12, <1>13
  DEF Next

------------------------------------------------------------------------------
(* Kicks.                                                                  *)

\* A connection that moves, and is not told or announcing anything by it, keeps
\* what is known of it: it is outside afterwards, or was not outside before.
LEMMA KickKept ==
  ASSUME TypeOK, KickedIsTold, NEW c \in Connections, NEW step \in Steps,
         Goto(c, step), at[c] # "kick", step # "kick",
         step \in Outside \/ (at[c] \notin Outside /\ told' = told),
         told \ {c} \subseteq told', slipped' = slipped, kicked' = kicked,
         target' = target
  PROVE  KickedIsTold'
BY DEF TypeOK, KickedIsTold, Unannounced, Outside, Steps, Goto

LEMMA KickStep == TypeOK /\ KickedIsTold /\ [Next]_vars => KickedIsTold'
<1> SUFFICES ASSUME TypeOK, KickedIsTold, [Next]_vars PROVE KickedIsTold'
  OBVIOUS
<1> USE DEF room, history
<1>1. ASSUME NEW c \in Connections,
             Load(c) \/ Subscribe(c) \/ Join(c) \/ Receive(c) \/ Close(c) \/ Leave(c)
      PROVE  KickedIsTold'
  BY <1>1, KickKept
  DEF Load, Subscribe, Join, Receive, Close, Leave, Outside, Steps
<1>2. ASSUME NEW c \in Connections, Count(c) \/ PublishCount(c) \/ PresenceFails(c)
      PROVE  KickedIsTold'
  BY <1>2, KickKept DEF Count, PublishCount, PresenceFails, Outside, Steps
<1>3. ASSUME NEW c \in Connections, CheckKick(c)
      PROVE  KickedIsTold'
  BY <1>3 DEF CheckKick, Goto, TypeOK, KickedIsTold, Unannounced, Outside
<1>4. ASSUME NEW c \in Connections, NEW u \in Users, Kick(c, u)
      PROVE  KickedIsTold'
  <2>1. Unannounced(u)'
    BY <1>4 DEF Kick, Goto, TypeOK, Unannounced
  <2>2. ASSUME NEW v \in Users, v # u, Unannounced(v)
        PROVE  Unannounced(v)'
    BY <1>4, <2>2 DEF Kick, Goto, TypeOK, Unannounced
  <2>3. \A d \in Connections : at[d] \in Outside => at'[d] \in Outside
    BY <1>4 DEF Kick, Goto, TypeOK, Outside
  <2> QED
    BY <1>4, <2>1, <2>2, <2>3, RoomAssumption DEF Kick, KickedIsTold, TypeOK
<1>5. ASSUME NEW c \in Connections, AnnounceKick(c)
      PROVE  KickedIsTold'
  <2>1. ASSUME NEW v \in Users, v # target[c], Unannounced(v)
        PROVE  Unannounced(v)'
    BY <1>5, <2>1 DEF AnnounceKick, Goto, TypeOK, Unannounced
  <2>2. ASSUME NEW d \in Connections, UserOf[d] = target[c]
        PROVE  at'[d] \in Outside \/ d \in told' \/ d \in slipped'
    BY <1>5, <2>2
    DEF AnnounceKick, Goto, TypeOK, Of, Reached, Subscribed, Outside, Steps
  <2>3. \A d \in Connections : at[d] \in Outside => at'[d] \in Outside
    BY <1>5 DEF AnnounceKick, Goto, TypeOK, Outside
  <2>4. told \subseteq told' /\ slipped \subseteq slipped' /\ kicked' = kicked
    BY <1>5 DEF AnnounceKick
  <2> QED BY <2>1, <2>2, <2>3, <2>4, RoomAssumption DEF KickedIsTold
<1>6. ASSUME NEW c \in Connections, Die(c)
      PROVE  KickedIsTold'
  <2>1. ASSUME NEW d \in Connections, Unannounced(UserOf[d]), ~Unannounced(UserOf[d])'
        PROVE  d \in slipped'
    BY <1>6, <2>1 DEF Die, Goto, TypeOK, Unannounced, Of
  <2>2. \A d \in Connections : d # c => at'[d] = at[d] /\ (d \in told => d \in told')
    BY <1>6 DEF Die, Goto, TypeOK
  <2>3. at'[c] \in Outside /\ slipped \subseteq slipped' /\ kicked' = kicked
    BY <1>6 DEF Die, Goto, TypeOK, Outside
  <2> QED BY <2>1, <2>2, <2>3 DEF KickedIsTold
<1>7. CASE End \/ AnnounceEnd \/ ClearRoom
  BY <1>7 DEF End, AnnounceEnd, ClearRoom, KickedIsTold, Unannounced
<1>8. CASE UNCHANGED vars
  BY <1>8 DEF vars, KickedIsTold, Unannounced
<1> QED BY <1>1, <1>2, <1>3, <1>4, <1>5, <1>6, <1>7, <1>8 DEF Next

------------------------------------------------------------------------------
(* The end of the class.                                                   *)

\* Nobody comes in any more who is not told, or was not at the gate before.
LEMMA EndKept ==
  ASSUME TypeOK, EndIsTold, NEW c \in Connections, NEW step \in Steps, Goto(c, step),
         \/ step \in Outside \ {"loaded"}
         \/ at[c] \notin Outside \ {"loaded"} /\ told \subseteq told',
         told \ {c} \subseteq told', slipped \subseteq slipped', closer' = closer
  PROVE  EndIsTold'
BY DEF TypeOK, EndIsTold, Outside, Steps, Goto

LEMMA EndStep ==
  TypeOK /\ EndIsCommitted /\ EndIsTold /\ [Next]_vars => EndIsCommitted' /\ EndIsTold'
<1> SUFFICES ASSUME TypeOK, EndIsCommitted, EndIsTold, [Next]_vars
             PROVE  EndIsCommitted' /\ EndIsTold'
  OBVIOUS
<1> USE DEF room, history
<1>1. EndIsCommitted'
  BY DEF EndIsCommitted, Next, Load, CheckKick, Subscribe, Join, Count, PublishCount,
         Receive, Close, Kick, AnnounceKick, Leave, PresenceFails, Die, End,
         AnnounceEnd, ClearRoom, vars
<1>2. ASSUME NEW c \in Connections, Load(c)
      PROVE  EndIsTold'
  BY <1>2 DEF Load, EndIsCommitted, EndIsTold
<1>3. ASSUME NEW c \in Connections,
             CheckKick(c) \/ Subscribe(c) \/ Join(c) \/ Receive(c) \/ Close(c) \/ Leave(c)
      PROVE  EndIsTold'
  BY <1>3, EndKept
  DEF CheckKick, Subscribe, Join, Receive, Close, Leave, Outside, Steps
<1>4. ASSUME NEW c \in Connections,
             Count(c) \/ PublishCount(c) \/ PresenceFails(c) \/ Die(c)
      PROVE  EndIsTold'
  BY <1>4, EndKept DEF Count, PublishCount, PresenceFails, Die, Outside, Steps
<1>5. ASSUME NEW c \in Connections, NEW u \in Users, Kick(c, u)
      PROVE  EndIsTold'
  BY <1>5, EndKept DEF Kick, Outside, Steps
<1>6. ASSUME NEW c \in Connections, AnnounceKick(c)
      PROVE  EndIsTold'
  BY <1>6, EndKept DEF AnnounceKick, Outside, Steps
<1>7. CASE AnnounceEnd
  BY <1>1, <1>7 DEF AnnounceEnd, EndIsTold, TypeOK, Steps, Outside, Reached, Subscribed
<1>8. CASE End \/ ClearRoom
  BY <1>1, <1>8 DEF End, ClearRoom, EndIsTold
<1>9. CASE UNCHANGED vars
  BY <1>1, <1>9 DEF vars, EndIsTold
<1> QED BY <1>1, <1>2, <1>3, <1>4, <1>5, <1>6, <1>7, <1>8, <1>9 DEF Next

------------------------------------------------------------------------------
(* The presence list.                                                      *)

\* A connection that does not come into the room or leave it by its move changes
\* nothing about who should be listed.
LEMMA ListKept ==
  ASSUME TypeOK, DoublesAreNoted, ListedIsConnected, NEW c \in Connections,
         NEW step \in Steps, Goto(c, step), at[c] \in Inside <=> step \in Inside,
         present' = present, doubled' = doubled, faults' = 0 => faults = 0,
         closer' = closer
  PROVE  DoublesAreNoted' /\ ListedIsConnected'
<1>1. \A d \in Connections : at'[d] \in Inside <=> at[d] \in Inside
  BY DEF TypeOK, Goto
<1>2. DoublesAreNoted'
  BY <1>1 DEF DoublesAreNoted
<1>3. ListedIsConnected'
  BY <1>1 DEF ListedIsConnected
<1> QED BY <1>2, <1>3

LEMMA ListStep ==
  TypeOK /\ DoublesAreNoted /\ ListedIsConnected /\ [Next]_vars =>
    DoublesAreNoted' /\ ListedIsConnected'
<1> SUFFICES ASSUME TypeOK, DoublesAreNoted, ListedIsConnected, [Next]_vars
             PROVE  DoublesAreNoted' /\ ListedIsConnected'
  OBVIOUS
<1> USE DEF room, history
<1>1. ASSUME NEW c \in Connections,
             \/ Load(c) \/ CheckKick(c) \/ Subscribe(c) \/ Receive(c) \/ Close(c)
             \/ \E u \in Users : Kick(c, u)
      PROVE  DoublesAreNoted' /\ ListedIsConnected'
  BY <1>1, ListKept
  DEF Load, CheckKick, Subscribe, Receive, Close, Kick, Inside, Steps
<1>2. ASSUME NEW c \in Connections, Count(c) \/ PublishCount(c) \/ AnnounceKick(c)
      PROVE  DoublesAreNoted' /\ ListedIsConnected'
  <2>1. faults' = 0 => faults = 0
    BY <1>2, FaultType DEF Count, PublishCount, AnnounceKick
  <2> QED BY <1>2, <2>1, ListKept DEF Count, PublishCount, AnnounceKick, Inside, Steps
<1>3. ASSUME NEW c \in Connections, Join(c)
      PROVE  DoublesAreNoted' /\ ListedIsConnected'
  <2>1. /\ at'[c] \in Inside /\ at[c] \notin Inside
        /\ \A d \in Connections : d # c => at'[d] = at[d]
    BY <1>3 DEF Join, Goto, TypeOK, Inside
  <2>2. /\ present' = present \cup {UserOf[c]} /\ doubled \subseteq doubled'
        /\ \A d \in Connections :
             UserOf[d] = UserOf[c] /\ at[d] \in Inside => UserOf[c] \in doubled'
        /\ faults' = faults /\ closer' = closer
    BY <1>3 DEF Join
  <2>3. DoublesAreNoted'
    BY <2>1, <2>2 DEF DoublesAreNoted
  <2>4. ListedIsConnected'
    BY <2>1, <2>2 DEF ListedIsConnected
  <2> QED BY <2>3, <2>4
<1>4. ASSUME NEW c \in Connections, Leave(c)
      PROVE  DoublesAreNoted' /\ ListedIsConnected'
  <2>1. /\ at[c] \in Inside /\ at'[c] \notin Inside
        /\ \A d \in Connections : d # c => at'[d] = at[d]
    BY <1>4 DEF Leave, Goto, TypeOK, Inside
  <2>2. /\ present' = present \ {UserOf[c]} /\ doubled' = doubled
        /\ faults' = faults /\ closer' = closer
    BY <1>4 DEF Leave, history
  <2>3. DoublesAreNoted'
    BY <2>1, <2>2 DEF DoublesAreNoted
  <2>4. ListedIsConnected'
    BY <2>1, <2>2 DEF ListedIsConnected, DoublesAreNoted
  <2> QED BY <2>3, <2>4
<1>5. ASSUME NEW c \in Connections, PresenceFails(c) \/ Die(c)
      PROVE  DoublesAreNoted' /\ ListedIsConnected'
  <2>1. faults' # 0
    BY <1>5, FaultType DEF PresenceFails, Die
  <2> QED BY <2>1 DEF DoublesAreNoted, ListedIsConnected
<1>6. CASE End \/ AnnounceEnd \/ ClearRoom
  <2>1. faults' = 0 => faults = 0
    BY <1>6, FaultType DEF End, AnnounceEnd, ClearRoom
  <2>2. DoublesAreNoted'
    BY <1>6, <2>1 DEF End, AnnounceEnd, ClearRoom, DoublesAreNoted
  <2>3. ListedIsConnected'
    BY <1>6, <2>1 DEF End, AnnounceEnd, ClearRoom, ListedIsConnected
  <2> QED BY <2>2, <2>3
<1>7. CASE UNCHANGED vars
  BY <1>7 DEF vars, DoublesAreNoted, ListedIsConnected
<1> QED BY <1>1, <1>2, <1>3, <1>4, <1>5, <1>6, <1>7 DEF Next

------------------------------------------------------------------------------
(* The count on the screens.                                               *)

\* A connection that is not coming or going leaves count and list alone.
LEMMA ShownKept ==
  ASSUME TypeOK, CountsAreFresh, ShownIsListed, NEW c \in Connections,
         NEW step \in Steps, Goto(c, step), at[c] \notin Moving, step \notin Moving,
         read' = read, present' = present, shown' = shown, Steady' => Steady
  PROVE  CountsAreFresh' /\ ShownIsListed'
<1>1. \A d \in Connections : d # c => at'[d] = at[d]
  BY DEF TypeOK, Goto
<1>2. at'[c] \notin Moving /\ at'[c] \notin {"counted", "farewell"}
  BY DEF TypeOK, Goto, Moving
<1>3. CountsAreFresh'
  BY <1>1, <1>2 DEF CountsAreFresh
<1>4. ShownIsListed'
  BY <1>1, <1>2 DEF ShownIsListed, Steady
<1> QED BY <1>3, <1>4

LEMMA ShownStep ==
  TypeOK /\ CountsAreFresh /\ ShownIsListed /\ [Next]_vars =>
    CountsAreFresh' /\ ShownIsListed'
<1> SUFFICES ASSUME TypeOK, CountsAreFresh, ShownIsListed, [Next]_vars
             PROVE  CountsAreFresh' /\ ShownIsListed'
  OBVIOUS
<1> USE DEF room, history
<1>1. ASSUME NEW c \in Connections,
             \/ Load(c) \/ CheckKick(c) \/ Subscribe(c) \/ Receive(c) \/ Close(c)
             \/ \E u \in Users : Kick(c, u)
      PROVE  CountsAreFresh' /\ ShownIsListed'
  BY <1>1, ShownKept
  DEF Load, CheckKick, Subscribe, Receive, Close, Kick, Moving, Steps, Steady
<1>2. ASSUME NEW c \in Connections, AnnounceKick(c)
      PROVE  CountsAreFresh' /\ ShownIsListed'
  <2>1. Steady' => Steady
    BY <1>2, FaultType DEF AnnounceKick, Steady
  <2> QED BY <1>2, <2>1, ShownKept DEF AnnounceKick, Moving, Steps
<1>3. ASSUME NEW c \in Connections, Join(c) \/ Leave(c)
      PROVE  CountsAreFresh' /\ ShownIsListed'
  <2>1. /\ \A d \in Connections : d # c => at'[d] = at[d]
        /\ at'[c] \in Moving /\ at'[c] \notin {"counted", "farewell"}
    BY <1>3 DEF Join, Leave, Goto, TypeOK, Moving
  <2>2. ~crowded' => \A d \in Connections : at[d] \notin Moving
    BY <1>3 DEF Join, Leave
  <2>3. CountsAreFresh'
    BY <2>1, <2>2 DEF CountsAreFresh, Steady, Moving
  <2>4. ShownIsListed'
    BY <2>1 DEF ShownIsListed
  <2> QED BY <2>3, <2>4
<1>4. ASSUME NEW c \in Connections, Count(c)
      PROVE  CountsAreFresh' /\ ShownIsListed'
  <2>1. /\ \A d \in Connections : d # c => at'[d] = at[d]
        /\ at[c] \in Moving /\ at'[c] \in Moving
    BY <1>4 DEF Count, Goto, TypeOK, Moving
  <2>2. Steady' => Steady
    BY <1>4, FaultType DEF Count, Steady
  <2>3. Steady' => read'[c] = Cardinality(present')
    BY <1>4, FaultType DEF Count, Steady, TypeOK
  <2>4. \A d \in Connections : d # c => read'[d] = read[d]
    BY <1>4 DEF Count, TypeOK
  <2>5. present' = present
    BY <1>4 DEF Count
  <2>6. CountsAreFresh'
    BY <2>1, <2>2, <2>3, <2>4, <2>5 DEF CountsAreFresh
  <2>7. ShownIsListed'
    BY <2>1 DEF ShownIsListed
  <2> QED BY <2>6, <2>7
<1>5. ASSUME NEW c \in Connections, PublishCount(c)
      PROVE  CountsAreFresh' /\ ShownIsListed'
  <2>1. /\ \A d \in Connections : d # c => at'[d] = at[d]
        /\ at[c] \in {"counted", "farewell"} /\ at[c] \in Moving
        /\ at'[c] \notin Moving /\ at'[c] \notin {"counted", "farewell"}
    BY <1>5 DEF PublishCount, Goto, TypeOK, Moving
  <2>2. Steady' => Steady
    BY <1>5, FaultType DEF PublishCount, Steady
  <2>3. present' = present /\ (Steady' => shown' = read[c])
    BY <1>5, FaultType DEF PublishCount, Steady
  <2>4. Steady => \A d \in Connections : d # c => at[d] \notin Moving
    BY <2>1 DEF CountsAreFresh
  <2>5. CountsAreFresh'
    BY <2>1, <2>2, <2>4 DEF CountsAreFresh, Moving
  <2>6. Steady' => shown' = Cardinality(present')
    BY <2>1, <2>2, <2>3 DEF CountsAreFresh
  <2>7. ShownIsListed'
    BY <2>6 DEF ShownIsListed, Steady
  <2> QED BY <2>5, <2>7
<1>6. ASSUME NEW c \in Connections, PresenceFails(c) \/ Die(c)
      PROVE  CountsAreFresh' /\ ShownIsListed'
  <2>1. faults' # 0
    BY <1>6, FaultType DEF PresenceFails, Die
  <2> QED BY <2>1 DEF CountsAreFresh, Steady, ShownIsListed
<1>7. CASE End \/ AnnounceEnd
  <2>1. Steady' => Steady
    BY <1>7, FaultType DEF End, AnnounceEnd, Steady
  <2>2. CountsAreFresh'
    BY <1>7, <2>1 DEF End, AnnounceEnd, CountsAreFresh
  <2>3. ShownIsListed'
    BY <1>7, <2>1 DEF End, AnnounceEnd, ShownIsListed, Steady
  <2> QED BY <2>2, <2>3
<1>8. CASE ClearRoom
  BY <1>8 DEF ClearRoom, CountsAreFresh, Steady, ShownIsListed
<1>9. CASE UNCHANGED vars
  BY <1>9 DEF vars, CountsAreFresh, Steady, ShownIsListed
<1> QED BY <1>1, <1>2, <1>3, <1>4, <1>5, <1>6, <1>7, <1>8, <1>9 DEF Next

------------------------------------------------------------------------------
(* The theorems.                                                           *)

\* Every reachable state is well typed.
THEOREM TypeCorrect == Spec => []TypeOK
BY TypeInit, TypeStep, PTL DEF Spec

\* A user who was kicked has no connection in the room that does not know it, but
\* for those that were between the gate and their subscription.
THEOREM Kicks == Spec => []KickedIsTold
<1>1. Init => KickedIsTold
  BY DEF Init, KickedIsTold, Outside
<1> QED BY <1>1, TypeCorrect, KickStep, PTL DEF Spec

\* Nobody is in a class that was ended who does not know it, but for connections
\* at the gate or between it and their subscription.
THEOREM Ends == Spec => []EndIsTold
<1>1. Init => EndIsCommitted /\ EndIsTold
  BY DEF Init, EndIsCommitted, EndIsTold
<1> QED BY <1>1, TypeCorrect, EndStep, PTL DEF Spec

\* The presence keys list who is in the room.
THEOREM Lists == Spec => []ListedIsConnected
<1>1. Init => DoublesAreNoted /\ ListedIsConnected
  BY DEF Init, DoublesAreNoted, ListedIsConnected, Inside
<1> QED BY <1>1, TypeCorrect, ListStep, PTL DEF Spec

\* The clients show how many are listed.
THEOREM Shows == Spec => []ShownIsListed
<1>1. Init => CountsAreFresh /\ ShownIsListed
  <2>1. Cardinality({}) = 0
    BY FS_EmptySet
  <2> QED BY <2>1 DEF Init, CountsAreFresh, ShownIsListed, Moving
<1> QED BY <1>1, TypeCorrect, ShownStep, PTL DEF Spec

------------------------------------------------------------------------------
(* Raised hands and promoted students: LiveStage.                          *)

\* A bound on entries leaves room for those that are about to be put there; and a
\* command under way is about a student.
Pushing == {s \in Sockets : cmd[s].at = "push"}
Room == raises + Cardinality(Pushing) <= MaxRaises
About == \A s \in Sockets : cmd[s].at # "idle" => cmd[s].user \in Students

StageInv == StageTypeOK /\ Room /\ About

LEMMA StageConstants ==
  /\ NoStudent \notin Students /\ NoToken \notin Tokens
  /\ Idle \in Command /\ Idle.at = "idle" /\ Idle.user = NoStudent /\ Idle.entries = {}
  /\ IsFiniteSet(Sockets) /\ MaxRaises \in Nat /\ MaxFailures \in Nat
BY StageAssumption DEF Idle, Command, CommandSteps, Sockets

LEMMA PushingFinite ==
  /\ IsFiniteSet(Pushing) /\ Cardinality(Pushing) \in Nat
  /\ IsFiniteSet(Pushing') /\ Cardinality(Pushing') \in Nat
<1>1. Pushing \in SUBSET Sockets /\ Pushing' \in SUBSET Sockets
  BY DEF Pushing
<1> QED  BY <1>1, StageConstants, FS_Subset, FS_CardinalityType

LEMMA PushingIs == MayRaise <=> raises + Cardinality(Pushing) < MaxRaises
BY DEF MayRaise, Pushing

\* One command takes its next step, or ends, or begins: what becomes of the bound.
LEMMA RoomKept ==
  ASSUME StageInv, raises' = raises, NEW s \in Sockets, NEW command \in Command,
         cmd' = [cmd EXCEPT ![s] = command],
         command.at # "idle" => command.user \in Students,
         command.at = "push" => MayRaise
  PROVE  Room' /\ About' /\ cmd' \in [Sockets -> Command]
<1>0. cmd \in [Sockets -> Command] /\ raises \in Nat
  BY StageConstants DEF StageInv, StageTypeOK
<1>1. cmd' \in [Sockets -> Command] /\ About'
  <2>1. \A t \in Sockets : cmd'[t] = IF t = s THEN command ELSE cmd[t]
    BY <1>0
  <2> QED  BY <1>0, <2>1 DEF StageInv, About
<1>2. Pushing' \subseteq Pushing \cup (IF command.at = "push" THEN {s} ELSE {})
  BY <1>0 DEF Pushing
<1>3. CASE command.at = "push"
  <2>1. Pushing' \subseteq Pushing \cup {s}
    BY <1>2, <1>3
  <2>2. IsFiniteSet(Pushing \cup {s}) /\ Cardinality(Pushing \cup {s}) <= Cardinality(Pushing) + 1
    <3>1. /\ IsFiniteSet(Pushing \cup {s})
          /\ \/ Cardinality(Pushing \cup {s}) = Cardinality(Pushing)
             \/ Cardinality(Pushing \cup {s}) = Cardinality(Pushing) + 1
      BY PushingFinite, FS_AddElement, Zenon
    <3> QED  BY <3>1, PushingFinite
  <2>3. Cardinality(Pushing') <= Cardinality(Pushing \cup {s})
        /\ Cardinality(Pushing \cup {s}) \in Nat
    BY <2>1, <2>2, FS_Subset, FS_CardinalityType
  <2>4. raises + Cardinality(Pushing) < MaxRaises
    BY <1>3, PushingIs
  <2>5. raises + Cardinality(Pushing') <= MaxRaises
    BY <1>0, <2>2, <2>3, <2>4, PushingFinite, StageConstants
  <2> QED  BY <1>1, <2>5 DEF Room
<1>4. CASE command.at # "push"
  <2>1. Pushing' \subseteq Pushing
    BY <1>2, <1>4
  <2>2. Cardinality(Pushing') <= Cardinality(Pushing)
    BY <2>1, PushingFinite, FS_Subset
  <2>3. raises + Cardinality(Pushing') <= MaxRaises
    BY <1>0, <2>2, PushingFinite, StageConstants DEF StageInv, Room
  <2> QED  BY <1>1, <2>3 DEF Room
<1> QED  BY <1>3, <1>4

\* An entry that is put into the queue is well typed, and so is the bound.
LEMMA Pushed ==
  ASSUME StageInv, NEW c \in Sockets, cmd[c].at = "push", raises' = raises + 1,
         NEW step \in {"up", "down"}, cmd' = [cmd EXCEPT ![c].at = step],
         queue' = queue \cup {[user |-> cmd[c].user, id |-> raises']}
  PROVE  /\ Room' /\ About' /\ cmd' \in [Sockets -> Command]
         /\ queue' \subseteq Entry /\ raises' \in 0..MaxRaises
<1>0. /\ cmd \in [Sockets -> Command] /\ raises \in Nat /\ cmd[c] \in Command
      /\ cmd[c].user \in Students /\ queue \subseteq Entry
  BY StageConstants DEF StageInv, StageTypeOK, About
<1>1. c \in Pushing
  BY DEF Pushing
<1>2. /\ IsFiniteSet(Pushing \ {c})
      /\ Cardinality(Pushing \ {c}) = Cardinality(Pushing) - 1
  BY <1>1, PushingFinite, FS_RemoveElement
<1>3. Pushing' \subseteq Pushing \ {c}
  BY <1>0 DEF Pushing, Command
<1>4. Cardinality(Pushing') <= Cardinality(Pushing) - 1
  BY <1>2, <1>3, FS_Subset
<1>5. Room' /\ raises' \in 1..MaxRaises
  BY <1>0, <1>4, PushingFinite, StageConstants DEF StageInv, Room
<1>6. [cmd[c] EXCEPT !.at = step] \in Command
  BY <1>0 DEF Command, CommandSteps
<1>7. cmd' \in [Sockets -> Command] /\ About'
  BY <1>0, <1>6 DEF StageInv, About, Command
<1>8. [user |-> cmd[c].user, id |-> raises'] \in Entry
  BY <1>0, <1>5 DEF Entry
<1> QED  BY <1>0, <1>5, <1>7, <1>8

LEMMA FailureType == ASSUME StageInv, Failure PROVE failures' \in 0..MaxFailures
BY StageConstants DEF StageInv, StageTypeOK, Failure

\* What a step does to the commands and to the queue, and what to the rest of the
\* types.
QueueTyped == queue \subseteq Entry /\ raises \in 0..MaxRaises /\ cmd \in [Sockets -> Command]
StageTyped ==
  /\ nonce \in [Students -> Tokens \cup {NoToken}]
  /\ hands \subseteq Students
  /\ owner \in [Tokens -> Students \cup {NoStudent}]
  /\ pub \in [Tabs -> [Tokens -> Stages]]
  /\ revoked \subseteq Tokens
  /\ used \in [Tokens -> Nat]
  /\ demoted \in [Students -> {"no", "cleared", "told"}] /\ mixed \subseteq Students
  /\ failures \in 0..MaxFailures

LEMMA Owners == \A c \in Tabs : StudentOf[c] \in Students /\ c \in Sockets
BY StageAssumption DEF Sockets

LEMMA Begun ==
  ASSUME StageInv, UNCHANGED queued, NEW s \in Sockets, NEW u \in Students,
         NEW step \in CommandSteps \ {"idle"}, step = "push" => MayRaise,
         NEW token \in Tokens \cup {NoToken}, NEW entries \in SUBSET Entry,
         Begin(s, u, [at |-> step, user |-> u, token |-> token, entries |-> entries])
  PROVE  QueueTyped' /\ Room' /\ About' /\ mixed' \subseteq Students
<1> DEFINE command == [at |-> step, user |-> u, token |-> token, entries |-> entries]
<1>1. command \in Command /\ command.user = u /\ command.at = step
  BY DEF Command
<1>2. cmd' = [cmd EXCEPT ![s] = command] /\ raises' = raises /\ queue' = queue
  BY DEF Begin, queued
<1> HIDE DEF command
<1>3. Room' /\ About' /\ cmd' \in [Sockets -> Command]
  BY <1>1, <1>2, RoomKept
<1>4. mixed' \subseteq Students
  BY DEF Begin, StageInv, StageTypeOK
<1> QED  BY <1>2, <1>3, <1>4 DEF QueueTyped, StageInv, StageTypeOK

LEMMA RaisingTyped ==
  ASSUME StageInv, NEW c \in Tabs, Raise(c) \/ RaiseFails(c) \/ Lower(c)
  PROVE  QueueTyped' /\ Room' /\ About' /\ mixed' \subseteq Students
<1>0. /\ c \in Sockets /\ StudentOf[c] \in Students /\ EntriesOf(StudentOf[c]) \in SUBSET Entry
      /\ {} \in SUBSET Entry /\ NoToken \in Tokens \cup {NoToken}
      /\ {"push", "up", "down", "pull"} \subseteq CommandSteps \ {"idle"}
  BY Owners DEF StageInv, StageTypeOK, EntriesOf, CommandSteps
<1>1. CASE Raise(c)
  BY <1>0, <1>1, Begun DEF Raise
<1>2. CASE RaiseFails(c)
  BY <1>0, <1>2, Begun DEF RaiseFails
<1>3. CASE Lower(c)
  BY <1>0, <1>3, Begun DEF Lower
<1> QED  BY <1>1, <1>2, <1>3

\* A command that takes a step other than a push.
LEMMA GoneOn ==
  ASSUME StageInv, NEW s \in Sockets, NEW step \in CommandSteps \ {"push"}, cmd[s].at # "idle",
         NEW entries \in SUBSET Entry, raises' = raises, queue' \subseteq queue,
         cmd' = [cmd EXCEPT ![s] = [cmd[s] EXCEPT !.at = step, !.entries = entries]]
  PROVE  QueueTyped' /\ Room' /\ About'
<1> DEFINE command == [cmd[s] EXCEPT !.at = step, !.entries = entries]
<1>1. cmd[s] \in Command /\ cmd[s].user \in Students
  BY DEF StageInv, StageTypeOK, About
<1>2. command \in Command /\ command.user = cmd[s].user /\ command.at = step
  BY <1>1 DEF Command
<1> HIDE DEF command
<1>3. cmd' = [cmd EXCEPT ![s] = command]
  BY DEF command
<1>4. Room' /\ About' /\ cmd' \in [Sockets -> Command]
  BY <1>1, <1>2, <1>3, RoomKept
<1> QED  BY <1>4 DEF QueueTyped, StageInv, StageTypeOK

LEMMA Ended ==
  ASSUME StageInv, NEW s \in Sockets, Done(s), UNCHANGED queued
  PROVE  QueueTyped' /\ Room' /\ About'
<1>1. Room' /\ About' /\ cmd' \in [Sockets -> Command]
  BY StageConstants, RoomKept DEF Done, queued
<1> QED  BY <1>1 DEF QueueTyped, StageInv, StageTypeOK, queued

LEMMA Moved ==
  ASSUME StageInv, NEW s \in Sockets, NEW step \in CommandSteps \ {"push"}, cmd[s].at # "idle",
         raises' = raises, queue' \subseteq queue, Proceed(s, step)
  PROVE  QueueTyped' /\ Room' /\ About'
<1>1. cmd[s] \in Command /\ cmd \in [Sockets -> Command]
  BY DEF StageInv, StageTypeOK
<1>2. cmd[s].entries \in SUBSET Entry
  BY <1>1 DEF Command
<1>3. [cmd[s] EXCEPT !.at = step] = [cmd[s] EXCEPT !.at = step, !.entries = cmd[s].entries]
  BY <1>1 DEF Command
<1>4. cmd' = [cmd EXCEPT ![s] = [cmd[s] EXCEPT !.at = step]]
  BY <1>1 DEF Proceed
<1> QED  BY <1>2, <1>3, <1>4, GoneOn

LEMMA HandsTyped ==
  ASSUME StageInv,
         \/ \E c \in Tabs : Push(c) \/ PushFails(c) \/ TellUp(c)
         \/ \E s \in Sockets : Pull(s) \/ PullFails(s) \/ TellDown(s) \/ TellFails(s)
         \/ \E s \in Teachers : LowerAccepted(s)
  PROVE  StageInv'
<1>0. /\ {"up", "down", "promote", "take down"} \subseteq CommandSteps \ {"push"}
      /\ {} \in SUBSET Entry
      /\ \A s \in Sockets : cmd[s] \in Command
  BY DEF CommandSteps, StageInv, StageTypeOK
<1>1. ASSUME NEW c \in Tabs, Push(c) \/ PushFails(c)
      PROVE  QueueTyped' /\ Room' /\ About' /\ hands' = hands
             /\ UNCHANGED <<stage, mixed>> /\ failures' \in 0..MaxFailures
  <2>1. c \in Sockets
    BY Owners
  <2>2. PICK step \in {"up", "down"} : Proceed(c, step) /\ cmd[c].at = "push"
    BY <1>1 DEF Push, PushFails
  <2>3. hands' = hands /\ UNCHANGED <<stage, mixed>> /\ failures' \in 0..MaxFailures
    BY <1>1, FailureType DEF Push, PushFails, StageInv, StageTypeOK
  <2>4. CASE UNCHANGED queued
    BY <1>0, <2>1, <2>2, <2>3, <2>4, Moved DEF queued
  <2>5. CASE /\ raises' = raises + 1
             /\ queue' = queue \cup {[user |-> cmd[c].user, id |-> raises']}
    <3>1. /\ Room' /\ About' /\ cmd' \in [Sockets -> Command]
          /\ queue' \subseteq Entry /\ raises' \in 0..MaxRaises
      BY <2>1, <2>2, <2>5, Pushed DEF Proceed
    <3> QED  BY <2>3, <3>1 DEF QueueTyped
  <2> QED  BY <1>1, <2>4, <2>5 DEF Push, PushFails
<1>2. ASSUME NEW s \in Sockets, Pull(s) \/ PullFails(s) \/ LowerAccepted(s)
      PROVE  QueueTyped' /\ Room' /\ About' /\ hands' = hands
             /\ UNCHANGED <<stage, mixed>> /\ failures' \in 0..MaxFailures
  <2>1. hands' = hands /\ UNCHANGED <<stage, mixed>> /\ failures' \in 0..MaxFailures
    BY <1>2, FailureType DEF Pull, PullFails, LowerAccepted, StageInv, StageTypeOK
  <2>2. cmd[s].at # "idle" /\ raises' = raises /\ queue' \subseteq queue
    BY <1>2 DEF Pull, PullFails, LowerAccepted, queued
  <2>3. CASE \E step : Proceed(s, step) /\ step \in {"down", "promote"}
    BY <1>0, <2>1, <2>2, <2>3, Moved
  <2>4. CASE \E step \in CommandSteps \ {"push"}, entries \in SUBSET Entry :
               cmd' = [cmd EXCEPT ![s] = [cmd[s] EXCEPT !.at = step, !.entries = entries]]
    BY <2>1, <2>2, <2>4, GoneOn
  <2>5. CASE Pull(s)
    <3>1. cmd[s].at \in {"pull", "take down"}
      BY <2>5 DEF Pull
    <3>2. CASE cmd[s].entries = {}
      BY <2>3, <2>5, <3>2 DEF Pull, After
    <3>3. CASE cmd[s].entries # {}
      <4>1. PICK e : cmd' = [cmd EXCEPT ![s].entries = @ \ {e}]
        BY <2>5, <3>3 DEF Pull
      <4>2. cmd' = [cmd EXCEPT ![s] = [cmd[s] EXCEPT !.entries = @ \ {e}]]
        BY <4>1 DEF StageInv, StageTypeOK
      <4>3. [cmd[s] EXCEPT !.entries = @ \ {e}]
              = [cmd[s] EXCEPT !.at = cmd[s].at, !.entries = cmd[s].entries \ {e}]
        BY <1>0 DEF Command
      <4>4. cmd[s].at \in CommandSteps \ {"push"} /\ cmd[s].entries \ {e} \in SUBSET Entry
        BY <1>0, <3>1 DEF Command
      <4> QED  BY <2>4, <4>2, <4>3, <4>4
    <3> QED  BY <3>2, <3>3
  <2>6. CASE PullFails(s)
    <3>1. cmd' = [cmd EXCEPT ![s] = [cmd[s] EXCEPT !.at = After(cmd[s].at), !.entries = {}]]
      <4>1. cmd' = [cmd EXCEPT ![s].entries = {}, ![s].at = After(@)]
        BY <2>6 DEF PullFails
      <4>2. cmd' = [cmd EXCEPT ![s] = [[cmd[s] EXCEPT !.entries = {}] EXCEPT !.at = After(@)]]
        BY <4>1 DEF StageInv, StageTypeOK
      <4>3. cmd[s] \in Command
        BY <1>0
      <4>4. [[cmd[s] EXCEPT !.entries = {}] EXCEPT !.at = After(@)]
              = [cmd[s] EXCEPT !.at = After(cmd[s].at), !.entries = {}]
        BY <4>3 DEF Command
      <4> QED  BY <4>2, <4>4
    <3>2. After(cmd[s].at) \in CommandSteps \ {"push"}
      BY <1>0 DEF After
    <3> QED  BY <1>0, <2>4, <3>1, <3>2
  <2>7. CASE LowerAccepted(s)
    <3>1. cmd' = [cmd EXCEPT ![s] = [cmd[s] EXCEPT !.at = "take down",
                                                   !.entries = EntriesOf(cmd[s].user)]]
      BY <2>7 DEF LowerAccepted, StageInv, StageTypeOK
    <3>2. EntriesOf(cmd[s].user) \in SUBSET Entry
      BY DEF EntriesOf, StageInv, StageTypeOK
    <3> QED  BY <1>0, <2>4, <3>1, <3>2
  <2> QED  BY <1>2, <2>5, <2>6, <2>7
<1>3. ASSUME NEW s \in Sockets, TellUp(s) \/ TellDown(s) \/ TellFails(s)
      PROVE  QueueTyped' /\ Room' /\ About' /\ hands' \subseteq Students
             /\ UNCHANGED <<stage, mixed>> /\ failures' \in 0..MaxFailures
  <2>1. cmd[s].at # "idle" /\ UNCHANGED queued
        /\ UNCHANGED <<stage, mixed>> /\ failures' \in 0..MaxFailures
    BY <1>3, FailureType DEF TellUp, TellDown, TellFails, StageInv, StageTypeOK
  <2>2. hands' \subseteq Students
    BY <1>3, <2>1 DEF TellUp, TellDown, TellFails, StageInv, StageTypeOK, About
  <2>3. CASE Done(s)
    BY <2>1, <2>2, <2>3, Ended
  <2>4. CASE Proceed(s, "down")
    BY <1>0, <2>1, <2>2, <2>4, Moved DEF queued
  <2> QED  BY <1>3, <2>3, <2>4 DEF TellUp, TellDown, TellFails
<1>4. /\ QueueTyped' /\ Room' /\ About' /\ hands' \subseteq Students
      /\ UNCHANGED <<stage, mixed>> /\ failures' \in 0..MaxFailures
  <2>1. Tabs \subseteq Sockets /\ Teachers \subseteq Sockets /\ hands \subseteq Students
    BY DEF Sockets, StageInv, StageTypeOK
  <2> QED  BY <1>1, <1>2, <1>3, <2>1
<1> QED  BY <1>4 DEF StageInv, StageTypeOK, QueueTyped, stage

LEMMA PromotionTyped ==
  ASSUME StageInv, NEW s \in Teachers,
         \/ Promote(s) \/ TellDemoted(s)
         \/ \E u \in Students : Demote(s, u) \/ \E k \in Tokens : Accept(s, u, k)
  PROVE  StageInv'
<1>0. /\ s \in Sockets /\ {} \in SUBSET Entry /\ NoToken \in Tokens \cup {NoToken}
      /\ {"lower", "tell"} \subseteq CommandSteps \ {"idle"} /\ "down" \in CommandSteps \ {"push"}
  BY DEF Sockets, CommandSteps
<1>1. CASE Promote(s)
  <2>1. QueueTyped' /\ Room' /\ About'
    BY <1>0, <1>1, Moved DEF Promote, queued
  <2>2. \A c \in Tabs : [pub[c] EXCEPT ![cmd[s].token] = "trying"] \in [Tokens -> Stages]
    BY DEF StageInv, StageTypeOK, Stages
  <2>3. pub' \in [Tabs -> [Tokens -> Stages]]
    BY <1>1, <2>2 DEF Promote, StageInv, StageTypeOK
  <2> QED  BY <1>1, <2>1, <2>3 DEF Promote, StageInv, StageTypeOK, QueueTyped
<1>2. CASE TellDemoted(s)
  <2>1. QueueTyped' /\ Room' /\ About'
    BY <1>0, <1>2, Ended DEF TellDemoted
  <2>2. pub' \in [Tabs -> [Tokens -> Stages]]
    BY <1>2 DEF TellDemoted, StageInv, StageTypeOK, Stages
  <2>3. demoted' \in [Students -> {"no", "cleared", "told"}]
    BY <1>2 DEF TellDemoted, StageInv, StageTypeOK
  <2> QED  BY <1>2, <2>1, <2>2, <2>3 DEF TellDemoted, StageInv, StageTypeOK, QueueTyped
<1>3. ASSUME NEW u \in Students, Demote(s, u)
      PROVE  StageInv'
  <2>1. QueueTyped' /\ Room' /\ About' /\ mixed' \subseteq Students
    BY <1>0, <1>3, Begun DEF Demote
  <2>2. revoked' \subseteq Tokens
    BY <1>3 DEF Demote, Revoke, StageInv, StageTypeOK
  <2> QED  BY <1>3, <2>1, <2>2 DEF Demote, StageInv, StageTypeOK, QueueTyped
<1>4. ASSUME NEW u \in Students, NEW k \in Tokens, Accept(s, u, k)
      PROVE  StageInv'
  <2>1. QueueTyped' /\ Room' /\ About' /\ mixed' \subseteq Students
    BY <1>0, <1>4, Begun DEF Accept
  <2>2. revoked' \subseteq Tokens
    BY <1>4 DEF Accept, Revoke, StageInv, StageTypeOK
  <2> QED  BY <1>4, <2>1, <2>2 DEF Accept, StageInv, StageTypeOK, QueueTyped
<1> QED  BY <1>1, <1>2, <1>3, <1>4

LEMMA PublishingTyped ==
  ASSUME StageInv,
         \/ \E c \in Tabs, k \in Tokens : Ask(c, k) \/ Take(c, k) \/ Store(c, k) \/ GiveUp(c, k)
         \/ \E u \in Students : Expire(u)
  PROVE  StageInv'
<1> USE DEF Stages
<1>0. UNCHANGED <<queued, cmd>> => Room' /\ About'
  BY DEF StageInv, Room, About, Pushing, queued
<1>1. ASSUME NEW c \in Tabs, NEW k \in Tokens,
             Ask(c, k) \/ Take(c, k) \/ Store(c, k) \/ GiveUp(c, k)
      PROVE  StageInv'
  <2>1. pub' \in [Tabs -> [Tokens -> Stages]]
    <3>1. pub \in [Tabs -> [Tokens -> Stages]]
      BY DEF StageInv, StageTypeOK
    <3>2. CASE \E step \in Stages : pub' = [pub EXCEPT ![c][k] = step]
      BY <3>1, <3>2
    <3>3. CASE Store(c, k)
      BY <3>1, <3>3 DEF Store
    <3>4. Ask(c, k) \/ Take(c, k) \/ GiveUp(c, k)
            => \E step \in Stages : pub' = [pub EXCEPT ![c][k] = step]
      BY DEF Ask, Take, GiveUp
    <3> QED  BY <1>1, <3>2, <3>3, <3>4
  <2>2. nonce' \in [Students -> Tokens \cup {NoToken}] /\ used' \in [Tokens -> Nat]
    BY <1>1 DEF Ask, Take, Store, GiveUp, StageInv, StageTypeOK
  <2>3. UNCHANGED <<queued, cmd, hands, owner, revoked, demoted, mixed, failures>>
    BY <1>1 DEF Ask, Take, Store, GiveUp
  <2>4. Room' /\ About'
    BY <1>0, <2>3
  <2>5. StageTypeOK'
    BY <2>1, <2>2, <2>3 DEF StageInv, StageTypeOK, queued
  <2> QED  BY <2>4, <2>5 DEF StageInv
<1>2. ASSUME NEW u \in Students, Expire(u)
      PROVE  StageInv'
  <2>1. revoked' \subseteq Tokens
    BY <1>2 DEF Expire, Revoke, StageInv, StageTypeOK
  <2> QED  BY <1>0, <1>2, <2>1, FailureType DEF Expire, StageInv, StageTypeOK, queued
<1> QED  BY <1>1, <1>2

LEMMA StageInvInit == StageInit => StageInv
<1> SUFFICES ASSUME StageInit PROVE StageInv
  OBVIOUS
<1>1. StageTypeOK
  BY StageConstants DEF StageInit, StageTypeOK, Stages
<1>2. Pushing = {} /\ About
  BY StageConstants DEF StageInit, Pushing, About
<1>3. Room
  BY <1>2, StageConstants, FS_EmptySet DEF StageInit, Room
<1> QED  BY <1>1, <1>2, <1>3 DEF StageInv

LEMMA StageInvStep == StageInv /\ [StageNext]_stageVars => StageInv'
<1> SUFFICES ASSUME StageInv, [StageNext]_stageVars PROVE StageInv'
  OBVIOUS
<1>1. ASSUME NEW c \in Tabs, Raise(c) \/ RaiseFails(c) \/ Lower(c)
      PROVE  StageInv'
  <2>1. QueueTyped' /\ Room' /\ About' /\ mixed' \subseteq Students
    BY <1>1, RaisingTyped
  <2>2. UNCHANGED <<hands, stage>> /\ failures' \in 0..MaxFailures
    BY <1>1, FailureType DEF Raise, RaiseFails, Lower, StageInv, StageTypeOK
  <2> QED  BY <2>1, <2>2 DEF StageInv, StageTypeOK, QueueTyped, stage
<1>2. CASE UNCHANGED stageVars
  BY <1>2 DEF StageInv, StageTypeOK, Room, About, Pushing, stageVars
<1> QED  BY <1>1, <1>2, HandsTyped, PromotionTyped, PublishingTyped DEF StageNext

\* Every reachable state is well typed, for any number of students, tabs, teachers,
\* credentials, raised hands and failures.
THEOREM StageTypeCorrect == StageSpec => []StageTypeOK
<1>1. StageInv => StageTypeOK
  BY DEF StageInv
<1> QED  BY <1>1, StageInvInit, StageInvStep, PTL DEF StageSpec

------------------------------------------------------------------------------
(* Credentials.                                                            *)

\* The credential a student has was made for the student, was not used and not
\* revoked; one that was not made yet neither.
Unspent ==
  /\ \A u \in Students : nonce[u] # NoToken =>
       owner[nonce[u]] = u /\ used[nonce[u]] = 0 /\ nonce[u] \notin revoked
  /\ \A k \in Tokens : owner[k] = NoStudent => used[k] = 0 /\ k \notin revoked

TokenInv == Unspent /\ AdmitsOnce

\* A credential that is cleared is revoked, having let nobody in.
LEMMA Cleared ==
  ASSUME StageInv, TokenInv, NEW u \in Students, Revoke(u),
         nonce' = [nonce EXCEPT ![u] = NoToken], UNCHANGED <<owner, used>>
  PROVE  TokenInv'
<1> USE DEF StageInv, StageTypeOK, TokenInv, Revoke
<1>1. AdmitsOnce'
  BY StageConstants DEF AdmitsOnce, Unspent
<1>2. \A v \in Students : nonce'[v] # NoToken => v # u /\ nonce'[v] = nonce[v]
  OBVIOUS
<1>3. \A v \in Students : nonce[v] # NoToken /\ v # u => nonce[v] # nonce[u]
  BY DEF Unspent
<1>4. Unspent'
  BY <1>2, <1>3, StageConstants DEF Unspent
<1> QED  BY <1>1, <1>4

LEMMA Renewed ==
  ASSUME StageInv, TokenInv, NEW s, NEW u \in Students, NEW k \in Tokens, Accept(s, u, k)
  PROVE  TokenInv'
<1> USE DEF StageInv, StageTypeOK, TokenInv
<1>1. /\ owner[k] = NoStudent /\ owner' = [owner EXCEPT ![k] = u]
      /\ nonce' = [nonce EXCEPT ![u] = k] /\ used' = used
      /\ revoked' = revoked \cup ({nonce[u]} \ {NoToken})
  BY DEF Accept, Revoke
<1>2. AdmitsOnce'
  BY <1>1, StageConstants DEF AdmitsOnce, Unspent
<1>3. k # nonce[u]
  BY <1>1, StageConstants DEF Unspent
<1>4. \A v \in Students : v # u /\ nonce[v] # NoToken => nonce[v] # nonce[u] /\ nonce[v] # k
  BY <1>1, StageConstants DEF Unspent
<1>5. \A v \in Students : nonce'[v] # NoToken =>
         owner'[nonce'[v]] = v /\ used'[nonce'[v]] = 0 /\ nonce'[v] \notin revoked'
  <2> TAKE v \in Students
  <2>1. CASE v = u
    BY <1>1, <1>3, <2>1 DEF Unspent
  <2>2. CASE v # u
    BY <1>1, <1>4, <2>2 DEF Unspent
  <2> QED  BY <2>1, <2>2
<1>6. \A j \in Tokens : owner'[j] = NoStudent => used'[j] = 0 /\ j \notin revoked'
  BY <1>1, StageConstants DEF Unspent
<1> QED  BY <1>2, <1>5, <1>6 DEF Unspent

LEMMA Taken ==
  ASSUME StageInv, TokenInv, NEW c \in Tabs, NEW k \in Tokens, Take(c, k)
  PROVE  TokenInv'
<1> USE DEF StageInv, StageTypeOK, TokenInv
<1> DEFINE u == StudentOf[c]
<1>0. u \in Students /\ UNCHANGED <<owner, revoked>>
  BY Owners DEF Take
<1>1. CASE nonce[u] # k
  BY <1>0, <1>1 DEF Take, Unspent, AdmitsOnce
<1>2. CASE nonce[u] = k
  <2>1. nonce' = [nonce EXCEPT ![u] = NoToken] /\ used' = [used EXCEPT ![k] = @ + 1]
    BY <1>2 DEF Take
  <2>2. owner[k] = u /\ used[k] = 0 /\ k \notin revoked /\ k # NoToken
    BY <1>0, <1>2, StageConstants DEF Unspent
  <2>3. AdmitsOnce'
    BY <1>0, <2>1, <2>2 DEF AdmitsOnce
  <2>4. \A v \in Students : nonce'[v] # NoToken => nonce'[v] = nonce[v] /\ nonce[v] # k
    BY <1>0, <2>1, <2>2 DEF Unspent
  <2>5. Unspent'
    BY <1>0, <2>1, <2>2, <2>4, StageConstants DEF Unspent
  <2> QED  BY <2>3, <2>5
<1> QED  BY <1>1, <1>2

LEMMA TokenStep == StageInv /\ TokenInv /\ [StageNext]_stageVars => TokenInv'
<1> SUFFICES ASSUME StageInv, TokenInv, [StageNext]_stageVars PROVE TokenInv'
  OBVIOUS
<1>1. UNCHANGED <<nonce, owner, used, revoked>> => TokenInv'
  BY DEF TokenInv, Unspent, AdmitsOnce
<1>2. ASSUME NEW c \in Tabs,
             Raise(c) \/ RaiseFails(c) \/ Push(c) \/ PushFails(c) \/ Lower(c) \/ TellUp(c)
      PROVE  UNCHANGED <<nonce, owner, used, revoked>>
  BY <1>2 DEF Raise, RaiseFails, Push, PushFails, Lower, TellUp, stage
<1>3. ASSUME NEW s \in Sockets, Pull(s) \/ PullFails(s) \/ TellDown(s) \/ TellFails(s)
      PROVE  UNCHANGED <<nonce, owner, used, revoked>>
  BY <1>3 DEF Pull, PullFails, TellDown, TellFails, stage
<1>4. ASSUME NEW s \in Teachers, LowerAccepted(s) \/ Promote(s) \/ TellDemoted(s)
      PROVE  UNCHANGED <<nonce, owner, used, revoked>>
  BY <1>4 DEF LowerAccepted, Promote, TellDemoted, stage
<1>5. ASSUME NEW c \in Tabs, NEW k \in Tokens, Ask(c, k) \/ Store(c, k) \/ GiveUp(c, k)
      PROVE  UNCHANGED <<nonce, owner, used, revoked>>
  BY <1>5 DEF Ask, Store, GiveUp
<1>6. \A s \in Teachers, u \in Students : Demote(s, u) => TokenInv'
  BY Cleared DEF Demote
<1>7. \A u \in Students : Expire(u) => TokenInv'
  BY Cleared DEF Expire
<1>8. UNCHANGED stageVars => UNCHANGED <<nonce, owner, used, revoked>>
  BY DEF stageVars
<1> QED  BY <1>1, <1>2, <1>3, <1>4, <1>5, <1>6, <1>7, <1>8, Renewed, Taken DEF StageNext

\* However many tabs present a credential, and however the media server's questions
\* about it overlap, it lets one of them in at most; and none after it was replaced,
\* cleared or had expired.
THEOREM Admission == StageSpec => []AdmitsOnce
<1>1. StageInit => TokenInv
  BY StageConstants DEF StageInit, TokenInv, Unspent, AdmitsOnce
<1>2. TokenInv => AdmitsOnce
  BY DEF TokenInv
<1> QED  BY <1>1, <1>2, StageInvInit, StageInvStep, TokenStep, PTL DEF StageSpec

------------------------------------------------------------------------------
(* Demotion.                                                               *)

\* A student whose credential was cleared has none, and one of whose demotion the room
\* knows publishes nothing: at most a Promoted event that is late is acted on, with a
\* credential that is not there any more.
Quiet ==
  \A u \in Students :
    /\ demoted[u] # "no" => nonce[u] = NoToken
    /\ demoted[u] = "told" => \A c \in TabsOf(u), k \in Tokens : pub[c][k] \in {"none", "trying"}

LEMMA QuietTabs ==
  ASSUME StageInv, Quiet, NEW c \in Tabs, NEW k \in Tokens,
         Ask(c, k) \/ Take(c, k) \/ Store(c, k) \/ GiveUp(c, k)
  PROVE  Quiet'
<1> DEFINE u == StudentOf[c]
<1>0. /\ u \in Students /\ demoted' = demoted /\ k # NoToken
      /\ pub \in [Tabs -> [Tokens -> Stages]] /\ nonce \in [Students -> Tokens \cup {NoToken}]
  BY Owners, StageConstants DEF Ask, Take, Store, GiveUp, StageInv, StageTypeOK
<1>1. \A v \in Students : nonce[v] = NoToken => nonce'[v] = NoToken
  BY <1>0 DEF Ask, Take, Store, GiveUp
<1>2. ASSUME NEW v \in Students, demoted[v] = "told", NEW d \in TabsOf(v), NEW j \in Tokens
      PROVE  pub'[d][j] \in {"none", "trying"}
  <2>1. d \in Tabs /\ pub[d][j] \in {"none", "trying"} /\ nonce[v] = NoToken /\ StudentOf[d] = v
    BY <1>2 DEF Quiet, TabsOf
  <2>2. CASE d # c
    <3>1. pub'[d] = pub[d]
      BY <1>0, <2>1, <2>2 DEF Ask, Take, Store, GiveUp
    <3> QED  BY <2>1, <3>1
  <2>3. CASE d = c
    <3>1. nonce[u] # k /\ pub[c][k] \in {"none", "trying"}
      BY <1>0, <1>2, <2>1, <2>3 DEF Quiet
    <3>2. pub' = [pub EXCEPT ![c][k] = "none"]
      BY <3>1 DEF Ask, Take, Store, GiveUp
    <3> QED  BY <1>0, <2>1, <2>3, <3>2
  <2> QED  BY <2>2, <2>3
<1> QED  BY <1>0, <1>1, <1>2 DEF Quiet, TabsOf

LEMMA QuietTold ==
  ASSUME StageInv, Quiet, NEW s \in Sockets, TellDemoted(s)
  PROVE  Quiet'
<1> DEFINE u == cmd[s].user
<1>0. /\ nonce' = nonce
      /\ pub' = [c \in Tabs |-> [k \in Tokens |->
                  IF pub[c][k] = "held" THEN "none" ELSE pub[c][k]]]
      /\ demoted' = [demoted EXCEPT ![u] = IF @ = "cleared" /\ ~Publishing(u)
                                           THEN "told" ELSE "no"]
      /\ pub \in [Tabs -> [Tokens -> Stages]]
      /\ demoted \in [Students -> {"no", "cleared", "told"}]
  BY DEF TellDemoted, StageInv, StageTypeOK
<1>1. ASSUME NEW v \in Students, demoted'[v] # "no"
      PROVE  nonce'[v] = NoToken
  <2>1. demoted[v] # "no"
    BY <1>0, <1>1
  <2> QED  BY <1>0, <2>1 DEF Quiet
<1>2. ASSUME NEW v \in Students, demoted'[v] = "told", NEW d \in TabsOf(v), NEW j \in Tokens
      PROVE  pub'[d][j] \in {"none", "trying"}
  <2>0. d \in Tabs /\ pub'[d][j] = IF pub[d][j] = "held" THEN "none" ELSE pub[d][j]
    BY <1>0, <1>2 DEF TabsOf
  <2>1. CASE v = u
    <3>1. ~Publishing(v)
      BY <1>0, <1>2, <2>1
    <3>2. pub[d][j] \in Stages \ InFlight
      BY <1>0, <2>0, <3>1 DEF Publishing
    <3> QED  BY <2>0, <3>2 DEF Stages, InFlight
  <2>2. CASE v # u
    <3>1. demoted[v] = "told"
      BY <1>0, <1>2, <2>2
    <3> QED  BY <2>0, <3>1 DEF Quiet
  <2> QED  BY <2>1, <2>2
<1> QED  BY <1>1, <1>2 DEF Quiet, TabsOf

LEMMA QuietStep == StageInv /\ Quiet /\ [StageNext]_stageVars => Quiet'
<1> SUFFICES ASSUME StageInv, Quiet, [StageNext]_stageVars PROVE Quiet'
  OBVIOUS
<1>1. UNCHANGED <<nonce, pub, demoted>> => Quiet'
  BY DEF Quiet, TabsOf
<1>2. ASSUME NEW c \in Tabs,
             Raise(c) \/ RaiseFails(c) \/ Push(c) \/ PushFails(c) \/ Lower(c) \/ TellUp(c)
      PROVE  UNCHANGED <<nonce, pub, demoted>>
  BY <1>2 DEF Raise, RaiseFails, Push, PushFails, Lower, TellUp, stage
<1>3. ASSUME NEW s \in Sockets, Pull(s) \/ PullFails(s) \/ TellDown(s) \/ TellFails(s)
      PROVE  UNCHANGED <<nonce, pub, demoted>>
  BY <1>3 DEF Pull, PullFails, TellDown, TellFails, stage
<1>4. ASSUME NEW s \in Teachers, LowerAccepted(s)
      PROVE  UNCHANGED <<nonce, pub, demoted>>
  BY <1>4 DEF LowerAccepted, stage
<1>5. ASSUME NEW s \in Teachers, Promote(s)
      PROVE  Quiet'
  <2>1. /\ nonce' = nonce /\ demoted' = demoted /\ pub \in [Tabs -> [Tokens -> Stages]]
        /\ pub' = [c \in Tabs |-> IF c \in TabsOf(cmd[s].user)
                                  THEN [pub[c] EXCEPT ![cmd[s].token] = "trying"] ELSE pub[c]]
    BY <1>5 DEF Promote, StageInv, StageTypeOK
  <2>2. \A c \in Tabs, k \in Tokens : pub'[c][k] = pub[c][k] \/ pub'[c][k] = "trying"
    BY <2>1
  <2> QED  BY <2>1, <2>2 DEF Quiet, TabsOf
<1>6. ASSUME NEW s \in Teachers, NEW u \in Students, Demote(s, u)
      PROVE  Quiet'
  BY <1>6 DEF Demote, Quiet, TabsOf, StageInv, StageTypeOK
<1>7. ASSUME NEW s \in Teachers, NEW u \in Students, NEW k \in Tokens, Accept(s, u, k)
      PROVE  Quiet'
  BY <1>7 DEF Accept, Quiet, TabsOf, StageInv, StageTypeOK
<1>8. ASSUME NEW u \in Students, Expire(u)
      PROVE  Quiet'
  BY <1>8 DEF Expire, Quiet, TabsOf, StageInv, StageTypeOK
<1>9. \A s \in Teachers : TellDemoted(s) => Quiet'
  BY QuietTold DEF Sockets
<1>10. UNCHANGED stageVars => UNCHANGED <<nonce, pub, demoted>>
  BY DEF stageVars
<1> QED  BY <1>1, <1>2, <1>3, <1>4, <1>5, <1>6, <1>7, <1>8, <1>9, <1>10, QuietTabs DEF StageNext

\* A student whose demotion the room was told while no tab of the student was about to
\* publish is not heard before the next promotion, whatever Promoted events and questions
\* of the media server are still on their way.
THEOREM Demotion == StageSpec => []DemotedIsQuiet
<1>1. StageInit => Quiet
  BY DEF StageInit, Quiet
<1>2. Quiet => DemotedIsQuiet
  BY DEF Quiet, DemotedIsQuiet, OnAir
<1> QED  BY <1>1, <1>2, StageInvInit, StageInvStep, QuietStep, PTL DEF StageSpec

------------------------------------------------------------------------------
(* The hand queue.                                                         *)

\* A command removes entries of the student it is about only.
Own == \A s \in Sockets : \A e \in cmd[s].entries : e.user = cmd[s].user

\* What the command of a socket knows of the queue, as long as no other is about the same
\* student: it puts in no second entry; and it removes all there are and says what is
\* there if nothing fails.
Fits(s) ==
  LET mine == EntriesOf(cmd[s].user) IN
  /\ cmd[s].at = "push" => mine = {}
  /\ failures = 0 =>
       /\ cmd[s].at = "up" => mine # {}
       /\ cmd[s].at \in {"down", "promote"} => mine = {}
       /\ cmd[s].at \in {"pull", "take down"} => mine \subseteq cmd[s].entries

Alone(u) == \A s, d \in Sockets : cmd[s].user = u /\ cmd[d].user = u => s = d
Once(u) == \A e, f \in EntriesOf(u) : e = f
Shown(u) ==
  failures = 0 /\ (\A s \in Sockets : cmd[s].user = u => cmd[s].at = "tell")
    => (u \in hands <=> EntriesOf(u) # {})
Sound(u) ==
  Alone(u) /\ Once(u) /\ Shown(u) /\ \A s \in Sockets : cmd[s].user = u => Fits(s)

QueueInv == Own /\ \A u \in Students \ mixed : Sound(u)

\* CommandSteps about other students.
LEMMA Elsewhere ==
  ASSUME NEW u, Sound(u), EntriesOf(u)' = EntriesOf(u), u \in hands' <=> u \in hands,
         failures' = 0 => failures = 0,
         \A s \in Sockets : cmd'[s] = cmd[s] \/ (cmd[s].user # u /\ cmd'[s].user # u)
  PROVE  Sound(u)'
<1>1. \A s \in Sockets : cmd'[s].user = u => cmd'[s] = cmd[s] /\ cmd[s].user = u
  OBVIOUS
<1>2. \A s \in Sockets : cmd[s].user = u => cmd'[s] = cmd[s]
  OBVIOUS
<1>3. Alone(u)' /\ Once(u)'
  BY <1>1 DEF Sound, Alone, Once
<1>4. Shown(u)'
  BY <1>1, <1>2 DEF Sound, Shown
<1>5. \A s \in Sockets : cmd'[s].user = u => Fits(s)'
  <2> SUFFICES ASSUME NEW s \in Sockets, cmd'[s].user = u PROVE Fits(s)'
    OBVIOUS
  <2>1. cmd'[s] = cmd[s] /\ cmd[s].user = u /\ Fits(s)
    BY <1>1 DEF Sound
  <2> QED  BY <2>1 DEF Fits, EntriesOf
<1> QED  BY <1>3, <1>4, <1>5 DEF Sound

\* CommandSteps of the one command about a student, which stays the only one.
LEMMA Onward ==
  ASSUME StageInv, NEW u \in Students, Sound(u), NEW s \in Sockets,
         NEW command, cmd' = [cmd EXCEPT ![s] = command],
         \A d \in Sockets : d # s => cmd[d].user # u,
         command.user = u,
         Once(u)', Fits(s)',
         command.at = "tell" /\ failures' = 0 => (u \in hands' <=> EntriesOf(u)' # {})
  PROVE  Sound(u)'
<1>1. \A d \in Sockets : cmd'[d].user = u => d = s
  BY DEF StageInv, StageTypeOK
<1>2. cmd'[s] = command
  BY DEF StageInv, StageTypeOK
<1>3. Alone(u)'
  BY <1>1 DEF Alone
<1>4. Shown(u)'
  BY <1>1, <1>2 DEF Shown
<1> QED  BY <1>1, <1>3, <1>4 DEF Sound

\* and its end.
LEMMA Over ==
  ASSUME StageInv, NEW u \in Students, Sound(u), NEW s \in Sockets, cmd[s].user = u, Done(s),
         queue' = queue, failures' = 0 => (u \in hands' <=> EntriesOf(u) # {})
  PROVE  Sound(u)'
<1>1. \A d \in Sockets : cmd'[d].user # u
  BY StageConstants DEF Sound, Alone, Done, StageInv, StageTypeOK
<1>2. EntriesOf(u)' = EntriesOf(u)
  BY DEF EntriesOf
<1> QED  BY <1>1, <1>2 DEF Sound, Alone, Once, Shown

LEMMA FailureCounts ==
  /\ StageInv /\ Failure => failures' # 0
  /\ StageInv => \A s \in Sockets : cmd[s] \in Command
BY DEF StageInv, StageTypeOK, Failure

LEMMA SoundBegin ==
  ASSUME StageInv, QueueInv, UNCHANGED <<queue, hands>>, failures' = 0 => failures = 0,
         NEW s \in Sockets, NEW v \in Students,
         NEW step \in {"push", "up", "down", "pull", "lower", "tell"}, NEW token,
         NEW entries \in SUBSET EntriesOf(v),
         Begin(s, v, [at |-> step, user |-> v, token |-> token, entries |-> entries]),
         step = "push" => EntriesOf(v) = {}, step = "up" => EntriesOf(v) # {},
         step = "pull" => entries = EntriesOf(v), step = "down" => failures' # 0
  PROVE  QueueInv'
<1> DEFINE command == [at |-> step, user |-> v, token |-> token, entries |-> entries]
<1>0. /\ cmd \in [Sockets -> Command] /\ cmd[s] = Idle /\ cmd' = [cmd EXCEPT ![s] = command]
      /\ mixed' = IF \E d \in Sockets : cmd[d].user = v THEN mixed \cup {v} ELSE mixed
  BY DEF Begin, StageInv, StageTypeOK
<1>1. \A u : EntriesOf(u)' = EntriesOf(u)
  BY DEF EntriesOf
<1>2. Own'
  <2>1. \A e \in entries : e.user = v
    BY DEF EntriesOf
  <2> QED  BY <1>0, <2>1 DEF Own, QueueInv
<1>3. ASSUME NEW u \in Students \ mixed'
      PROVE  Sound(u)'
  <2>1. Sound(u)
    BY <1>0 DEF QueueInv
  <2>2. CASE u # v
    <3>0. command.user # u /\ cmd[s].user # u
      BY <1>0, <2>2, StageConstants
    <3> HIDE DEF command
    <3>1. \A d \in Sockets : cmd'[d] = cmd[d] \/ (cmd[d].user # u /\ cmd'[d].user # u)
      BY <1>0, <3>0
    <3> QED  BY <1>1, <2>1, <3>1, Elsewhere
  <2>3. CASE u = v
    <3>1. \A d \in Sockets : cmd[d].user # u
      BY <1>0, <1>3, <2>3
    <3>2. /\ command.user = u /\ command.at = step /\ command.entries = entries
          /\ cmd'[s] = command
      BY <1>0, <2>3
    <3> HIDE DEF command
    <3>3. Once(u)'
      BY <1>1, <2>1 DEF Sound, Once
    <3>4. Fits(s)'
      BY <1>1, <2>3, <3>2 DEF Fits
    <3>5. command.at = "tell" /\ failures' = 0 => (u \in hands' <=> EntriesOf(u)' # {})
      BY <1>1, <2>1, <3>1 DEF Sound, Shown
    <3> QED  BY <1>0, <2>1, <3>1, <3>2, <3>3, <3>4, <3>5, Onward
  <2> QED  BY <2>2, <2>3
<1> QED  BY <1>2, <1>3 DEF QueueInv

\* A step of one command, which stays about the same student: what to show of it.
LEMMA SoundCommand ==
  ASSUME StageInv, QueueInv, NEW s \in Sockets, NEW command \in Command,
         cmd[s].at # "idle", cmd' = [cmd EXCEPT ![s] = command],
         command.user = cmd[s].user, command.at # "tell",
         \A e \in command.entries : e.user = cmd[s].user,
         \A u \in Students : u # cmd[s].user => EntriesOf(u)' = EntriesOf(u),
         hands' = hands, failures' = 0 => failures = 0, mixed' = mixed,
         Sound(cmd[s].user) => Once(cmd[s].user)' /\ Fits(s)'
  PROVE  QueueInv'
<1>0. cmd \in [Sockets -> Command] /\ cmd'[s] = command
  BY DEF StageInv, StageTypeOK
<1>1. Own'
  BY <1>0 DEF Own, QueueInv
<1>2. ASSUME NEW u \in Students \ mixed
      PROVE  Sound(u)'
  <2>1. Sound(u)
    BY DEF QueueInv
  <2>2. CASE u # cmd[s].user
    <3>1. \A d \in Sockets : cmd'[d] = cmd[d] \/ (cmd[d].user # u /\ cmd'[d].user # u)
      BY <1>0, <2>2
    <3> QED  BY <2>1, <2>2, <3>1, Elsewhere
  <2>3. CASE u = cmd[s].user
    <3>1. \A d \in Sockets : d # s => cmd[d].user # u
      BY <2>1, <2>3 DEF Sound, Alone
    <3>2. Once(u)' /\ Fits(s)'
      BY <2>1, <2>3 DEF Once, EntriesOf
    <3> QED  BY <2>1, <2>3, <3>1, <3>2, Onward
  <2> QED  BY <2>2, <2>3
<1> QED  BY <1>1, <1>2 DEF QueueInv

LEMMA SoundEnd ==
  ASSUME StageInv, QueueInv, NEW s \in Sockets, cmd[s].at # "idle", Done(s),
         queue' = queue, mixed' = mixed, failures' = 0 => failures = 0,
         \A u \in Students : u # cmd[s].user => (u \in hands' <=> u \in hands),
         Sound(cmd[s].user) /\ failures' = 0
           => (cmd[s].user \in hands' <=> EntriesOf(cmd[s].user) # {})
  PROVE  QueueInv'
<1>0. /\ cmd \in [Sockets -> Command] /\ cmd'[s] = Idle
      /\ \A d \in Sockets : d # s => cmd'[d] = cmd[d]
  BY DEF Done, StageInv, StageTypeOK
<1>1. Own'
  BY <1>0, StageConstants DEF Own, QueueInv
<1>2. ASSUME NEW u \in Students \ mixed
      PROVE  Sound(u)'
  <2>1. Sound(u)
    BY DEF QueueInv
  <2>2. CASE u # cmd[s].user
    <3>1. \A d \in Sockets : cmd'[d] = cmd[d] \/ (cmd[d].user # u /\ cmd'[d].user # u)
      BY <1>0, <2>2, StageConstants
    <3>2. EntriesOf(u)' = EntriesOf(u)
      BY DEF EntriesOf
    <3> QED  BY <2>1, <2>2, <3>1, <3>2, Elsewhere
  <2>3. CASE u = cmd[s].user
    BY <2>1, <2>3, Over
  <2> QED  BY <2>2, <2>3
<1> QED  BY <1>1, <1>2 DEF QueueInv

\* What Proceed makes of a command.
LEMMA ProceedSets ==
  ASSUME StageInv, NEW s \in Sockets, NEW step \in CommandSteps, Proceed(s, step)
  PROVE  \E command \in Command :
           /\ cmd' = [cmd EXCEPT ![s] = command] /\ cmd'[s] = command
           /\ command.user = cmd[s].user /\ command.at = step /\ command.entries = cmd[s].entries
<1>0. cmd[s] \in Command /\ cmd \in [Sockets -> Command]
  BY DEF StageInv, StageTypeOK
<1>1. cmd' = [cmd EXCEPT ![s] = [cmd[s] EXCEPT !.at = step]]
  BY <1>0 DEF Proceed
<1>2. [cmd[s] EXCEPT !.at = step] \in Command
  BY <1>0 DEF Command
<1> QED  BY <1>0, <1>1, <1>2 DEF Command

LEMMA SoundPush ==
  ASSUME StageInv, QueueInv, NEW c \in Tabs, Push(c) \/ PushFails(c)
  PROVE  QueueInv'
<1> PICK u : u = cmd[c].user
  OBVIOUS
<1>0. /\ c \in Sockets /\ cmd[c].at = "push" /\ cmd[c].at # "idle" /\ hands' = hands
      /\ mixed' = mixed /\ (failures' = 0 => failures = 0 /\ Push(c))
  BY Owners, FailureCounts DEF Push, PushFails
<1>1. PICK step \in {"up", "down"} : Proceed(c, step) /\ (step = "up" <=> Push(c))
  BY DEF Push, PushFails
<1>8. step \in CommandSteps
  BY DEF CommandSteps
<1>2. PICK command \in Command :
        /\ cmd' = [cmd EXCEPT ![c] = command] /\ cmd'[c] = command
        /\ command.user = u /\ command.at = step /\ command.entries = cmd[c].entries
  BY <1>0, <1>1, <1>8, ProceedSets
<1>3. \/ queue' = queue /\ PushFails(c)
      \/ queue' = queue \cup {[user |-> u, id |-> raises']}
  BY DEF Push, PushFails, queued
<1>4. \A v \in Students : v # u => EntriesOf(v)' = EntriesOf(v)
  BY <1>3 DEF EntriesOf
<1>5. ASSUME Sound(u)
      PROVE  Once(u)' /\ Fits(c)'
  <2>1. EntriesOf(u) = {}
    BY <1>0, <1>5 DEF Sound, Fits
  <2>2. EntriesOf(u)' = {} \/ EntriesOf(u)' = {[user |-> u, id |-> raises']}
    BY <1>2, <1>3, <2>1 DEF EntriesOf
  <2>3. Once(u)'
    BY <2>2 DEF Once
  <2>4. CASE PushFails(c)
    <3>1. failures' # 0
      BY <2>4, FailureCounts DEF PushFails
    <3> QED  BY <1>1, <1>2, <2>3, <3>1 DEF Fits
  <2>5. CASE Push(c)
    <3>1. EntriesOf(u)' # {}
      <4>1. [user |-> u, id |-> raises'] \in queue'
        BY <2>5 DEF Push
      <4>2. [user |-> u, id |-> raises'] \in EntriesOf(u)'
        BY <4>1 DEF EntriesOf
      <4> QED  BY <4>2
    <3> QED  BY <1>1, <1>2, <2>3, <2>5, <3>1 DEF Fits
  <2> QED  BY <2>3, <2>4, <2>5
<1>6. \A e \in command.entries : e.user = u
  BY <1>0, <1>2 DEF QueueInv, Own
<1>7. command.at # "tell" /\ (failures' = 0 => failures = 0)
  BY <1>0, <1>2
<1> QED  BY <1>0, <1>2, <1>4, <1>5, <1>6, <1>7, SoundCommand

LEMMA SoundPull ==
  ASSUME StageInv, QueueInv, NEW s \in Sockets, Pull(s)
  PROVE  QueueInv'
<1> PICK u : u = cmd[s].user
  OBVIOUS
<1>0. /\ cmd[s].at \in {"pull", "take down"} /\ cmd[s].at # "idle" /\ hands' = hands
      /\ mixed' = mixed /\ failures' = failures /\ cmd[s] \in Command
      /\ cmd \in [Sockets -> Command] /\ \A e \in cmd[s].entries : e.user = u
  BY DEF Pull, StageInv, StageTypeOK, QueueInv, Own
<1>1. CASE cmd[s].entries = {}
  <2>1. /\ Proceed(s, After(cmd[s].at)) /\ queue' = queue /\ After(cmd[s].at) \in {"down", "promote"}
        /\ After(cmd[s].at) \in CommandSteps
    BY <1>1 DEF Pull, After, CommandSteps
  <2>2. PICK command \in Command :
          /\ cmd' = [cmd EXCEPT ![s] = command] /\ cmd'[s] = command
          /\ command.user = u /\ command.at \in {"down", "promote"} /\ command.entries = {}
    BY <1>1, <2>1, ProceedSets
  <2>3. \A v : EntriesOf(v)' = EntriesOf(v)
    BY <2>1 DEF EntriesOf
  <2>4. ASSUME Sound(u)
        PROVE  Once(u)' /\ Fits(s)'
    <3>1. failures = 0 => EntriesOf(u) = {}
      BY <1>0, <1>1, <2>4 DEF Sound, Fits
    <3>2. Once(u)'
      BY <2>3, <2>4 DEF Sound, Once
    <3> QED  BY <1>0, <2>2, <2>3, <3>1, <3>2 DEF Fits
  <2> QED  BY <1>0, <2>2, <2>3, <2>4, SoundCommand
<1>2. CASE cmd[s].entries # {}
  <2> DEFINE after(e) == [cmd[s] EXCEPT !.entries = @ \ {e}]
  <2>1. PICK e \in cmd[s].entries : /\ queue' = queue \ {e}
                                    /\ cmd' = [cmd EXCEPT ![s].entries = @ \ {e}]
    BY <1>2 DEF Pull
  <2>2. /\ after(e) \in Command /\ after(e).user = u /\ after(e).at = cmd[s].at
        /\ after(e).entries = cmd[s].entries \ {e} /\ cmd' = [cmd EXCEPT ![s] = after(e)]
    BY <1>0, <2>1 DEF Command
  <2> HIDE DEF after
  <2>3. PICK command \in Command :
          /\ cmd' = [cmd EXCEPT ![s] = command] /\ cmd'[s] = command
          /\ command.user = u /\ command.at = cmd[s].at /\ command.entries = cmd[s].entries \ {e}
    BY <1>0, <2>2
  <2>4. e.user = u
    BY <1>0
  <2>5. (\A v : v # u => EntriesOf(v)' = EntriesOf(v)) /\ EntriesOf(u)' = EntriesOf(u) \ {e}
    BY <2>1, <2>4 DEF EntriesOf
  <2>6. ASSUME Sound(u)
        PROVE  Once(u)' /\ Fits(s)'
    <3>1. failures = 0 => EntriesOf(u) \subseteq cmd[s].entries
      BY <1>0, <2>6 DEF Sound, Fits
    <3>2. Once(u)'
      BY <2>5, <2>6 DEF Sound, Once
    <3> QED  BY <1>0, <2>3, <2>5, <3>1, <3>2 DEF Fits
  <2> QED  BY <1>0, <2>3, <2>5, <2>6, SoundCommand
<1> QED  BY <1>1, <1>2

LEMMA SoundLower ==
  ASSUME StageInv, QueueInv, NEW s \in Sockets, LowerAccepted(s) \/ PullFails(s)
  PROVE  QueueInv'
<1> PICK u : u = cmd[s].user
  OBVIOUS
<1>0. /\ cmd[s].at \in {"lower", "pull", "take down"} /\ cmd[s].at # "idle"
      /\ queue' = queue /\ hands' = hands /\ mixed' = mixed /\ cmd[s] \in Command
      /\ cmd \in [Sockets -> Command] /\ (failures' = 0 => failures = 0)
  BY FailureCounts DEF LowerAccepted, PullFails, StageInv, StageTypeOK, queued
<1>1. \A v : EntriesOf(v)' = EntriesOf(v)
  BY <1>0 DEF EntriesOf
<1>2. PICK command \in Command :
        /\ cmd' = [cmd EXCEPT ![s] = command] /\ cmd'[s] = command /\ command.user = u
        /\ \/ command.at = "take down" /\ command.entries = EntriesOf(u)
           \/ command.at \in {"down", "promote"} /\ command.entries = {} /\ failures' # 0
  <2>1. CASE LowerAccepted(s)
    <3> DEFINE c == [cmd[s] EXCEPT !.at = "take down", !.entries = EntriesOf(cmd[s].user)]
    <3>1. cmd' = [cmd EXCEPT ![s] = c]
      BY <1>0, <2>1 DEF LowerAccepted
    <3>2. c \in Command /\ c.user = u /\ c.at = "take down" /\ c.entries = EntriesOf(u)
      <4>1. EntriesOf(u) \in SUBSET Entry
        BY DEF EntriesOf, StageInv, StageTypeOK
      <4> QED  BY <1>0, <4>1 DEF Command, CommandSteps
    <3> HIDE DEF c
    <3> QED  BY <1>0, <3>1, <3>2
  <2>2. CASE PullFails(s)
    <3> DEFINE c == [cmd[s] EXCEPT !.entries = {}, !.at = After(cmd[s].at)]
    <3>1. cmd' = [cmd EXCEPT ![s] = [[cmd[s] EXCEPT !.entries = {}] EXCEPT !.at = After(@)]]
      BY <1>0, <2>2 DEF PullFails
    <3>2. [[cmd[s] EXCEPT !.entries = {}] EXCEPT !.at = After(@)] = c
      BY <1>0 DEF Command
    <3>3. c \in Command /\ c.user = u /\ c.at \in {"down", "promote"} /\ c.entries = {}
      BY <1>0 DEF Command, CommandSteps, After
    <3>4. failures' # 0
      BY <2>2, FailureCounts DEF PullFails
    <3> HIDE DEF c
    <3> QED  BY <1>0, <3>1, <3>2, <3>3, <3>4
  <2> QED  BY <2>1, <2>2
<1>3. ASSUME Sound(u)
      PROVE  Once(u)' /\ Fits(s)'
  BY <1>1, <1>2, <1>3 DEF Sound, Once, Fits
<1>4. \A e \in command.entries : e.user = u
  BY <1>2 DEF EntriesOf
<1> QED  BY <1>0, <1>1, <1>2, <1>3, <1>4, SoundCommand

LEMMA SoundPromote ==
  ASSUME StageInv, QueueInv, NEW s \in Sockets, cmd[s].at = "promote", Proceed(s, "down"),
         UNCHANGED <<queue, hands, mixed>>, failures' = 0 => failures = 0
  PROVE  QueueInv'
<1> PICK u : u = cmd[s].user
  OBVIOUS
<1>1. PICK command \in Command :
        /\ cmd' = [cmd EXCEPT ![s] = command] /\ cmd'[s] = command
        /\ command.user = u /\ command.at = "down" /\ command.entries = cmd[s].entries
  <2>1. "down" \in CommandSteps
    BY DEF CommandSteps
  <2> QED  BY <2>1, ProceedSets
<1>2. \A v : EntriesOf(v)' = EntriesOf(v)
  BY DEF EntriesOf
<1>3. ASSUME Sound(u)
      PROVE  Once(u)' /\ Fits(s)'
  BY <1>1, <1>2, <1>3 DEF Sound, Once, Fits
<1>4. \A e \in command.entries : e.user = u
  BY <1>1 DEF QueueInv, Own
<1> QED  BY <1>1, <1>2, <1>3, <1>4, SoundCommand

LEMMA SoundTell ==
  ASSUME StageInv, QueueInv, NEW s \in Sockets,
         TellUp(s) \/ TellDown(s) \/ TellDemoted(s) \/ (TellFails(s) /\ Done(s))
  PROVE  QueueInv'
<1>0. /\ cmd[s].at # "idle" /\ Done(s) /\ queue' = queue /\ mixed' = mixed
      /\ (failures' = 0 => failures = 0)
  BY FailureCounts DEF TellUp, TellDown, TellDemoted, TellFails, queued
<1>1. \A u \in Students : u # cmd[s].user => (u \in hands' <=> u \in hands)
  BY DEF TellUp, TellDown, TellDemoted, TellFails
<1>2. ASSUME Sound(cmd[s].user), failures' = 0
      PROVE  cmd[s].user \in hands' <=> EntriesOf(cmd[s].user) # {}
  <2>1. CASE TellUp(s)
    BY <1>0, <1>2, <2>1 DEF TellUp, Sound, Fits
  <2>2. CASE TellDown(s)
    BY <1>0, <1>2, <2>2 DEF TellDown, Sound, Fits
  <2>3. CASE TellDemoted(s)
    <3>1. \A d \in Sockets : cmd[d].user = cmd[s].user => cmd[d].at = "tell"
      BY <1>2, <2>3 DEF TellDemoted, Sound, Alone
    <3> QED  BY <1>0, <1>2, <2>3, <3>1 DEF TellDemoted, Sound, Shown
  <2>4. CASE TellFails(s)
    BY <1>2, <2>4, FailureCounts DEF TellFails
  <2> QED  BY <2>1, <2>2, <2>3, <2>4
<1> QED  BY <1>0, <1>1, <1>2, SoundEnd

LEMMA SoundCalls ==
  ASSUME StageInv, QueueInv, NEW c \in Tabs, Raise(c) \/ RaiseFails(c) \/ Lower(c)
  PROVE  QueueInv'
<1> DEFINE u == StudentOf[c]
<1>0. /\ c \in Sockets /\ u \in Students /\ {} \in SUBSET EntriesOf(u)
      /\ UNCHANGED <<queue, hands>> /\ (failures' = 0 => failures = 0)
  BY Owners, FailureCounts DEF Raise, RaiseFails, Lower, queued
<1>1. CASE Raise(c)
  BY <1>0, <1>1, SoundBegin DEF Raise
<1>2. CASE RaiseFails(c)
  <2>1. failures' # 0
    BY <1>2, FailureCounts DEF RaiseFails
  <2> QED  BY <1>0, <1>2, <2>1, SoundBegin DEF RaiseFails
<1>3. CASE Lower(c)
  BY <1>0, <1>3, SoundBegin DEF Lower
<1> QED  BY <1>1, <1>2, <1>3

LEMMA SoundElsewhere ==
  ASSUME QueueInv, UNCHANGED <<queue, hands, cmd, mixed>>, failures' = 0 => failures = 0
  PROVE  QueueInv'
<1>1. \A u : EntriesOf(u)' = EntriesOf(u)
  BY DEF EntriesOf
<1> QED  BY <1>1, Elsewhere DEF QueueInv, Own

LEMMA SoundStep == StageInv /\ QueueInv /\ [StageNext]_stageVars => QueueInv'
<1> SUFFICES ASSUME StageInv, QueueInv, [StageNext]_stageVars PROVE QueueInv'
  OBVIOUS
<1>0. Tabs \subseteq Sockets /\ Teachers \subseteq Sockets
  BY DEF Sockets
<1>1. \A c \in Tabs : Raise(c) \/ RaiseFails(c) \/ Lower(c) => QueueInv'
  BY SoundCalls
<1>2. \A c \in Tabs : Push(c) \/ PushFails(c) => QueueInv'
  BY SoundPush
<1>3. \A s \in Sockets : TellUp(s) \/ TellDown(s) \/ TellDemoted(s) => QueueInv'
  BY SoundTell
<1>4. \A s \in Sockets : Pull(s) => QueueInv'
  BY SoundPull
<1>5. \A s \in Sockets : PullFails(s) \/ LowerAccepted(s) => QueueInv'
  BY SoundLower
<1>6. ASSUME NEW s \in Sockets, TellFails(s)
      PROVE  QueueInv'
  <2>1. UNCHANGED <<queue, hands, mixed>> /\ (failures' = 0 => failures = 0)
    BY <1>6, FailureCounts DEF TellFails, queued
  <2> QED  BY <1>6, <2>1, SoundTell, SoundPromote DEF TellFails
<1>7. ASSUME NEW s \in Teachers, Promote(s)
      PROVE  QueueInv'
  <2>1. UNCHANGED <<queue, hands, mixed>> /\ failures' = failures
    BY <1>7 DEF Promote, queued
  <2> QED  BY <1>0, <1>7, <2>1, SoundPromote DEF Promote
<1>8. ASSUME NEW s \in Teachers, NEW u \in Students, Demote(s, u)
      PROVE  QueueInv'
  <2>1. UNCHANGED <<queue, hands>> /\ failures' = failures /\ {} \in SUBSET EntriesOf(u)
    BY <1>8 DEF Demote, queued
  <2> QED  BY <1>0, <1>8, <2>1, SoundBegin DEF Demote
<1>9. ASSUME NEW s \in Teachers, NEW u \in Students, NEW k \in Tokens, Accept(s, u, k)
      PROVE  QueueInv'
  <2>1. UNCHANGED <<queue, hands>> /\ failures' = failures /\ {} \in SUBSET EntriesOf(u)
    BY <1>9 DEF Accept, queued
  <2> QED  BY <1>0, <1>9, <2>1, SoundBegin DEF Accept
<1>10. ASSUME NEW c \in Tabs, NEW k \in Tokens,
              Ask(c, k) \/ Take(c, k) \/ Store(c, k) \/ GiveUp(c, k)
       PROVE  QueueInv'
  <2>1. UNCHANGED <<queue, hands, cmd, mixed, failures>>
    BY <1>10 DEF Ask, Take, Store, GiveUp, queued
  <2> QED  BY <2>1, SoundElsewhere
<1>11. ASSUME NEW u \in Students, Expire(u)
       PROVE  QueueInv'
  <2>1. UNCHANGED <<queue, hands, cmd, mixed>> /\ failures' # 0
    BY <1>11, FailureCounts DEF Expire, queued
  <2> QED  BY <2>1, SoundElsewhere
<1>12. CASE UNCHANGED stageVars
  BY <1>12, SoundElsewhere DEF stageVars
<1> QED  BY <1>0, <1>1, <1>2, <1>3, <1>4, <1>5, <1>6, <1>7, <1>8, <1>9, <1>10, <1>11, <1>12
         DEF StageNext

LEMMA SoundInit == StageInit => QueueInv
<1> SUFFICES ASSUME StageInit PROVE QueueInv
  OBVIOUS
<1>1. \A s \in Sockets : cmd[s] = Idle
  BY DEF StageInit
<1>2. \A u \in Students : EntriesOf(u) = {} /\ u \notin hands
  BY DEF StageInit, EntriesOf
<1>3. Own /\ \A u \in Students : \A s \in Sockets : cmd[s].user # u
  BY <1>1, StageConstants DEF Own
<1> QED  BY <1>2, <1>3 DEF QueueInv, Sound, Alone, Once, Shown

LEMMA SoundMeans == QueueInv => ShownIsQueuedOnce
<1> SUFFICES ASSUME QueueInv, NEW u \in Students \ mixed
             PROVE  /\ Cardinality(EntriesOf(u)) <= 1
                    /\ failures = 0 /\ (\A s \in Sockets : cmd[s].user # u) =>
                         (u \in hands <=> EntriesOf(u) # {})
  BY DEF ShownIsQueuedOnce
<1>1. Sound(u)
  BY DEF QueueInv
<1>2. EntriesOf(u) = {} \/ \E e : EntriesOf(u) = {e}
  BY <1>1 DEF Sound, Once
<1>3. Cardinality(EntriesOf(u)) <= 1
  <2>1. CASE EntriesOf(u) = {}
    BY <2>1, FS_EmptySet
  <2>2. ASSUME NEW e, EntriesOf(u) = {e}
        PROVE  Cardinality(EntriesOf(u)) = 1
    BY <2>2, FS_Singleton
  <2> QED  BY <1>2, <2>1, <2>2
<1> QED  BY <1>1, <1>3 DEF Sound, Shown

\* A student about whom no two commands overlapped is in the queue once at most and, if
\* nothing failed, exactly if the clients show the hand as raised; however many raise and
\* lower their hands, are accepted and demoted meanwhile.
THEOREM Queueing == StageSpec => []ShownIsQueuedOnce
BY SoundInit, SoundStep, SoundMeans, StageInvInit, StageInvStep, PTL DEF StageSpec

------------------------------------------------------------------------------
(* The publisher sweep, of which every replica runs one: PublisherSweep, for any *)
(* number of replicas, any window and whatever fails. Its statuses are those of  *)
(* one session, its ages times since.                                            *)

\* Saturated ages are ages again, and no smaller.
LEMMA OlderIsAge ==
  ASSUME NEW age \in Ages
  PROVE  /\ Older(age) \in Ages
         /\ age # Null => Older(age) # Null /\ Older(age) >= age
BY SweepAssumption DEF Ages, Older, Cap, Null

LEMMA ZeroIsAge ==
  0 \in Ages /\ Null \in Ages /\ 0 # Null
BY SweepAssumption DEF Ages, Cap, Null

LEMMA SweepTypeInit ==
  SweepInit => SweepTypeOK
BY ZeroIsAge DEF SweepInit, SweepTypeOK

LEMMA SweepTypeStep ==
  SweepTypeOK /\ [SweepNext]_sweepVars => SweepTypeOK'
<1> SUFFICES ASSUME SweepTypeOK, [SweepNext]_sweepVars PROVE SweepTypeOK'
  OBVIOUS
<1> USE ZeroIsAge DEF SweepTypeOK, GoOn, class
<1>1. CASE GoLive \/ Publish \/ Drop \/ EndClass
  BY <1>1 DEF GoLive, Publish, Drop, EndClass
<1>2. CASE Tick
  <2>1. {startAge', endAge', seenAge', inactiveAge'} \subseteq Ages
    BY <1>2, OlderIsAge DEF Tick
  <2>2. steady' \in BOOLEAN
    BY <1>2 DEF Tick
  <2> QED  BY <1>2, <2>1, <2>2 DEF Tick
<1>3. ASSUME NEW w \in Replicas, List(w) \/ ProbeActive(w) \/ ProbeInactive(w)
      PROVE  SweepTypeOK'
  BY <1>3 DEF List, ProbeActive, ProbeInactive
<1>4. ASSUME NEW w \in Replicas, MarkSeen(w) \/ Seed(w) \/ EndGone(w) \/ KeepLive(w)
      PROVE  SweepTypeOK'
  BY <1>4 DEF MarkSeen, Seed, EndGone, KeepLive
<1>5. ASSUME NEW w \in Replicas,
             ProbeFails(w) \/ DbError(w) \/ Crash(w) \/ Restart(w)
      PROVE  SweepTypeOK'
  BY <1>5 DEF ProbeFails, DbError, Crash, Restart
<1>6. CASE UNCHANGED sweepVars
  BY <1>6 DEF sweepVars
<1> QED  BY <1>1, <1>2, <1>3, <1>4, <1>5, <1>6 DEF SweepNext, Sweep

\* Statuses, ages and the rounds of the replicas keep their types.
THEOREM SweepTypeCorrect == SweepSpec => []SweepTypeOK
BY SweepTypeInit, SweepTypeStep, PTL DEF SweepSpec

------------------------------------------------------------------------------
(* The end of a class is final.                                            *)

\* A class whose end has been written is over, and is not put back on air.
EndIsWritten == endAge # Null => status = "ended"

\* Overlapping sweeps, late ones, and a sweep overlapping end-class never move
\* the end of a class that is over: end-class keeps an end that is there, and
\* end_if_publisher_gone asks for a live row.
EndTimeNeverMoves == [][endAge # Null => endAge' >= endAge]_sweepVars

LEMMA EndIsWrittenInit == SweepInit => EndIsWritten
BY DEF SweepInit, EndIsWritten

LEMMA EndIsWrittenStep == SweepTypeOK /\ EndIsWritten /\ [SweepNext]_sweepVars => EndIsWritten'
<1> SUFFICES ASSUME SweepTypeOK, EndIsWritten, [SweepNext]_sweepVars PROVE EndIsWritten'
  OBVIOUS
<1> USE DEF EndIsWritten, class
<1>1. CASE GoLive \/ Publish \/ Drop \/ EndClass
  BY <1>1 DEF GoLive, Publish, Drop, EndClass
<1>2. CASE Tick
  BY <1>2 DEF Tick, Older
<1>3. ASSUME NEW w \in Replicas, Sweep(w)
      PROVE  EndIsWritten'
  BY <1>3 DEF Sweep, List, ProbeActive, ProbeInactive, MarkSeen, Seed,
              EndGone, KeepLive
<1>4. ASSUME NEW w \in Replicas,
             ProbeFails(w) \/ DbError(w) \/ Crash(w) \/ Restart(w)
      PROVE  EndIsWritten'
  BY <1>4 DEF ProbeFails, DbError, Crash, Restart
<1>5. CASE UNCHANGED sweepVars
  BY <1>5 DEF sweepVars
<1> QED  BY <1>1, <1>2, <1>3, <1>4, <1>5 DEF SweepNext

LEMMA EndStays ==
  SweepTypeOK /\ EndIsWritten /\ [SweepNext]_sweepVars =>
           [endAge # Null => endAge' >= endAge]_sweepVars
<1> SUFFICES ASSUME SweepTypeOK, EndIsWritten, [SweepNext]_sweepVars, endAge # Null
             PROVE  endAge' >= endAge \/ UNCHANGED sweepVars
  OBVIOUS
<1>1. status = "ended" /\ endAge \in Ages /\ endAge >= endAge
  BY SweepAssumption DEF EndIsWritten, SweepTypeOK, Ages, Cap, Null
<1>2. CASE Tick
  BY <1>1, <1>2, OlderIsAge DEF Tick
<1>3. CASE GoLive \/ Publish \/ Drop \/ EndClass
  BY <1>1, <1>3 DEF GoLive, Publish, Drop, EndClass, class
<1>4. ASSUME NEW w \in Replicas, Sweep(w)
      PROVE  endAge' >= endAge
  BY <1>1, <1>4 DEF Sweep, List, ProbeActive, ProbeInactive, MarkSeen,
                    Seed, EndGone, KeepLive, PublisherGone, class
<1>5. ASSUME NEW w \in Replicas,
             ProbeFails(w) \/ DbError(w) \/ Crash(w) \/ Restart(w)
      PROVE  endAge' >= endAge
  BY <1>1, <1>5 DEF ProbeFails, DbError, Crash, Restart, class
<1> QED  BY <1>2, <1>3, <1>4, <1>5 DEF SweepNext

\* The end of a class is written once, whatever sweeps and end-class overlap.
THEOREM EndsOnce == SweepSpec => EndTimeNeverMoves
<1>1. SweepSpec => [](SweepTypeOK /\ EndIsWritten)
  BY SweepTypeInit, SweepTypeStep, EndIsWrittenInit, EndIsWrittenStep, PTL DEF SweepSpec
<1> QED  BY <1>1, EndStays, PTL DEF SweepSpec, EndTimeNeverMoves

------------------------------------------------------------------------------
(* The window of one replica.                                              *)

\* How many minutes may have passed since the last round looked at the class.
Missed(w) == IF due[w] \/ sweep[w] = "probe" THEN 1 ELSE 0

\* As long as nothing fails and every round is done within its minute, the clock of a
\* live class is the time since somebody was seen on the path, or since its start, and
\* is at most a minute older than the first probe that has found nobody since.
OnTime(w) ==
  /\ sweep[w] # "down" /\ (sweep[w] # "idle" => ~due[w])
  /\ status = "scheduled" =>
       sweep[w] = "idle" /\ startAge = Null /\ seenAge = Null /\ inactiveAge = Null
  /\ status = "live" =>
       /\ startAge # Null
       /\ sweep[w] \in {"idle", "probe"} =>
            /\ seenAge = Null => inactiveAge = Null /\ startAge <= Missed(w)
            /\ seenAge # Null /\ inactiveAge = Null => seenAge <= Missed(w)
            /\ seenAge # Null /\ inactiveAge # Null => seenAge <= inactiveAge + 1
       /\ sweep[w] = "mark" => inactiveAge = Null
       /\ sweep[w] = "seed" =>
            /\ inactiveAge # Null /\ seenAge <= inactiveAge + 1
            /\ seenAge = Null => startAge <= 1
       /\ sweep[w] = "end" =>
            inactiveAge # Null /\ seenAge # Null /\ seenAge <= inactiveAge + 1

ClockInv == steady => \A w \in Replicas : OnTime(w)

LEMMA AgesAre ==
  ASSUME SweepTypeOK
  PROVE  /\ Null = -1 /\ Cap \in Nat /\ 2 <= Cap /\ Cap = Grace + 1 /\ Grace \in Nat
         /\ startAge \in Int /\ -1 <= startAge /\ startAge <= Cap
         /\ seenAge \in Int /\ -1 <= seenAge /\ seenAge <= Cap
         /\ inactiveAge \in Int /\ -1 <= inactiveAge /\ inactiveAge <= Cap
         /\ sweep \in [Replicas -> {"idle", "probe", "mark", "seed", "end", "down"}]
         /\ due \in [Replicas -> BOOLEAN]
         /\ status \in {"scheduled", "live", "ended"}
BY SweepAssumption DEF SweepTypeOK, Ages, Cap, Null

LEMMA ClockInit == SweepInit => ClockInv
BY DEF SweepInit, ClockInv, OnTime

\* What the class and its publisher do, whatever the round of the replica.
LEMMA ClassOnTime ==
  ASSUME SweepTypeOK, NEW w \in Replicas, OnTime(w), GoLive \/ Publish \/ Drop \/ EndClass
  PROVE  OnTime(w)'
<1>1. CASE GoLive
  <2>1. CASE status = "scheduled"
    BY <1>1, <2>1, AgesAre DEF GoLive, OnTime, Missed
  <2>2. CASE status = "live"
    <3>1. startAge # Null /\ startAge' = startAge /\ status' = "live"
      BY <1>1, <2>2 DEF GoLive, OnTime
    <3> QED  BY <1>1, <2>2, <3>1 DEF GoLive, OnTime, Missed
  <2> QED  BY <1>1, <2>1, <2>2 DEF GoLive
<1>2. CASE Publish \/ Drop
  BY <1>2 DEF Publish, Drop, class, OnTime, Missed
<1>3. CASE EndClass
  BY <1>3 DEF EndClass, OnTime
<1> QED  BY <1>1, <1>2, <1>3

\* A minute passes, and every round of the last one was done.
LEMMA TickOnTime ==
  ASSUME SweepTypeOK, NEW w \in Replicas, OnTime(w), Tick, steady'
  PROVE  OnTime(w)'
<1>1. /\ sweep[w] = "idle" /\ ~due[w] /\ sweep' = sweep /\ status' = status /\ due'[w]
  BY DEF Tick, RoundsDone, OnTime
<1>2. /\ startAge' = Older(startAge) /\ seenAge' = Older(seenAge)
      /\ inactiveAge' = Older(inactiveAge)
  BY DEF Tick
<1>3. Missed(w) = 0 /\ Missed(w)' = 1
  BY <1>1 DEF Missed
<1>4. CASE status # "live"
  BY <1>1, <1>2, <1>4 DEF OnTime, Older
<1>5. CASE status = "live"
  <2>1. startAge' # Null
    BY <1>2, <1>5, AgesAre DEF OnTime, Older
  <2>2. CASE seenAge = Null
    <3>1. inactiveAge = Null /\ startAge = 0
      BY <1>1, <1>3, <1>5, <2>2, AgesAre DEF OnTime
    <3>2. seenAge' = Null /\ inactiveAge' = Null /\ startAge' = 1
      BY <1>2, <2>2, <3>1, AgesAre DEF Older
    <3> QED  BY <1>1, <1>3, <1>5, <2>1, <3>2 DEF OnTime
  <2>3. CASE seenAge # Null /\ inactiveAge = Null
    <3>1. seenAge = 0
      BY <1>1, <1>3, <1>5, <2>3, AgesAre DEF OnTime
    <3>2. seenAge' = 1 /\ inactiveAge' = Null
      BY <1>2, <2>3, <3>1, AgesAre DEF Older
    <3> QED  BY <1>1, <1>3, <1>5, <2>1, <3>2, AgesAre DEF OnTime
  <2>4. CASE seenAge # Null /\ inactiveAge # Null
    <3>1. seenAge <= inactiveAge + 1
      BY <1>1, <1>5, <2>4 DEF OnTime
    <3>2. seenAge' # Null /\ inactiveAge' # Null /\ seenAge' <= inactiveAge' + 1
      BY <1>2, <2>4, <3>1, AgesAre DEF Older
    <3> QED  BY <1>1, <1>5, <2>1, <3>2 DEF OnTime
  <2> QED  BY <2>2, <2>3, <2>4
<1> QED  BY <1>4, <1>5

\* A round of the replica.
LEMMA RoundOnTime ==
  ASSUME SweepTypeOK, NEW w \in Replicas, OnTime(w), Sweep(w)
  PROVE  OnTime(w)'
<1> USE AgesAre DEF GoOn, class
<1>1. CASE List(w)
  <2>1. /\ sweep[w] = "idle" /\ due[w] /\ ~due'[w]
        /\ sweep'[w] = IF status = "live" THEN "probe" ELSE "idle"
        /\ UNCHANGED <<status, startAge, seenAge, inactiveAge>>
    BY <1>1 DEF List
  <2>2. CASE status = "live"
    <3>1. Missed(w) = 1 /\ Missed(w)' = 1
      BY <2>1, <2>2 DEF Missed
    <3> QED  BY <2>1, <2>2, <3>1 DEF OnTime
  <2>3. CASE status # "live"
    BY <2>1, <2>3 DEF OnTime
  <2> QED  BY <2>2, <2>3
<1>2. CASE ProbeActive(w)
  BY <1>2 DEF ProbeActive, OnTime
<1>3. CASE ProbeInactive(w)
  <2>1. /\ sweep[w] = "probe" /\ sweep'[w] = "seed" /\ ~due'[w]
        /\ inactiveAge' = IF inactiveAge = Null THEN 0 ELSE inactiveAge
        /\ UNCHANGED <<status, startAge, seenAge>>
    BY <1>3 DEF ProbeInactive, OnTime
  <2>2. Missed(w) = 1
    BY <2>1 DEF Missed
  <2> QED  BY <2>1, <2>2 DEF OnTime
<1>4. CASE MarkSeen(w)
  BY <1>4 DEF MarkSeen, OnTime, Missed
<1>5. CASE Seed(w)
  BY <1>5 DEF Seed, OnTime
<1>6. CASE EndGone(w)
  BY <1>6 DEF EndGone, OnTime
<1>7. CASE KeepLive(w)
  <2>1. /\ sweep[w] = "end" /\ sweep'[w] = "idle" /\ ~due'[w]
        /\ UNCHANGED <<status, startAge, seenAge, inactiveAge>>
    BY <1>7 DEF KeepLive, OnTime
  <2> QED  BY <2>1 DEF OnTime
<1> QED  BY <1>1, <1>2, <1>3, <1>4, <1>5, <1>6, <1>7 DEF Sweep

LEMMA ClockStep ==
  ASSUME \A v, w \in Replicas : v = w
  PROVE  SweepTypeOK /\ ClockInv /\ [SweepNext]_sweepVars => ClockInv'
<1> SUFFICES ASSUME SweepTypeOK, ClockInv, [SweepNext]_sweepVars, steady', NEW w \in Replicas
             PROVE  OnTime(w)'
  BY DEF ClockInv
<1>1. CASE UNCHANGED sweepVars
  BY <1>1 DEF sweepVars, ClockInv, OnTime, Missed
<1>2. CASE GoLive \/ Publish \/ Drop \/ EndClass
  <2>1. OnTime(w)
    BY <1>2 DEF GoLive, Publish, Drop, EndClass, ClockInv
  <2> QED  BY <1>2, <2>1, ClassOnTime
<1>3. CASE Tick
  <2>1. OnTime(w)
    BY <1>3 DEF Tick, ClockInv
  <2> QED  BY <1>3, <2>1, TickOnTime
<1>4. ASSUME NEW v \in Replicas, Sweep(v)
      PROVE  OnTime(w)'
  <2>1. OnTime(w)
    BY <1>4 DEF Sweep, List, ProbeActive, ProbeInactive, MarkSeen, Seed, EndGone, KeepLive,
                ClockInv
  <2> QED  BY <1>4, <2>1, RoundOnTime
<1>5. ASSUME NEW v \in Replicas, ProbeFails(v) \/ DbError(v) \/ Crash(v)
      PROVE  OnTime(w)'
  BY <1>5 DEF ProbeFails, DbError, Crash
<1>6. ASSUME NEW v \in Replicas, Restart(v)
      PROVE  OnTime(w)'
  BY <1>6 DEF Restart, ClockInv, OnTime
<1> QED  BY <1>1, <1>2, <1>3, <1>4, <1>5, <1>6 DEF SweepNext

LEMMA EndsOnTime ==
  SweepTypeOK /\ ClockInv /\ [SweepNext]_sweepVars =>
    [steady /\ SweepEnds => inactiveAge >= Grace]_sweepVars
<1> SUFFICES ASSUME SweepTypeOK, ClockInv, SweepNext, steady, SweepEnds
             PROVE  inactiveAge >= Grace
  OBVIOUS
<1>1. PICK w \in Replicas : /\ sweep[w] = "end" /\ status = "live" /\ status' = "ended"
                            /\ sweep'[w] = "idle"
  BY DEF SweepEnds
<1>2. OnTime(w)
  BY DEF ClockInv
<1>3. seenAge <= inactiveAge + 1
  BY <1>1, <1>2 DEF OnTime
<1>4. seenAge > Grace
  <2>1. CASE EndClass
    BY <1>1, <2>1 DEF EndClass
  <2>2. ASSUME NEW v \in Replicas, EndGone(v)
        PROVE  seenAge > Grace
    BY <2>2 DEF EndGone, PublisherGone
  <2>3. CASE ~EndClass /\ \A v \in Replicas : ~EndGone(v)
    BY <1>1, <2>3 DEF SweepNext, Sweep, GoLive, Publish, Drop, Tick, List, ProbeActive,
                      ProbeInactive, MarkSeen, Seed, KeepLive, ProbeFails, DbError, Crash,
                      Restart, class
  <2> QED  BY <2>1, <2>2, <2>3
<1> QED  BY <1>3, <1>4, AgesAre

\* With one replica a class is ended for want of a publisher only if every probe of the
\* last Grace minutes found nobody, the first of them that long ago, unless something has
\* failed or a round was late: for any window. With two replicas it does not hold.
THEOREM Window ==
  ASSUME \A v, w \in Replicas : v = w
  PROVE  SweepSpec => AbsenceObservedForWindow
<1>1. SweepSpec => [](SweepTypeOK /\ ClockInv)
  BY SweepTypeInit, SweepTypeStep, ClockInit, ClockStep, PTL DEF SweepSpec
<1> QED  BY <1>1, EndsOnTime, PTL DEF SweepSpec, AbsenceObservedForWindow

================================================================================
