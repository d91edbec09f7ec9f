------------------------------ MODULE Whiteboard ------------------------------
(***************************************************************************)
(* The whiteboard of one live room: a Redis list, oldest stroke first, and *)
(* the draw-permission flag; the commands by which sockets change them and *)
(* then tell the room; and what every client shows, which starts from a    *)
(* snapshot of the list and follows the events of the channel.             *)
(*                                                                         *)
(* A socket works off one command at a time, one Redis command or one      *)
(* publication per action, while other sockets do the same. The shapes of  *)
(* strokes, their validation, the cursors and the rate limit are left out, *)
(* and so is the event of the draw-permission flag, which makes clients    *)
(* show or hide the tools but decides nothing; and the order in which a    *)
(* client paints its strokes, of which only their number matters.          *)
(***************************************************************************)
EXTENDS Integers, Sequences, FiniteSets, Functions

CONSTANTS
  Connections, \* connections to the room, one per user
  Teachers,    \* those of teachers and admins
  Strokes,     \* stroke ids, which clients make up and never use again
  AuthorOf,    \* the connection that draws each of them
  NoStroke,
  MaxStrokes,  \* MAX_WHITEBOARD_STROKES in the backend, MAX_STROKES in the clients
  MaxBacklog,  \* events that may wait for a slow connection
  MaxErrors    \* bound on errors

ASSUME WhiteboardAssumption ==
  /\ Teachers \subseteq Connections
  /\ AuthorOf \in [Strokes -> Connections] /\ IsFiniteSet(Strokes)
  /\ NoStroke \notin Strokes
  /\ MaxStrokes \in Nat \ {0} /\ MaxBacklog \in Nat \ {0} /\ MaxErrors \in Nat

VARIABLES
  list,      \* the whiteboard key
  drawOpen,  \* the draw_open key
  cmd,       \* the command of each connection
  joined,    \* where run_socket stands, per connection
  backlog,   \* events of the subscription not yet delivered, per connection
  board,     \* the strokes each client shows, also while it reconnects
  drawn,     \* history: strokes in use
  twice,     \* history: for each client, strokes in its last snapshot whose own
             \* event it had still to receive
  rough,     \* history: two commands were under way at once, one failed, or a
             \* stroke was trimmed off the list or did not fit a client's board
  errors     \* how often a command failed so far

boardVars == <<list, drawOpen, cmd, joined, backlog, board, drawn, twice, rough, errors>>
shared == <<list, drawOpen>>
client == <<joined, backlog, board>>
history == <<drawn, twice, rough>>

Elements(q) == {q[i] : i \in DOMAIN q}

\* LREM of a stroke, of which there is one at most.
Without(q, s) ==
  IF s \in Elements(q)
  THEN LET i == CHOOSE i \in DOMAIN q : q[i] = s
       IN SubSeq(q, 1, i - 1) \o SubSeq(q, i + 1, Len(q))
  ELSE q

\* A client's board: how often it shows each stroke.
Blank == [s \in Strokes |-> 0]
Snapshot(q) == [s \in Strokes |-> Cardinality({i \in DOMAIN q : q[i] = s})]
Size(b) == SumFunctionOnSet(b, Strokes)

Kinds == {"stroke", "removed", "clear"}
Event == [kind : Kinds, stroke : Strokes \cup {NoStroke}]
NoCommand == [at |-> "idle", stroke |-> NoStroke]
BoardSteps == {"idle", "draw", "erase", "undo", "pop", "wipe", "remove"}
BoardCommand == [at : BoardSteps \cup Kinds, stroke : Strokes \cup {NoStroke}]
Busy == {w \in Connections : cmd[w] # NoCommand}

BoardInit ==
  /\ list = <<>> /\ drawOpen = FALSE
  /\ cmd = [w \in Connections |-> NoCommand]
  /\ joined = [c \in Connections |-> "out"]
  /\ backlog = [c \in Connections |-> <<>>]
  /\ board = [c \in Connections |-> Blank]
  /\ drawn = {}
  /\ twice = [c \in Connections |-> {}]
  /\ rough = FALSE /\ errors = 0

GoOn(w, at, s) == cmd' = [cmd EXCEPT ![w] = [at |-> at, stroke |-> s]]
Finish(w) == cmd' = [cmd EXCEPT ![w] = NoCommand]
Fails == errors < MaxErrors /\ errors' = errors + 1 /\ rough' = TRUE

------------------------------------------------------------------------------
(* A command: it is refused at once, or starts.                            *)

\* Teachers may always draw; others while the flag is read as open.
Permitted(w) == w \in Teachers \/ drawOpen

Start(w, at, s) ==
  /\ joined[w] = "in" /\ cmd[w] = NoCommand
  /\ GoOn(w, at, s)
  /\ rough' = (rough \/ Busy # {})
  /\ UNCHANGED <<shared, client, twice, errors>>

AskToDraw(w, s) ==
  /\ Permitted(w) /\ AuthorOf[s] = w /\ s \notin drawn
  /\ drawn' = drawn \cup {s}
  /\ Start(w, "draw", s)

\* Any stroke may be erased that the client shows.
AskToErase(w, s) ==
  /\ Permitted(w) /\ board[w][s] > 0
  /\ Start(w, "erase", s) /\ UNCHANGED drawn

\* Undo takes one's own last stroke; a teacher's may take the last of all.
AskToUndo(w) ==
  /\ \/ Permitted(w) /\ Start(w, "undo", NoStroke)
     \/ w \in Teachers /\ Start(w, "pop", NoStroke)
  /\ UNCHANGED drawn

AskToClear(w) ==
  /\ w \in Teachers
  /\ Start(w, "wipe", NoStroke) /\ UNCHANGED drawn

\* A teacher lets the others draw, or no longer. Strokes on their way are not
\* stopped.
SetDrawPermission(w) ==
  /\ w \in Teachers /\ joined[w] = "in" /\ cmd[w] = NoCommand
  /\ drawOpen' = ~drawOpen
  /\ UNCHANGED <<list, cmd, client, history, errors>>

------------------------------------------------------------------------------
(* What commands do to the Redis keys.                                     *)

\* WHITEBOARD_APPEND_SCRIPT: the list keeps its newest MaxStrokes strokes.
Kept(q) == IF Len(q) > MaxStrokes THEN Tail(q) ELSE q

AppendStroke(w) ==
  /\ cmd[w].at = "draw"
  /\ list' = Kept(Append(list, cmd[w].stroke))
  /\ rough' = (rough \/ Len(list) = MaxStrokes)
  /\ GoOn(w, "stroke", cmd[w].stroke)
  /\ UNCHANGED <<drawOpen, client, drawn, twice, errors>>

\* Erase and undo look for the stroke, and give up if there is none,
LastOwn(w) == {i \in DOMAIN list : AuthorOf[list[i]] = w
                 /\ \A j \in DOMAIN list : AuthorOf[list[j]] = w => j <= i}

FindStroke(w) ==
  /\ \/ /\ cmd[w].at = "erase"
        /\ IF cmd[w].stroke \in Elements(list) THEN GoOn(w, "remove", cmd[w].stroke)
                                               ELSE Finish(w)
     \/ /\ cmd[w].at = "undo"
        /\ IF LastOwn(w) = {} THEN Finish(w)
           ELSE \E i \in LastOwn(w) : GoOn(w, "remove", list[i])
  /\ UNCHANGED <<shared, client, history, errors>>

\* Mutant: the stroke is removed and nobody is told.
RemoveQuietly(w) ==
  /\ cmd[w].at = "remove"
  /\ list' = Without(list, cmd[w].stroke)
  /\ Finish(w)
  /\ UNCHANGED <<drawOpen, client, history, errors>>

\* and then remove it, telling the room only if it was still there.
RemoveStroke(w) ==
  /\ cmd[w].at = "remove"
  /\ list' = Without(list, cmd[w].stroke)
  /\ IF cmd[w].stroke \in Elements(list) THEN GoOn(w, "removed", cmd[w].stroke)
                                         ELSE Finish(w)
  /\ UNCHANGED <<drawOpen, client, history, errors>>

\* The undo of the last stroke of all is one RPOP.
PopStroke(w) ==
  /\ cmd[w].at = "pop"
  /\ IF list = <<>> THEN Finish(w) /\ UNCHANGED list
     ELSE /\ GoOn(w, "removed", list[Len(list)])
          /\ list' = SubSeq(list, 1, Len(list) - 1)
  /\ UNCHANGED <<drawOpen, client, history, errors>>

Wipe(w) ==
  /\ cmd[w].at = "wipe"
  /\ list' = <<>>
  /\ GoOn(w, "clear", NoStroke)
  /\ UNCHANGED <<drawOpen, client, history, errors>>

\* An error: the stroke or the clearing is announced nevertheless, any other
\* command is given up. The backend may also die.
CommandFails(w) ==
  /\ cmd[w] # NoCommand /\ Fails
  /\ \/ cmd[w].at = "draw" /\ GoOn(w, "stroke", cmd[w].stroke)
     \/ cmd[w].at = "wipe" /\ GoOn(w, "clear", NoStroke)
     \/ Finish(w)
  /\ UNCHANGED <<shared, client, drawn, twice>>

------------------------------------------------------------------------------
(* The channel and the clients.                                            *)

\* A connection too slow for its events loses its subscription, and closes.
Overrun == {c \in Connections : joined[c] # "out" /\ Len(backlog[c]) = MaxBacklog}

Announced(w) == [kind |-> cmd[w].at, stroke |-> cmd[w].stroke]

\* Mutant: an event is published again, as after a timeout.
PublishAgain(w) ==
  /\ cmd[w].at \in Kinds
  /\ backlog' = [c \in Connections |->
                  IF joined[c] = "out" \/ c \in Overrun THEN <<>>
                  ELSE Append(backlog[c], Announced(w))]
  /\ joined' = [c \in Connections |-> IF c \in Overrun THEN "out" ELSE joined[c]]
  /\ UNCHANGED <<shared, cmd, board, history, errors>>

Publish(w) ==
  /\ cmd[w].at \in Kinds
  /\ backlog' = [c \in Connections |->
                  IF joined[c] = "out" \/ c \in Overrun THEN <<>>
                  ELSE Append(backlog[c], Announced(w))]
  /\ joined' = [c \in Connections |-> IF c \in Overrun THEN "out" ELSE joined[c]]
  /\ Finish(w)
  /\ UNCHANGED <<shared, board, history, errors>>

Subscribe(c) ==
  /\ joined[c] = "out" /\ cmd[c] = NoCommand
  /\ joined' = [joined EXCEPT ![c] = "subscribed"]
  /\ UNCHANGED <<shared, cmd, backlog, board, history, errors>>

\* The strokes whose own event this client has still to receive.
Coming(c) == {s \in Strokes : \/ \E i \in DOMAIN backlog[c] :
                                   backlog[c][i] = [kind |-> "stroke", stroke |-> s]
                              \/ \E w \in Connections : cmd[w] = [at |-> "stroke", stroke |-> s]}

\* The snapshot is read after the subscription, and sent ahead of its events. It
\* replaces what the client showed before.
Hydrate(c) ==
  /\ joined[c] = "subscribed"
  /\ board' = [board EXCEPT ![c] = Snapshot(list)]
  /\ twice' = [twice EXCEPT ![c] = Elements(list) \cap Coming(c)]
  /\ joined' = [joined EXCEPT ![c] = "in"]
  /\ UNCHANGED <<shared, cmd, backlog, drawn, rough, errors>>

\* An error of that command leaves the client with what it showed before.
HydrateFails(c) ==
  /\ joined[c] = "subscribed" /\ Fails
  /\ joined' = [joined EXCEPT ![c] = "in"]
  /\ UNCHANGED <<shared, cmd, backlog, board, drawn, twice>>

\* Mutant: the client does not limit its board.
AppliedUnbounded(b, e) ==
  CASE e.kind = "stroke" -> [b EXCEPT ![e.stroke] = @ + 1]
    [] e.kind = "removed" -> [b EXCEPT ![e.stroke] = 0]
    [] e.kind = "clear" -> Blank

\* append_stroke adds a stroke where there is room, be it on the board already;
\* remove_stroke removes it wherever it is.
Applied(b, e) ==
  CASE e.kind = "stroke" -> IF Size(b) < MaxStrokes THEN [b EXCEPT ![e.stroke] = @ + 1] ELSE b
    [] e.kind = "removed" -> [b EXCEPT ![e.stroke] = 0]
    [] e.kind = "clear" -> Blank

Receive(c) ==
  /\ joined[c] = "in" /\ backlog[c] # <<>>
  /\ LET e == Head(backlog[c])
     IN /\ board' = [board EXCEPT ![c] = Applied(@, e)]
        /\ rough' = (rough \/ (e.kind = "stroke" /\ Size(board[c]) = MaxStrokes))
  /\ backlog' = [backlog EXCEPT ![c] = Tail(@)]
  /\ UNCHANGED <<shared, cmd, joined, drawn, twice, errors>>

Leave(c) ==
  /\ joined[c] = "in" /\ cmd[c] = NoCommand
  /\ joined' = [joined EXCEPT ![c] = "out"]
  /\ backlog' = [backlog EXCEPT ![c] = <<>>]
  /\ UNCHANGED <<shared, cmd, board, history, errors>>

BoardNext ==
  \E w \in Connections :
    \/ \E s \in Strokes : AskToDraw(w, s) \/ AskToErase(w, s)
    \/ AskToUndo(w) \/ AskToClear(w) \/ SetDrawPermission(w)
    \/ AppendStroke(w) \/ FindStroke(w) \/ RemoveStroke(w) \/ PopStroke(w) \/ Wipe(w)
    \/ CommandFails(w) \/ Publish(w)
    \/ Subscribe(w) \/ Hydrate(w) \/ HydrateFails(w) \/ Receive(w) \/ Leave(w)

BoardSpec == BoardInit /\ [][BoardNext]_boardVars

------------------------------------------------------------------------------
(* Properties.                                                             *)

\* The variables have the types of the keys, messages and client state they
\* model, and neither the list nor a client's board grows beyond its limit.
BoardTypeOK ==
  /\ list \in Seq(Strokes) /\ Len(list) <= MaxStrokes
  /\ drawOpen \in BOOLEAN
  /\ cmd \in [Connections -> BoardCommand]
  /\ joined \in [Connections -> {"out", "subscribed", "in"}]
  /\ backlog \in [Connections -> Seq(Event)]
  /\ \A c \in Connections : Len(backlog[c]) <= MaxBacklog
  /\ board \in [Connections -> [Strokes -> Nat]]
  /\ \A c \in Connections : Size(board[c]) <= MaxStrokes
  /\ drawn \subseteq Strokes
  /\ twice \in [Connections -> SUBSET Strokes]
  /\ rough \in BOOLEAN
  /\ errors \in 0..MaxErrors

\* Clients end up with the board a late joiner would be given: as long as nothing
\* failed, commands did not overlap and the limit was not met, a client that has
\* received all its events shows the strokes of the list.
BoardsAgree ==
  ~rough /\ Busy = {} =>
    \A c \in Connections :
      joined[c] = "in" /\ backlog[c] = <<>> =>
        {s \in Strokes : board[c][s] > 0} = Elements(list)

\* A stroke appears once on a board, unless the client took it over from a
\* snapshot before its own event arrived.
StrokeAppearsOnce ==
  \A c \in Connections : \A s \in Strokes : board[c][s] > 1 => s \in twice[c]

==============================================================================
