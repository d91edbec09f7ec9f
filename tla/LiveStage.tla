------------------------------ MODULE LiveStage ------------------------------
(***************************************************************************)
(* Raised hands and promoted students of one live room: the hand queue, a  *)
(* Redis list, here the set of its entries, numbered in the order in which *)
(* they were put at its end; the one-time publish credential of each       *)
(* student, a key of the column student_publish_nonces; the commands by    *)
(* which students raise and lower their hands and the staff accept and     *)
(* demote them; the media server's callback that spends a credential; and  *)
(* the clients, which show the hands and publish a promoted student's      *)
(* microphone.                                                             *)
(*                                                                         *)
(* A socket works off one command at a time, one statement, Redis command  *)
(* or event per action. Publications reach all clients in one order and    *)
(* are taken to be handled at once, except for what a client does in a     *)
(* task of its own: publishing. The rate limit, the names and the viewers  *)
(* that others open on a student's audio are left out. No name is one of   *)
(* LiveRoom's, so that a module can extend both.                           *)
(***************************************************************************)
EXTENDS Integers, FiniteSets

CONSTANTS
  Tabs,        \* connections of students
  Students,
  StudentOf,   \* the student of each of them; one may have several
  Teachers,    \* connections of teachers and admins
  Tokens,      \* publish credentials, which are random and never come again
  NoToken, NoStudent,
  MaxRaises,   \* bound on entries ever put into the queue
  MaxFailures \* bound on failures

ASSUME StageAssumption ==
  /\ StudentOf \in [Tabs -> Students]
  /\ Tabs \cap Teachers = {} /\ IsFiniteSet(Tabs \cup Teachers)
  /\ NoToken \notin Tokens /\ NoStudent \notin Students
  /\ MaxRaises \in Nat /\ MaxFailures \in Nat

VARIABLES
  queue,   \* the entries of the hand_queue key
  raises,  \* how many entries were put there
  nonce,   \* live_sessions.student_publish_nonces
  cmd,     \* the command of each connection
  hands,   \* the students whose hand the clients show as raised
  owner,   \* whom each credential was made for
  pub,     \* how far each tab is in publishing with each credential
  revoked, \* history: credentials replaced, cleared or expired before their use
  used,    \* history: how often each credential was accepted
  demoted, \* history: whether each student's credential was cleared by a demotion,
           \* and the room told while no tab of the student was about to publish,
           \* without a new credential in between or since
  mixed,   \* history: students whom two commands were about at once
  failures \* how often something failed so far

stageVars == <<queue, raises, nonce, cmd, hands, owner, pub, revoked, used, demoted,
               mixed, failures>>
queued == <<queue, raises>>
stage == <<nonce, owner, pub, revoked, used, demoted>>

Sockets == Tabs \cup Teachers
Idle == [at |-> "idle", user |-> NoStudent, token |-> NoToken, entries |-> {}]
CommandSteps == {"idle", "push", "up", "pull", "down", "lower", "take down", "promote",
                 "tell"}
Entry == [user : Students, id : 1..MaxRaises]
Command == [at : CommandSteps, user : Students \cup {NoStudent},
            token : Tokens \cup {NoToken}, entries : SUBSET Entry]
Stages == {"none", "trying", "asked", "admitted", "held"}
InFlight == {"trying", "asked", "admitted"}
OnAir == {"admitted", "held"}

EntriesOf(u) == {e \in queue : e.user = u}
TabsOf(u) == {c \in Tabs : StudentOf[c] = u}
Failure == failures < MaxFailures /\ failures' = failures + 1

StageInit ==
  /\ queue = {} /\ raises = 0
  /\ nonce = [u \in Students |-> NoToken]
  /\ cmd = [s \in Sockets |-> Idle]
  /\ hands = {}
  /\ owner = [k \in Tokens |-> NoStudent]
  /\ pub = [c \in Tabs |-> [k \in Tokens |-> "none"]]
  /\ revoked = {} /\ used = [k \in Tokens |-> 0]
  /\ demoted = [u \in Students |-> "no"] /\ mixed = {} /\ failures = 0

Proceed(s, at) == cmd' = [cmd EXCEPT ![s].at = at]
Done(s) == cmd' = [cmd EXCEPT ![s] = Idle]

\* A command about a student starts.
Begin(s, u, command) ==
  /\ cmd[s] = Idle
  /\ cmd' = [cmd EXCEPT ![s] = command]
  /\ mixed' = IF \E d \in Sockets : cmd[d].user = u THEN mixed \cup {u} ELSE mixed

------------------------------------------------------------------------------
(* HandRaise.                                                              *)

\* The bound on entries is met where one is asked for.
MayRaise == raises + Cardinality({s \in Sockets : cmd[s].at = "push"}) < MaxRaises

\* Mutant: an entry is added whether there is one or not.
RaiseAgain(c) ==
  /\ MayRaise
  /\ Begin(c, StudentOf[c], [at |-> "push", user |-> StudentOf[c], token |-> NoToken,
                          entries |-> {}])
  /\ UNCHANGED <<queued, hands, stage, failures>>

\* hand_raise reads the queue,
Raise(c) ==
  /\ EntriesOf(StudentOf[c]) # {} \/ MayRaise
  /\ Begin(c, StudentOf[c], [at |-> IF EntriesOf(StudentOf[c]) = {} THEN "push" ELSE "up",
                          user |-> StudentOf[c], token |-> NoToken, entries |-> {}])
  /\ UNCHANGED <<queued, hands, stage, failures>>

\* which may fail,
RaiseFails(c) ==
  /\ Failure
  /\ Begin(c, StudentOf[c], [at |-> "down", user |-> StudentOf[c], token |-> NoToken,
                          entries |-> {}])
  /\ UNCHANGED <<queued, hands, stage>>

\* and puts the student at its end, if not there already.
Push(c) ==
  /\ cmd[c].at = "push"
  /\ raises' = raises + 1
  /\ queue' = queue \cup {[user |-> cmd[c].user, id |-> raises']}
  /\ Proceed(c, "up")
  /\ UNCHANGED <<hands, stage, mixed, failures>>

\* After an error, of an RPUSH that may have been carried out, the room is told of
\* a raised hand without a position, which the clients take for a lowered one.
PushFails(c) ==
  /\ cmd[c].at = "push" /\ Failure
  /\ \/ UNCHANGED queued
     \/ /\ raises' = raises + 1
        /\ queue' = queue \cup {[user |-> cmd[c].user, id |-> raises']}
  /\ Proceed(c, "down")
  /\ UNCHANGED <<hands, stage, mixed>>

\* hand_lower, of a student or of AcceptHand, reads the queue,
Lower(c) ==
  /\ Begin(c, StudentOf[c], [at |-> "pull", user |-> StudentOf[c], token |-> NoToken,
                          entries |-> EntriesOf(StudentOf[c])])
  /\ UNCHANGED <<queued, hands, stage, failures>>

LowerAccepted(s) ==
  /\ cmd[s].at = "lower"
  /\ cmd' = [cmd EXCEPT ![s].at = "take down", ![s].entries = EntriesOf(cmd[s].user)]
  /\ UNCHANGED <<queued, hands, stage, mixed, failures>>

\* and removes the entries it read one by one, each wherever it is by now. Errors
\* are ignored.
After(at) == IF at = "pull" THEN "down" ELSE "promote"

Pull(s) ==
  /\ cmd[s].at \in {"pull", "take down"}
  /\ IF cmd[s].entries = {} THEN Proceed(s, After(cmd[s].at)) /\ UNCHANGED queue
     ELSE \E e \in cmd[s].entries :
            /\ queue' = queue \ {e}
            /\ cmd' = [cmd EXCEPT ![s].entries = @ \ {e}]
  /\ UNCHANGED <<raises, hands, stage, mixed, failures>>

PullFails(s) ==
  /\ cmd[s].at \in {"lower", "pull", "take down"} /\ Failure
  /\ cmd' = [cmd EXCEPT ![s].entries = {},
                        ![s].at = After(@)]
  /\ UNCHANGED <<queued, hands, stage, mixed>>

\* HandRaiseChanged.
TellUp(c) ==
  /\ cmd[c].at = "up"
  /\ hands' = hands \cup {cmd[c].user}
  /\ Done(c)
  /\ UNCHANGED <<queued, stage, mixed, failures>>

TellDown(s) ==
  /\ cmd[s].at = "down"
  /\ hands' = hands \ {cmd[s].user}
  /\ Done(s)
  /\ UNCHANGED <<queued, stage, mixed, failures>>

------------------------------------------------------------------------------
(* AcceptHand and DemoteHand.                                              *)

\* The credential a student has is gone without having been used.
Revoke(u) == revoked' = revoked \cup ({nonce[u]} \ {NoToken})

\* The staff accept a hand that their client shows. A new credential is committed,
\* in the place of the student's last.
Accept(s, u, k) ==
  /\ u \in hands /\ owner[k] = NoStudent
  /\ Begin(s, u, [at |-> "lower", user |-> u, token |-> k, entries |-> {}])
  /\ owner' = [owner EXCEPT ![k] = u]
  /\ nonce' = [nonce EXCEPT ![u] = k]
  /\ Revoke(u)
  /\ demoted' = [demoted EXCEPT ![u] = "no"]
  /\ UNCHANGED <<queued, hands, pub, used, failures>>

\* Mutant: the credential is left out of the event.
PromoteEmpty(s) ==
  /\ cmd[s].at = "promote"
  /\ cmd' = [cmd EXCEPT ![s] = [at |-> "down", user |-> NoToken, token |-> NoToken,
                                entries |-> {}]]
  /\ UNCHANGED <<queued, stage, hands, mixed, failures>>

\* Promoted reaches each tab of the student, which starts to publish.
Promote(s) ==
  /\ cmd[s].at = "promote"
  /\ pub' = [c \in Tabs |-> IF c \in TabsOf(cmd[s].user)
                            THEN [pub[c] EXCEPT ![cmd[s].token] = "trying"] ELSE pub[c]]
  /\ Proceed(s, "down")
  /\ UNCHANGED <<queued, nonce, hands, owner, revoked, used, demoted, mixed, failures>>

\* Mutant: the room is told although the credential is still there.
DemoteTellsFirst(s, u) ==
  /\ Begin(s, u, [at |-> "tell", user |-> u, token |-> NoToken, entries |-> {}])
  /\ demoted' = [demoted EXCEPT ![u] = "cleared"]
  /\ UNCHANGED <<queued, nonce, hands, owner, pub, revoked, used, failures>>

\* The credential is cleared before the room is told.
Demote(s, u) ==
  /\ Begin(s, u, [at |-> "tell", user |-> u, token |-> NoToken, entries |-> {}])
  /\ nonce' = [nonce EXCEPT ![u] = NoToken]
  /\ Revoke(u)
  /\ demoted' = [demoted EXCEPT ![u] = "cleared"]
  /\ UNCHANGED <<queued, hands, owner, pub, used, failures>>

\* Demoted makes every client close what it publishes, whoever is demoted.
Publishing(u) ==
  \E c \in TabsOf(u), k \in Tokens : pub[c][k] \in InFlight

TellDemoted(s) ==
  /\ cmd[s].at = "tell"
  /\ pub' = [c \in Tabs |-> [k \in Tokens |->
              IF pub[c][k] = "held" THEN "none" ELSE pub[c][k]]]
  /\ demoted' = [demoted EXCEPT ![cmd[s].user] =
                  IF @ = "cleared" /\ ~Publishing(cmd[s].user) THEN "told" ELSE "no"]
  /\ Done(s)
  /\ UNCHANGED <<queued, nonce, hands, owner, revoked, used, mixed, failures>>

\* An error, or the death of the replica, ends a command; of the event that
\* AcceptHand sends first, it is ignored.
TellFails(s) ==
  /\ cmd[s].at \in {"up", "down", "tell", "promote"} /\ Failure
  /\ IF cmd[s].at = "promote" THEN Proceed(s, "down") ELSE Done(s)
  /\ UNCHANGED <<queued, hands, stage, mixed>>

------------------------------------------------------------------------------
(* Publishing.                                                             *)

\* The media server asks about the credential a tab presents:
\* consume_student_publish_nonce reads what is stored,
Ask(c, k) ==
  /\ pub[c][k] = "trying"
  /\ pub' = [pub EXCEPT ![c][k] = IF nonce[StudentOf[c]] = k THEN "asked" ELSE "none"]
  /\ UNCHANGED <<queued, nonce, cmd, hands, owner, revoked, used, demoted, mixed,
                 failures>>

\* Mutant: it does not look again.
TakeUnchecked(c, k) ==
  /\ pub[c][k] = "asked"
  /\ nonce' = [nonce EXCEPT ![StudentOf[c]] = NoToken]
  /\ used' = [used EXCEPT ![k] = @ + 1]
  /\ pub' = [pub EXCEPT ![c][k] = "admitted"]
  /\ UNCHANGED <<queued, cmd, hands, owner, revoked, demoted, mixed, failures>>

\* and takes it out, if it is still that one. The media server is then told to let
\* the publisher in.
Take(c, k) ==
  /\ pub[c][k] = "asked"
  /\ IF nonce[StudentOf[c]] = k
     THEN /\ nonce' = [nonce EXCEPT ![StudentOf[c]] = NoToken]
          /\ used' = [used EXCEPT ![k] = @ + 1]
          /\ pub' = [pub EXCEPT ![c][k] = "admitted"]
     ELSE pub' = [pub EXCEPT ![c][k] = "none"] /\ UNCHANGED <<nonce, used>>
  /\ UNCHANGED <<queued, cmd, hands, owner, revoked, demoted, mixed, failures>>

\* The client's task is done: it stores the publisher, and drops one it had.
Store(c, k) ==
  /\ pub[c][k] = "admitted"
  /\ pub' = [pub EXCEPT ![c] = [j \in Tokens |->
              IF j = k THEN "held" ELSE IF pub[c][j] = "held" THEN "none" ELSE pub[c][j]]]
  /\ UNCHANGED <<queued, nonce, cmd, hands, owner, revoked, used, demoted, mixed,
                 failures>>

\* The tab closes, or its microphone or network is of no use.
GiveUp(c, k) ==
  /\ pub[c][k] \in {"trying", "admitted", "held"}
  /\ pub' = [pub EXCEPT ![c][k] = "none"]
  /\ UNCHANGED <<queued, nonce, cmd, hands, owner, revoked, used, demoted, mixed,
                 failures>>

\* A credential is good for four hours.
Expire(u) ==
  /\ nonce[u] # NoToken /\ Failure
  /\ nonce' = [nonce EXCEPT ![u] = NoToken]
  /\ Revoke(u)
  /\ UNCHANGED <<queued, cmd, hands, owner, pub, used, demoted, mixed>>

StageNext ==
  \/ \E c \in Tabs :
       Raise(c) \/ RaiseFails(c) \/ Push(c) \/ PushFails(c) \/ Lower(c) \/ TellUp(c)
  \/ \E s \in Sockets : Pull(s) \/ PullFails(s) \/ TellDown(s) \/ TellFails(s)
  \/ \E s \in Teachers :
       \/ LowerAccepted(s) \/ Promote(s) \/ TellDemoted(s)
       \/ \E u \in Students : Demote(s, u) \/ \E k \in Tokens : Accept(s, u, k)
  \/ \E c \in Tabs, k \in Tokens :
       Ask(c, k) \/ Take(c, k) \/ Store(c, k) \/ GiveUp(c, k)
  \/ \E u \in Students : Expire(u)

StageSpec == StageInit /\ [][StageNext]_stageVars

------------------------------------------------------------------------------
(* Properties.                                                             *)

\* The variables have the types of the keys, columns and client state they model.
StageTypeOK ==
  /\ queue \subseteq Entry /\ raises \in 0..MaxRaises
  /\ nonce \in [Students -> Tokens \cup {NoToken}]
  /\ cmd \in [Sockets -> Command]
  /\ hands \subseteq Students
  /\ owner \in [Tokens -> Students \cup {NoStudent}]
  /\ pub \in [Tabs -> [Tokens -> Stages]]
  /\ revoked \subseteq Tokens
  /\ used \in [Tokens -> Nat]
  /\ demoted \in [Students -> {"no", "cleared", "told"}] /\ mixed \subseteq Students
  /\ failures \in 0..MaxFailures

\* A credential lets one publisher in at most, although two tabs of a student
\* present it and the media server asks about both at once; and none once it was
\* replaced, cleared or had expired.
AdmitsOnce ==
  \A k \in Tokens : used[k] <= 1 /\ (k \in revoked => used[k] = 0)

\* A student is in the queue once at most, and, provided that nothing failed, is
\* there if the clients show the hand as raised; unless two commands about the
\* student ever overlapped: two tabs that raise a hand at once both find it missing.
ShownIsQueuedOnce ==
  \A u \in Students \ mixed :
    /\ Cardinality(EntriesOf(u)) <= 1
    /\ failures = 0 /\ (\A s \in Sockets : cmd[s].user # u) =>
         (u \in hands <=> EntriesOf(u) # {})

\* A student who was demoted is not heard until promoted again, however commands
\* overlap, but for tabs that were about to publish when the room was told.
DemotedIsQuiet ==
  \A u \in Students :
    demoted[u] = "told" => \A c \in TabsOf(u), k \in Tokens : pub[c][k] \notin OnAir

==============================================================================
