------------------------------- MODULE Members -------------------------------
(***************************************************************************)
(* Who belongs to an organisation: its memberships and seats, the          *)
(* invitations of members and parents that reserve seats, and its owner.   *)
(*                                                                         *)
(* Whatever takes a seat or moves ownership does so in one transaction     *)
(* that holds the row of the organisation, and is one action here. Two     *)
(* kinds of transactions do not: the revocation of an invitation, which    *)
(* locks the invitation only, and the sign-in of a person, which locks the *)
(* organisations that invited the person when it begins, reads the         *)
(* invitations in a later statement and accepts them by id in further      *)
(* ones. Its writes are seen by others at its commit, so that accepting    *)
(* and committing is one action.                                           *)
(***************************************************************************)
EXTENDS Integers, FiniteSets

CONSTANTS
  Users,        \* identities: users rows
  Enterprise,   \* those asserted by the organisation's SSO or LTI provider
  Emails, EmailOf,
  Invites,      \* ids of tenant_invitations rows, present or yet to be made
  FirstInvite,  \* the one to the first owner
  FirstEmail,
  NoInvite, Nobody,
  Caps          \* plans.included_seats of the plans the organisation may have

ASSUME MembersAssumption ==
  /\ EmailOf \in [Users -> Emails] /\ Enterprise \subseteq Users
  /\ FirstInvite \in Invites /\ FirstEmail \in Emails
  /\ NoInvite \notin Invites /\ Nobody \notin Users
  /\ Caps \subseteq Nat /\ Caps # {}
  /\ IsFiniteSet(Users) /\ IsFiniteSet(Emails) /\ IsFiniteSet(Invites)

VARIABLES
  member,   \* tenant_memberships
  invite,   \* tenant_invitations
  parents,  \* emails of the pending parent_invitations
  cap,      \* included_seats of the current plan
  lock,     \* the sign-in that holds the row of the organisation
  signin,   \* the sign-ins of global identities
  erased    \* users.deleted_at

vars == <<member, invite, parents, cap, lock, signin, erased>>

Global == Users \ Enterprise
Privileged == {"owner", "admin"}
Roles == Privileged \cup {"member"}
Membership == [status : {"none", "active", "suspended"}, role : Roles]
Invitation == [email : Emails, role : Roles,
               status : {"none", "pending", "accepted", "revoked"}]
SignIn == [pc : {"idle", "list", "accept"}, invite : Invites \cup {NoInvite}]

Outside == [status |-> "none", role |-> "member"]
Idle == [pc |-> "idle", invite |-> NoInvite]
Belongs(role) == [status |-> "active", role |-> role]

Pending == {i \in Invites : invite[i].status = "pending"}
PendingFor(e) == {i \in Pending : invite[i].email = e}
Unlocked == lock = Nobody

------------------------------------------------------------------------------
(* Seats: members that are active, and emails with a reservation.          *)

Reserved(open, by) == {invite[i].email : i \in open} \cup by
Used(of, open, by) ==
  Cardinality({u \in Users : of[u].status = "active"}) + Cardinality(Reserved(open, by))

\* Mutant: the last seat is counted as free.
SeatLeftOrOneOver(open) == Used(member, open, parents) <= cap

SeatLeft(open) == Used(member, open, parents) < cap

\* The trigger that checks, at the end of every transaction, that there is one
\* active owner, or none and a pending invitation to become it.
OwnerRows(of) == {u \in Users : of[u].status # "none" /\ of[u].role = "owner"}
OwnerInvited(in) == {i \in Invites : in[i].status = "pending" /\ in[i].role = "owner"}
OneOwnerIn(of, in) ==
  \/ /\ Cardinality(OwnerRows(of)) = 1 /\ OwnerInvited(in) = {}
     /\ \A u \in OwnerRows(of) : of[u].status = "active"
  \/ OwnerRows(of) = {} /\ Cardinality(OwnerInvited(in)) = 1

\* Appointing, changing or dismissing administrators takes an active owner.
OwnerActs == \E u \in Users : member[u] = Belongs("owner")

Init ==
  /\ member = [u \in Users |-> Outside]
  /\ invite = [i \in Invites |->
                 [email |-> FirstEmail, role |-> "owner",
                  status |-> IF i = FirstInvite THEN "pending" ELSE "none"]]
  /\ parents = {}
  /\ cap \in Caps
  /\ lock = Nobody
  /\ signin = [u \in Global |-> Idle]
  /\ erased = {}

------------------------------------------------------------------------------
(* Invitations.                                                            *)

\* POST /v1/members/invitations. A second one to the same email returns the
\* first and changes nothing.
Invite(e, i, role) ==
  /\ Unlocked
  /\ invite[i].status = "none" /\ PendingFor(e) = {}
  /\ SeatLeft(Pending)
  /\ role \in {"admin", "member"} /\ (role = "admin" => OwnerActs)
  /\ invite' = [invite EXCEPT ![i] = [email |-> e, role |-> role, status |-> "pending"]]
  /\ UNCHANGED <<member, parents, cap, lock, signin, erased>>

Revoke(i) ==
  /\ i \in Pending /\ invite[i].role # "owner"
  /\ invite[i].role = "admin" => OwnerActs
  /\ invite' = [invite EXCEPT ![i].status = "revoked"]
  /\ UNCHANGED <<member, parents, cap, lock, signin, erased>>

\* A parent whose email has a reservation of either kind takes no further seat.
InviteParent(e) ==
  /\ Unlocked
  /\ e \notin parents
  /\ PendingFor(e) # {} \/ SeatLeft(Pending)
  /\ parents' = parents \cup {e}
  /\ UNCHANGED <<member, invite, cap, lock, signin, erased>>

RevokeParent(e) ==
  /\ e \in parents
  /\ parents' = parents \ {e}
  /\ UNCHANGED <<member, invite, cap, lock, signin, erased>>

------------------------------------------------------------------------------
(* The sign-in of a global identity (ensure_user_with_self_service).       *)

\* The organisation is locked if it has invited the email by now.
Begin(u) ==
  /\ signin[u].pc = "idle" /\ u \notin erased
  /\ IF PendingFor(EmailOf[u]) = {} THEN UNCHANGED lock ELSE Unlocked /\ lock' = u
  /\ signin' = [signin EXCEPT ![u].pc = "list"]
  /\ UNCHANGED <<member, invite, parents, cap, erased>>

\* Mutant: the loop takes the invitations of the email whatever became of them.
ListAny(u) ==
  /\ signin[u].pc = "list"
  /\ \E i \in Invites :
       /\ invite[i].email = EmailOf[u] /\ invite[i].status # "none"
       /\ signin' = [signin EXCEPT ![u] = [pc |-> "accept", invite |-> i]]
  /\ UNCHANGED <<member, invite, parents, cap, lock, erased>>

\* The loop opens its cursor: at most one invitation is pending for an email.
List(u) ==
  /\ signin[u].pc = "list"
  /\ \E i \in Invites \cup {NoInvite} :
       /\ IF PendingFor(EmailOf[u]) = {} THEN i = NoInvite ELSE i \in PendingFor(EmailOf[u])
       /\ signin' = [signin EXCEPT ![u] = [pc |-> "accept", invite |-> i]]
  /\ UNCHANGED <<member, invite, parents, cap, lock, erased>>

\* An invitation is no editor of roles: it neither readmits who was suspended
\* nor demotes an owner or administrator.
Declines(m, role) ==
  \/ m.status = "suspended"
  \/ m.status = "active" /\ m.role = "owner" /\ role # "owner"
  \/ m.status = "active" /\ m.role = "admin" /\ role = "member"

\* Mutant: a suspended membership is activated by a parent invitation.
ParentDeclinesByRole(m) == m.role \in Privileged

ParentDeclines(m) == m.status = "suspended" \/ m.role \in Privileged

\* The loop over the invitation that was listed, which is updated by its id
\* alone.
AcceptInvite(u, i) ==
  IF i = NoInvite THEN <<member, invite>>
  ELSE IF Declines(member[u], invite[i].role)
  THEN <<member, [invite EXCEPT ![i].status = "revoked"]>>
  ELSE <<[member EXCEPT ![u] = Belongs(invite[i].role)],
         [invite EXCEPT ![i].status = "accepted"]>>

\* The invitations of parents are accepted or declined together; each reserved
\* a seat.
AcceptParent(u, of) ==
  IF EmailOf[u] \notin parents \/ ParentDeclines(of[u]) \/ of[u].status = "active"
  THEN of ELSE [of EXCEPT ![u] = Belongs("member")]

Finish(u) ==
  /\ signin' = [signin EXCEPT ![u] = Idle]
  /\ lock' = IF lock = u THEN Nobody ELSE lock

\* Each kind of invitations is accepted behind a savepoint, and left pending if
\* that fails. The organisation is locked again for the parents'.
Accept(u) ==
  /\ signin[u].pc = "accept"
  /\ \E invitesDone, parentsDone \in BOOLEAN :
       LET taken == IF invitesDone THEN AcceptInvite(u, signin[u].invite)
                    ELSE <<member, invite>>
       IN  /\ EmailOf[u] \in parents /\ parentsDone => lock \in {u, Nobody}
           /\ member' = IF parentsDone THEN AcceptParent(u, taken[1]) ELSE taken[1]
           /\ invite' = taken[2]
           /\ parents' = IF parentsDone THEN parents \ {EmailOf[u]} ELSE parents
  /\ OneOwnerIn(member', invite')
  /\ Finish(u)
  /\ UNCHANGED <<cap, erased>>

\* The sign-in fails as a whole: a crash, a self-service sign-up whose
\* invitations could not be accepted, or the trigger.
SignInFails(u) ==
  /\ signin[u].pc # "idle"
  /\ Finish(u)
  /\ UNCHANGED <<member, invite, parents, cap, erased>>

------------------------------------------------------------------------------
(* Other ways in.                                                          *)

\* ensure_active_tenant_membership: a course code, the catalog or a course
\* invitation, and an SSO or LTI sign-in without an invitation.
Join(u) ==
  /\ Unlocked /\ u \notin erased
  /\ u \in Enterprise => PendingFor(EmailOf[u]) = {}
  /\ member[u].status = "none"
  /\ SeatLeft(Pending)
  /\ member' = [member EXCEPT ![u] = Belongs("member")]
  /\ UNCHANGED <<invite, parents, cap, lock, signin, erased>>

\* An SSO or LTI sign-in with an invitation: one to own or administer is
\* accepted without counting seats, any other gives its reservation up first.
EnterpriseSignIn(u, i) ==
  LET role == invite[i].role IN
  /\ Unlocked /\ u \notin erased
  /\ i \in PendingFor(EmailOf[u])
  /\ \/ /\ \/ member[u].status = "suspended"
           \/ role = "admin" /\ member[u] = Belongs("owner")
        /\ invite' = [invite EXCEPT ![i].status = "revoked"]
        /\ UNCHANGED member
     \/ /\ role \in Privileged /\ ~Declines(member[u], role)
        /\ member' = [member EXCEPT ![u] = Belongs(role)]
        /\ invite' = [invite EXCEPT ![i].status = "accepted"]
     \/ /\ role = "member" /\ member[u].status # "suspended"
        /\ invite' = [invite EXCEPT ![i].status = "accepted"]
        /\ IF member[u].status = "active" THEN UNCHANGED member
           ELSE SeatLeft(Pending \ {i}) /\ member' = [member EXCEPT ![u] = Belongs(role)]
  /\ OneOwnerIn(member', invite')
  /\ UNCHANGED <<parents, cap, lock, signin, erased>>

------------------------------------------------------------------------------
(* Administration.                                                         *)

\* PATCH /v1/admin/memberships/{user}.
PatchMembership(u, role, status) ==
  /\ Unlocked
  /\ member[u].status # "none" /\ member[u].role # "owner"
  /\ role \in {"admin", "member"} /\ status \in {"active", "suspended"}
  /\ "admin" \in {role, member[u].role} => OwnerActs
  /\ member[u].status = "suspended" /\ status = "active" => SeatLeft(Pending)
  /\ member' = [member EXCEPT ![u] = [status |-> status, role |-> role]]
  /\ UNCHANGED <<invite, parents, cap, lock, signin, erased>>

\* Mutant: an owner may be erased.
EraseAnyone(u) ==
  /\ Unlocked
  /\ u \notin erased
  /\ u \in Global => signin[u].pc = "idle"
  /\ erased' = erased \cup {u}
  /\ member' = IF member[u].status # "active" THEN member
               ELSE [member EXCEPT ![u].status = "suspended"]
  /\ UNCHANGED <<invite, parents, cap, lock, signin>>

\* Account erasure, refused to an active owner. A sign-in locks its user until
\* it ends.
Erase(u) ==
  /\ Unlocked
  /\ u \notin erased /\ member[u] # Belongs("owner")
  /\ u \in Global => signin[u].pc = "idle"
  /\ erased' = erased \cup {u}
  /\ member' = IF member[u].status # "active" THEN member
               ELSE [member EXCEPT ![u].status = "suspended"]
  /\ UNCHANGED <<invite, parents, cap, lock, signin>>

\* The owner hands over to an administrator.
Transfer(o, a) ==
  /\ Unlocked
  /\ member[o] = Belongs("owner") /\ member[a] = Belongs("admin") /\ a \notin erased
  /\ member' = [member EXCEPT ![o] = Belongs("admin"), ![a] = Belongs("owner")]
  /\ UNCHANGED <<invite, parents, cap, lock, signin, erased>>

\* The platform makes an administrator the owner.
Recover(a) ==
  /\ Unlocked
  /\ member[a] = Belongs("admin") /\ a \notin erased
  /\ member' = [u \in Users |->
                  IF u = a THEN Belongs("owner")
                  ELSE IF u \in OwnerRows(member) THEN [member[u] EXCEPT !.role = "admin"]
                  ELSE member[u]]
  /\ invite' = [i \in Invites |-> IF i \in OwnerInvited(invite)
                                  THEN [invite[i] EXCEPT !.status = "revoked"]
                                  ELSE invite[i]]
  /\ UNCHANGED <<parents, cap, lock, signin, erased>>

\* The platform corrects the email of the first owner, counting no seats.
ReplaceOwnerInvite(e) ==
  /\ Unlocked
  /\ OwnerRows(member) = {}
  /\ \E i \in OwnerInvited(invite) :
       /\ PendingFor(e) \subseteq {i}
       /\ invite' = [invite EXCEPT ![i].email = e]
  /\ UNCHANGED <<member, parents, cap, lock, signin, erased>>

\* Stripe reports another plan.
ChangePlan(c) ==
  /\ cap' = c
  /\ UNCHANGED <<member, invite, parents, lock, signin, erased>>

Next ==
  \/ \E e \in Emails, i \in Invites, role \in Roles : Invite(e, i, role)
  \/ \E i \in Invites : Revoke(i)
  \/ \E e \in Emails : InviteParent(e) \/ RevokeParent(e) \/ ReplaceOwnerInvite(e)
  \/ \E u \in Global : Begin(u) \/ List(u) \/ Accept(u) \/ SignInFails(u)
  \/ \E u \in Users : Join(u) \/ Erase(u) \/ Recover(u)
  \/ \E u \in Enterprise, i \in Invites : EnterpriseSignIn(u, i)
  \/ \E u \in Users, role \in Roles, status \in {"active", "suspended"} :
       PatchMembership(u, role, status)
  \/ \E o, a \in Users : Transfer(o, a)
  \/ \E c \in Caps : ChangePlan(c)

Spec == Init /\ [][Next]_vars

------------------------------------------------------------------------------
TypeOK ==
  /\ member \in [Users -> Membership]
  /\ invite \in [Invites -> Invitation]
  /\ parents \subseteq Emails
  /\ cap \in Caps
  /\ lock \in Global \cup {Nobody}
  /\ signin \in [Global -> SignIn]
  /\ erased \subseteq Users

\* The organisation always has one owner, who is active, or exactly one
\* invitation for its first owner, whichever way people join, are suspended,
\* promoted, erased or recovered.
OneOwner ==
  /\ \A u, v \in OwnerRows(member) : u = v /\ member[u].status = "active"
  /\ OwnerRows(member) = {} <=> OwnerInvited(invite) # {}
  /\ \A i, j \in OwnerInvited(invite) : i = j

Stale(i) == \E u \in Global : signin[u].invite = i /\ i \notin Pending
Doubled(e) == e \in parents /\ PendingFor(e) # {}

\* Nobody takes a seat that the plan does not have, whoever else invites, joins
\* or is reactivated meanwhile; except by accepting an invitation that was
\* revoked or taken after the sign-in had listed it, and where an email had two
\* reservations that are used or moved separately.
SeatsAreNotOversold ==
  [][LET before == Used(member, Pending, parents)
         after == Used(member, Pending, parents)'
     IN  after > before =>
           \/ after <= cap
           \/ \E i \in Invites : Stale(i)
           \/ \E e \in Emails : Doubled(e) /\ ~Doubled(e)']_vars

\* An invitation that was revoked, and that no sign-in under way had listed
\* before, is never taken up again.
Dead(i) == invite[i].status = "revoked" /\ \A u \in Global : signin[u].invite # i
RevokedStaysRevoked == [][\A i \in Invites : Dead(i) => Dead(i)']_vars

\* Who was suspended comes back only when an administrator says so, in an
\* organisation with a seat left: no invitation, code or sign-in does it, also
\* none that was under way.
SuspendedStaysOut ==
  [][\A u \in Users : member[u].status = "suspended" /\ member'[u].status = "active"
       => SeatLeft(Pending) /\ invite' = invite /\ signin' = signin]_vars

==============================================================================
