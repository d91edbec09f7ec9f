---------------------------- MODULE Members_proofs ----------------------------
(***************************************************************************)
(* The members of an organisation and the bill for their seats. Members,   *)
(* for any number of people, emails and invitations: there is one owner,   *)
(* who was suspended or revoked stays out, and no seat is taken that the   *)
(* plan does not have. StripeEvents, for any number of deliveries,         *)
(* subscriptions, events and faults: what was answered is processed, and   *)
(* the row of the organisation ends up as Stripe has it.                   *)
(***************************************************************************)
EXTENDS Members, StripeEvents, FiniteSetTheorems, SequenceTheorems, TLAPS

LEMMA Constants == Outside \in Membership /\ Idle \in SignIn /\ Idle.invite = NoInvite
BY MembersAssumption DEF Outside, Membership, Roles, Privileged, Idle, SignIn

LEMMA BelongsType == \A role \in Roles : Belongs(role) \in Membership
BY DEF Belongs, Membership

LEMMA FinishType ==
  ASSUME TypeOK, NEW u \in Global, Finish(u)
  PROVE  signin' \in [Global -> SignIn] /\ lock' \in Global \cup {Nobody}
BY Constants DEF TypeOK, Finish

LEMMA InviteType ==
  ASSUME TypeOK, NEW i \in Invites, NEW status \in {"accepted", "revoked"}
  PROVE  [invite EXCEPT ![i].status = status] \in [Invites -> Invitation]
<1>1. invite[i] \in Invitation
  BY DEF TypeOK
<1>2. [invite[i] EXCEPT !.status = status] \in Invitation
  BY <1>1 DEF Invitation
<1> QED  BY <1>2 DEF TypeOK

LEMMA JoinType ==
  ASSUME TypeOK, NEW u \in Users, NEW role \in Roles
  PROVE  [member EXCEPT ![u] = Belongs(role)] \in [Users -> Membership]
BY BelongsType DEF TypeOK

\* What a sign-in may make of the memberships and the invitations.
LEMMA AcceptType ==
  ASSUME TypeOK, NEW u \in Global, NEW i \in Invites \cup {NoInvite}
  PROVE  /\ AcceptInvite(u, i)[1] \in [Users -> Membership]
         /\ AcceptInvite(u, i)[2] \in [Invites -> Invitation]
<1>0. u \in Users /\ member \in [Users -> Membership] /\ invite \in [Invites -> Invitation]
  BY DEF Global, TypeOK
<1>1. CASE i = NoInvite
  BY <1>0, <1>1 DEF AcceptInvite
<1>2. CASE i # NoInvite /\ Declines(member[u], invite[i].role)
  <2> DEFINE n == [invite EXCEPT ![i].status = "revoked"]
  <2>1. AcceptInvite(u, i) = <<member, n>>
    BY <1>2 DEF AcceptInvite
  <2>2. n \in [Invites -> Invitation]
    BY <1>2, InviteType
  <2> HIDE DEF n
  <2> QED  BY <1>0, <2>1, <2>2
<1>3. CASE i # NoInvite /\ ~Declines(member[u], invite[i].role)
  <2> DEFINE m == [member EXCEPT ![u] = Belongs(invite[i].role)]
             n == [invite EXCEPT ![i].status = "accepted"]
  <2>1. AcceptInvite(u, i) = <<m, n>>
    BY <1>3 DEF AcceptInvite
  <2>2. invite[i].role \in Roles
    BY <1>0, <1>3 DEF Invitation
  <2>3. m \in [Users -> Membership]
    BY <1>0, <2>2, JoinType
  <2>4. n \in [Invites -> Invitation]
    BY <1>3, InviteType
  <2> HIDE DEF m, n
  <2> QED  BY <2>1, <2>3, <2>4
<1> QED  BY <1>1, <1>2, <1>3

LEMMA ParentType ==
  ASSUME NEW u \in Global, NEW of \in [Users -> Membership]
  PROVE  AcceptParent(u, of) \in [Users -> Membership]
<1>1. Belongs("member") \in Membership
  BY BelongsType DEF Roles
<1> QED  BY <1>1 DEF AcceptParent

LEMMA SignInType ==
  ASSUME TypeOK, NEW u \in Global, Begin(u) \/ List(u) \/ Accept(u) \/ SignInFails(u)
  PROVE  TypeOK'
<1>0. signin[u] \in SignIn
  BY DEF TypeOK
<1>1. CASE Begin(u)
  <2>1. [signin[u] EXCEPT !.pc = "list"] \in SignIn
    BY <1>0 DEF SignIn
  <2> QED  BY <1>1, <2>1 DEF Begin, TypeOK
<1>2. CASE List(u)
  <2>1. PICK i \in Invites \cup {NoInvite} :
          signin' = [signin EXCEPT ![u] = [pc |-> "accept", invite |-> i]]
    BY <1>2 DEF List
  <2>2. [pc |-> "accept", invite |-> i] \in SignIn
    BY DEF SignIn
  <2> QED  BY <1>2, <2>1, <2>2 DEF List, TypeOK
<1>3. CASE Accept(u)
  <2>1. PICK invitesDone, parentsDone \in BOOLEAN :
          LET taken == IF invitesDone THEN AcceptInvite(u, signin[u].invite)
                       ELSE <<member, invite>>
          IN  /\ member' = IF parentsDone THEN AcceptParent(u, taken[1]) ELSE taken[1]
              /\ invite' = taken[2]
              /\ parents' = IF parentsDone THEN parents \ {EmailOf[u]} ELSE parents
    BY <1>3 DEF Accept
  <2> DEFINE taken == IF invitesDone THEN AcceptInvite(u, signin[u].invite)
                      ELSE <<member, invite>>
  <2>2. signin[u].invite \in Invites \cup {NoInvite}
    BY <1>0 DEF SignIn
  <2>3. taken[1] \in [Users -> Membership] /\ taken[2] \in [Invites -> Invitation]
    BY <2>2, AcceptType DEF TypeOK
  <2>4. parents' \subseteq Emails
    BY <2>1 DEF TypeOK
  <2>5. Finish(u) /\ UNCHANGED <<cap, erased>>
    BY <1>3 DEF Accept
  <2> HIDE DEF taken
  <2>6. member' \in [Users -> Membership] /\ invite' \in [Invites -> Invitation]
    BY <2>1, <2>3, ParentType DEF taken
  <2> QED  BY <2>4, <2>5, <2>6, FinishType DEF TypeOK
<1>4. CASE SignInFails(u)
  BY <1>4, FinishType DEF SignInFails, TypeOK
<1> QED  BY <1>1, <1>2, <1>3, <1>4

LEMMA AdministrationType ==
  ASSUME TypeOK, NEW u \in Users
  PROVE  /\ Join(u) \/ Erase(u) \/ Recover(u) => TypeOK'
         /\ \A role \in Roles, status \in {"active", "suspended"} :
              PatchMembership(u, role, status) => TypeOK'
         /\ \A a \in Users : Transfer(u, a) => TypeOK'
<1> USE DEF Roles, Privileged
<1>0. member \in [Users -> Membership] /\ invite \in [Invites -> Invitation]
  BY DEF TypeOK
<1>1. CASE Join(u)
  BY <1>1, JoinType DEF Join, TypeOK
<1>2. CASE Erase(u)
  <2>1. [member[u] EXCEPT !.status = "suspended"] \in Membership
    BY <1>0 DEF Membership
  <2>2. member' \in [Users -> Membership]
    BY <1>0, <1>2, <2>1 DEF Erase
  <2> QED  BY <1>2, <2>2 DEF Erase, TypeOK
<1>3. CASE Recover(u)
  <2>1. \A v \in Users : [member[v] EXCEPT !.role = "admin"] \in Membership
    BY <1>0 DEF Membership
  <2>2. \A i \in Invites : [invite[i] EXCEPT !.status = "revoked"] \in Invitation
    BY <1>0 DEF Invitation
  <2>3. member' \in [Users -> Membership]
    BY <1>0, <1>3, <2>1, BelongsType DEF Recover
  <2>4. invite' \in [Invites -> Invitation]
    BY <1>0, <1>3, <2>2 DEF Recover
  <2> QED  BY <1>3, <2>3, <2>4 DEF Recover, TypeOK
<1>4. ASSUME NEW role \in Roles, NEW status \in {"active", "suspended"},
             PatchMembership(u, role, status)
      PROVE  TypeOK'
  <2>1. [status |-> status, role |-> role] \in Membership
    BY DEF Membership
  <2> QED  BY <1>4, <2>1 DEF PatchMembership, TypeOK
<1>5. ASSUME NEW a \in Users, Transfer(u, a)
      PROVE  TypeOK'
  BY <1>5, BelongsType DEF Transfer, TypeOK
<1> QED  BY <1>1, <1>2, <1>3, <1>4, <1>5

LEMMA InvitationType ==
  ASSUME TypeOK
  PROVE  /\ \A e \in Emails, i \in Invites, role \in Roles : Invite(e, i, role) => TypeOK'
         /\ \A i \in Invites : Revoke(i) => TypeOK'
         /\ \A e \in Emails :
              InviteParent(e) \/ RevokeParent(e) \/ ReplaceOwnerInvite(e) => TypeOK'
         /\ \A u \in Enterprise, i \in Invites : EnterpriseSignIn(u, i) => TypeOK'
<1>1. ASSUME NEW e \in Emails, NEW i \in Invites, NEW role \in Roles, Invite(e, i, role)
      PROVE  TypeOK'
  <2>1. [email |-> e, role |-> role, status |-> "pending"] \in Invitation
    BY DEF Invitation
  <2> QED  BY <1>1, <2>1 DEF Invite, TypeOK
<1>2. ASSUME NEW i \in Invites, Revoke(i)
      PROVE  TypeOK'
  BY <1>2, InviteType DEF Revoke, TypeOK
<1>3. ASSUME NEW e \in Emails, InviteParent(e) \/ RevokeParent(e)
      PROVE  TypeOK'
  BY <1>3 DEF InviteParent, RevokeParent, TypeOK
<1>4. ASSUME NEW e \in Emails, ReplaceOwnerInvite(e)
      PROVE  TypeOK'
  <2>1. PICK i \in Invites : invite' = [invite EXCEPT ![i].email = e]
    BY <1>4 DEF ReplaceOwnerInvite, OwnerInvited
  <2>2. invite[i] \in Invitation
    BY DEF TypeOK
  <2>3. [invite[i] EXCEPT !.email = e] \in Invitation
    BY <2>2 DEF Invitation
  <2> QED  BY <1>4, <2>1, <2>3 DEF ReplaceOwnerInvite, TypeOK
<1>5. ASSUME NEW u \in Enterprise, NEW i \in Invites, EnterpriseSignIn(u, i)
      PROVE  TypeOK'
  <2>0. u \in Users
    BY MembersAssumption
  <2>1. invite[i].role \in Roles /\ "member" \in Roles
    BY DEF TypeOK, Invitation, Roles
  <2>2. /\ [member EXCEPT ![u] = Belongs(invite[i].role)] \in [Users -> Membership]
        /\ [invite EXCEPT ![i].status = "accepted"] \in [Invites -> Invitation]
        /\ [invite EXCEPT ![i].status = "revoked"] \in [Invites -> Invitation]
    BY <2>0, <2>1, JoinType, InviteType
  <2>3. member' \in [Users -> Membership] /\ invite' \in [Invites -> Invitation]
    BY <1>5, <2>2 DEF EnterpriseSignIn, TypeOK
  <2> QED  BY <1>5, <2>3 DEF EnterpriseSignIn, TypeOK
<1> QED  BY <1>1, <1>2, <1>3, <1>4, <1>5

LEMMA TypeInit == Init => TypeOK
<1> SUFFICES ASSUME Init PROVE TypeOK
  OBVIOUS
<1>1. \A i \in Invites : invite[i] \in Invitation
  BY MembersAssumption DEF Init, Invitation, Roles, Privileged
<1>2. invite \in [Invites -> Invitation]
  BY <1>1 DEF Init
<1> QED  BY <1>2, Constants DEF Init, TypeOK

LEMMA TypeStep == TypeOK /\ [Next]_vars => TypeOK'
<1> SUFFICES ASSUME TypeOK, [Next]_vars PROVE TypeOK'
  OBVIOUS
<1>1. ASSUME NEW c \in Caps, ChangePlan(c)
      PROVE  TypeOK'
  BY <1>1 DEF ChangePlan, TypeOK
<1>2. CASE UNCHANGED vars
  BY <1>2 DEF vars, TypeOK
<1> QED  BY <1>1, <1>2, InvitationType, SignInType, AdministrationType DEF Next

\* Every reachable state is well typed, for any number of people and invitations.
THEOREM TypeCorrect == Spec => []TypeOK
BY TypeInit, TypeStep, PTL DEF Spec

------------------------------------------------------------------------------
(* The owner.                                                              *)

\* One owner row, which is active, and no invitation; or no such row and one
\* invitation.
Owned(of, in) ==
  \/ /\ \E o \in Users : OwnerRows(of) = {o} /\ of[o].status = "active"
     /\ OwnerInvited(in) = {}
  \/ OwnerRows(of) = {} /\ \E i \in Invites : OwnerInvited(in) = {i}

LEMMA OwnedIsOneOwner ==
  ASSUME NEW of, NEW in
  PROVE  OneOwnerIn(of, in) <=> Owned(of, in)
<1>1. IsFiniteSet(OwnerRows(of)) /\ IsFiniteSet(OwnerInvited(in))
  BY FS_Subset, MembersAssumption DEF OwnerRows, OwnerInvited
<1>2. /\ Cardinality(OwnerRows(of)) = 1 <=> \E o : OwnerRows(of) = {o}
      /\ Cardinality(OwnerInvited(in)) = 1 <=> \E i : OwnerInvited(in) = {i}
  BY <1>1, FS_Singleton
<1>3. OwnerRows(of) \subseteq Users /\ OwnerInvited(in) \subseteq Invites
  BY DEF OwnerRows, OwnerInvited
<1> QED  BY <1>2, <1>3 DEF OneOwnerIn, Owned

\* It depends on the owners' rows and invitations only.
LEMMA OwnedKept ==
  ASSUME Owned(member, invite), OwnerRows(member') = OwnerRows(member),
         \A u \in OwnerRows(member) : member'[u] = member[u],
         OwnerInvited(invite') = OwnerInvited(invite)
  PROVE  Owned(member', invite')
BY DEF Owned

LEMMA OwnedInvitations ==
  ASSUME TypeOK, Owned(member, invite)
  PROVE  /\ \A e \in Emails, i \in Invites, role \in Roles :
              Invite(e, i, role) => Owned(member', invite')
         /\ \A i \in Invites : Revoke(i) => Owned(member', invite')
         /\ \A e \in Emails : ReplaceOwnerInvite(e) => Owned(member', invite')
<1>0. invite \in [Invites -> Invitation]
  BY DEF TypeOK
<1>1. ASSUME NEW e \in Emails, NEW i \in Invites, NEW role \in Roles, Invite(e, i, role)
      PROVE  OwnerInvited(invite') = OwnerInvited(invite) /\ UNCHANGED member
  BY <1>0, <1>1 DEF Invite, OwnerInvited
<1>2. ASSUME NEW i \in Invites, Revoke(i)
      PROVE  OwnerInvited(invite') = OwnerInvited(invite) /\ UNCHANGED member
  BY <1>0, <1>2 DEF Revoke, OwnerInvited, Pending, Invitation
<1>3. ASSUME NEW e \in Emails, ReplaceOwnerInvite(e)
      PROVE  OwnerInvited(invite') = OwnerInvited(invite) /\ UNCHANGED member
  <2>1. PICK i \in Invites : invite' = [invite EXCEPT ![i].email = e]
    BY <1>3 DEF ReplaceOwnerInvite, OwnerInvited
  <2>2. \A j \in Invites : invite'[j].status = invite[j].status /\ invite'[j].role = invite[j].role
    BY <1>0, <2>1 DEF Invitation
  <2> QED  BY <1>3, <2>2 DEF ReplaceOwnerInvite, OwnerInvited
<1> QED  BY <1>1, <1>2, <1>3, OwnedKept

LEMMA OwnedAdministration ==
  ASSUME TypeOK, Owned(member, invite), NEW u \in Users
  PROVE  /\ Join(u) \/ Erase(u) \/ Recover(u) => Owned(member', invite')
         /\ \A role \in Roles, status \in {"active", "suspended"} :
              PatchMembership(u, role, status) => Owned(member', invite')
         /\ \A a \in Users : Transfer(u, a) => Owned(member', invite')
<1>0. /\ member \in [Users -> Membership] /\ invite \in [Invites -> Invitation]
      /\ \A v \in OwnerRows(member) : member[v] = Belongs("owner")
  <2>1. \A v \in OwnerRows(member) : member[v].status = "active" /\ member[v].role = "owner"
    BY DEF Owned, OwnerRows
  <2> QED  BY <2>1 DEF TypeOK, OwnerRows, Membership, Belongs
<1>1. ASSUME Join(u)
      PROVE  Owned(member', invite')
  <2>1. /\ member' = [member EXCEPT ![u] = Belongs("member")] /\ UNCHANGED invite
        /\ u \notin OwnerRows(member)
    BY <1>1 DEF Join, OwnerRows
  <2>2. OwnerRows(member') = OwnerRows(member)
    BY <1>0, <2>1 DEF OwnerRows, Belongs
  <2> QED  BY <1>0, <2>1, <2>2, OwnedKept
<1>2. ASSUME Erase(u)
      PROVE  Owned(member', invite')
  <2>1. UNCHANGED invite /\ u \notin OwnerRows(member)
    BY <1>0, <1>2 DEF Erase
  <2>2. UNCHANGED member \/ member' = [member EXCEPT ![u].status = "suspended"]
    BY <1>2 DEF Erase
  <2>3. \A v \in Users : v # u => member'[v] = member[v]
    BY <1>0, <2>2
  <2>4. u \notin OwnerRows(member')
    <3>1. member'[u].role = member[u].role
      BY <1>0, <2>2 DEF Membership
    <3>2. member[u].status = "none" => UNCHANGED member
      BY <1>2 DEF Erase
    <3> QED  BY <2>1, <3>1, <3>2 DEF OwnerRows
  <2>5. OwnerRows(member') = OwnerRows(member)
    BY <2>1, <2>3, <2>4 DEF OwnerRows
  <2> QED  BY <2>1, <2>3, <2>5, OwnedKept DEF OwnerRows
<1>3. ASSUME Recover(u)
      PROVE  Owned(member', invite')
  <2>1. \A v \in Users \ {u} : member'[v].role # "owner" \/ member'[v].status = "none"
    <3>1. ASSUME NEW v \in Users \ {u}, v \in OwnerRows(member)
          PROVE  member'[v].role # "owner"
      <4>1. member'[v] = [member[v] EXCEPT !.role = "admin"] /\ member[v] \in Membership
        BY <1>0, <1>3, <3>1 DEF Recover
      <4> QED  BY <4>1 DEF Membership
    <3>2. ASSUME NEW v \in Users \ {u}, v \notin OwnerRows(member)
          PROVE  member'[v] = member[v]
      BY <1>3, <3>2 DEF Recover
    <3> QED  BY <3>1, <3>2 DEF OwnerRows
  <2>2. member'[u] = Belongs("owner")
    BY <1>3 DEF Recover
  <2>3. OwnerRows(member') = {u} /\ member'[u].status = "active"
    BY <2>1, <2>2 DEF OwnerRows, Belongs
  <2>4. ASSUME NEW i \in Invites, i \in OwnerInvited(invite)
        PROVE  i \notin OwnerInvited(invite')
    <3>1. invite'[i] = [invite[i] EXCEPT !.status = "revoked"] /\ invite[i] \in Invitation
      BY <1>0, <1>3, <2>4 DEF Recover
    <3> QED  BY <3>1 DEF Invitation, OwnerInvited
  <2>5. ASSUME NEW i \in Invites, i \notin OwnerInvited(invite)
        PROVE  i \notin OwnerInvited(invite')
    <3>1. invite'[i] = invite[i]
      BY <1>3, <2>5 DEF Recover
    <3> QED  BY <2>5, <3>1 DEF OwnerInvited
  <2>6. OwnerInvited(invite') = {}
    BY <2>4, <2>5 DEF OwnerInvited
  <2> QED  BY <2>3, <2>6 DEF Owned
<1>4. ASSUME NEW role \in Roles, NEW status \in {"active", "suspended"},
             PatchMembership(u, role, status)
      PROVE  Owned(member', invite')
  <2>1. /\ member' = [member EXCEPT ![u] = [status |-> status, role |-> role]]
        /\ role # "owner" /\ u \notin OwnerRows(member) /\ UNCHANGED invite
    BY <1>4 DEF PatchMembership, OwnerRows
  <2>2. OwnerRows(member') = OwnerRows(member)
    BY <1>0, <2>1 DEF OwnerRows
  <2> QED  BY <1>0, <2>1, <2>2, OwnedKept
<1>5. ASSUME NEW a \in Users, Transfer(u, a)
      PROVE  Owned(member', invite')
  <2>1. /\ member' = [member EXCEPT ![u] = Belongs("admin"), ![a] = Belongs("owner")]
        /\ u \in OwnerRows(member) /\ UNCHANGED invite
    BY <1>5 DEF Transfer, OwnerRows, Belongs
  <2>2. OwnerRows(member) = {u} /\ OwnerInvited(invite) = {}
    BY <2>1 DEF Owned
  <2>3. OwnerRows(member') = {a} /\ member'[a].status = "active"
    BY <1>0, <2>1, <2>2 DEF OwnerRows, Belongs
  <2> QED  BY <2>1, <2>2, <2>3 DEF Owned
<1> QED  BY <1>1, <1>2, <1>3, <1>4, <1>5

LEMMA OwnedInit == Init => Owned(member, invite)
<1> SUFFICES ASSUME Init PROVE Owned(member, invite)
  OBVIOUS
<1>1. OwnerRows(member) = {}
  BY DEF Init, OwnerRows, Outside
<1>2. OwnerInvited(invite) = {FirstInvite}
  BY MembersAssumption DEF Init, OwnerInvited
<1> QED  BY <1>1, <1>2, MembersAssumption DEF Owned

LEMMA OwnedStep == TypeOK /\ Owned(member, invite) /\ [Next]_vars => Owned(member', invite')
<1> SUFFICES ASSUME TypeOK, Owned(member, invite), [Next]_vars PROVE Owned(member', invite')
  OBVIOUS
<1>1. ASSUME NEW u \in Global, Begin(u) \/ List(u) \/ SignInFails(u)
      PROVE  UNCHANGED <<member, invite>>
  BY <1>1 DEF Begin, List, SignInFails
<1>2. ASSUME NEW u \in Global, Accept(u)
      PROVE  Owned(member', invite')
  BY <1>2, OwnedIsOneOwner DEF Accept
<1>3. ASSUME NEW u \in Enterprise, NEW i \in Invites, EnterpriseSignIn(u, i)
      PROVE  Owned(member', invite')
  BY <1>3, OwnedIsOneOwner DEF EnterpriseSignIn
<1>4. ASSUME NEW e \in Emails, InviteParent(e) \/ RevokeParent(e)
      PROVE  UNCHANGED <<member, invite>>
  BY <1>4 DEF InviteParent, RevokeParent
<1>5. ASSUME NEW c \in Caps, ChangePlan(c)
      PROVE  UNCHANGED <<member, invite>>
  BY <1>5 DEF ChangePlan
<1>6. UNCHANGED vars => UNCHANGED <<member, invite>>
  BY DEF vars
<1>7. UNCHANGED <<member, invite>> => Owned(member', invite')
  OBVIOUS
<1> QED  BY <1>1, <1>2, <1>3, <1>4, <1>5, <1>6, <1>7, OwnedInvitations, OwnedAdministration
         DEF Next

\* An organisation always has one owner, who is active, or exactly one invitation for
\* its first owner, for any number of people who sign in, are invited, suspended,
\* promoted, erased or recovered.
THEOREM Ownership == Spec => []OneOwner
<1>1. Owned(member, invite) => OneOwner
  BY DEF Owned, OneOwner
<1>2. Init => TypeOK /\ Owned(member, invite)
  BY TypeInit, OwnedInit
<1>3. TypeOK /\ Owned(member, invite) /\ [Next]_vars => (TypeOK /\ Owned(member, invite))'
  BY TypeStep, OwnedStep
<1> QED  BY <1>1, <1>2, <1>3, PTL DEF Spec

------------------------------------------------------------------------------
(* Who was suspended, and what was revoked.                                *)

LEMMA SuspendedInvitation ==
  ASSUME TypeOK, NEW u \in Global, NEW v \in Users, member[v].status = "suspended",
         NEW i \in Invites \cup {NoInvite}
  PROVE  AcceptInvite(u, i)[1][v].status = "suspended"
<1>1. CASE i = NoInvite \/ Declines(member[u], invite[i].role)
  <2>1. \E n : AcceptInvite(u, i) = <<member, n>>
    BY <1>1 DEF AcceptInvite
  <2> QED  BY <2>1
<1>2. CASE i # NoInvite /\ ~Declines(member[u], invite[i].role)
  <2> DEFINE m == [member EXCEPT ![u] = Belongs(invite[i].role)]
  <2>1. \E n : AcceptInvite(u, i) = <<m, n>>
    BY <1>2 DEF AcceptInvite
  <2>2. u # v
    BY <1>2 DEF Declines
  <2>3. m[v] = member[v]
    BY <2>2 DEF TypeOK
  <2> HIDE DEF m
  <2> QED  BY <2>1, <2>3
<1> QED  BY <1>1, <1>2

LEMMA SuspendedParent ==
  ASSUME NEW u \in Global, NEW v \in Users, NEW of \in [Users -> Membership],
         of[v].status = "suspended"
  PROVE  AcceptParent(u, of)[v].status = "suspended"
<1>1. CASE u = v
  <2>1. ParentDeclines(of[u])
    BY <1>1 DEF ParentDeclines
  <2> QED  BY <2>1 DEF AcceptParent
<1>2. CASE u # v
  BY <1>2 DEF AcceptParent
<1> QED  BY <1>1, <1>2

LEMMA SuspendedSignIn ==
  ASSUME TypeOK, NEW u \in Global, Begin(u) \/ List(u) \/ Accept(u) \/ SignInFails(u),
         NEW v \in Users, member[v].status = "suspended"
  PROVE  member'[v].status = "suspended"
<1>1. CASE Begin(u) \/ List(u) \/ SignInFails(u)
  BY <1>1 DEF Begin, List, SignInFails
<1>2. CASE Accept(u)
  <2>1. PICK invitesDone, parentsDone \in BOOLEAN :
          LET taken == IF invitesDone THEN AcceptInvite(u, signin[u].invite)
                       ELSE <<member, invite>>
          IN  member' = IF parentsDone THEN AcceptParent(u, taken[1]) ELSE taken[1]
    BY <1>2 DEF Accept
  <2> DEFINE taken == IF invitesDone THEN AcceptInvite(u, signin[u].invite)
                      ELSE <<member, invite>>
  <2>2. signin[u].invite \in Invites \cup {NoInvite}
    BY DEF TypeOK, SignIn
  <2>3. taken[1] \in [Users -> Membership] /\ taken[1][v].status = "suspended"
    BY <2>2, AcceptType, SuspendedInvitation DEF TypeOK
  <2> HIDE DEF taken
  <2> QED  BY <2>1, <2>3, SuspendedParent DEF taken
<1> QED  BY <1>1, <1>2

LEMMA SuspendedStep ==
  ASSUME TypeOK, [Next]_vars, NEW v \in Users, member[v].status = "suspended",
         member'[v].status = "active"
  PROVE  SeatLeft(Pending) /\ invite' = invite /\ signin' = signin
<1>0. member \in [Users -> Membership]
  BY DEF TypeOK
<1>1. ASSUME NEW u \in Users, NEW role \in Roles, NEW status \in {"active", "suspended"},
             PatchMembership(u, role, status)
      PROVE  SeatLeft(Pending) /\ invite' = invite /\ signin' = signin
  <2>1. u = v
    BY <1>0, <1>1 DEF PatchMembership
  <2>2. status = "active"
    BY <1>0, <1>1, <2>1 DEF PatchMembership
  <2> QED  BY <1>1, <2>1, <2>2 DEF PatchMembership
<1>2. \A e \in Emails, i \in Invites, role \in Roles : Invite(e, i, role) => UNCHANGED member
  BY DEF Invite
<1>3. \A i \in Invites : Revoke(i) => UNCHANGED member
  BY DEF Revoke
<1>4. \A e \in Emails :
        InviteParent(e) \/ RevokeParent(e) \/ ReplaceOwnerInvite(e) => UNCHANGED member
  BY DEF InviteParent, RevokeParent, ReplaceOwnerInvite
<1>5. ASSUME NEW u \in Users, Join(u)
      PROVE  FALSE
  BY <1>0, <1>5 DEF Join, Belongs
<1>6. ASSUME NEW u \in Users, Erase(u)
      PROVE  FALSE
  <2>1. UNCHANGED member \/ member' = [member EXCEPT ![u].status = "suspended"]
    BY <1>6 DEF Erase
  <2>2. member'[v] = member[v] \/ member'[v] = [member[v] EXCEPT !.status = "suspended"]
    BY <1>0, <2>1
  <2>3. member[v] \in Membership
    BY <1>0
  <2> QED  BY <2>2, <2>3 DEF Membership
<1>7. ASSUME NEW u \in Users, Recover(u)
      PROVE  FALSE
  <2>1. u # v
    BY <1>7 DEF Recover, Belongs
  <2>2. member'[v] = member[v] \/ member'[v] = [member[v] EXCEPT !.role = "admin"]
    BY <1>7, <2>1 DEF Recover
  <2>3. member[v] \in Membership
    BY <1>0
  <2> QED  BY <2>2, <2>3 DEF Membership
<1>8. ASSUME NEW u \in Enterprise, NEW i \in Invites, EnterpriseSignIn(u, i)
      PROVE  FALSE
  <2>1. u \in Users
    BY MembersAssumption
  <2>2. UNCHANGED member \/ member[u].status # "suspended"
    BY <1>8 DEF EnterpriseSignIn, Declines
  <2>3. UNCHANGED member \/ \E role : member' = [member EXCEPT ![u] = Belongs(role)]
    BY <1>8 DEF EnterpriseSignIn
  <2> QED  BY <1>0, <2>1, <2>2, <2>3
<1>9. ASSUME NEW o \in Users, NEW a \in Users, Transfer(o, a)
      PROVE  FALSE
  <2>1. o # v /\ a # v
    BY <1>9 DEF Transfer, Belongs
  <2> QED  BY <1>0, <1>9, <2>1 DEF Transfer
<1>10. \A c \in Caps : ChangePlan(c) => UNCHANGED member
  BY DEF ChangePlan
<1>11. UNCHANGED vars => UNCHANGED member
  BY DEF vars
<1>12. ~UNCHANGED member
  OBVIOUS
<1> QED  BY <1>1, <1>2, <1>3, <1>4, <1>5, <1>6, <1>7, <1>8, <1>9, <1>10, <1>11, <1>12,
            SuspendedSignIn DEF Next

\* Who was suspended comes back only through an administrator's PATCH, for which there
\* must be a seat, for any number of invitations, sign-ins and identities of a person.
THEOREM Suspension == Spec => SuspendedStaysOut
<1>1. TypeOK /\ [Next]_vars
        => [\A u \in Users : member[u].status = "suspended" /\ member'[u].status = "active"
              => SeatLeft(Pending) /\ invite' = invite /\ signin' = signin]_vars
  BY SuspendedStep
<1> QED  BY <1>1, TypeCorrect, PTL DEF Spec, SuspendedStaysOut

------------------------------------------------------------------------------
(* Invitations that were revoked.                                          *)

\* No sign-in lists an invitation that is not pending.
LEMMA DeadNotListed ==
  ASSUME TypeOK, NEW i \in Invites, Dead(i), NEW u \in Global,
         Begin(u) \/ List(u) \/ Accept(u) \/ SignInFails(u)
  PROVE  \A w \in Global : signin'[w].invite # i
<1>0. /\ signin \in [Global -> SignIn] /\ \A w \in Global : signin[w].invite # i
      /\ invite[i].status = "revoked" /\ i # NoInvite
  BY MembersAssumption DEF TypeOK, Dead
<1>1. CASE Begin(u)
  <2>1. signin' = [signin EXCEPT ![u].pc = "list"]
    BY <1>1 DEF Begin
  <2> QED  BY <1>0, <2>1 DEF SignIn
<1>2. CASE List(u)
  <2>1. PICK j \in Invites \cup {NoInvite} :
          /\ j = NoInvite \/ j \in Pending
          /\ signin' = [signin EXCEPT ![u] = [pc |-> "accept", invite |-> j]]
    BY <1>2 DEF List, PendingFor
  <2>2. j # i
    BY <1>0, <2>1 DEF Pending
  <2> QED  BY <1>0, <2>1, <2>2
<1>3. CASE Accept(u) \/ SignInFails(u)
  <2>1. signin' = [signin EXCEPT ![u] = Idle]
    BY <1>3 DEF Accept, SignInFails, Finish
  <2> QED  BY <1>0, <2>1, Constants
<1> QED  BY <1>1, <1>2, <1>3

LEMMA DeadNotAccepted ==
  ASSUME TypeOK, NEW i \in Invites, Dead(i), NEW u \in Global, Accept(u)
  PROVE  invite'[i].status = "revoked"
<1>1. \E invitesDone \in BOOLEAN :
        invite' = (IF invitesDone THEN AcceptInvite(u, signin[u].invite)
                   ELSE <<member, invite>>)[2]
  BY DEF Accept
<1>2. CASE invite' = invite
  BY <1>2 DEF Dead
<1>3. CASE invite' = AcceptInvite(u, signin[u].invite)[2]
  <2> DEFINE j == signin[u].invite
  <2>1. j # i
    BY DEF Dead
  <2>2. \/ AcceptInvite(u, j)[2] = invite
        \/ AcceptInvite(u, j)[2] = [invite EXCEPT ![j].status = "revoked"]
        \/ AcceptInvite(u, j)[2] = [invite EXCEPT ![j].status = "accepted"]
    BY DEF AcceptInvite
  <2>3. invite'[i] = invite[i]
    BY <1>3, <2>1, <2>2 DEF TypeOK
  <2> QED  BY <2>3 DEF Dead
<1> QED  BY <1>1, <1>2, <1>3

LEMMA DeadStep ==
  ASSUME TypeOK, NEW i \in Invites, Dead(i), [Next]_vars
  PROVE  Dead(i)'
<1>0. invite \in [Invites -> Invitation] /\ invite[i].status = "revoked"
  BY DEF TypeOK, Dead
<1>1. CASE \E u \in Global : Begin(u) \/ List(u) \/ Accept(u) \/ SignInFails(u)
  <2>1. PICK u \in Global : Begin(u) \/ List(u) \/ Accept(u) \/ SignInFails(u)
    BY <1>1
  <2>2. Begin(u) \/ List(u) \/ SignInFails(u) => invite' = invite
    BY DEF Begin, List, SignInFails
  <2>3. invite'[i].status = "revoked"
    BY <1>0, <2>1, <2>2, DeadNotAccepted
  <2> QED  BY <2>1, <2>3, DeadNotListed DEF Dead
<1>2. CASE ~\E u \in Global : Begin(u) \/ List(u) \/ Accept(u) \/ SignInFails(u)
  <2>1. ASSUME NEW e \in Emails, NEW j \in Invites, NEW role \in Roles, Invite(e, j, role)
        PROVE  invite'[i].status = "revoked" /\ signin' = signin
    <3>1. j # i
      BY <1>0, <2>1 DEF Invite
    <3> QED  BY <1>0, <2>1, <3>1 DEF Invite
  <2>2. ASSUME NEW j \in Invites, Revoke(j)
        PROVE  invite'[i].status = "revoked" /\ signin' = signin
    BY <1>0, <2>2 DEF Revoke, Invitation
  <2>3. ASSUME NEW e \in Emails, InviteParent(e) \/ RevokeParent(e)
        PROVE  invite' = invite /\ signin' = signin
    BY <2>3 DEF InviteParent, RevokeParent
  <2>4. ASSUME NEW e \in Emails, ReplaceOwnerInvite(e)
        PROVE  invite'[i].status = "revoked" /\ signin' = signin
    BY <1>0, <2>4 DEF ReplaceOwnerInvite, OwnerInvited
  <2>5. ASSUME NEW u \in Users, Join(u) \/ Erase(u)
        PROVE  invite' = invite /\ signin' = signin
    BY <2>5 DEF Join, Erase
  <2>6. ASSUME NEW u \in Users, Recover(u)
        PROVE  invite'[i].status = "revoked" /\ signin' = signin
    BY <1>0, <2>6 DEF Recover, OwnerInvited
  <2>7. ASSUME NEW u \in Enterprise, NEW j \in Invites, EnterpriseSignIn(u, j)
        PROVE  invite'[i].status = "revoked" /\ signin' = signin
    <3>1. j # i
      BY <1>0, <2>7 DEF EnterpriseSignIn, PendingFor, Pending
    <3>2. \/ invite' = [invite EXCEPT ![j].status = "revoked"]
          \/ invite' = [invite EXCEPT ![j].status = "accepted"]
      BY <2>7 DEF EnterpriseSignIn
    <3> QED  BY <1>0, <2>7, <3>1, <3>2 DEF EnterpriseSignIn
  <2>8. ASSUME NEW u \in Users, NEW role \in Roles, NEW status \in {"active", "suspended"},
               PatchMembership(u, role, status)
        PROVE  invite' = invite /\ signin' = signin
    BY <2>8 DEF PatchMembership
  <2>9. ASSUME NEW o \in Users, NEW a \in Users, Transfer(o, a)
        PROVE  invite' = invite /\ signin' = signin
    BY <2>9 DEF Transfer
  <2>10. ASSUME NEW c \in Caps, ChangePlan(c)
         PROVE  invite' = invite /\ signin' = signin
    BY <2>10 DEF ChangePlan
  <2>11. UNCHANGED vars => invite' = invite /\ signin' = signin
    BY DEF vars
  <2>12. invite'[i].status = "revoked" /\ signin' = signin
    BY <1>0, <1>2, <2>1, <2>2, <2>3, <2>4, <2>5, <2>6, <2>7, <2>8, <2>9, <2>10, <2>11 DEF Next
  <2> QED  BY <2>12 DEF Dead
<1> QED  BY <1>1, <1>2

\* A revoked invitation that no sign-in under way has listed is never accepted, for any
\* number of sign-ins, organisation logins, owners replaced and administrators.
THEOREM Revocation == Spec => RevokedStaysRevoked
<1>1. TypeOK /\ [Next]_vars => [\A i \in Invites : Dead(i) => Dead(i)']_vars
  BY DeadStep
<1> QED  BY <1>1, TypeCorrect, PTL DEF Spec, RevokedStaysRevoked

------------------------------------------------------------------------------
(* Seats.                                                                  *)

\* An email has at most one pending invitation: what the sign-in's cursor relies on.
OnePerEmail(in) ==
  \A i, j \in Invites :
    in[i].status = "pending" /\ in[j].status = "pending" /\ in[i].email = in[j].email => i = j

\* It survives whatever leaves emails alone and makes no invitation pending.
LEMMA OnePerEmailKept ==
  ASSUME OnePerEmail(invite),
         \A i \in Invites : invite'[i].status = "pending" =>
           invite[i].status = "pending" /\ invite'[i].email = invite[i].email
  PROVE  OnePerEmail(invite')
BY DEF OnePerEmail

\* What an invitation may be turned into.
LEMMA Closed ==
  ASSUME TypeOK, NEW i \in Invites, NEW status \in {"accepted", "revoked"},
         invite' = [invite EXCEPT ![i].status = status]
  PROVE  \A j \in Invites : invite'[j].status = "pending" =>
           invite[j].status = "pending" /\ invite'[j].email = invite[j].email /\ j # i
<1>1. invite \in [Invites -> Invitation]
  BY DEF TypeOK
<1>2. status # "pending"
  OBVIOUS
<1> QED  BY <1>1, <1>2 DEF Invitation

LEMMA AcceptCloses ==
  ASSUME TypeOK, NEW u \in Global, Accept(u)
  PROVE  \A j \in Invites : invite'[j].status = "pending" =>
           invite[j].status = "pending" /\ invite'[j].email = invite[j].email
<1>1. \/ invite' = invite
      \/ invite' = AcceptInvite(u, signin[u].invite)[2]
  BY DEF Accept
<1>2. CASE invite' = invite
  BY <1>2
<1>3. CASE invite' = AcceptInvite(u, signin[u].invite)[2]
  <2> DEFINE i == signin[u].invite
  <2>1. i \in Invites \cup {NoInvite}
    BY DEF TypeOK, SignIn
  <2>2. \/ invite' = invite
        \/ /\ i \in Invites
           /\ \E status \in {"accepted", "revoked"} :
                invite' = [invite EXCEPT ![i].status = status]
    BY <1>3, <2>1 DEF AcceptInvite
  <2> QED  BY <2>2, Closed
<1> QED  BY <1>1, <1>2, <1>3

LEMMA OnePerEmailStep == TypeOK /\ OnePerEmail(invite) /\ [Next]_vars => OnePerEmail(invite')
<1> SUFFICES ASSUME TypeOK, OnePerEmail(invite), [Next]_vars
             PROVE  OnePerEmail(invite')
  OBVIOUS
<1>0. invite \in [Invites -> Invitation]
  BY DEF TypeOK
<1>1. ASSUME NEW e \in Emails, NEW i \in Invites, NEW role \in Roles, Invite(e, i, role)
      PROVE  OnePerEmail(invite')
  <2>1. \A j \in Invites : invite[j].status = "pending" => invite[j].email # e
    BY <1>1 DEF Invite, PendingFor, Pending
  <2>2. invite' = [invite EXCEPT ![i] = [email |-> e, role |-> role, status |-> "pending"]]
    BY <1>1 DEF Invite
  <2> QED  BY <1>0, <2>1, <2>2 DEF OnePerEmail
<1>2. ASSUME NEW i \in Invites, Revoke(i)
      PROVE  OnePerEmail(invite')
  BY <1>2, Closed, OnePerEmailKept DEF Revoke
<1>3. ASSUME NEW e \in Emails, ReplaceOwnerInvite(e)
      PROVE  OnePerEmail(invite')
  <2>1. PICK i \in Invites : PendingFor(e) \subseteq {i} /\ invite' = [invite EXCEPT ![i].email = e]
    BY <1>3 DEF ReplaceOwnerInvite, OwnerInvited
  <2>2. \A j \in Invites : invite[j].status = "pending" /\ invite[j].email = e => j = i
    BY <2>1 DEF PendingFor, Pending
  <2> QED  BY <1>0, <2>1, <2>2 DEF OnePerEmail, Invitation
<1>4. ASSUME NEW u \in Global, Accept(u)
      PROVE  OnePerEmail(invite')
  BY <1>4, AcceptCloses, OnePerEmailKept
<1>5. ASSUME NEW u \in Users, Recover(u)
      PROVE  OnePerEmail(invite')
  <2>1. \A i \in Invites : invite'[i] = invite[i] \/ invite'[i].status = "revoked"
    BY <1>0, <1>5 DEF Recover
  <2> QED  BY <2>1, OnePerEmailKept
<1>6. ASSUME NEW u \in Enterprise, NEW i \in Invites, EnterpriseSignIn(u, i)
      PROVE  OnePerEmail(invite')
  <2>1. \E status \in {"accepted", "revoked"} : invite' = [invite EXCEPT ![i].status = status]
    BY <1>6 DEF EnterpriseSignIn
  <2> QED  BY <2>1, Closed, OnePerEmailKept
<1>7. \A e \in Emails : InviteParent(e) \/ RevokeParent(e) => invite' = invite
  BY DEF InviteParent, RevokeParent
<1>8. \A u \in Global : Begin(u) \/ List(u) \/ SignInFails(u) => invite' = invite
  BY DEF Begin, List, SignInFails
<1>9. \A u \in Users : Join(u) \/ Erase(u) => invite' = invite
  BY DEF Join, Erase
<1>10. /\ \A u \in Users, role \in Roles, status \in {"active", "suspended"} :
            PatchMembership(u, role, status) => invite' = invite
       /\ \A o, a \in Users : Transfer(o, a) => invite' = invite
       /\ \A c \in Caps : ChangePlan(c) => invite' = invite
  BY DEF PatchMembership, Transfer, ChangePlan
<1>11. UNCHANGED vars => invite' = invite
  BY DEF vars
<1>12. invite' = invite => OnePerEmail(invite')
  OBVIOUS
<1> QED  BY <1>1, <1>2, <1>3, <1>4, <1>5, <1>6, <1>7, <1>8, <1>9, <1>10, <1>11, <1>12 DEF Next

LEMMA OnePerEmailInit == Init => OnePerEmail(invite)
BY MembersAssumption DEF Init, OnePerEmail

\* Who takes a seat, the emails that hold one, and how many seats that makes.
Active(of) == {u \in Users : of[u].status = "active"}
Held(in, by) == {in[i].email : i \in {j \in Invites : in[j].status = "pending"}} \cup by
Taken(of, in, by) == Cardinality(Active(of)) + Cardinality(Held(in, by))

LEMMA UsedIsTaken ==
  /\ Used(member, Pending, parents) = Taken(member, invite, parents)
  /\ Used(member, Pending, parents)' = Taken(member', invite', parents')
BY DEF Used, Taken, Active, Held, Reserved, Pending

LEMMA HeldFinite ==
  ASSUME TypeOK
  PROVE  /\ IsFiniteSet(Active(member)) /\ Cardinality(Active(member)) \in Nat
         /\ IsFiniteSet(Held(invite, parents)) /\ Cardinality(Held(invite, parents)) \in Nat
<1>1. Active(member) \in SUBSET Users
  BY DEF Active
<1>2. Held(invite, parents) \in SUBSET Emails
  BY DEF Held, TypeOK, Invitation
<1> QED  BY <1>1, <1>2, MembersAssumption, FS_Subset, FS_CardinalityType

\* A step that adds nothing takes no seat.
LEMMA NothingTaken ==
  ASSUME TypeOK, NEW A, NEW H, A \subseteq Active(member), H \subseteq Held(invite, parents)
  PROVE  Cardinality(A) + Cardinality(H) <= Taken(member, invite, parents)
<1>1. IsFiniteSet(A) /\ Cardinality(A) <= Cardinality(Active(member))
  BY HeldFinite, FS_Subset
<1>2. IsFiniteSet(H) /\ Cardinality(H) <= Cardinality(Held(invite, parents))
  BY HeldFinite, FS_Subset
<1> QED  BY <1>1, <1>2, HeldFinite, FS_CardinalityType DEF Taken

\* A person takes one at most.
LEMMA OneTaken ==
  ASSUME NEW A, NEW H, IsFiniteSet(A), IsFiniteSet(H), NEW u, NEW B, NEW K,
         B \subseteq A \cup {u}, K \subseteq H
  PROVE  /\ Cardinality(B) + Cardinality(K) <= Cardinality(A) + Cardinality(H) + 1
         /\ \A e \in H : e \notin K => Cardinality(B) + Cardinality(K) <= Cardinality(A) + Cardinality(H)
<1>1. /\ IsFiniteSet(A \cup {u}) /\ Cardinality(A) \in Nat /\ Cardinality(H) \in Nat
      /\ Cardinality(A \cup {u}) <= Cardinality(A) + 1 /\ Cardinality(A \cup {u}) \in Nat
  BY FS_AddElement, FS_CardinalityType
<1>2. /\ Cardinality(B) <= Cardinality(A \cup {u}) /\ Cardinality(B) \in Nat
      /\ Cardinality(K) <= Cardinality(H) /\ Cardinality(K) \in Nat
  BY <1>1, FS_Subset, FS_CardinalityType
<1>3. ASSUME NEW e \in H, e \notin K
      PROVE  Cardinality(K) <= Cardinality(H) - 1
  <2>1. IsFiniteSet(H \ {e}) /\ Cardinality(H \ {e}) = Cardinality(H) - 1
    BY FS_RemoveElement
  <2>2. K \subseteq H \ {e}
    BY <1>3
  <2> QED  BY <2>1, <2>2, FS_Subset
<1> QED  BY <1>1, <1>2, <1>3

\* What SeatsAreNotOversold allows a step to end in.
InPlan == Taken(member', invite', parents') <= cap
NoneTaken == Taken(member', invite', parents') <= Taken(member, invite, parents)
Split == \E e \in Emails : Doubled(e) /\ ~Doubled(e)'

\* An email that gives up its pending invitation holds no seat any more, unless a
\* parent's reservation of it is left: then it had two.
LEMMA GivenUp ==
  ASSUME TypeOK, OnePerEmail(invite), NEW i \in Pending, parents' \subseteq parents,
         \A j \in Invites : invite'[j].status = "pending" =>
           invite[j].status = "pending" /\ invite'[j].email = invite[j].email /\ j # i
  PROVE  /\ Held(invite', parents') \subseteq Held(invite, parents)
         /\ invite[i].email \in Held(invite, parents)
         /\ Split \/ invite[i].email \notin Held(invite', parents')
<1>0. i \in Invites /\ invite[i].status = "pending" /\ invite[i].email \in Emails
  BY DEF Pending, TypeOK, Invitation
<1> PICK e \in Emails : e = invite[i].email
  BY <1>0
<1>1. Held(invite', parents') \subseteq Held(invite, parents) /\ e \in Held(invite, parents)
  BY <1>0 DEF Held
<1>2. \A j \in Invites : invite'[j].status = "pending" => invite'[j].email # e
  BY <1>0 DEF OnePerEmail
<1>3. CASE e \in parents
  <2>1. Doubled(e)
    BY <1>0, <1>3 DEF Doubled, PendingFor
  <2>2. ~Doubled(e)'
    BY <1>2 DEF Doubled, PendingFor, Pending
  <2> QED  BY <1>0, <1>1, <2>1, <2>2 DEF Split
<1>4. CASE e \notin parents
  BY <1>1, <1>2, <1>4 DEF Held
<1> QED  BY <1>1, <1>3, <1>4

\* Accepting an invitation that is still pending takes the seat it reserved.
LEMMA InvitationSeat ==
  ASSUME TypeOK, OnePerEmail(invite), NEW i \in Pending, parents' \subseteq parents,
         \A j \in Invites : invite'[j].status = "pending" =>
           invite[j].status = "pending" /\ invite'[j].email = invite[j].email /\ j # i,
         NEW u, Active(member') \subseteq Active(member) \cup {u}
  PROVE  NoneTaken \/ Split
BY GivenUp, HeldFinite, OneTaken DEF NoneTaken, Taken

\* Accepting a parent's invitation takes the seat it reserved.
LEMMA ParentSeat ==
  ASSUME TypeOK, invite' = invite, NEW e \in parents, parents' = parents \ {e},
         NEW u, Active(member') \subseteq Active(member) \cup {u}
  PROVE  NoneTaken \/ Split
<1>0. e \in Emails /\ e \in Held(invite, parents) /\ e \notin parents'
      /\ Held(invite', parents') \subseteq Held(invite, parents)
  BY DEF TypeOK, Held
<1>1. CASE PendingFor(e) = {}
  <2>1. e \notin Held(invite', parents')
    BY <1>0, <1>1 DEF Held, PendingFor, Pending
  <2> QED  BY <1>0, <2>1, HeldFinite, OneTaken DEF NoneTaken, Taken
<1>2. CASE PendingFor(e) # {}
  BY <1>0, <1>2 DEF Doubled, Split
<1> QED  BY <1>1, <1>2

LEMMA AcceptSeat ==
  ASSUME TypeOK, OnePerEmail(invite), NEW u \in Global, Accept(u), \A i \in Invites : ~Stale(i)
  PROVE  NoneTaken \/ Split
<1> DEFINE i == signin[u].invite
<1>0. /\ u \in Users /\ i \in Invites \cup {NoInvite} /\ (i \in Invites => i \in Pending)
      /\ member \in [Users -> Membership]
  BY DEF Global, TypeOK, SignIn, Stale
<1>1. PICK invitesDone, parentsDone \in BOOLEAN :
        LET taken == IF invitesDone THEN AcceptInvite(u, i) ELSE <<member, invite>>
        IN  /\ member' = IF parentsDone THEN AcceptParent(u, taken[1]) ELSE taken[1]
            /\ invite' = taken[2]
            /\ parents' = IF parentsDone THEN parents \ {EmailOf[u]} ELSE parents
  BY DEF Accept
<1> DEFINE taken == IF invitesDone THEN AcceptInvite(u, i) ELSE <<member, invite>>
<1>2. /\ taken = <<taken[1], taken[2]>> /\ taken[1] \in [Users -> Membership]
      /\ Active(taken[1]) \subseteq Active(member) \cup {u}
      /\ \/ taken[1] = member /\ taken[2] = invite
         \/ /\ i \in Pending
            /\ \E status \in {"accepted", "revoked"} :
                 taken[2] = [invite EXCEPT ![i].status = status]
  <2>1. taken[1] \in [Users -> Membership]
    BY <1>0, AcceptType DEF TypeOK
  <2>2. \/ taken = <<member, invite>>
        \/ i \in Invites /\ taken = <<member, [invite EXCEPT ![i].status = "revoked"]>>
        \/ i \in Invites /\ taken = <<[member EXCEPT ![u] = Belongs(invite[i].role)],
                                      [invite EXCEPT ![i].status = "accepted"]>>
    BY <1>0 DEF AcceptInvite
  <2>3. Active(taken[1]) \subseteq Active(member) \cup {u}
    <3>1. taken[1] = member \/ \E role : taken[1] = [member EXCEPT ![u] = Belongs(role)]
      BY <2>2
    <3> HIDE DEF taken
    <3> QED  BY <1>0, <3>1 DEF Active
  <2> QED  BY <1>0, <2>1, <2>2, <2>3
<1>3. member' = (IF parentsDone THEN AcceptParent(u, taken[1]) ELSE taken[1])
      /\ invite' = taken[2]
  BY <1>1
<1> HIDE DEF taken
<1>4. Active(member') \subseteq Active(member) \cup {u}
  BY <1>2, <1>3 DEF AcceptParent, Active
<1>5. parents' \subseteq parents
  BY <1>1
<1>6. CASE \E status \in {"accepted", "revoked"} :
             i \in Pending /\ invite' = [invite EXCEPT ![i].status = status]
  <2>1. i \in Invites
    BY <1>6 DEF Pending
  <2>2. \A j \in Invites : invite'[j].status = "pending" =>
          invite[j].status = "pending" /\ invite'[j].email = invite[j].email /\ j # i
    BY <1>6, <2>1, Closed
  <2> QED  BY <1>4, <1>5, <1>6, <2>2, InvitationSeat
<1>7. CASE taken[1] = member /\ invite' = invite
  <2>1. CASE parentsDone /\ EmailOf[u] \in parents
    BY <1>1, <1>4, <1>7, <2>1, ParentSeat
  <2>2. CASE ~(parentsDone /\ EmailOf[u] \in parents)
    <3>1. member' = member /\ parents' = parents
      BY <1>1, <1>3, <1>7, <2>2 DEF AcceptParent
    <3> QED  BY <1>7, <3>1, NothingTaken DEF NoneTaken, Taken
  <2> QED  BY <2>1, <2>2
<1> QED  BY <1>2, <1>3, <1>6, <1>7

LEMMA EnterpriseSeat ==
  ASSUME TypeOK, OnePerEmail(invite), NEW u \in Enterprise, NEW i \in Invites,
         EnterpriseSignIn(u, i)
  PROVE  NoneTaken \/ Split
<1>0. u \in Users /\ i \in Pending /\ parents' = parents /\ member \in [Users -> Membership]
  BY MembersAssumption DEF EnterpriseSignIn, PendingFor, TypeOK
<1>1. \A j \in Invites : invite'[j].status = "pending" =>
        invite[j].status = "pending" /\ invite'[j].email = invite[j].email /\ j # i
  <2>1. \E status \in {"accepted", "revoked"} : invite' = [invite EXCEPT ![i].status = status]
    BY DEF EnterpriseSignIn
  <2> QED  BY <2>1, Closed
<1>2. Active(member') \subseteq Active(member) \cup {u}
  <2>1. member' = member \/ \E role : member' = [member EXCEPT ![u] = Belongs(role)]
    BY DEF EnterpriseSignIn
  <2> QED  BY <1>0, <2>1 DEF Active
<1> QED  BY <1>0, <1>1, <1>2, InvitationSeat

\* Who is let in where a seat is left stays within the plan.
LEMMA SeatLeftIsEnough ==
  ASSUME TypeOK, SeatLeft(Pending),
         \/ /\ invite' = invite /\ parents' = parents
            /\ \E u : Active(member') \subseteq Active(member) \cup {u}
         \/ /\ member' = member
            /\ \E e : Held(invite', parents') \subseteq Held(invite, parents) \cup {e}
  PROVE  InPlan
<1>1. Taken(member, invite, parents) + 1 <= cap /\ cap \in Nat
  BY UsedIsTaken, HeldFinite, MembersAssumption DEF SeatLeft, TypeOK, Taken
<1>2. Taken(member', invite', parents') <= Taken(member, invite, parents) + 1
      /\ Taken(member', invite', parents') \in Nat
  <2>1. CASE /\ invite' = invite /\ parents' = parents
             /\ \E u : Active(member') \subseteq Active(member) \cup {u}
    <3>1. PICK u : Active(member') \subseteq Active(member) \cup {u}
      BY <2>1
    <3>2. IsFiniteSet(Active(member) \cup {u})
      BY HeldFinite, FS_AddElement
    <3>3. Cardinality(Active(member')) \in Nat
      BY <3>1, <3>2, FS_Subset, FS_CardinalityType
    <3>4. Cardinality(Active(member')) + Cardinality(Held(invite, parents))
            <= Cardinality(Active(member)) + Cardinality(Held(invite, parents)) + 1
      BY <3>1, HeldFinite, OneTaken
    <3>5. Held(invite', parents') = Held(invite, parents)
      BY <2>1
    <3> QED  BY <3>3, <3>4, <3>5, HeldFinite DEF Taken
  <2>2. CASE /\ member' = member
             /\ \E e : Held(invite', parents') \subseteq Held(invite, parents) \cup {e}
    <3>1. PICK e : Held(invite', parents') \subseteq Held(invite, parents) \cup {e}
      BY <2>2
    <3>2. IsFiniteSet(Held(invite, parents) \cup {e})
      BY HeldFinite, FS_AddElement
    <3>3. Cardinality(Held(invite', parents')) \in Nat
      BY <3>1, <3>2, FS_Subset, FS_CardinalityType
    <3>4. Cardinality(Held(invite', parents')) + Cardinality(Active(member))
            <= Cardinality(Held(invite, parents)) + Cardinality(Active(member)) + 1
      BY <3>1, HeldFinite, OneTaken
    <3> QED  BY <2>2, <3>3, <3>4, HeldFinite DEF Taken
  <2> QED  BY <2>1, <2>2
<1> QED  BY <1>1, <1>2, HeldFinite DEF InPlan, Taken

\* The steps that let somebody in because a seat is left.
LEMMA CountedSeat ==
  ASSUME TypeOK,
         \/ \E e \in Emails, i \in Invites, role \in Roles : Invite(e, i, role)
         \/ \E e \in Emails : InviteParent(e)
         \/ \E u \in Users : Join(u)
         \/ \E u \in Users, role \in Roles, status \in {"active", "suspended"} :
              PatchMembership(u, role, status)
  PROVE  InPlan \/ NoneTaken
<1>0. member \in [Users -> Membership] /\ invite \in [Invites -> Invitation]
  BY DEF TypeOK
<1>1. ASSUME NEW e \in Emails, NEW i \in Invites, NEW role \in Roles, Invite(e, i, role)
      PROVE  InPlan
  <2>1. /\ SeatLeft(Pending) /\ member' = member /\ parents' = parents
        /\ invite' = [invite EXCEPT ![i] = [email |-> e, role |-> role, status |-> "pending"]]
    BY <1>1 DEF Invite
  <2>2. Held(invite', parents') \subseteq Held(invite, parents) \cup {e}
    BY <1>0, <2>1 DEF Held
  <2> QED  BY <2>1, <2>2, SeatLeftIsEnough
<1>2. ASSUME NEW e \in Emails, InviteParent(e)
      PROVE  InPlan \/ NoneTaken
  <2>1. member' = member /\ invite' = invite /\ parents' = parents \cup {e}
    BY <1>2 DEF InviteParent
  <2>2. Held(invite', parents') \subseteq Held(invite, parents) \cup {e}
    BY <2>1 DEF Held
  <2>3. CASE SeatLeft(Pending)
    BY <2>1, <2>2, <2>3, SeatLeftIsEnough
  <2>4. CASE PendingFor(e) # {}
    <3>1. e \in Held(invite, parents)
      BY <2>4 DEF PendingFor, Pending, Held
    <3>2. Held(invite', parents') = Held(invite, parents)
      BY <2>1, <3>1 DEF Held
    <3> QED  BY <2>1, <3>2, NothingTaken DEF NoneTaken, Taken
  <2> QED  BY <1>2, <2>3, <2>4 DEF InviteParent
<1>3. ASSUME NEW u \in Users, Join(u)
      PROVE  InPlan
  <2>1. /\ SeatLeft(Pending) /\ invite' = invite /\ parents' = parents
        /\ member' = [member EXCEPT ![u] = Belongs("member")]
    BY <1>3 DEF Join
  <2>2. Active(member') \subseteq Active(member) \cup {u}
    BY <1>0, <2>1 DEF Active
  <2> QED  BY <2>1, <2>2, SeatLeftIsEnough
<1>4. ASSUME NEW u \in Users, NEW role \in Roles, NEW status \in {"active", "suspended"},
             PatchMembership(u, role, status)
      PROVE  InPlan \/ NoneTaken
  <2>1. /\ invite' = invite /\ parents' = parents
        /\ member[u].status # "none"
        /\ member[u].status = "suspended" /\ status = "active" => SeatLeft(Pending)
        /\ member' = [member EXCEPT ![u] = [status |-> status, role |-> role]]
    BY <1>4 DEF PatchMembership
  <2>2. CASE SeatLeft(Pending)
    <3>1. Active(member') \subseteq Active(member) \cup {u}
      BY <1>0, <2>1 DEF Active
    <3> QED  BY <2>1, <2>2, <3>1, SeatLeftIsEnough
  <2>3. CASE ~(member[u].status = "suspended" /\ status = "active")
    <3>1. Active(member') \subseteq Active(member)
      BY <1>0, <2>1, <2>3 DEF Active, Membership
    <3>2. Held(invite', parents') \subseteq Held(invite, parents)
      BY <2>1
    <3> QED  BY <3>1, <3>2, NothingTaken DEF NoneTaken, Taken
  <2> QED  BY <2>1, <2>2, <2>3
<1> QED  BY <1>1, <1>2, <1>3, <1>4

\* The steps that count no seat, and take none.
LEMMA UncountedSeat ==
  ASSUME TypeOK,
         \/ \E i \in Invites : Revoke(i)
         \/ \E e \in Emails : RevokeParent(e)
         \/ \E u \in Global : Begin(u) \/ List(u) \/ SignInFails(u)
         \/ \E u \in Users : Erase(u) \/ Recover(u)
         \/ \E o, a \in Users : Transfer(o, a)
         \/ \E c \in Caps : ChangePlan(c)
         \/ UNCHANGED vars
  PROVE  NoneTaken
<1>0. member \in [Users -> Membership] /\ invite \in [Invites -> Invitation]
  BY DEF TypeOK
<1>1. ASSUME NEW i \in Invites, Revoke(i)
      PROVE  /\ Active(member') \subseteq Active(member)
             /\ Held(invite', parents') \subseteq Held(invite, parents)
  BY <1>0, <1>1 DEF Revoke, Active, Held, Invitation
<1>2. ASSUME NEW e \in Emails, RevokeParent(e)
      PROVE  /\ Active(member') \subseteq Active(member)
             /\ Held(invite', parents') \subseteq Held(invite, parents)
  BY <1>2 DEF RevokeParent, Active, Held
<1>3. ASSUME NEW u \in Users, Erase(u)
      PROVE  /\ Active(member') \subseteq Active(member)
             /\ Held(invite', parents') \subseteq Held(invite, parents)
  <2>1. \A v \in Users : member'[v] = member[v] \/ member'[v].status = "suspended"
    BY <1>0, <1>3 DEF Erase, Membership
  <2> QED  BY <1>3, <2>1 DEF Erase, Active
<1>4. ASSUME NEW a \in Users, Recover(a)
      PROVE  /\ Active(member') \subseteq Active(member)
             /\ Held(invite', parents') \subseteq Held(invite, parents)
  <2>1. \A u \in Users : member'[u].status = member[u].status
    BY <1>0, <1>4 DEF Recover, Belongs, Membership
  <2>2. \A i \in Invites : invite'[i] = invite[i] \/ invite'[i].status = "revoked"
    BY <1>0, <1>4 DEF Recover
  <2>3. Held(invite', parents') \subseteq Held(invite, parents)
    BY <1>4, <2>2 DEF Recover, Held
  <2> QED  BY <2>1, <2>3 DEF Active
<1>5. ASSUME NEW o \in Users, NEW a \in Users, Transfer(o, a)
      PROVE  /\ Active(member') \subseteq Active(member)
             /\ Held(invite', parents') \subseteq Held(invite, parents)
  <2>1. \A u \in Users : member'[u].status = member[u].status
    BY <1>0, <1>5 DEF Transfer, Belongs
  <2> QED  BY <1>5, <2>1 DEF Transfer, Active
<1>6. \A u \in Global : Begin(u) \/ List(u) \/ SignInFails(u)
        => UNCHANGED <<member, invite, parents>>
  BY DEF Begin, List, SignInFails
<1>7. \A c \in Caps : ChangePlan(c) => UNCHANGED <<member, invite, parents>>
  BY DEF ChangePlan
<1>8. UNCHANGED vars => UNCHANGED <<member, invite, parents>>
  BY DEF vars
<1>9. /\ Active(member') \subseteq Active(member)
      /\ Held(invite', parents') \subseteq Held(invite, parents)
  BY <1>1, <1>2, <1>3, <1>4, <1>5, <1>6, <1>7, <1>8
<1> QED  BY <1>9, NothingTaken DEF NoneTaken, Taken

\* The first owner's invitation moves its seat to another email.
LEMMA MovedSeat ==
  ASSUME TypeOK, OnePerEmail(invite), NEW e \in Emails, ReplaceOwnerInvite(e)
  PROVE  NoneTaken \/ Split
<1>0. invite \in [Invites -> Invitation] /\ member' = member /\ parents' = parents
  BY DEF TypeOK, ReplaceOwnerInvite
<1>1. PICK i \in Invites : /\ invite[i].status = "pending" /\ PendingFor(e) \subseteq {i}
                           /\ invite' = [invite EXCEPT ![i].email = e]
  BY DEF ReplaceOwnerInvite, OwnerInvited
<1>2. PICK old \in Emails : old = invite[i].email
  BY <1>0 DEF Invitation
<1>3. /\ \A j \in Invites : j # i => invite'[j] = invite[j]
      /\ invite'[i].email = e /\ invite'[i].status = "pending"
  BY <1>0, <1>1 DEF Invitation
<1>4. CASE old = e
  <2>1. \A j \in Invites : invite'[j].email = invite[j].email /\ invite'[j].status = invite[j].status
    BY <1>1, <1>2, <1>3, <1>4
  <2>2. Held(invite', parents') \subseteq Held(invite, parents)
    BY <1>0, <2>1 DEF Held
  <2>3. Active(member') \subseteq Active(member)
    BY <1>0
  <2> QED  BY <2>2, <2>3, NothingTaken DEF NoneTaken, Taken
<1>5. CASE old # e /\ old \in parents
  <2>1. Doubled(old)
    BY <1>1, <1>2, <1>5 DEF Doubled, PendingFor, Pending
  <2>2. \A j \in Invites : invite'[j].status = "pending" => invite'[j].email # old
    BY <1>1, <1>2, <1>3, <1>5 DEF OnePerEmail
  <2>3. ~Doubled(old)'
    BY <2>2 DEF Doubled, PendingFor, Pending
  <2> QED  BY <2>1, <2>3 DEF Split
<1>6. CASE old # e /\ old \notin parents
  <2> DEFINE H == Held(invite, parents)
             K == Held(invite', parents')
  <2>1. old \in H /\ K \subseteq H \cup {e}
    BY <1>0, <1>1, <1>2, <1>3 DEF Held
  <2>2. old \notin K
    BY <1>0, <1>1, <1>2, <1>3, <1>6 DEF Held, OnePerEmail
  <2>3. IsFiniteSet(Active(member)) /\ IsFiniteSet(H) /\ Cardinality(H) \in Nat
    BY HeldFinite
  <2>4. IsFiniteSet(H \ {old}) /\ Cardinality(H \ {old}) = Cardinality(H) - 1
    BY <2>1, <2>3, FS_RemoveElement
  <2> DEFINE rest == H \ {old}
  <2>5. K \subseteq rest \cup {e}
    BY <2>1, <2>2
  <2>6. Cardinality(rest) \in Nat
    BY <2>4, FS_CardinalityType
  <2> HIDE DEF H, K, rest
  <2>7. IsFiniteSet(rest) /\ IsFiniteSet(rest \cup {e})
        /\ Cardinality(rest \cup {e}) <= Cardinality(rest) + 1
    BY <2>4, <2>6, FS_AddElement DEF rest
  <2>8. Cardinality(K) <= Cardinality(rest \cup {e}) /\ Cardinality(K) \in Nat
    BY <2>5, <2>7, FS_Subset, FS_CardinalityType
  <2>9. Cardinality(K) <= Cardinality(H)
    BY <2>3, <2>4, <2>6, <2>7, <2>8, FS_CardinalityType DEF rest
  <2>10. Active(member') = Active(member)
    BY <1>0
  <2> QED  BY <2>3, <2>8, <2>9, <2>10, HeldFinite DEF NoneTaken, Taken, H, K
<1> QED  BY <1>4, <1>5, <1>6

LEMMA SeatStep ==
  ASSUME TypeOK, OnePerEmail(invite), [Next]_vars, \A i \in Invites : ~Stale(i)
  PROVE  InPlan \/ NoneTaken \/ Split
<1>1. \A u \in Global : Accept(u) => NoneTaken \/ Split
  BY AcceptSeat
<1>2. \A e \in Emails : ReplaceOwnerInvite(e) => NoneTaken \/ Split
  BY MovedSeat
<1>3. \A u \in Enterprise, i \in Invites : EnterpriseSignIn(u, i) => NoneTaken \/ Split
  BY EnterpriseSeat
<1> QED  BY <1>1, <1>2, <1>3, CountedSeat, UncountedSeat DEF Next

\* Whatever the number of people, emails, invitations and sign-ins: the seats in use
\* and reserved grow beyond the plan only by a sign-in that accepts what was revoked or
\* taken after it had listed it, or where an email has two reservations. That the seat
\* an invitation reserved is free when it is accepted rests on OnePerEmail.
THEOREM Seats == Spec => SeatsAreNotOversold
<1> DEFINE SInv == TypeOK /\ OnePerEmail(invite)
<1>1. Init => SInv
  BY TypeInit, OnePerEmailInit
<1>2. SInv /\ [Next]_vars => SInv'
  BY TypeStep, OnePerEmailStep
<1>3. ASSUME SInv, [Next]_vars
      PROVE  LET before == Used(member, Pending, parents)
                 after == Used(member, Pending, parents)'
             IN  after > before =>
                   \/ after <= cap
                   \/ \E i \in Invites : Stale(i)
                   \/ \E e \in Emails : Doubled(e) /\ ~Doubled(e)'
  <2>1. CASE \E i \in Invites : Stale(i)
    BY <2>1
  <2>2. CASE \A i \in Invites : ~Stale(i)
    <3>1. InPlan \/ NoneTaken \/ Split
      BY <1>3, <2>2, SeatStep
    <3>2. /\ IsFiniteSet(Active(member)) /\ Taken(member, invite, parents) \in Nat
          /\ Taken(member', invite', parents') \in Nat
      <4>1. TypeOK'
        BY <1>3, TypeStep
      <4>2. Active(member') \in SUBSET Users /\ Held(invite', parents') \in SUBSET Emails
        BY <4>1 DEF Active, Held, TypeOK, Invitation
      <4>3. Cardinality(Active(member')) \in Nat /\ Cardinality(Held(invite', parents')) \in Nat
        BY <4>2, MembersAssumption, FS_Subset, FS_CardinalityType
      <4> QED  BY <1>3, <4>3, HeldFinite DEF Taken
    <3>3. cap \in Nat
      BY <1>3, MembersAssumption DEF TypeOK
    <3> QED  BY <3>1, <3>2, <3>3, UsedIsTaken DEF InPlan, NoneTaken, Split
  <2> QED  BY <2>1, <2>2
<1>4. SInv /\ [Next]_vars
        => [LET before == Used(member, Pending, parents)
                after == Used(member, Pending, parents)'
            IN  after > before =>
                  \/ after <= cap
                  \/ \E i \in Invites : Stale(i)
                  \/ \E e \in Emails : Doubled(e) /\ ~Doubled(e)']_vars
  BY <1>3
<1> HIDE DEF SInv
<1> QED  BY <1>1, <1>2, <1>4, PTL DEF Spec, SeatsAreNotOversold

------------------------------------------------------------------------------
(* Billing: StripeEvents, for any number of deliveries, subscriptions, plans, *)
(* events and faults.                                                        *)
Delivery == [at : {"idle", "apply", "complete", "release"}, event : 0..MaxEvents]
SubscriptionRow == [sub : Subs \cup {NoSub}, plan : Plans \cup {NoPlan},
                    status : Statuses \cup {"none"}, at : Nat]

Bought == [plan : Plans \cup {NoPlan}, status : Statuses \cup {"none"}]

\* A delivery that has begun is one of an event that Stripe made.
Known == \A h \in Handlers : delivery[h].at # "idle" => delivery[h].event \in DOMAIN events

BillingInv == StripeTypeOK /\ Known

------------------------------------------------------------------------------
(* Stripe.                                                                 *)

LEMMA NowType == ASSUME StripeTypeOK PROVE Now \in Nat
<1>1. CASE events = <<>>
  BY <1>1 DEF Now
<1>2. CASE events # <<>>
  <2>1. events[Len(events)] \in Event
    BY <1>2, EmptySeq DEF StripeTypeOK
  <2> QED  BY <1>2, <2>1 DEF Now, Event
<1> QED  BY <1>1, <1>2

\* New events are added at the end.
LEMMA Emitted ==
  ASSUME StripeTypeOK, NEW new \in Seq(Event), Emit(new)
  PROVE  /\ events' \in Seq(Event) /\ Len(events') <= MaxEvents
         /\ DOMAIN events \subseteq DOMAIN events'
<1>1. PICK at \in {Now, Now + 1} :
        events' = events \o [i \in 1..Len(new) |-> [new[i] EXCEPT !.at = at]]
  BY DEF Emit
<1> DEFINE stamped == [i \in 1..Len(new) |-> [new[i] EXCEPT !.at = at]]
<1>2. at \in Nat
  BY NowType
<1>3. Len(new) \in Nat /\ \A i \in 1..Len(new) : new[i] \in Event
  BY LenProperties, ElementOfSeq
<1>4. \A i \in 1..Len(new) : [new[i] EXCEPT !.at = at] \in Event
  BY <1>2, <1>3 DEF Event
<1>5. stamped \in Seq(Event) /\ Len(stamped) = Len(new)
  BY <1>3, <1>4, IsASeq, LenProperties
<1> HIDE DEF stamped
<1>6. events' = events \o stamped /\ events \in Seq(Event)
  BY <1>1 DEF stamped, StripeTypeOK
<1>7. events' \in Seq(Event) /\ Len(events') = Len(events) + Len(stamped)
  BY <1>5, <1>6, ConcatProperties
<1>8. /\ Len(events) \in Nat /\ DOMAIN events = 1..Len(events)
      /\ DOMAIN events' = 1..Len(events')
  BY <1>6, <1>7, LenProperties
<1>9. Len(events) + Len(new) <= MaxEvents
  BY DEF Emit
<1> QED  BY <1>3, <1>5, <1>7, <1>8, <1>9

LEMMA StripeType ==
  ASSUME StripeTypeOK, Stripe
  PROVE  /\ bought' \in [Subs -> Bought]
         /\ events' \in Seq(Event) /\ Len(events') <= MaxEvents
         /\ DOMAIN events \subseteq DOMAIN events'
         /\ UNCHANGED <<webhook, faults>>
<1>0. PICK k \in Subs :
        \/ \E plan \in Plans : Buy(k, plan)
        \/ \E new \in [plan : Plans, status : Statuses] : Change(k, new)
        \/ \E status \in {"active", "past_due"} : Bill(k, status)
  BY DEF Stripe
<1>1. ASSUME NEW plan \in Plans \cup {NoPlan}, NEW status \in Statuses
      PROVE  /\ Subscription(k, plan, status) \in Event
             /\ Invoice(k, status) \in Event
  BY DEF Subscription, Invoice, Event
<1>2. \A plan \in Plans \cup {NoPlan}, status \in Statuses :
        /\ <<Subscription(k, plan, status)>> \in Seq(Event)
        /\ <<Invoice(k, status)>> \in Seq(Event)
        /\ <<Subscription(k, plan, status), Invoice(k, status)>> \in Seq(Event)
  BY <1>1
<1>3. ASSUME NEW plan \in Plans, Buy(k, plan)
      PROVE  /\ bought' \in [Subs -> Bought]
             /\ Emit(<<Subscription(k, plan, "active")>>)
             /\ UNCHANGED <<webhook, faults>>
  BY <1>3 DEF Buy, StripeTypeOK, Statuses, Bought
<1>4. ASSUME NEW new \in [plan : Plans, status : Statuses], Change(k, new)
      PROVE  /\ bought' \in [Subs -> Bought]
             /\ Emit(<<Subscription(k, new.plan, new.status)>>)
             /\ UNCHANGED <<webhook, faults>>
  BY <1>4 DEF Change, StripeTypeOK, Statuses, Bought
<1>5. ASSUME NEW status \in {"active", "past_due"}, Bill(k, status)
      PROVE  /\ bought' \in [Subs -> Bought]
             /\ \/ Emit(<<Invoice(k, status)>>)
                \/ Emit(<<Subscription(k, bought[k].plan, status), Invoice(k, status)>>)
             /\ UNCHANGED <<webhook, faults>>
  <2> DEFINE b == [bought[k] EXCEPT !.status = status]
  <2>1. b \in Bought
    <3>1. bought[k] \in Bought
      BY DEF StripeTypeOK, Bought
    <3>2. status \in Statuses
      BY DEF Statuses
    <3> QED  BY <3>1, <3>2 DEF Bought
  <2>2. UNCHANGED bought \/ bought' = [bought EXCEPT ![k] = b]
    BY <1>5 DEF Bill
  <2> HIDE DEF b
  <2>3. bought' \in [Subs -> Bought]
    BY <2>1, <2>2 DEF StripeTypeOK, Bought
  <2> QED  BY <1>5, <2>3 DEF Bill
<1>6. bought[k].plan \in Plans \cup {NoPlan}
  BY DEF StripeTypeOK
<1>7. {"active", "past_due"} \subseteq Statuses
  BY DEF Statuses
<1> QED  BY <1>0, <1>2, <1>3, <1>4, <1>5, <1>6, <1>7, Emitted

------------------------------------------------------------------------------
(* Deliveries.                                                             *)

LEMMA OfType ==
  ASSUME BillingInv, NEW h \in Handlers, delivery[h].at # "idle"
  PROVE  /\ delivery[h].event \in Ids /\ Of(h) \in Event
         /\ delivery[h] \in Delivery
<1>1. delivery[h].event \in DOMAIN events /\ delivery[h] \in Delivery
  BY DEF BillingInv, Known, StripeTypeOK, Delivery
<1>2. events \in Seq(Event) /\ Len(events) <= MaxEvents /\ DOMAIN events = 1..Len(events)
  BY LenProperties DEF BillingInv, StripeTypeOK
<1> QED  BY <1>1, <1>2, ElementOfSeq, LenProperties, StripeAssumption DEF Of, Ids

LEMMA NoDeliveryType == NoDelivery \in Delivery /\ NoDelivery.at = "idle"
BY StripeAssumption DEF NoDelivery, Delivery

\* Whatever a step does to a delivery, it keeps its event, begins one or ends.
LEMMA DeliveryType ==
  ASSUME BillingInv, NEW h \in Handlers, NEW d,
         delivery' = [delivery EXCEPT ![h] = d], UNCHANGED events,
         d \in Delivery, d.at # "idle" => d.event \in DOMAIN events
  PROVE  delivery' \in [Handlers -> Delivery] /\ Known'
<1>1. delivery \in [Handlers -> Delivery]
  BY DEF BillingInv, StripeTypeOK, Delivery
<1> QED  BY <1>1 DEF BillingInv, Known

LEMMA GoType ==
  ASSUME BillingInv, NEW h \in Handlers, delivery[h].at # "idle",
         NEW at \in {"apply", "complete", "release"}, Go(h, at), UNCHANGED events
  PROVE  delivery' \in [Handlers -> Delivery] /\ Known'
<1> DEFINE d == [delivery[h] EXCEPT !.at = at]
<1>1. delivery[h] \in Delivery /\ delivery[h].event \in DOMAIN events
  BY OfType DEF BillingInv, Known
<1>2. d \in Delivery /\ d.event = delivery[h].event
  BY <1>1 DEF Delivery
<1>3. delivery' = [delivery EXCEPT ![h] = d]
  BY DEF Go
<1> HIDE DEF d
<1> QED  BY <1>1, <1>2, <1>3, DeliveryType

LEMMA AnswerType ==
  ASSUME BillingInv, NEW h \in Handlers, Answer(h), UNCHANGED events
  PROVE  delivery' \in [Handlers -> Delivery] /\ Known'
BY NoDeliveryType, DeliveryType DEF Answer

LEMMA WebhookType ==
  ASSUME BillingInv, NEW h \in Handlers, Webhook(h)
  PROVE  BillingInv'
<1> USE DEF BillingInv
<1>0. Fault => faults' \in 0..MaxFaults
  BY StripeAssumption DEF StripeTypeOK, Fault
<1>1. ASSUME NEW i \in Ids, Claim(h, i)
      PROVE  BillingInv'
  <2> DEFINE d == [at |-> "apply", event |-> i]
  <2>1. d \in Delivery /\ d.event = i /\ i \in DOMAIN events
    BY <1>1 DEF Delivery, Claim, Ids
  <2>2. delivery' = [delivery EXCEPT ![h] = d] /\ UNCHANGED events
    BY <1>1 DEF Claim, stripe
  <2> HIDE DEF d
  <2>3. delivery' \in [Handlers -> Delivery] /\ Known'
    BY <2>1, <2>2, DeliveryType
  <2> QED  BY <1>1, <2>3 DEF Claim, stripe, StripeTypeOK, Delivery
<1>2. CASE ApplySubscription(h)
  <2>1. delivery[h].at = "apply" /\ Go(h, "complete") /\ UNCHANGED events
    BY <1>2 DEF ApplySubscription, stripe
  <2>2. delivery' \in [Handlers -> Delivery] /\ Known'
    BY <2>1, GoType
  <2>3. /\ Of(h).sub \in Subs /\ Of(h).plan \in Plans \cup {NoPlan}
        /\ Of(h).status \in Statuses /\ Of(h).at \in Nat /\ delivery[h].event \in Ids
    BY <2>1, OfType DEF Event
  <2>4. row' \in SubscriptionRow /\ known' \in Nat /\ overtaken' \subseteq Ids
    BY <1>2, <2>3 DEF ApplySubscription, StripeTypeOK, SubscriptionRow
  <2> QED  BY <1>2, <2>2, <2>4 DEF ApplySubscription, stripe, StripeTypeOK, Delivery,
                                  SubscriptionRow
<1>3. CASE ApplyInvoice(h)
  <2>1. delivery[h].at = "apply" /\ Go(h, "complete") /\ UNCHANGED events
    BY <1>3 DEF ApplyInvoice, stripe
  <2>2. delivery' \in [Handlers -> Delivery] /\ Known'
    BY <2>1, GoType
  <2>3. Of(h).status \in Statuses /\ Of(h).at \in Nat
    BY <2>1, OfType DEF Event
  <2>4. row' \in SubscriptionRow
    BY <1>3, <2>3 DEF ApplyInvoice, StripeTypeOK, SubscriptionRow
  <2> QED  BY <1>3, <2>2, <2>4 DEF ApplyInvoice, stripe, StripeTypeOK, Delivery,
                                  SubscriptionRow
<1>4. CASE ApplyFails(h)
  <2>1. delivery' \in [Handlers -> Delivery] /\ Known'
    BY <1>4, GoType DEF ApplyFails, stripe
  <2>2. faults' \in 0..MaxFaults
    BY <1>0, <1>4 DEF ApplyFails, StripeTypeOK
  <2> QED  BY <1>4, <2>1, <2>2 DEF ApplyFails, stripe, StripeTypeOK, Delivery
<1>5. CASE Complete(h)
  <2>1. delivery' \in [Handlers -> Delivery] /\ Known' /\ delivery[h].event \in Ids
    BY <1>5, AnswerType, OfType DEF Complete, stripe
  <2> QED  BY <1>5, <2>1 DEF Complete, stripe, StripeTypeOK, Delivery
<1>6. CASE Release(h)
  <2>1. delivery' \in [Handlers -> Delivery] /\ Known' /\ delivery[h].event \in Ids
    BY <1>6, AnswerType, OfType DEF Release, stripe
  <2> QED  BY <1>6, <2>1 DEF Release, stripe, StripeTypeOK, Delivery
<1>7. CASE Die(h)
  <2>1. delivery' \in [Handlers -> Delivery] /\ Known'
    BY <1>7, AnswerType DEF Die, stripe
  <2> QED  BY <1>0, <1>7, <2>1 DEF Die, stripe, StripeTypeOK, Delivery
<1>8. CASE AnswerLost(h)
  <2>1. delivery' \in [Handlers -> Delivery] /\ Known' /\ delivery[h].event \in Ids
    BY <1>8, AnswerType, OfType DEF AnswerLost, stripe
  <2> QED  BY <1>0, <1>8, <2>1 DEF AnswerLost, stripe, StripeTypeOK, Delivery
<1> QED  BY <1>1, <1>2, <1>3, <1>4, <1>5, <1>6, <1>7, <1>8 DEF Webhook

LEMMA BillingInit == StripeInit => BillingInv
<1> SUFFICES ASSUME StripeInit PROVE BillingInv
  OBVIOUS
<1>1. events \in Seq(Event) /\ Len(events) <= MaxEvents
  BY StripeAssumption DEF StripeInit
<1>2. delivery \in [Handlers -> Delivery] /\ Known
  BY NoDeliveryType DEF StripeInit, Known
<1>3. row \in SubscriptionRow
  BY DEF StripeInit, NoRow, SubscriptionRow
<1> QED
  BY <1>1, <1>2, <1>3, StripeAssumption DEF StripeInit, BillingInv, StripeTypeOK, Delivery, SubscriptionRow

LEMMA BillingStep ==
  BillingInv /\ [StripeNext]_stripeVars => BillingInv'
<1> SUFFICES ASSUME BillingInv, [StripeNext]_stripeVars PROVE BillingInv'
  OBVIOUS
<1>1. CASE Stripe
  BY <1>1, StripeType DEF BillingInv, StripeTypeOK, Bought, Known, webhook
<1>2. ASSUME NEW h \in Handlers, Webhook(h)
      PROVE  BillingInv'
  BY <1>2, WebhookType
<1>3. ASSUME NEW i \in Ids, AnswerDuplicate(i) \/ Age(i)
      PROVE  BillingInv'
  BY <1>3 DEF AnswerDuplicate, Age, stripe, BillingInv, StripeTypeOK, Known
<1>4. CASE UNCHANGED stripeVars
  BY <1>4 DEF stripeVars, BillingInv, StripeTypeOK, Known
<1> QED  BY <1>1, <1>2, <1>3, <1>4 DEF StripeNext

\* Every reachable state is well typed, for any number of deliveries of a tenant's
\* Stripe events, and a delivery in flight is always one of an event that was made.
THEOREM BillingTypeCorrect == StripeSpec => [](StripeTypeOK /\ Known)
<1>1. BillingInv => StripeTypeOK /\ Known
  BY DEF BillingInv
<1> QED  BY <1>1, BillingInit, BillingStep, PTL DEF StripeSpec

------------------------------------------------------------------------------
(* What was answered 200.                                                  *)

LEMMA AckedStep ==
  BillingInv /\ AckedIsProcessed /\ [StripeNext]_stripeVars => AckedIsProcessed'
<1> SUFFICES ASSUME BillingInv, AckedIsProcessed, [StripeNext]_stripeVars, NEW i \in acked'
             PROVE  claim'[i] = "done" \/ i \in swallowed'
  BY DEF AckedIsProcessed
<1>0. /\ claim \in [Ids -> {"none", "processing", "old", "released", "done"}]
      /\ acked \subseteq Ids
  BY DEF BillingInv, StripeTypeOK
<1>1. i \in acked => claim[i] = "done" \/ i \in swallowed
  BY DEF AckedIsProcessed
<1>2. CASE Stripe
  BY <1>1, <1>2, StripeType DEF BillingInv, webhook
<1>3. ASSUME NEW h \in Handlers, Webhook(h)
      PROVE  claim'[i] = "done" \/ i \in swallowed'
  <2>1. ASSUME NEW j \in Ids, Claim(h, j)
        PROVE  claim'[i] = "done" \/ i \in swallowed'
    BY <1>0, <1>1, <2>1 DEF Claim
  <2>2. CASE ApplySubscription(h) \/ ApplyInvoice(h) \/ ApplyFails(h) \/ Die(h)
    BY <1>1, <2>2 DEF ApplySubscription, ApplyInvoice, ApplyFails, Die
  <2>3. CASE Complete(h) \/ Release(h) \/ AnswerLost(h)
    <3>1. delivery[h].event \in Ids
      BY <2>3, OfType, NoDeliveryType DEF Complete, Release, AnswerLost
    <3> QED  BY <1>0, <1>1, <2>3, <3>1 DEF Complete, Release, AnswerLost
  <2> QED  BY <1>3, <2>1, <2>2, <2>3 DEF Webhook
<1>4. ASSUME NEW j \in Ids, AnswerDuplicate(j) \/ Age(j)
      PROVE  claim'[i] = "done" \/ i \in swallowed'
  BY <1>0, <1>1, <1>4 DEF AnswerDuplicate, Age
<1>5. CASE UNCHANGED stripeVars
  BY <1>1, <1>5 DEF stripeVars
<1> QED  BY <1>2, <1>3, <1>4, <1>5 DEF StripeNext

\* An event that Stripe will not send again is processed, or a delivery of it was
\* answered 200 while another one had it: neither a release nor an abandoned claim is
\* taken for a completion, however many deliveries of however many events overlap.
THEOREM Acked == StripeSpec => []AckedIsProcessed
<1>1. StripeInit => AckedIsProcessed
  BY DEF StripeInit, AckedIsProcessed
<1>2. BillingInv /\ AckedIsProcessed /\ [StripeNext]_stripeVars =>
        (BillingInv /\ AckedIsProcessed)'
  BY BillingStep, AckedStep
<1> QED  BY <1>1, <1>2, BillingInit, PTL DEF StripeSpec

------------------------------------------------------------------------------
(* What the row says once all events are processed.                        *)

\* Stripe makes its events one after the other.
InOrder ==
  \A i, j \in DOMAIN events : 0 < events[i].at /\ (i <= j => events[i].at <= events[j].at)

\* What Stripe has of a subscription is what its newest event told, but for the invoices
\* of a canceled one.
Newest(k, j) ==
  /\ j \in Told /\ events[j].sub = k
  /\ events[j].plan = bought[k].plan /\ events[j].status = bought[k].status
  /\ \A i \in DOMAIN events : events[i].sub = k /\ j < i =>
       i \notin Told /\ (events[i].status = bought[k].status \/ bought[k].status = "canceled")

ToldOf(k) ==
  IF bought[k].status = "none" THEN \A i \in DOMAIN events : events[i].sub # k
  ELSE \E j \in Told : Newest(k, j)

\* The row has the subscription and the plan of the newest event applied to it, and the
\* status of that or of a later invoice.
RowIsTold ==
  \/ row = NoRow /\ known = 0
  \/ /\ known <= row.at
     /\ \E i \in Told : /\ events[i].at = known
                        /\ row.sub = events[i].sub /\ row.plan = events[i].plan
     /\ \E i \in DOMAIN events : /\ events[i].at = row.at
                                 /\ row.sub = events[i].sub /\ row.status = events[i].status

\* An event of a subscription that was applied is no newer than the row knows, or was
\* overtaken by an invoice.
Applied(i) == claim[i] = "done" \/ \E h \in Handlers : delivery[h] = [at |-> "complete", event |-> i]
Heard == \A i \in Told : Applied(i) => events[i].at <= known \/ i \in overtaken

\* Only what was made is claimed.
Made == \A i \in Ids : claim[i] # "none" => i \in DOMAIN events

FollowInv == InOrder /\ (\A k \in Subs : ToldOf(k)) /\ RowIsTold /\ Heard /\ Made

LEMMA EventsType ==
  ASSUME StripeTypeOK
  PROVE  /\ Len(events) \in Nat /\ DOMAIN events = 1..Len(events)
         /\ \A i \in DOMAIN events : events[i] \in Event /\ events[i].at \in Nat
<1>1. events \in Seq(Event)
  BY DEF StripeTypeOK
<1>2. Len(events) \in Nat /\ DOMAIN events = 1..Len(events)
  BY <1>1, LenProperties
<1>3. \A i \in 1..Len(events) : events[i] \in Event
  BY <1>1, ElementOfSeq
<1>4. \A e \in Event : e.at \in Nat
  BY DEF Event
<1> QED  BY <1>2, <1>3, <1>4

\* The old events stay what they are, and the new ones are of this second or a later one.
LEMMA Extended ==
  ASSUME StripeTypeOK, NEW new \in Seq(Event), Emit(new)
  PROVE  \E at \in Nat :
           /\ 0 < at /\ Now <= at
           /\ DOMAIN events' = 1..(Len(events) + Len(new))
           /\ \A i \in DOMAIN events : events'[i] = events[i]
           /\ \A i \in 1..Len(new) : events'[Len(events) + i] = [new[i] EXCEPT !.at = at]
<1>1. PICK at \in {Now, Now + 1} \ {0} :
        events' = events \o [i \in 1..Len(new) |-> [new[i] EXCEPT !.at = at]]
  BY DEF Emit
<1> DEFINE stamped == [i \in 1..Len(new) |-> [new[i] EXCEPT !.at = at]]
<1>2. at \in Nat /\ 0 < at /\ Now <= at
  BY NowType
<1>3. Len(new) \in Nat /\ \A i \in 1..Len(new) : new[i] \in Event
  BY LenProperties, ElementOfSeq
<1>4. \A i \in 1..Len(new) : [new[i] EXCEPT !.at = at] \in Event
  BY <1>2, <1>3 DEF Event
<1>5. stamped \in Seq(Event) /\ Len(stamped) = Len(new)
  BY <1>3, <1>4, IsASeq, LenProperties
<1>6. \A i \in 1..Len(new) : stamped[i] = [new[i] EXCEPT !.at = at]
  OBVIOUS
<1> HIDE DEF stamped
<1>7. events' = events \o stamped /\ events \in Seq(Event)
  BY <1>1 DEF stamped, StripeTypeOK
<1>8. /\ events' \in Seq(Event) /\ Len(events') = Len(events) + Len(stamped)
      /\ \A i \in 1..Len(events) + Len(stamped) :
           events'[i] = IF i <= Len(events) THEN events[i] ELSE stamped[i - Len(events)]
  BY <1>5, <1>7, ConcatProperties
<1>9. DOMAIN events' = 1..(Len(events) + Len(new))
  BY <1>5, <1>8, LenProperties
<1>10. ASSUME NEW i \in 1..Len(new)
       PROVE  events'[Len(events) + i] = stamped[i]
  <2>1. /\ Len(events) + i \in 1..Len(events) + Len(stamped)
        /\ ~(Len(events) + i <= Len(events)) /\ (Len(events) + i) - Len(events) = i
    BY <1>3, <1>5, EventsType
  <2> QED  BY <1>8, <2>1
<1>11. \A i \in DOMAIN events : events'[i] = events[i]
  BY <1>3, <1>5, <1>8, EventsType
<1> QED  BY <1>2, <1>6, <1>9, <1>10, <1>11

LEMMA OrderStep ==
  ASSUME StripeTypeOK, InOrder, NEW new \in Seq(Event), Emit(new)
  PROVE  InOrder'
<1>1. PICK at \in Nat :
        /\ 0 < at /\ Now <= at
        /\ DOMAIN events' = 1..(Len(events) + Len(new))
        /\ \A i \in DOMAIN events : events'[i] = events[i]
        /\ \A i \in 1..Len(new) : events'[Len(events) + i] = [new[i] EXCEPT !.at = at]
  BY Extended
<1>2. Len(new) \in Nat /\ \A i \in 1..Len(new) : [new[i] EXCEPT !.at = at].at = at
  BY LenProperties, ElementOfSeq DEF Event
<1>3. \A i \in DOMAIN events' \ DOMAIN events : events'[i].at = at
  <2> SUFFICES ASSUME NEW i \in DOMAIN events', i \notin DOMAIN events
               PROVE  events'[i].at = at
    OBVIOUS
  <2>1. i - Len(events) \in 1..Len(new) /\ Len(events) + (i - Len(events)) = i
    BY <1>1, <1>2, EventsType
  <2>2. PICK m \in 1..Len(new) : Len(events) + m = i
    BY <2>1
  <2>3. events'[i] = [new[m] EXCEPT !.at = at]
    BY <1>1, <2>2
  <2> QED  BY <1>2, <2>3
<1>4. \A i \in DOMAIN events : events[i].at <= at
  <2> SUFFICES ASSUME NEW i \in DOMAIN events PROVE events[i].at <= at
    OBVIOUS
  <2>1. Len(events) \in DOMAIN events /\ i <= Len(events) /\ events # <<>>
    BY EventsType
  <2>2. Now = events[Len(events)].at
    BY <2>1 DEF Now
  <2> QED  BY <1>1, <2>1, <2>2, EventsType DEF InOrder
<1> SUFFICES ASSUME NEW i \in DOMAIN events', NEW j \in DOMAIN events'
             PROVE  0 < events'[i].at /\ (i <= j => events'[i].at <= events'[j].at)
  BY DEF InOrder
<1>5. CASE i \in DOMAIN events /\ j \in DOMAIN events
  BY <1>1, <1>5 DEF InOrder
<1>6. CASE i \in DOMAIN events /\ j \notin DOMAIN events
  BY <1>1, <1>3, <1>4, <1>6 DEF InOrder
<1>7. CASE i \notin DOMAIN events /\ j \in DOMAIN events
  BY <1>1, <1>2, <1>3, <1>7, EventsType
<1>8. CASE i \notin DOMAIN events /\ j \notin DOMAIN events
  BY <1>1, <1>3, <1>8
<1> QED  BY <1>5, <1>6, <1>7, <1>8

\* What Stripe does to a subscription k, which is b after it, and what it tells.
Tells(k, b, new) ==
  /\ bought' = [bought EXCEPT ![k] = b] /\ b.status # "none"
  /\ \/ new = <<Subscription(k, b.plan, b.status)>>
     \/ new = <<Subscription(k, b.plan, b.status), Invoice(k, b.status)>>
     \/ /\ b = bought[k]
        /\ \E status \in Statuses : new = <<Invoice(k, status)>> /\ b.status \in {status, "canceled"}

LEMMA StripeTells ==
  ASSUME StripeTypeOK, Stripe
  PROVE  \E k \in Subs : \E b \in Bought : \E new \in Seq(Event) :
           Emit(new) /\ Tells(k, b, new)
<1>0. PICK k \in Subs :
        \/ \E plan \in Plans : Buy(k, plan)
        \/ \E new \in [plan : Plans, status : Statuses] : Change(k, new)
        \/ \E status \in {"active", "past_due"} : Bill(k, status)
  BY DEF Stripe
<1>1. ASSUME NEW plan \in Plans \cup {NoPlan}, NEW status \in Statuses
      PROVE  /\ <<Subscription(k, plan, status)>> \in Seq(Event)
             /\ <<Invoice(k, status)>> \in Seq(Event)
             /\ <<Subscription(k, plan, status), Invoice(k, status)>> \in Seq(Event)
  <2>1. Subscription(k, plan, status) \in Event /\ Invoice(k, status) \in Event
    BY DEF Subscription, Invoice, Event
  <2> QED  BY <2>1
<1>2. bought \in [Subs -> Bought] /\ bought[k] \in Bought
  BY DEF StripeTypeOK, Bought
<1>3. ASSUME NEW plan \in Plans, Buy(k, plan)
      PROVE  \E b \in Bought : \E new \in Seq(Event) : Emit(new) /\ Tells(k, b, new)
  <2> DEFINE b == [plan |-> plan, status |-> "active"]
             new == <<Subscription(k, plan, "active")>>
  <2>1. b \in Bought /\ b.status # "none" /\ b.plan = plan /\ b.status = "active"
    BY DEF Bought, Statuses
  <2>2. bought' = [bought EXCEPT ![k] = b] /\ Emit(new)
    BY <1>3 DEF Buy
  <2>3. new \in Seq(Event)
    BY <1>1 DEF Statuses
  <2>4. new = <<Subscription(k, b.plan, b.status)>>
    BY <2>1
  <2> HIDE DEF b, new
  <2>5. Tells(k, b, new)
    BY <2>1, <2>2, <2>4 DEF Tells
  <2> QED  BY <2>1, <2>2, <2>3, <2>5
<1>4. ASSUME NEW b \in [plan : Plans, status : Statuses], Change(k, b)
      PROVE  \E c \in Bought : \E new \in Seq(Event) : Emit(new) /\ Tells(k, c, new)
  <2>1. b \in Bought /\ b.status # "none" /\ b.plan \in Plans /\ b.status \in Statuses
    BY DEF Bought, Statuses
  <2>2. bought' = [bought EXCEPT ![k] = b] /\ Emit(<<Subscription(k, b.plan, b.status)>>)
    BY <1>4 DEF Change
  <2>3. <<Subscription(k, b.plan, b.status)>> \in Seq(Event)
    BY <1>1, <2>1
  <2>4. Tells(k, b, <<Subscription(k, b.plan, b.status)>>)
    BY <2>1, <2>2 DEF Tells
  <2> QED  BY <2>1, <2>2, <2>3, <2>4
<1>5. ASSUME NEW status \in {"active", "past_due"}, Bill(k, status)
      PROVE  \E b \in Bought : \E new \in Seq(Event) : Emit(new) /\ Tells(k, b, new)
  <2>0. status \in Statuses
    BY DEF Statuses
  <2>1. CASE bought[k].status \in {status, "canceled"}
    <3>1. bought' = [bought EXCEPT ![k] = bought[k]] /\ Emit(<<Invoice(k, status)>>)
      BY <1>2, <1>5, <2>1 DEF Bill
    <3>2. <<Invoice(k, status)>> \in Seq(Event)
      BY <1>1, <2>0
    <3>3. Tells(k, bought[k], <<Invoice(k, status)>>)
      BY <1>5, <2>0, <2>1, <3>1 DEF Tells, Bill
    <3> QED  BY <1>2, <3>1, <3>2, <3>3
  <2>2. CASE bought[k].status \notin {status, "canceled"}
    <3> DEFINE b == [bought[k] EXCEPT !.status = status]
    <3>1. b \in Bought /\ b.plan = bought[k].plan /\ b.status = status
      BY <1>2, <2>0 DEF Bought
    <3>2. /\ bought' = [bought EXCEPT ![k] = b]
          /\ Emit(<<Subscription(k, bought[k].plan, status), Invoice(k, status)>>)
      BY <1>2, <1>5, <2>2 DEF Bill
    <3> HIDE DEF b
    <3>3. <<Subscription(k, bought[k].plan, status), Invoice(k, status)>> \in Seq(Event)
      BY <1>1, <1>2, <2>0 DEF Bought
    <3>4. Tells(k, b, <<Subscription(k, bought[k].plan, status), Invoice(k, status)>>)
      BY <2>0, <3>1, <3>2 DEF Tells
    <3> QED  BY <3>1, <3>2, <3>3, <3>4
  <2> QED  BY <2>1, <2>2
<1> QED  BY <1>0, <1>3, <1>4, <1>5

\* Each subscription stays what its newest event told.
LEMMA ToldStep ==
  ASSUME StripeTypeOK, \A k \in Subs : ToldOf(k), NEW k \in Subs, NEW b \in Bought,
         NEW new \in Seq(Event), Emit(new), Tells(k, b, new)
  PROVE  (\A u \in Subs : ToldOf(u))'
<1>0. PICK n \in Nat : n = Len(events)
  BY EventsType
<1>1. PICK at \in Nat :
        /\ 0 < at /\ Now <= at
        /\ DOMAIN events' = 1..(n + Len(new))
        /\ \A i \in DOMAIN events : events'[i] = events[i]
        /\ \A i \in 1..Len(new) : events'[n + i] = [new[i] EXCEPT !.at = at]
  BY <1>0, Extended
<1>2. /\ n \in Nat /\ DOMAIN events = 1..n
      /\ bought \in [Subs -> Bought] /\ bought' = [bought EXCEPT ![k] = b] /\ bought'[k] = b
  BY <1>0, EventsType DEF StripeTypeOK, Bought, Tells
<1>3. \A i \in DOMAIN events : i \in Told <=> i \in Told'
  BY <1>1, <1>2 DEF Told
<1>4. CASE \/ new = <<Subscription(k, b.plan, b.status)>>
           \/ new = <<Subscription(k, b.plan, b.status), Invoice(k, b.status)>>
  <2>1. /\ Len(new) \in {1, 2} /\ new[1] = Subscription(k, b.plan, b.status)
        /\ Len(new) = 2 => new[2] = Invoice(k, b.status)
    BY <1>4
  <2>2. /\ n + 1 \in DOMAIN events'
        /\ events'[n + 1] = [Subscription(k, b.plan, b.status) EXCEPT !.at = at]
    BY <1>1, <1>2, <2>1
  <2>3. ASSUME NEW i \in DOMAIN events', n + 1 < i
        PROVE  events'[i] = [Invoice(k, b.status) EXCEPT !.at = at]
    <3>1. i \in 1..(n + 1) \/ (i \in 1..(n + 2) /\ Len(new) = 2)
      BY <1>1, <2>1
    <3>2. i = n + 2 /\ Len(new) = 2
      BY <1>0, <2>3, <3>1
    <3> QED  BY <1>1, <2>1, <3>2
  <2>4. \A i \in DOMAIN events' : i \in DOMAIN events \/ i = n + 1 \/ n + 1 < i
    BY <1>1, <1>2, <2>1
  <2>5. /\ events'[n + 1].kind = "subscription" /\ events'[n + 1].sub = k
        /\ events'[n + 1].plan = b.plan /\ events'[n + 1].status = b.status
    BY <2>2 DEF Subscription
  <2>6. \A i \in DOMAIN events' : n + 1 < i =>
          /\ events'[i].kind = "invoice" /\ events'[i].sub = k /\ events'[i].status = b.status
    BY <2>3 DEF Invoice
  <2>7. n + 1 \in Told' /\ \A i \in DOMAIN events' : n + 1 < i => i \notin Told'
    BY <2>2, <2>5, <2>6 DEF Told
  <2>8. Newest(k, n + 1)'
    BY <1>2, <2>5, <2>6, <2>7 DEF Newest
  <2>9. ASSUME NEW u \in Subs, u # k PROVE ToldOf(u)'
    <3>1. bought'[u] = bought[u] /\ ToldOf(u)
      BY <1>2, <2>9
    <3>2. \A i \in DOMAIN events' : i \in DOMAIN events \/ events'[i].sub # u
      BY <2>4, <2>5, <2>6, <2>9
    <3>3. ASSUME NEW j \in Told, Newest(u, j) PROVE j \in Told' /\ Newest(u, j)'
      <4>1. j \in DOMAIN events /\ j \in Told'
        BY <1>3 DEF Told
      <4>2. events'[j] = events[j]
        BY <1>1, <4>1
      <4>3. ASSUME NEW i \in DOMAIN events', events'[i].sub = u, j < i
            PROVE  /\ i \notin Told'
                   /\ events'[i].status = bought'[u].status \/ bought'[u].status = "canceled"
        <5>1. i \in DOMAIN events /\ events'[i] = events[i]
          BY <1>1, <3>2, <4>3
        <5> QED  BY <1>3, <3>1, <3>3, <4>3, <5>1 DEF Newest
      <4> QED  BY <3>1, <3>3, <4>1, <4>2, <4>3 DEF Newest
    <3> QED  BY <1>1, <3>1, <3>2, <3>3 DEF ToldOf
  <2>10. ToldOf(k)'
    BY <1>2, <2>7, <2>8 DEF ToldOf, Tells
  <2> QED  BY <2>9, <2>10
<1>5. ASSUME b = bought[k], NEW status \in Statuses, new = <<Invoice(k, status)>>,
             b.status \in {status, "canceled"}
      PROVE  (\A u \in Subs : ToldOf(u))'
  <2>1. bought' = bought
    BY <1>2, <1>5
  <2>2. events'[n + 1] = [Invoice(k, status) EXCEPT !.at = at]
    BY <1>1, <1>2, <1>5
  <2>3. events'[n + 1].kind = "invoice" /\ events'[n + 1].sub = k /\ events'[n + 1].status = status
    BY <2>2 DEF Invoice
  <2>4. DOMAIN events' = 1..(n + 1)
    BY <1>1, <1>2, <1>5
  <2>5. n + 1 \notin Told' /\ \A i \in DOMAIN events' : i \in DOMAIN events \/ i = n + 1
    BY <1>2, <2>3, <2>4 DEF Told
  <2> SUFFICES ASSUME NEW u \in Subs PROVE ToldOf(u)'
    OBVIOUS
  <2>6. ASSUME NEW j \in Told, Newest(u, j) PROVE j \in Told' /\ Newest(u, j)'
    <3>1. j \in DOMAIN events /\ j \in Told' /\ events'[j] = events[j]
      BY <1>1, <1>3 DEF Told
    <3>2. ASSUME NEW i \in DOMAIN events', events'[i].sub = u, j < i
          PROVE  /\ i \notin Told'
                 /\ events'[i].status = bought[u].status \/ bought[u].status = "canceled"
      <4>1. CASE i \in DOMAIN events
        <5>1. events'[i] = events[i] /\ (i \in Told <=> i \in Told')
          BY <1>1, <1>3, <4>1
        <5> QED  BY <2>6, <3>2, <4>1, <5>1 DEF Newest
      <4>2. CASE i = n + 1
        BY <1>5, <2>3, <2>5, <3>2, <4>2
      <4> QED  BY <2>5, <4>1, <4>2
    <3> QED  BY <2>1, <2>6, <3>1, <3>2 DEF Newest
  <2>7. CASE bought[u].status = "none"
    <3>1. u # k /\ \A i \in DOMAIN events : events[i].sub # u
      BY <1>5, <2>7 DEF ToldOf, Tells
    <3>2. \A i \in DOMAIN events' : events'[i].sub # u
      BY <1>1, <2>3, <2>5, <3>1
    <3> QED  BY <2>1, <2>7, <3>2 DEF ToldOf
  <2>8. CASE bought[u].status # "none"
    BY <2>1, <2>6, <2>8 DEF ToldOf
  <2> QED  BY <2>7, <2>8
<1> QED  BY <1>4, <1>5 DEF Tells

\* The row and the deliveries do not change with what Stripe makes.
LEMMA StripeFollows ==
  ASSUME BillingInv, FollowInv, Stripe
  PROVE  FollowInv'
<1>1. PICK k \in Subs, b \in Bought, new \in Seq(Event) : Emit(new) /\ Tells(k, b, new)
  BY StripeTells DEF BillingInv
<1>2. UNCHANGED <<row, known, claim, delivery, overtaken>>
  BY StripeType DEF BillingInv, webhook
<1>3. DOMAIN events \subseteq DOMAIN events' /\ \A i \in DOMAIN events : events'[i] = events[i]
  BY <1>1, Emitted, Extended DEF BillingInv
<1>4. InOrder' /\ (\A u \in Subs : ToldOf(u))'
  BY <1>1, OrderStep, ToldStep DEF BillingInv, FollowInv
<1>5. \A i \in DOMAIN events : i \in Told <=> i \in Told'
  BY <1>3 DEF Told
<1>6. RowIsTold'
  <2>1. RowIsTold
    BY DEF FollowInv
  <2>2. CASE row = NoRow /\ known = 0
    BY <1>2, <2>2 DEF RowIsTold, NoRow
  <2>3. CASE ~(row = NoRow /\ known = 0)
    <3>1. PICK i \in Told : /\ events[i].at = known
                            /\ row.sub = events[i].sub /\ row.plan = events[i].plan
      BY <2>1, <2>3 DEF RowIsTold
    <3>2. PICK j \in DOMAIN events : /\ events[j].at = row.at
                                     /\ row.sub = events[j].sub /\ row.status = events[j].status
      BY <2>1, <2>3 DEF RowIsTold
    <3>3. i \in Told' /\ events'[i] = events[i] /\ j \in DOMAIN events' /\ events'[j] = events[j]
      BY <1>3, <1>5 DEF Told
    <3> QED  BY <1>2, <2>1, <2>3, <3>1, <3>2, <3>3 DEF RowIsTold
  <2> QED  BY <2>2, <2>3
<1>7. Made'
  BY <1>2, <1>3 DEF FollowInv, Made
<1>8. ASSUME NEW i \in Told', Applied(i)'
      PROVE  events'[i].at <= known' \/ i \in overtaken'
  <2>1. Applied(i)
    BY <1>2, <1>8 DEF Applied
  <2>2. i \in DOMAIN events
    <3>1. CASE claim[i] = "done"
      <4>1. events' \in Seq(Event) /\ Len(events') <= MaxEvents
        BY <1>1, Emitted DEF BillingInv
      <4>2. DOMAIN events' = 1..Len(events') /\ Len(events') \in Nat
        BY <4>1, LenProperties
      <4>3. i \in Ids
        BY <4>1, <4>2, StripeAssumption DEF Told, Ids
      <4> QED  BY <3>1, <4>3 DEF FollowInv, Made
    <3>2. ASSUME NEW h \in Handlers, delivery[h] = [at |-> "complete", event |-> i]
          PROVE  i \in DOMAIN events
      BY <3>2 DEF BillingInv, Known
    <3> QED  BY <2>1, <3>1, <3>2 DEF Applied
  <2> QED  BY <1>2, <1>3, <1>5, <1>8, <2>1, <2>2 DEF FollowInv, Heard
<1> QED  BY <1>4, <1>6, <1>7, <1>8 DEF FollowInv, Heard

\* Events and subscriptions are Stripe's, and the row is touched by what is applied.
LEMMA SameRow ==
  ASSUME FollowInv, UNCHANGED <<stripe, row, known, overtaken>>, Made',
         \A i \in Told : Applied(i)' => Applied(i)
  PROVE  FollowInv'
<1>1. InOrder' /\ (\A k \in Subs : ToldOf(k))' /\ RowIsTold'
  BY DEF FollowInv, stripe, InOrder, ToldOf, Newest, Told, RowIsTold, NoRow
<1>2. Heard'
  BY DEF FollowInv, stripe, Heard, Told
<1> QED  BY <1>1, <1>2 DEF FollowInv

LEMMA MadeAreIds == ASSUME BillingInv PROVE DOMAIN events \subseteq Ids
BY EventsType, StripeAssumption DEF BillingInv, StripeTypeOK, Ids

\* A delivery that ends or goes on elsewhere applies nothing.
LEMMA NotApplied ==
  ASSUME BillingInv, NEW h \in Handlers, NEW d \in Delivery, d.at # "complete",
         delivery' = [delivery EXCEPT ![h] = d],
         NEW i, claim'[i] = "done" => Applied(i), Applied(i)'
  PROVE  Applied(i)
<1>1. CASE claim'[i] = "done"
  BY <1>1
<1>2. ASSUME NEW g \in Handlers, delivery'[g] = [at |-> "complete", event |-> i]
      PROVE  Applied(i)
  <2>1. delivery \in [Handlers -> Delivery]
    BY DEF BillingInv, StripeTypeOK, Delivery
  <2>2. g # h
    BY <1>2, <2>1
  <2> QED  BY <1>2, <2>1, <2>2 DEF Applied
<1> QED  BY <1>1, <1>2 DEF Applied

\* Once applied, the event is told of, and what was applied stays so.
LEMMA NowApplied ==
  ASSUME BillingInv, NEW h \in Handlers, Go(h, "complete"), UNCHANGED claim,
         NEW i, Applied(i)'
  PROVE  Applied(i) \/ i = delivery[h].event
<1>1. delivery \in [Handlers -> Delivery] /\ delivery[h] \in Delivery
  BY DEF BillingInv, StripeTypeOK, Delivery
<1>2. CASE claim'[i] = "done"
  BY <1>2 DEF Applied
<1>3. ASSUME NEW g \in Handlers, delivery'[g] = [at |-> "complete", event |-> i]
      PROVE  Applied(i) \/ i = delivery[h].event
  <2>1. CASE g = h
    <3>1. delivery'[h] = [delivery[h] EXCEPT !.at = "complete"]
      BY <1>1 DEF Go
    <3>2. delivery'[h].event = delivery[h].event
      BY <1>1, <3>1 DEF Delivery
    <3> QED  BY <1>3, <2>1, <3>2
  <2>2. CASE g # h
    BY <1>1, <1>3, <2>2 DEF Go, Applied
  <2> QED  BY <2>1, <2>2
<1> QED  BY <1>2, <1>3 DEF Applied

LEMMA SubscriptionFollows ==
  ASSUME BillingInv, FollowInv, NEW h \in Handlers, ApplySubscription(h)
  PROVE  FollowInv'
<1> DEFINE e == delivery[h].event
<1>1. /\ delivery[h].at = "apply" /\ Go(h, "complete") /\ UNCHANGED <<stripe, claim>>
      /\ events[e].kind = "subscription" /\ e \in DOMAIN events
      /\ Of(h) = events[e] /\ e \in Told
  BY DEF ApplySubscription, BillingInv, Known, Of, Told
<1>2. /\ events' = events /\ bought' = bought /\ Told' = Told
      /\ events[e] \in Event /\ events[e].at \in Nat /\ known \in Nat /\ row.at \in Nat
      /\ \A i \in DOMAIN events : events[i].at \in Nat
  BY <1>1, EventsType DEF stripe, Told, BillingInv, StripeTypeOK
<1>3. InOrder' /\ (\A k \in Subs : ToldOf(k))' /\ Made'
  BY <1>1, <1>2 DEF FollowInv, InOrder, ToldOf, Newest, Made
<1>4. \A i \in Told : Applied(i)' => Applied(i) \/ i = e
  BY <1>1, NowApplied
<1>5. known <= row.at
  BY DEF FollowInv, RowIsTold, NoRow
<1>6. \A i \in Told : Applied(i) => events[i].at <= known \/ i \in overtaken
  BY DEF FollowInv, Heard
<1> HIDE DEF e
<1>7. CASE row.at <= events[e].at
  <2>1. /\ row' = [sub |-> events[e].sub, plan |-> events[e].plan, status |-> events[e].status,
                   at |-> events[e].at]
        /\ known' = events[e].at /\ overtaken' = overtaken
    BY <1>1, <1>7 DEF ApplySubscription
  <2>2. RowIsTold'
    <3>1. /\ known' <= row'.at
          /\ e \in Told' /\ events'[e].at = known'
          /\ row'.sub = events'[e].sub /\ row'.plan = events'[e].plan
          /\ e \in DOMAIN events' /\ events'[e].at = row'.at /\ row'.status = events'[e].status
      BY <1>1, <1>2, <2>1
    <3> QED  BY <3>1 DEF RowIsTold
  <2>3. ASSUME NEW i \in Told, Applied(i)'
        PROVE  events[i].at <= known' \/ i \in overtaken'
    <3>1. known <= known'
      BY <1>2, <1>5, <1>7, <2>1
    <3>2. events[i].at \in Nat
      BY <1>2 DEF Told
    <3> QED  BY <1>2, <1>4, <1>6, <2>1, <2>3, <3>1, <3>2
  <2> QED  BY <1>2, <1>3, <2>2, <2>3 DEF FollowInv, Heard
<1>8. CASE ~(row.at <= events[e].at)
  <2>1. /\ UNCHANGED <<row, known>>
        /\ overtaken' = IF events[e].at > known THEN overtaken \cup {e} ELSE overtaken
    BY <1>1, <1>8 DEF ApplySubscription, e
  <2>2. RowIsTold'
    BY <1>2, <2>1 DEF FollowInv, RowIsTold, NoRow
  <2>3. ASSUME NEW i \in Told, Applied(i)'
        PROVE  events[i].at <= known' \/ i \in overtaken'
    <3>1. CASE i = e
      BY <1>2, <2>1, <3>1
    <3>2. CASE Applied(i)
      BY <1>6, <2>1, <3>2
    <3> QED  BY <1>4, <2>3, <3>1, <3>2
  <2> QED  BY <1>2, <1>3, <2>2, <2>3 DEF FollowInv, Heard
<1> QED  BY <1>7, <1>8

LEMMA InvoiceFollows ==
  ASSUME BillingInv, FollowInv, NEW h \in Handlers, ApplyInvoice(h)
  PROVE  FollowInv'
<1> DEFINE e == delivery[h].event
<1>1. /\ delivery[h].at = "apply" /\ Go(h, "complete") /\ UNCHANGED <<stripe, claim>>
      /\ events[e].kind = "invoice" /\ e \in DOMAIN events
      /\ Of(h) = events[e] /\ e \notin Told
  BY DEF ApplyInvoice, BillingInv, Known, Of, Told
<1>2. /\ events' = events /\ bought' = bought /\ Told' = Told
      /\ events[e].at \in Nat /\ known \in Nat /\ row.at \in Nat
  BY <1>1, EventsType DEF stripe, Told, BillingInv, StripeTypeOK
<1>3. InOrder' /\ (\A k \in Subs : ToldOf(k))' /\ Made'
  BY <1>1, <1>2 DEF FollowInv, InOrder, ToldOf, Newest, Made
<1>4. \A i \in Told : Applied(i)' => Applied(i)
  BY <1>1, NowApplied
<1>5. Heard' /\ known' = known
  BY <1>2, <1>4 DEF ApplyInvoice, FollowInv, Heard
<1>6. row # NoRow
  BY DEF ApplyInvoice
<1> HIDE DEF e
<1>7. PICK i \in Told, j \in DOMAIN events :
        /\ events[i].at = known /\ row.sub = events[i].sub /\ row.plan = events[i].plan
        /\ events[j].at = row.at /\ row.sub = events[j].sub /\ row.status = events[j].status
        /\ known <= row.at
  BY <1>6 DEF FollowInv, RowIsTold
<1>8. row \in SubscriptionRow
  BY DEF BillingInv, StripeTypeOK, SubscriptionRow
<1>9. CASE row.sub = events[e].sub /\ row.at <= events[e].at
  <2>1. row' = [row EXCEPT !.status = events[e].status, !.at = events[e].at]
    BY <1>1, <1>9 DEF ApplyInvoice
  <2>2. /\ row'.sub = row.sub /\ row'.plan = row.plan
        /\ row'.status = events[e].status /\ row'.at = events[e].at
    BY <1>8, <2>1 DEF SubscriptionRow
  <2>3. RowIsTold'
    <3>1. known' <= row'.at
      BY <1>2, <1>5, <1>7, <1>9, <2>2
    <3>2. /\ i \in Told' /\ events'[i].at = known'
          /\ row'.sub = events'[i].sub /\ row'.plan = events'[i].plan
      BY <1>2, <1>5, <1>7, <2>2
    <3>3. /\ e \in DOMAIN events' /\ events'[e].at = row'.at
          /\ row'.sub = events'[e].sub /\ row'.status = events'[e].status
      BY <1>1, <1>2, <1>9, <2>2
    <3> QED  BY <3>1, <3>2, <3>3 DEF RowIsTold
  <2> QED  BY <1>3, <1>5, <2>3 DEF FollowInv
<1>10. CASE ~(row.sub = events[e].sub /\ row.at <= events[e].at)
  <2>1. row' = row
    BY <1>1, <1>10 DEF ApplyInvoice
  <2>2. RowIsTold'
    BY <1>2, <1>5, <1>7, <2>1 DEF RowIsTold
  <2> QED  BY <1>3, <1>5, <2>2 DEF FollowInv
<1> QED  BY <1>9, <1>10

LEMMA WebhookFollows ==
  ASSUME BillingInv, FollowInv, NEW h \in Handlers, Webhook(h)
  PROVE  FollowInv'
<1>0. /\ claim \in [Ids -> {"none", "processing", "old", "released", "done"}]
      /\ delivery \in [Handlers -> Delivery] /\ delivery[h] \in Delivery
      /\ Made
  BY DEF BillingInv, StripeTypeOK, Delivery, FollowInv
<1>1. ASSUME NEW i \in Ids, Claim(h, i)
      PROVE  FollowInv'
  <2> DEFINE d == [at |-> "apply", event |-> i]
  <2>1. d \in Delivery /\ d.at # "complete" /\ i \in DOMAIN events
    BY <1>1 DEF Delivery, Claim, Ids
  <2>2. /\ delivery' = [delivery EXCEPT ![h] = d] /\ claim' = [claim EXCEPT ![i] = "processing"]
        /\ UNCHANGED <<stripe, row, known, overtaken>>
    BY <1>1 DEF Claim
  <2> HIDE DEF d
  <2>3. \A j \in Told : claim'[j] = "done" => Applied(j)
    BY <1>0, <2>2 DEF Applied
  <2>4. Made'
    BY <1>0, <2>1, <2>2 DEF Made, stripe
  <2> QED  BY <2>1, <2>2, <2>3, <2>4, NotApplied, SameRow
<1>2. CASE ApplyFails(h)
  <2> DEFINE d == [delivery[h] EXCEPT !.at = "release"]
  <2>1. d \in Delivery /\ d.at # "complete"
    BY <1>0 DEF Delivery
  <2>2. delivery' = [delivery EXCEPT ![h] = d] /\ UNCHANGED <<stripe, row, known, overtaken, claim>>
    BY <1>2 DEF ApplyFails, Go
  <2> HIDE DEF d
  <2>3. \A j \in Told : claim'[j] = "done" => Applied(j)
    BY <2>2 DEF Applied
  <2>4. Made'
    BY <1>0, <2>2 DEF Made, stripe
  <2> QED  BY <2>1, <2>2, <2>3, <2>4, NotApplied, SameRow
<1>3. CASE Complete(h) \/ Release(h) \/ Die(h) \/ AnswerLost(h)
  <2>1. NoDelivery \in Delivery /\ NoDelivery.at # "complete"
    BY NoDeliveryType
  <2>2. /\ delivery' = [delivery EXCEPT ![h] = NoDelivery]
        /\ UNCHANGED <<stripe, row, known, overtaken>>
    BY <1>3 DEF Complete, Release, Die, AnswerLost, Answer
  <2>3. ASSUME NEW j \in Told, claim'[j] = "done"
        PROVE  Applied(j)
    <3>1. CASE claim[j] = "done"
      BY <3>1 DEF Applied
    <3>2. CASE claim[j] # "done"
      <4>0. j \in Ids
        BY MadeAreIds DEF Told
      <4>1. delivery[h].at = "complete" /\ j = delivery[h].event
        <5>1. CASE Complete(h) \/ AnswerLost(h)
          BY <1>0, <2>3, <3>2, <4>0, <5>1 DEF Complete, AnswerLost
        <5>2. CASE Release(h) \/ Die(h)
          BY <1>0, <2>3, <3>2, <4>0, <5>2 DEF Release, Die
        <5> QED  BY <1>3, <5>1, <5>2
      <4>2. delivery[h] = [at |-> "complete", event |-> j]
        BY <1>0, <4>1 DEF Delivery
      <4> QED  BY <4>2 DEF Applied
    <3> QED  BY <3>1, <3>2
  <2>4. Made'
    <3>1. delivery[h].at # "idle" => delivery[h].event \in DOMAIN events
      BY DEF BillingInv, Known
    <3> QED  BY <1>0, <1>3, <3>1 DEF Complete, Release, Die, AnswerLost, Made, stripe
  <2> QED  BY <2>1, <2>2, <2>3, <2>4, NotApplied, SameRow
<1> QED
  BY <1>1, <1>2, <1>3, SubscriptionFollows, InvoiceFollows DEF Webhook

LEMMA FollowInit == StripeInit => FollowInv
<1> SUFFICES ASSUME StripeInit PROVE FollowInv
  OBVIOUS
<1>1. events = <<>> /\ DOMAIN events = {} /\ Told = {}
  BY DEF StripeInit, Told
<1>2. /\ \A k \in Subs : bought[k].status = "none"
      /\ row = NoRow /\ known = 0 /\ \A i \in Ids : claim[i] = "none"
  BY DEF StripeInit
<1> QED  BY <1>1, <1>2 DEF FollowInv, InOrder, ToldOf, RowIsTold, Heard, Made

LEMMA FollowStep == BillingInv /\ FollowInv /\ [StripeNext]_stripeVars => FollowInv'
<1> SUFFICES ASSUME BillingInv, FollowInv, [StripeNext]_stripeVars PROVE FollowInv'
  OBVIOUS
<1>1. ASSUME NEW i \in Ids, AnswerDuplicate(i) \/ Age(i)
      PROVE  FollowInv'
  <2>1. /\ claim \in [Ids -> {"none", "processing", "old", "released", "done"}] /\ Made
        /\ UNCHANGED <<stripe, row, known, overtaken, delivery>>
        /\ \/ claim' = claim
           \/ claim[i] = "processing" /\ claim' = [claim EXCEPT ![i] = "old"]
    BY <1>1 DEF AnswerDuplicate, Age, BillingInv, StripeTypeOK, FollowInv
  <2>2. ASSUME NEW j \in Ids
        PROVE  claim'[j] = claim[j] \/ (claim[j] = "processing" /\ claim'[j] = "old")
    BY <2>1
  <2>3. Made'
    BY <2>1, <2>2 DEF Made, stripe
  <2>4. \A j \in Told : Applied(j)' => Applied(j)
    BY <2>1, <2>2, MadeAreIds DEF Applied, Told
  <2> QED  BY <2>1, <2>3, <2>4, SameRow
<1>2. CASE UNCHANGED stripeVars
  <2>1. /\ UNCHANGED <<stripe, row, known, overtaken, delivery, claim>>
    BY <1>2 DEF stripeVars, stripe
  <2>2. Made' /\ \A j \in Told : Applied(j)' => Applied(j)
    BY <2>1 DEF Made, Applied, stripe, FollowInv
  <2> QED  BY <2>1, <2>2, SameRow
<1> QED  BY <1>1, <1>2, StripeFollows, WebhookFollows DEF StripeNext

\* The row after all events: it knows the newest one of any subscription, which is the
\* newest one of its own; what an invoice of its own said is newer.
LEMMA FollowImplies == BillingInv /\ FollowInv => RowFollowsStripe
<1> SUFFICES ASSUME BillingInv, FollowInv, \A i \in DOMAIN events : claim[i] = "done",
                    overtaken = {}, ~Ties, Told # {}
             PROVE  /\ \E i \in Told : /\ row.sub = events[i].sub
                                       /\ \A j \in Told : events[j].at <= events[i].at
                    /\ row.plan = bought[row.sub].plan
                    /\ \/ row.status = bought[row.sub].status
                       \/ /\ bought[row.sub].status = "canceled"
                          /\ \E i \in DOMAIN events \ Told :
                               /\ events[i].sub = row.sub /\ events[i].status = row.status
                               /\ \A j \in Told :
                                    events[j].sub = row.sub => events[j].at < events[i].at
  BY DEF RowFollowsStripe
<1>1. /\ \A i \in DOMAIN events : events[i].at \in Nat /\ 0 < events[i].at /\ events[i].sub \in Subs
      /\ DOMAIN events = 1..Len(events) /\ Len(events) \in Nat
      /\ Told \subseteq DOMAIN events /\ known \in Nat /\ row.at \in Nat
  BY EventsType DEF Told, FollowInv, InOrder, Event, BillingInv, StripeTypeOK
<1>2. \A i \in Told : events[i].at <= known
  BY DEF FollowInv, Heard, Applied, Told
<1>3. known # 0
  BY <1>1, <1>2
<1>4. PICK i \in Told, j \in DOMAIN events :
        /\ events[i].at = known /\ row.sub = events[i].sub /\ row.plan = events[i].plan
        /\ events[j].at = row.at /\ row.sub = events[j].sub /\ row.status = events[j].status
        /\ known <= row.at
  BY <1>3 DEF FollowInv, RowIsTold
<1>5. PICK k \in Subs : k = row.sub
  BY <1>1, <1>4
<1>6. bought[k].status # "none" /\ ToldOf(k)
  BY <1>1, <1>4, <1>5 DEF FollowInv, ToldOf
<1>7. PICK n \in Told : Newest(k, n)
  BY <1>6 DEF ToldOf
<1>8. /\ n \in DOMAIN events /\ events[n].sub = k
      /\ events[n].plan = bought[k].plan /\ events[n].status = bought[k].status
      /\ \A m \in DOMAIN events : events[m].sub = k /\ n < m =>
           m \notin Told /\ (events[m].status = bought[k].status \/ bought[k].status = "canceled")
  BY <1>1, <1>7 DEF Newest
<1>9. ~(n < i)
  BY <1>1, <1>4, <1>5, <1>8
<1>10. events[i].at <= events[n].at
  BY <1>1, <1>4, <1>8, <1>9 DEF FollowInv, InOrder
<1>11. events[n].at = known
  BY <1>1, <1>2, <1>4, <1>8, <1>10
<1>12. \A a, b \in DOMAIN events : events[a].at = events[b].at =>
         /\ events[a].status = events[b].status
         /\ a \in Told /\ b \in Told => events[a].plan = events[b].plan
  BY DEF Ties
<1>13. row.plan = bought[k].plan
  BY <1>1, <1>4, <1>8, <1>11, <1>12
<1>14. CASE row.at = known
  <2>1. row.status = bought[k].status
    BY <1>4, <1>8, <1>11, <1>12, <1>14
  <2> QED  BY <1>2, <1>4, <1>5, <1>13, <2>1
<1>15. CASE row.at # known
  <2>1. j \notin Told /\ \A m \in Told : events[m].at < events[j].at
    BY <1>1, <1>2, <1>4, <1>15
  <2>2. n < j
    <3>1. ~(events[j].at <= events[n].at)
      BY <1>1, <1>4, <1>11, <1>15
    <3>2. ~(j <= n)
      BY <1>8, <3>1 DEF FollowInv, InOrder
    <3> QED  BY <1>1, <1>8, <3>2
  <2>3. events[j].status = bought[k].status \/ bought[k].status = "canceled"
    BY <1>4, <1>5, <1>8, <2>2
  <2> QED  BY <1>2, <1>4, <1>5, <1>13, <2>1, <2>3
<1> QED  BY <1>14, <1>15

\* Once all events are processed, in whatever order, however often and however many, the
\* row has the subscription, the plan and the status that Stripe told of last, unless an
\* invoice overtook that event or two events of one second differ.
THEOREM Follows == StripeSpec => []RowFollowsStripe
<1>1. BillingInv /\ FollowInv /\ [StripeNext]_stripeVars => (BillingInv /\ FollowInv)'
  BY BillingStep, FollowStep
<1> QED  BY <1>1, BillingInit, FollowInit, FollowImplies, PTL DEF StripeSpec

===============================================================================
