------------------------- MODULE Membership_proofs -------------------------
(***************************************************************************)
(* Theorems about Membership, for every value of its constants.             *)
(*                                                                          *)
(* One inductive invariant carries them all. Its heart is CallInv: what a   *)
(* call learned in its snapshot and still relies on when it commits, though *)
(* nothing protects it, must be something that cannot change meanwhile: an  *)
(* owner stays one, and the terms of an invitation are never edited.        *)
(***************************************************************************)
EXTENDS Membership, TLAPS

IsOwner(u) == member[u] # None /\ member[u].role = "owner"

\* What a call in flight knows.
CallInv(c) ==
  LET x == call[c]
  IN  x # None =>
        /\ x.ask \in Asks /\ x.step \in {"read", "open"}
        /\ x.ask.op \in {"accept", "cancel"} =>
             x.read.id \in Invitations /\ invitation[x.read.id] # None
        /\ x.ask.op \in {"approve", "reject"} =>
             x.read.id \in JoinRequests /\ request[x.read.id] # None
        /\ x.ask.op = "update" =>
             x.read.role \in Roles \ {"owner"} /\ x.read.permissions \in SUBSET Permissions
        /\ x.ask.op = "remove" => x.read.was \in MembershipRecords
        /\ x.step = "open" =>
             /\ x.ask.op \in {"update", "remove"} =>
                  /\ x.seen.target \in MembershipRecords /\ x.seen.target.role # "owner"
                  /\ x.seen.target.role = "administrator" =>
                       x.seen.actor \in {"owner", "administrator"}
             /\ x.ask.op = "accept" =>
                  (invitation[x.read.id].role = "owner" => IsOwner(invitation[x.read.id].inviter))
CallsInv == call = [c \in Calls |-> call[c]] /\ \A c \in Calls : CallInv(c)

\* A membership that came from an invitation has it still; an owner's was one to
\* ownership, from an owner.
GrantedInv ==
  \A u \in Users : u # Founder /\ IsOwner(u) =>
    /\ member[u].id \in Invitations /\ invitation[member[u].id] # None
    /\ invitation[member[u].id].role = "owner"
    /\ IsOwner(invitation[member[u].id].inviter)

\* What was decided is no longer pending.
DecidedInv ==
  \A x \in audit :
    /\ x.event # "pending"
    /\ \/ /\ x.entity \in Invitations /\ invitation[x.entity] # None
          /\ invitation[x.entity].status = x.event
       \/ /\ x.entity \in JoinRequests /\ request[x.entity] # None
          /\ request[x.entity].status = x.event
    /\ \A y \in audit : x.entity = y.entity => x = y

IInv == TypeOK /\ CallsInv /\ GrantedInv /\ DecidedInv

---------------------------------------------------------------------------
(* What no step takes away *)

OwnersKept == \A u \in Users : IsOwner(u) => member'[u] = member[u]
TermsKept ==
  \A i \in Invitations : invitation[i] # None =>
    /\ invitation'[i] # None /\ invitation'[i].role = invitation[i].role
    /\ invitation'[i].inviter = invitation[i].inviter
    /\ invitation[i].status # "pending" => invitation'[i] = invitation[i]
RequestsKept ==
  \A r \in JoinRequests : request[r] # None =>
    /\ request'[r] # None
    /\ request[r].status # "pending" => request'[r] = request[r]

\* No step touches an owner: a call that changes or removes somebody saw in its
\* snapshot who is not one, and commits only if that is still what is stored.
LEMMA OwnersKeptStep == IInv /\ [Next]_vars => OwnersKept
<1> SUFFICES ASSUME IInv, [Next]_vars, NEW u \in Users, IsOwner(u)
             PROVE  member'[u] = member[u]
  BY DEF OwnersKept
<1> USE DEF IsOwner
<1>1. CASE UNCHANGED member
  BY <1>1
<1>2. ASSUME NEW c \in Calls, AcceptInvitation(c) PROVE member'[u] = member[u]
  <2>1. Inserts(c) => member[Asked(c).actor] = None
    BY <1>2 DEF AcceptInvitation, Commits, Joins
  <2> QED
    BY <1>2, <2>1 DEF AcceptInvitation, IInv, TypeOK
<1>3. ASSUME NEW c \in Calls, ReviewWorkspaceJoinRequest(c) PROVE member'[u] = member[u]
  <2>1. Inserts(c) => member[Joins(c)] = None
    BY <1>3 DEF ReviewWorkspaceJoinRequest, Commits
  <2> QED
    BY <1>3, <2>1 DEF ReviewWorkspaceJoinRequest, IInv, TypeOK
<1>4. ASSUME NEW c \in Calls, Asked(c).op \in {"update", "remove"}, Commits(c)
      PROVE  Asked(c).target # u
  <2>1. CallInv(c) /\ call[c] # None /\ call[c].step = "open"
    BY SMTT(30), <1>4 DEF IInv, CallsInv, Commits
  <2>2. Seen(c).target.role # "owner"
    BY <1>4, <2>1 DEF CallInv, Seen, Asked
  <2> QED
    BY <1>4, <2>2 DEF Commits
<1>5. ASSUME NEW c \in Calls, UpdateWorkspaceMember(c) PROVE member'[u] = member[u]
  BY <1>4, <1>5 DEF UpdateWorkspaceMember, IInv, TypeOK
<1>6. ASSUME NEW c \in Calls, RemoveWorkspaceMember(c) PROVE member'[u] = member[u]
  BY <1>4, <1>6 DEF RemoveWorkspaceMember, IInv, TypeOK
<1> QED
  BY ZenonT(30), <1>1, <1>2, <1>3, <1>5, <1>6 DEF Next, CallStep, vars, Read,
     OpenTransaction, RetryTransaction, Abandon, CancelInvitation, CreateInvitation,
     RequestWorkspaceJoin, Lapse, ExpireInvitation

LEMMA StatusChange ==
  ASSUME NEW r \in InvitationRecords, NEW s \in {"pending", "accepted", "cancelled", "expired"}
  PROVE  /\ [r EXCEPT !.status = s] \in InvitationRecords
         /\ [r EXCEPT !.status = s] # None
         /\ [r EXCEPT !.status = s].role = r.role
         /\ [r EXCEPT !.status = s].inviter = r.inviter
         /\ [r EXCEPT !.status = s].email = r.email
         /\ [r EXCEPT !.status = s].status = s
<1>1. [r EXCEPT !.status = s] \in InvitationRecords
  BY DEF InvitationRecords
<1> QED
  BY <1>1, MemberAssumption DEF InvitationRecords

LEMMA Lapsing ==
  ASSUME NEW r \in InvitationRecords
  PROVE  /\ [r EXCEPT !.lapsed = TRUE] \in InvitationRecords
         /\ [r EXCEPT !.lapsed = TRUE] # None
         /\ [r EXCEPT !.lapsed = TRUE].role = r.role
         /\ [r EXCEPT !.lapsed = TRUE].inviter = r.inviter
         /\ [r EXCEPT !.lapsed = TRUE].email = r.email
         /\ [r EXCEPT !.lapsed = TRUE].status = r.status
<1>1. [r EXCEPT !.lapsed = TRUE] \in InvitationRecords
  BY DEF InvitationRecords
<1> QED
  BY <1>1, MemberAssumption DEF InvitationRecords

LEMMA Review ==
  ASSUME NEW r \in JoinRequestRecords, NEW s \in {"pending", "approved", "rejected"}
  PROVE  /\ [r EXCEPT !.status = s] \in JoinRequestRecords
         /\ [r EXCEPT !.status = s] # None
         /\ [r EXCEPT !.status = s].status = s
<1>1. [r EXCEPT !.status = s] \in JoinRequestRecords
  BY DEF JoinRequestRecords
<1> QED
  BY <1>1, MemberAssumption DEF JoinRequestRecords

\* An edit of one invitation: a record again, on the same terms, and of one that
\* was pending.
Edits(i, r) ==
  /\ Pending(i) /\ r \in InvitationRecords /\ r # None
  /\ r.role = invitation[i].role /\ r.inviter = invitation[i].inviter
  /\ r.email = invitation[i].email

\* Every step edits pending invitations, or creates one.
LEMMA InvitationsEdited ==
  ASSUME IInv, [Next]_vars
  PROVE  /\ invitation' = [i \in Invitations |-> invitation'[i]]
         /\ \A i \in Invitations :
              \/ invitation'[i] = invitation[i]
              \/ Edits(i, invitation'[i])
              \/ /\ invitation[i] = None /\ invitation'[i] \in InvitationRecords
                 /\ invitation'[i].status = "pending" /\ EmailFree(invitation'[i].email)
                 /\ \A j \in Invitations \ {i} : invitation'[j] = invitation[j]
<1> DEFINE Old(i) == invitation'[i] = invitation[i]
           New(i) == /\ invitation[i] = None /\ invitation'[i] \in InvitationRecords
                     /\ invitation'[i].status = "pending" /\ EmailFree(invitation'[i].email)
                     /\ \A j \in Invitations \ {i} : invitation'[j] = invitation[j]
           Goal == /\ invitation' = [i \in Invitations |-> invitation'[i]]
                   /\ \A i \in Invitations : Old(i) \/ Edits(i, invitation'[i]) \/ New(i)
<1>0. invitation \in [Invitations -> InvitationRecords \cup {None}]
  BY DEF IInv, TypeOK
<1>P. ASSUME NEW i \in Invitations, Pending(i) PROVE invitation[i] \in InvitationRecords
  BY <1>0, <1>P DEF Pending
<1>S. ASSUME NEW i \in Invitations, Pending(i), NEW s \in {"pending", "accepted", "cancelled", "expired"}
      PROVE  Edits(i, [invitation[i] EXCEPT !.status = s])
  <2> DEFINE r == [invitation[i] EXCEPT !.status = s]
  <2>1. invitation[i] \in InvitationRecords
    BY <1>P, <1>S
  <2>2. /\ r \in InvitationRecords /\ r # None /\ r.role = invitation[i].role
        /\ r.inviter = invitation[i].inviter /\ r.email = invitation[i].email
    BY ZenonT(60), <2>1, StatusChange
  <2> HIDE DEF r
  <2> QED
    BY <1>S, <2>2 DEF Edits, r
<1>1. CASE UNCHANGED invitation
  BY <1>0, <1>1
<1>2. ASSUME NEW i \in Invitations, NEW s \in {"accepted", "cancelled", "expired"}, Pending(i),
             invitation' = [invitation EXCEPT ![i].status = s]
      PROVE  Goal
  <2>1. invitation'[i] = [invitation[i] EXCEPT !.status = s]
    BY <1>0, <1>2
  <2>2. Edits(i, invitation'[i])
    BY ZenonT(30), <2>1, <1>2, <1>S
  <2>3. \A j \in Invitations \ {i} : Old(j)
    BY <1>0, <1>2
  <2>4. invitation' = [j \in Invitations |-> invitation'[j]]
    BY <1>0, <1>2
  <2> QED
    BY <2>2, <2>3, <2>4
<1>3. ASSUME NEW c \in Calls, AcceptInvitation(c) \/ CancelInvitation(c) PROVE Goal
  <2>1. call[c] # None /\ Subject(c) \in Invitations /\ Pending(Subject(c))
    BY <1>3 DEF AcceptInvitation, CancelInvitation, Commits, StillOpen, IInv, CallsInv, CallInv,
                Subject, Asked
  <2> QED
    BY <1>2, <1>3, <2>1 DEF AcceptInvitation, CancelInvitation
<1>4. ASSUME NEW c \in Calls, NEW a \in Asks, ReadInvite(c, a) PROVE Goal
  <2> DEFINE stale(i) == Pending(i) /\ invitation[i].email = a.email /\ invitation[i].lapsed
  <2>1. invitation' = [i \in Invitations |->
          IF stale(i) THEN [invitation[i] EXCEPT !.status = "expired"] ELSE invitation[i]]
    BY <1>4 DEF ReadInvite
  <2>2. ASSUME NEW i \in Invitations PROVE Old(i) \/ Edits(i, invitation'[i])
    <3>1. CASE stale(i)
      <4>1. invitation'[i] = [invitation[i] EXCEPT !.status = "expired"]
        BY <2>1, <3>1
      <4> QED
        BY <4>1, <3>1, <1>S
    <3>2. CASE ~stale(i)
      BY <2>1, <3>2
    <3> QED
      BY <3>1, <3>2
  <2> QED
    BY <2>1, <2>2
<1>5. ASSUME NEW c \in Calls, NEW i \in Invitations, CreateInvitation(c, i) PROVE Goal
  <2> DEFINE a == Asked(c)
             r == [inviter |-> a.actor, email |-> a.email, role |-> a.role,
                   permissions |-> a.permissions, status |-> "pending", lapsed |-> FALSE]
  <2>1. /\ call[c] # None /\ a.op = "invite" /\ invitation[i] = None /\ EmailFree(a.email)
        /\ invitation' = [invitation EXCEPT ![i] = r]
    BY <1>5 DEF CreateInvitation
  <2>2. a \in Asks
    BY <2>1 DEF IInv, CallsInv, CallInv, Asked
  <2>3. r \in InvitationRecords
    <3>1. /\ a.actor \in Users /\ a.email \in Users \cup {None} /\ a.role \in Roles
          /\ a.permissions \subseteq Permissions
      BY <2>1, <2>2, AskAssumption
    <3> QED
      BY <3>1 DEF InvitationRecords
  <2>4. invitation'[i] = r
    BY <2>1, <1>0
  <2>5. New(i)
    BY <2>1, <2>3, <2>4, <1>0
  <2>6. \A j \in Invitations \ {i} : Old(j)
    BY <2>1, <1>0
  <2>7. invitation' = [j \in Invitations |-> invitation'[j]]
    BY <1>0, <2>1
  <2> QED
    BY <2>5, <2>6, <2>7
<1>6. ASSUME NEW i \in Invitations, Lapse(i) PROVE Goal
  <2>1. Pending(i) /\ invitation' = [invitation EXCEPT ![i].lapsed = TRUE]
    BY <1>6 DEF Lapse
  <2>2. invitation'[i] = [invitation[i] EXCEPT !.lapsed = TRUE]
    BY <1>0, <2>1
  <2>3. Edits(i, invitation'[i])
    BY <2>1, <2>2, <1>P, Lapsing DEF Edits
  <2>4. \A j \in Invitations \ {i} : Old(j)
    BY <1>0, <2>1
  <2>5. invitation' = [j \in Invitations |-> invitation'[j]]
    BY <1>0, <2>1
  <2> QED
    BY <2>3, <2>4, <2>5
<1>7. ASSUME NEW i \in Invitations, ExpireInvitation(i) PROVE Goal
  BY <1>2, <1>7 DEF ExpireInvitation
<1>8. ASSUME NEW c \in Calls, CallStep(c) PROVE Goal
  BY <1>1, <1>3, <1>4, <1>5, <1>8
  DEF CallStep, Read, ReadAccept, ReadCancel, ReadJoin, ReadReview, ReadUpdate, ReadRemove,
      OpenTransaction, RetryTransaction, Abandon, ReviewWorkspaceJoinRequest,
      UpdateWorkspaceMember, RemoveWorkspaceMember, RequestWorkspaceJoin
<1> QED
  BY <1>1, <1>6, <1>7, <1>8 DEF Next, vars

LEMMA InvitationsStep ==
  ASSUME IInv, [Next]_vars
  PROVE  invitation' \in [Invitations -> InvitationRecords \cup {None}] /\ TermsKept
<1>1. ASSUME NEW i \in Invitations
      PROVE  /\ invitation'[i] \in InvitationRecords \cup {None}
             /\ invitation[i] # None =>
                  /\ invitation'[i] # None /\ invitation'[i].role = invitation[i].role
                  /\ invitation'[i].inviter = invitation[i].inviter
                  /\ invitation[i].status # "pending" => invitation'[i] = invitation[i]
  <2>1. invitation[i] \in InvitationRecords \cup {None}
    BY DEF IInv, TypeOK
  <2> QED
    BY <2>1, InvitationsEdited DEF Edits, Pending
<1>2. invitation' = [i \in Invitations |-> invitation'[i]]
  BY InvitationsEdited
<1>3. invitation' \in [Invitations -> InvitationRecords \cup {None}]
  BY <1>1, <1>2
<1> QED
  BY <1>1, <1>3 DEF TermsKept

\* At most one pending invitation for an email, by the index that admits a new one.
LEMMA OneInvitationPerEmail ==
  ASSUME IInv, [Next]_vars, NEW i \in Invitations, NEW j \in Invitations,
         Pending(i)', Pending(j)', i # j
  PROVE  invitation'[i].email = None \/ invitation'[i].email # invitation'[j].email
<1> DEFINE Kept(k) == Pending(k) /\ invitation'[k].email = invitation[k].email
           New(k) == /\ EmailFree(invitation'[k].email)
                     /\ \A l \in Invitations \ {k} : invitation'[l] = invitation[l]
<1>1. ASSUME NEW k \in Invitations, Pending(k)' PROVE Kept(k) \/ New(k)
  BY <1>1, InvitationsEdited DEF Edits, Pending
<1>2. CASE Kept(i) /\ Kept(j)
  BY <1>2 DEF IInv, TypeOK
<1>3. CASE New(i)
  BY <1>3 DEF EmailFree, Pending
<1>4. CASE New(j)
  BY <1>4 DEF EmailFree, Pending
<1> QED
  BY <1>1, <1>2, <1>3, <1>4

\* Every step decides a request that awaits it, or makes one for a user who has none.
LEMMA RequestsEdited ==
  ASSUME IInv, [Next]_vars
  PROVE  /\ request' = [r \in JoinRequests |-> request'[r]]
         /\ \A r \in JoinRequests :
              \/ request'[r] = request[r]
              \/ /\ Awaiting(r) /\ request'[r] \in JoinRequestRecords
                 /\ request'[r].status # "pending"
              \/ /\ request[r] = None /\ request'[r] \in JoinRequestRecords
                 /\ \A q \in JoinRequests : ~(Awaiting(q) /\ request[q].user = request'[r].user)
                 /\ \A q \in JoinRequests \ {r} : request'[q] = request[q]
<1> DEFINE Decided(r) == /\ Awaiting(r) /\ request'[r] \in JoinRequestRecords
                         /\ request'[r].status # "pending"
           Same(r) == request'[r] = request[r]
           New(r) == /\ request[r] = None /\ request'[r] \in JoinRequestRecords
                     /\ \A q \in JoinRequests : ~(Awaiting(q) /\ request[q].user = request'[r].user)
                     /\ \A q \in JoinRequests \ {r} : request'[q] = request[q]
           Goal == /\ request' = [r \in JoinRequests |-> request'[r]]
                   /\ \A r \in JoinRequests : Same(r) \/ Decided(r) \/ New(r)
<1>0. request \in [JoinRequests -> JoinRequestRecords \cup {None}]
  BY DEF IInv, TypeOK
<1>1. CASE UNCHANGED request
  BY <1>0, <1>1
<1>2. ASSUME NEW c \in Calls, ReviewWorkspaceJoinRequest(c) PROVE Goal
  <2> DEFINE r == Subject(c)
             status == IF Asked(c).op = "approve" THEN "approved" ELSE "rejected"
  <2>1. r \in JoinRequests /\ Awaiting(r)
    BY <1>2 DEF ReviewWorkspaceJoinRequest, Commits, StillOpen, IInv, CallsInv, CallInv, Subject, Asked
  <2>2. request' = [request EXCEPT ![r] = [request[r] EXCEPT !.status = status]]
    BY <1>2 DEF ReviewWorkspaceJoinRequest
  <2>3. request'[r] = [request[r] EXCEPT !.status = status]
    BY <1>0, <2>1, <2>2
  <2>4. request[r] \in JoinRequestRecords
    BY <1>0, <2>1 DEF Awaiting
  <2>5. request'[r] \in JoinRequestRecords /\ request'[r].status = status
    BY <2>3, <2>4, Review
  <2>6. Decided(r)
    BY <2>1, <2>5
  <2>7. \A q \in JoinRequests \ {r} : Same(q)
    BY <1>0, <2>2
  <2>8. request' = [q \in JoinRequests |-> request'[q]]
    BY <1>0, <2>2
  <2> HIDE DEF r
  <2> QED
    BY <2>6, <2>7, <2>8
<1>3. ASSUME NEW c \in Calls, NEW r \in JoinRequests, RequestWorkspaceJoin(c, r) PROVE Goal
  <2> DEFINE x == [user |-> Asked(c).actor, status |-> "pending"]
  <2>1. /\ call[c] # None /\ request[r] = None
        /\ \A q \in JoinRequests : ~(Awaiting(q) /\ request[q].user = Asked(c).actor)
        /\ request' = [request EXCEPT ![r] = x]
    BY <1>3 DEF RequestWorkspaceJoin
  <2>2. Asked(c).actor \in Users
    BY <2>1, AskAssumption DEF IInv, CallsInv, CallInv, Asked
  <2>3. x \in JoinRequestRecords
    BY <2>2 DEF JoinRequestRecords
  <2>4. request'[r] = x /\ \A q \in JoinRequests \ {r} : Same(q)
    BY <1>0, <2>1
  <2>5. New(r)
    BY <2>1, <2>3, <2>4
  <2>6. request' = [q \in JoinRequests |-> request'[q]]
    BY <1>0, <2>1
  <2> QED
    BY <2>4, <2>5, <2>6
<1>4. ASSUME NEW c \in Calls, CallStep(c) PROVE Goal
  BY <1>1, <1>2, <1>3, <1>4
  DEF CallStep, Read, OpenTransaction, RetryTransaction, Abandon, AcceptInvitation,
      CancelInvitation, UpdateWorkspaceMember, RemoveWorkspaceMember, CreateInvitation
<1> QED
  BY <1>1, <1>4 DEF Next, vars, Lapse, ExpireInvitation

LEMMA RequestsStep ==
  ASSUME IInv, [Next]_vars
  PROVE  /\ request' \in [JoinRequests -> JoinRequestRecords \cup {None}] /\ RequestsKept
         /\ \A q, r \in JoinRequests :
              Awaiting(q)' /\ Awaiting(r)' /\ request'[q].user = request'[r].user => q = r
<1>1. request' = [r \in JoinRequests |-> request'[r]]
  BY RequestsEdited
<1>2. ASSUME NEW r \in JoinRequests
      PROVE  /\ request'[r] \in JoinRequestRecords \cup {None}
             /\ request[r] # None =>
                  /\ request'[r] # None
                  /\ request[r].status # "pending" => request'[r] = request[r]
  <2>1. request[r] \in JoinRequestRecords \cup {None}
    BY DEF IInv, TypeOK
  <2> QED
    BY <2>1, RequestsEdited, MemberAssumption DEF Awaiting
<1>3. ASSUME NEW q \in JoinRequests, NEW r \in JoinRequests, Awaiting(q)', Awaiting(r)',
             request'[q].user = request'[r].user, q # r
      PROVE  FALSE
  <2> DEFINE New(k) == /\ \A l \in JoinRequests : ~(Awaiting(l) /\ request[l].user = request'[k].user)
                       /\ \A l \in JoinRequests \ {k} : request'[l] = request[l]
  <2>1. ASSUME NEW k \in JoinRequests, Awaiting(k)' PROVE request'[k] = request[k] \/ New(k)
    BY <2>1, RequestsEdited DEF Awaiting
  <2>2. CASE request'[q] = request[q] /\ request'[r] = request[r]
    BY <1>3, <2>2 DEF IInv, TypeOK, Awaiting
  <2>3. CASE New(q)
    BY <1>3, <2>3 DEF Awaiting
  <2>4. CASE New(r)
    BY <1>3, <2>4 DEF Awaiting
  <2> QED
    BY <1>3, <2>1, <2>2, <2>3, <2>4
<1>4. request' \in [JoinRequests -> JoinRequestRecords \cup {None}]
  BY <1>1, <1>2
<1> QED
  BY <1>2, <1>3, <1>4 DEF RequestsKept

\* A membership that changes is gone, is no owner's, or is what an invitation says.
LEMMA MembersEdited ==
  ASSUME IInv, [Next]_vars
  PROVE  /\ member' \in [Users -> MembershipRecords \cup {None}]
         /\ \A u \in Users :
              \/ member'[u] = member[u] \/ member'[u] = None \/ member'[u].role # "owner"
              \/ \E i \in Invitations :
                   /\ invitation[i] # None /\ member'[u].id = i
                   /\ member'[u].role = invitation[i].role
                   /\ invitation[i].role = "owner" => IsOwner(invitation[i].inviter)
<1> DEFINE Accepted(u) == \E i \in Invitations :
                            /\ invitation[i] # None /\ member'[u].id = i
                            /\ member'[u].role = invitation[i].role
                            /\ invitation[i].role = "owner" => IsOwner(invitation[i].inviter)
           Settled(u) == member'[u] = member[u] \/ member'[u] = None \/ member'[u].role # "owner"
           Goal == /\ member' \in [Users -> MembershipRecords \cup {None}]
                   /\ \A u \in Users : Settled(u) \/ Accepted(u)
<1>0. member \in [Users -> MembershipRecords \cup {None}]
  BY DEF IInv, TypeOK
<1>1. CASE UNCHANGED member
  BY <1>0, <1>1
<1>C. ASSUME NEW c \in Calls, call[c] # None PROVE Asked(c) \in Asks /\ CallInv(c)
  BY <1>C DEF IInv, CallsInv, CallInv, Asked
<1>2. ASSUME NEW c \in Calls, AcceptInvitation(c) PROVE Goal
  <2> DEFINE i == Subject(c)
             u == Asked(c).actor
             m == Membership(i, invitation[i].role, invitation[i].permissions)
  <2>1. call[c] # None /\ call[c].step = "open" /\ Asked(c).op = "accept"
    BY <1>2 DEF AcceptInvitation, Commits
  <2>2. u \in Users
    BY <1>C, <2>1, AskAssumption
  <2>3. /\ i \in Invitations /\ invitation[i] # None
        /\ invitation[i].role = "owner" => IsOwner(invitation[i].inviter)
    BY <1>C, <2>1 DEF CallInv, Asked, Subject
  <2>4. invitation[i] \in InvitationRecords
    BY <2>3 DEF IInv, TypeOK
  <2>5. m \in MembershipRecords /\ m.id = i /\ m.role = invitation[i].role
    BY <2>3, <2>4 DEF Membership, MembershipRecords, InvitationRecords
  <2>6. member' = member \/ member' = [member EXCEPT ![u] = m]
    BY <1>2 DEF AcceptInvitation
  <2>7. CASE member' = [member EXCEPT ![u] = m]
    <3>1. member'[u] = m /\ \A v \in Users \ {u} : member'[v] = member[v]
      BY <1>0, <2>2, <2>7
    <3>2. Accepted(u)
      BY <2>3, <2>5, <3>1
    <3>3. member' \in [Users -> MembershipRecords \cup {None}]
      BY <1>0, <2>5, <2>7
    <3> QED
      BY <3>1, <3>2, <3>3
  <2> QED
    BY <1>1, <2>6, <2>7
<1>3. ASSUME NEW c \in Calls, ReviewWorkspaceJoinRequest(c) PROVE Goal
  <2> DEFINE m == Membership(Subject(c), "member", {})
  <2>1. call[c] # None /\ Asked(c).op \in {"approve", "reject"}
    BY <1>3 DEF ReviewWorkspaceJoinRequest, Commits
  <2>2. Subject(c) \in JoinRequests
    BY <1>C, <2>1 DEF CallInv, Asked, Subject
  <2>3. m \in MembershipRecords /\ m.role # "owner"
    BY <2>2 DEF Membership, MembershipRecords, Roles
  <2>4. member' = member \/ member' = [member EXCEPT ![Joins(c)] = m]
    BY <1>3 DEF ReviewWorkspaceJoinRequest
  <2> HIDE DEF m
  <2>5. CASE member' = [member EXCEPT ![Joins(c)] = m]
    BY <1>0, <2>3, <2>5
  <2> QED
    BY <1>1, <2>4, <2>5
<1>4. ASSUME NEW c \in Calls, UpdateWorkspaceMember(c) PROVE Goal
  <2> DEFINE t == Asked(c).target
             x == call[c].read
             m == [member[t] EXCEPT !.role = x.role, !.permissions = x.permissions]
  <2>1. call[c] # None /\ call[c].step = "open" /\ Asked(c).op = "update"
    BY <1>4 DEF UpdateWorkspaceMember, Commits
  <2>2. t \in Users
    BY <1>C, <2>1, AskAssumption
  <2>3. x.role \in Roles \ {"owner"} /\ x.permissions \in SUBSET Permissions
    BY SMTT(30), <1>C, <2>1 DEF CallInv, Asked
  <2>4. member[t] \in MembershipRecords
    BY <1>4, <1>C, <2>1 DEF UpdateWorkspaceMember, Commits, CallInv, Asked, Seen
  <2>5. m \in MembershipRecords /\ m.role # "owner"
    BY <2>3, <2>4 DEF MembershipRecords
  <2>6. member' = [member EXCEPT ![t] = m]
    BY <1>4, <1>0, <2>2 DEF UpdateWorkspaceMember
  <2> HIDE DEF m
  <2> QED
    BY <1>0, <2>2, <2>5, <2>6
<1>5. ASSUME NEW c \in Calls, RemoveWorkspaceMember(c) PROVE Goal
  BY <1>0, <1>5 DEF RemoveWorkspaceMember
<1>6. ASSUME NEW c \in Calls, CallStep(c) PROVE Goal
  BY <1>1, <1>2, <1>3, <1>4, <1>5, <1>6
  DEF CallStep, Read, OpenTransaction, RetryTransaction, Abandon, CancelInvitation,
      CreateInvitation, RequestWorkspaceJoin
<1> QED
  BY <1>1, <1>6 DEF Next, vars, Lapse, ExpireInvitation

LEMMA GrantedStep ==
  ASSUME IInv, [Next]_vars
  PROVE  GrantedInv'
<1> SUFFICES ASSUME NEW u \in Users, u # Founder, IsOwner(u)'
             PROVE  /\ member'[u].id \in Invitations /\ invitation'[member'[u].id] # None
                    /\ invitation'[member'[u].id].role = "owner"
                    /\ IsOwner(invitation[member[u].id].inviter)'
  BY DEF GrantedInv
<1>1. OwnersKept /\ TermsKept
  BY OwnersKeptStep, InvitationsStep
<1>2. PICK i \in Invitations : /\ member'[u].id = i /\ invitation[i] # None
                               /\ invitation[i].role = "owner" /\ IsOwner(invitation[i].inviter)
  <2>1. CASE member'[u] = member[u]
    BY <2>1 DEF IInv, GrantedInv, IsOwner
  <2>2. CASE member'[u] # member[u]
    BY <2>2, MembersEdited DEF IsOwner
  <2> QED
    BY <2>1, <2>2
<1>3. /\ invitation'[i] # None /\ invitation'[i].role = "owner"
      /\ invitation'[i].inviter = invitation[i].inviter
  BY <1>1, <1>2 DEF TermsKept
<1>4. PICK w \in Users : w = invitation[i].inviter
  BY <1>2 DEF IInv, TypeOK, InvitationRecords
<1>5. IsOwner(w) /\ member'[w] = member[w]
  BY <1>1, <1>2, <1>4 DEF OwnersKept
<1>6. IsOwner(w)' /\ w = invitation'[i].inviter
  BY <1>3, <1>4, <1>5 DEF IsOwner
<1> QED
  BY <1>2, <1>3, <1>6 DEF IsOwner

\* A document that is decided now was pending, so nothing had been recorded of it.
LEMMA DecidedStep ==
  ASSUME IInv, [Next]_vars
  PROVE  DecidedInv'
<1> DEFINE Kept(x) == \/ /\ x.entity \in Invitations /\ invitation'[x.entity] # None
                         /\ invitation'[x.entity].status = x.event
                      \/ /\ x.entity \in JoinRequests /\ request'[x.entity] # None
                         /\ request'[x.entity].status = x.event
<1>1. ASSUME NEW x \in audit PROVE x.event # "pending" /\ Kept(x)
  <2>1. x.event # "pending"
    BY DEF IInv, DecidedInv
  <2>2. CASE /\ x.entity \in Invitations /\ invitation[x.entity] # None
             /\ invitation[x.entity].status = x.event
    BY <2>1, <2>2, InvitationsStep DEF TermsKept
  <2>3. CASE /\ x.entity \in JoinRequests /\ request[x.entity] # None
             /\ request[x.entity].status = x.event
    BY <2>1, <2>3, RequestsStep DEF RequestsKept
  <2> QED
    BY <2>1, <2>2, <2>3 DEF IInv, DecidedInv
<1>2. CASE UNCHANGED audit
  BY <1>1, <1>2 DEF DecidedInv, IInv
<1>3. ASSUME NEW e, audit' = audit \cup {e}, e.event # "pending", Kept(e),
             \A x \in audit : x.entity # e.entity
      PROVE  DecidedInv'
  <2>1. ASSUME NEW x \in audit', NEW y \in audit', x.entity = y.entity PROVE x = y
    BY <1>3, <2>1 DEF IInv, DecidedInv
  <2>2. \A x \in audit' : x.event # "pending" /\ Kept(x)
    BY <1>1, <1>3
  <2> QED
    BY <2>1, <2>2 DEF DecidedInv
<1>4. ASSUME NEW c \in Calls, NEW i \in Invitations, NEW s \in {"accepted", "cancelled"},
             Pending(i), Subject(c) = i, invitation' = [invitation EXCEPT ![i].status = s],
             audit' = audit \cup {Event(c, s)}
      PROVE  DecidedInv'
  <2> DEFINE e == Event(c, s)
  <2>1. e.event = s /\ e.entity = i
    BY <1>4 DEF Event
  <2>2. invitation \in [Invitations -> InvitationRecords \cup {None}] /\ invitation[i] \in InvitationRecords
    BY <1>4 DEF IInv, TypeOK, Pending
  <2>3. invitation'[i] = [invitation[i] EXCEPT !.status = s]
    BY <1>4, <2>2
  <2>4. invitation'[i] # None /\ invitation'[i].status = s
    <3>1. s \in {"pending", "accepted", "cancelled", "expired"}
      OBVIOUS
    <3>2. [invitation[i] EXCEPT !.status = s] # None /\ [invitation[i] EXCEPT !.status = s].status = s
      BY ZenonT(30), <3>1, <2>2, StatusChange
    <3> QED
      BY <3>2, <2>3, Zenon
  <2>5. \A x \in audit : x.entity # i
    BY <1>4, MemberAssumption DEF IInv, DecidedInv, Pending
  <2>6. audit' = audit \cup {e}
    BY <1>4
  <2> HIDE DEF e
  <2>7. e.event # "pending" /\ Kept(e) /\ \A x \in audit : x.entity # e.entity
    BY <2>1, <2>4, <2>5
  <2> QED
    BY <1>3, <2>6, <2>7
<1>5. ASSUME NEW c \in Calls, AcceptInvitation(c) \/ CancelInvitation(c) PROVE DecidedInv'
  <2>1. Subject(c) \in Invitations /\ Pending(Subject(c))
    BY <1>5 DEF AcceptInvitation, CancelInvitation, Commits, StillOpen, IInv, CallsInv, CallInv,
                Subject, Asked
  <2> QED
    BY <1>4, <1>5, <2>1 DEF AcceptInvitation, CancelInvitation, Closes
<1>6. ASSUME NEW c \in Calls, ReviewWorkspaceJoinRequest(c) PROVE DecidedInv'
  <2> DEFINE r == Subject(c)
             s == IF Asked(c).op = "approve" THEN "approved" ELSE "rejected"
             e == Event(c, s)
  <2>1. r \in JoinRequests /\ Awaiting(r)
    BY <1>6 DEF ReviewWorkspaceJoinRequest, Commits, StillOpen, IInv, CallsInv, CallInv, Subject, Asked
  <2>2. e.event = s /\ e.entity = r /\ s \in {"approved", "rejected"}
    BY DEF Event
  <2>3. request \in [JoinRequests -> JoinRequestRecords \cup {None}] /\ request[r] \in JoinRequestRecords
    BY <2>1 DEF IInv, TypeOK, Awaiting
  <2>4. request'[r] = [request[r] EXCEPT !.status = s]
    BY <1>6, <2>1, <2>3 DEF ReviewWorkspaceJoinRequest
  <2>5. request'[r] # None /\ request'[r].status = s
    BY ZenonT(30), <2>2, <2>3, <2>4, Review
  <2>6. \A x \in audit : x.entity # r
    BY <2>1, MemberAssumption DEF IInv, DecidedInv, Awaiting
  <2>7. audit' = audit \cup {e}
    BY <1>6 DEF ReviewWorkspaceJoinRequest, Closes
  <2> HIDE DEF r, s, e
  <2> QED
    BY <1>3, <2>1, <2>2, <2>5, <2>6, <2>7
<1>7. ASSUME NEW c \in Calls, CallStep(c) PROVE DecidedInv'
  BY <1>2, <1>5, <1>6, <1>7
  DEF CallStep, Read, OpenTransaction, RetryTransaction, Abandon, UpdateWorkspaceMember,
      RemoveWorkspaceMember, CreateInvitation, RequestWorkspaceJoin
<1> QED
  BY <1>2, <1>7 DEF Next, vars, Lapse, ExpireInvitation

LEMMA RemovalsStep ==
  ASSUME IInv, [Next]_vars
  PROVE  removals' \subseteq [user : Users, was : MembershipRecords, by : Users]
<1>1. CASE UNCHANGED removals
  BY <1>1 DEF IInv, TypeOK
<1>2. ASSUME NEW c \in Calls, RemoveWorkspaceMember(c)
      PROVE  removals' \subseteq [user : Users, was : MembershipRecords, by : Users]
  <2>1. call[c] # None /\ Asked(c).op = "remove"
    BY <1>2 DEF RemoveWorkspaceMember, Commits
  <2>2. Asked(c) \in Asks /\ call[c].read.was \in MembershipRecords
    BY <2>1 DEF IInv, CallsInv, CallInv, Asked
  <2>3. Asked(c).target \in Users /\ Asked(c).actor \in Users
    BY <2>1, <2>2, AskAssumption
  <2> QED
    BY <1>2, <2>2, <2>3 DEF RemoveWorkspaceMember, IInv, TypeOK
<1>3. ASSUME NEW c \in Calls, CallStep(c)
      PROVE  removals' \subseteq [user : Users, was : MembershipRecords, by : Users]
  BY <1>1, <1>2, <1>3
  DEF CallStep, Read, OpenTransaction, RetryTransaction, Abandon, AcceptInvitation, CancelInvitation,
      ReviewWorkspaceJoinRequest, UpdateWorkspaceMember, CreateInvitation, RequestWorkspaceJoin
<1> QED
  BY <1>1, <1>3 DEF Next, vars, Lapse, ExpireInvitation

\* What a call knows survives the steps of the others.
LEMMA KnowledgeKept ==
  ASSUME IInv, [Next]_vars, NEW c \in Calls, call'[c] = call[c]
  PROVE  CallInv(c)'
<1>1. OwnersKept /\ TermsKept /\ RequestsKept
  BY OwnersKeptStep, InvitationsStep, RequestsStep
<1>2. CASE call[c] = None
  BY <1>2 DEF CallInv
<1>3. CASE call[c] # None
  <2> DEFINE x == call[c]
  <2>1. CallInv(c)
    BY DEF IInv, CallsInv
  <2>2. x.ask.op \in {"accept", "cancel"} => invitation'[x.read.id] # None
    BY <1>1, <1>3, <2>1 DEF CallInv, TermsKept
  <2>3. x.ask.op \in {"approve", "reject"} => request'[x.read.id] # None
    BY SMTT(30), <1>1, <1>3, <2>1 DEF CallInv, RequestsKept
  <2>4. ASSUME x.step = "open", x.ask.op = "accept", invitation'[x.read.id].role = "owner"
        PROVE  IsOwner(invitation[call[c].read.id].inviter)'
    <3> DEFINE i == x.read.id
    <3>1. i \in Invitations /\ invitation[i] # None
      BY <1>3, <2>1, <2>4 DEF CallInv
    <3>2. invitation'[i].inviter = invitation[i].inviter /\ invitation[i].role = "owner"
      BY <1>1, <2>4, <3>1 DEF TermsKept
    <3>3. PICK w \in Users : w = invitation[i].inviter
      BY SMTT(30), <3>1 DEF IInv, TypeOK, InvitationRecords
    <3>4. IsOwner(w) /\ member'[w] = member[w]
      BY SMTT(30), <1>1, <1>3, <2>1, <2>4, <3>2, <3>3 DEF CallInv, OwnersKept
    <3>5. IsOwner(w)' /\ w = invitation'[i].inviter
      BY <3>2, <3>3, <3>4 DEF IsOwner
    <3> QED
      BY <3>5 DEF IsOwner
  <2> QED
    BY <1>3, <2>1, <2>2, <2>3, <2>4 DEF CallInv
<1> QED
  BY <1>2, <1>3

LEMMA TakeStep ==
  ASSUME CallsInv, NEW c \in Calls, NEW x, Take(c, x)
  PROVE  /\ call' = [d \in Calls |-> call'[d]] /\ call'[c] = x
         /\ \A d \in Calls \ {c} : call'[d] = call[d]
<1>1. call' = [d \in Calls |-> IF d = c THEN x ELSE call[d]]
  BY DEF CallsInv, Take
<1> QED
  BY <1>1

\* A call that has just read knows what its handler validated.
LEMMA ReadKnows ==
  ASSUME IInv, [Next]_vars, NEW c \in Calls, NEW a \in Asks, Read(c, a), call'[c] # call[c]
  PROVE  CallInv(c)'
<1>0. CallsInv /\ TermsKept /\ RequestsKept
  BY InvitationsStep, RequestsStep DEF IInv
<1>A. \A read : Ask(a, read) = [ask |-> a, step |-> "read", read |-> read, seen |-> None]
  BY DEF Ask, Call
<1>1. CASE ReadInvite(c, a) \/ ReadJoin(c, a)
  <2>1. a.op \in {"invite", "join"} /\ Take(c, Ask(a, None))
    BY <1>1 DEF ReadInvite, ReadJoin
  <2>2. call'[c] = [ask |-> a, step |-> "read", read |-> None, seen |-> None]
    BY <1>0, <1>A, <2>1, TakeStep
  <2> QED
    BY <2>1, <2>2 DEF CallInv
<1>2. ASSUME NEW i \in Invitations, ReadAccept(c, a, i) \/ ReadCancel(c, a, i) PROVE CallInv(c)'
  <2>1. PICK read : /\ read.id = i /\ Take(c, Ask(a, read))
                    /\ a.op \in {"accept", "cancel"} /\ invitation[i] # None
    BY <1>2 DEF ReadAccept, ReadCancel, Pending
  <2>2. call'[c] = [ask |-> a, step |-> "read", read |-> read, seen |-> None]
    BY <1>0, <1>A, <2>1, TakeStep
  <2>3. invitation'[i] # None
    BY <1>0, <2>1 DEF TermsKept
  <2> QED
    BY <2>1, <2>2, <2>3 DEF CallInv
<1>3. ASSUME NEW r \in JoinRequests, ReadReview(c, a, r) PROVE CallInv(c)'
  <2>1. /\ Take(c, Ask(a, [id |-> r])) /\ a.op \in {"approve", "reject"} /\ request[r] # None
    BY <1>3 DEF ReadReview, Awaiting
  <2>2. call'[c] = [ask |-> a, step |-> "read", read |-> [id |-> r], seen |-> None]
    BY <1>0, <1>A, <2>1, TakeStep
  <2>3. request'[r] # None
    BY <1>0, <2>1 DEF RequestsKept
  <2> QED
    BY <2>1, <2>2, <2>3 DEF CallInv
<1>4. CASE ReadUpdate(c, a)
  <2> DEFINE target == member[a.target]
             role == IF a.role = None THEN target.role ELSE a.role
             permissions == IF a.permissions = None THEN RolePermissions(a.role) ELSE a.permissions
             read == [role |-> role, permissions |-> permissions]
  <2>1. a.op = "update" /\ MayTarget(member[a.actor], target) /\ Take(c, Ask(a, read))
    BY <1>4 DEF ReadUpdate
  <2>2. target \in MembershipRecords /\ target.role # "owner"
    BY <2>1, AskAssumption DEF MayTarget, IInv, TypeOK
  <2>3. role \in Roles \ {"owner"}
    BY <2>1, <2>2, AskAssumption DEF MembershipRecords
  <2>4. permissions \in SUBSET Permissions
    BY <2>1, AskAssumption DEF RolePermissions
  <2>5. read.role \in Roles \ {"owner"} /\ read.permissions \in SUBSET Permissions
    BY <2>3, <2>4
  <2> HIDE DEF read
  <2>6. call'[c] = [ask |-> a, step |-> "read", read |-> read, seen |-> None]
    BY <1>0, <1>A, <2>1, TakeStep
  <2> QED
    BY <2>1, <2>5, <2>6 DEF CallInv
<1>5. CASE ReadRemove(c, a)
  <2> DEFINE read == [was |-> member[a.target]]
  <2>1. a.op = "remove" /\ MayTarget(member[a.actor], member[a.target]) /\ Take(c, Ask(a, read))
    BY <1>5 DEF ReadRemove
  <2>2. read.was \in MembershipRecords
    BY <2>1, AskAssumption DEF MayTarget, IInv, TypeOK
  <2> HIDE DEF read
  <2>3. call'[c] = [ask |-> a, step |-> "read", read |-> read, seen |-> None]
    BY <1>0, <1>A, <2>1, TakeStep
  <2> QED
    BY <2>1, <2>2, <2>3 DEF CallInv
<1> QED
  BY <1>1, <1>2, <1>3, <1>4, <1>5 DEF Read

\* A call that has opened its transaction has validated again in its snapshot.
LEMMA OpenKnows ==
  ASSUME IInv, NEW c \in Calls, OpenTransaction(c)
  PROVE  CallInv(c)'
<1> DEFINE x == call[c]
           a == Asked(c)
<1>1. /\ x # None /\ a = x.ask /\ CallsInv /\ CallInv(c)
      /\ UNCHANGED <<member, invitation, request>>
  BY DEF OpenTransaction, IInv, CallsInv, Asked
<1>2. CASE Take(c, None)
  <2>1. call'[c] = None
    BY <1>1, <1>2, TakeStep
  <2> QED
    BY <2>1 DEF CallInv
<1>3. ASSUME NEW snapshot, Take(c, Call(a, "open", x.read, snapshot)), Authorized(c),
             a.op \in {"update", "remove"} =>
               snapshot.target = member[a.target] /\ snapshot.actor = member[a.actor].role
      PROVE  CallInv(c)'
  <2>1. call'[c] = [ask |-> x.ask, step |-> "open", read |-> x.read, seen |-> snapshot]
    BY <1>1, <1>3, TakeStep DEF Call
  <2>2. a.op \in {"update", "remove"} =>
          /\ snapshot.target \in MembershipRecords /\ snapshot.target.role # "owner"
          /\ snapshot.target.role = "administrator" => snapshot.actor \in {"owner", "administrator"}
    <3>1. SUFFICES ASSUME a.op \in {"update", "remove"}
                   PROVE  /\ member[a.target] \in MembershipRecords /\ member[a.target].role # "owner"
                          /\ member[a.target].role = "administrator" =>
                               member[a.actor].role \in {"owner", "administrator"}
      BY <1>3
    <3>2. a.target \in Users
      BY <1>1, <3>1, AskAssumption DEF CallInv
    <3>3. TargetValidated(c)
      BY <1>3, <3>1 DEF Authorized
    <3> QED
      BY <3>2, <3>3 DEF TargetValidated, MayTarget, IInv, TypeOK
  <2>3. a.op = "accept" =>
          (invitation[x.read.id].role = "owner" => IsOwner(invitation[x.read.id].inviter))
    <3>1. ASSUME a.op = "accept"
          PROVE  MayGrant(member[invitation[Subject(c)].inviter], invitation[Subject(c)].role,
                          invitation[Subject(c)].permissions)
      BY SMTT(30), <1>3, <3>1 DEF Authorized
    <3> QED
      BY <3>1 DEF MayGrant, Subject, IsOwner
  <2>4. ASSUME x.ask.op = "accept", invitation'[x.read.id].role = "owner"
        PROVE  IsOwner(invitation[call[c].read.id].inviter)'
    BY <1>1, <2>1, <2>3, <2>4 DEF IsOwner
  <2> QED
    BY <1>1, <2>1, <2>2, <2>4 DEF CallInv
<1>4. \/ Take(c, None)
      \/ \E snapshot : /\ Take(c, Call(a, "open", x.read, snapshot)) /\ Authorized(c)
                       /\ a.op \in {"update", "remove"} =>
                            snapshot.target = member[a.target] /\ snapshot.actor = member[a.actor].role
  <2> DEFINE snapshot ==
               CASE a.op \in {"update", "remove"} -> [actor |-> member[a.actor].role,
                                                      target |-> member[a.target]]
                 [] a.op = "approve" -> [joins |-> member[Joins(c)] = None]
                 [] OTHER -> None
  <2>1. \/ Take(c, None)
        \/ Take(c, Call(a, "open", x.read, snapshot)) /\ Authorized(c)
    BY Zenon DEF OpenTransaction
  <2>2. a.op \in {"update", "remove"} =>
          snapshot.target = member[a.target] /\ snapshot.actor = member[a.actor].role
    OBVIOUS
  <2> HIDE DEF snapshot
  <2> QED
    BY <2>1, <2>2, Zenon
<1> QED
  BY <1>2, <1>3, <1>4

\* A call that runs its transaction again knows what it read, and no more.
LEMMA RetryKnows ==
  ASSUME IInv, NEW c \in Calls, RetryTransaction(c)
  PROVE  CallInv(c)'
<1> DEFINE x == call[c]
<1>1. /\ x # None /\ CallsInv /\ CallInv(c) /\ UNCHANGED <<member, invitation, request>>
      /\ Take(c, Ask(Asked(c), x.read))
  BY DEF RetryTransaction, IInv, CallsInv
<1>2. Ask(Asked(c), x.read) = [ask |-> x.ask, step |-> "read", read |-> x.read, seen |-> None]
  BY DEF Ask, Call, Asked
<1>3. call'[c] = [ask |-> x.ask, step |-> "read", read |-> x.read, seen |-> None]
  BY <1>1, <1>2, TakeStep
<1> QED
  BY <1>1, <1>3 DEF CallInv

LEMMA CallsStep ==
  ASSUME IInv, [Next]_vars
  PROVE  CallsInv'
<1>0. CallsInv
  BY DEF IInv
<1>1. CASE UNCHANGED call
  BY <1>0, <1>1, KnowledgeKept DEF CallsInv
<1>2. ASSUME NEW c \in Calls, NEW x, Take(c, x), CallInv(c)' PROVE CallsInv'
  <2>1. call' = [d \in Calls |-> call'[d]] /\ \A d \in Calls \ {c} : call'[d] = call[d]
    BY <1>0, <1>2, TakeStep
  <2>2. \A d \in Calls \ {c} : CallInv(d)'
    BY <2>1, KnowledgeKept
  <2> QED
    BY <1>2, <2>1, <2>2 DEF CallsInv
<1>3. ASSUME NEW c \in Calls, Take(c, None) PROVE CallsInv'
  <2>1. call'[c] = None
    BY <1>0, <1>3, TakeStep
  <2>2. CallInv(c)'
    BY <2>1 DEF CallInv
  <2> QED
    BY <1>2, <1>3, <2>2
<1>4. ASSUME NEW c \in Calls, NEW a \in Asks, Read(c, a) PROVE CallsInv'
  <2>1. UNCHANGED call \/ \E x : Take(c, x)
    BY <1>4 DEF Read, ReadInvite, ReadAccept, ReadCancel, ReadJoin, ReadReview, ReadUpdate, ReadRemove
  <2>2. CallInv(c)'
    BY <1>4, ReadKnows, KnowledgeKept
  <2> QED
    BY <1>1, <1>2, <2>1, <2>2
<1>5. ASSUME NEW c \in Calls, OpenTransaction(c) PROVE CallsInv'
  <2>1. \E x : Take(c, x)
    BY <1>5 DEF OpenTransaction
  <2> QED
    BY <1>2, <1>5, <2>1, OpenKnows
<1>6. ASSUME NEW c \in Calls, RetryTransaction(c) PROVE CallsInv'
  <2>1. \E x : Take(c, x)
    BY <1>6 DEF RetryTransaction
  <2> QED
    BY <1>2, <1>6, <2>1, RetryKnows
<1>7. ASSUME NEW c \in Calls, CallStep(c) PROVE CallsInv'
  BY <1>3, <1>4, <1>5, <1>6, <1>7
  DEF CallStep, Abandon, AcceptInvitation, CancelInvitation, ReviewWorkspaceJoinRequest, Closes,
      UpdateWorkspaceMember, RemoveWorkspaceMember, CreateInvitation, RequestWorkspaceJoin
<1> QED
  BY <1>1, <1>7 DEF Next, vars, Lapse, ExpireInvitation

---------------------------------------------------------------------------
(* The invariant *)

LEMMA InitIInv == Init => IInv
<1> SUFFICES ASSUME Init PROVE IInv
  OBVIOUS
<1>1. /\ member \in [Users -> MembershipRecords \cup {None}]
      /\ \A u \in Users : IsOwner(u) => u = Founder
  BY FirstAssumption DEF Init, IsOwner
<1>2. /\ \A i \in Invitations : invitation[i] = None
      /\ \A r \in JoinRequests : request[r] = None
      /\ \A c \in Calls : call[c] = None
  BY DEF Init
<1>3. TypeOK
  BY <1>1, <1>2 DEF TypeOK, Init, Pending, Awaiting
<1>4. CallsInv
  BY <1>2 DEF CallsInv, CallInv, Init
<1>5. GrantedInv
  BY <1>1 DEF GrantedInv
<1>6. DecidedInv
  BY DEF DecidedInv, Init
<1> QED
  BY <1>3, <1>4, <1>5, <1>6 DEF IInv

LEMMA TypeStep ==
  ASSUME IInv, [Next]_vars
  PROVE  TypeOK'
<1>1. CallsInv'
  BY CallsStep
<1>2. \A c \in Calls : call'[c] # None => call'[c].ask \in Asks /\ call'[c].step \in {"read", "open"}
  BY <1>1 DEF CallsInv, CallInv
<1>3. \A i, j \in Invitations : Pending(i)' /\ Pending(j)' /\ i # j =>
        invitation'[i].email = None \/ invitation'[i].email # invitation'[j].email
  BY OneInvitationPerEmail
<1> QED
  BY <1>2, <1>3, MembersEdited, InvitationsStep, RequestsStep, RemovalsStep DEF TypeOK

LEMMA Inductive == Spec => []IInv
<1>1. IInv /\ [Next]_vars => IInv'
  BY TypeStep, CallsStep, GrantedStep, DecidedStep DEF IInv
<1> QED
  BY InitIInv, <1>1, PTL DEF Spec

---------------------------------------------------------------------------
(* Theorems *)

\* Memberships, invitations, requests, removals and calls keep their types, with at
\* most one pending invitation for an email and one pending request of a user.
THEOREM MembershipTyped == Spec => []TypeOK
BY Inductive, PTL DEF IInv

\* No interleaving of role changes, removals and acceptances changes or removes an
\* owner, however long ago the call that tries was validated.
THEOREM OwnersRemain == Spec => OwnersStay
<1>1. IInv /\ [Next]_vars =>
        [\A u \in Users : member[u] # None /\ member[u].role = "owner" => member'[u] = member[u]]_vars
  BY OwnersKeptStep DEF OwnersKept, IsOwner
<1> QED
  BY Inductive, <1>1, PTL DEF Spec, OwnersStay

\* An administrator is changed or removed only by a call whose actor was an
\* administrator or owner in the snapshot that commits the change.
THEOREM AdministratorsSafe == Spec => AdministratorsGuarded
<1> DEFINE By(u) == \E c \in Calls : /\ call[c] # None /\ call'[c] = None /\ Asked(c).target = u
                                     /\ Seen(c).actor \in {"owner", "administrator"}
           Safe == \A u \in Users :
                     member[u] # None /\ member[u].role = "administrator" /\ member'[u] # member[u] => By(u)
<1>1. ASSUME IInv, [Next]_vars, NEW u \in Users, member[u] # None, member[u].role = "administrator",
             member'[u] # member[u]
      PROVE  By(u)
  <2>1. ASSUME NEW c \in Calls, AcceptInvitation(c) \/ ReviewWorkspaceJoinRequest(c) PROVE FALSE
    <3>1. Inserts(c) => member[Joins(c)] = None
      BY <2>1 DEF AcceptInvitation, ReviewWorkspaceJoinRequest, Commits
    <3>2. \A x : member' = member \/ (Inserts(c) /\ member' = [member EXCEPT ![Joins(c)] = x])
                   => member'[u] = member[u]
      BY <1>1, <3>1 DEF IInv, TypeOK
    <3> QED
      BY <1>1, <2>1, <3>2 DEF AcceptInvitation, ReviewWorkspaceJoinRequest, Joins
  <2>2. ASSUME NEW c \in Calls, UpdateWorkspaceMember(c) \/ RemoveWorkspaceMember(c) PROVE By(u)
    <3>1. /\ call[c] # None /\ call[c].step = "open" /\ Asked(c).op \in {"update", "remove"}
          /\ member[Asked(c).target] = Seen(c).target /\ Take(c, None)
      BY <2>2 DEF UpdateWorkspaceMember, RemoveWorkspaceMember, Commits
    <3>2. call'[c] = None
      BY <1>1, <3>1, TakeStep DEF IInv
    <3>3. Asked(c).target = u
      BY <1>1, <2>2 DEF UpdateWorkspaceMember, RemoveWorkspaceMember, IInv, TypeOK
    <3>4. CallInv(c)
      BY <1>1 DEF IInv, CallsInv
    <3>5. Seen(c).actor \in {"owner", "administrator"}
      BY <1>1, <3>1, <3>3, <3>4 DEF CallInv, Asked, Seen
    <3> QED
      BY <3>1, <3>2, <3>3, <3>5
  <2>3. \E c \in Calls : \/ AcceptInvitation(c) \/ ReviewWorkspaceJoinRequest(c)
                        \/ UpdateWorkspaceMember(c) \/ RemoveWorkspaceMember(c)
    BY <1>1 DEF Next, CallStep, vars, Read, OpenTransaction, RetryTransaction, Abandon, CancelInvitation,
                CreateInvitation, RequestWorkspaceJoin, Lapse, ExpireInvitation
  <2> QED
    BY <2>1, <2>2, <2>3
<1>2. IInv /\ [Next]_vars => [Safe]_vars
  BY <1>1
<1> QED
  BY Inductive, <1>2, PTL DEF Spec, AdministratorsGuarded

\* Whoever is an owner is the founder or accepted an invitation to ownership from
\* somebody who is one.
THEOREM OwnershipGranted == Spec => []OwnersGrantedByOwners
<1>1. IInv => OwnersGrantedByOwners
  BY DEF IInv, GrantedInv, OwnersGrantedByOwners, IsOwner
<1> QED
  BY Inductive, <1>1, PTL

\* Every invitation and every join request is decided at most once, and says how.
THEOREM DecidedAtMostOnce == Spec => []DecidedOnce
<1>1. IInv => DecidedOnce
  BY MemberAssumption DEF IInv, DecidedInv, DecidedOnce
<1> QED
  BY Inductive, <1>1, PTL
=============================================================================
