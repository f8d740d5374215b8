----------------------------- MODULE Membership -----------------------------
(***************************************************************************)
(* Who belongs to a workspace: invitations (a single-use token, with or     *)
(* without the email of its recipient), join requests that a member         *)
(* reviews, changes of role and permissions, and removal.                   *)
(*                                                                          *)
(* Every operation reads and validates first and then opens a MongoDB       *)
(* transaction, which validates again in its own snapshot. A snapshot       *)
(* protects only what the transaction writes: a document that was merely    *)
(* read, the actor's own membership above all, may be gone when it commits. *)
(* An operation is therefore up to three steps: what it reads, its snapshot *)
(* ("open"), and its commit, or a write conflict that runs it again.        *)
(*                                                                          *)
(* One workspace. finance_manager, approver and viewer hold none of the     *)
(* permissions that matter here, as member does, which stands for them.     *)
(***************************************************************************)
EXTENDS Integers, FiniteSets

CONSTANTS
  Users, Founder,
  FirstMembers,        \* memberships there may be when the exploration begins
  Invitations,         \* _ids of invitations
  JoinRequests,        \* _ids of join requests
  Asks,                \* bound: what clients ask for
  Calls,               \* requests in flight at once
  None

VARIABLES
  member,       \* memberships: user -> record, or None
  invitation,   \* invitations: _id -> record, or None
  request,      \* workspace_join_requests: _id -> record, or None
  removals,     \* workspace_member_removals
  audit,        \* audit_events of decisions on invitations and requests
  call          \* what each request in flight asks, and what it has read

vars == <<member, invitation, request, removals, audit, call>>

Roles == {"owner", "administrator", "member"}
Permissions == {"invite_members", "remove_members", "manage_roles"}
Operations == {"invite", "accept", "cancel", "join", "approve", "reject", "update", "remove"}

MembershipRecords ==
  [id : {"first"} \cup Invitations \cup JoinRequests, role : Roles, permissions : SUBSET Permissions]
InvitationRecords ==
  [inviter : Users, email : Users \cup {None}, role : Roles, permissions : SUBSET Permissions,
   status : {"pending", "accepted", "cancelled", "expired"}, lapsed : BOOLEAN]
JoinRequestRecords == [user : Users, status : {"pending", "approved", "rejected"}]

ASSUME MemberAssumption ==
  /\ Founder \in Users /\ Invitations \cap JoinRequests = {}
  /\ None \notin Users \cup Invitations \cup JoinRequests \cup Roles
  /\ None \notin MembershipRecords \cup InvitationRecords \cup JoinRequestRecords
\* FirstMembers are records of an earlier life of the workspace, whose one owner
\* is the founder.
ASSUME FirstAssumption ==
  \A f \in FirstMembers :
    /\ f \in [Users -> MembershipRecords \cup {None}]
    /\ \A u \in Users : f[u] # None =>
         f[u].id = "first" /\ (f[u].role = "owner" <=> u = Founder)
    /\ f[Founder] # None
ASSUME AskAssumption ==
  \A a \in Asks :
    /\ a.op \in Operations /\ a.actor \in Users
    /\ a.op = "invite" => /\ a.email \in Users \cup {None} /\ a.role \in Roles
                          /\ a.permissions \subseteq Permissions
    /\ a.op \in {"update", "remove"} => a.target \in Users
    /\ a.op = "update" =>      \* "role or permissions is required", and never owner
         /\ a.role \in (Roles \ {"owner"}) \cup {None}
         /\ a.permissions = None \/ a.permissions \subseteq Permissions
         /\ a.role # None \/ a.permissions # None

---------------------------------------------------------------------------
(* Authority *)

Membership(id, role, permissions) == [id |-> id, role |-> role, permissions |-> permissions]

RolePermissions(role) == IF role \in {"owner", "administrator"} THEN Permissions ELSE {}
Held(m) == IF m = None THEN {} ELSE m.permissions \cup RolePermissions(m.role)
Require(u, permission) == permission \in Held(member[u])

MayGrantWhatTheyHold(m, role, permissions) ==
  m # None /\ RolePermissions(role) \cup permissions \subseteq Held(m)
\* Nobody grants what they do not hold; only an owner grants ownership.
MayGrant(m, role, permissions) ==
  /\ m # None /\ (role = "owner" => m.role = "owner")
  /\ RolePermissions(role) \cup permissions \subseteq Held(m)

\* validateMemberTarget
MayTarget(m, target) ==
  /\ target # None /\ target.role # "owner"
  /\ target.role = "administrator" => m # None /\ m.role \in {"owner", "administrator"}

Pending(i) == invitation[i] # None /\ invitation[i].status = "pending"
Awaiting(r) == request[r] # None /\ request[r].status = "pending"

---------------------------------------------------------------------------
(* Reads and validation, outside any transaction *)

Take(c, a) == call' = [call EXCEPT ![c] = a]
Call(a, step, read, seen) == [ask |-> a, step |-> step, read |-> read, seen |-> seen]
Ask(a, read) == Call(a, "read", read, None)

\* CreateInvitation first marks what has expired for this email.
ReadInvite(c, a) ==
  LET stale(i) == Pending(i) /\ invitation[i].email = a.email /\ invitation[i].lapsed
      live(i) == Pending(i) /\ invitation[i].email = a.email /\ ~invitation[i].lapsed
  IN  /\ a.op = "invite" /\ Require(a.actor, "invite_members")
      /\ invitation' = [i \in Invitations |->
                          IF stale(i) THEN [invitation[i] EXCEPT !.status = "expired"]
                          ELSE invitation[i]]
      /\ IF /\ MayGrant(member[a.actor], a.role, a.permissions)
            /\ a.email # None => \A i \in Invitations : ~live(i)
         THEN Take(c, Ask(a, None)) ELSE call' = call

\* The membership of the recipient is looked up once, here.
ReadAccept(c, a, i) ==
  /\ a.op = "accept" /\ Pending(i) /\ ~invitation[i].lapsed
  /\ invitation[i].email \in {None, a.actor}
  /\ Take(c, Ask(a, [id |-> i, exists |-> member[a.actor] # None]))
  /\ UNCHANGED invitation

ReadCancel(c, a, i) ==
  /\ a.op = "cancel" /\ Require(a.actor, "invite_members") /\ invitation[i] # None
  /\ Take(c, Ask(a, [id |-> i])) /\ UNCHANGED invitation

\* A member is refused; a pending request is returned as it is.
ReadJoin(c, a) ==
  /\ a.op = "join" /\ member[a.actor] = None
  /\ \A r \in JoinRequests : ~(Awaiting(r) /\ request[r].user = a.actor)
  /\ Take(c, Ask(a, None)) /\ UNCHANGED invitation

ReadReview(c, a, r) ==
  /\ a.op \in {"approve", "reject"} /\ Require(a.actor, "invite_members") /\ Awaiting(r)
  /\ Take(c, Ask(a, [id |-> r])) /\ UNCHANGED invitation

\* The role and the permissions to be stored are complete from here on: what the
\* client left out is what the membership has now, or the defaults of a new role.
ReadUpdate(c, a) ==
  LET target == member[a.target]
  IN  /\ a.op = "update" /\ Require(a.actor, "manage_roles")
      /\ MayTarget(member[a.actor], target)
      /\ a.permissions # None => a.permissions \subseteq Held(member[a.actor])
      /\ Take(c, Ask(a, [role |-> IF a.role = None THEN target.role ELSE a.role,
                         permissions |-> IF a.permissions = None THEN RolePermissions(a.role)
                                         ELSE a.permissions]))
      /\ UNCHANGED invitation

\* The record of the removal is filled in from here.
ReadRemove(c, a) ==
  /\ a.op = "remove" /\ Require(a.actor, "remove_members")
  /\ MayTarget(member[a.actor], member[a.target])
  /\ Take(c, Ask(a, [was |-> member[a.target]])) /\ UNCHANGED invitation

Read(c, a) ==
  /\ call[c] = None
  /\ \/ ReadInvite(c, a) \/ ReadJoin(c, a) \/ ReadUpdate(c, a) \/ ReadRemove(c, a)
     \/ \E i \in Invitations : ReadAccept(c, a, i) \/ ReadCancel(c, a, i)
     \/ \E r \in JoinRequests : ReadReview(c, a, r)
  /\ UNCHANGED <<member, request, removals, audit>>

---------------------------------------------------------------------------
(* The transaction: its snapshot, and what it finds there *)

Seen(c) == call[c].seen
Asked(c) == call[c].ask
Subject(c) == call[c].read.id

\* Who becomes a member if the transaction commits.
Joins(c) == IF Asked(c).op = "accept" THEN Asked(c).actor ELSE request[Subject(c)].user

TargetValidatedBefore(c) == TRUE
\* The actor over the target, as both are in the snapshot.
TargetValidated(c) == MayTarget(member[Asked(c).actor], member[Asked(c).target])

\* The authority of the actor, or of the inviter for an acceptance.
Authorized(c) ==
  LET a == Asked(c)
  IN  CASE a.op = "accept" ->
             LET i == invitation[Subject(c)]
             IN  /\ Require(i.inviter, "invite_members")
                 /\ MayGrant(member[i.inviter], i.role, i.permissions)
        [] a.op \in {"cancel", "approve", "reject"} -> Require(a.actor, "invite_members")
        [] a.op \in {"update", "remove"} ->
             /\ Require(a.actor, IF a.op = "update" THEN "manage_roles" ELSE "remove_members")
             /\ member[a.target] # None /\ TargetValidated(c)

OpenAnyway(c) == TRUE
\* The filters on status. Whether an invitation has expired was settled before.
StillOpen(c) ==
  CASE Asked(c).op \in {"accept", "cancel"} -> Pending(Subject(c))
    [] Asked(c).op \in {"approve", "reject"} -> Awaiting(Subject(c))
    [] Asked(c).op \in {"update", "remove"} -> TRUE

\* An acceptance inserts a membership unless one was read before; an approval
\* unless its snapshot has one.
Inserts(c) ==
  CASE Asked(c).op = "accept" -> ~call[c].read.exists
    [] Asked(c).op = "approve" -> Seen(c).joins
    [] OTHER -> FALSE

OpenTransaction(c) ==
  LET a == Asked(c)
      snapshot == CASE a.op \in {"update", "remove"} -> [actor |-> member[a.actor].role,
                                                         target |-> member[a.target]]
                    [] a.op = "approve" -> [joins |-> member[Joins(c)] = None]
                    [] OTHER -> None
  IN  /\ call[c] # None /\ a.op \notin {"invite", "join"} /\ call[c].step = "read"
      /\ IF Authorized(c) /\ StillOpen(c)
         THEN Take(c, Call(a, "open", call[c].read, snapshot))
         ELSE Take(c, None)
      /\ UNCHANGED <<member, invitation, request, removals, audit>>

\* What the transaction writes has not been written since its snapshot, and the
\* unique index on (workspace, user) admits what it inserts.
Commits(c) ==
  /\ call[c] # None /\ call[c].step = "open" /\ StillOpen(c)
  /\ Asked(c).op \in {"update", "remove"} => member[Asked(c).target] = Seen(c).target
  /\ Inserts(c) => member[Joins(c)] = None

Event(c, event) == [event |-> event, entity |-> Subject(c), actor |-> Asked(c).actor]
Closes(c, status) ==
  /\ audit' = audit \cup {Event(c, status)} /\ Take(c, None)

AcceptInvitation(c) ==
  LET i == Subject(c)
      u == Asked(c).actor
  IN  /\ Commits(c) /\ Asked(c).op = "accept"
      /\ invitation' = [invitation EXCEPT ![i].status = "accepted"]
      /\ member' = IF Inserts(c)
                   THEN [member EXCEPT ![u] = Membership(i, invitation[i].role, invitation[i].permissions)]
                   ELSE member
      /\ Closes(c, "accepted") /\ UNCHANGED <<request, removals>>

CancelInvitation(c) ==
  /\ Commits(c) /\ Asked(c).op = "cancel"
  /\ invitation' = [invitation EXCEPT ![Subject(c)].status = "cancelled"]
  /\ Closes(c, "cancelled") /\ UNCHANGED <<member, request, removals>>

ReviewWorkspaceJoinRequest(c) ==
  LET r == Subject(c)
      status == IF Asked(c).op = "approve" THEN "approved" ELSE "rejected"
  IN  /\ Commits(c) /\ Asked(c).op \in {"approve", "reject"}
      /\ request' = [request EXCEPT ![r].status = status]
      /\ member' = IF Inserts(c) THEN [member EXCEPT ![Joins(c)] = Membership(r, "member", {})]
                   ELSE member
      /\ Closes(c, status) /\ UNCHANGED <<invitation, removals>>

UpdateWorkspaceMember(c) ==
  /\ Commits(c) /\ Asked(c).op = "update"
  /\ member' = [member EXCEPT ![Asked(c).target].role = call[c].read.role,
                              ![Asked(c).target].permissions = call[c].read.permissions]
  /\ Take(c, None) /\ UNCHANGED <<invitation, request, removals, audit>>

RemoveWorkspaceMember(c) ==
  /\ Commits(c) /\ Asked(c).op = "remove"
  /\ member' = [member EXCEPT ![Asked(c).target] = None]
  /\ removals' = removals \cup {[user |-> Asked(c).target, was |-> call[c].read.was,
                                 by |-> Asked(c).actor]}
  /\ Take(c, None) /\ UNCHANGED <<invitation, request, audit>>

\* A write conflict: the driver runs the transaction again.
RetryTransaction(c) ==
  /\ call[c] # None /\ call[c].step = "open" /\ ~Commits(c)
  /\ Take(c, Ask(Asked(c), call[c].read))
  /\ UNCHANGED <<member, invitation, request, removals, audit>>

\* A duplicate key, a failed write or a lost connection.
Abandon(c) ==
  /\ call[c] # None /\ Take(c, None)
  /\ UNCHANGED <<member, invitation, request, removals, audit>>

---------------------------------------------------------------------------
(* Transactions that only insert, under a unique index, and the passing of time *)

\* Partial unique index on (workspace, email) of pending invitations.
EmailFree(email) ==
  email # None => \A i \in Invitations : ~(Pending(i) /\ invitation[i].email = email)

CreateInvitation(c, i) ==
  LET a == Asked(c)
  IN  /\ call[c] # None /\ a.op = "invite" /\ invitation[i] = None /\ EmailFree(a.email)
      /\ invitation' = [invitation EXCEPT ![i] =
           [inviter |-> a.actor, email |-> a.email, role |-> a.role,
            permissions |-> a.permissions, status |-> "pending", lapsed |-> FALSE]]
      /\ Take(c, None) /\ UNCHANGED <<member, request, removals, audit>>

RequestWorkspaceJoin(c, r) ==
  LET u == Asked(c).actor
  IN  /\ call[c] # None /\ Asked(c).op = "join" /\ request[r] = None
      /\ \A q \in JoinRequests : ~(Awaiting(q) /\ request[q].user = u)
      /\ request' = [request EXCEPT ![r] = [user |-> u, status |-> "pending"]]
      /\ Take(c, None) /\ UNCHANGED <<member, invitation, removals, audit>>

\* Seven days pass; later the TTL index deletes the document.
Lapse(i) ==
  /\ Pending(i) /\ ~invitation[i].lapsed
  /\ invitation' = [invitation EXCEPT ![i].lapsed = TRUE]
  /\ UNCHANGED <<member, request, removals, audit, call>>

ExpireInvitation(i) ==
  /\ Pending(i) /\ invitation[i].lapsed
  /\ invitation' = [invitation EXCEPT ![i].status = "expired"]
  /\ UNCHANGED <<member, request, removals, audit, call>>

---------------------------------------------------------------------------
Init ==
  /\ member \in FirstMembers
  /\ invitation = [i \in Invitations |-> None] /\ request = [r \in JoinRequests |-> None]
  /\ removals = {} /\ audit = {} /\ call = [c \in Calls |-> None]

CallStep(c) ==
  \/ \E a \in Asks : Read(c, a)
  \/ OpenTransaction(c) \/ RetryTransaction(c) \/ Abandon(c)
  \/ AcceptInvitation(c) \/ CancelInvitation(c) \/ ReviewWorkspaceJoinRequest(c)
  \/ UpdateWorkspaceMember(c) \/ RemoveWorkspaceMember(c)
  \/ \E i \in Invitations : CreateInvitation(c, i)
  \/ \E r \in JoinRequests : RequestWorkspaceJoin(c, r)

Next ==
  \/ \E c \in Calls : CallStep(c)
  \/ \E i \in Invitations : Lapse(i) \/ ExpireInvitation(i)

Spec == Init /\ [][Next]_vars

---------------------------------------------------------------------------
(* Properties *)

\* The types of memberships, invitations, requests and calls; at most one pending
\* invitation for an email and one pending request of a user.
TypeOK ==
  /\ member \in [Users -> MembershipRecords \cup {None}]
  /\ invitation \in [Invitations -> InvitationRecords \cup {None}]
  /\ request \in [JoinRequests -> JoinRequestRecords \cup {None}]
  /\ \A i, j \in Invitations : Pending(i) /\ Pending(j) /\ i # j =>
       invitation[i].email = None \/ invitation[i].email # invitation[j].email
  /\ \A q, r \in JoinRequests :
       Awaiting(q) /\ Awaiting(r) /\ request[q].user = request[r].user => q = r
  /\ removals \subseteq [user : Users, was : MembershipRecords, by : Users]
  /\ \A c \in Calls : call[c] # None => call[c].ask \in Asks /\ call[c].step \in {"read", "open"}

\* An owner is never demoted or removed, by a call that found something else when
\* it was validated either: a workspace always has its founder.
OwnersStay ==
  [][\A u \in Users : member[u] # None /\ member[u].role = "owner" => member'[u] = member[u]]_vars

\* Ownership comes from an owner: every other owner accepted an invitation to it
\* that an owner had sent.
OwnersGrantedByOwners ==
  \A u \in Users : u # Founder /\ member[u] # None /\ member[u].role = "owner" =>
    /\ member[u].id \in Invitations
    /\ LET i == invitation[member[u].id]
       IN  i.role = "owner" /\ member[i.inviter] # None /\ member[i.inviter].role = "owner"

\* A token is redeemed by one user, once, and never after it was cancelled; a join
\* request is decided once; and each decision is what the document says.
DecidedOnce ==
  /\ \A x, y \in audit : x.entity = y.entity => x = y
  /\ \A x \in audit : IF x.entity \in Invitations THEN invitation[x.entity].status = x.event
                      ELSE request[x.entity].status = x.event

\* "preventing ordinary members from changing owners or administrators": who
\* changes or removes an administrator was one, or an owner, in the transaction
\* that does it, whatever either of them was when the call was validated.
AdministratorsGuarded ==
  [][\A u \in Users : member[u] # None /\ member[u].role = "administrator" /\ member'[u] # member[u] =>
       \E c \in Calls : /\ call[c] # None /\ call'[c] = None /\ Asked(c).target = u
                        /\ Seen(c).actor \in {"owner", "administrator"}]_vars
=============================================================================
