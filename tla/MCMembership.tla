---------------------------- MODULE MCMembership ----------------------------
(* Instances of Membership: a founder, an administrator or member, and a user *)
(* who may join, with what they can ask of each other.                       *)
EXTENDS Membership, TLC

CONSTANTS o1, m1, m2

First(role, permissions) == Membership("first", role, permissions)
Invite(u, email, role, permissions) ==
  [op |-> "invite", actor |-> u, email |-> email, role |-> role, permissions |-> permissions]
Simple(op, u) == [op |-> op, actor |-> u]
Update(u, t, role, permissions) ==
  [op |-> "update", actor |-> u, target |-> t, role |-> role, permissions |-> permissions]
Remove(u, t) == [op |-> "remove", actor |-> u, target |-> t]

Symmetry == Permutations(Invitations) \cup Permutations(Calls)

Household == {(o1 :> First("owner", {})) @@ (m1 :> First(role, {})) @@ (m2 :> m) :
                role \in {"administrator", "member"},
                m \in {None, First("member", {"manage_roles"})}}
HouseholdAsks ==
  {Invite(o1, None, "owner", {}), Invite(m1, m2, "owner", {}), Invite(o1, m2, "member", {"invite_members"}),
   Simple("accept", m1), Simple("accept", m2), Simple("cancel", o1),
   Simple("join", m2), Simple("approve", m1), Simple("reject", o1),
   Update(o1, m1, "administrator", None), Update(m2, m1, None, {}), Remove(m1, m2), Remove(m2, m1)}
=============================================================================
