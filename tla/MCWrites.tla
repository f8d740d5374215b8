------------------------------ MODULE MCWrites ------------------------------
(* Viewers for TLC: a role by its permissions, roles with one more grant, and the demo. *)
EXTENDS Writes

Of(role) == [may |-> RolePermissions(role), demo |-> FALSE]

With(role, grant) == [may |-> RolePermissions(role) \cup {grant}, demo |-> FALSE]

\* Roles that differ in what they are offered, two grants that differ from
\* every role, and the demo.
SomeViewers ==
  {Of("owner"), Of("approver"), With("member", "invite_members"), With("viewer", "manage_goals"),
   [may |-> {}, demo |-> TRUE]}
=============================================================================
