------------------------------ MODULE MCGoals ------------------------------
(* An instance of Goals: two goals, two keys, two calls, one of which is created *)
(* with 1 of its target of 3, amounts 1 and 2, so that one request fills it and  *)
(* two would overfill it.                                                        *)
EXTENDS Goals, TLC

CONSTANTS g1, g2, k1, k2, t1, n1, n2, c1, c2, e1

Save(g, k, amount) == [kind |-> "progress", goal |-> g, key |-> k, amount |-> amount, tx |-> None]
Create(g, k, amount) == [kind |-> "transaction", goal |-> g, key |-> k, amount |-> amount, tx |-> None]
Link(g, k, t) == [kind |-> "linked_transaction", goal |-> g, key |-> k, amount |-> 0, tx |-> t]

\* The goal nobody edits has an amount to start with.
Begun == [g \in GoalIds |-> IF g = g1 THEN 1 ELSE 0]

Mixed == {Save(g1, k1, 2), Link(g1, k1, t1), Link(g2, k2, t1), Create(g1, k1, 2),
          Create(g2, k2, 1)}
=============================================================================
