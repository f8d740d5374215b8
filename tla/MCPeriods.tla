----------------------------- MODULE MCPeriods -----------------------------
(***************************************************************************)
(* A finite instance of Periods for TLC.                                    *)
(***************************************************************************)
EXTENDS Periods, TLC

CONSTANTS a1, x1, m1, m2, c1, c2

OneOwnedBy == a1 :> m1
Swap == Permutations(Reviewers)
Body(type, from, to, amount, inPeriod, privacy) ==
  [type |-> type, account |-> from, dest |-> to, amount |-> amount,
   inPeriod |-> inPeriod, privacy |-> privacy, category |-> c1]

\* Spending and income, shared and private; the income names a destination.
Flows == {Body("expense", a1, None, 1, TRUE, "workspace"),
          Body("income", a1, x1, 2, TRUE, "private")}

\* Bounds: a second record is income of the first member beside spending; two
\* reviews are under way, or rules are run, while there is only one record, spending
\* of that member, and one version less; and rules are run beside one review at most,
\* while the account is shared.
TwoReviews == \A p \in Reviewers : reviewing[p] # None

RulesRun == ruled # {} \/ \E p \in Runs : run[p] # None

Small ==
  /\ ledgerVersion < MaxLedgerVersion /\ Len(reviews) <= 2
  /\ \A v \in revisions :
       /\ v.tx = 1
       /\ \A x \in {v.before, v.after} \ {None} :
            x.creator = m1 /\ x.type = "expense" /\ x.category = c1
  /\ \A i \in 1 .. Len(reviews) : reviews[i].scope # m2
  /\ \A p \in Reviewers : reviewing[p] # None => reviewing[p].scope # m2

SecondIsIncome ==
  \A v \in revisions : v.tx = 2 =>
    \A x \in {v.before, v.after} \ {None} : x.creator = m1 /\ x.type = "income"

FirstIsExpense ==
  (\E v \in revisions : v.tx = 2) =>
    \A v \in revisions : v.tx = 1 =>
      \A x \in {v.before, v.after} \ {None} : x.type = "expense"

Focus ==
  /\ SecondIsIncome /\ FirstIsExpense
  /\ TwoReviews \/ RulesRun => Small
  /\ RulesRun => ~TwoReviews /\ Len(reviews) <= 1 /\ shared = Accounts
=============================================================================
