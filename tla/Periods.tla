------------------------------ MODULE Periods ------------------------------
(***************************************************************************)
(* Period reviews: a member, or an approver for the whole workspace,        *)
(* captures the totals of a reporting period together with a cutoff ledger  *)
(* version; later the API explains today's totals as that snapshot plus the *)
(* revisions above the cutoff. Everything that makes a revision is here:    *)
(* transactions added, edited and deleted, category migrations, and manual  *)
(* runs of the automation rules.                                            *)
(*                                                                          *)
(* Transaction mutations and migrations are one MongoDB transaction each    *)
(* and write workspaces.ledger_version, so they are single steps. A review  *)
(* reads under a snapshot and commits only if ledger_version has not moved. *)
(* A rule run has no transaction around it: every write is a step.          *)
(*                                                                          *)
(* One workspace, one period, one currency; vaults are shared and accounts  *)
(* carry the visibility (a private vault hides accounts in the same way).   *)
(***************************************************************************)
EXTENDS Integers, FiniteSets, Sequences, Sums

CONSTANTS
  Members, Approvers,   \* those with approve_expenses may close the workspace view
  Managers,             \* those with edit_all_transactions may run the rules
  Accounts, OwnerOf,
  Strangers,            \* ids a body may name that are no account of the workspace
  Ids,                  \* transaction _ids; a migration numbers its rows in their order
  Bodies,               \* what a creation or an edit stores
  Categories,
  Reviewers,            \* concurrent CreatePeriodReview calls
  Runs,                 \* concurrent manual rule runs
  MaxLedgerVersion,     \* bound: ledger mutations explored
  None

VARIABLES
  tx,             \* transactions: _id -> record, or None
  shared,         \* accounts with privacy "workspace"
  ledgerVersion,
  revisions,      \* transaction audit_events
  reviews,        \* period_reviews, in cutoff order
  reviewing,      \* what each CreatePeriodReview call has read
  run,            \* where each rule run stands
  ruled           \* history: the transactions a rule run has written

vars == <<tx, shared, ledgerVersion, revisions, reviews, reviewing, run, ruled>>

Types == {"income", "expense", "transfer"}   \* as the totals and the modes see them
Privacies == {"workspace", "private"}
Scopes == Members \cup {"workspace"}         \* member_view of a member, workspace_view
Destinations == Accounts \cup Strangers \cup {None}
Transactions == [type : Types, account : Accounts, dest : Destinations,
                 amount : Nat, inPeriod : BOOLEAN, privacy : Privacies,
                 category : Categories, creator : Members]
Records == Transactions \cup {None}
Statuses == {"reviewed", "closed"}
Revisions == [version : Nat, tx : Ids, before : Records, after : Records]
Readings == [scope : Scopes, status : Statuses, accounts : SUBSET Accounts,
             captured : [Ids -> Records], seen : Nat]
Checkpoints == [scope : Scopes, status : Statuses, accounts : SUBSET Accounts,
                captured : [Ids -> Records], cutoff : Nat]
RunStates == [step : {"write", "advance", "audit"}, tx : Ids, before : Transactions,
              after : Transactions, version : Nat]

ASSUME PeriodAssumption ==
  /\ Ids \subseteq Nat /\ IsFiniteSet(Ids) /\ MaxLedgerVersion \in Nat
  /\ Approvers \subseteq Members /\ Managers \subseteq Members /\ OwnerOf \in [Accounts -> Members]
  /\ "workspace" \notin Members
  /\ None \notin Transactions \cup Accounts \cup Ids \cup Readings \cup RunStates
\* Only the destination of a transfer is validated.
ASSUME BodyAssumption ==
  \A b \in Bodies :
    /\ b.type \in Types /\ b.account \in Accounts /\ b.dest \in Destinations
    /\ b.type = "transfer" => b.dest \in Accounts /\ b.dest # b.account
    /\ b.amount \in Nat /\ b.inPeriod \in BOOLEAN
    /\ b.privacy \in Privacies /\ b.category \in Categories

---------------------------------------------------------------------------
(* Who sees what *)

\* periodScopeIDs: shared accounts, and for a member view the member's own.
ScopeAccounts(scope) == shared \cup {a \in Accounts : OwnerOf[a] = scope}

\* transactionQueryForScope: the destination of a record is not looked at.
Visible(scope, accounts, x) ==
  /\ x # None /\ x.account \in accounts
  /\ x.privacy = "workspace" \/ x.creator = scope

Listed(scope, accounts, x) == Visible(scope, accounts, x) /\ x.inPeriod

\* periodRevisionRelevantExpression: both accounts must be in scope, whatever the
\* type of the record.
Relevant(scope, accounts, x) ==
  Listed(scope, accounts, x) /\ (x.dest = None \/ x.dest \in accounts)

\* The records behind the totals of a period (periodSnapshotTotals).
InPeriod(scope, accounts) ==
  [t \in Ids |-> IF Listed(scope, accounts, tx[t]) THEN tx[t] ELSE None]

ChangesSince(r, accounts) ==
  {v \in revisions : /\ v.version > r.cutoff
                     /\ \/ Relevant(r.scope, accounts, v.before)
                        \/ Relevant(r.scope, accounts, v.after)}

---------------------------------------------------------------------------
(* Ledger mutations *)

Revision(version, t, before, after) ==
  [version |-> version, tx |-> t, before |-> before, after |-> after]

Revise(t, after) ==
  /\ ledgerVersion < MaxLedgerVersion
  /\ tx' = [tx EXCEPT ![t] = after]
  /\ ledgerVersion' = ledgerVersion + 1
  /\ revisions' = revisions \cup {Revision(ledgerVersion + 1, t, tx[t], after)}
  /\ UNCHANGED <<shared, reviews, reviewing, run, ruled>>

\* The destination of any type is stored as it came. The stored privacy may be
\* either one whatever the accounts are: rules change it, and the accounts were
\* read before the commit.
AddTransaction(m, t, b) ==
  /\ \A v \in revisions : v.tx # t          \* a new _id
  /\ Revise(t, [type |-> b.type, account |-> b.account, dest |-> b.dest, amount |-> b.amount,
                inPeriod |-> b.inPeriod, privacy |-> b.privacy, category |-> b.category,
                creator |-> m])

\* transactionFromInput: only a transfer keeps a destination, and an account that
\* is not shared makes the record private.
EditTransaction(m, t, b) ==
  LET dest == IF b.type = "transfer" THEN b.dest ELSE None
      accounts == {b.account, dest} \ {None}
  IN  /\ Visible(m, ScopeAccounts(m), tx[t]) /\ accounts \subseteq ScopeAccounts(m)
      /\ Revise(t, [type |-> b.type, account |-> b.account, dest |-> dest,
                    amount |-> b.amount, inPeriod |-> b.inPeriod, category |-> b.category,
                    privacy |-> IF accounts \subseteq shared THEN b.privacy ELSE "private",
                    creator |-> tx[t].creator])

DeleteTransaction(m, t) == Visible(m, ScopeAccounts(m), tx[t]) /\ Revise(t, None)

\* UpdateAccount may make an account private, or shared again. It leaves the
\* privacy of the transactions on it, and the ledger version, as they are.
SetAccountPrivacy(a) ==
  /\ shared' = IF a \in shared THEN shared \ {a} ELSE shared \cup {a}
  /\ UNCHANGED <<tx, ledgerVersion, revisions, reviews, reviewing, run, ruled>>

\* Renaming a category, or deleting it with a replacement, rewrites every
\* transaction of its mode, with one revision each in _id order.
MigrateCategory(mode, old, new) ==
  LET affected == {t \in Ids : tx[t] # None /\ tx[t].type = mode /\ tx[t].category = old}
      n == Cardinality(affected)
      rank(t) == Cardinality({u \in affected : u < t})
      first == ledgerVersion + 1
      renamed(t) == [tx[t] EXCEPT !.category = new]
  IN  /\ old # new /\ n > 0 /\ ledgerVersion + n <= MaxLedgerVersion
      /\ tx' = [t \in Ids |-> IF t \in affected THEN renamed(t) ELSE tx[t]]
      /\ ledgerVersion' = ledgerVersion + n
      /\ revisions' = revisions \cup
           {Revision(first + rank(t), t, tx[t], renamed(t)) : t \in affected}
      /\ UNCHANGED <<shared, reviews, reviewing, run, ruled>>

---------------------------------------------------------------------------
(* CreatePeriodReview: one transaction, read part and commit *)

PriorReviews(scope) == {i \in 1 .. Len(reviews) : reviews[i].scope = scope}
\* Reviews are appended in cutoff order, so the latest is the last one.
Latest(scope) == reviews[CHOOSE i \in PriorReviews(scope) :
                           \A j \in PriorReviews(scope) : j <= i]

DowngradeAllowed(scope, status) ==
  PriorReviews(scope) # {} /\ Latest(scope).status = status
    => ChangesSince(Latest(scope), ScopeAccounts(scope)) # {}
\* A closed period is not reviewed again, and the same status needs a change.
MayReview(scope, status) ==
  PriorReviews(scope) # {} =>
    /\ ~(Latest(scope).status = "closed" /\ status = "reviewed")
    /\ Latest(scope).status = status
         => ChangesSince(Latest(scope), ScopeAccounts(scope)) # {}

ReadReview(p, m, scope, status) ==
  /\ reviewing[p] = None
  /\ \/ scope = m
     \/ scope = "workspace" /\ status = "closed" /\ m \in Approvers
  /\ MayReview(scope, status)
  /\ reviewing' = [reviewing EXCEPT ![p] =
       [scope |-> scope, status |-> status, accounts |-> ScopeAccounts(scope),
        captured |-> InPeriod(scope, ScopeAccounts(scope)), seen |-> ledgerVersion]]
  /\ UNCHANGED <<tx, shared, ledgerVersion, revisions, reviews, run, ruled>>

UnmovedOrNot(p) == reviewing[p] # None
\* The workspace document has not been written since the snapshot of the
\* transaction; otherwise its $inc is a write conflict.
Unmoved(p) == reviewing[p] # None /\ reviewing[p].seen = ledgerVersion

CommitReview(p) ==
  LET c == reviewing[p]
  IN  /\ Unmoved(p) /\ ledgerVersion < MaxLedgerVersion
      /\ ledgerVersion' = ledgerVersion + 1
      /\ reviews' = Append(reviews, [scope |-> c.scope, status |-> c.status,
                                     accounts |-> c.accounts, captured |-> c.captured,
                                     cutoff |-> ledgerVersion + 1])
      /\ reviewing' = [reviewing EXCEPT ![p] = None]
      /\ UNCHANGED <<tx, shared, revisions, run, ruled>>

\* A conflicting transaction is run again from its first read, or given up.
RetryReview(p) ==
  /\ reviewing[p] # None /\ ~Unmoved(p)
  /\ reviewing' = [reviewing EXCEPT ![p] = None]
  /\ UNCHANGED <<tx, shared, ledgerVersion, revisions, reviews, run, ruled>>

---------------------------------------------------------------------------
(* RunAutomationRules on one transaction: read, then persistRuleRun, which    *)
(* writes the transaction, the ledger version and the revision one by one     *)

\* The rules change descriptive fields and the privacy of what was read.
ReadRun(p, m, t) ==
  /\ m \in Managers /\ run[p] = None /\ Visible(m, ScopeAccounts(m), tx[t])
  /\ \E c \in Categories, v \in Privacies :
       LET next == [tx[t] EXCEPT !.category = c, !.privacy = v]
       IN  /\ next # tx[t]
           /\ run' = [run EXCEPT ![p] = [step |-> "write", tx |-> t, before |-> tx[t],
                                         after |-> next, version |-> 0]]
  /\ UNCHANGED <<tx, shared, ledgerVersion, revisions, reviews, reviewing, ruled>>

\* $set of every field a rule may touch, whatever was stored since the read.
WriteRun(p) ==
  LET c == run[p]
      updated == [tx[c.tx] EXCEPT !.category = c.after.category, !.privacy = c.after.privacy]
  IN  /\ c # None /\ c.step = "write" /\ tx[c.tx] # None
      /\ tx' = [tx EXCEPT ![c.tx] = updated]
      /\ run' = [run EXCEPT ![p] = [c EXCEPT !.step = "advance", !.after = updated]]
      /\ ruled' = ruled \cup {c.tx}
      /\ UNCHANGED <<shared, ledgerVersion, revisions, reviews, reviewing>>

AdvanceRun(p) ==
  LET c == run[p]
  IN  /\ c # None /\ c.step = "advance" /\ ledgerVersion < MaxLedgerVersion
      /\ ledgerVersion' = ledgerVersion + 1
      /\ run' = [run EXCEPT ![p] = [c EXCEPT !.step = "audit", !.version = ledgerVersion + 1]]
      /\ UNCHANGED <<tx, shared, revisions, reviews, reviewing, ruled>>

\* The revision carries the version advanceLedgerVersion returned to this run.
AuditRun(p) ==
  LET c == run[p]
  IN  /\ c # None /\ c.step = "audit"
      /\ revisions' = revisions \cup {Revision(c.version, c.tx, c.before, c.after)}
      /\ run' = [run EXCEPT ![p] = None]
      /\ UNCHANGED <<tx, shared, ledgerVersion, reviews, reviewing, ruled>>

\* The transaction is gone, a write fails, the request is cancelled or the
\* process stops: what was written stays.
AbandonRun(p) ==
  /\ run[p] # None
  /\ run' = [run EXCEPT ![p] = None]
  /\ UNCHANGED <<tx, shared, ledgerVersion, revisions, reviews, reviewing, ruled>>

---------------------------------------------------------------------------
Init ==
  /\ tx = [t \in Ids |-> None] /\ shared \in SUBSET Accounts
  /\ ledgerVersion = 0 /\ revisions = {} /\ reviews = <<>>
  /\ reviewing = [p \in Reviewers |-> None] /\ run = [p \in Runs |-> None]
  /\ ruled = {}

Next ==
  \/ \E m \in Members, t \in Ids : \/ \E b \in Bodies : AddTransaction(m, t, b)
                                   \/ \E b \in Bodies : EditTransaction(m, t, b)
                                   \/ DeleteTransaction(m, t)
                                   \/ \E p \in Runs : ReadRun(p, m, t)
  \/ \E p \in Reviewers, m \in Members, scope \in Scopes, status \in Statuses :
       ReadReview(p, m, scope, status)
  \/ \E a \in Accounts : SetAccountPrivacy(a)
  \/ \E mode \in Types, old, new \in Categories : MigrateCategory(mode, old, new)
  \/ \E p \in Reviewers : CommitReview(p) \/ RetryReview(p)
  \/ \E p \in Runs : WriteRun(p) \/ AdvanceRun(p) \/ AuditRun(p) \/ AbandonRun(p)

Spec == Init /\ [][Next]_vars

---------------------------------------------------------------------------
(* Properties *)

\* The types of what is stored and of what the calls in flight have read; nothing
\* carries a version that the workspace has not reached.
TypeOK ==
  /\ tx \in [Ids -> Records] /\ shared \subseteq Accounts /\ ledgerVersion \in Nat
  /\ revisions \subseteq Revisions /\ \A v \in revisions : v.version \in 1 .. ledgerVersion
  /\ reviews \in Seq(Checkpoints)
  /\ \A i \in 1 .. Len(reviews) : reviews[i].cutoff \in 1 .. ledgerVersion
  /\ reviewing \in [Reviewers -> Readings \cup {None}]
  /\ \A p \in Reviewers : reviewing[p] # None => reviewing[p].seen \in 0 .. ledgerVersion
  /\ run \in [Runs -> RunStates \cup {None}]
  /\ \A p \in Runs : run[p] # None => run[p].version \in 0 .. ledgerVersion
  /\ ruled \subseteq Ids

Successive(i, j) ==
  /\ i < j /\ reviews[i].scope = reviews[j].scope
  /\ \A k \in i + 1 .. j - 1 : reviews[k].scope # reviews[i].scope

\* A closed period is never downgraded, although several reviews of the same
\* scope may be under way.
ClosedStaysClosed ==
  \A i, j \in 1 .. Len(reviews) :
    Successive(i, j) /\ reviews[i].status = "closed" => reviews[j].status = "closed"

\* "An unchanged retry with the same status returns conflict": of two successive
\* reviews with one status, a revision in the scope of the second lies between
\* their cutoffs. A double click leaves one checkpoint.
RereviewNeedsChange ==
  \A i, j \in 1 .. Len(reviews) :
    Successive(i, j) /\ reviews[i].status = reviews[j].status =>
      \E v \in ChangesSince(reviews[i], reviews[j].accounts) : v.version < reviews[j].cutoff

RevisionsOf(t, cutoff) == {v \in revisions : v.tx = t /\ v.version > cutoff}

\* The record as the review r shows it; v is the first of some revisions.
AsCaptured(r, x) == IF Listed(r.scope, r.accounts, x) THEN x ELSE None

First(later, v) == \A w \in later : v.version <= w.version

\* A snapshot and its cutoff fit without gap or overlap: for every transaction
\* the first revision after the cutoff starts at the captured record, and where
\* there is none the captured record is still the stored one.  Rule runs write
\* outside any transaction, so the records they wrote are left out.
SnapshotMeetsRevisions ==
  \A i \in 1 .. Len(reviews) : \A t \in Ids \ ruled :
    LET r == reviews[i]
        later == RevisionsOf(t, r.cutoff)
    IN  /\ later = {} => r.captured[t] = AsCaptured(r, tx[t])
        /\ \A v \in later : First(later, v) => r.captured[t] = AsCaptured(r, v.before)

Amount(x, type) == IF x # None /\ x.type = type THEN x.amount ELSE 0

\* The totals a review captured and those of today, over the records that no rule
\* run has written, and what the revisions since add to the one and take from it.
Captured(r, type) == Total([t \in Ids \ ruled |-> Amount(r.captured[t], type)])

Today(r) == InPeriod(r.scope, ScopeAccounts(r.scope))
Standing(r, type) == Total([t \in Ids \ ruled |-> Amount(Today(r)[t], type)])

Differences(r) == {v \in ChangesSince(r, ScopeAccounts(r.scope)) : v.tx \notin ruled}

RelevantAmount(r, x, type) ==
  IF Relevant(r.scope, ScopeAccounts(r.scope), x) THEN Amount(x, type) ELSE 0

Gained(r, type) == Total([v \in Differences(r) |-> RelevantAmount(r, v.after, type)])
Lost(r, type) == Total([v \in Differences(r) |-> RelevantAmount(r, v.before, type)])

\* The scope a review captured is the scope its reader has now.
Comparable(r) == ScopeAccounts(r.scope) = r.accounts

\* What the totals count although its revisions are not relevant: the records
\* that name a destination outside the scope.
Unexplained(r, records, type) ==
  Total([t \in {u \in Ids \ ruled : ~Relevant(r.scope, ScopeAccounts(r.scope), records[u])}
           |-> Amount(records[t], type)])

\* The cumulative difference a review reports is the difference from its snapshot:
\* snapshot plus revisions are the income and the spending of the period today,
\* up to the records whose revisions the difference leaves out: those are in both
\* totals (transactionQueryForScope), and in no difference.
MoneyReconciles ==
  \A i \in 1 .. Len(reviews) : Comparable(reviews[i]) =>
    LET r == reviews[i]
    IN  \A type \in {"income", "expense"} :
          Captured(r, type) + Gained(r, type) + Unexplained(r, Today(r), type)
            = Standing(r, type) + Lost(r, type) + Unexplained(r, r.captured, type)
=============================================================================
