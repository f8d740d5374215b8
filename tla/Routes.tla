------------------------------- MODULE Routes -------------------------------
(***************************************************************************)
(* The write routes of the API as its web client meets them.  A route is   *)
(* a record of                                                             *)
(*   needs      the permissions without which it answers 403,              *)
(*   changes    the client's cached reads whose content a success changes, *)
(*   complains  the fields it may refuse although the request is well      *)
(*              formed: the ones judged against stored records, which no   *)
(*              form can foresee.                                          *)
(* The services' own state is in Ledger, Goals, Imports, Periods and       *)
(* Membership; here only what their client can tell apart is kept.         *)
(***************************************************************************)

\* Tables are written as with the operators of these names in TLC, here with
\* definitions that a proof can expand: the entries of f over those of g.
f @@ g == [k \in DOMAIN f \cup DOMAIN g |-> IF k \in DOMAIN f THEN f[k] ELSE g[k]]
k :> v == [x \in {k} |-> v]

Views == {"view_workspace", "view_vault", "view_balances", "view_transactions"}

Contributes == Views \cup {"create_transactions", "edit_own", "delete_own", "submit_expenses"}

Manages ==
  Views \cup {"create_vault", "edit_vault", "create_transactions", "edit_own", "edit_all",
              "manage_budgets", "manage_goals", "manage_bills", "submit_expenses",
              "approve_expenses", "export_data", "view_audit"}

Permissions ==
  Manages \cup {"edit_workspace", "invite_members", "remove_members", "manage_roles",
                "archive_vault", "delete_own", "delete_all"}

Roles == {"owner", "administrator", "finance_manager", "approver", "member", "viewer"}

\* What each role may do before any individual grant.
RolePermissions(role) ==
  CASE role \in {"owner", "administrator"} -> Permissions
    [] role = "finance_manager" -> Manages
    [] role = "approver" -> Views \cup {"submit_expenses", "approve_expenses"}
    [] role = "member" -> Contributes
    [] role = "viewer" -> Views

Route(needs, changes, complains) == [needs |-> needs, changes |-> changes, complains |-> complains]

\* The client's cached reads that are computed from each collection of records.
OfTransactions ==
  {"transactions", "transaction", "linkSearch", "search", "dashboard", "insights", "reviews",
   "forecast", "suggestions", "attention", "categories"}

OfAccounts == {"accounts", "search", "forecast", "dashboard"}

OfVaults == {"search"}

OfBills == {"bills", "forecast", "suggestions", "attention"}

OfGoals == {"goals", "goal", "dashboard", "attention"}

OfBudgets == {"budgets", "attention"}

OfClaims == {"claims", "dashboard", "attention"}

\* Goals and transactions are answered with their contact filled in.
OfContacts ==
  {"contacts", "goals", "goal", "transactions", "transaction", "linkSearch", "dashboard"}

\* The editor of rules keeps the categories under a key of its own.
OfCategories == {"categories", "ruleCategories"}

OfImports == {"imports", "importSession", "attention"}

OfReconciliations == {"reconciliations", "attention"}

OfNotifications == {"notifications", "unread", "dashboard"}

\* Most changes leave an audit event, and that list is a read too.
Audited(reads) == reads \cup {"activity"}

\* A record moves balances and takes a number.
Money == OfTransactions \cup OfAccounts \cup OfVaults

PostAccount == Route({"edit_vault"}, Audited(OfAccounts \cup OfVaults), {"vaultId"})

\* Its privacy decides who sees its records.
PatchAccount ==
  Route({"edit_vault"}, Audited(Money \cup {"reconciliations"}), {"currency", "vaultId"})

\* Its records stay, but those of the dashboard are of accounts in use.
DeleteAccount == Route({"archive_vault"}, Audited(OfAccounts \cup {"reconciliations"}), {})

PostTransaction ==
  Route({"create_transactions"}, Audited(Money \cup {"sequences"}),
        {"accountId", "destinationAccountId", "category", "contactId", "goalId", "splits",
         "transactionId"})

\* edit_own suffices for one's own transaction; so does delete_own below.
PatchTransaction ==
  Route({"edit_own"}, Audited(Money), {"accountId", "category", "contactId", "splits", "amountMinor"})

DeleteTransaction == Route({"delete_own"}, Audited(Money), {})

PostBudget == Route({"manage_budgets"}, Audited(OfBudgets), {"categories"})

PatchBudget == Route({"manage_budgets"}, Audited(OfBudgets), {"currency"})

DeleteBudget == Route({"manage_budgets"}, Audited(OfBudgets), {})

\* A contact given by name only is created on the way.
PostGoal ==
  Route({"manage_goals"}, Audited(OfGoals \cup {"contacts"}), {"accountId", "contactId"})

PatchGoal ==
  Route({"manage_goals"}, Audited(OfGoals \cup {"contacts"}), {"accountId", "contactId"})

DeleteGoal == Route({"manage_goals"}, Audited(OfGoals), {})

PostGoalProgress == Route({"manage_goals"}, Audited(OfGoals), {"amountMinor", "goal"})

PostGoalTransaction ==
  Route({"manage_goals", "create_transactions"}, Audited(Money \cup OfGoals \cup {"sequences"}),
        {"accountId", "amountMinor", "goal"})

PostGoalLink == Route({"manage_goals"}, Audited(OfGoals), {"transactionId", "goal"})

PostGoalState == Route({"manage_goals"}, Audited(OfGoals), {"goal"})

PostBill == Route({"manage_bills"}, Audited(OfBills), {"currency"})

PatchBill == Route({"manage_bills"}, Audited(OfBills), {"currency"})

DeleteBill == Route({"manage_bills"}, Audited(OfBills), {})

\* Accepted it becomes a bill; dismissed it is suggested no more.
PostSuggestion == Route({"manage_bills"}, Audited(OfBills), {})

\* The workspace's default vault is created on the way.
PostClaim == Route({"submit_expenses"}, Audited(OfClaims \cup OfVaults), {})

PatchClaim == Route({"approve_expenses"}, Audited(OfClaims), {})

\* Nothing refers to it yet.
PostContact == Route({"create_transactions"}, {"contacts"}, {})

PatchContact == Route({"edit_all"}, OfContacts, {})

DeleteContact == Route({"edit_all"}, OfContacts, {})

PostName == Route({"create_transactions"}, {"names"}, {})

PatchName == Route({"edit_all"}, {"names"}, {})

DeleteName == Route({"edit_all"}, {"names"}, {})

\* Its actions name accounts, contacts and categories that are stored.
PostRule == Route({"edit_all"}, Audited({"rules"}), {"actions"})

PatchRule == Route({"edit_all"}, Audited({"rules"}), {"actions"})

DeleteRule == Route({"edit_all"}, Audited({"rules"}), {})

PreviewRule == Route({"view_transactions"}, {}, {"actions"})

PostReconciliation == Route({"edit_all"}, Audited(OfReconciliations), {"acknowledgeDifference"})

PostImport == Route({"create_transactions"}, {"imports", "attention"}, {"accountId"})

\* What needs attention is only how many drafts there are.
PatchImport == Route({"create_transactions"}, {"imports", "importSession"}, {"accountId"})

PatchImportRows == Route({"create_transactions"}, {"imports", "importSession"}, {"rows"})

CommitImport ==
  Route({"create_transactions"}, Audited(Money \cup OfImports \cup {"sequences"}), {})

DeleteImport == Route({"create_transactions"}, Audited(OfImports), {})

PostInvitation == Route({"invite_members"}, Audited({"members"}), {"email"})

DeleteInvitation == Route({"invite_members"}, Audited({"members"}), {})

PostJoinCode == Route({"invite_members"}, Audited({}), {})

PatchJoinRequest == Route({"invite_members"}, Audited({"joinRequests", "members"}), {})

PatchMember == Route({"manage_roles"}, Audited({"members"}), {"role"})

DeleteMember == Route({"remove_members"}, Audited({"members"}), {})

PostReview == Route({"view_balances", "view_transactions"}, Audited({"reviews"}), {})

PatchSequence == Route({"edit_workspace"}, {"sequences"}, {"prefix", "nextNumber"})

PostCategory == Route({"edit_workspace"}, OfCategories, {"name"})

\* A category that is renamed or deleted takes its records along; no amount changes,
\* and stored budgets keep the names they list.
PutCategories ==
  Route({"edit_workspace"}, Audited(OfCategories \cup (OfTransactions \ {"forecast"})),
        {"name", "replacementCategoryId"})

SwitchCategory == Route({"edit_workspace"}, Audited(OfCategories), {})

OrderCategories == Route({"edit_workspace"}, OfCategories, {})

PatchNotification == Route({}, OfNotifications, {})

\* What each list or detail route asks of a reader.
ReadNeeds(r) ==
  CASE r \in {"transactions", "transaction", "linkSearch", "budgets", "goals", "goal", "bills",
              "suggestions", "insights", "contacts", "names", "rules", "imports",
              "importSession", "search", "sequences", "categories", "ruleCategories"} ->
         {"view_transactions"}
    [] r \in {"accounts", "reconciliations"} -> {"view_balances"}
    [] r \in {"dashboard", "forecast", "attention", "reviews"} ->
         {"view_balances", "view_transactions"}
    [] r = "members" -> {"view_workspace"}
    [] r = "joinRequests" -> {"invite_members"}
    [] r = "claims" -> {"submit_expenses"}
    [] r = "activity" -> {"view_audit"}
    [] r \in {"notifications", "unread", "sessions", "me"} -> {}
=============================================================================
