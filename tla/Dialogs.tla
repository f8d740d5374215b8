------------------------------ MODULE Dialogs -------------------------------
(***************************************************************************)
(* Every write the web client offers, one record per dialog or button:     *)
(*   page       where it is offered,                                       *)
(*   gate       the permissions the page asks before offering it,          *)
(*   route      what it calls (Routes),                                    *)
(*   demo       in the demo it writes "memory", or is "absent",            *)
(*   guard      what stops a second submission: a "lock" reference, a busy *)
(*              "state", or only the "pending" flag of the request, which  *)
(*              is rendered a moment later,                                *)
(*   held       it cannot be closed by its own buttons while it is busy,   *)
(*   opens      by a "query" parameter of the URL or by component "state", *)
(*   ends       a success closes it by "timer", "now", or lets it "stay",  *)
(*   key        its idempotency key: fresh per "submit", per "dialog", or  *)
(*              "none",                                                    *)
(*   checks     the fields its own validation refuses,                     *)
(*   shows      the fields under which it can display an error,            *)
(*   renames    the server's field names it translates to its own,         *)
(*   tells      whether it puts the server's field errors under the fields,*)
(*   refreshes  the cached reads a success invalidates,                    *)
(*   late       what a success does to a page its dialog has left: its     *)
(*              close timer still "moves" the viewer, or it is "ignored".  *)
(***************************************************************************)
EXTENDS Routes

\* What useWriteFlow gives every dialog built on it.
WriteFlow ==
  [guard |-> "lock", held |-> TRUE, opens |-> "query", ends |-> "timer", key |-> "none",
   demo |-> "memory", tells |-> TRUE, renames |-> <<>>, late |-> "moves"]

\* A dialog that keeps a busy state of its own and shows one error line.
BusyState ==
  [guard |-> "state", held |-> TRUE, opens |-> "state", ends |-> "now", key |-> "none",
   demo |-> "memory", tells |-> FALSE, renames |-> <<>>, checks |-> {}, shows |-> {},
   late |-> "ignored"]

\* A button that relies on the pending flag of its request.
PendingButton ==
  [guard |-> "pending", held |-> FALSE, opens |-> "state", ends |-> "stay", key |-> "none",
   demo |-> "absent", tells |-> FALSE, renames |-> <<>>, checks |-> {}, shows |-> {},
   late |-> "ignored"]

-----------------------------------------------------------------------------
(* Accounts. *)

AccountSchema ==
  {"name", "bankName", "type", "maskedIdentifier", "opening", "currency", "color", "icon", "notes"}

AccountFields ==
  {"name", "bankName", "type", "maskedIdentifier", "status", "opening", "color", "icon", "notes",
   "privacy"}

AccountCreate ==
  [page |-> "accounts", gate |-> {"edit_vault"}, route |-> PostAccount,
   checks |-> AccountSchema, shows |-> AccountFields, renames |-> "openingMinor" :> "opening",
   refreshes |-> {"accounts", "vaults", "transactions", "dashboard", "insights"}] @@ WriteFlow

AccountEdit ==
  [page |-> "accounts", gate |-> {"edit_vault"}, route |-> PatchAccount, opens |-> "state",
   checks |-> AccountSchema, shows |-> AccountFields, renames |-> "openingMinor" :> "opening",
   refreshes |-> {"accounts", "vaults", "transactions", "dashboard", "insights"}] @@ WriteFlow

\* The record drawer asks for a confirmation, then calls the page's handler.
RecordDrawer == [ends |-> "now"] @@ BusyState

AccountArchive ==
  [page |-> "accounts", gate |-> {"archive_vault"}, route |-> DeleteAccount,
   refreshes |-> {"accounts", "vaults", "transactions", "dashboard", "insights"}] @@ RecordDrawer

-----------------------------------------------------------------------------
(* Expense claims. *)

ClaimSchema == {"amount", "description"}

ClaimSubmitFields == {"amount", "description"}

ClaimSubmit ==
  [page |-> "office", gate |-> {"submit_expenses"}, route |-> PostClaim,
   checks |-> ClaimSchema, shows |-> ClaimSubmitFields, renames |-> "amountMinor" :> "amount",
   refreshes |-> {"claims", "dashboard", "notifications", "insights"}] @@ WriteFlow

ClaimReviewFields == {"status", "comment"}

ClaimReview ==
  [page |-> "office", gate |-> {"approve_expenses"}, route |-> PatchClaim, opens |-> "state",
   checks |-> {"comment"}, shows |-> ClaimReviewFields,
   refreshes |-> {"claims", "dashboard", "notifications", "insights"}] @@ WriteFlow
-----------------------------------------------------------------------------
(* Budgets and goals. *)

BudgetSchema == {"name", "amount", "currency", "period", "categories", "startAt", "endAt"}

BudgetCreateFields == {"name", "period", "amount", "startAt", "endAt", "categories"}

BudgetCreate ==
  [page |-> "budgets", gate |-> {"manage_budgets"}, route |-> PostBudget,
   checks |-> BudgetSchema, shows |-> BudgetCreateFields, renames |-> "amountMinor" :> "amount",
   refreshes |-> {"budgets", "dashboard", "insights"}] @@ WriteFlow

BudgetEditFields == {"name", "amount", "period", "startAt", "endAt", "categories"}

BudgetEdit ==
  [page |-> "budgets", gate |-> {"manage_budgets"}, route |-> PatchBudget, opens |-> "state",
   checks |-> {"name", "period", "amount", "startAt", "endAt"}, shows |-> BudgetEditFields,
   renames |-> "amountMinor" :> "amount",
   refreshes |-> {"budgets", "dashboard", "insights"}] @@ WriteFlow

BudgetDelete ==
  [page |-> "budgets", gate |-> {"manage_budgets"}, route |-> DeleteBudget,
   refreshes |-> {"budgets", "dashboard", "insights"}] @@ RecordDrawer

GoalSchema ==
  {"name", "target", "current", "currency", "description", "type", "customType", "direction",
   "startDate", "targetDate", "dueDate", "visibility", "contactName", "category", "reminder",
   "notes"}

GoalCreateFields ==
  {"name", "description", "type", "direction", "customType", "visibility", "target"}

GoalCreateDetails ==
  {"current", "contactName", "accountId", "category", "startDate", "targetDate", "dueDate",
   "reminder", "notes"}

GoalCreate ==
  [page |-> "goals", gate |-> {"manage_goals"}, route |-> PostGoal,
   checks |-> GoalSchema, shows |-> GoalCreateFields \cup GoalCreateDetails,
   renames |-> ("targetMinor" :> "target") @@ ("currentMinor" :> "current"),
   refreshes |-> {"goals", "dashboard", "insights"}] @@ WriteFlow

\* The contact a goal dialog creates on the way.
ContactInline ==
  [page |-> "goals", gate |-> {"manage_goals"}, route |-> PostContact,
   checks |-> {"contact"}, shows |-> {"contact"}, held |-> FALSE,
   refreshes |-> {"contacts"}] @@ BusyState

GoalEditFields ==
  {"name", "description", "type", "direction", "customType", "target", "current", "startDate",
   "targetDate", "dueDate", "contactName", "category", "reminder", "notes", "visibility"}

GoalEdit ==
  [page |-> "goals", gate |-> {"manage_goals"}, route |-> PatchGoal, opens |-> "state",
   checks |-> {"name", "target", "current", "targetDate"}, shows |-> GoalEditFields,
   renames |-> ("targetMinor" :> "target") @@ ("currentMinor" :> "current"),
   refreshes |-> {"goals", "dashboard", "insights"}] @@ WriteFlow

GoalDeleteForgetful ==
  [page |-> "goals", gate |-> {"manage_goals"}, route |-> DeleteGoal,
   refreshes |-> {"goals", "insights"}] @@ RecordDrawer

GoalDelete ==
  [page |-> "goals", gate |-> {"manage_goals"}, route |-> DeleteGoal,
   refreshes |-> {"goals", "dashboard", "insights"}] @@ RecordDrawer

GoalActionRefreshes ==
  {"goals", "transactions", "accounts", "dashboard", "insights", "reviews"}

\* One dialog takes progress, a backed transaction, a link or a new due date.
GoalAction ==
  [page |-> "goals", gate |-> {"manage_goals"}, route |-> PostGoalProgress, key |-> "dialog",
   checks |-> {"form"}, shows |-> {"form"}, refreshes |-> GoalActionRefreshes] @@ BusyState

GoalTransaction ==
  [gate |-> {"manage_goals", "create_transactions"}, route |-> PostGoalTransaction] @@ GoalAction

GoalLink == [route |-> PostGoalLink] @@ GoalAction

GoalReschedule == [route |-> PostGoalState, key |-> "none"] @@ GoalAction

GoalLifecycle ==
  [page |-> "goals", gate |-> {"manage_goals"}, route |-> PostGoalState,
   refreshes |-> {"goals", "dashboard", "insights"}] @@ BusyState

-----------------------------------------------------------------------------
(* Transactions. *)

TransactionSchema ==
  {"merchant", "amount", "category", "accountId", "occurredAt", "note", "description",
   "transactionId"}

\* Judged after the schema: the source, the member shares, the destination.
TransactionChecks == TransactionSchema \cup {"splits"}

TransactionNumberFields == {"transactionId"}

TransactionNameFields == {"merchant"}

TransactionAmountFields == {"amount", "splits"}

TransactionPlaceFields == {"occurredAt", "accountId", "category", "note", "description"}

\* The demo keeps the record in memory; a live form is sent under a fresh key.
TransactionSubmission == [demo |-> "memory", key |-> "submit", guard |-> "lock"]

TransactionCreate ==
  [page |-> "transactions", gate |-> {"create_transactions"}, route |-> PostTransaction,
   late |-> "ignored", checks |-> TransactionChecks,
   shows |-> TransactionNumberFields \cup TransactionNameFields \cup TransactionAmountFields
             \cup TransactionPlaceFields,
   refreshes |-> {"transactions", "accounts", "budgets", "dashboard", "insights", "reviews"}]
  @@ TransactionSubmission @@ WriteFlow

TransactionEditFields == {"merchant", "amount", "occurredAt", "category", "note", "description"}

\* The server decides who may edit which transaction and says so in the record.
TransactionEdit ==
  [page |-> "transactions", gate |-> {"edit_own"}, route |-> PatchTransaction, opens |-> "state",
   checks |-> TransactionEditFields, shows |-> TransactionEditFields,
   renames |-> ("amountMinor" :> "amount") @@ ("notes" :> "note"),
   refreshes |-> {"transactions", "accounts", "vaults", "budgets", "dashboard", "insights",
                  "reviews"}] @@ WriteFlow

TransactionDelete ==
  [page |-> "transactions", gate |-> {"delete_own"}, route |-> DeleteTransaction,
   refreshes |-> {"transactions", "accounts", "vaults", "budgets", "dashboard", "insights",
                  "reviews"}] @@ RecordDrawer

TransactionDeleteAtHome == [page |-> "home"] @@ TransactionDelete
-----------------------------------------------------------------------------
(* Bills and what is detected as recurring. *)

BillChecks == {"name", "amountMinor"}

\* Its Cancel button stays enabled while the request is pending.
BillSave ==
  [page |-> "bills", gate |-> {"manage_bills"}, route |-> PostBill, ends |-> "now",
   checks |-> BillChecks, shows |-> BillChecks \cup {"dueDate", "form"}, tells |-> TRUE,
   refreshes |-> {"bills", "attention"}]
  @@ PendingButton

BillUpdate == [route |-> PatchBill] @@ BillSave

BillDelete ==
  [page |-> "bills", gate |-> {"manage_bills"}, route |-> DeleteBill, guard |-> "none",
   refreshes |-> {"bills", "attention"}] @@ PendingButton

SuggestionDecide ==
  [page |-> "bills", gate |-> {"manage_bills"}, route |-> PostSuggestion,
   refreshes |-> {"suggestions", "bills", "attention"}] @@ PendingButton

-----------------------------------------------------------------------------
(* Contacts and saved names. *)

DirectoryRefreshes(list) == {list, "transactions"}

ContactEditorFields == {"form"}

ContactSave ==
  [page |-> "contacts", gate |-> {"create_transactions"}, route |-> PostContact,
   checks |-> {"form"}, shows |-> ContactEditorFields,
   refreshes |-> DirectoryRefreshes("contacts")] @@ BusyState

ContactUpdateByCreators == [route |-> PatchContact] @@ ContactSave

ContactUpdate == [gate |-> {"edit_all"}, route |-> PatchContact] @@ ContactSave

ContactDelete ==
  [page |-> "contacts", gate |-> {"edit_all"}, route |-> DeleteContact,
   refreshes |-> DirectoryRefreshes("contacts")] @@ RecordDrawer

NameEditorFields == {"form"}

NameSave ==
  [page |-> "names", gate |-> {"create_transactions"}, route |-> PostName,
   checks |-> {"form"}, shows |-> NameEditorFields,
   refreshes |-> DirectoryRefreshes("names")] @@ BusyState

NameUpdate == [gate |-> {"edit_all"}, route |-> PatchName] @@ NameSave

NameDelete ==
  [page |-> "names", gate |-> {"edit_all"}, route |-> DeleteName,
   refreshes |-> DirectoryRefreshes("names")] @@ RecordDrawer

-----------------------------------------------------------------------------
(* Automation rules. *)

RuleToggle ==
  [page |-> "rules", gate |-> {"edit_all"}, route |-> PatchRule, refreshes |-> {"rules"}]
  @@ PendingButton

RuleDelete ==
  [page |-> "rules", gate |-> {"edit_all"}, route |-> DeleteRule, refreshes |-> {"rules"}]
  @@ PendingButton

RuleConditionFields == {"conditions"}

RuleActionFields == {"actions"}

\* The priority, the test against history and the line for all other errors.
RuleClosingFields == {"priority", "form"}

RuleEditorFields == {"name"} \cup RuleConditionFields \cup RuleActionFields \cup RuleClosingFields

RuleSave ==
  [page |-> "rules", gate |-> {"edit_all"}, route |-> PostRule, held |-> TRUE, ends |-> "now",
   checks |-> {"name", "conditions", "actions"}, shows |-> RuleEditorFields, tells |-> TRUE,
   refreshes |-> {"rules"}] @@ PendingButton

RuleUpdate == [route |-> PatchRule] @@ RuleSave

\* A test that is refused only clears its result.
RulePreview ==
  [page |-> "rules", gate |-> {"edit_all"}, route |-> PreviewRule, refreshes |-> {}]
  @@ PendingButton

-----------------------------------------------------------------------------
(* Reconciliation, imports and period reviews. *)

ReconciliationComplete ==
  [page |-> "accounts", gate |-> {"edit_all"}, route |-> PostReconciliation, tells |-> TRUE,
   shows |-> {"acknowledgeDifference", "form"},
   refreshes |-> {"reconciliations", "attention"}] @@ PendingButton

ImportUpload ==
  [page |-> "imports", gate |-> {"create_transactions"}, route |-> PostImport, tells |-> TRUE,
   checks |-> {"accountId", "csv"}, shows |-> {"csv", "form", "accountId"},
   refreshes |-> {"imports", "attention"}] @@ PendingButton

ImportDiscard ==
  [page |-> "imports", gate |-> {"create_transactions"}, route |-> DeleteImport,
   refreshes |-> {"imports", "attention"}] @@ PendingButton

ImportCancel ==
  [page |-> "imports", gate |-> {"create_transactions"}, route |-> DeleteImport, ends |-> "now",
   refreshes |-> {"imports", "attention"}] @@ PendingButton

ImportReparse ==
  [page |-> "imports", gate |-> {"create_transactions"}, route |-> PatchImport, tells |-> TRUE,
   checks |-> {"csv"}, shows |-> {"csv", "form"},
   refreshes |-> {"importSession", "imports"}] @@ PendingButton

ImportResolve ==
  [page |-> "imports", gate |-> {"create_transactions"}, route |-> PatchImportRows,
   guard |-> "none", refreshes |-> {"importSession", "imports"}] @@ PendingButton

ImportCommit ==
  [page |-> "imports", gate |-> {"create_transactions"}, route |-> CommitImport, key |-> "submit",
   ends |-> "now",
   refreshes |-> {"transactions", "accounts", "dashboard", "attention", "imports"}]
  @@ PendingButton

PeriodReview ==
  [page |-> "home", gate |-> {"view_balances", "view_transactions"}, route |-> PostReview,
   refreshes |-> {"reviews"}] @@ PendingButton

-----------------------------------------------------------------------------
(* Members, invitations and join requests. *)

JoinRequestReview ==
  [page |-> "family", gate |-> {"invite_members"}, route |-> PatchJoinRequest, guard |-> "none",
   refreshes |-> {"joinRequests"}] @@ PendingButton

JoinCodeCreate ==
  [page |-> "family", gate |-> {"invite_members"}, route |-> PostJoinCode, refreshes |-> {}]
  @@ PendingButton

MemberUpdate ==
  [page |-> "family", gate |-> {"manage_roles"}, route |-> PatchMember, held |-> TRUE,
   ends |-> "now", refreshes |-> {"members"}] @@ PendingButton

MemberRemove ==
  [page |-> "family", gate |-> {"remove_members"}, route |-> DeleteMember, held |-> TRUE,
   ends |-> "now", refreshes |-> {"members"}] @@ PendingButton

InvitationCancel ==
  [page |-> "family", gate |-> {"invite_members"}, route |-> DeleteInvitation, held |-> TRUE,
   ends |-> "now", refreshes |-> {"members"}] @@ PendingButton

\* The roles that a member's row and the invitations of a page offer.
MemberRoles == {"member", "viewer", "approver", "finance_manager", "administrator"}

InviteRoles(page) ==
  IF page = "family" THEN {"member", "administrator", "viewer"}
                     ELSE {"member", "approver", "finance_manager"}

\* No dialog makes an owner.
ASSUME RolesAssumption ==
  MemberRoles \cup InviteRoles("family") \cup InviteRoles("office") \subseteq Roles \ {"owner"}

\* It has no fields to put an error under; in the demo it says that it is unavailable.
Invite ==
  [page |-> "family", gate |-> {"invite_members"}, route |-> PostInvitation, opens |-> "state",
   demo |-> "absent", ends |-> "stay", checks |-> {}, shows |-> {}, tells |-> FALSE,
   refreshes |-> {"members"}] @@ WriteFlow

InviteAtOffice == [page |-> "office"] @@ Invite

-----------------------------------------------------------------------------
(* Workspace settings of transactions, and notifications. *)

\* No permission is asked before these are offered.
SequenceSave ==
  [page |-> "settings", gate |-> {}, route |-> PatchSequence, demo |-> "memory",
   checks |-> {"form"}, shows |-> {"form"}, refreshes |-> {"sequences"}] @@ PendingButton

CategoryEditorFields == {"form"}

CategoryCreate ==
  [page |-> "settings", gate |-> {}, route |-> PostCategory, demo |-> "memory",
   ends |-> "now", checks |-> {"form"}, shows |-> CategoryEditorFields,
   refreshes |-> {"categories"}] @@ PendingButton

\* What is renamed or deleted changes records, and the reviews of their periods.
CategorySave ==
  [route |-> PutCategories, refreshes |-> {"categories", "reviews"}] @@ CategoryCreate

CategoryToggle == [route |-> SwitchCategory, ends |-> "stay"] @@ CategoryCreate

CategoryReorder == [route |-> OrderCategories] @@ CategoryToggle

CategoryDelete == [held |-> TRUE] @@ CategorySave

NotificationRead ==
  [page |-> "notifications", gate |-> {}, route |-> PatchNotification,
   refreshes |-> {"notifications", "unread"}] @@ PendingButton

NotificationsReadAll == NotificationRead
=============================================================================
