------------------------------ MODULE Screens -------------------------------
(***************************************************************************)
(* What the pages of the web client show.  A page is a set of panels, and  *)
(* a panel a record of                                                     *)
(*   reads    the cached reads it presents,                                *)
(*   gate     the permissions the page asks before showing it,             *)
(*   leads    the pages its links and buttons open,                        *)
(*   demo     whether the demo shows it too.                               *)
(* Wording, layout and charts are left out.                                *)
(***************************************************************************)
EXTENDS Dialogs

Panel(reads, leads) ==
  [reads |-> reads, gate |-> {}, leads |-> leads, demo |-> TRUE]

Gated(permissions) == [gate |-> permissions]
Live == [demo |-> FALSE]

-----------------------------------------------------------------------------
(* Home. *)

HomeReads == {"accounts", "budgets", "dashboard"}

\* A retry asks for all of them again.
HomeFrame == Panel(HomeReads, {})

\* Another period asks for another dashboard.
HomePeriods == Panel({"dashboard"}, {})

HomeHeader == Gated({"create_transactions"}) @@ Panel({}, {"transactions"})

AttentionStrip ==
  Live @@ Panel({"attention"}, {"bills", "goals", "imports", "accounts", "office", "budgets"})

HomeBalances == Panel({"accounts", "dashboard"}, {})

HomeSummary == Panel({"dashboard"}, {})

HomeGoals == Panel({"dashboard"}, {"goals"})

HomeInsights == Panel({"dashboard"}, {})

CashflowDetail == Panel({"dashboard", "transactions"}, {"transactions"})

HomeCashflow == CashflowDetail

HomeQuickActions == Gated({"create_transactions"}) @@ Panel({}, {"transactions"})

HomeRecent == Panel({"dashboard"}, {"transactions"})

HomeBudgets == Panel({"budgets"}, {"budgets"})

HomeCategories == Panel({"dashboard"}, {})

HomeTrend == Panel({"dashboard"}, {})

HomeSources == Panel({"dashboard"}, {"transactions"})

HomeContacts == Panel({"dashboard"}, {"transactions"})

HomeAccounts == Panel({"dashboard"}, {"transactions"})

HomeTypes == Panel({"dashboard"}, {"transactions"})

HomeMonth == Panel({"dashboard"}, {"transactions"})

HomeDays == CashflowDetail

HomeRecord == Panel({"dashboard"}, {})

ReviewCard ==
  Live @@ Gated({"view_balances", "view_transactions"}) @@ Panel({"reviews"}, {})

ReviewChanges == ReviewCard

ReviewVersion == ReviewCard

\* A workspace without an account is asked to create one and shown nothing else.
HomeWithoutAccounts == {HomeFrame, HomePeriods, AttentionStrip, ReviewCard}

HomePage ==
  HomeWithoutAccounts \cup
  {HomeHeader, HomeBalances, HomeSummary, HomeGoals, HomeInsights,
   HomeCashflow, HomeQuickActions, HomeRecent, HomeBudgets, HomeCategories, HomeTrend,
   HomeSources, HomeContacts, HomeAccounts, HomeTypes, HomeMonth, HomeDays, HomeRecord,
   ReviewChanges, ReviewVersion}

-----------------------------------------------------------------------------
(* Transactions. *)

TransactionHeader == Gated({"create_transactions"}) @@ Panel({}, {})

ActiveFilters == Panel({"accounts", "contacts"}, {})

TransactionSearch == Panel({"contacts", "names"}, {})

\* Its choices are taken from the accounts and contacts.
FilterPanel == Panel({"contacts"}, {})

TransactionList == Panel({"transactions", "accounts"}, {})

TransactionRecord == Panel({"transactions"}, {})

\* What the form offers to choose from.
TransactionForm ==
  Gated({"create_transactions"})
  @@ Panel({"accounts", "contacts", "names", "members", "categories", "sequences"}, {})

TransactionsPage ==
  {TransactionForm, TransactionHeader, ActiveFilters, TransactionSearch, FilterPanel, TransactionList,
   TransactionRecord}

-----------------------------------------------------------------------------
(* Accounts, budgets and goals. *)

AccountsHeader == Panel({}, {"imports"})

AccountList == Panel({"accounts"}, {})

AccountRecord == Panel({"accounts"}, {})

ReconciliationStart == Live @@ Panel({"accounts"}, {})

ReconciliationHistory == Live @@ Panel({"reconciliations"}, {})

AccountsPage ==
  {AccountsHeader, AccountList, AccountRecord, ReconciliationStart, ReconciliationHistory}

BudgetOverview == Panel({"budgets"}, {})

BudgetSpending == Panel({"budgets"}, {})

BudgetCards == Panel({"budgets"}, {})

BudgetRecord == Panel({"budgets"}, {})

BudgetsPage == {BudgetOverview, BudgetSpending, BudgetCards, BudgetRecord}

GoalsFrame == Panel({"goals"}, {})

GoalList == Panel({"goals"}, {})

GoalRecord == Panel({"goals"}, {"transactions"})

GoalHistory == Panel({"goals"}, {})

GoalsPage == {GoalsFrame, GoalList, GoalRecord, GoalHistory}

-----------------------------------------------------------------------------
(* The two directories. *)

DirectoryCard(list) == Gated({"view_transactions"}) @@ Panel({list}, {})

AddDirectoryCard == Gated({"create_transactions"}) @@ Panel({}, {})

ContactsPage == {DirectoryCard("contacts"), AddDirectoryCard}

SavedNamesPage == {DirectoryCard("names"), AddDirectoryCard}

-----------------------------------------------------------------------------
(* Bills, insights and the forecast. *)

BillTimeline == Panel({"bills"}, {})

\* Asked whoever the viewer is, shown to those who manage bills; an answer
\* that did not come leaves the list empty.
SuggestionList ==
  Live @@ Gated({"manage_bills"}) @@ Panel({"suggestions"}, {})

BillsPage == {BillTimeline, SuggestionList}

LiveInsights == Live @@ Panel({"insights"}, {})

DemoInsights == Panel({}, {"budgets"})

InsightsPage(demo) == IF demo THEN {DemoInsights} ELSE {LiveInsights}

ForecastControls == Live @@ Gated({"view_balances"}) @@ Panel({}, {})

ForecastResult == Live @@ Gated({"view_balances"}) @@ Panel({"forecast"}, {})

BalanceStrip == ForecastResult

DayDetail == ForecastResult

ForecastPage == {ForecastControls, ForecastResult, BalanceStrip, DayDetail}

-----------------------------------------------------------------------------
(* Rules and imports. *)

RuleList == Live @@ Panel({"rules"}, {})

\* What its conditions and actions choose from.
RuleEditor ==
  Live @@ Gated({"edit_all"}) @@ Panel({"accounts", "contacts", "ruleCategories"}, {})

RulesPage == {RuleList, RuleEditor}

ImportStart == Live @@ Gated({"create_transactions"}) @@ Panel({"accounts"}, {})

DraftSessions == Live @@ Gated({"create_transactions"}) @@ Panel({"imports"}, {})

ImportWizard ==
  Live @@ Gated({"create_transactions"}) @@ Panel({"importSession"}, {"transactions"})

MappingStep == ImportWizard

ReviewStep == ImportWizard

RowCard == ImportWizard

\* It searches the transactions under a key of its own.
LinkPicker ==
  Live @@ Gated({"create_transactions"}) @@ Panel({"linkSearch"}, {})

ImportsPage == {ImportStart, DraftSessions, ImportWizard, MappingStep, ReviewStep, RowCard,
                LinkPicker}

-----------------------------------------------------------------------------
(* Collaboration. *)

\* Until the requests are there, and when they cannot be had, there are none.
OwnerApprovalQueue == Gated({"invite_members"}) @@ Panel({"joinRequests"}, {})

FamilySummary == Gated({"view_audit"}) @@ Panel({}, {"activity"})

MemberDirectory == Live @@ Panel({"members"}, {})

\* Who may be given another role or removed: anybody active but an owner.
\* What is pending can only be called back.
MemberRows == MemberDirectory

\* The token of a new invitation, to be copied or passed on.
InvitationShare == Gated({"invite_members"}) @@ Panel({}, {})

FamilyPage == {OwnerApprovalQueue, FamilySummary, MemberRows, InvitationShare}

ClaimMetrics == Gated({"submit_expenses"}) @@ Panel({"claims"}, {})

ClaimList == Gated({"submit_expenses"}) @@ Panel({"claims"}, {})

\* The claims of one state, chosen above the list.
ClaimViews == ClaimList

\* Whoever approves expenses reviews every claim but their own.
ClaimRow == Gated({"approve_expenses", "submit_expenses"}) @@ Panel({"claims"}, {})

ClaimShare == [gate |-> {"export_data", "submit_expenses"}] @@ ClaimRow

OfficeHeader == Panel({}, {})

OfficePage ==
  {ClaimMetrics, ClaimViews, ClaimRow, ClaimShare, OfficeHeader, InvitationShare}

-----------------------------------------------------------------------------
(* Notices, settings, help, and what surrounds every page. *)

NotificationList == Panel({"notifications"}, {})

ActivityList == Gated({"view_audit"}) @@ Panel({"activity"}, {})

MorePage ==
  {Panel({}, {"transactions", "bills", "insights", "accounts", "contacts", "names", "goals",
              "family", "office", "notifications", "settings", "help"})}

HelpPage == {Panel({}, {"settings", "family", "office"})}

SequenceSettings == Panel({"sequences"}, {})

CategorySettings == Panel({"categories"}, {})

SessionList == Live @@ Panel({"sessions"}, {})

\* The theme and the notices are preferences of the device or of the session.
DeviceSettings == Panel({}, {})

DataExport == Live @@ Gated({"export_data"}) @@ Panel({}, {})

SettingsPage == {SequenceSettings, CategorySettings, SessionList, DeviceSettings, DataExport}

\* Every destination the navigation offers, on the rail, the dock or by search.
Destinations ==
  {"home", "transactions", "accounts", "contacts", "names", "budgets", "goals", "bills",
   "insights", "forecast", "imports", "rules", "family", "office", "notifications", "settings",
   "help", "more"}

TopBar == Panel({"unread"}, {"notifications"})

MobileDock == Panel({"unread"}, {"home", "transactions", "budgets", "more"})

DesktopRail == Panel({}, Destinations \ {"notifications", "help", "more"})

\* Search: what is typed is asked of the server, and matched with the pages
\* and with actions that are offered whatever the viewer may do.
SearchField == Live @@ Gated({"view_transactions"}) @@ Panel({"search"}, {})

SearchMessages == SearchField

SearchTransactions == [leads |-> {"transactions"}] @@ SearchField

SearchAccounts ==
  [gate |-> {"view_transactions", "view_balances"}, leads |-> {"accounts"}] @@ SearchTransactions

SearchPages == Panel({}, Destinations \ {"more"})

QuickActions == Panel({}, {"transactions", "imports", "forecast", "insights"})

SearchResults == {SearchTransactions, SearchAccounts, SearchPages, QuickActions}

Shell == {TopBar, MobileDock, DesktopRail, SearchField, SearchMessages} \cup SearchResults

Pages == Destinations \cup {"activity"}

\* The panels of each page, without the shell.
PanelsOf(page, demo) ==
  CASE page = "home" -> HomePage
    [] page = "transactions" -> TransactionsPage
    [] page = "accounts" -> AccountsPage
    [] page = "contacts" -> ContactsPage
    [] page = "names" -> SavedNamesPage
    [] page = "budgets" -> BudgetsPage
    [] page = "goals" -> GoalsPage
    [] page = "bills" -> BillsPage
    [] page = "insights" -> InsightsPage(demo)
    [] page = "forecast" -> ForecastPage
    [] page = "imports" -> ImportsPage
    [] page = "rules" -> RulesPage
    [] page = "family" -> FamilyPage
    [] page = "office" -> OfficePage
    [] page = "notifications" -> {NotificationList}
    [] page = "activity" -> {ActivityList}
    [] page = "settings" -> SettingsPage
    [] page = "help" -> HelpPage
    [] page = "more" -> MorePage
=============================================================================
