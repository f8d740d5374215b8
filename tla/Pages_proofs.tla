---------------------------- MODULE Pages_proofs ----------------------------
(***************************************************************************)
(* Theorems about the pages of the client.                                 *)
(*                                                                         *)
(* About Writes, for any members and their grants, any number of dialogs,  *)
(* requests and edits: nobody is offered what the server refuses, a        *)
(* submission is carried out once, an answer is taken by the opening that  *)
(* asked for it, the viewer stays away, what settled is fresh, and what    *)
(* saved has its timer running.                                            *)
(*                                                                         *)
(* About Listing, a machine of its own beside that of Writes, for          *)
(* any transactions, queries and mishaps: the drawer shows the record of   *)
(* the URL, and a deletion closes its own drawer only.                     *)
(***************************************************************************)
EXTENDS Writes, Listing, SequenceTheorems, TLAPS


-----------------------------------------------------------------------------
(* What the tables say *)

\* A success refreshes every read it changes but those named in Lags, and the
\* page asks for what the server will, where it asks at all.
Covered(name) ==
  /\ Write[name].route.changes \ Write[name].refreshes \subseteq Lags(name)
  /\ name \notin Ungated => Write[name].route.needs \subseteq Write[name].gate \cup Views

\* The writes by the page or the dialog that offers them.
AccountWrites == {"AccountCreate", "AccountEdit", "AccountArchive", "ReconciliationComplete"}
OfficeWrites == {"ClaimSubmit", "ClaimReview", "InviteAtOffice"}
BudgetWrites == {"BudgetCreate", "BudgetEdit", "BudgetDelete"}
GoalWrites == {"GoalCreate", "ContactInline", "GoalEdit", "GoalDelete", "GoalProgress",
   "GoalTransaction", "GoalLink", "GoalReschedule", "GoalLifecycle"}
TransactionWrites == {"TransactionCreate", "TransactionEdit", "TransactionDelete",
   "TransactionDeleteAtHome", "PeriodReview"}
BillWrites == {"BillSave", "BillUpdate", "BillDelete", "SuggestionDecide"}
DirectoryWrites == {"ContactSave", "ContactUpdate", "ContactDelete", "NameSave", "NameUpdate",
   "NameDelete"}
RuleWrites == {"RuleToggle", "RuleDelete", "RuleSave", "RuleUpdate", "RulePreview"}
ImportWrites == {"ImportUpload", "ImportDiscard", "ImportCancel", "ImportReparse",
   "ImportResolve", "ImportCommit"}
FamilyWrites == {"JoinRequestReview", "JoinCodeCreate", "MemberUpdate", "MemberRemove",
   "InvitationCancel", "Invite"}
SettingsWrites == {"SequenceSave", "CategoryCreate", "CategorySave", "CategoryDelete",
   "CategoryToggle", "CategoryReorder", "NotificationRead", "NotificationsReadAll"}

LEMMA AccountTable == \A name \in AccountWrites : Covered(name)
<1> USE DEF Covered, Lags, RecordLags, Ungated, Views, Write, Route, Audited, @@
<1>1. Covered("AccountCreate")
  BY DEF AccountCreate, PostAccount, OfAccounts, OfVaults
<1>2. Covered("AccountEdit")
  BY DEF AccountEdit, PatchAccount, Money, OfTransactions, OfAccounts, OfVaults
<1>3. Covered("AccountArchive")
  BY DEF AccountArchive, DeleteAccount, OfAccounts
<1>4. Covered("ReconciliationComplete")
  BY DEF ReconciliationComplete, PostReconciliation, OfReconciliations
<1> HIDE DEF Covered, Lags, RecordLags, Ungated, Views, Write, Route, Audited, @@
<1> QED
  BY <1>1, <1>2, <1>3, <1>4 DEF AccountWrites

LEMMA OfficeTable == \A name \in OfficeWrites : Covered(name)
<1> USE DEF Covered, Lags, RecordLags, Ungated, Views, Write, Route, Audited, @@
<1>1. Covered("ClaimSubmit")
  BY DEF ClaimSubmit, PostClaim, OfVaults, OfClaims
<1>2. Covered("ClaimReview")
  BY DEF ClaimReview, PatchClaim, OfClaims
<1>3. Covered("InviteAtOffice")
  BY DEF InviteAtOffice, Invite, PostInvitation
<1> HIDE DEF Covered, Lags, RecordLags, Ungated, Views, Write, Route, Audited, @@
<1> QED
  BY <1>1, <1>2, <1>3 DEF OfficeWrites

LEMMA BudgetTable == \A name \in BudgetWrites : Covered(name)
<1> USE DEF Covered, Lags, RecordLags, Ungated, Views, Write, Route, Audited, @@
<1>1. Covered("BudgetCreate")
  BY DEF BudgetCreate, PostBudget, OfBudgets
<1>2. Covered("BudgetEdit")
  BY DEF BudgetEdit, PatchBudget, OfBudgets
<1>3. Covered("BudgetDelete")
  BY DEF BudgetDelete, DeleteBudget, OfBudgets
<1> HIDE DEF Covered, Lags, RecordLags, Ungated, Views, Write, Route, Audited, @@
<1> QED
  BY <1>1, <1>2, <1>3 DEF BudgetWrites

LEMMA GoalTable == \A name \in GoalWrites : Covered(name)
<1> USE DEF Covered, Lags, RecordLags, Ungated, Views, Write, Route, Audited, @@
<1>1. Covered("GoalCreate")
  BY DEF GoalCreate, PostGoal, :>, OfGoals
<1>2. Covered("ContactInline")
  BY DEF ContactInline, PostContact
<1>3. Covered("GoalEdit")
  BY DEF GoalEdit, PatchGoal, :>, OfGoals
<1>4. Covered("GoalDelete")
  BY DEF GoalDelete, DeleteGoal, OfGoals
<1>5. Covered("GoalProgress")
  BY DEF GoalAction, PostGoalProgress, GoalActionRefreshes, OfGoals
<1>6. Covered("GoalTransaction")
  BY DEF GoalTransaction, PostGoalTransaction, GoalAction, PostGoalProgress,
         GoalActionRefreshes, BusyState, OfGoals, Money, OfTransactions, OfAccounts, OfVaults
<1>7. Covered("GoalLink")
  BY DEF GoalLink, PostGoalLink, GoalAction, PostGoalProgress, GoalActionRefreshes, BusyState,
         OfGoals
<1>8. Covered("GoalReschedule")
  BY DEF GoalReschedule, PostGoalState, GoalAction, PostGoalProgress, GoalActionRefreshes,
         OfGoals
<1>9. Covered("GoalLifecycle")
  BY DEF GoalLifecycle, PostGoalState, OfGoals
<1> HIDE DEF Covered, Lags, RecordLags, Ungated, Views, Write, Route, Audited, @@
<1> QED
  BY <1>1, <1>2, <1>3, <1>4, <1>5, <1>6, <1>7, <1>8, <1>9 DEF GoalWrites

LEMMA TransactionTable == \A name \in TransactionWrites : Covered(name)
<1> USE DEF Covered, Lags, RecordLags, Ungated, Views, Write, Route, Audited, @@
<1>1. Covered("TransactionCreate")
  BY DEF TransactionCreate, PostTransaction, Money, OfTransactions, OfAccounts, OfVaults
<1>2. Covered("TransactionEdit")
  BY DEF TransactionEdit, PatchTransaction, :>, Money, OfTransactions, OfAccounts, OfVaults
<1>3. Covered("TransactionDelete")
  BY DEF TransactionDelete, DeleteTransaction, Money, OfTransactions, OfAccounts, OfVaults
<1>4. Covered("TransactionDeleteAtHome")
  BY DEF TransactionDeleteAtHome, TransactionDelete, DeleteTransaction, RecordDrawer, BusyState,
         Money, OfTransactions, OfAccounts, OfVaults
<1>5. Covered("PeriodReview")
  BY DEF PeriodReview, PostReview
<1> HIDE DEF Covered, Lags, RecordLags, Ungated, Views, Write, Route, Audited, @@
<1> QED
  BY <1>1, <1>2, <1>3, <1>4, <1>5 DEF TransactionWrites

LEMMA BillTable == \A name \in BillWrites : Covered(name)
<1> USE DEF Covered, Lags, RecordLags, Ungated, Views, Write, Route, Audited, @@
<1>1. Covered("BillSave")
  BY DEF BillSave, PostBill, OfBills
<1>2. Covered("BillUpdate")
  BY DEF BillUpdate, PatchBill, BillSave, PostBill, OfBills
<1>3. Covered("BillDelete")
  BY DEF BillDelete, DeleteBill, OfBills
<1>4. Covered("SuggestionDecide")
  BY DEF SuggestionDecide, PostSuggestion, OfBills
<1> HIDE DEF Covered, Lags, RecordLags, Ungated, Views, Write, Route, Audited, @@
<1> QED
  BY <1>1, <1>2, <1>3, <1>4 DEF BillWrites

LEMMA DirectoryTable == \A name \in DirectoryWrites : Covered(name)
<1> USE DEF Covered, Lags, RecordLags, Ungated, Views, Write, Route, Audited, @@
<1>1. Covered("ContactSave")
  BY DEF ContactSave, PostContact, DirectoryRefreshes
<1>2. Covered("ContactUpdate")
  BY DEF ContactUpdate, PatchContact, ContactSave, PostContact, DirectoryRefreshes, OfContacts
<1>3. Covered("ContactDelete")
  BY DEF ContactDelete, DeleteContact, DirectoryRefreshes, OfContacts
<1>4. Covered("NameSave")
  BY DEF NameSave, PostName, DirectoryRefreshes
<1>5. Covered("NameUpdate")
  BY DEF NameUpdate, PatchName, NameSave, PostName, DirectoryRefreshes
<1>6. Covered("NameDelete")
  BY DEF NameDelete, DeleteName, DirectoryRefreshes
<1> HIDE DEF Covered, Lags, RecordLags, Ungated, Views, Write, Route, Audited, @@
<1> QED
  BY <1>1, <1>2, <1>3, <1>4, <1>5, <1>6 DEF DirectoryWrites

LEMMA RuleTable == \A name \in RuleWrites : Covered(name)
<1> USE DEF Covered, Lags, RecordLags, Ungated, Views, Write, Route, Audited, @@
<1>1. Covered("RuleToggle")
  BY DEF RuleToggle, PatchRule
<1>2. Covered("RuleDelete")
  BY DEF RuleDelete, DeleteRule
<1>3. Covered("RuleSave")
  BY DEF RuleSave, PostRule
<1>4. Covered("RuleUpdate")
  BY DEF RuleUpdate, PatchRule, RuleSave, PostRule
<1>5. Covered("RulePreview")
  BY DEF RulePreview, PreviewRule
<1> HIDE DEF Covered, Lags, RecordLags, Ungated, Views, Write, Route, Audited, @@
<1> QED
  BY <1>1, <1>2, <1>3, <1>4, <1>5 DEF RuleWrites

LEMMA ImportTable == \A name \in ImportWrites : Covered(name)
<1> USE DEF Covered, Lags, RecordLags, Ungated, Views, Write, Route, Audited, @@
<1>1. Covered("ImportUpload")
  BY DEF ImportUpload, PostImport
<1>2. Covered("ImportDiscard")
  BY DEF ImportDiscard, DeleteImport, OfImports
<1>3. Covered("ImportCancel")
  BY DEF ImportCancel, DeleteImport, OfImports
<1>4. Covered("ImportReparse")
  BY DEF ImportReparse, PatchImport
<1>5. Covered("ImportResolve")
  BY DEF ImportResolve, PatchImportRows
<1>6. Covered("ImportCommit")
  BY DEF ImportCommit, CommitImport, OfImports, Money, OfTransactions, OfAccounts, OfVaults
<1> HIDE DEF Covered, Lags, RecordLags, Ungated, Views, Write, Route, Audited, @@
<1> QED
  BY <1>1, <1>2, <1>3, <1>4, <1>5, <1>6 DEF ImportWrites

LEMMA FamilyTable == \A name \in FamilyWrites : Covered(name)
<1> USE DEF Covered, Lags, RecordLags, Ungated, Views, Write, Route, Audited, @@
<1>1. Covered("JoinRequestReview")
  BY DEF JoinRequestReview, PatchJoinRequest
<1>2. Covered("JoinCodeCreate")
  BY DEF JoinCodeCreate, PostJoinCode
<1>3. Covered("MemberUpdate")
  BY DEF MemberUpdate, PatchMember
<1>4. Covered("MemberRemove")
  BY DEF MemberRemove, DeleteMember
<1>5. Covered("InvitationCancel")
  BY DEF InvitationCancel, DeleteInvitation
<1>6. Covered("Invite")
  BY DEF Invite, PostInvitation
<1> HIDE DEF Covered, Lags, RecordLags, Ungated, Views, Write, Route, Audited, @@
<1> QED
  BY <1>1, <1>2, <1>3, <1>4, <1>5, <1>6 DEF FamilyWrites

LEMMA SettingsTable == \A name \in SettingsWrites : Covered(name)
<1> USE DEF Covered, Lags, RecordLags, Ungated, Views, Write, Route, Audited, @@
<1>1. Covered("SequenceSave")
  BY DEF SequenceSave, PatchSequence
<1>2. Covered("CategorySave")
  BY DEF CategorySave, CategoryCreate, PutCategories, OfCategories, OfTransactions
<1>3. Covered("CategoryDelete")
  BY DEF CategoryDelete, CategorySave, CategoryCreate, PutCategories, OfCategories, OfTransactions
<1>4. Covered("CategoryToggle")
  BY DEF CategoryToggle, CategoryCreate, SwitchCategory, OfCategories
<1>5. Covered("CategoryReorder")
  BY DEF CategoryReorder, CategoryToggle, CategoryCreate, OrderCategories, OfCategories
<1>6. Covered("NotificationRead")
  BY DEF NotificationRead, PatchNotification, OfNotifications
<1>7. Covered("NotificationsReadAll")
  BY DEF NotificationsReadAll, NotificationRead, PatchNotification, OfNotifications
<1>8. Covered("CategoryCreate")
  BY DEF CategoryCreate, PostCategory, OfCategories
<1> HIDE DEF Covered, Lags, RecordLags, Ungated, Views, Write, Route, Audited, @@
<1> QED
  BY <1>1, <1>2, <1>3, <1>4, <1>5, <1>6, <1>7, <1>8 DEF SettingsWrites

\* Every write the client offers.
LEMMA AllCovered == \A name \in Names : Covered(name)
BY AccountTable, OfficeTable, BudgetTable, GoalTable, TransactionTable, BillTable,
   DirectoryTable, RuleTable, ImportTable, FamilyTable, SettingsTable
DEF Names, Write, AccountWrites, OfficeWrites, BudgetWrites, GoalWrites,
    TransactionWrites, BillWrites, DirectoryWrites, RuleWrites, ImportWrites,
    FamilyWrites, SettingsWrites

\* A panel asks for what its reads need, unless every member may read it.
Readable(panel) == \A r \in panel.reads : ReadNeeds(r) \subseteq panel.gate \cup Views

LEMMA HomeReadable == \A panel \in HomePage : Readable(panel)
BY DEF Readable, ReadNeeds, Views, @@, :>, HomePage, HomeWithoutAccounts, HomeFrame, Panel,
       HomeReads, HomePeriods, AttentionStrip, Live, ReviewCard, Gated, HomeHeader,
       HomeBalances, HomeSummary, HomeGoals, HomeInsights, HomeCashflow, CashflowDetail,
       HomeQuickActions, HomeRecent, HomeBudgets, HomeCategories, HomeTrend, HomeSources,
       HomeContacts, HomeAccounts, HomeTypes, HomeMonth, HomeDays, HomeRecord, ReviewChanges,
       ReviewVersion

LEMMA TransactionsReadable == \A panel \in TransactionsPage : Readable(panel)
BY DEF Readable, ReadNeeds, Views, @@, :>, TransactionsPage, TransactionForm, Gated, Panel,
       TransactionHeader, ActiveFilters, TransactionSearch, FilterPanel, TransactionList,
       TransactionRecord

LEMMA AccountsReadable == \A panel \in AccountsPage : Readable(panel)
BY DEF Readable, ReadNeeds, Views, @@, :>, AccountsPage, AccountsHeader, Panel, AccountList,
       AccountRecord, ReconciliationStart, Live, ReconciliationHistory

LEMMA BudgetsReadable == \A panel \in BudgetsPage : Readable(panel)
BY DEF Readable, ReadNeeds, Views, @@, :>, BudgetsPage, BudgetOverview, Panel, BudgetSpending,
       BudgetCards, BudgetRecord

LEMMA GoalsReadable == \A panel \in GoalsPage : Readable(panel)
BY DEF Readable, ReadNeeds, Views, @@, :>, GoalsPage, GoalsFrame, Panel, GoalList, GoalRecord,
       GoalHistory

LEMMA ContactsReadable == \A panel \in ContactsPage : Readable(panel)
BY DEF Readable, ReadNeeds, Views, @@, :>, ContactsPage, DirectoryCard, Gated, Panel,
       AddDirectoryCard

LEMMA SavedNamesReadable == \A panel \in SavedNamesPage : Readable(panel)
BY DEF Readable, ReadNeeds, Views, @@, :>, SavedNamesPage, DirectoryCard, Gated, Panel,
       AddDirectoryCard

LEMMA BillsReadable == \A panel \in BillsPage : Readable(panel)
BY DEF Readable, ReadNeeds, Views, @@, :>, BillsPage, BillTimeline, Panel, SuggestionList,
       Live, Gated

LEMMA ForecastReadable == \A panel \in ForecastPage : Readable(panel)
BY DEF Readable, ReadNeeds, Views, @@, :>, ForecastPage, ForecastControls, Live, Gated, Panel,
       ForecastResult, BalanceStrip, DayDetail

LEMMA RulesReadable == \A panel \in RulesPage : Readable(panel)
BY DEF Readable, ReadNeeds, Views, @@, :>, RulesPage, RuleList, RuleEditor, Live, Gated,
       Panel

LEMMA ImportsReadable == \A panel \in ImportsPage : Readable(panel)
BY DEF Readable, ReadNeeds, Views, @@, :>, ImportsPage, ImportStart, Live, Gated, Panel,
       DraftSessions, ImportWizard, MappingStep, ReviewStep, RowCard, LinkPicker

LEMMA FamilyReadable == \A panel \in FamilyPage : Readable(panel)
BY DEF Readable, ReadNeeds, Views, @@, :>, FamilyPage, OwnerApprovalQueue, Gated, Panel,
       FamilySummary, MemberRows, MemberDirectory, Live, InvitationShare

LEMMA OfficeReadable == \A panel \in OfficePage : Readable(panel)
BY DEF Readable, ReadNeeds, Views, @@, :>, OfficePage, ClaimMetrics, Gated, Panel, ClaimViews,
       ClaimList, ClaimRow, ClaimShare, OfficeHeader, InvitationShare

LEMMA MoreReadable == \A panel \in MorePage : Readable(panel)
BY DEF Readable, ReadNeeds, Views, @@, :>, MorePage, Panel

LEMMA HelpReadable == \A panel \in HelpPage : Readable(panel)
BY DEF Readable, ReadNeeds, Views, @@, :>, HelpPage, Panel

LEMMA SettingsReadable == \A panel \in SettingsPage : Readable(panel)
BY DEF Readable, ReadNeeds, Views, @@, :>, SettingsPage, SequenceSettings, Panel,
       CategorySettings, SessionList, Live, DeviceSettings, DataExport, Gated

LEMMA ShellReadable == \A panel \in Shell : Readable(panel)
BY DEF Readable, ReadNeeds, Views, @@, :>, Shell, TopBar, Panel, MobileDock, DesktopRail,
       Destinations, SearchField, Live, Gated, SearchMessages, SearchResults,
       SearchTransactions, SearchAccounts, SearchPages, QuickActions

LEMMA OtherReadable ==
  \A panel \in InsightsPage(FALSE) \cup {NotificationList, ActivityList} : Readable(panel)
BY DEF Readable, ReadNeeds, Views, @@, InsightsPage, LiveInsights, NotificationList,
       ActivityList, Live, Panel, Gated

\* Whatever a member is shown.
LEMMA AllReadable ==
  ASSUME NEW p \in Pages, NEW panel \in PanelsOf(p, FALSE) \cup Shell
  PROVE  Readable(panel)
BY HomeReadable, TransactionsReadable, AccountsReadable, BudgetsReadable, GoalsReadable,
   ContactsReadable, SavedNamesReadable, BillsReadable, ForecastReadable, RulesReadable,
   ImportsReadable, FamilyReadable, OfficeReadable, MoreReadable, HelpReadable,
   SettingsReadable, ShellReadable, OtherReadable
DEF PanelsOf, Pages, Destinations

\* Every role may read.
LEMMA MembersView ==
  ASSUME NEW v \in Viewers, ~v.demo
  PROVE  Views \subseteq v.may
<1>1. \A role \in Roles : Views \subseteq RolePermissions(role)
  BY DEF Roles, RolePermissions, Permissions, Manages, Contributes
<1> QED
  BY <1>1, WritesAssumption

\* The writes that share a dialog are offered by a page, not by a URL.
LEMMA SharedByState == \A d \in Shared : \A name \in d : Write[name].opens = "state"
<1>1. \A name \in {"BillSave", "BillUpdate"} : Write[name].opens = "state"
  BY DEF Write, BillSave, BillUpdate, PendingButton, @@
<1>2. \A name \in {"RuleSave", "RuleUpdate", "RulePreview"} : Write[name].opens = "state"
  BY DEF Write, RuleSave, RuleUpdate, RulePreview, PendingButton, @@
<1>3. /\ \A name \in {"ContactSave", "ContactUpdate"} : Write[name].opens = "state"
      /\ \A name \in {"NameSave", "NameUpdate"} : Write[name].opens = "state"
  BY SMTT(30) DEF Write, ContactSave, ContactUpdate, NameSave, NameUpdate, BusyState, @@
<1>4. /\ Write["GoalProgress"].opens = "state" /\ Write["GoalTransaction"].opens = "state"
      /\ Write["GoalLink"].opens = "state" /\ Write["GoalReschedule"].opens = "state"
  BY DEF Write, GoalAction, GoalTransaction, GoalLink, GoalReschedule, BusyState, @@
<1>5. \A name \in {"CategoryCreate", "CategorySave"} : Write[name].opens = "state"
  BY DEF Write, CategoryCreate, CategorySave, PendingButton, @@
<1> QED
  BY <1>1, <1>2, <1>3, <1>4, <1>5 DEF Shared

\* None of them is closed by a timer, so that a timer closes the dialog of its
\* own write only.
LEMMA SharedEnds == \A d \in Shared : \A name \in d : Write[name].ends # "timer"
<1>1. \A name \in {"BillSave", "BillUpdate"} : Write[name].ends # "timer"
  BY DEF Write, BillSave, BillUpdate, PendingButton, @@
<1>2. \A name \in {"RuleSave", "RuleUpdate", "RulePreview"} : Write[name].ends # "timer"
  BY DEF Write, RuleSave, RuleUpdate, RulePreview, PendingButton, @@
<1>3. \A name \in {"ContactSave", "ContactUpdate"} : Write[name].ends # "timer"
  BY SMTT(30) DEF Write, ContactSave, ContactUpdate, BusyState, @@
<1>4. \A name \in {"NameSave", "NameUpdate"} : Write[name].ends # "timer"
  BY SMTT(30) DEF Write, NameSave, NameUpdate, BusyState, @@
<1>5. /\ Write["GoalProgress"].ends # "timer" /\ Write["GoalTransaction"].ends # "timer"
      /\ Write["GoalLink"].ends # "timer" /\ Write["GoalReschedule"].ends # "timer"
  BY SMTT(30) DEF Write, GoalAction, GoalTransaction, GoalLink, GoalReschedule, BusyState, @@
<1>6. \A name \in {"CategoryCreate", "CategorySave"} : Write[name].ends # "timer"
  BY DEF Write, CategoryCreate, CategorySave, PendingButton, @@
<1> QED
  BY <1>1, <1>2, <1>3, <1>4, <1>5, <1>6 DEF Shared

LEMMA TimedAlone ==
  ASSUME NEW a, NEW b, SameDialog(a, b), Write[a].ends = "timer"
  PROVE  a = b
BY SharedEnds DEF SameDialog

-----------------------------------------------------------------------------
(* The inductive invariant *)

Flights ==
  [name : Names, n : 1 .. MaxDialogs, edit : 0 .. MaxEdits, key : 0 .. MaxEdits,
   stage : {"sent", "done", "gone"}, here : BOOLEAN, waited : BOOLEAN]

Dialogs ==
  [name : Names \cup {"none"}, n : 0 .. MaxDialogs, open : BOOLEAN, edit : 0 .. MaxEdits,
   busy : BOOLEAN, said : {"", "invalid", "saved", "refused", "failed"},
   first : 0 .. MaxEdits, marked : SUBSET UNION {Write[name].shows : name \in Names}]

TypeOK ==
  /\ viewer \in Viewers /\ page \in Pages
  /\ dlg \in Dialogs
  /\ armed \subseteq Names
  /\ flights \in Seq(Flights)
  /\ commits \in [Submissions -> Nat]
  /\ unsure \subseteq Submissions

Submission(f) == <<f.n, f.edit>>

\* Whatever is under way or about to close was started by an opening of the one
\* dialog, and the latest opening is the one that is shown.
OneDialog ==
  /\ dlg.open => dlg.n > 0
  /\ dlg.n > 0 => dlg.name \in Names
  /\ dlg.first <= dlg.edit
  /\ \A m \in armed : dlg.n > 0 /\ SameDialog(m, dlg.name)

\* Only what a page offers is opened.
Placed ==
  /\ dlg.n > 0 => Write[dlg.name].page \in Pages
  /\ \A m \in armed : Write[m].page \in Pages
  /\ \A i \in DOMAIN flights : Write[flights[i].name].page \in Pages

Opened ==
  \A i \in DOMAIN flights :
    /\ flights[i].n <= dlg.n
    /\ SameDialog(flights[i].name, dlg.name)
    /\ flights[i].key <= flights[i].edit
    /\ flights[i].n = dlg.n =>
         /\ flights[i].name = dlg.name
         /\ flights[i].edit <= dlg.edit
         /\ dlg.open => flights[i].here

\* One opening submits one write.
OneWrite ==
  \A i, j \in DOMAIN flights :
    flights[i].n = flights[j].n => flights[i].name = flights[j].name

\* Nobody waits for a request that is gone, and one that may yet arrive, or did
\* so late, is in doubt.
Awaited ==
  /\ viewer.demo => DOMAIN flights = {}
  /\ \A i \in DOMAIN flights :
       /\ flights[i].waited => flights[i].stage # "gone"
       /\ ~flights[i].waited => flights[i].stage = "gone" \/ Submission(flights[i]) \in unsure

Here(i) == flights[i].waited /\ flights[i].here

\* Where requests go one at a time, a dialog waits for one, and none once it saved.
OneAtATime ==
  Exclusive(dlg.name) =>
    /\ \A i, j \in DOMAIN flights : Here(i) /\ Here(j) => i = j
    /\ dlg.open /\ dlg.said = "saved" => \A i \in DOMAIN flights : ~Here(i)

\* Where nothing but the answer ends the wait, it is the open dialog that waits,
\* and its own success that closes it.
Held ==
  Alone(dlg.name) =>
    /\ \A i \in DOMAIN flights : Here(i) => dlg.open /\ dlg.busy /\ flights[i].n = dlg.n
    /\ \A m \in armed : m = dlg.name /\ dlg.open /\ dlg.said = "saved"

\* The server carries out what was sent, and one key once.
Sent ==
  /\ ~viewer.demo =>
       \A s \in Submissions : commits[s] > 0 =>
         \E i \in DOMAIN flights : Submission(flights[i]) = s
  /\ \A i \in DOMAIN flights :
       Write[flights[i].name].key = "dialog" => commits[Submission(flights[i])] <= 1

\* Where requests go one at a time and the answer is known, a submission that
\* is under way was not carried out before, nor was the one about to be sent.
CarriedOut ==
  \A i \in DOMAIN flights :
    Exclusive(flights[i].name) /\ Submission(flights[i]) \notin unsure =>
      /\ commits[Submission(flights[i])] <= 1
      /\ flights[i].stage = "sent" => commits[Submission(flights[i])] = 0
      /\ \A j \in DOMAIN flights :
           Submission(flights[i]) = Submission(flights[j]) /\ flights[i].waited /\ flights[j].waited
             => i = j

Unsent ==
  /\ dlg.open /\ ~viewer.demo /\ Exclusive(dlg.name) /\ dlg.said # "saved"
  /\ <<dlg.n, dlg.edit>> \notin unsure
  /\ \A i \in DOMAIN flights : flights[i].waited => Submission(flights[i]) # <<dlg.n, dlg.edit>>

NextUnsent == Unsent => commits[<<dlg.n, dlg.edit>>] = 0

\* A dialog waits on its own page, and so does one whose timer may close it there.
AtHome ==
  /\ dlg.open => page = Write[dlg.name].page
  /\ \A i \in DOMAIN flights : flights[i].here => page = Write[flights[i].name].page
  /\ \A m \in armed : Write[m].opens = "query" /\ ~OnFlow(m) => page = Write[m].page

\* What differs from the server's answer is what was carried out and not yet
\* answered, or what a success leaves as it was.
Accounted ==
  unsure = {} => \A r \in stale : \E i \in DOMAIN flights :
    \/ r \in Lags(flights[i].name)
    \/ flights[i].stage = "done" /\ r \in Write[flights[i].name].route.changes


\* A request goes on being the request that was sent.
Same(f, g) == f.name = g.name /\ f.n = g.n /\ f.edit = g.edit /\ f.key = g.key

OnlyMoves(i) ==
  /\ flights' \in Seq(Flights) /\ DOMAIN flights' = DOMAIN flights
  /\ \A j \in DOMAIN flights : j # i => flights'[j] = flights[j]
  /\ Same(flights'[i], flights[i]) /\ flights'[i].here = flights[i].here

LEMMA Requests ==
  ASSUME TypeOK
  PROVE  /\ flights \in Seq(Flights) /\ Len(flights) \in Nat
         /\ DOMAIN flights = 1 .. Len(flights)
         /\ \A i \in DOMAIN flights : flights[i] \in Flights
<1>1. flights \in Seq(Flights)
  BY DEF TypeOK
<1> QED
  BY <1>1

LEMMA Replaced ==
  ASSUME NEW s \in Seq(Flights), NEW i \in DOMAIN s, NEW f \in Flights
  PROVE  /\ [s EXCEPT ![i] = f] \in Seq(Flights) /\ DOMAIN [s EXCEPT ![i] = f] = DOMAIN s
         /\ \A j \in DOMAIN s : j # i => [s EXCEPT ![i] = f][j] = s[j]
         /\ [s EXCEPT ![i] = f][i] = f
OBVIOUS

LEMMA Dialog ==
  ASSUME TypeOK
  PROVE  /\ dlg.name \in Names \cup {"none"} /\ dlg.n \in 0 .. MaxDialogs
         /\ dlg.open \in BOOLEAN /\ dlg.busy \in BOOLEAN
         /\ dlg.edit \in 0 .. MaxEdits /\ dlg.first \in 0 .. MaxEdits
         /\ dlg \in Dialogs /\ MaxDialogs \in Nat /\ MaxEdits \in Nat
BY WritesAssumption DEF TypeOK, Dialogs

LEMMA CarryOutMoves ==
  ASSUME TypeOK, NEW i \in DOMAIN flights, CarryOut(i)
  PROVE  /\ OnlyMoves(i)
         /\ flights'[i].stage = "done" /\ flights'[i].waited = flights[i].waited
<1>1. flights[i] \in Flights
  BY Requests
<1>2. [flights[i] EXCEPT !.stage = "done"] \in Flights
  BY <1>1 DEF Flights
<1>3. flights' = [flights EXCEPT ![i] = [flights[i] EXCEPT !.stage = "done"]]
  BY DEF CarryOut
<1>4. flights'[i] = [flights[i] EXCEPT !.stage = "done"]
  BY <1>2, <1>3, Requests, Replaced
<1>5. /\ flights' \in Seq(Flights) /\ DOMAIN flights' = DOMAIN flights
      /\ \A j \in DOMAIN flights : j # i => flights'[j] = flights[j]
  BY <1>2, <1>3, Requests, Replaced
<1> QED
  BY <1>1, <1>4, <1>5 DEF OnlyMoves, Same, Flights

\* An answer, or a connection that breaks, is the end of the wait.
LEMMA AnswerMoves ==
  ASSUME TypeOK, NEW i \in DOMAIN flights, Succeed(i) \/ Refused(i) \/ Lose(i)
  PROVE  /\ OnlyMoves(i) /\ ~flights'[i].waited
         /\ flights'[i].stage = "gone" \/ (flights[i].stage = "sent" /\ flights'[i].stage = "sent")
<1>1. PICK stage \in {"gone", "sent"} :
        /\ flights' = [flights EXCEPT ![i].waited = FALSE, ![i].stage = stage]
        /\ stage = "gone" \/ flights[i].stage = "sent"
  BY DEF Succeed, Refused, Lose
<1>2. flights[i] \in Flights
  BY Requests
<1>3. [flights[i] EXCEPT !.waited = FALSE, !.stage = stage] \in Flights
  BY <1>2 DEF Flights
<1>4. flights' = [flights EXCEPT ![i] = [flights[i] EXCEPT !.waited = FALSE, !.stage = stage]]
  BY <1>1
<1>5. flights'[i] = [flights[i] EXCEPT !.waited = FALSE, !.stage = stage]
  BY <1>3, <1>4, Requests, Replaced
<1>6. /\ flights' \in Seq(Flights) /\ DOMAIN flights' = DOMAIN flights
      /\ \A j \in DOMAIN flights : j # i => flights'[j] = flights[j]
  BY <1>3, <1>4, Requests, Replaced
<1> QED
  BY <1>1, <1>2, <1>5, <1>6 DEF OnlyMoves, Same, Flights

LEMMA SubmitMoves ==
  ASSUME TypeOK, OneDialog, Submit
  PROVE  /\ flights' \in Seq(Flights) /\ DOMAIN flights' = 1 .. Len(flights) + 1
         /\ DOMAIN flights = 1 .. Len(flights) /\ Len(flights) \in Nat
         /\ \A j \in DOMAIN flights : flights'[j] = flights[j]
         /\ flights'[Len(flights) + 1] =
              [name |-> dlg.name, n |-> dlg.n, edit |-> dlg.edit, key |-> dlg.first,
               stage |-> "sent", here |-> TRUE, waited |-> TRUE]
<1> DEFINE f == [name |-> dlg.name, n |-> dlg.n, edit |-> dlg.edit, key |-> dlg.first,
                 stage |-> "sent", here |-> TRUE, waited |-> TRUE]
<1>1. f \in Flights
  BY Dialog DEF OneDialog, Flights, Submit
<1>2. flights' = Append(flights, f) /\ flights \in Seq(Flights)
  BY DEF Submit, TypeOK
<1> HIDE DEF f
<1>3. /\ flights' \in Seq(Flights) /\ DOMAIN flights' = 1 .. Len(flights) + 1
      /\ DOMAIN flights = 1 .. Len(flights) /\ Len(flights) \in Nat
      /\ \A j \in DOMAIN flights : flights'[j] = flights[j]
      /\ flights'[Len(flights) + 1] = f
  BY <1>1, <1>2
<1> QED
  BY <1>3 DEF f

LEMMA LeaveMoves ==
  ASSUME TypeOK, Leave
  PROVE  /\ flights' \in Seq(Flights) /\ DOMAIN flights' = DOMAIN flights
         /\ \A j \in DOMAIN flights :
              /\ Same(flights'[j], flights[j]) /\ ~flights'[j].here
              /\ flights'[j].waited = flights[j].waited /\ flights'[j].stage = flights[j].stage
<1>1. flights' = [i \in DOMAIN flights |-> [flights[i] EXCEPT !.here = FALSE]]
  BY DEF Leave
<1>2. \A i \in DOMAIN flights : [flights[i] EXCEPT !.here = FALSE] \in Flights
  BY Requests DEF Flights
<1>3. flights' \in Seq(Flights) /\ DOMAIN flights' = DOMAIN flights
  BY <1>1, <1>2, Requests
<1>4. \A j \in DOMAIN flights : flights'[j] = [flights[j] EXCEPT !.here = FALSE]
  BY <1>1
<1>5. \A j \in DOMAIN flights : flights[j] \in Flights
  BY Requests
<1> QED
  BY SMTT(60), <1>3, <1>4, <1>5 DEF Flights, Same

-----------------------------------------------------------------------------
(* What a step leaves alone *)

LEMMA FormFrame ==
  /\ \A name \in Names : Open(name) => UNCHANGED <<viewer, page, armed, flights, commits, unsure, stale>>
  /\ Edit \/ Reseed \/ Refuse \/ Render =>
       UNCHANGED <<viewer, page, armed, flights, commits, unsure, stale>>
  /\ Submit => UNCHANGED <<viewer, page, armed, commits, unsure, stale>>
  /\ SubmitInDemo => UNCHANGED <<viewer, page, flights, unsure, stale>>
<1>1. \A name \in Names : Open(name) => UNCHANGED <<viewer, page, armed, flights, commits, unsure, stale>>
  BY DEF Open
<1>2. Edit \/ Reseed \/ Refuse \/ Render =>
        UNCHANGED <<viewer, page, armed, flights, commits, unsure, stale>>
  BY DEF Edit, Reseed, Refuse, Render
<1>3. Submit => UNCHANGED <<viewer, page, armed, commits, unsure, stale>>
  BY DEF Submit
<1>4. SubmitInDemo => UNCHANGED <<viewer, page, flights, unsure, stale>>
  BY DEF SubmitInDemo
<1> QED
  BY <1>1, <1>2, <1>3, <1>4

LEMMA AnswerFrame ==
  ASSUME NEW i \in DOMAIN flights
  PROVE  /\ CarryOut(i) => UNCHANGED <<viewer, page, dlg, armed, unsure>>
         /\ Succeed(i) => /\ UNCHANGED <<viewer, page, commits, unsure>>
                          /\ armed' = armed \/ armed' = armed \cup {flights[i].name}
         /\ Refused(i) => UNCHANGED <<viewer, page, armed, commits, unsure, stale>>
         /\ Lose(i) => UNCHANGED <<viewer, page, armed, commits, stale>> /\ unsure \subseteq unsure'
<1>1. CarryOut(i) => UNCHANGED <<viewer, page, dlg, armed, unsure>>
  BY DEF CarryOut
<1>2. Succeed(i) => /\ UNCHANGED <<viewer, page, commits, unsure>>
                    /\ armed' = armed \/ armed' = armed \cup {flights[i].name}
  BY SMTT(30) DEF Succeed
<1>3. Refused(i) => UNCHANGED <<viewer, page, armed, commits, unsure, stale>>
  BY DEF Refused, Fail
<1>4. Lose(i) => UNCHANGED <<viewer, page, armed, commits, stale>> /\ unsure \subseteq unsure'
  BY DEF Lose, Fail
<1> QED
  BY <1>1, <1>2, <1>3, <1>4

LEMMA WayOutFrame ==
  /\ \A name \in Names : TimerFires(name) =>
       /\ UNCHANGED <<viewer, flights, commits, unsure, stale>> /\ armed' \subseteq armed
       /\ name \in armed /\ page' \in {page, Write[name].page}
  /\ Cancel \/ Back => UNCHANGED <<viewer, page, flights, commits, unsure, stale>> /\ armed' \subseteq armed
  /\ Leave => UNCHANGED <<viewer, commits, unsure, stale>> /\ armed' \subseteq armed
<1>1. ASSUME NEW name \in Names, TimerFires(name)
      PROVE  /\ UNCHANGED <<viewer, flights, commits, unsure, stale>> /\ armed' \subseteq armed
             /\ name \in armed /\ page' \in {page, Write[name].page}
  BY <1>1 DEF TimerFires
<1>2. Cancel \/ Back => UNCHANGED <<viewer, page, flights, commits, unsure, stale>> /\ armed' \subseteq armed
  BY DEF Cancel, Back, Closed
<1>3. Leave => UNCHANGED <<viewer, commits, unsure, stale>> /\ armed' \subseteq armed
  BY DEF Leave
<1> QED
  BY <1>1, <1>2, <1>3

-----------------------------------------------------------------------------
(* What happens to the dialog *)

SameForm ==
  /\ dlg' \in Dialogs
  /\ dlg'.name = dlg.name /\ dlg'.n = dlg.n /\ dlg'.edit = dlg.edit /\ dlg'.first = dlg.first

LEMMA UnderMarks ==
  ASSUME NEW name \in Names, NEW field
  PROVE  Under(name, field) \in SUBSET UNION {Write[m].shows : m \in Names}
BY DEF Under

LEMMA OpenFills ==
  ASSUME TypeOK, NEW name \in Names, Open(name)
  PROVE  /\ dlg' \in Dialogs /\ dlg'.name = name /\ dlg'.n = dlg.n + 1 /\ dlg'.open
         /\ dlg'.edit = 0 /\ dlg'.first = 0 /\ ~dlg'.busy /\ dlg'.said = ""
<1>1. dlg' = [name |-> name, n |-> dlg.n + 1, open |-> TRUE, edit |-> 0, busy |-> FALSE,
              said |-> "", first |-> 0, marked |-> {}]
  BY DEF Open, NoDialog
<1>2. dlg.n + 1 \in 0 .. MaxDialogs /\ 0 \in 0 .. MaxEdits
  BY Dialog DEF Open
<1> QED
  BY <1>1, <1>2 DEF Dialogs

LEMMA EditFills ==
  ASSUME TypeOK, Edit \/ Reseed
  PROVE  /\ dlg' \in Dialogs /\ dlg'.name = dlg.name /\ dlg'.n = dlg.n /\ dlg'.open /\ dlg.open
         /\ dlg'.edit = dlg.edit + 1 /\ dlg'.said = ""
         /\ Edit => dlg'.first = dlg.first /\ ~dlg.busy /\ ~dlg'.busy /\ dlg.said # "saved"
         /\ ~Edit => dlg'.first = dlg.edit + 1 /\ dlg.name \in Reseeded
<1>1. dlg.edit + 1 \in 0 .. MaxEdits
  BY Dialog DEF Edit, Reseed
<1>2. CASE Edit
  BY <1>1, <1>2, Dialog DEF Edit, Dialogs
<1>3. CASE Reseed /\ ~Edit
  BY <1>1, <1>3, Dialog DEF Reseed, Dialogs
<1> QED
  BY <1>2, <1>3

LEMMA RefuseFills ==
  ASSUME TypeOK, OneDialog, Refuse
  PROVE  SameForm /\ dlg'.open /\ dlg'.busy = dlg.busy /\ dlg'.said = "invalid" /\ dlg.said = ""
<1>1. PICK field : dlg' = [dlg EXCEPT !.said = "invalid", !.marked = Under(dlg.name, field)]
  BY DEF Refuse
<1>2. dlg.name \in Names
  BY DEF Refuse, OneDialog
<1>3. Under(dlg.name, field) \in SUBSET UNION {Write[m].shows : m \in Names}
  BY <1>2, UnderMarks
<1> QED
  BY <1>1, <1>3, Dialog DEF SameForm, Dialogs, Refuse

LEMMA SubmitFills ==
  ASSUME TypeOK, Submit
  PROVE  /\ SameForm /\ dlg'.open /\ dlg'.said = ""
         /\ Write[dlg.name].guard \in {"lock", "state"} => dlg'.busy
<1> DEFINE locks == Write[dlg.name].guard \in {"lock", "state"}
<1>1. dlg' = [dlg EXCEPT !.busy = locks, !.said = "", !.marked = {}]
  BY Zenon DEF Submit
<1>2. locks \in BOOLEAN
  OBVIOUS
<1> HIDE DEF locks
<1>3. SameForm /\ dlg'.open /\ dlg'.said = "" /\ dlg'.busy = locks
  BY <1>1, <1>2, Dialog DEF SameForm, Dialogs, Submit
<1> QED
  BY <1>3 DEF locks

LEMMA RenderFills ==
  ASSUME TypeOK, Render
  PROVE  SameForm /\ dlg'.open /\ dlg'.said = dlg.said
BY Dialog DEF SameForm, Dialogs, Render

LEMMA DemoFills ==
  ASSUME TypeOK, SubmitInDemo
  PROVE  SameForm /\ (armed' # armed => dlg'.open /\ dlg'.said = "saved")
<1>1. dlg.open /\ (\/ dlg' = [dlg EXCEPT !.busy = TRUE, !.said = "saved"]
                    \/ \E b \in BOOLEAN : dlg' = [dlg EXCEPT !.open = b] /\ armed' = armed)
  BY DEF SubmitInDemo
<1> QED
  BY ZenonT(60), <1>1, Dialog DEF SameForm, Dialogs

LEMMA SucceedFills ==
  ASSUME TypeOK, NEW i \in DOMAIN flights, Succeed(i)
  PROVE  /\ SameForm /\ (dlg'.open => dlg.open)
         /\ ~Shown(flights[i]) => dlg' = dlg
         /\ Shown(flights[i]) => ~dlg'.open \/ dlg'.said = "saved"
         /\ Shown(flights[i]) /\ Write[flights[i].name].ends = "timer" => dlg'.open
BY Dialog DEF SameForm, Dialogs, Succeed, Shown

LEMMA RefusalFills ==
  ASSUME TypeOK, NEW i \in DOMAIN flights, Refused(i) \/ Lose(i)
  PROVE  /\ SameForm /\ dlg'.open = dlg.open
         /\ ~Shown(flights[i]) => dlg' = dlg
         /\ Shown(flights[i]) => dlg'.said # "saved"
<1>1. PICK said \in {"refused", "failed"},
           marked \in SUBSET UNION {Write[m].shows : m \in Names} : Fail(i, said, marked)
  <2>1. flights[i].name \in Names
    BY Requests DEF Flights
  <2>2. CASE Lose(i)
    BY <2>2 DEF Lose
  <2>3. CASE Refused(i)
    BY <2>1, <2>3, UnderMarks DEF Refused
  <2> QED
    BY <2>2, <2>3
<1> QED
  BY <1>1, Dialog DEF SameForm, Dialogs, Fail

LEMMA TimerFills ==
  ASSUME TypeOK, NEW name \in Names, TimerFires(name)
  PROVE  /\ SameForm /\ dlg'.busy = dlg.busy /\ dlg'.said = dlg.said /\ (dlg'.open => dlg.open)
         /\ SameDialog(dlg.name, name) => ~dlg'.open
BY Dialog DEF SameForm, Dialogs, TimerFires

LEMMA CloseFills ==
  ASSUME TypeOK, Cancel \/ Back \/ Leave
  PROVE  SameForm /\ ~dlg'.open /\ dlg'.said = dlg.said
BY Dialog DEF SameForm, Dialogs, Cancel, Back, Leave, Closed

-----------------------------------------------------------------------------
(* Types, and what belongs to what *)

Structure == TypeOK /\ OneDialog /\ Placed /\ Opened /\ OneWrite /\ Awaited

LEMMA DialogStays ==
  ASSUME TypeOK, OneDialog, Next
  PROVE  dlg' \in Dialogs
<1>1. \A i \in DOMAIN flights : CarryOut(i) => dlg' \in Dialogs
  BY Dialog DEF CarryOut
<1> QED
  BY <1>1, OpenFills, EditFills, RefuseFills, SubmitFills, RenderFills, DemoFills, SucceedFills,
     RefusalFills, TimerFills, CloseFills DEF Next, SameForm

LEMMA RequestsStay ==
  ASSUME TypeOK, OneDialog, Next
  PROVE  flights' \in Seq(Flights)
<1>1. CASE flights' = flights
  BY <1>1, Requests
<1>2. \A name \in Names : Open(name) \/ TimerFires(name) => flights' = flights
  BY SMTT(30) DEF Open, TimerFires
<1>3. Edit \/ Reseed \/ Refuse \/ Render \/ SubmitInDemo \/ Cancel \/ Back => flights' = flights
  BY DEF Edit, Reseed, Refuse, Render, SubmitInDemo, Cancel, Back
<1> QED
  BY <1>1, <1>2, <1>3, CarryOutMoves, AnswerMoves, SubmitMoves, LeaveMoves DEF Next, OnlyMoves

LEMMA SubmissionTyped ==
  ASSUME TypeOK, NEW i \in DOMAIN flights
  PROVE  Submission(flights[i]) \in Submissions
BY Requests DEF Submission, Submissions, Flights

LEMMA TypeStays ==
  ASSUME TypeOK, OneDialog, Placed, Next
  PROVE  TypeOK'
<1>1. /\ dlg' \in Dialogs /\ flights' \in Seq(Flights)
  BY DialogStays, RequestsStay
<1>2. viewer' = viewer /\ (unsure' = unsure \/ \E i \in DOMAIN flights : Lose(i))
  BY FormFrame, AnswerFrame, WayOutFrame DEF Next
<1>3. unsure' \subseteq Submissions
  <2>1. unsure \subseteq Submissions
    BY DEF TypeOK
  <2>2. ASSUME NEW i \in DOMAIN flights, Lose(i) PROVE unsure' \subseteq Submissions
    <3>1. unsure' = unsure \cup {Submission(flights[i])}
      BY <2>2 DEF Lose, Submission
    <3> QED
      BY <2>1, <3>1, SubmissionTyped
  <2> QED
    BY <1>2, <2>1, <2>2
<1>4. \/ page' = page
      \/ Leave
      \/ \E name \in armed : page' = Write[name].page
  BY FormFrame, AnswerFrame, WayOutFrame DEF Next
<1>5. page' \in Pages
  BY <1>4, WritesAssumption DEF Leave, Placed, TypeOK
<1>6. \/ armed' \subseteq armed \/ SubmitInDemo
      \/ \E i \in DOMAIN flights : armed' = armed \cup {flights[i].name}
  BY FormFrame, AnswerFrame, WayOutFrame DEF Next
<1>7. armed' \subseteq Names
  BY <1>6, Requests DEF SubmitInDemo, OneDialog, TypeOK, Flights
<1>8. \/ commits' = commits
      \/ SubmitInDemo
      \/ \E i \in DOMAIN flights : CarryOut(i)
  BY FormFrame, AnswerFrame, WayOutFrame DEF Next
<1>9. commits' \in [Submissions -> Nat]
  <2>1. commits \in [Submissions -> Nat]
    BY DEF TypeOK
  <2>2. CASE SubmitInDemo
    BY <2>1, <2>2 DEF SubmitInDemo
  <2>3. ASSUME NEW i \in DOMAIN flights, CarryOut(i) PROVE commits' \in [Submissions -> Nat]
    <3>1. Submission(flights[i]) \in Submissions
      BY SubmissionTyped
    <3> DEFINE s == Submission(flights[i])
               n == IF Repeats(flights[i]) THEN commits[s] ELSE commits[s] + 1
    <3>2. commits' = [commits EXCEPT ![s] = n]
      BY <2>3 DEF CarryOut, Submission
    <3>3. n \in Nat
      BY <2>1, <3>1
    <3> HIDE DEF s, n
    <3> QED
      BY <2>1, <3>2, <3>3
  <2> QED
    BY <1>8, <2>1, <2>2, <2>3
<1> QED
  BY <1>1, <1>2, <1>3, <1>5, <1>7, <1>9 DEF TypeOK

LEMMA SameDialogLaws ==
  /\ \A a : SameDialog(a, a)
  /\ \A a, b : SameDialog(a, b) => SameDialog(b, a)
  /\ \A a, b, c : SameDialog(a, b) /\ SameDialog(b, c) => SameDialog(a, c)
BY DEF SameDialog, Shared

\* A step opens the dialog, fills it anew, or leaves its form as it is.
LEMMA FormSteps ==
  ASSUME TypeOK, OneDialog, Next
  PROVE  \/ \E name \in Names : Open(name)
         \/ Edit \/ Reseed
         \/ SameForm /\ (dlg'.open => dlg.open) /\ armed' \subseteq armed
         \/ SameForm /\ dlg.open /\ armed' \subseteq armed \cup {dlg.name}
         \/ \E i \in DOMAIN flights :
              SameForm /\ (dlg'.open => dlg.open) /\ armed' \subseteq armed \cup {flights[i].name}
<1>1. CASE Refuse \/ Submit \/ Render
  BY <1>1, RefuseFills, SubmitFills, RenderFills DEF Refuse, Submit, Render
<1>2. CASE SubmitInDemo
  BY <1>2, DemoFills DEF SubmitInDemo
<1>3. CASE Cancel \/ Back \/ Leave
  <2>1. armed' \subseteq armed
    BY <1>3 DEF Cancel, Back, Leave, Closed
  <2> QED
    BY <1>3, <2>1, CloseFills
<1>4. ASSUME NEW name \in Names, TimerFires(name)
      PROVE  SameForm /\ (dlg'.open => dlg.open) /\ armed' \subseteq armed
  BY <1>4, TimerFills DEF TimerFires
<1>5. ASSUME NEW i \in DOMAIN flights, CarryOut(i) \/ Refused(i) \/ Lose(i)
      PROVE  SameForm /\ (dlg'.open => dlg.open) /\ armed' \subseteq armed
  <2>1. armed' = armed
    BY <1>5, AnswerFrame
  <2>2. CASE CarryOut(i)
    BY <2>1, <2>2, Dialog DEF CarryOut, SameForm
  <2> QED
    BY <1>5, <2>1, <2>2, RefusalFills
<1>6. ASSUME NEW i \in DOMAIN flights, Succeed(i)
      PROVE  SameForm /\ (dlg'.open => dlg.open) /\ armed' \subseteq armed \cup {flights[i].name}
  <2>1. armed' \subseteq armed \cup {flights[i].name}
    BY <1>6 DEF Succeed
  <2> QED
    BY <1>6, <2>1, SucceedFills
<1> QED
  BY SMTT(60), <1>1, <1>2, <1>3, <1>4, <1>5, <1>6 DEF Next

\* A step sends a request, moves one on, leaves the page or touches none.
LEMMA RequestSteps ==
  ASSUME TypeOK, OneDialog, Next
  PROVE  \/ flights' = flights
         \/ \E i \in DOMAIN flights : OnlyMoves(i) /\ SameForm /\ (dlg'.open => dlg.open)
         \/ Submit /\ SameForm /\ dlg.open
         \/ Leave /\ SameForm /\ ~dlg'.open
<1>1. \A name \in Names : Open(name) \/ TimerFires(name) => flights' = flights
  BY SMTT(30) DEF Open, TimerFires
<1>2. Edit \/ Reseed \/ Refuse \/ Render \/ SubmitInDemo \/ Cancel \/ Back => flights' = flights
  BY DEF Edit, Reseed, Refuse, Render, SubmitInDemo, Cancel, Back
<1>3. ASSUME NEW i \in DOMAIN flights, CarryOut(i) \/ Succeed(i) \/ Refused(i) \/ Lose(i)
      PROVE  OnlyMoves(i) /\ SameForm /\ (dlg'.open => dlg.open)
  <2>1. CASE CarryOut(i)
    BY <2>1, Dialog, CarryOutMoves DEF CarryOut, SameForm
  <2> QED
    BY <1>3, <2>1, AnswerMoves, SucceedFills, RefusalFills
<1>4. Submit => SameForm /\ dlg.open
  BY SubmitFills DEF Submit
<1>5. Leave => SameForm /\ ~dlg'.open
  BY CloseFills
<1> QED
  BY <1>1, <1>2, <1>3, <1>4, <1>5 DEF Next

LEMMA OneDialogStays ==
  ASSUME TypeOK, OneDialog, Opened, Next
  PROVE  OneDialog'
<1>1. ASSUME NEW name \in Names, Open(name) PROVE OneDialog'
  <2>1. armed' = armed /\ (dlg.n > 0 => SameDialog(name, dlg.name))
    BY <1>1 DEF Open
  <2>2. \A m \in armed : SameDialog(m, name)
    BY <2>1, SameDialogLaws DEF OneDialog
  <2>3. dlg'.open /\ dlg'.name = name /\ dlg'.n = dlg.n + 1 /\ dlg'.first = 0 /\ dlg'.edit = 0
    BY <1>1, OpenFills
  <2>4. dlg.n \in Nat
    BY Dialog
  <2> QED
    BY <2>1, <2>2, <2>3, <2>4 DEF OneDialog
<1>2. CASE Edit \/ Reseed
  <2>1. armed' = armed
    BY <1>2 DEF Edit, Reseed
  <2>2. /\ dlg'.name = dlg.name /\ dlg'.n = dlg.n /\ dlg.open /\ dlg'.edit = dlg.edit + 1
        /\ dlg'.first = dlg.first \/ dlg'.first = dlg.edit + 1
    BY <1>2, EditFills
  <2>3. dlg.first \in Nat /\ dlg.edit \in Nat
    BY Dialog
  <2> QED
    BY <2>1, <2>2, <2>3 DEF OneDialog
<1>3. CASE SameForm /\ (dlg'.open => dlg.open) /\ armed' \subseteq armed
  BY <1>3 DEF SameForm, OneDialog
<1>4. CASE SameForm /\ dlg.open /\ armed' \subseteq armed \cup {dlg.name}
  BY <1>4, SameDialogLaws DEF SameForm, OneDialog
<1>5. ASSUME NEW i \in DOMAIN flights, SameForm, dlg'.open => dlg.open,
             armed' \subseteq armed \cup {flights[i].name}
      PROVE  OneDialog'
  <2>1. dlg.n > 0 /\ SameDialog(flights[i].name, dlg.name)
    BY SMTT(60), Requests, Dialog DEF Opened, Flights
  <2> QED
    BY <1>5, <2>1 DEF SameForm, OneDialog
<1> QED
  BY <1>1, <1>2, <1>3, <1>4, <1>5, FormSteps

LEMMA PlacedStays ==
  ASSUME TypeOK, OneDialog, Placed, Opened, Next
  PROVE  Placed'
<1>1. /\ dlg'.n > 0 => Write[dlg'.name].page \in Pages
      /\ \A m \in armed' : Write[m].page \in Pages
  <2>1. ASSUME NEW name \in Names, Open(name)
        PROVE  Write[dlg'.name].page \in Pages /\ armed' = armed
    <3>1. Write[name].page = page /\ armed' = armed /\ page \in Pages
      BY <2>1 DEF Open, Offered, TypeOK
    <3>2. dlg'.name = name
      BY <2>1, OpenFills
    <3> QED
      BY <3>1, <3>2
  <2>2. CASE Edit \/ Reseed
    <3>1. armed' = armed
      BY <2>2 DEF Edit, Reseed
    <3> QED
      BY <2>2, <3>1, EditFills DEF Placed
  <2>3. CASE SameForm /\ armed' \subseteq armed
    BY <2>3 DEF SameForm, Placed
  <2>4. CASE SameForm /\ dlg.open /\ armed' \subseteq armed \cup {dlg.name}
    BY <2>4 DEF SameForm, Placed, OneDialog
  <2>5. ASSUME NEW i \in DOMAIN flights, SameForm, armed' \subseteq armed \cup {flights[i].name}
        PROVE  /\ dlg'.n > 0 => Write[dlg'.name].page \in Pages
               /\ \A m \in armed' : Write[m].page \in Pages
    BY <2>5 DEF SameForm, Placed
  <2> QED
    BY <2>1, <2>2, <2>3, <2>4, <2>5, FormSteps DEF Placed
<1>2. \A i \in DOMAIN flights' : Write[flights'[i].name].page \in Pages
  <2>1. CASE Submit
    BY <2>1, SubmitMoves, Dialog DEF Placed, OneDialog, Submit
  <2>2. CASE Leave
    BY <2>2, LeaveMoves DEF Placed, Same
  <2> QED
    BY <2>1, <2>2, RequestSteps DEF Placed, OnlyMoves, Same
<1> QED
  BY <1>1, <1>2 DEF Placed

LEMMA Counted ==
  ASSUME TypeOK
  PROVE  /\ dlg.n \in Nat /\ dlg.edit \in Nat /\ dlg.first \in Nat
         /\ \A i \in DOMAIN flights :
              flights[i].n \in Nat /\ flights[i].n > 0 /\ flights[i].edit \in Nat
              /\ flights[i].key \in Nat
<1>1. dlg.n \in Nat /\ dlg.edit \in Nat /\ dlg.first \in Nat
  BY Dialog
<1>2. \A i \in DOMAIN flights :
        flights[i].n \in 1 .. MaxDialogs /\ flights[i].edit \in 0 .. MaxEdits
        /\ flights[i].key \in 0 .. MaxEdits
  BY Requests DEF Flights
<1> QED
  BY <1>1, <1>2

LEMMA OpenedStays ==
  ASSUME TypeOK, OneDialog, Opened, Next
  PROVE  Opened'
<1>1. ASSUME NEW name \in Names, Open(name) PROVE Opened'
  <2>1. flights' = flights /\ (dlg.n > 0 => SameDialog(name, dlg.name))
    BY <1>1 DEF Open
  <2>2. dlg'.name = name /\ dlg'.n = dlg.n + 1
    BY <1>1, OpenFills
  <2>3. \A i \in DOMAIN flights :
          /\ flights[i].n <= dlg.n + 1 /\ flights[i].n # dlg.n + 1
          /\ SameDialog(flights[i].name, name)
    BY <2>1, Counted, SameDialogLaws DEF Opened
  <2> QED
    BY <2>1, <2>2, <2>3 DEF Opened
<1>2. CASE Edit \/ Reseed
  <2>1. flights' = flights
    BY <1>2 DEF Edit, Reseed
  <2>2. dlg'.name = dlg.name /\ dlg'.n = dlg.n /\ dlg.open /\ dlg'.edit = dlg.edit + 1
    BY <1>2, EditFills
  <2> QED
    BY <2>1, <2>2, Counted DEF Opened
<1>3. CASE Submit /\ SameForm /\ dlg.open
  <2>1. \A i \in DOMAIN flights' : i \in DOMAIN flights \/ i = Len(flights) + 1
    BY <1>3, SubmitMoves
  <2>2. ASSUME NEW i \in DOMAIN flights
        PROVE  flights'[i] = flights[i]
    BY <1>3, SubmitMoves
  <2>3. LET f == flights'[Len(flights) + 1]
        IN f.name = dlg.name /\ f.n = dlg.n /\ f.edit = dlg.edit /\ f.key = dlg.first /\ f.here
    BY <1>3, SubmitMoves
  <2> QED
    BY <1>3, <2>1, <2>2, <2>3, Counted, SameDialogLaws DEF Opened, OneDialog, SameForm
<1>4. CASE Leave /\ SameForm /\ ~dlg'.open
  BY <1>4, LeaveMoves DEF Opened, Same, SameForm
<1>5. ASSUME NEW i \in DOMAIN flights, OnlyMoves(i), SameForm, dlg'.open => dlg.open
      PROVE  Opened'
  BY <1>5 DEF OnlyMoves, Opened, Same, SameForm
<1>6. CASE flights' = flights /\ SameForm /\ (dlg'.open => dlg.open)
  BY <1>6 DEF Opened, SameForm
<1> QED
  BY <1>1, <1>2, <1>3, <1>4, <1>5, <1>6, FormSteps, RequestSteps

LEMMA OneWriteStays ==
  ASSUME TypeOK, OneDialog, Opened, OneWrite, Next
  PROVE  OneWrite'
<1>1. CASE Submit
  <2>1. \A i \in DOMAIN flights' : i \in DOMAIN flights \/ i = Len(flights) + 1
    BY <1>1, SubmitMoves
  <2>2. \A i \in DOMAIN flights : flights'[i] = flights[i]
    BY <1>1, SubmitMoves
  <2>3. flights'[Len(flights) + 1].name = dlg.name /\ flights'[Len(flights) + 1].n = dlg.n
    BY <1>1, SubmitMoves
  <2> QED
    BY <2>1, <2>2, <2>3 DEF OneWrite, Opened
<1>2. CASE Leave
  BY <1>2, LeaveMoves DEF OneWrite, Same
<1>3. ASSUME NEW i \in DOMAIN flights, OnlyMoves(i) PROVE OneWrite'
  BY <1>3 DEF OneWrite, OnlyMoves, Same
<1>4. CASE flights' = flights
  BY <1>4 DEF OneWrite
<1> QED
  BY <1>1, <1>2, <1>3, <1>4, RequestSteps

LEMMA AwaitedStays ==
  ASSUME TypeOK, OneDialog, Awaited, Next
  PROVE  Awaited'
<1>1. viewer' = viewer /\ unsure \subseteq unsure'
  BY FormFrame, AnswerFrame, WayOutFrame DEF Next
<1>2. CASE flights' = flights
  BY <1>1, <1>2 DEF Awaited, Submission
<1>3. CASE Leave
  BY <1>1, <1>3, LeaveMoves DEF Awaited, Same, Submission
<1>4. CASE Submit
  <2>1. \A i \in DOMAIN flights' : i \in DOMAIN flights \/ i = Len(flights) + 1
    BY <1>4, SubmitMoves
  <2>2. \A i \in DOMAIN flights : flights'[i] = flights[i]
    BY <1>4, SubmitMoves
  <2>3. flights'[Len(flights) + 1].waited /\ flights'[Len(flights) + 1].stage = "sent"
    BY <1>4, SubmitMoves
  <2>4. ~viewer.demo
    BY <1>4 DEF Submit
  <2> QED
    BY <1>1, <2>1, <2>2, <2>3, <2>4 DEF Awaited, Submission
<1>5. ASSUME NEW i \in DOMAIN flights, CarryOut(i) PROVE Awaited'
  <2>1. OnlyMoves(i) /\ flights'[i].stage = "done" /\ flights'[i].waited = flights[i].waited
    BY <1>5, CarryOutMoves
  <2>2. flights[i].stage = "sent"
    BY <1>5 DEF CarryOut
  <2> QED
    BY <1>1, <2>1, <2>2 DEF Awaited, OnlyMoves, Same, Submission
<1>6. ASSUME NEW i \in DOMAIN flights, Succeed(i) \/ Refused(i) \/ Lose(i) PROVE Awaited'
  <2>1. OnlyMoves(i) /\ ~flights'[i].waited
    BY <1>6, AnswerMoves
  <2>2. flights'[i].stage = "gone" \/ Submission(flights[i]) \in unsure'
    <3>1. CASE Lose(i)
      BY <3>1 DEF Lose, Submission
    <3>2. CASE Succeed(i) \/ Refused(i)
      <4>1. flights' = [flights EXCEPT ![i].waited = FALSE, ![i].stage = "gone"]
        BY <3>2 DEF Succeed, Refused
      <4>2. flights[i] \in Flights
        BY Requests
      <4> QED
        BY <4>1, <4>2 DEF Flights
    <3> QED
      BY <1>6, <3>1, <3>2
  <2> QED
    BY <1>1, <2>1, <2>2 DEF Awaited, OnlyMoves, Same, Submission
<1>7. \/ flights' = flights \/ Submit \/ Leave
      \/ \E i \in DOMAIN flights : CarryOut(i) \/ Succeed(i) \/ Refused(i) \/ Lose(i)
  BY FormFrame, WayOutFrame DEF Next
<1> QED
  BY <1>2, <1>3, <1>4, <1>5, <1>6, <1>7

-----------------------------------------------------------------------------
(* One request at a time *)

LEMMA AloneLaws ==
  /\ \A a, b : Alone(a) /\ SameDialog(a, b) => Alone(b)
  /\ \A m \in Names : Alone(m) =>
       /\ Write[m].guard \in {"lock", "state"} /\ Write[m].held /\ Write[m].opens = "state"
       /\ m \notin Reseeded
BY SameDialogLaws DEF Alone

LEMMA ExclusiveLaws ==
  /\ \A a \in Names, b \in Names : Exclusive(a) /\ SameDialog(a, b) => Exclusive(b)
  /\ \A m \in Names : Exclusive(m) /\ ~Alone(m) =>
       /\ Write[m].guard = "lock"
       /\ \A k \in Names : SameDialog(k, m) => k = m
BY AloneLaws, SameDialogLaws DEF Exclusive

\* Nothing is under way before the first dialog.
LEMMA NothingYet ==
  ASSUME TypeOK, OneDialog, Opened, dlg.n = 0
  PROVE  DOMAIN flights = {} /\ armed = {}
<1>1. \A i \in DOMAIN flights : FALSE
  BY Counted DEF Opened
<1>2. ~(dlg.n > 0)
  OBVIOUS
<1>3. \A m \in armed : FALSE
  BY <1>2 DEF OneDialog
<1> QED
  BY <1>1, <1>3

\* A dialog of this kind takes a submission only if it waits for nothing.
LEMMA SubmitAlone ==
  ASSUME Structure, Held, Submit, Exclusive(dlg.name), NEW i \in DOMAIN flights
  PROVE  ~Here(i)
<1>1. dlg.name \in Names
  BY DEF Structure, OneDialog, Submit
<1>2. CASE Alone(dlg.name)
  <2>1. ~dlg.busy
    BY <1>1, <1>2, AloneLaws DEF Submit, Unguarded
  <2> QED
    BY <1>2, <2>1 DEF Held
<1>3. CASE ~Alone(dlg.name)
  <2>1. Write[dlg.name].guard = "lock" /\ \A k \in Names : SameDialog(k, dlg.name) => k = dlg.name
    BY <1>1, <1>3, ExclusiveLaws
  <2>2. ~Waiting(dlg.name)
    BY <2>1 DEF Submit, Unguarded
  <2>3. flights[i].name \in Names
    BY Requests DEF Structure, Flights
  <2>4. flights[i].name = dlg.name
    BY <2>1, <2>3 DEF Structure, Opened
  <2> QED
    BY <2>2, <2>4 DEF Waiting, Here
<1> QED
  BY <1>2, <1>3

LEMMA HeldStays ==
  ASSUME Structure, OneAtATime, Held, Next
  PROVE  Held'
<1> USE DEF Structure
<1>1. ASSUME NEW name \in Names, Open(name) PROVE Held'
  <2>1. flights' = flights /\ armed' = armed /\ ~dlg.open /\ dlg'.name = name
        /\ (dlg.n > 0 => SameDialog(name, dlg.name))
    BY <1>1, OpenFills DEF Open
  <2>2. CASE dlg.n = 0
    BY <2>1, <2>2, NothingYet DEF Held
  <2>3. CASE dlg.n # 0 /\ Alone(name)
    <3>1. Alone(dlg.name)
      BY <2>1, <2>3, AloneLaws, Counted
    <3> QED
      BY <2>1, <3>1 DEF Held, Here
  <2> QED
    BY <2>1, <2>2, <2>3 DEF Held
<1>2. CASE Edit \/ Reseed
  <2>1. flights' = flights /\ armed' = armed
    BY <1>2 DEF Edit, Reseed
  <2>2. dlg'.name = dlg.name /\ dlg.name \in Names
    BY <1>2, EditFills DEF OneDialog
  <2>3. CASE Edit
    BY <2>1, <2>2, <2>3, EditFills DEF Held, Here
  <2>4. CASE ~Edit
    BY <1>2, <2>2, <2>4, EditFills, AloneLaws DEF Held
  <2> QED
    BY <2>3, <2>4
<1>3. CASE Refuse
  <2>1. flights' = flights /\ armed' = armed
    BY <1>3 DEF Refuse
  <2> QED
    BY <1>3, <2>1, RefuseFills DEF Held, Here, SameForm
<1>4. CASE Submit
  <2>1. dlg.name \in Names /\ armed' = armed /\ dlg.said # "saved"
    BY <1>4 DEF Submit, OneDialog
  <2>2. SameForm /\ dlg'.open
        /\ (Write[dlg.name].guard \in {"lock", "state"} => dlg'.busy)
    BY <1>4, SubmitFills
  <2>3. CASE Alone(dlg.name)
    <3>1. \A i \in DOMAIN flights : ~Here(i)
      BY <1>4, <2>3, SubmitAlone DEF Exclusive
    <3>2. \A i \in DOMAIN flights' : i \in DOMAIN flights \/ i = Len(flights) + 1
      BY <1>4, SubmitMoves
    <3>3. \A i \in DOMAIN flights : flights'[i] = flights[i]
      BY <1>4, SubmitMoves
    <3>4. flights'[Len(flights) + 1].n = dlg.n
      BY <1>4, SubmitMoves
    <3>5. dlg'.busy /\ armed = {}
      BY <2>1, <2>2, <2>3, AloneLaws DEF Held
    <3> QED
      BY <2>1, <2>2, <3>1, <3>2, <3>3, <3>4, <3>5 DEF Held, Here, SameForm
  <2> QED
    BY <2>2, <2>3 DEF Held, SameForm
<1>5. CASE Render
  <2>1. ~Alone(dlg.name)
    BY <1>5, AloneLaws DEF Render, OneDialog
  <2> QED
    BY <1>5, <2>1, RenderFills DEF Held, SameForm
<1>6. CASE SubmitInDemo
  <2>1. flights' = flights /\ DOMAIN flights = {} /\ dlg.said # "saved"
    BY <1>6 DEF SubmitInDemo, Awaited
  <2>2. armed' \subseteq armed \cup {dlg.name}
    BY <1>6 DEF SubmitInDemo
  <2>3. SameForm /\ (armed' # armed => dlg'.open /\ dlg'.said = "saved")
    BY <1>6, DemoFills
  <2> QED
    BY <2>1, <2>2, <2>3 DEF Held, SameForm
<1>7. CASE Cancel \/ Back \/ Leave
  <2>1. dlg'.name = dlg.name
    BY <1>7, CloseFills DEF SameForm
  <2>2. CASE Alone(dlg.name)
    <3>1. \A i \in DOMAIN flights' : ~Here(i)'
      <4>1. CASE Leave
        BY <4>1, LeaveMoves DEF Here
      <4>2. CASE Cancel \/ Back
        <5>1. dlg.open /\ dlg.name \in Names /\ flights' = flights
          BY <4>2 DEF Cancel, Back, OneDialog
        <5>2. ~dlg.busy
          BY <2>2, <4>2, <5>1, AloneLaws DEF Cancel, Back, Busy
        <5> QED
          BY <2>2, <5>1, <5>2 DEF Held, Here
      <4> QED
        BY <1>7, <4>1, <4>2
    <3>2. armed' = armed \ {dlg.name}
      BY <1>7 DEF Cancel, Back, Leave, Closed
    <3> QED
      BY <2>2, <3>1, <3>2 DEF Held
  <2> QED
    BY <2>1, <2>2 DEF Held
<1>8. ASSUME NEW name \in Names, TimerFires(name) PROVE Held'
  <2>1. flights' = flights /\ armed' = armed \ {name} /\ name \in armed
    BY <1>8 DEF TimerFires
  <2>2. dlg'.name = dlg.name
    BY <1>8, TimerFills DEF SameForm
  <2>3. CASE Alone(dlg.name)
    <3>1. \A m \in armed : m = dlg.name
      BY <2>3 DEF Held
    <3>2. dlg.open /\ dlg.said = "saved"
      BY <2>1, <2>3 DEF Held
    <3>3. \A i \in DOMAIN flights : ~Here(i)
      BY <2>3, <3>2 DEF OneAtATime, Exclusive
    <3> QED
      BY <2>1, <3>1, <3>3 DEF Held, Here
  <2> QED
    BY <2>2, <2>3 DEF Held
<1>9. ASSUME NEW i \in DOMAIN flights, CarryOut(i) PROVE Held'
  <2>1. dlg' = dlg /\ armed' = armed
    BY <1>9 DEF CarryOut
  <2>2. OnlyMoves(i) /\ flights'[i].waited = flights[i].waited
    BY <1>9, CarryOutMoves
  <2> QED
    BY <2>1, <2>2 DEF OnlyMoves, Same, Held, Here
<1>10. ASSUME NEW i \in DOMAIN flights, Succeed(i) \/ Refused(i) \/ Lose(i), Alone(dlg.name)
       PROVE  Held'
  <2>1. OnlyMoves(i) /\ ~flights'[i].waited
    BY <1>10, AnswerMoves
  <2>2. \A j \in DOMAIN flights' : Here(j)' =>
          j \in DOMAIN flights /\ j # i /\ Here(j) /\ flights'[j] = flights[j]
    BY <2>1 DEF OnlyMoves, Here
  <2>3. SameForm
    BY <1>10, SucceedFills, RefusalFills
  <2>4. CASE Here(i)
    <3>1. \A j \in DOMAIN flights' : ~Here(j)'
      BY <1>10, <2>1, <2>2, <2>4 DEF OneAtATime, Exclusive, OnlyMoves
    <3>2. armed = {}
      BY <1>10, <2>4 DEF OneAtATime, Exclusive, Held
    <3>3. flights[i].name = dlg.name /\ Shown(flights[i])
      BY <1>10, <2>4, SameDialogLaws DEF Held, Here, Opened, Shown
    <3>4. \A m \in armed' : m = dlg.name /\ dlg'.open /\ dlg'.said = "saved"
      <4>1. CASE armed' = armed
        BY <3>2, <4>1
      <4>2. CASE armed' # armed
        <5>1. Succeed(i) /\ Write[flights[i].name].ends = "timer"
              /\ armed' = armed \cup {flights[i].name}
          BY <1>10, <4>2, AnswerFrame DEF Succeed
        <5> QED
          BY SMTT(30), <3>2, <3>3, <5>1, SucceedFills
      <4> QED
        BY <4>1, <4>2
    <3> QED
      BY <2>3, <3>1, <3>4 DEF Held, SameForm
  <2>5. CASE ~Here(i)
    <3>1. ~flights[i].here
      BY <1>10, <2>5 DEF Here, Succeed, Refused, Lose
    <3>2. dlg' = dlg
      BY <1>10, <3>1, SucceedFills, RefusalFills DEF Shown
    <3>3. flights[i].name \in Names /\ Alone(flights[i].name)
      BY <1>10, Requests, AloneLaws, SameDialogLaws DEF Opened, Flights
    <3>4. ~LeadsBack(flights[i].name)
      BY SMTT(30), <3>3, AloneLaws DEF LeadsBack
    <3>5. armed' = armed
      BY <1>10, <3>1, <3>4, AnswerFrame DEF Succeed
    <3> QED
      BY <2>2, <3>2, <3>5 DEF Held
  <2> QED
    BY <2>4, <2>5
<1>11. ASSUME NEW i \in DOMAIN flights, Succeed(i) \/ Refused(i) \/ Lose(i), ~Alone(dlg.name)
       PROVE  Held'
  BY <1>11, SucceedFills, RefusalFills DEF Held, SameForm
<1> QED
  BY <1>1, <1>2, <1>3, <1>4, <1>5, <1>6, <1>7, <1>8, <1>9, <1>10, <1>11 DEF Next

LEMMA OneAtATimeStays ==
  ASSUME Structure, OneAtATime, Held, Next
  PROVE  OneAtATime'
<1> USE DEF Structure
<1>1. ASSUME NEW name \in Names, Open(name) PROVE OneAtATime'
  <2>1. flights' = flights /\ dlg'.name = name /\ dlg'.said = ""
        /\ (dlg.n > 0 => SameDialog(name, dlg.name))
    BY <1>1, OpenFills DEF Open
  <2>2. CASE dlg.n = 0
    BY <2>1, <2>2, NothingYet DEF OneAtATime
  <2>3. CASE dlg.n # 0 /\ Exclusive(name)
    <3>1. dlg.n > 0
      BY <2>3, Counted
    <3>2. Exclusive(dlg.name)
      BY <2>1, <2>3, <3>1, ExclusiveLaws DEF OneDialog
    <3> QED
      BY <2>1, <3>2 DEF OneAtATime, Here
  <2> QED
    BY <2>1, <2>2, <2>3 DEF OneAtATime
<1>2. CASE Edit \/ Reseed
  <2>1. flights' = flights
    BY <1>2 DEF Edit, Reseed
  <2>2. dlg'.name = dlg.name /\ dlg'.said = ""
    BY <1>2, EditFills
  <2> QED
    BY <2>1, <2>2 DEF OneAtATime, Here
<1>3. CASE Refuse \/ Render
  <2>1. flights' = flights
    BY ZenonT(30), <1>3 DEF Refuse, Render
  <2>2. SameForm /\ (dlg'.said = "saved" => dlg.said = "saved" /\ dlg.open)
    BY <1>3, RefuseFills, RenderFills DEF Refuse, Render
  <2> QED
    BY <2>1, <2>2 DEF OneAtATime, Here, SameForm
<1>4. CASE Submit
  <2>1. SameForm /\ dlg'.said = ""
    BY <1>4, SubmitFills
  <2>2. CASE Exclusive(dlg.name)
    <3>1. \A i \in DOMAIN flights : ~Here(i)
      BY <1>4, <2>2, SubmitAlone
    <3>2. \A i \in DOMAIN flights' : i \in DOMAIN flights \/ i = Len(flights) + 1
      BY <1>4, SubmitMoves
    <3>3. \A i \in DOMAIN flights : flights'[i] = flights[i]
      BY <1>4, SubmitMoves
    <3> QED
      BY <2>1, <3>1, <3>2, <3>3 DEF OneAtATime, Here
  <2> QED
    BY <2>1, <2>2 DEF OneAtATime, SameForm
<1>5. CASE SubmitInDemo
  <2>1. flights' = flights /\ DOMAIN flights = {}
    BY <1>5 DEF SubmitInDemo, Awaited
  <2> QED
    BY <2>1 DEF OneAtATime
<1>6. CASE Cancel \/ Back \/ Leave
  <2>1. SameForm /\ ~dlg'.open
    BY <1>6, CloseFills
  <2>2. CASE Leave
    BY <2>1, <2>2, LeaveMoves DEF OneAtATime, Here
  <2>3. CASE Cancel \/ Back
    <3>1. flights' = flights
      BY <2>3 DEF Cancel, Back
    <3> QED
      BY <2>1, <3>1 DEF OneAtATime, Here, SameForm
  <2> QED
    BY <1>6, <2>2, <2>3
<1>7. ASSUME NEW name \in Names, TimerFires(name) PROVE OneAtATime'
  <2>1. flights' = flights
    BY <1>7 DEF TimerFires
  <2>2. SameForm /\ dlg'.said = dlg.said /\ (dlg'.open => dlg.open)
    BY <1>7, TimerFills
  <2> QED
    BY <2>1, <2>2 DEF OneAtATime, Here, SameForm
<1>8. ASSUME NEW i \in DOMAIN flights, CarryOut(i) PROVE OneAtATime'
  <2>1. dlg' = dlg
    BY <1>8 DEF CarryOut
  <2>2. OnlyMoves(i) /\ flights'[i].waited = flights[i].waited
    BY <1>8, CarryOutMoves
  <2> QED
    BY <2>1, <2>2 DEF OnlyMoves, OneAtATime, Here
<1>9. ASSUME NEW i \in DOMAIN flights, Succeed(i) \/ Refused(i) \/ Lose(i) PROVE OneAtATime'
  <2>1. OnlyMoves(i) /\ ~flights'[i].waited
    BY <1>9, AnswerMoves
  <2>2. \A j \in DOMAIN flights' : Here(j)' => j \in DOMAIN flights /\ j # i /\ Here(j)
    BY <2>1 DEF OnlyMoves, Here
  <2>3. SameForm /\ (dlg'.open => dlg.open)
    BY <1>9, SucceedFills, RefusalFills
  <2>4. CASE Shown(flights[i])
    <3>1. Here(i)
      BY <1>9, <2>4 DEF Here, Shown, Succeed, Refused, Lose
    <3> QED
      BY <2>2, <2>3, <3>1 DEF OneAtATime, SameForm
  <2>5. CASE ~Shown(flights[i])
    <3>1. dlg' = dlg
      BY <1>9, <2>5, SucceedFills, RefusalFills
    <3> QED
      BY <2>2, <3>1 DEF OneAtATime
  <2> QED
    BY <2>4, <2>5
<1> QED
  BY <1>1, <1>2, <1>3, <1>4, <1>5, <1>6, <1>7, <1>8, <1>9 DEF Next

-----------------------------------------------------------------------------
(* What the server carried out *)

LEMMA RequestsKept ==
  ASSUME TypeOK, OneDialog, Next
  PROVE  /\ \A i \in DOMAIN flights :
              /\ i \in DOMAIN flights' /\ Same(flights'[i], flights[i])
              /\ Submission(flights'[i]) = Submission(flights[i])
         /\ ~Submit => DOMAIN flights' = DOMAIN flights
<1>1. CASE Submit
  <2>1. \A i \in DOMAIN flights : i \in DOMAIN flights' /\ flights'[i] = flights[i]
    BY <1>1, SubmitMoves
  <2> QED
    BY <1>1, <2>1 DEF Same, Submission
<1>2. CASE Leave
  BY <1>2, LeaveMoves DEF Same, Submission
<1>3. ASSUME NEW i \in DOMAIN flights, OnlyMoves(i)
      PROVE  /\ DOMAIN flights' = DOMAIN flights
             /\ \A j \in DOMAIN flights : Same(flights'[j], flights[j])
  BY <1>3 DEF OnlyMoves, Same
<1>4. CASE flights' = flights
  BY <1>4 DEF Same, Submission
<1> QED
  BY <1>1, <1>2, <1>3, <1>4, RequestSteps DEF Same, Submission

LEMMA CommitSteps ==
  ASSUME Next
  PROVE  /\ viewer' = viewer /\ unsure \subseteq unsure'
         /\ \/ commits' = commits
            \/ SubmitInDemo
            \/ \E i \in DOMAIN flights : CarryOut(i)
BY FormFrame, AnswerFrame, WayOutFrame DEF Next

LEMMA CarryOutCommits ==
  ASSUME TypeOK, NEW i \in DOMAIN flights, CarryOut(i),
         NEW s, s = Submission(flights[i])
  PROVE  /\ \A t \in Submissions : t # s => commits'[t] = commits[t]
         /\ Repeats(flights[i]) => commits'[s] = commits[s] /\ commits[s] > 0
         /\ ~Repeats(flights[i]) => commits'[s] = commits[s] + 1
<1>1. s \in Submissions /\ commits \in [Submissions -> Nat]
  BY SubmissionTyped DEF TypeOK
<1>2. commits' = [commits EXCEPT ![s] = IF Repeats(flights[i]) THEN @ ELSE @ + 1]
  BY DEF CarryOut, Submission
<1>3. Repeats(flights[i]) => commits[s] > 0
  BY DEF CarryOut, Submission
<1> QED
  BY <1>1, <1>2, <1>3

\* The demo sends nothing.
LEMMA DemoSends ==
  ASSUME Structure, SubmitInDemo
  PROVE  DOMAIN flights = {} /\ flights' = flights /\ viewer.demo
BY DEF Structure, Awaited, SubmitInDemo

LEMMA SentStays ==
  ASSUME Structure, Sent, Next
  PROVE  Sent'
<1> USE DEF Structure
<1>1. ASSUME ~viewer'.demo, NEW s \in Submissions, commits'[s] > 0
      PROVE  \E i \in DOMAIN flights' : Submission(flights'[i]) = s
  <2>1. CASE commits' = commits
    <3>1. PICK i \in DOMAIN flights : Submission(flights[i]) = s
      BY <1>1, <2>1, CommitSteps DEF Sent
    <3> QED
      BY <3>1, RequestsKept
  <2>2. CASE SubmitInDemo
    BY <1>1, <2>2, DemoSends, CommitSteps
  <2>3. ASSUME NEW i \in DOMAIN flights, CarryOut(i)
        PROVE  \E j \in DOMAIN flights' : Submission(flights'[j]) = s
    <3>1. CASE Submission(flights[i]) = s
      BY <3>1, RequestsKept
    <3>2. CASE Submission(flights[i]) # s
      <4>1. commits[s] > 0
        BY <1>1, <2>3, <3>2, CarryOutCommits
      <4>2. PICK j \in DOMAIN flights : Submission(flights[j]) = s
        BY <1>1, <4>1, CommitSteps DEF Sent
      <4> QED
        BY <4>2, RequestsKept
    <3> QED
      BY <3>1, <3>2
  <2> QED
    BY <2>1, <2>2, <2>3, CommitSteps
<1>2. ASSUME NEW j \in DOMAIN flights', Write[flights'[j].name].key = "dialog"
      PROVE  commits'[Submission(flights'[j])] <= 1
  <2>1. CASE commits' = commits /\ j \in DOMAIN flights
    <3>1. Submission(flights'[j]) = Submission(flights[j]) /\ flights'[j].name = flights[j].name
      BY <2>1, RequestsKept DEF Same
    <3> QED
      BY <1>2, <2>1, <3>1 DEF Sent
  <2>2. CASE commits' = commits /\ j \notin DOMAIN flights
    <3>1. Submit
      BY <2>2, RequestsKept
    <3>2. j = Len(flights) + 1
      BY <2>2, <3>1, SubmitMoves
    <3> DEFINE s == <<dlg.n, dlg.edit>>
    <3>3. Submission(flights'[j]) = s /\ flights'[j].name = dlg.name
      BY <3>1, <3>2, SubmitMoves DEF Submission
    <3>4. s \in Submissions /\ commits[s] \in Nat
      BY <3>1, Dialog DEF Submissions, Submit, OneDialog, TypeOK
    <3>5. CASE commits[s] > 0
      <4>1. PICK i \in DOMAIN flights : Submission(flights[i]) = s
        BY <3>1, <3>4, <3>5 DEF Sent, Submit
      <4>2. flights[i].name = dlg.name
        BY <4>1 DEF Submission, Opened
      <4> QED
        BY <1>2, <2>2, <3>3, <4>1, <4>2 DEF Sent
    <3> QED
      BY <2>2, <3>3, <3>4, <3>5
  <2>3. CASE SubmitInDemo
    BY <2>3, DemoSends
  <2>4. ASSUME NEW i \in DOMAIN flights, CarryOut(i)
        PROVE  commits'[Submission(flights'[j])] <= 1
    <3>1. j \in DOMAIN flights
      BY <2>4, CarryOutMoves DEF OnlyMoves
    <3>2. Submission(flights'[j]) = Submission(flights[j]) /\ flights'[j].name = flights[j].name
      BY <3>1, RequestsKept DEF Same
    <3>3. commits[Submission(flights[j])] <= 1 /\ Submission(flights[j]) \in Submissions
      BY <1>2, <3>1, <3>2, SubmissionTyped DEF Sent
    <3>4. CASE Submission(flights[j]) # Submission(flights[i])
      BY <2>4, <3>2, <3>3, <3>4, CarryOutCommits
    <3>5. CASE Submission(flights[j]) = Submission(flights[i])
      <4> DEFINE f == flights[i]
                 s == Submission(f)
      <4>1. f.name = flights[j].name
        BY <3>1, <3>5 DEF OneWrite, Submission
      <4>2. CASE Repeats(f)
        BY <2>4, <3>2, <3>3, <3>5, <4>2, CarryOutCommits
      <4>3. CASE ~Repeats(f)
        <5>1. \A e \in f.key .. MaxEdits : ~(commits[<<f.n, e>>] > 0)
          BY <1>2, <3>2, <4>1, <4>3 DEF Repeats
        <5>2. f.edit \in f.key .. MaxEdits
          <6>1. f \in Flights /\ f.key <= f.edit
            BY Requests DEF Opened
          <6> QED
            BY <6>1, WritesAssumption DEF Flights
        <5>3. ~(commits[s] > 0)
          BY <5>1, <5>2 DEF Submission
        <5>4. commits[s] \in Nat
          BY SubmissionTyped DEF TypeOK
        <5>5. commits'[s] = commits[s] + 1
          BY <2>4, <4>3, CarryOutCommits
        <5> QED
          BY <3>2, <3>5, <5>3, <5>4, <5>5
      <4> QED
        BY <4>2, <4>3
    <3> QED
      BY <3>4, <3>5
  <2> QED
    BY <2>1, <2>2, <2>3, <2>4, CommitSteps
<1> QED
  BY <1>1, <1>2 DEF Sent, Submissions

\* Nobody waits for the submission that the dialog is about to send.
LEMMA SubmitsAfresh ==
  ASSUME Structure, Held, Submit, Exclusive(dlg.name), NEW i \in DOMAIN flights,
         Submission(flights[i]) = <<dlg.n, dlg.edit>>
  PROVE  ~flights[i].waited
<1>1. flights[i].here
  BY DEF Structure, Opened, Submission, Submit
<1> QED
  BY <1>1, SubmitAlone DEF Here

LEMMA CarriedOutStays ==
  ASSUME Structure, OneAtATime, Held, Sent, CarriedOut, NextUnsent, Next
  PROVE  CarriedOut'
<1> USE DEF Structure
<1>1. CASE flights' = flights /\ commits' = commits
  BY <1>1, CommitSteps DEF CarriedOut, Submission
<1>2. CASE Leave
  <2>1. commits' = commits
    BY <1>2 DEF Leave
  <2> QED
    BY <1>2, <2>1, LeaveMoves, CommitSteps DEF CarriedOut, Same, Submission
<1>3. CASE SubmitInDemo
  BY <1>3, DemoSends DEF CarriedOut
<1>4. CASE Submit
  <2> DEFINE s == <<dlg.n, dlg.edit>>
             last == Len(flights) + 1
  <2>1. commits' = commits /\ unsure' = unsure /\ dlg.open /\ dlg.said # "saved" /\ ~viewer.demo
    BY <1>4 DEF Submit
  <2>2. \A i \in DOMAIN flights' : i \in DOMAIN flights \/ i = last
    BY <1>4, SubmitMoves
  <2>3. last \notin DOMAIN flights /\ \A i \in DOMAIN flights : flights'[i] = flights[i]
    BY <1>4, SubmitMoves
  <2>4. Submission(flights'[last]) = s /\ flights'[last].name = dlg.name
    BY <1>4, SubmitMoves DEF Submission
  <2>5. ASSUME NEW i \in DOMAIN flights, Submission(flights[i]) = s, Exclusive(flights[i].name)
        PROVE  ~flights[i].waited
    <3>1. flights[i].name = dlg.name
      BY <2>5 DEF Opened, Submission
    <3> QED
      BY <1>4, <2>5, <3>1, SubmitsAfresh
  <2>6. ASSUME Exclusive(dlg.name), s \notin unsure
        PROVE  /\ commits[s] = 0
               /\ \A i \in DOMAIN flights : Submission(flights[i]) = s => ~flights[i].waited
    <3>1. \A i \in DOMAIN flights : Submission(flights[i]) = s => ~flights[i].waited
      BY <1>4, <2>6, SubmitsAfresh
    <3> QED
      BY <2>1, <2>6, <3>1 DEF NextUnsent, Unsent
  <2> HIDE DEF s, last
  <2>7. ASSUME NEW i \in DOMAIN flights, Exclusive(flights'[i].name),
               Submission(flights'[i]) \notin unsure'
        PROVE  /\ commits'[Submission(flights'[i])] <= 1
               /\ flights'[i].stage = "sent" => commits'[Submission(flights'[i])] = 0
               /\ \A j \in DOMAIN flights' :
                    Submission(flights'[i]) = Submission(flights'[j]) /\ flights'[i].waited
                      /\ flights'[j].waited => i = j
    BY <2>1, <2>2, <2>3, <2>4, <2>5, <2>7 DEF CarriedOut
  <2>8. ASSUME Exclusive(flights'[last].name), Submission(flights'[last]) \notin unsure'
        PROVE  /\ commits'[Submission(flights'[last])] <= 1
               /\ flights'[last].stage = "sent" => commits'[Submission(flights'[last])] = 0
               /\ \A j \in DOMAIN flights' :
                    Submission(flights'[last]) = Submission(flights'[j]) /\ flights'[last].waited
                      /\ flights'[j].waited => last = j
    BY <2>1, <2>2, <2>3, <2>4, <2>6, <2>8
  <2> QED
    BY <2>2, <2>7, <2>8 DEF CarriedOut
<1>5. ASSUME NEW k \in DOMAIN flights, CarryOut(k) PROVE CarriedOut'
  <2> DEFINE s == Submission(flights[k])
  <2>1. OnlyMoves(k) /\ flights'[k].stage = "done" /\ flights'[k].waited = flights[k].waited
    BY <1>5, CarryOutMoves
  <2>2. unsure' = unsure /\ flights[k].stage = "sent"
    BY <1>5 DEF CarryOut
  <2>3. \A i \in DOMAIN flights :
          /\ Submission(flights'[i]) = Submission(flights[i])
          /\ flights'[i].name = flights[i].name /\ flights'[i].waited = flights[i].waited
          /\ i # k => flights'[i].stage = flights[i].stage
    BY <2>1 DEF OnlyMoves, Same, Submission
  <2>4. ASSUME NEW i \in DOMAIN flights, Exclusive(flights[i].name),
               Submission(flights[i]) \notin unsure, Submission(flights[i]) = s
        PROVE  /\ commits'[s] <= 1
               /\ flights'[i].stage # "sent"
    <3>1. flights[i].name = flights[k].name
      BY <2>4 DEF OneWrite, Submission
    <3>2. commits[s] = 0
      BY <2>2, <2>4, <3>1 DEF CarriedOut
    <3>3. commits'[s] = 1
      BY <1>5, <3>2, CarryOutCommits
    <3>4. flights[k].waited
      BY <2>2, <2>4 DEF Awaited
    <3>5. CASE i # k /\ flights[i].stage = "sent"
      <4>1. flights[i].waited
        BY <2>4, <3>5 DEF Awaited
      <4> QED
        BY <2>4, <3>4, <3>5, <4>1 DEF CarriedOut
    <3> QED
      BY <2>1, <2>3, <3>3, <3>5
  <2>5. ASSUME NEW i \in DOMAIN flights, Submission(flights[i]) # s
        PROVE  commits'[Submission(flights[i])] = commits[Submission(flights[i])]
    BY <1>5, <2>5, SubmissionTyped, CarryOutCommits
  <2>6. DOMAIN flights' = DOMAIN flights
    BY <2>1 DEF OnlyMoves
  <2> HIDE DEF s
  <2>7. ASSUME NEW i \in DOMAIN flights, Exclusive(flights[i].name),
               Submission(flights[i]) \notin unsure
        PROVE  /\ commits'[Submission(flights[i])] <= 1
               /\ flights'[i].stage = "sent" => commits'[Submission(flights[i])] = 0
               /\ \A j \in DOMAIN flights :
                    Submission(flights[i]) = Submission(flights[j]) /\ flights[i].waited
                      /\ flights[j].waited => i = j
    <3>1. CASE Submission(flights[i]) = s
      BY <2>4, <2>7, <3>1 DEF CarriedOut
    <3>2. CASE Submission(flights[i]) # s
      <4>1. i # k
        BY <3>2 DEF s
      <4> QED
        BY <2>3, <2>5, <2>7, <3>2, <4>1 DEF CarriedOut
    <3> QED
      BY <3>1, <3>2
  <2> QED
    BY <2>2, <2>3, <2>6, <2>7 DEF CarriedOut
<1>6. ASSUME NEW k \in DOMAIN flights, Succeed(k) \/ Refused(k) \/ Lose(k) PROVE CarriedOut'
  <2>1. /\ OnlyMoves(k) /\ ~flights'[k].waited
        /\ flights'[k].stage = "sent" => flights[k].stage = "sent"
    BY <1>6, AnswerMoves
  <2>2. commits' = commits /\ unsure \subseteq unsure'
    BY <1>6, AnswerFrame
  <2>3. \A i \in DOMAIN flights :
          /\ Submission(flights'[i]) = Submission(flights[i])
          /\ flights'[i].name = flights[i].name
          /\ flights'[i].waited => flights[i].waited
          /\ flights'[i].stage = "sent" => flights[i].stage = "sent"
    BY <2>1 DEF OnlyMoves, Same, Submission
  <2>4. DOMAIN flights' = DOMAIN flights
    BY <2>1 DEF OnlyMoves
  <2> QED
    BY <2>2, <2>3, <2>4 DEF CarriedOut
<1>7. \A name \in Names : Open(name) \/ TimerFires(name) => flights' = flights /\ commits' = commits
  BY DEF Open, TimerFires
<1>8. Edit \/ Reseed \/ Refuse \/ Render \/ Cancel \/ Back
        => flights' = flights /\ commits' = commits
  BY DEF Edit, Reseed, Refuse, Render, Cancel, Back
<1> QED
  BY <1>1, <1>2, <1>3, <1>4, <1>5, <1>6, <1>7, <1>8 DEF Next

\* A form that was opened or filled anew was never sent.
LEMMA NeverSent ==
  ASSUME Structure, Sent, ~viewer.demo, NEW s \in Submissions,
         \A i \in DOMAIN flights : Submission(flights[i]) # s
  PROVE  commits[s] = 0
<1>1. commits[s] \in Nat
  BY DEF Structure, TypeOK
<1> QED
  BY <1>1 DEF Sent

LEMMA NextUnsentStays ==
  ASSUME Structure, OneAtATime, Held, Sent, CarriedOut, NextUnsent, Next
  PROVE  NextUnsent'
<1> USE DEF Structure
<1> SUFFICES ASSUME Unsent' PROVE commits'[<<dlg'.n, dlg'.edit>>] = 0
  BY DEF NextUnsent
<1>0. viewer' = viewer /\ unsure \subseteq unsure' /\ ~viewer.demo
  BY CommitSteps DEF Unsent
<1>1. ASSUME NEW name \in Names, Open(name)
      PROVE  commits'[<<dlg'.n, dlg'.edit>>] = 0
  <2>1. commits' = commits
    BY <1>1 DEF Open
  <2>2. dlg'.n = dlg.n + 1 /\ dlg'.edit = 0 /\ dlg' \in Dialogs
    BY <1>1, OpenFills
  <2>3. <<dlg.n + 1, 0>> \in Submissions
    <3>1. dlg'.n \in 0 .. MaxDialogs /\ dlg'.edit \in 0 .. MaxEdits
      BY <2>2 DEF Dialogs
    <3> QED
      BY <2>2, <3>1, Dialog DEF Submissions
  <2>4. \A i \in DOMAIN flights : Submission(flights[i]) # <<dlg.n + 1, 0>>
    BY Counted DEF Opened, Submission
  <2> QED
    BY <1>0, <2>1, <2>2, <2>3, <2>4, NeverSent
<1>2. CASE Edit \/ Reseed
  <2>1. commits' = commits
    BY <1>2 DEF Edit, Reseed
  <2>2. dlg'.n = dlg.n /\ dlg'.edit = dlg.edit + 1 /\ dlg' \in Dialogs /\ dlg.open
    BY <1>2, EditFills
  <2>3. <<dlg.n, dlg.edit + 1>> \in Submissions
    <3>1. dlg'.edit \in 0 .. MaxEdits
      BY <2>2 DEF Dialogs
    <3>2. dlg.n > 0
      BY <2>2 DEF OneDialog
    <3> QED
      BY <2>2, <3>1, <3>2, Dialog DEF Submissions
  <2>4. \A i \in DOMAIN flights : Submission(flights[i]) # <<dlg.n, dlg.edit + 1>>
    BY Counted DEF Opened, Submission
  <2> QED
    BY <1>0, <2>1, <2>2, <2>3, <2>4, NeverSent
<1>3. CASE Refuse \/ Render
  <2>1. flights' = flights /\ commits' = commits /\ unsure' = unsure /\ dlg.open
    BY <1>3 DEF Refuse, Render
  <2>2. SameForm /\ (dlg.said = "saved" => dlg'.said = "saved")
    BY <1>3, RefuseFills, RenderFills
  <2> QED
    BY <1>0, <2>1, <2>2 DEF SameForm, Unsent, NextUnsent, Submission
<1>4. CASE Submit
  <2>1. SameForm
    BY <1>4, SubmitFills
  <2>2. LET f == flights'[Len(flights) + 1]
        IN /\ Len(flights) + 1 \in DOMAIN flights' /\ f.waited
           /\ Submission(f) = <<dlg.n, dlg.edit>>
    BY <1>4, SubmitMoves DEF Submission
  <2> QED
    BY <2>1, <2>2 DEF SameForm, Unsent
<1>5. CASE SubmitInDemo
  BY <1>0, <1>5, DemoSends
<1>6. CASE Cancel \/ Back \/ Leave
  BY <1>6, CloseFills DEF Unsent
<1>7. ASSUME NEW name \in Names, TimerFires(name)
      PROVE  commits'[<<dlg'.n, dlg'.edit>>] = 0
  <2>1. flights' = flights /\ commits' = commits /\ unsure' = unsure
    BY <1>7 DEF TimerFires
  <2>2. SameForm /\ dlg'.said = dlg.said /\ (dlg'.open => dlg.open)
    BY <1>7, TimerFills
  <2> QED
    BY <1>0, <2>1, <2>2 DEF SameForm, Unsent, NextUnsent, Submission
<1>8. ASSUME NEW k \in DOMAIN flights, CarryOut(k)
      PROVE  commits'[<<dlg'.n, dlg'.edit>>] = 0
  <2> DEFINE s == <<dlg.n, dlg.edit>>
  <2>1. dlg' = dlg /\ unsure' = unsure /\ flights[k].stage = "sent"
    BY <1>8 DEF CarryOut
  <2>2. OnlyMoves(k) /\ flights'[k].waited = flights[k].waited
    BY <1>8, CarryOutMoves
  <2>3. \A i \in DOMAIN flights :
          i \in DOMAIN flights' /\ flights'[i].waited = flights[i].waited
          /\ Submission(flights'[i]) = Submission(flights[i])
    BY <2>2 DEF OnlyMoves, Same, Submission
  <2>4. \A i \in DOMAIN flights : flights[i].waited => Submission(flights[i]) # s
    BY <2>1, <2>3 DEF Unsent
  <2>5. commits[s] = 0
    BY <1>0, <2>1, <2>4 DEF Unsent, NextUnsent
  <2>6. Submission(flights[k]) # s
    BY <2>1, <2>4 DEF Unsent, Awaited
  <2>7. s \in Submissions
    BY <2>1, Dialog DEF Submissions, Unsent, OneDialog
  <2> QED
    BY <1>8, <2>1, <2>5, <2>6, <2>7, CarryOutCommits
<1>9. ASSUME NEW k \in DOMAIN flights, Succeed(k) \/ Refused(k) \/ Lose(k)
      PROVE  commits'[<<dlg'.n, dlg'.edit>>] = 0
  <2> DEFINE s == <<dlg.n, dlg.edit>>
  <2>1. OnlyMoves(k) /\ ~flights'[k].waited
    BY <1>9, AnswerMoves
  <2>2. SameForm /\ (dlg'.open => dlg.open) /\ commits' = commits /\ flights[k].waited
    <3>1. flights[k].waited
      BY <1>9 DEF Succeed, Refused, Lose
    <3> QED
      BY <1>9, <3>1, AnswerFrame, SucceedFills, RefusalFills
  <2>3. dlg.open /\ Exclusive(dlg.name) /\ s \notin unsure /\ s \notin unsure'
    BY <1>0, <2>2 DEF Unsent, SameForm
  <2>4. \A i \in DOMAIN flights : i # k => i \in DOMAIN flights' /\ flights'[i] = flights[i]
    BY <2>1 DEF OnlyMoves
  <2>5. \A i \in DOMAIN flights : i # k /\ flights[i].waited => Submission(flights[i]) # s
    BY <2>2, <2>4 DEF Unsent, SameForm, Submission
  <2>6. CASE Submission(flights[k]) = s
    <3>1. flights[k].name = dlg.name /\ flights[k].here
      BY <2>3, <2>6 DEF Opened, Submission
    <3>2. Shown(flights[k])
      BY <2>3, <3>1, SameDialogLaws DEF Shown
    <3>3. ~Succeed(k)
      BY <3>2, SucceedFills DEF Unsent
    <3>4. ~Lose(k)
      BY <2>3, <2>6 DEF Lose, Submission
    <3>5. flights[k].stage = "sent"
      BY <1>9, <3>3, <3>4 DEF Refused
    <3>6. commits[s] = 0
      BY <2>3, <2>6, <3>1, <3>5 DEF CarriedOut
    <3> QED
      BY <2>2, <3>6 DEF SameForm
  <2>7. CASE Submission(flights[k]) # s
    <3>1. dlg.said # "saved"
      <4>1. CASE Shown(flights[k])
        <5>1. Here(k)
          BY <2>2, <4>1 DEF Here, Shown
        <5> QED
          BY <2>3, <5>1 DEF OneAtATime
      <4>2. CASE ~Shown(flights[k])
        <5>1. dlg' = dlg
          BY <1>9, <4>2, SucceedFills, RefusalFills
        <5> QED
          BY <5>1 DEF Unsent
      <4> QED
        BY <4>1, <4>2
    <3>2. commits[s] = 0
      BY <1>0, <2>3, <2>5, <2>7, <3>1 DEF NextUnsent, Unsent
    <3> QED
      BY <2>2, <3>2 DEF SameForm
  <2> QED
    BY <2>6, <2>7
<1> QED
  BY <1>1, <1>2, <1>3, <1>4, <1>5, <1>6, <1>7, <1>8, <1>9 DEF Next

-----------------------------------------------------------------------------
(* Where the viewer is *)

\* The dialogs in the URL share with nobody.
LEMMA QueryAlone ==
  ASSUME NEW a, NEW b, SameDialog(a, b), Write[a].opens = "query"
  PROVE  a = b
BY SharedByState DEF SameDialog

LEMMA AtHomeStays ==
  ASSUME Structure, AtHome, Next
  PROVE  AtHome'
<1> USE DEF Structure
<1>1. CASE page' = page /\ flights' = flights /\ armed' \subseteq armed
           /\ SameForm /\ (dlg'.open => dlg.open)
  BY <1>1 DEF AtHome, SameForm
<1>2. ASSUME NEW name \in Names, Open(name) PROVE AtHome'
  <2>1. /\ flights' = flights /\ armed' = armed /\ page' = page
        /\ dlg'.name = name /\ Write[name].page = page
    BY <1>2, OpenFills DEF Open, Offered
  <2> QED
    BY <2>1 DEF AtHome
<1>3. CASE Edit \/ Reseed
  <2>1. flights' = flights /\ armed' = armed /\ page' = page
    BY <1>3 DEF Edit, Reseed
  <2>2. dlg'.name = dlg.name /\ dlg.open
    BY <1>3, EditFills
  <2> QED
    BY <2>1, <2>2 DEF AtHome
<1>4. CASE Submit
  <2>1. armed' = armed /\ page' = page /\ dlg.open
    BY <1>4 DEF Submit
  <2>2. SameForm
    BY <1>4, SubmitFills
  <2>3. \A i \in DOMAIN flights' :
          \/ flights'[i] = flights[i] /\ i \in DOMAIN flights
          \/ flights'[i].name = dlg.name
    BY <1>4, SubmitMoves
  <2> QED
    BY <2>1, <2>2, <2>3 DEF AtHome, SameForm
<1>5. CASE SubmitInDemo
  <2>1. page' = page /\ flights' = flights /\ armed' \subseteq armed \cup {dlg.name} /\ dlg.open
    BY <1>5 DEF SubmitInDemo
  <2>2. SameForm
    BY <1>5, DemoFills
  <2> QED
    BY <2>1, <2>2 DEF AtHome, SameForm
<1>6. CASE Leave
  <2>1. ~dlg'.open
    BY <1>6, CloseFills
  <2>2. \A i \in DOMAIN flights' : ~flights'[i].here
    BY <1>6, LeaveMoves
  <2>3. \A m \in armed' : m \in armed /\ m # dlg.name
    BY <1>6 DEF Leave
  <2>4. \A m \in armed' : Write[m].opens # "query"
    BY <2>3, QueryAlone DEF OneDialog
  <2> QED
    BY <2>1, <2>2, <2>4 DEF AtHome
<1>7. ASSUME NEW name \in Names, TimerFires(name), page' # page PROVE AtHome'
  <2>1. /\ name \in armed /\ armed' = armed \ {name} /\ flights' = flights
        /\ Write[name].opens = "query" /\ page' = Write[name].page
    BY <1>7 DEF TimerFires
  <2>2. dlg.name = name
    BY <2>1, QueryAlone DEF OneDialog
  <2>3. ~dlg'.open
    BY <1>7, <2>2, TimerFills, SameDialogLaws
  <2>4. \A m \in armed : m = name
    BY <2>1, <2>2, QueryAlone, SameDialogLaws DEF OneDialog
  <2>5. \A i \in DOMAIN flights : flights[i].name = name
    BY <2>1, <2>2, QueryAlone, SameDialogLaws DEF Opened
  <2> QED
    BY <2>1, <2>3, <2>4, <2>5 DEF AtHome
<1>8. ASSUME NEW i \in DOMAIN flights,
             CarryOut(i) \/ Succeed(i) \/ Refused(i) \/ Lose(i)
      PROVE  AtHome'
  <2>1. OnlyMoves(i) /\ SameForm /\ (dlg'.open => dlg.open) /\ page' = page
    <3>1. CASE CarryOut(i)
      BY <3>1, CarryOutMoves, Dialog DEF CarryOut, SameForm
    <3>2. CASE Succeed(i) \/ Refused(i) \/ Lose(i)
      <4>1. page' = page
        BY <3>2, AnswerFrame
      <4> QED
        BY <3>2, <4>1, AnswerMoves, SucceedFills, RefusalFills
    <3> QED
      BY <1>8, <3>1, <3>2
  <2>2. \A j \in DOMAIN flights' : j \in DOMAIN flights /\ flights'[j].name = flights[j].name
                                   /\ flights'[j].here = flights[j].here
    BY <2>1 DEF OnlyMoves, Same
  <2>3. \A m \in armed' : m \in armed \/ (m = flights[i].name /\ (flights[i].here \/ LeadsBack(m)))
    BY <1>8, AnswerFrame DEF Succeed
  <2>4. \A m \in armed' : Write[m].opens = "query" /\ ~OnFlow(m) => page = Write[m].page
    BY <2>3 DEF AtHome, LeadsBack
  <2> QED
    BY <2>1, <2>2, <2>4 DEF AtHome, SameForm
<1>9. CASE Refuse \/ Render \/ Cancel \/ Back
  <2>1. page' = page /\ flights' = flights /\ armed' \subseteq armed
    BY ZenonT(30), <1>9 DEF Refuse, Render, Cancel, Back, Closed
  <2>2. SameForm /\ (dlg'.open => dlg.open)
    BY <1>9, RefuseFills, RenderFills, CloseFills DEF Refuse, Render
  <2> QED
    BY <1>1, <2>1, <2>2
<1>10. ASSUME NEW name \in Names, TimerFires(name), page' = page PROVE AtHome'
  <2>1. flights' = flights /\ armed' \subseteq armed
    BY <1>10 DEF TimerFires
  <2> QED
    BY <1>1, <1>10, <2>1, TimerFills
<1> QED
  BY <1>2, <1>3, <1>4, <1>5, <1>6, <1>7, <1>8, <1>9, <1>10 DEF Next

-----------------------------------------------------------------------------
(* What is stale *)

LEMMA AccountedStays ==
  ASSUME Structure, Accounted, Next
  PROVE  Accounted'
<1> USE DEF Structure
<1>1. CASE unsure' # {}
  BY <1>1 DEF Accounted
<1>2. CASE unsure' = {} /\ stale' = stale /\ ~\E k \in DOMAIN flights : Succeed(k) \/ CarryOut(k)
  <2>1. unsure = {}
    BY <1>2, CommitSteps
  <2>2. \A i \in DOMAIN flights :
          /\ i \in DOMAIN flights' /\ flights'[i].name = flights[i].name
          /\ flights[i].stage = "done" => flights'[i].stage = "done"
    <3>1. CASE Submit
      BY <3>1, SubmitMoves
    <3>2. CASE Leave
      BY <3>2, LeaveMoves DEF Same
    <3>3. ASSUME NEW k \in DOMAIN flights, Refused(k)
          PROVE  /\ \A i \in DOMAIN flights :
                      /\ i \in DOMAIN flights' /\ flights'[i].name = flights[i].name
                      /\ flights[i].stage = "done" => flights'[i].stage = "done"
      <4>1. OnlyMoves(k) /\ flights[k].stage = "sent"
        BY <3>3, AnswerMoves DEF Refused
      <4> QED
        BY <4>1 DEF OnlyMoves, Same
    <3>4. ASSUME NEW k \in DOMAIN flights, Lose(k) PROVE FALSE
      BY <1>2, <3>4 DEF Lose
    <3>5. CASE flights' = flights
      BY <3>5
    <3>6. \A name \in Names : Open(name) \/ TimerFires(name) => flights' = flights
      BY DEF Open, TimerFires
    <3>7. Edit \/ Reseed \/ Refuse \/ Render \/ SubmitInDemo \/ Cancel \/ Back => flights' = flights
      BY DEF Edit, Reseed, Refuse, Render, SubmitInDemo, Cancel, Back
    <3> QED
      BY <1>2, <3>1, <3>2, <3>3, <3>4, <3>5, <3>6, <3>7 DEF Next
  <2> QED
    BY <1>2, <2>1, <2>2 DEF Accounted
<1>3. ASSUME NEW k \in DOMAIN flights, CarryOut(k) PROVE Accounted'
  <2>1. OnlyMoves(k) /\ flights'[k].stage = "done"
    BY <1>3, CarryOutMoves
  <2>2. unsure' = unsure /\ stale' = stale \cup Write[flights[k].name].route.changes
        /\ flights[k].stage = "sent"
    BY <1>3 DEF CarryOut
  <2>3. flights'[k].name = flights[k].name
    BY <2>1 DEF OnlyMoves, Same
  <2>4. \A i \in DOMAIN flights : i \in DOMAIN flights' /\ (i # k => flights'[i] = flights[i])
    BY <2>1 DEF OnlyMoves
  <2> QED
    BY <2>1, <2>2, <2>3, <2>4 DEF Accounted
<1>4. ASSUME NEW k \in DOMAIN flights, Succeed(k) PROVE Accounted'
  <2>1. OnlyMoves(k)
    BY <1>4, AnswerMoves
  <2>2. unsure' = unsure /\ stale' = stale \ Write[flights[k].name].refreshes
    BY <1>4 DEF Succeed
  <2>3. flights'[k].name = flights[k].name
    BY <2>1 DEF OnlyMoves, Same
  <2>4. \A i \in DOMAIN flights : i \in DOMAIN flights' /\ (i # k => flights'[i] = flights[i])
    BY <2>1 DEF OnlyMoves
  <2>5. \A r \in Write[flights[k].name].route.changes :
          r \in Write[flights[k].name].refreshes \/ r \in Lags(flights[k].name)
    BY Requests, AllCovered DEF Flights, Covered
  <2> QED
    BY <2>2, <2>3, <2>4, <2>5 DEF Accounted
<1>5. \/ stale' = stale
      \/ \E k \in DOMAIN flights : CarryOut(k) \/ Succeed(k)
  BY FormFrame, AnswerFrame, WayOutFrame DEF Next
<1> QED
  BY <1>1, <1>2, <1>3, <1>4, <1>5

-----------------------------------------------------------------------------
(* The invariant holds *)

WritesInv ==
  /\ Structure
  /\ OneAtATime /\ Held
  /\ Sent /\ CarriedOut /\ NextUnsent
  /\ AtHome
  /\ Accounted

LEMMA WritesInit == Init => WritesInv
<1> SUFFICES ASSUME Init PROVE WritesInv
  OBVIOUS
<1>1. DOMAIN flights = {} /\ flights \in Seq(Flights)
  BY DEF Init
<1>2. dlg = NoDialog /\ armed = {} /\ stale = {} /\ unsure = {}
  BY DEF Init
<1>3. commits = [s \in Submissions |-> 0]
  BY DEF Init
<1>4. dlg \in Dialogs
  <2>1. 0 \in 0 .. MaxDialogs /\ 0 \in 0 .. MaxEdits
    BY WritesAssumption
  <2> QED
    BY <1>2, <2>1 DEF NoDialog, Dialogs
<1>5. ~dlg.open /\ dlg.n = 0 /\ dlg.first = 0 /\ dlg.edit = 0
  BY <1>2 DEF NoDialog
<1>6. TypeOK
  BY <1>1, <1>2, <1>3, <1>4 DEF TypeOK, Init
<1>7. Structure
  BY <1>1, <1>2, <1>5, <1>6 DEF Structure, OneDialog, Placed, Opened, OneWrite, Awaited
<1>8. OneAtATime /\ Held /\ CarriedOut /\ NextUnsent /\ AtHome /\ Accounted
  BY <1>1, <1>2, <1>5 DEF OneAtATime, Held, CarriedOut, NextUnsent, Unsent, AtHome, Accounted
<1>9. Sent
  BY <1>1, <1>3 DEF Sent
<1> QED
  BY <1>7, <1>8, <1>9 DEF WritesInv

LEMMA WritesNext == WritesInv /\ [Next]_vars => WritesInv'
<1> SUFFICES ASSUME WritesInv, [Next]_vars PROVE WritesInv'
  OBVIOUS
<1> USE DEF WritesInv
<1>1. CASE Next
  <2>1. Structure'
    BY <1>1, TypeStays, OneDialogStays, PlacedStays, OpenedStays, OneWriteStays, AwaitedStays
    DEF Structure
  <2> QED
    BY <1>1, <2>1, OneAtATimeStays, HeldStays, SentStays, CarriedOutStays, NextUnsentStays,
       AtHomeStays, AccountedStays
<1>2. CASE UNCHANGED vars
  BY <1>2 DEF vars, Structure, TypeOK, OneDialog, Placed, Opened, OneWrite, Awaited, OneAtATime,
              Held, Here, Sent, CarriedOut, NextUnsent, Unsent, AtHome, Accounted,
              Submission
<1> QED
  BY <1>1, <1>2

LEMMA WritesInvariant == Spec => []WritesInv
BY WritesInit, WritesNext, PTL DEF Spec

-----------------------------------------------------------------------------
(* Theorems *)

\* Nobody is offered a write, or shown a read, that the server answers with
\* 403: what a page asks for covers what the route needs, whatever was granted
\* to a member beyond the role (useWorkspacePermissions, RequirePermission).
THEOREM NobodyIsRefused == Spec => []OfferedIsAllowed
<1>1. WritesInv => OfferedIsAllowed
  <2> SUFFICES ASSUME viewer \in Viewers, page \in Pages, ~viewer.demo
               PROVE  /\ \A name \in Names \ Ungated :
                           Offered(name) => Write[name].route.needs \subseteq viewer.may
                      /\ \A panel \in VisiblePanels : \A r \in panel.reads :
                           ReadNeeds(r) \subseteq viewer.may
    BY DEF OfferedIsAllowed, WritesInv, Structure, TypeOK
  <2>1. Views \subseteq viewer.may
    BY MembersView
  <2>2. ASSUME NEW name \in Names \ Ungated, Offered(name)
        PROVE  Write[name].route.needs \subseteq viewer.may
    <3>1. Write[name].gate \subseteq viewer.may
      BY <2>2 DEF Offered, Allowed
    <3> QED
      BY <2>1, <3>1, AllCovered DEF Covered
  <2>3. ASSUME NEW panel \in VisiblePanels, NEW r \in panel.reads
        PROVE  ReadNeeds(r) \subseteq viewer.may
    <3>1. panel \in PanelsOf(page, viewer.demo) \cup Shell /\ panel.gate \subseteq viewer.may
      BY DEF VisiblePanels, Allowed
    <3>2. viewer.demo = FALSE
      BY WritesAssumption
    <3>3. Readable(panel)
      BY <3>1, <3>2, AllReadable
    <3> QED
      BY <2>1, <3>1, <3>3 DEF Readable
  <2> QED
    BY <2>2, <2>3
<1> QED
  BY <1>1, WritesInvariant, PTL

\* A submission is carried out once, however often it is clicked and however
\* its answer is delayed: with one key per dialog always, and where the lock of
\* useWriteFlow or a busy state lets one request go at a time unless its answer
\* was lost.
THEOREM SubmissionsApplyOnce == Spec => []AppliedOnce
<1>1. WritesInv => AppliedOnce
  <2> SUFFICES ASSUME Structure, Sent, CarriedOut, NEW i \in DOMAIN flights,
                      commits[Submission(flights[i])] > 1
               PROVE  /\ Write[flights[i].name].key # "dialog"
                      /\ Exclusive(flights[i].name) => Submission(flights[i]) \in unsure
    BY DEF AppliedOnce, WritesInv, Submission
  <2>1. commits[Submission(flights[i])] \in Nat
    BY SubmissionTyped DEF Structure, TypeOK
  <2>2. ~(commits[Submission(flights[i])] <= 1)
    BY <2>1
  <2> QED
    BY <2>2 DEF Sent, CarriedOut
<1> QED
  BY <1>1, WritesInvariant, PTL

\* The answer that changes a dialog was asked for by that opening of it, where
\* the dialog is held while it is busy and no URL closes it.
THEOREM AnswersToTheirOwn == Spec => OwnAnswers
<1>1. ASSUME WritesInv, [Next]_vars, NEW k \in DOMAIN flights,
             flights[k].waited, ~flights'[k].waited, dlg' # dlg, Alone(dlg.name)
      PROVE  flights[k].n = dlg.n
  <2> USE DEF WritesInv, Structure
  <2>1. Next
    BY <1>1 DEF vars
  <2>2. ASSUME NEW i \in DOMAIN flights, Succeed(i) \/ Refused(i) \/ Lose(i)
        PROVE  flights[k].n = dlg.n
    <3>1. i = k
      BY <1>1, <2>2, AnswerMoves DEF OnlyMoves
    <3>2. Shown(flights[k])
      BY <1>1, <2>2, <3>1, SucceedFills, RefusalFills
    <3> QED
      BY <1>1, <3>2 DEF Shown, Held, Here
  <2>3. ASSUME NEW i \in DOMAIN flights, CarryOut(i) PROVE FALSE
    BY <1>1, <2>3 DEF CarryOut
  <2>4. ~Submit /\ ~Leave
    BY <1>1, SubmitMoves, LeaveMoves
  <2>5. flights' # flights
    BY <1>1
  <2>6. \A name \in Names : Open(name) \/ TimerFires(name) => flights' = flights
    BY SMTT(30) DEF Open, TimerFires
  <2>7. Edit \/ Reseed \/ Refuse \/ Render \/ SubmitInDemo \/ Cancel \/ Back => flights' = flights
    BY DEF Edit, Reseed, Refuse, Render, SubmitInDemo, Cancel, Back
  <2> QED
    BY <2>1, <2>2, <2>3, <2>4, <2>5, <2>6, <2>7 DEF Next
<1>2. WritesInv /\ [Next]_vars =>
        [\A i \in DOMAIN flights :
           /\ flights[i].waited /\ ~flights'[i].waited /\ dlg' /= dlg /\ Alone(dlg.name)
           => flights[i].n = dlg.n]_vars
  BY <1>1
<1> QED
  BY <1>2, WritesInvariant, PTL DEF Spec, OwnAnswers

\* A save that is confirmed after its page was left moves nobody, except for
\* the dialogs that useWriteFlow opens by the URL.
THEOREM ViewersStayAway == Spec => StaysAway
<1>1. ASSUME WritesInv, NEW name \in Names, TimerFires(name), page' # page
      PROVE  OnFlow(name)
  <2>1. name \in armed /\ Write[name].opens = "query" /\ page' = Write[name].page
    BY <1>1 DEF TimerFires
  <2> QED
    BY <1>1, <2>1 DEF WritesInv, AtHome
<1>2. WritesInv /\ [Next]_vars =>
        [\A name \in Names : TimerFires(name) /\ page' /= page => OnFlow(name)]_vars
  BY <1>1
<1> QED
  BY <1>2, WritesInvariant, PTL DEF Spec, StaysAway

\* What says that it saved, and closes by a timer, has its timer running: no
\* step leaves it open for good (useWriteFlow, the setTimeout of each page).
SavedRunsOut ==
  dlg.open /\ dlg.said = "saved" /\ Write[dlg.name].ends = "timer" => dlg.name \in armed

\* What is opened, filled or submitted anew does not say that it saved.
LEMMA NotYetSaved ==
  ASSUME TypeOK, OneDialog,
         (\E name \in Names : Open(name)) \/ Edit \/ Reseed \/ Refuse \/ Submit
  PROVE  dlg'.said # "saved"
<1>1. ASSUME NEW name \in Names, Open(name) PROVE dlg'.said # "saved"
  BY Zenon, <1>1, OpenFills
<1>2. CASE Edit \/ Reseed
  BY Zenon, <1>2, EditFills
<1>3. CASE Refuse
  BY Zenon, <1>3, RefuseFills
<1>4. CASE Submit
  BY Zenon, <1>4, SubmitFills
<1> QED
  BY <1>1, <1>2, <1>3, <1>4

\* In the demo it is the submission that saves and sets the timer.
LEMMA SavedInDemo ==
  ASSUME SubmitInDemo
  PROVE  /\ Write[dlg.name].ends = "timer" => armed' = armed \cup {dlg.name}
         /\ Write[dlg.name].ends # "timer" => dlg'.said # "saved"
<1>1. /\ Write[dlg.name].ends = "timer" => armed' = armed \cup {dlg.name}
      /\ Write[dlg.name].ends # "timer" =>
           dlg.said # "saved" /\ \E b \in BOOLEAN : dlg' = [dlg EXCEPT !.open = b]
  BY DEF SubmitInDemo
<1>2. ASSUME NEW b \in BOOLEAN, dlg' = [dlg EXCEPT !.open = b] PROVE dlg'.said = dlg.said
  BY <1>2
<1> QED
  BY <1>1, <1>2

\* A saved dialog that a timer is to close stays open only as long as that timer
\* runs, whatever else is submitted, answered or closed meanwhile.
THEOREM SavedDialogsRunOut == Spec => []SavedRunsOut
<1>1. Init => SavedRunsOut
  <2>1. Init => dlg = NoDialog
    BY DEF Init
  <2>2. ~NoDialog.open
    BY DEF NoDialog
  <2> QED
    BY <2>1, <2>2 DEF SavedRunsOut
<1>2. ASSUME TypeOK, OneDialog, SavedRunsOut, Next PROVE SavedRunsOut'
  <2>1. ASSUME dlg'.name = dlg.name, dlg'.open => dlg.open, dlg'.said = dlg.said,
               armed \subseteq armed'
        PROVE  SavedRunsOut'
    BY <1>2, <2>1 DEF SavedRunsOut
  <2>2. CASE dlg'.said # "saved" \/ ~dlg'.open
    BY <2>2 DEF SavedRunsOut
  <2>3. CASE (\E name \in Names : Open(name)) \/ Edit \/ Reseed \/ Refuse \/ Submit
    BY <1>2, <2>2, <2>3, NotYetSaved
  <2>4. CASE Render
    BY <1>2, <2>1, <2>4, RenderFills, FormFrame DEF Render, SameForm
  <2>5. CASE SubmitInDemo
    <3>1. dlg'.name = dlg.name
      BY <1>2, <2>5, DemoFills DEF SameForm
    <3> QED
      BY <2>5, <3>1, SavedInDemo DEF SavedRunsOut
  <2>6. CASE Cancel \/ Back \/ Leave
    BY <1>2, <2>2, <2>6, CloseFills
  <2>7. ASSUME NEW name \in Names, TimerFires(name) PROVE SavedRunsOut'
    <3>1. CASE name = dlg.name
      BY <1>2, <2>2, <2>7, <3>1, TimerFills, SameDialogLaws
    <3>2. CASE name # dlg.name
      <4>1. armed' = armed \ {name}
        BY <2>7 DEF TimerFires
      <4>2. dlg'.name = dlg.name /\ dlg'.said = dlg.said /\ (dlg'.open => dlg.open)
        BY <1>2, <2>7, TimerFills DEF SameForm
      <4> QED
        BY <1>2, <3>2, <4>1, <4>2 DEF SavedRunsOut
    <3> QED
      BY <3>1, <3>2
  <2>8. ASSUME NEW i \in DOMAIN flights, CarryOut(i) \/ Refused(i) \/ Lose(i)
        PROVE  SavedRunsOut'
    <3>1. armed' = armed
      BY <2>8, AnswerFrame
    <3>2. CASE dlg' = dlg
      BY <1>2, <3>1, <3>2 DEF SavedRunsOut
    <3>3. dlg' = dlg \/ dlg'.said # "saved"
      BY <1>2, <2>8, AnswerFrame, RefusalFills
    <3> QED
      BY <2>2, <3>2, <3>3
  <2>9. ASSUME NEW i \in DOMAIN flights, Succeed(i) PROVE SavedRunsOut'
    <3>1. dlg'.name = dlg.name /\ (~Shown(flights[i]) => dlg' = dlg)
      BY <1>2, <2>9, SucceedFills DEF SameForm
    <3>2. CASE ~Shown(flights[i])
      <4>1. armed \subseteq armed'
        BY <2>9, AnswerFrame
      <4> QED
        BY <1>2, <3>1, <3>2, <4>1 DEF SavedRunsOut
    <3>3. CASE Shown(flights[i]) /\ Write[dlg.name].ends = "timer"
      <4>1. flights[i].name = dlg.name /\ flights[i].here
        BY <3>3, TimedAlone DEF Shown
      <4>2. armed' = armed \cup {dlg.name}
        BY <2>9, <3>3, <4>1 DEF Succeed
      <4> QED
        BY <3>1, <4>2 DEF SavedRunsOut
    <3>4. CASE Write[dlg.name].ends # "timer"
      BY <3>1, <3>4 DEF SavedRunsOut
    <3> QED
      BY <3>2, <3>3, <3>4
  <2> QED
    BY <1>2, <2>3, <2>4, <2>5, <2>6, <2>7, <2>8, <2>9 DEF Next
<1>3. SavedRunsOut /\ UNCHANGED vars => SavedRunsOut'
  BY DEF vars, SavedRunsOut
<1>4. WritesInv /\ SavedRunsOut /\ [Next]_vars => SavedRunsOut'
  BY <1>2, <1>3 DEF WritesInv, Structure
<1> QED
  BY <1>1, <1>4, WritesInvariant, PTL DEF Spec

\* Once everything is answered, the reads that differ from the server's are the
\* ones a success leaves: each write lists, or names among the rest, what its
\* route changes.
THEOREM SettledReadsAreFresh == Spec => []SettledIsFresh
<1>1. WritesInv => SettledIsFresh
  <2> SUFFICES ASSUME Structure, Accounted, unsure = {},
                      \A i \in DOMAIN flights : ~flights[i].waited,
                      NEW r \in stale
               PROVE  \E i \in DOMAIN flights : r \in Lags(flights[i].name)
    BY DEF WritesInv, SettledIsFresh
  <2>1. \A i \in DOMAIN flights : flights[i].stage = "gone"
    BY DEF Structure, Awaited
  <2> QED
    BY <2>1 DEF Accounted
<1> QED
  BY <1>1, WritesInvariant, PTL

-----------------------------------------------------------------------------
(* The transactions page *)

Contents == SUBSET (Fields \cup {"gone"})
Answers == UNION {[T -> Contents] : T \in SUBSET Transactions}

Remembered ==
  [has : BOOLEAN, data : Answers, failed : BOOLEAN, stage : {"idle", "sent", "read"},
   coming : Answers]

Copies == {NoCopy} \cup [id : Transactions, content : Contents]

Urls == {Elsewhere} \cup {Page(f, r) : f \in Filters, r \in Transactions \cup {None}}

Saves ==
  [stage : {"idle", "sent", "done"}, id : Transactions \cup {None}, content : Contents,
   left : BOOLEAN]

Removals ==
  [stage : {"idle", "sent", "done", "refreshing"}, id : Transactions \cup {None}, from : Urls,
   left : BOOLEAN, moved : BOOLEAN]

ListTyped ==
  /\ server \in [Transactions -> Contents]
  /\ cache \in [Reads -> Remembered] /\ watch \subseteq Reads
  /\ url \in Urls /\ past \in Seq(Urls)
  /\ selected \in Copies /\ editing \in Copies
  /\ save \in Saves /\ (save.stage /= "idle" => save.id \in Transactions)
  /\ removal \in Removals /\ (removal.stage /= "idle" => removal.id \in Transactions)
  /\ mishaps \in Nat

\* The details of a record are of that record.
Detailed ==
  \A t \in Transactions :
    /\ DOMAIN cache[t].coming \subseteq {t}
    /\ cache[t].has => t \in DOMAIN cache[t].data

\* Only the page has a drawer.
OnPage == selected /= NoCopy => url.place = "transactions"

\* A read that the page watches has come, or failed, or is on its way.
Watched == \A k \in watch : cache[k].stage = "idle" => cache[k].has \/ cache[k].failed

\* A deletion whose drawer stays is where it was started.
Stays ==
  (removal.stage /= "idle" /\ ~removal.left /\ ~removal.moved /\ removal.from.record = removal.id)
    => url = removal.from /\ selected.id = removal.id

ListingInv == ListTyped /\ Detailed /\ OnPage /\ Watched /\ Stays

\* What is assumed of the constants.
LEMMA Apart ==
  /\ None \notin Transactions /\ Filters \cap Transactions = {}
  /\ Everything \in Filters
  /\ \A f \in Filters : Matches[f] \subseteq Transactions
BY ListingAssumption

\* Every empty value has its type.
LEMMA NothingTyped ==
  /\ {} \in Contents /\ Gone \in Contents /\ <<>> \in Answers
  /\ Missing \in Remembered /\ NoCopy \in Copies /\ NoSave \in Saves
  /\ Elsewhere \in Urls /\ NoRemoval \in Removals
<1>1. <<>> \in [{} -> Contents]
  OBVIOUS
<1>2. {} \in Contents /\ Gone \in Contents /\ <<>> \in Answers
  BY <1>1 DEF Answers, Contents, Gone
<1>3. Missing \in Remembered
  BY <1>2 DEF Missing, Remembered
<1>4. NoCopy \in Copies /\ NoSave \in Saves
  BY <1>2 DEF Copies, NoSave, Saves
<1>5. Elsewhere \in Urls /\ NoRemoval \in Removals
  BY DEF Urls, NoRemoval, Removals
<1> QED
  BY <1>2, <1>3, <1>4, <1>5

LEMMA AnswerLaws ==
  \A a \in Answers : DOMAIN a \subseteq Transactions /\ \A t \in DOMAIN a : a[t] \in Contents
BY DEF Answers

LEMMA EmptyAnswer == \A a \in Answers : DOMAIN a = {} => a = <<>>
<1> SUFFICES ASSUME NEW a \in Answers, DOMAIN a = {} PROVE a = <<>>
  OBVIOUS
<1>1. a = [x \in {} |-> a[x]]
  BY DEF Answers
<1>2. <<>> = [x \in {} |-> a[x]]
  OBVIOUS
<1> QED
  BY <1>1, <1>2

\* A URL stays one when its record or its filter changes.
LEMMA UrlLaws ==
  ASSUME NEW u \in Urls
  PROVE  /\ u.filter \in Filters /\ u.record \in Transactions \cup {None}
         /\ u.place \in {"transactions", "elsewhere"}
         /\ [u EXCEPT !.record = None] \in Urls
         /\ [u EXCEPT !.record = None].place = u.place
         /\ u.place = "elsewhere" => u.record = None
         /\ u.place = "transactions" =>
              /\ \A r \in Transactions \cup {None} : [u EXCEPT !.record = r] \in Urls
              /\ \A f \in Filters : [u EXCEPT !.filter = f] \in Urls
<1>1. CASE u = Elsewhere
  <2>1. [u EXCEPT !.record = None] = Elsewhere
    BY <1>1 DEF Elsewhere
  <2> QED
    BY <1>1, <2>1, Apart DEF Elsewhere, Urls
<1>2. CASE u /= Elsewhere
  <2>1. PICK f \in Filters, r \in Transactions \cup {None} : u = Page(f, r)
    BY <1>2 DEF Urls
  <2>2. \A s : [u EXCEPT !.record = s] = Page(f, s)
    BY <2>1 DEF Page
  <2>3. \A g : [u EXCEPT !.filter = g] = Page(g, r)
    BY <2>1 DEF Page
  <2>4. \A g \in Filters, s \in Transactions \cup {None} : Page(g, s) \in Urls
    BY DEF Urls
  <2>5. /\ u.filter = f /\ u.record = r /\ u.place = "transactions"
        /\ Page(f, None).place = "transactions"
    BY <2>1 DEF Page
  <2> QED
    BY <2>2, <2>3, <2>4, <2>5
<1> QED
  BY <1>1, <1>2

LEMMA PushTyped ==
  ASSUME ListTyped, NEW next \in Urls, Push(next)
  PROVE  past' \in Seq(Urls) /\ url' = next
BY ListingAssumption DEF Push, ListTyped

LEMMA BackTyped ==
  ASSUME ListTyped, GoBack
  PROVE  past' \in Seq(Urls) /\ url' \in Urls
<1>1. past \in Seq(Urls) /\ past /= <<>> /\ Len(past) \in Nat /\ Len(past) > 0
  BY DEF ListTyped, GoBack
<1>2. past[Len(past)] \in Urls
  BY <1>1
<1>3. SubSeq(past, 1, Len(past) - 1) \in Seq(Urls)
  BY <1>1, SubSeqProperties
<1> QED
  BY <1>2, <1>3 DEF GoBack

\* What the page found is a copy of the record asked for.
LEMMA FoundLaws ==
  ASSUME ListTyped, Detailed
  PROVE  /\ Found \in Copies
         /\ Found /= NoCopy => Found.id = url.record /\ url.record \in Transactions
         /\ ShownAnew \in {NoCopy, selected, Found}
         /\ ShownAnew \in Copies
<1>1. url.record \in Transactions \cup {None} /\ url.filter \in Filters
  BY UrlLaws DEF ListTyped
<1>2. /\ Found \in Copies
      /\ Found /= NoCopy => Found.id = url.record /\ url.record \in Transactions
  <2>1. ASSUME url.record /= None, cache[Source(url.record)].has
        PROVE  cache[Source(url.record)].data[url.record] \in Contents
    <3>1. url.record \in DOMAIN cache[Source(url.record)].data
      BY <1>1, <2>1 DEF Source, Listed, Detailed
    <3>2. cache[Source(url.record)] \in Remembered
      BY <1>1, <2>1 DEF Source, ListTyped, Reads
    <3> QED
      BY <3>1, <3>2, AnswerLaws DEF Remembered
  <2> QED
    BY <1>1, <2>1, NothingTyped DEF Found, Copies
<1> QED
  BY <1>2, NothingTyped DEF ShownAnew, ListTyped

-----------------------------------------------------------------------------
(* The reads *)

\* The cache after a step that neither loses nor mistakes a read.
Kept == cache' \in [Reads -> Remembered] /\ Detailed' /\ Watched'

\* What comes into view is fetched.
LEMMA ObserveKeeps ==
  ASSUME ListingInv, Observe PROVE Kept /\ watch' \subseteq Reads
<1>1. Wanted \subseteq Reads
  BY UrlLaws DEF Wanted, Reads, ListingInv, ListTyped
<1>2. PICK dropped \in SUBSET (Wanted \ watch) :
        cache' = [k \in Reads |->
          IF k \in Wanted \ watch /\ cache[k].stage = "idle"
          THEN [(IF k \in dropped THEN Missing ELSE cache[k]) EXCEPT !.stage = "sent"]
          ELSE cache[k]]
  BY DEF Observe
<1>3. ASSUME NEW k \in Reads
      PROVE  /\ cache'[k] \in Remembered
             /\ cache'[k].coming \in {cache[k].coming, <<>>}
             /\ cache'[k].has => cache[k].has /\ cache'[k].data = cache[k].data
             /\ k \in Wanted \ watch => cache'[k].stage /= "idle"
             /\ k \notin Wanted \ watch => cache'[k] = cache[k]
  <2>1. cache[k] \in Remembered /\ Missing \in Remembered
    BY NothingTyped DEF ListingInv, ListTyped
  <2>2. cache'[k] \in {cache[k], [cache[k] EXCEPT !.stage = "sent"],
                       [Missing EXCEPT !.stage = "sent"]}
    BY <1>2
  <2>3. CASE k \in Wanted \ watch /\ cache[k].stage = "idle"
    <3>1. cache'[k] \in {[cache[k] EXCEPT !.stage = "sent"], [Missing EXCEPT !.stage = "sent"]}
      BY <1>2, <2>3
    <3>2. <<>> \in Answers /\ Missing.has = FALSE /\ Missing.coming = <<>>
      BY NothingTyped DEF Missing
    <3>3. \A e \in Remembered :
            LET f == [e EXCEPT !.stage = "sent"]
            IN f \in Remembered /\ f.stage = "sent" /\ f.has = e.has /\ f.data = e.data
               /\ f.coming = e.coming
      BY DEF Remembered
    <3> QED
      BY ZenonT(30), <2>1, <2>3, <3>1, <3>2, <3>3
  <2>4. CASE ~(k \in Wanted \ watch /\ cache[k].stage = "idle")
    <3>1. cache'[k] = cache[k]
      BY <1>2, <2>4
    <3> QED
      BY <2>1, <2>4, <3>1
  <2> QED
    BY <2>3, <2>4
<1>4. cache' \in [Reads -> Remembered]
  BY <1>2, <1>3
<1>5. DOMAIN <<>> = {}
  OBVIOUS
<1>6. Detailed'
  BY <1>3, <1>5 DEF Detailed, ListingInv, Reads
<1>7. Watched'
  BY <1>1, <1>3 DEF Watched, ListingInv, Observe
<1> QED
  BY <1>1, <1>4, <1>6, <1>7 DEF Kept, Observe

\* A read that moves on without becoming idle.
LEMMA StageKeeps ==
  ASSUME ListingInv, watch' = watch,
         cache' \in [Reads -> Remembered],
         \A k \in Reads :
           \/ cache'[k] = cache[k]
           \/ /\ cache'[k].stage = "idle" => cache'[k].has \/ cache'[k].failed
              /\ DOMAIN cache'[k].coming \subseteq {k} \/ k \notin Transactions
              /\ k \in Transactions /\ cache'[k].has => k \in DOMAIN cache'[k].data
  PROVE  Kept
<1>1. Detailed'
  BY DEF Detailed, ListingInv, Reads
<1>2. Watched'
  BY DEF Watched, ListingInv, ListTyped
<1> QED
  BY <1>1, <1>2 DEF Kept

LEMMA ReadingKeeps ==
  ASSUME ListingInv, NEW k \in Reads, Reading(k) PROVE Kept
<1> DEFINE c == cache[k]
<1>1. /\ c \in Remembered /\ watch' = watch
      /\ k \in Transactions => DOMAIN c.coming \subseteq {k} /\ (c.has => k \in DOMAIN c.data)
  BY DEF Reading, Serve, Arrive, FailRead, ListingInv, ListTyped, Detailed
<1>2. ASSUME NEW e \in Remembered, cache' = [cache EXCEPT ![k] = e],
             e.stage = "idle" => e.has \/ e.failed,
             k \in Transactions => DOMAIN e.coming \subseteq {k},
             k \in Transactions /\ e.has => k \in DOMAIN e.data
      PROVE  Kept
  <2>1. cache' \in [Reads -> Remembered] /\ cache'[k] = e
    BY <1>2 DEF ListingInv, ListTyped
  <2>2. \A j \in Reads : j /= k => cache'[j] = cache[j]
    BY <1>2 DEF ListingInv, ListTyped
  <2> QED
    BY <1>1, <1>2, <2>1, <2>2, StageKeeps
<1>3. CASE Serve(k)
  <2> DEFINE found == {t \in (IF k \in Filters THEN Matches[k] ELSE {k}) : server[t] /= Gone}
             answer == [t \in found |-> server[t]]
             e == [c EXCEPT !.stage = "read", !.coming = answer]
  <2>1. found \subseteq Transactions /\ (k \in Transactions => found \subseteq {k})
    BY Apart DEF Reads
  <2>2. answer \in [found -> Contents]
    BY <2>1 DEF ListingInv, ListTyped
  <2>3. answer \in Answers /\ DOMAIN answer = found
    BY <2>1, <2>2 DEF Answers
  <2> HIDE DEF answer
  <2>4. /\ e \in Remembered /\ e.coming = answer
        /\ e.stage = "read" /\ e.has = c.has /\ e.data = c.data
    BY <1>1, <2>3 DEF Remembered
  <2>5. cache' = [cache EXCEPT ![k] = e]
    BY <1>3 DEF Serve, answer
  <2> HIDE DEF e, found
  <2> QED
    BY <1>1, <1>2, <2>1, <2>3, <2>4, <2>5
<1>4. CASE Arrive(k)
  <2> DEFINE e == [c EXCEPT !.stage = "idle", !.coming = <<>>]
             come == [e EXCEPT !.has = TRUE, !.data = c.coming, !.failed = FALSE]
             gone == [e EXCEPT !.failed = TRUE]
  <2>1. <<>> \in Answers /\ DOMAIN <<>> = {}
    BY NothingTyped
  <2>2. /\ come \in Remembered /\ come.has /\ come.data = c.coming /\ come.coming = <<>>
        /\ gone \in Remembered /\ gone.failed /\ gone.coming = <<>>
        /\ gone.has = c.has /\ gone.data = c.data
    BY <1>1, <2>1 DEF Remembered
  <2>3. CASE k \in Transactions /\ c.coming = <<>>
    <3>1. cache' = [cache EXCEPT ![k] = gone]
      BY <1>4, <2>3 DEF Arrive
    <3> HIDE DEF e, gone, come
    <3> QED
      BY <1>1, <1>2, <2>1, <2>2, <3>1
  <2>4. CASE ~(k \in Transactions /\ c.coming = <<>>)
    <3>1. cache' = [cache EXCEPT ![k] = come]
      BY <1>4, <2>4 DEF Arrive
    <3>2. c.coming \in Answers
      BY <1>1 DEF Remembered
    <3>3. k \in Transactions => k \in DOMAIN c.coming
      BY <1>1, <2>4, <3>2, EmptyAnswer
    <3> HIDE DEF e, gone, come
    <3> QED
      BY <1>1, <1>2, <2>1, <2>2, <3>1, <3>3
  <2> QED
    BY <2>3, <2>4
<1>5. CASE FailRead(k)
  <2> DEFINE e == [c EXCEPT !.stage = "idle", !.coming = <<>>, !.failed = TRUE]
  <2>1. <<>> \in Answers /\ DOMAIN <<>> = {}
    BY NothingTyped
  <2>2. e \in Remembered /\ e.failed /\ e.coming = <<>> /\ e.has = c.has /\ e.data = c.data
    BY <1>1, <2>1 DEF Remembered
  <2>3. cache' = [cache EXCEPT ![k] = e]
    BY <1>5 DEF FailRead
  <2> HIDE DEF e
  <2> QED
    BY <1>1, <1>2, <2>1, <2>2, <2>3
<1> QED
  BY <1>3, <1>4, <1>5 DEF Reading

\* What is fetched again.
LEMMA RefetchKeeps ==
  ASSUME ListingInv, watch' = watch, Retry \/ cache' = Invalidated
  PROVE  Kept
<1>1. url.filter \in Reads
  BY UrlLaws DEF ListingInv, ListTyped, Reads
<1>2. ASSUME NEW k \in Reads
      PROVE  cache'[k] \in {cache[k], [cache[k] EXCEPT !.stage = "sent"],
                            [cache[k] EXCEPT !.stage = "sent", !.coming = <<>>]}
  BY <1>1 DEF Retry, Invalidated, ListingInv, ListTyped
<1>3. DOMAIN cache' = Reads /\ cache' = [k \in Reads |-> cache'[k]]
  BY <1>1 DEF Retry, Invalidated, ListingInv, ListTyped
<1>4. <<>> \in Answers /\ DOMAIN <<>> = {}
  BY NothingTyped
<1>5. ASSUME NEW k \in Reads
      PROVE  /\ cache'[k] \in Remembered
             /\ \/ cache'[k] = cache[k]
                \/ /\ cache'[k].stage /= "idle"
                   /\ cache'[k].has = cache[k].has /\ cache'[k].data = cache[k].data
                   /\ DOMAIN cache'[k].coming \subseteq DOMAIN cache[k].coming
  <2>1. cache[k] \in Remembered
    BY DEF ListingInv, ListTyped
  <2>2. CASE cache'[k] = cache[k]
    BY <2>1, <2>2
  <2>3. CASE cache'[k] = [cache[k] EXCEPT !.stage = "sent"]
    <3>1. cache'[k] \in Remembered /\ cache'[k].stage = "sent"
      BY <2>1, <2>3 DEF Remembered
    <3>2. cache'[k].has = cache[k].has /\ cache'[k].data = cache[k].data
      BY <2>1, <2>3 DEF Remembered
    <3>3. cache'[k].coming = cache[k].coming
      BY <2>1, <2>3 DEF Remembered
    <3> QED
      BY <3>1, <3>2, <3>3
  <2>4. CASE cache'[k] = [cache[k] EXCEPT !.stage = "sent", !.coming = <<>>]
    <3>1. cache'[k] \in Remembered /\ cache'[k].stage = "sent"
      BY <1>4, <2>1, <2>4 DEF Remembered
    <3>2. cache'[k].has = cache[k].has /\ cache'[k].data = cache[k].data
      BY <2>1, <2>4 DEF Remembered
    <3>3. cache'[k].coming = <<>>
      BY <2>1, <2>4 DEF Remembered
    <3> QED
      BY <1>4, <3>1, <3>2, <3>3
  <2> QED
    BY <1>2, <2>2, <2>3, <2>4
<1>6. cache' \in [Reads -> Remembered]
  BY <1>3, <1>5
<1> QED
  BY <1>5, <1>6, StageKeeps DEF ListingInv, Detailed

-----------------------------------------------------------------------------
(* The page *)

LEMMA LeftLaws ==
  ASSUME NEW work \in Saves \cup Removals
  PROVE  /\ work \in Saves => Left(work) \in Saves
         /\ work \in Removals => Left(work) \in Removals
         /\ Left(work).stage = work.stage /\ Left(work).id = work.id
         /\ Left(work).left = (work.left \/ work.stage /= "idle")
BY DEF Left, Saves, Removals

\* A step that concerns the reads alone.
LEMMA ReadingDraws ==
  ASSUME ListingInv, Kept, watch' \subseteq Reads,
         UNCHANGED <<server, url, past, selected, editing, save, removal>>, mishaps' \in Nat
  PROVE  ListingInv'
BY DEF ListingInv, Kept, ListTyped, OnPage, Stays

\* A step that reads nothing.
LEMMA UnreadKeeps ==
  ASSUME ListingInv, UNCHANGED <<cache, watch>> PROVE Kept /\ watch' \subseteq Reads
BY DEF ListingInv, Kept, ListTyped, Detailed, Watched

LEMMA DrawnKeeps ==
  ASSUME Kept, watch' \subseteq Reads,
         server' \in [Transactions -> Contents], url' \in Urls, past' \in Seq(Urls),
         selected' \in Copies, editing' \in Copies, mishaps' \in Nat,
         save' \in Saves /\ (save'.stage /= "idle" => save'.id \in Transactions),
         removal' \in Removals /\ (removal'.stage /= "idle" => removal'.id \in Transactions),
         OnPage', Stays'
  PROVE  ListingInv'
BY DEF ListingInv, Kept, ListTyped

LEMMA EffectKeeps == ASSUME ListingInv, Effect PROVE ListingInv'
<1> USE DEF ListingInv, Effect
<1>1. Kept /\ watch' \subseteq Reads
  BY UnreadKeeps
<1>2. url.place = "transactions" /\ url.record \in Transactions \cup {None}
  BY UrlLaws DEF EffectDue, ListTyped
<1>3. url' \in Urls /\ url'.place = "transactions" /\ (~Unavailable => url' = url)
  <2>1. CASE Unavailable
    <3>1. url' = [url EXCEPT !.record = None]
      BY <2>1
    <3> QED
      BY <1>2, <2>1, <3>1, UrlLaws DEF ListTyped
  <2>2. CASE ~Unavailable
    <3>1. url' = [url EXCEPT !.record = @]
      BY <2>2
    <3>2. url' = url
      BY <3>1 DEF ListTyped, Urls, Page, Elsewhere
    <3> QED
      BY <1>2, <2>2, <3>2 DEF ListTyped
  <2> QED
    BY <2>1, <2>2
<1>4. selected' = ShownAnew /\ selected' \in Copies
  BY FoundLaws
<1>5. /\ removal' \in Removals /\ removal'.stage = removal.stage /\ removal'.id = removal.id
      /\ removal'.from = removal.from /\ removal'.moved = removal.moved
      /\ ~removal'.left => ~removal.left
      /\ removal'.stage /= "idle" /\ ~removal'.left => ShownAnew /= NoCopy
  BY DEF Left, ListTyped, Removals
<1>6. Stays'
  <2> SUFFICES ASSUME removal'.stage /= "idle", ~removal'.left, ~removal'.moved,
                      removal'.from.record = removal'.id
               PROVE  url' = removal'.from /\ selected'.id = removal'.id
    BY DEF Stays
  <2>1. url = removal.from /\ selected.id = removal.id
    BY <1>5 DEF Stays
  <2>2. ShownAnew /= NoCopy /\ ~Unavailable
    BY <1>5 DEF ShownAnew
  <2>3. ShownAnew = selected \/ (ShownAnew = Found /\ Found.id = url.record)
    BY <2>2, FoundLaws
  <2> QED
    BY <1>3, <1>4, <1>5, <2>1, <2>2, <2>3
<1> QED
  BY <1>1, <1>3, <1>4, <1>5, <1>6, DrawnKeeps DEF OnPage, ListTyped

\* A deletion whose drawer stays holds the page.
LEMMA Holds ==
  ASSUME ListingInv, removal.stage /= "idle", ~removal.left, ~removal.moved,
         removal.from.record = removal.id
  PROVE  selected /= NoCopy /\ Removing
<1>1. removal.id \in Transactions /\ selected.id = removal.id
  BY DEF ListingInv, ListTyped, Stays
<1>2. selected.id /= None
  BY <1>1, Apart
<1> QED
  BY <1>2 DEF NoCopy, Removing

LEMMA WayKeeps ==
  ASSUME ListingInv,
         Visit \/ ApplyFilters \/ UpdateSearch \/ (\E t \in Transactions : Select(t))
  PROVE  ListingInv'
<1> USE DEF ListingInv
<1>1. Kept /\ watch' \subseteq Reads
  BY UnreadKeeps DEF Visit, ApplyFilters, UpdateSearch, Select
<1>2. /\ UNCHANGED <<server, editing, save, removal, mishaps>> /\ selected = NoCopy
  BY DEF Visit, ApplyFilters, UpdateSearch, Select, Uncovered, OnPage
<1>3. Stays'
  BY <1>2, Holds DEF Stays
<1>4. url' \in Urls /\ past' \in Seq(Urls) /\ selected' \in Copies /\ OnPage'
  <2>1. CASE Visit
    <3>1. PICK record \in Transactions \cup {None} : Push(Page(Everything, record))
      BY <2>1 DEF Visit
    <3>2. Page(Everything, record) \in Urls
      BY Apart DEF Urls
    <3> QED
      BY <1>2, <2>1, <3>1, <3>2, PushTyped DEF Visit, OnPage, ListTyped
  <2>2. CASE ApplyFilters
    <3>1. PICK f \in Filters : Push([url EXCEPT !.filter = f])
      BY <2>2 DEF ApplyFilters
    <3>2. [url EXCEPT !.filter = f] \in Urls
      BY <2>2, UrlLaws DEF ApplyFilters, ListTyped
    <3> QED
      BY <1>2, <2>2, <3>1, <3>2, PushTyped DEF ApplyFilters, OnPage, ListTyped
  <2>3. CASE UpdateSearch
    <3>1. PICK f \in Filters : url' = [url EXCEPT !.filter = f]
      BY <2>3 DEF UpdateSearch
    <3>2. [url EXCEPT !.filter = f] \in Urls
      BY <2>3, UrlLaws DEF UpdateSearch, ListTyped
    <3>3. past' = past /\ selected' = selected /\ url.place = "transactions"
      BY <2>3 DEF UpdateSearch
    <3>4. [url EXCEPT !.filter = f].place = url.place
      BY DEF ListTyped, Urls, Page, Elsewhere
    <3>5. past \in Seq(Urls) /\ selected \in Copies
      BY DEF ListTyped
    <3>6. OnPage'
      BY <3>1, <3>3, <3>4 DEF OnPage
    <3> QED
      BY <3>1, <3>2, <3>3, <3>5, <3>6
  <2>4. ASSUME NEW t \in Transactions, Select(t)
        PROVE  url' \in Urls /\ past' \in Seq(Urls) /\ selected' \in Copies /\ OnPage'
    <3>1. Push([url EXCEPT !.record = t]) /\ url.place = "transactions"
      BY <2>4 DEF Select
    <3>2. [url EXCEPT !.record = t] \in Urls /\ [url EXCEPT !.record = t].place = "transactions"
      <4>1. url \in Urls
        BY DEF ListTyped
      <4>2. [url EXCEPT !.record = t] \in Urls
        BY <3>1, <4>1, UrlLaws
      <4>3. [url EXCEPT !.record = t].place = url.place
        BY <4>1 DEF Urls, Page, Elsewhere
      <4> QED
        BY <3>1, <4>2, <4>3
    <3>3. cache[url.filter] \in Remembered /\ t \in DOMAIN cache[url.filter].data
      BY <2>4, UrlLaws DEF Select, Displayed, Listed, ListTyped, Reads
    <3>4. cache[url.filter].data[t] \in Contents
      BY <3>3, AnswerLaws DEF Remembered
    <3>5. selected' \in Copies
      BY <2>4, <3>4 DEF Select, Copies
    <3> QED
      BY <3>1, <3>2, <3>5, PushTyped DEF OnPage
  <2> QED
    BY <2>1, <2>2, <2>3, <2>4
<1> QED
  BY <1>1, <1>2, <1>3, <1>4, DrawnKeeps DEF ListTyped

LEMMA DepartKeeps == ASSUME ListingInv, Depart PROVE ListingInv'
<1> USE DEF ListingInv, Depart
<1>1. Kept /\ watch' \subseteq Reads
  BY UnreadKeeps
<1>2. url' = Elsewhere /\ past' \in Seq(Urls)
  BY NothingTyped, PushTyped
<1>3. selected' = NoCopy /\ editing' = NoCopy /\ save' = Left(save)
  BY DEF Unmounted, Elsewhere
<1>4. /\ removal' \in Removals /\ removal'.stage = removal.stage /\ removal'.id = removal.id
      /\ removal'.stage /= "idle" => removal'.left
      /\ save' \in Saves /\ save'.stage = save.stage /\ save'.id = save.id
  BY <1>3, LeftLaws DEF ListTyped
<1>5. Stays' /\ OnPage'
  BY <1>3, <1>4 DEF Stays, OnPage
<1> QED
  BY <1>1, <1>2, <1>3, <1>4, <1>5, NothingTyped, DrawnKeeps DEF ListTyped

LEMMA BackKeeps == ASSUME ListingInv, GoBack PROVE ListingInv'
<1> USE DEF ListingInv
<1>1. Kept /\ watch' \subseteq Reads
  BY UnreadKeeps DEF GoBack
<1>2. url' \in Urls /\ past' \in Seq(Urls)
  BY BackTyped
<1>3. /\ selected' \in Copies /\ editing' \in Copies /\ OnPage'
      /\ save' \in Saves /\ save'.stage = save.stage /\ save'.id = save.id
  <2>1. CASE url'.place = "transactions"
    BY <2>1 DEF GoBack, Unmounted, OnPage, ListTyped
  <2>2. CASE url'.place /= "transactions"
    BY <2>2, NothingTyped, LeftLaws DEF GoBack, Unmounted, OnPage, ListTyped
  <2> QED
    BY <2>1, <2>2
<1>4. /\ removal' \in Removals /\ removal'.stage = removal.stage /\ removal'.id = removal.id
      /\ removal'.stage /= "idle" => removal'.moved
  <2>1. PICK rest \in {removal, Left(removal)} :
          removal' = [rest EXCEPT !.moved = @ \/ rest.stage /= "idle"]
    BY DEF GoBack
  <2>2. rest \in Removals /\ rest.stage = removal.stage /\ rest.id = removal.id
    BY LeftLaws DEF ListTyped
  <2> QED
    BY <2>1, <2>2 DEF Removals
<1>5. Stays'
  BY <1>4 DEF Stays
<1> QED
  BY <1>1, <1>2, <1>3, <1>4, <1>5, DrawnKeeps DEF GoBack, ListTyped

LEMMA CloseKeeps == ASSUME ListingInv, Close \/ EditSelected PROVE ListingInv'
<1> USE DEF ListingInv
<1>1. Kept /\ watch' \subseteq Reads
  BY UnreadKeeps DEF Close, EditSelected
<1>2. /\ url' = [url EXCEPT !.record = None] /\ selected' = NoCopy /\ ~Removing
      /\ editing' \in {editing, selected} /\ UNCHANGED <<server, past, save, removal, mishaps>>
  BY DEF Close, EditSelected
<1>3. Stays' /\ OnPage'
  BY <1>2, Holds DEF Stays, OnPage
<1> QED
  BY <1>1, <1>2, <1>3, UrlLaws, NothingTyped, DrawnKeeps DEF ListTyped

LEMMA SaveKeeps ==
  ASSUME ListingInv,
         CancelEdit \/ Save \/ CommitSave \/ Saved \/ SaveFailed
  PROVE  ListingInv'
<1> USE DEF ListingInv
<1>1. /\ UNCHANGED <<url, past, selected, removal, watch>> /\ mishaps' \in Nat
  BY DEF CancelEdit, Save, CommitSave, Saved, SaveFailed, ListTyped
<1>2. Kept /\ watch' \subseteq Reads
  <2>1. CASE Saved
    BY <1>1, <2>1, RefetchKeeps DEF Saved, ListTyped
  <2>2. CASE ~Saved
    BY <2>2, UnreadKeeps DEF CancelEdit, Save, CommitSave, SaveFailed
  <2> QED
    BY <2>1, <2>2
<1>3. /\ server' \in [Transactions -> Contents] /\ editing' \in Copies
      /\ save' \in Saves /\ (save'.stage /= "idle" => save'.id \in Transactions)
  <2>1. CASE CancelEdit
    BY <2>1, NothingTyped DEF CancelEdit, ListTyped
  <2>2. CASE Save
    <3>1. editing \in [id : Transactions, content : Contents]
      BY <2>2 DEF Save, ListTyped, Copies
    <3>2. PICK field \in Fields : editing' = [editing EXCEPT !.content = @ \cup {field}]
      BY <2>2 DEF Save
    <3>3. editing' \in [id : Transactions, content : Contents] /\ editing'.id = editing.id
      BY <3>1, <3>2 DEF Contents
    <3> QED
      BY <2>2, <3>1, <3>3 DEF Save, Saves, Copies, ListTyped
  <2>3. CASE CommitSave
    BY <2>3 DEF CommitSave, ListTyped, Saves
  <2>4. CASE Saved
    BY <2>4, NothingTyped DEF Saved, NoSave, ListTyped
  <2>5. CASE SaveFailed
    BY <2>5, NothingTyped DEF SaveFailed, NoSave, ListTyped
  <2> QED
    BY <2>1, <2>2, <2>3, <2>4, <2>5
<1>4. Stays' /\ OnPage'
  BY <1>1 DEF Stays, OnPage
<1> QED
  BY <1>1, <1>2, <1>3, <1>4, DrawnKeeps DEF ListTyped

LEMMA RemovalKeeps ==
  ASSUME ListingInv,
         \/ Delete \/ CommitDelete \/ Deleted \/ DeleteFinished \/ DeleteFailed
         \/ \E t \in Transactions : OtherDeletes(t)
  PROVE  ListingInv'
<1> USE DEF ListingInv
<1>1. /\ UNCHANGED <<past, editing, save, watch>> /\ mishaps' \in Nat
  BY DEF Delete, CommitDelete, Deleted, DeleteFinished, DeleteFailed,
         OtherDeletes, ListTyped
<1>2. Kept /\ watch' \subseteq Reads
  <2>1. CASE Deleted
    BY <1>1, <2>1, RefetchKeeps DEF Deleted, ListTyped
  <2>2. CASE ~Deleted
    BY <2>2, UnreadKeeps
       DEF Delete, CommitDelete, DeleteFinished, DeleteFailed, OtherDeletes
  <2> QED
    BY <2>1, <2>2
<1>3. server' \in [Transactions -> Contents]
  BY NothingTyped DEF Delete, CommitDelete, Deleted, DeleteFinished, DeleteFailed,
     OtherDeletes, ListTyped
<1>4. /\ removal' \in Removals /\ (removal'.stage /= "idle" => removal'.id \in Transactions)
      /\ url' \in Urls /\ selected' \in Copies /\ OnPage' /\ Stays'
  <2>1. CASE Delete
    <3>1. selected.id \in Transactions
      BY <2>1 DEF Delete, ListTyped, Copies
    <3>2. removal' \in Removals /\ removal'.from = url /\ removal'.id = selected.id
      BY <2>1, <3>1 DEF Delete, Removals, ListTyped
    <3> QED
      BY <2>1, <3>1, <3>2 DEF Delete, Stays, OnPage, ListTyped
  <2>2. CASE CommitDelete \/ Deleted
    <3>1. PICK s \in {"done", "refreshing"} : removal' = [removal EXCEPT !.stage = s]
      BY <2>2 DEF CommitDelete, Deleted
    <3>2. /\ removal' \in Removals /\ removal.stage /= "idle" /\ removal'.id = removal.id
          /\ removal'.from = removal.from /\ removal'.left = removal.left
          /\ removal'.moved = removal.moved
      BY <2>2, <3>1 DEF CommitDelete, Deleted, Removals, ListTyped
    <3> QED
      BY <2>2, <3>2 DEF CommitDelete, Deleted, Stays, OnPage, ListTyped
  <2>3. CASE DeleteFinished
    <3>1. removal.from \in Urls
      BY DEF ListTyped, Removals
    <3> QED
      BY <2>3, <3>1, UrlLaws, NothingTyped DEF DeleteFinished, Stays, OnPage, NoRemoval
  <2>4. CASE DeleteFailed
    BY <2>4, NothingTyped DEF DeleteFailed, Stays, OnPage, NoRemoval, ListTyped
  <2>5. CASE \E t \in Transactions : OtherDeletes(t)
    BY <2>5 DEF OtherDeletes, Stays, OnPage, ListTyped
  <2> QED
    BY <2>1, <2>2, <2>3, <2>4, <2>5
<1> QED
  BY <1>1, <1>2, <1>3, <1>4, DrawnKeeps DEF ListTyped

LEMMA ListingStarts == ListingInit => ListingInv
<1> SUFFICES ASSUME ListingInit PROVE ListingInv
  OBVIOUS
<1>1. ListTyped
  BY NothingTyped DEF ListingInit, ListTyped, Urls, NoSave, NoRemoval
<1>2. Detailed
  <2>1. DOMAIN <<>> = {}
    OBVIOUS
  <2> QED
    BY <2>1 DEF ListingInit, Detailed, Reads, Missing
<1>3. OnPage /\ Watched /\ Stays
  BY DEF ListingInit, OnPage, Watched, Stays, NoRemoval
<1> QED
  BY <1>1, <1>2, <1>3 DEF ListingInv

LEMMA ListingSteps == ListingInv /\ [ListingNext]_listing => ListingInv'
<1> SUFFICES ASSUME ListingInv, [ListingNext]_listing PROVE ListingInv'
  OBVIOUS
<1>1. CASE Observe
  <2>1. Kept /\ watch' \subseteq Reads
    BY <1>1, ObserveKeeps
  <2> QED
    BY <1>1, <2>1, ReadingDraws DEF Observe, ListingInv, ListTyped
<1>2. CASE Retry
  <2>1. watch' = watch
    BY <1>2 DEF Retry
  <2>2. Kept
    BY <1>2, <2>1, RefetchKeeps
  <2> QED
    BY <1>2, <2>1, <2>2, ReadingDraws DEF Retry, ListingInv, ListTyped
<1>3. ASSUME NEW k \in Reads, Reading(k) PROVE ListingInv'
  <2>1. Kept
    BY <1>3, ReadingKeeps
  <2> QED
    BY <1>3, <2>1, ReadingDraws DEF Reading, Serve, Arrive, FailRead, ListingInv, ListTyped
<1>4. CASE UNCHANGED listing
  <2>1. Kept /\ watch' \subseteq Reads
    BY <1>4, UnreadKeeps DEF listing
  <2> QED
    BY <1>4, <2>1, ReadingDraws DEF listing, ListingInv, ListTyped
<1> QED
  BY <1>1, <1>2, <1>3, <1>4, EffectKeeps, WayKeeps, DepartKeeps, BackKeeps, CloseKeeps,
     SaveKeeps, RemovalKeeps DEF ListingNext

LEMMA ListingInvariant == ListingSpec => []ListingInv
<1>1. ListingInit => ListingInv
  BY ListingStarts
<1>2. ListingInv /\ [ListingNext]_listing => ListingInv'
  BY ListingSteps
<1> QED
  BY <1>1, <1>2, PTL DEF ListingSpec

\* Once what the URL asks for has been read for the first time, the drawer shows
\* that record or, where none is asked for, is closed, for any transactions,
\* queries, steps back and failures (the effect of TransactionsPage).
THEOREM DrawersMatch == ListingSpec => []DrawerMatchesUrl
<1>1. ListingInv => DrawerMatchesUrl
  <2> SUFFICES ASSUME ListingInv, Settled, url.place = "transactions", ~Loading(url.filter),
                      \A t \in Transactions : url.record = t => ~Loading(t)
               PROVE  selected.id = url.record
    BY DEF DrawerMatchesUrl
  <2>1. selected = ShownAnew /\ ~Unavailable
    BY DEF Settled, EffectDue
  <2>2. CASE url.record = None
    BY <2>1, <2>2 DEF ShownAnew, NoCopy
  <2>3. CASE url.record /= None
    <3> DEFINE t == url.record
    <3>1. t \in Transactions /\ url.filter \in Filters
      BY <2>3, UrlLaws DEF ListingInv, ListTyped
    <3>2. cache[Source(t)].has
      <4>1. CASE Listed(t)
        BY <4>1 DEF Source, Listed
      <4>2. CASE ~Listed(t)
        <5>1. t \in watch
          BY <3>1, <4>2 DEF Settled, Wanted
        <5>2. ASSUME ~cache[t].has PROVE FALSE
          <6>1. cache[t].failed
            BY <3>1, <5>1, <5>2 DEF Loading, ListingInv, Watched
          <6>2. Found = NoCopy
            BY <4>2, <5>2 DEF Found, Source
          <6> QED
            BY <2>1, <2>3, <6>1, <6>2 DEF Unavailable
        <5> QED
          BY <4>2, <5>2 DEF Source
      <4> QED
        BY <4>1, <4>2
    <3>3. Found.id = t
      BY <2>3, <3>2 DEF Found
    <3> QED
      BY <2>1, <2>3, <3>3 DEF ShownAnew
  <2> QED
    BY <2>2, <2>3
<1> QED
  BY <1>1, ListingInvariant, PTL

\* A deletion started from the drawer of the record in the URL finishes with that
\* drawer, if it stayed open and nobody went back: it closes nothing else
\* (RecordActionDrawer, which holds its buttons while it is busy).
THEOREM DeletionsStay == ListingSpec => DeletionStays
<1>1. ASSUME ListingInv, [ListingNext]_listing,
             removal.stage = "refreshing", removal'.stage = "idle",
             ~removal.left, ~removal.moved, removal.from.record = removal.id
      PROVE  selected.id = removal.id /\ url' = [url EXCEPT !.record = None]
  <2>1. url = removal.from /\ selected.id = removal.id
    BY <1>1 DEF ListingInv, Stays
  <2>2. DeleteFinished
    <3>1. removal' /= removal /\ removal' /= Left(removal)
      BY <1>1, LeftLaws DEF ListingInv, ListTyped
    <3>2. ~GoBack
      <4> SUFFICES ASSUME GoBack PROVE FALSE
        OBVIOUS
      <4>1. PICK rest \in {removal, Left(removal)} :
              removal' = [rest EXCEPT !.moved = @ \/ rest.stage /= "idle"]
        BY DEF GoBack
      <4>2. rest \in Removals /\ rest.stage = "refreshing"
        BY <1>1, LeftLaws DEF ListingInv, ListTyped
      <4> QED
        BY <1>1, <4>1, <4>2 DEF Removals
    <3>3. ~Delete /\ ~CommitDelete /\ ~DeleteFailed
      BY <1>1 DEF Delete, Unhurried, CommitDelete, DeleteFailed
    <3>4. ~Deleted
      BY <1>1 DEF Deleted
    <3>5. /\ ~Effect /\ ~Observe /\ ~Retry
          /\ ~Visit /\ ~Depart /\ ~ApplyFilters /\ ~UpdateSearch
      BY <3>1 DEF Effect, Observe, Retry, Visit, Depart, ApplyFilters, UpdateSearch
    <3>6. /\ ~Close /\ ~EditSelected /\ ~CancelEdit
          /\ ~Save /\ ~CommitSave /\ ~Saved /\ ~SaveFailed
      BY <3>1 DEF Close, EditSelected, CancelEdit, Save, CommitSave, Saved, SaveFailed
    <3>7. \A t \in Transactions : ~Select(t) /\ ~OtherDeletes(t)
      BY <3>1 DEF Select, OtherDeletes
    <3>8. \A k \in Reads : ~Reading(k)
      BY <3>1 DEF Reading, Serve, Arrive, FailRead
    <3> QED
      BY <1>1, <3>1, <3>2, <3>3, <3>4, <3>5, <3>6, <3>7, <3>8 DEF ListingNext, listing
  <2> QED
    BY <2>1, <2>2 DEF DeleteFinished
<1> QED
  BY <1>1, ListingInvariant, PTL DEF DeletionStays, ListingSpec
=============================================================================
