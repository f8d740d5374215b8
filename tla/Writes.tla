------------------------------- MODULE Writes -------------------------------
(***************************************************************************)
(* A viewer on one page of the web client who opens a dialog, submits it,  *)
(* and may close it, go back or open it once more while the request is on  *)
(* its way.  The request is carried out or refused by the server, and its  *)
(* answer arrives late or not at all.                                      *)
(*                                                                         *)
(* Dialogs says how each dialog is built, Routes what its request needs    *)
(* and changes; here is what a dialog of each build does.                  *)
(***************************************************************************)
EXTENDS Naturals, Sequences, Screens

CONSTANTS
  Viewers,      \* Records: the permissions a viewer may use, whether it is the demo.
  MaxDialogs,   \* How often a dialog is opened.
  MaxSends,     \* How many requests are sent in all.
  MaxEdits,     \* How often the form is changed after the first submission.
  Detours       \* The pages a viewer may leave for.

\* A member may do what the role allows, and whatever was granted beyond it.
ASSUME WritesAssumption ==
  /\ MaxDialogs \in Nat \ {0} /\ MaxSends \in Nat \ {0} /\ MaxEdits \in Nat
  /\ Detours \subseteq Pages
  /\ \A v \in Viewers :
       /\ v.may \subseteq Permissions /\ v.demo \in BOOLEAN
       /\ ~v.demo => \E role \in Roles : RolePermissions(role) \subseteq v.may

\* Every write of the client by name.
Write ==
  [AccountCreate |-> AccountCreate, AccountEdit |-> AccountEdit, AccountArchive |-> AccountArchive,
   ClaimSubmit |-> ClaimSubmit, ClaimReview |-> ClaimReview, BudgetCreate |-> BudgetCreate,
   BudgetEdit |-> BudgetEdit, BudgetDelete |-> BudgetDelete, GoalCreate |-> GoalCreate,
   ContactInline |-> ContactInline, GoalEdit |-> GoalEdit, GoalDelete |-> GoalDelete,
   GoalProgress |-> GoalAction, GoalTransaction |-> GoalTransaction, GoalLink |-> GoalLink,
   GoalReschedule |-> GoalReschedule, GoalLifecycle |-> GoalLifecycle,
   TransactionCreate |-> TransactionCreate, TransactionEdit |-> TransactionEdit,
   TransactionDelete |-> TransactionDelete, TransactionDeleteAtHome |-> TransactionDeleteAtHome,
   BillSave |-> BillSave, BillUpdate |-> BillUpdate, BillDelete |-> BillDelete,
   SuggestionDecide |-> SuggestionDecide, ContactSave |-> ContactSave,
   ContactUpdate |-> ContactUpdate, ContactDelete |-> ContactDelete, NameSave |-> NameSave,
   NameUpdate |-> NameUpdate, NameDelete |-> NameDelete, RuleToggle |-> RuleToggle,
   RuleDelete |-> RuleDelete, RuleSave |-> RuleSave, RuleUpdate |-> RuleUpdate,
   RulePreview |-> RulePreview, ReconciliationComplete |-> ReconciliationComplete,
   ImportUpload |-> ImportUpload, ImportDiscard |-> ImportDiscard, ImportCancel |-> ImportCancel,
   ImportReparse |-> ImportReparse, ImportResolve |-> ImportResolve,
   ImportCommit |-> ImportCommit, PeriodReview |-> PeriodReview,
   JoinRequestReview |-> JoinRequestReview, JoinCodeCreate |-> JoinCodeCreate,
   MemberUpdate |-> MemberUpdate, MemberRemove |-> MemberRemove,
   InvitationCancel |-> InvitationCancel, Invite |-> Invite, InviteAtOffice |-> InviteAtOffice,
   SequenceSave |-> SequenceSave, CategoryCreate |-> CategoryCreate, CategorySave |-> CategorySave,
   CategoryToggle |-> CategoryToggle, CategoryReorder |-> CategoryReorder,
   CategoryDelete |-> CategoryDelete, NotificationRead |-> NotificationRead,
   NotificationsReadAll |-> NotificationsReadAll]

Names == DOMAIN Write

\* The writes that one dialog offers in turn.
Shared ==
  {{"BillSave", "BillUpdate"}, {"ContactSave", "ContactUpdate"}, {"NameSave", "NameUpdate"},
   {"RuleSave", "RuleUpdate", "RulePreview"}, {"CategoryCreate", "CategorySave"},
   {"GoalProgress", "GoalTransaction", "GoalLink", "GoalReschedule"}}

Reseeded == {"TransactionCreate", "GoalProgress", "GoalTransaction", "GoalLink", "GoalReschedule"}

SameDialog(a, b) == a = b \/ \E d \in Shared : {a, b} \subseteq d

VARIABLES
  viewer,   \* Who is looking.
  page,     \* The page that is shown.
  dlg,      \* The dialog: which write, the how many-th, what it says, ...
  armed,    \* The writes whose close timer runs.
  flights,  \* The requests in the order in which they were sent: "sent", carried out
            \* ("done") or "gone"; whether the dialog is still mounted and waits. One
            \* that nobody waits for may yet arrive.
  commits,  \* How often the server carried out each submission.
  unsure,   \* The submissions whose answer was lost.
  stale     \* The cached reads that differ from what the server would answer.

vars == <<viewer, page, dlg, armed, flights, commits, unsure, stale>>

Submissions == (1 .. MaxDialogs) \X (0 .. MaxEdits)

\* What a dialog says: "", that its own checks complain ("invalid"), that it saved
\* ("saved"), the server's refusal ("refused"), or that nothing was saved ("failed").
\* marked are the fields under which it shows an error.
NoDialog ==
  [name |-> "none", n |-> 0, open |-> FALSE, edit |-> 0, busy |-> FALSE, said |-> "",
   first |-> 0, marked |-> {}]

-----------------------------------------------------------------------------
(* What is offered. *)

Allowed(permissions) == viewer.demo \/ permissions \subseteq viewer.may

\* The demo's memory takes what needs no server.
Offered(name) ==
  /\ Write[name].page = page
  /\ Allowed(Write[name].gate)
  /\ viewer.demo => Write[name].demo = "memory"

\* What the page and what surrounds it show this viewer.
VisiblePanels ==
  {panel \in PanelsOf(page, viewer.demo) \cup Shell :
     Allowed(panel.gate) /\ (viewer.demo => panel.demo)}

\* The client waits for an answer in a dialog that is still mounted.
Waiting(name) == \E i \in DOMAIN flights : flights[i].name = name /\ flights[i].here /\ flights[i].waited

Init ==
  /\ viewer \in Viewers
  /\ page \in Pages
  /\ dlg = NoDialog
  /\ armed = {} /\ flights = <<>> /\ unsure = {} /\ stale = {}
  /\ commits = [s \in Submissions |-> 0]

\* Opening it resets what it said, its lock and its busy state.
Open(name) ==
  /\ ~dlg.open /\ dlg.n < MaxDialogs
  /\ dlg.n > 0 => SameDialog(name, dlg.name)
  /\ Offered(name)
  /\ dlg' = [NoDialog EXCEPT !.name = name, !.n = dlg.n + 1, !.open = TRUE]
  /\ UNCHANGED <<viewer, page, armed, flights, commits, unsure, stale>>

\* A changed form is another submission; the errors of the old one go.
Edit ==
  /\ dlg.open /\ ~dlg.busy /\ dlg.edit < MaxEdits
  /\ dlg.said \in {"invalid", "refused", "failed"}
  /\ dlg' = [dlg EXCEPT !.edit = @ + 1, !.marked = {}, !.said = ""]
  /\ UNCHANGED <<viewer, page, armed, flights, commits, unsure, stale>>

UnguardedAlways == TRUE

\* A lock or a state holds from the submission on, as does the wait for an
\* earlier answer; the flag of the request is seen once it was rendered.
Unguarded ==
  CASE Write[dlg.name].guard \in {"lock", "state"} ->
         ~dlg.busy /\ (Write[dlg.name].guard = "lock" => ~Waiting(dlg.name))
    [] Write[dlg.name].guard = "pending" -> ~dlg.busy
    [] OTHER -> TRUE

\* Accounts that arrive or change while these are open fill the form anew:
\* what it said, its lock and its key are gone, the request is not.
Reseed ==
  /\ dlg.open /\ dlg.name \in Reseeded /\ dlg.edit < MaxEdits
  /\ dlg' = [dlg EXCEPT !.edit = @ + 1, !.first = dlg.edit + 1, !.busy = FALSE, !.said = "",
                        !.marked = {}]
  /\ UNCHANGED <<viewer, page, armed, flights, commits, unsure, stale>>

\* A complaint about a field is seen under that field, where the dialog has one.
Under(name, field) == {field} \cap Write[name].shows

\* The dialog's own checks refuse the form and name the fields.
Refuse ==
  /\ dlg.open /\ Unguarded /\ dlg.said = ""
  /\ \E field \in Write[dlg.name].checks :
       dlg' = [dlg EXCEPT !.said = "invalid", !.marked = Under(dlg.name, field)]
  /\ UNCHANGED <<viewer, page, armed, flights, commits, unsure, stale>>

Submit ==
  /\ dlg.open /\ Unguarded /\ dlg.said /= "saved" /\ ~viewer.demo
  /\ Len(flights) < MaxSends
  /\ flights' = Append(flights,
       [name |-> dlg.name, n |-> dlg.n, edit |-> dlg.edit, key |-> dlg.first,
        stage |-> "sent", here |-> TRUE, waited |-> TRUE])
  /\ dlg' = [dlg EXCEPT !.busy = Write[dlg.name].guard \in {"lock", "state"}, !.said = "",
                        !.marked = {}]
  /\ UNCHANGED <<viewer, page, armed, commits, unsure, stale>>

\* The pending flag of the request reaches the screen.
Render ==
  /\ dlg.open /\ ~dlg.busy /\ Write[dlg.name].guard = "pending" /\ Waiting(dlg.name)
  /\ dlg' = [dlg EXCEPT !.busy = TRUE]
  /\ UNCHANGED <<viewer, page, armed, flights, commits, unsure, stale>>

\* The demo writes to memory, says that it saved and closes by the same timer.
SubmitInDemo ==
  /\ dlg.open /\ Unguarded /\ dlg.said /= "saved" /\ viewer.demo
  /\ IF Write[dlg.name].ends = "timer"
     THEN /\ dlg' = [dlg EXCEPT !.busy = TRUE, !.said = "saved"]
          /\ armed' = armed \cup {dlg.name}
     ELSE /\ dlg' = [dlg EXCEPT !.open = Write[dlg.name].ends = "stay"]
          /\ UNCHANGED armed
  /\ commits' = [commits EXCEPT ![<<dlg.n, dlg.edit>>] = 1]
  /\ UNCHANGED <<viewer, page, flights, unsure, stale>>

-----------------------------------------------------------------------------
(* The server. *)

\* The dialogs of useWriteFlow.
OnFlow(name) == Write[name].late = "moves"

\* A dialog that keeps its key repeats one request: the same form is answered
\* again without effect, another one conflicts.
Repeats(f) == Write[f.name].key = "dialog" /\ \E e \in f.key .. MaxEdits : commits[<<f.n, e>>] > 0

CarryOut(i) ==
  LET f == flights[i]
      route == Write[f.name].route
  IN /\ f.stage = "sent" /\ route.needs \subseteq viewer.may
     /\ Repeats(f) => commits[<<f.n, f.edit>>] > 0
     /\ flights' = [flights EXCEPT ![i].stage = "done"]
     /\ commits' = [commits EXCEPT ![<<f.n, f.edit>>] = IF Repeats(f) THEN @ ELSE @ + 1]
     /\ stale' = stale \cup route.changes
     /\ UNCHANGED <<viewer, page, dlg, armed, unsure>>

-----------------------------------------------------------------------------
(* The answer. *)

Shown(f) == dlg.open /\ f.here /\ SameDialog(dlg.name, f.name)

Rename(name, field) ==
  IF field \in DOMAIN Write[name].renames THEN Write[name].renames[field] ELSE field

\* A timer of the first success that is remembered stops the second one's.
SucceedByOneTimer(i) ==
  LET f == flights[i]
      w == Write[f.name]
  IN /\ f.waited /\ f.stage = "done"
     /\ flights' = [flights EXCEPT ![i].waited = FALSE, ![i].stage = "gone"]
     /\ stale' = stale \ w.refreshes
     /\ armed' = IF w.ends = "timer" /\ f.here /\ f.n = 1 THEN armed \cup {f.name} ELSE armed
     /\ dlg' = IF ~Shown(f) THEN dlg ELSE [dlg EXCEPT !.said = "saved"]
     /\ UNCHANGED <<viewer, page, commits, unsure>>

\* A dialog on the write flow that is open by the URL: the timer it sets once its
\* page was left still changes the URL. One that is open by the state of its page
\* closes nothing any more.
LeadsBack(name) == OnFlow(name) /\ Write[name].opens = "query"

\* A success refreshes what the write lists, wherever the viewer is by then,
\* and ends the dialog it finds open; a timer is set even if none is open.
Succeed(i) ==
  LET f == flights[i]
      w == Write[f.name]
  IN /\ f.waited /\ f.stage = "done"
     /\ flights' = [flights EXCEPT ![i].waited = FALSE, ![i].stage = "gone"]
     /\ stale' = stale \ w.refreshes
     /\ armed' = IF w.ends = "timer" /\ (f.here \/ LeadsBack(f.name)) THEN armed \cup {f.name} ELSE armed
     /\ dlg' = IF ~Shown(f) THEN dlg
               ELSE CASE w.ends = "now" -> [dlg EXCEPT !.open = FALSE]
                      [] w.ends = "timer" -> [dlg EXCEPT !.said = "saved"]
                      [] OTHER -> [dlg EXCEPT !.said = "saved", !.busy = FALSE]
     /\ UNCHANGED <<viewer, page, commits, unsure>>

Fail(i, said, marked) ==
  /\ dlg' = IF Shown(flights[i])
            THEN [dlg EXCEPT !.said = said, !.marked = marked, !.busy = FALSE] ELSE dlg
  /\ UNCHANGED <<viewer, page, armed, commits, stale>>

\* The server may refuse the whole request, or complain about a field of it.
Refused(i) ==
  LET f == flights[i]
      w == Write[f.name]
  IN /\ f.waited /\ f.stage = "sent"
     /\ flights' = [flights EXCEPT ![i].waited = FALSE, ![i].stage = "gone"]
     /\ UNCHANGED unsure
     /\ \/ Fail(i, "refused", {})
        \/ /\ w.tells
           /\ \E field \in w.route.complains :
                Fail(i, "refused", Under(f.name, Rename(f.name, field)))

\* The connection breaks before the request, or after it, was carried out.
Lose(i) ==
  LET f == flights[i]
  IN /\ f.waited
     /\ flights' = [flights EXCEPT ![i].waited = FALSE,
                                   ![i].stage = IF f.stage = "sent" THEN @ ELSE "gone"]
     /\ unsure' = unsure \cup {<<f.n, f.edit>>}
     /\ Fail(i, "failed", {})

-----------------------------------------------------------------------------
(* The ways out. *)

\* The timer closes its own dialog; once its page was left, closing the
\* dialog in the URL of that page goes back there.
TimerFires(name) ==
  /\ name \in armed
  /\ armed' = armed \ {name}
  /\ page' = IF Write[name].opens = "query" THEN Write[name].page ELSE page
  /\ dlg' = IF dlg.open /\ SameDialog(dlg.name, name) THEN [dlg EXCEPT !.open = FALSE] ELSE dlg
  /\ UNCHANGED <<viewer, flights, commits, unsure, stale>>

\* Closing a dialog stops its timer.
Closed == /\ dlg' = [dlg EXCEPT !.open = FALSE, !.busy = FALSE]
          /\ armed' = armed \ {dlg.name}

\* A dialog on the write flow is busy as long as any of its requests is.
Busy == dlg.busy \/ (OnFlow(dlg.name) /\ Waiting(dlg.name))

CancelAnyway ==
  /\ dlg.open
  /\ Closed
  /\ UNCHANGED <<viewer, page, flights, commits, unsure, stale>>

\* Its own buttons do nothing while it is held.
Cancel ==
  /\ dlg.open /\ ~(Write[dlg.name].held /\ Busy)
  /\ Closed
  /\ UNCHANGED <<viewer, page, flights, commits, unsure, stale>>

\* The browser's way back asks no dialog: one in the URL of the page it was
\* opened from is closed.
Back ==
  /\ dlg.open /\ Write[dlg.name].opens = "query"
  /\ Closed
  /\ UNCHANGED <<viewer, page, flights, commits, unsure, stale>>

LeaveTimers ==
  /\ \E p \in Detours \ {page} : page' = p
  /\ dlg' = [dlg EXCEPT !.open = FALSE, !.busy = FALSE]
  /\ flights' = [i \in DOMAIN flights |-> [flights[i] EXCEPT !.here = FALSE]]
  /\ UNCHANGED <<viewer, armed, commits, unsure, stale>>

\* Leaving unmounts the page: its timers stop and its requests go on.
Leave ==
  /\ \E panel \in VisiblePanels : \E p \in (panel.leads \cap Detours) \ {page} : page' = p
  /\ dlg' = [dlg EXCEPT !.open = FALSE, !.busy = FALSE]
  /\ armed' = armed \ {dlg.name}
  /\ flights' = [i \in DOMAIN flights |-> [flights[i] EXCEPT !.here = FALSE]]
  /\ UNCHANGED <<viewer, commits, unsure, stale>>

Next ==
  \/ \E name \in Names : Open(name) \/ TimerFires(name)
  \/ Edit \/ Reseed \/ Refuse \/ Submit \/ Render \/ SubmitInDemo \/ Cancel \/ Back \/ Leave
  \/ \E i \in DOMAIN flights :
       CarryOut(i) \/ Succeed(i) \/ Refused(i) \/ Lose(i)

\* A timer that was set fires.
Spec == Init /\ [][Next]_vars /\ \A name \in Names : WF_vars(TimerFires(name))

-----------------------------------------------------------------------------
(* Properties. *)

\* Nobody is offered what the server will answer with 403, so that a role's
\* grants mean the same on both sides, and no panel shows a read that is
\* refused.  The settings page asks nothing before
\* it offers its writes, and the goal dialogs ask for goals, not for contacts.
Ungated ==
  {"SequenceSave", "CategoryCreate", "CategorySave", "CategoryToggle", "CategoryReorder",
   "CategoryDelete", "ContactInline"}

OfferedIsAllowed ==
  ~viewer.demo =>
    /\ \A name \in Names \ Ungated : Offered(name) => Write[name].route.needs \subseteq viewer.may
    /\ \A panel \in VisiblePanels : \A r \in panel.reads : ReadNeeds(r) \subseteq viewer.may

\* The dialogs that have one request under way at a time: a lock that every
\* request of its page holds, or a busy state that nothing ends but the answer.
\* The inline contact form can be cancelled while it is busy and the goal forms
\* are filled anew, so the answer of one request can release the next one.
Alone(name) ==
  \A m \in Names : SameDialog(m, name) =>
    /\ Write[m].guard \in {"lock", "state"} /\ Write[m].held /\ Write[m].opens = "state"
    /\ m \notin Reseeded

Exclusive(name) ==
  \/ Alone(name)
  \/ Write[name].guard = "lock" /\ \A m \in Names : SameDialog(m, name) => m = name

\* One submission is carried out once, however often it is clicked: always where
\* the dialog keeps one key, and otherwise, where requests go one at a time,
\* unless its answer was lost. Buttons that rely on the rendered flag of their
\* request promise nothing.
AppliedOnce ==
  \A i \in DOMAIN flights :
    LET f == flights[i]
    IN commits[<<f.n, f.edit>>] > 1 =>
         /\ Write[f.name].key /= "dialog"
         /\ Exclusive(f.name) => <<f.n, f.edit>> \in unsure

\* The answer of one opening of a dialog is never taken for that of a later
\* one, where the dialog is held while it is busy and no URL can close it.
OwnAnswers ==
  [][\A i \in DOMAIN flights :
       /\ flights[i].waited /\ ~flights'[i].waited /\ dlg' /= dlg /\ Alone(dlg.name)
       => flights[i].n = dlg.n]_vars

\* What a success leaves as it was cached, until it grows old and is asked for
\* anew. Nothing refreshes the list of audit events.
RecordLags ==
  {"transaction", "attention", "forecast", "suggestions", "search", "linkSearch", "categories"}

Lags(name) ==
  {"activity"} \cup
  CASE name = "AccountCreate" -> {"search", "forecast"}
    [] name = "AccountArchive" -> {"search", "forecast", "reconciliations"}
    [] name = "AccountEdit" -> RecordLags \cup {"reviews", "reconciliations"}
    [] name = "TransactionCreate" -> RecordLags \cup {"sequences"}
    [] name \in {"TransactionEdit", "TransactionDelete", "TransactionDeleteAtHome"} -> RecordLags
    [] name = "GoalTransaction" -> RecordLags \cup {"goal", "sequences"}
    [] name = "ImportCommit" ->
         (RecordLags \ {"attention"}) \cup {"insights", "reviews", "sequences", "importSession"}
    [] name \in {"ImportDiscard", "ImportCancel"} -> {"importSession"}
    [] name \in {"BudgetCreate", "BudgetEdit", "BudgetDelete", "ClaimReview"} -> {"attention"}
    [] name = "ClaimSubmit" -> {"attention", "search"}
    [] name \in {"GoalCreate", "GoalEdit"} -> {"attention", "goal", "contacts"}
    [] name \in {"GoalDelete", "GoalProgress", "GoalLink", "GoalReschedule", "GoalLifecycle"} ->
         {"attention", "goal"}
    [] name \in {"BillSave", "BillUpdate", "BillDelete"} -> {"forecast", "suggestions"}
    [] name = "SuggestionDecide" -> {"forecast"}
    [] name \in {"ContactUpdate", "ContactDelete"} ->
         {"goals", "goal", "transaction", "linkSearch", "dashboard"}
    [] name \in {"CategorySave", "CategoryDelete"} ->
         {"ruleCategories", "transactions", "transaction", "linkSearch", "search", "dashboard",
          "insights", "suggestions", "attention"}
    [] name \in {"CategoryCreate", "CategoryToggle", "CategoryReorder"} -> {"ruleCategories"}
    [] name = "JoinRequestReview" -> {"members"}
    [] name \in {"NotificationRead", "NotificationsReadAll"} -> {"dashboard"}
    [] OTHER -> {}

\* Once nothing is under way and no answer was lost, every read the server
\* would answer differently has been refreshed, whoever was where when the
\* answers came, except for those that the writes sent leave as they were.
SettledIsFresh ==
  (unsure = {} /\ \A i \in DOMAIN flights : ~flights[i].waited) =>
    stale \subseteq UNION {Lags(flights[i].name) : i \in DOMAIN flights}

\* Only the viewer moves the viewer: a save that is confirmed after its page
\* was left opens no page, except for the dialogs of the write flow in a URL.
StaysAway ==
  [][\A name \in Names : TimerFires(name) /\ page' /= page => OnFlow(name)]_vars

\* What was saved does not stay open.
SavedCloses ==
  (dlg.open /\ dlg.said = "saved" /\ Write[dlg.name].ends = "timer") ~> ~dlg.open
=============================================================================
