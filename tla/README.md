# Ledgerly in TLA+

Ledgerly is a shared household ledger: a Go API over MongoDB (`src/api`), a React
web client (`src/web`) and an Android shell around that client. What could corrupt
money, numbering or history lives in `src/api/internal`; what could show somebody
the wrong money, save it twice or lose the way out lives in `src/web/src`. These
modules model both.

MongoDB runs as a replica set. A service wraps a group of writes in
`RunTransaction` (snapshot reads, majority writes, run again on a write conflict,
`repository/unit_of_work.go:16-53`). Much of the code reads *before* it opens that
transaction, and some of it writes without one: that boundary is the subject of the
API modules. In the client the boundary is between an answer and the page, dialog or
session it finds when it arrives.

## Inventory

### API

| part | state it keeps | operations | what makes it correct |
|---|---|---|---|
| transactions and balances (`service/transactions.go`, `record_actions.go`, `deletions.go`, `repository/transaction.go`) | `transactions`, `accounts`, `vaults.balance_minor`, `idempotency`, `audit_events`, `workspaces.ledger_version` | create, update, delete, account edit and archive | balances equal opening plus records; one effect per key; the audit log is a journal |
| numbering (`repository/transaction_sequence.go`, `service/transaction_sequences.go`) | `transaction_sequences` per scope | allocate, reserve a manual number (`$max`), administrator PATCH | no number is issued twice |
| period reviews (`service/period_review*.go`) | `period_reviews` and, indirectly, revisions | create (close or review), totals per scope | a snapshot plus the later revisions explains today's totals |
| categories (`service/transaction_categories.go`) | `transaction_categories`, category text in transactions | seed, create, update, delete with reassignment, reorder | transactions follow a renamed category, one revision each |
| automation rules (`service/automation_rules.go`) | `automation_rules` | CRUD, application at creation, manual run | every change is revised |
| goals (`service/goal_actions.go`) | `goals`, `goal_action_idempotency`, links | progress, link or create a transaction, cancel, edit | progress equals its records; a key counts once |
| imports (`service/imports.go`) | `import_sessions` and their rows | upload, decide rows, commit, cancel | a draft is committed once, a transaction cleared once |
| membership (`service/members.go`, `collaboration.go`, `workspace_access.go`) | memberships, invitations, join requests | invite, accept, request, review, change role, remove | a workspace keeps an owner; a one-time grant is used once |
| reconciliation, recurring detection, migrations, rate limiter, sessions, contacts, notifications, insights, HTTP layer | single documents, or nothing | plain reads and writes | see *Not modelled* |

These parts interact through shared collections: every ledger mutation increments
`workspaces.ledger_version`, which serialises the transactions that do so; reviews
read the revisions those leave; category edits, rule runs, imports and goals rewrite
or create transactions.

### Web client

| part | state it keeps | operations | what makes it correct |
|---|---|---|---|
| write dialogs (`pages/finance-writes/*`, `pages/finance/*`) | open dialog, lock or busy state, errors, close timer, the cached reads | open, check, submit, answer, close, leave | one submission has one effect; what it changed is refreshed; only the viewer moves the viewer |
| pages and panels (`pages/finance/*`, `components/layout/*`) | none of their own | show reads, offer writes and links | nobody is offered what the API refuses |
| transactions page (`home-transactions.tsx`) | URL, a copy of the selected record, query cache | follow links, open, edit, delete, go back | the drawer shows what the URL asks for |
| layers (`components/ui.tsx`, `bottom-sheet.tsx`, `modal-isolation.ts`, `platform/*`) | open layers, body styles, inertness, back-layer stack, history | open, hand over, close in five ways | what is below is inert and locked, and afterwards as before |
| session (`context/app-context.tsx`, `platform/*`) | signed-in user, bearer token, PIN gate, local storage, its native mirror | sign in, register, unlock, sign out, list and change workspaces, restart | a device acts as one person at a time |
| motion components, charts, formatting, sharing, export | nothing durable | rendering | see *Not modelled* |

The client talks to the API by the routes in `Routes.tla`; its pages share one query
cache, its dialogs one URL, its layers one body element, and everything one bearer
token.

Hard behaviours on both sides: requests that validate against one state and commit
against another; retries under a key whose record is being written or has expired;
writes with no transaction around them; limits (a monetary bound, the last
identifier); answers that are late, lost, or meant for a dialog or a session that is
gone; a stop between the local storage and its mirror. `PROJECT.json` lists each at
its line under `hazards`.

## Modules

### Ledger and Books

`Ledger.tla` is the core: the collections above restricted to one workspace and one
currency. A creation is a process with a program counter, because it validates
(`CreateTransaction`), looks its key up (`IdempotentResult`), commits
(`CommitTransaction`, or `AbortCommit`/`RefuseIdentifier`) and after an abort looks
the key up again (`RecoverResult`), each against whatever is stored by then. Updates
and deletions run in one transaction that also increments `ledger_version`, so they
are single steps. `UpdateAccount` and the sequence PATCH are split where the code
reads outside what it writes.

| state | code |
|---|---|
| `tx`, `revisions`, `ledgerVersion` | `transactions`, transaction `audit_events`, `workspaces.ledger_version` |
| `opening`, `balance`, `archived`, `inactive`, `vaultBalance` | `accounts`, `vaults` |
| `nextNumber`, `autoGenerate`, `minimumDigits` | `transaction_sequences` |
| `idem`, `lapsed` | `idempotency` and the passing of `expires_at` |
| `pc`, `key`, `body`, `editor`, `admin` | what each call in flight has read |

An identifier is a number and a width: `"5"` and `"0005"` are different strings with
one number; the unique index is on the string, the reservation is by number. Inside
a commit the order of writes does not matter, so `CommitTransaction` is the
conjunction of their effects and the failing ones are the guards of `AbortCommit`
and `RefuseIdentifier`; *which* failure is met decides whether the key is looked up
again.

Every update of a balance is two: the account and, beside it, its vault
(`AccountEffect`, `VaultEffect`). `BalanceIntegrity` says so in two parts: `AccountsAddUp` counts
the stored records, `VaultsAddUp` compares each vault with its accounts, so that half
an update shows on one side or the other. A body may name a stored destination whatever
its type, because only an update clears it (`record_actions.go:433-435`); only a
transfer pays into it (`Receiver`).

`Books.tla` is the abstract specification: a book in which an entry and the balances
it moves change in one step, an entry is posted once, and a key that resolves to an
entry cannot post another. `Ledger!BooksSpec` states that the ledger implements it.

### Periods

Whether a review can be trusted later. It holds everything that makes a revision:
transactions added, edited and deleted, category migrations (one revision per record
inside one transaction), and the manual run of automation rules. A review reads much
and then increments the workspace document: `ReadReview` is its snapshot,
`CommitReview` its commit, refused (`RetryReview`) if the version moved.
`persistRuleRun` has no transaction: its three writes are three steps, and
`AbandonRun` may end it between any two. Visibility of a record (`Visible`) and
relevance of a revision (`Relevant`) are separate definitions because the code has
two, and they differ: a record of any type may name a destination (`Strangers` are
the ids that are no account of the workspace), for which the totals do not ask and the
revisions do. `ruled` is a history variable: the records a rule run has written. `Managers`
are the holders of `edit_all_transactions`.

### Goals

A request for progress reads the goal (and, for a link, the transaction), looks up
its key, and later persists in one transaction that checks the amount again
(`Persist`) or, on any failure, looks the key up once more (`Recover`).
`CreateGoalTransaction` wraps the creation and the progress in one outer transaction
(`CreateAndPersist`). A goal starts with the amount it was created with (`Opening`,
`planning.go:106`), which no action record stands for. Cancellation reads and then writes unconditionally; an edit
writes back the amount of its form. `goal_action_idempotency` is unique per goal and
key, while the lookup spans the workspace.

### Imports

A session goes from draft to completed or cancelled. Commit and cancel are one step
each; an upload and a row decision read the draft, work on it and write *all* rows
back (`ReadUpdate`, `ReadResolve`, then `WriteRows`), the upload under a condition on
the status, the decision without one. A row is what it says, its state, the decision
and the transaction it matches; likeness is `exact` or `likely`.

### Membership

Every operation first reads and validates (`Read`), then opens a transaction that
validates again in its own snapshot (`OpenTransaction`), then commits. MongoDB's
snapshot isolation protects what a transaction *writes*: `Commits` compares exactly
that, so the actor's own membership may be gone by then. `RetryTransaction` is the
driver's re-run after a write conflict. A membership carries the `_id` of what
created it, so that a user who left and came back is another document.

### Routes, Dialogs, Screens and Writes

`Routes.tla` says of each write route which permissions it needs, which cached reads
of the client it changes and which fields it may complain about, and of each read
what it needs. It is translated from the API, as is the table of roles. What a route
changes is put together from the collections it writes: `OfTransactions`,
`OfAccounts` and so on are all reads the server computes from one, the forecast and
the suggestions among them, and a category that is renamed or deleted changes what is
computed from the records it migrates.
`Dialogs.tla` has one record for every dialog or button of the client that writes:
who is offered it, what it calls, how it guards against a second submission, how it
ends, what it refreshes, and which fields it checks and can complain under.
`Screens.tla` has the panels of every page: who sees them, what they read, where they
lead. Both are data, and are read side by side with the component they describe.

`Writes.tla` is the machine that interprets them: one viewer, one page, one dialog,
the requests in flight, the commits on the server and the reads that have become
stale.

| action | code |
|---|---|
| `Open`, `Edit`, `Reseed`, `Refuse`, `Submit`, `Render` | the dialogs and `useWriteFlow` (`finance-writes/shared.ts`) |
| `SubmitInDemo` | the in-memory writes of the demo |
| `CarryOut`, `Refused`, `Lose` | the API, and the connection |
| `Succeed`, `TimerFires` | `onSuccess` and its 850 ms timer |
| `Cancel`, `Back`, `Leave` | the dialog's buttons, the browser, the links of the panels |

The queries retry nothing that writes, have no timeout, and are not fetched again on
focus, so an answer is late for as long as it likes.

### Listing

The transactions page with its URL, the browser's past, the query cache (which reads
are watched, idle, loading or failed), the copy in the drawer and the copy in the
edit dialog, one save and one deletion, and another member who may delete. The effect
that fits the drawer to the URL is an action of its own (`EffectDue`), which runs
before anything else the viewer does.

### Layers

Every layer of the client with its kind on a phone, a tablet and a wide screen, over
what it opens, what hands over to it, and whether a request keeps it busy. A layer
remembers the body styles and the inertness it finds and restores them on closing;
closing is by touch, Escape, an answer, the browser or Android's bridge, which first
asks the stack of back layers and then the history.

### Session

Sign-in, registration, the PIN gate, requests in flight with the token they were sent
with, sign-out, and the storage: `local` is written at once, `native` through one
queue per key, and `Restart` reads native over local. `torn` and `late` are history
variables for a mutation that was lost and an answer that came into another session.
`personal` stands for the name, profile, workspace, default-workspace and currency
keys together (a sign-in leaves the second last as it was, `app-context.tsx:275-285`;
no property reads it alone); what a start reads is what was read within three seconds
and without failure. The demo, which starts from a key of its own
(`app-context.tsx:84-95, 149-157, 181-209`, `auth-session.ts:17-18`), is left out: no
page calls `enterDemo`.

## Runs

| run | question | instance |
|---|---|---|
| `ledger_balances` | do balances, vaults and archival survive every interleaving, and is each step one of the book? | two requests, one editor, three accounts of two vaults that start at 0 and -1 (a transfer inside one and across, and a refund whose body names a destination), amounts 1 and 2 against the bound 3 so that every range filter refuses something |
| `ledger_requests` | are numbers ever reused or collided with, has a key one effect, is the audit log a journal? | two requests on one key or two, automatic and manual identifiers of two scopes, `0002` beside `2`, the sequence exhausted at 3, rules, expiry, one administrator |
| `ledger_two_editors` | finding | one request, two editors |
| `periods` | do a snapshot and the revisions since explain today; can reviews race? | two members (one approver and manager of rules), an account that changes visibility, two transactions (an expense, and an income that names a destination outside every scope), two reviewers, one rule run, four ledger versions; `Focus` keeps the second record one member's income beside spending, and allows two reviews in flight, or a rule run, only with one record and three versions, and a rule run beside one review at most, while the account is shared |
| `goals` | do racing and repeated requests count once? | two calls, two goals, two keys; target 3 with amounts 1 and 2, of which one goal starts with 1, so that one request fills it and two overfill either; an editor and deletions |
| `imports` | is a statement carried out once? | two sessions of two rows, one like the only transaction and one that may not parse, one editor |
| `membership` | who can become what? | a founder, an administrator or member, a user who may join; two calls, two invitations, one join request |
| `writes` | is a submission applied once, refreshed, confirmed and closed, and offered only to those allowed? | five viewers (owner, approver, a member who may invite, a viewer who manages goals, the demo), all writes, two openings, two requests, one change of the form, two pages to leave for |
| `layers` | is what lies below inert and locked, then as before, does each press of back lead nearer the way out, and do they lead out? | three widths, five openings, two pages visited |
| `session` | is the device one person's at a time, and is the mirror right at a restart? | two users, two sign-ins, one each of other requests, restarts and storage failures |
| `listing` | does the drawer show what the URL asks for? | one transaction that is listed and one that only a query finds, one step back, one mishap (a read or write that fails, or a deletion by another); by `Focus` at most one record is changed, whoever changes one uses one filter, or one record without a mishap, and after a mishap there is no save, and a deletion or open dialog only where no step back is left |
| `listing_own_saves` | finding | one transaction that is reached by a link, two fields |

*Bounds.* With `MaxLedgerVersion` 3 a creation, an edit and a deletion of one
record, or two creations and one change, fit: the longest dependency a Ledger
property spans. `periods` needs a fourth for a review before and after. Clients'
inputs are sets chosen so that every guard is met and refused. In `writes` two
openings are what one answer meeting the next opening needs, and two requests what a
second effect needs; each viewer differs from the others in what is offered. In
`layers` five openings reach three layers over one another and an opening after all
of them are gone. In `session` two sign-ins are what a leftover of the first needs.
Its constraint stops at a torn mirror: beyond it its properties are silent. Symmetry is only
over identifiers that nothing orders, and not used where liveness is checked.
Deadlock is not checked: every request may end and every viewer may stop.

*Fairness.* The API schedules nothing by itself: a request that fails is not tried
again by the server, a conflict is re-run only while its client waits, an expired
record stays for as long as the TTL monitor likes. So the API modules, `Session` and
`Listing` state safety only. `Writes` assumes that a timer that was set fires
(`WF(TimerFires)`), which the browser promises: what was saved closes
(`SavedCloses`). `Layers` assumes that a request in a busy layer is answered, one way
or the other, and that somebody presses back again and again (`WF(Answered)`,
`SF(BackPress)`): then they get out (`BackLeadsOut`). Strong fairness is the
viewer's persistence between other touches, not a promise of the code. What the code
promises of it needs no fairness and is a property of its own, `BackGetsCloser`: a
press either leaves or lessens `Presses`, which counts layers, pages and the dialog of
the URL.

*Known exceptions.* Some properties name what they leave out, because the code does
it: `Unexplained` in Periods, `Ungated` and `Lags` in Writes, the tablet hand-over and crossed layers in
Layers, `late` and `torn` in Session. Each is described below.

## Findings

* **Two opening-balance edits count their change twice** (`ledger_two_editors`).
  `UpdateAccount` computes the change of the opening balance from a read before its
  transaction (`record_actions.go:49`), then `$set`s the opening and `$inc`s the
  balance. Two edits from 0 to 2 leave opening 2 and balance 4.
* **A second edit takes back the first** (`listing_own_saves`). A record reached by a
  link is read as details, which no write invalidates (`home-transactions.tsx:2992`),
  and the page replaces its copy only by one with another id. Edited, saved and opened
  again by its link, it is shown as it was, and the next save sends it whole.

Met while modelling, without a run of their own:

* API: a rule run that stops between its writes leaves a change without a revision,
  or with a review between the two (`automation_rules.go:636`; such records are in
  `ruled` and outside `MoneyReconciles`). Two links of one transaction under two keys
  both count (`goal_actions.go:582`). A late decision rewrites the rows of a
  completed session (`imports.go:252`). An invitation is spent although its recipient
  already was a member and then left (`collaboration.go:177`). A racing retry with a
  manual identifier is refused as a duplicate (`transaction.go:163`). A change of
  permissions alone writes back the role it read (`members.go:137`). A review counts a
  transfer by its source, a revision is relevant only with both accounts
  (`transactions.go:347`). The same holds of any record that was created with a
  destination: its creation stores one of any type (`handler/finance.go:106`), the
  totals count it (`transactionQueryForScope`), and the cumulative difference drops its
  revisions when the destination is outside the scope
  (`period_review_aggregation.go:131-146`), although it is described as the difference
  from the snapshot (`api/README.md:194`). `MoneyReconciles` carries such records as
  `Unexplained` on both sides. The workspace-wide lookup of a goal key has no unique index
  behind it (`goal_actions.go:455`).
* Dialogs say "No data was changed." after an answer that was lost, although the
  server may have committed (`shared.ts:317`), and a second submission without a
  dialog-wide key then counts twice. Buttons that rely on the pending flag accept a
  second click before it is rendered. Settings offer their writes to everybody, and
  the goal dialogs offer a new contact to those who may not create one. A goal's
  refused `contactId` is shown under no field.
* A write of the write flow that succeeds after its page was left still arms the
  timer that closes its dialog in the URL, and so brings the viewer back.
* Reads named in `Lags` stay as they were cached, until they expire (60 s for the
  forecast). No write refreshes the forecast or the activity, although accounts,
  transactions and bills move the one and almost every write adds to the other. The
  suggestions and the search are refreshed by few of the writes that change them; the
  categories of the rule editor, which have a key of their own, by none. A category
  that is renamed or deleted leaves the transactions, the dashboard and the insights
  with its old name; a contact leaves goals and details with its; a goal that makes a
  contact leaves the contacts, a creation the sequences, an account that turns private
  the reviews, and a notification that is read the dashboard.
* Layers: a lower layer closed by Escape before the upper one leaves the page inert
  or locked (`modal-isolation.ts:30`); on a tablet the sheet that hands over to the
  workspace dialog lifts the dialog's scroll lock.
* Session: overlapping sign-ins, and answers that arrive in another session, mix two
  accounts; a restart just after a sign-out reads the credentials back from the
  native store (`app-context.tsx:372`); a workspace that was created is reported as
  failed when only the refresh failed (`workspace-management-dialogs.tsx:82`); a lost
  registration answer says that no account was created (`OnboardingPage.tsx:117`).
* Listing: a failed read of details silently removes the record from the URL; a
  deletion ends with the URL it was started from; after the browser's way back the
  drawer and the edit dialog can both be open, and the drawer shows the record before
  under the URL of the one it asks for, until that one is read. A deletion confirmed
  there is of the record that is seen, but one that ends there closes the drawer of
  another. The tap that asks for a deletion is not forgotten when the drawer changes
  records without closing (`record-action-drawer.tsx:71`), although the second tap is
  meant to be explicit (line 45).

## Proofs

Eight modules hold theorems, each for every value of the constants that satisfies the
named assumptions of its component, which every run evaluates. Nothing else is
assumed. Each safety theorem is Init, one step per action, and a QED by `PTL`.

| module | theorems | inductive invariant and why |
|---|---|---|
| `Sums_proofs` | lemmas only: one term put, dropped, changed or moved between sums | none. `Total` (`Sums.tla`) counts the units of a function's terms, so that a sum is a cardinality and its laws follow from those of finite sets, without induction over data |
| `Ledger_proofs` | `TypeCorrect`, `BoundedBalances`, `SequencesAdvance`, `NumbersNeverReused`, `AutomaticUnique` | `NumberInvariant`: the mark is above the audit log only if it is also above the stored records, because an edit keeps a number it did not reserve |
| | `OneEffectPerKey`, `KeysResolve`, `ArchiveFreezes`, `LedgerImplementsBooks` | `KeyInv`: a key resolves only to a standing request made under it, and nobody short of a commit has a record; the refinement assumes at most one editor (`OneEditor`), without which the first finding refutes it: `EditInv` says that the change an editor holds is still the difference to the stored opening |
| | `JournalFaithful` | `JournalComplete` is inductive as it stands, given the types: versions are consecutive, successive revisions of one record chain, and the last is the record |
| | `VaultsFollowAccounts` | `VaultsAddUp` itself: every step moves a vault by what it moves its accounts, and the sum over the accounts of a vault by the same, whoever edits what |
| | `BalancesAddUp` | both halves. For the accounts `BalanceInv`, with `EditInv` and `OneEditor`: finitely many records are stored, and each step moves a balance by what it adds to or takes from the two sums. What an account gains and what it loses are summed apart, because the terms of a sum are natural numbers |
| `Membership_proofs` | `MembershipTyped`, `OwnersRemain`, `OwnershipGranted`, `DecidedAtMostOnce`, `AdministratorsSafe` | `CallInv`: which facts a snapshot merely read still hold at the commit: an inviter to ownership is still an owner because no step touches one (`OwnersKept`), and an invitation's terms are never edited (`TermsKept`) |
| `Periods_proofs` | `PeriodsTyped`, `ClosedIsFinal`, `CheckpointsDiffer`, `SnapshotsFit` | `PeriodInv`: what a call found about the previous review (`Judged`), and what it captured of the records (`Current`), holds for as long as the ledger version has not moved, which is until it may commit |
| | `MoneyAddsUp` | `MoneyInv`: the totals balance over *every* set of records that no rule run has written, not only over all of them, because a rule run takes records out of the sums one by one. It counts a record only where it is relevant (`Value`); what a total has beyond that is its `Unexplained`, because a relevant record of the period is always visible |
| `Goals_proofs` | `GoalsTyped`, `NeverBeyondTarget`, `AppliedAtMostOnce`, `RetriesAreAnswered` | `GoalInv`: a call that applied has left its record (`Recorded`), there is one record per goal and key (`OneRecord`), and what a call has read fits where it stands (`Called`) |
| | `RecordsAddUp` | `ProgressInv`: finitely many records, and a goal without an editor stays and holds its opening plus the sum of its records. A new record enters the sum because `GoalInv` says its key is new |
| `Imports_proofs` | `ImportsTyped`, `ClearedAtMostOnce`, `CarriedOutAtMostOnce`, `ResultsAreEvidenced` | `ImportInv`: evidence belongs to completed sessions, one per row (`Carried`), and a transaction it cleared stays cleared while it is stored (`StaysCleared`) |
| `Shell_proofs`, of `Session` | `SessionTyped`, `IdentityIsOne`, `PinFollowsAccount`, `MirrorAgrees`, `StartsRemembered` | `DeviceInv`: with a whole mirror, what is queued is the local value (`Synced`), every stored value has one owner (`Owned`) and the gate holds theirs (`Held`); without late answers also `Single` |
| `Pages_proofs`, of `Writes` | `NobodyIsRefused` | none beyond types: it is a theorem about the tables, one lemma per page (`Covered`, `Readable`), that a gate covers what its route needs. Panels without a gate hold because every member has a role, and every role may read members (`MembersView`) |
| | `SubmissionsApplyOnce`, `AnswersToTheirOwn` | `OneAtATime` and `Held`: where a dialog is `Exclusive` at most one request waits in it, and where it is also `Alone`, the dialog is busy for exactly as long; `Sent`, `CarriedOut` and `NextUnsent`: what the server carried out was sent, one commit for each request that is done, and none yet of what the form holds before it is submitted again |
| | `ViewersStayAway` | `AtHome`: a timer, an open dialog and a request that is still waited for belong to the page that is shown, unless the write flow opens them by the URL |
| | `SettledReadsAreFresh` | `Accounted`: a cached read that differs was changed by a request that still waits, was lost, or names it in `Lags` |
| | `SavedDialogsRunOut` | `SavedRunsOut` itself, with the types and `OneDialog`: what opens, fills or submits a dialog anew takes its "saved" away (`NotYetSaved`), and a timer closes the dialog it was set for, because no write that ends by a timer shares one (`TimedAlone`) |
| `Pages_proofs`, of `Listing` | `DrawersMatch` | `ListingInv`: a read that is watched has come, failed, or is on its way (`Watched`), so that one that is not under way has answered; details hold the record they were read for (`Detailed`) |
| | `DeletionsStay` | `Stays`: until it is left or the viewer goes back, a deletion's drawer shows its record and the URL is the one it was started from, because the drawer holds its own buttons while it is busy |
| `Shell_proofs`, of `Layers` | `LeftAsFound`, `TopAnswers`, `PageStaysLocked` | `LayersInv`: while no layer closed beneath another, what a layer saved is what was right below it. A layer is open once (`Placed`); the lowest finds free styles, and the lowest sheet left the original that its microtask writes back (`Styled`); a framed layer found the page inert exactly if a modal layer lies below it (`PageIsolated`), and, one new at a time, each layer below inert exactly if another lies between (`LayersIsolated`). So closing the top gives back the state below it, and closing in an order that crosses nothing is closing the top again and again (`FromTheTop`) |
| | `EveryPressCounts` | `OnTheWay`: on Android the layers are a sequence of named entries and the trail one of pages, whatever was closed beneath what. `LayersInv` is silent once something crossed, so the shape of the layers is followed through every step again, without asking what a layer saved |

Proving corrected the model. `AppliedOnce` and `OwnAnswers` had held only within the
bounds of `writes`: the goal dialogs are filled anew while they are busy and the
inline contact form can be cancelled while it is, so that one answer releases the
next request. Both now bind the dialogs that are `Exclusive` or `Alone`, and say so.
A timer set by a dialog that a page's state had opened died with that page in the code
but not in the model; `LeadsBack` is what outlives it. The tables of `Routes` that
were functions put together from pieces are operators by `CASE`, and its `@@` and `:>`
are its own, so that the prover can evaluate them. `Listing` had been checked with one
transaction. Over two, what it claimed is false: after the way back the drawer may show
another record than the URL until that one is read, and a deletion that ends there
closes another drawer. `DrawerMatchesUrl` and `DeletionStays` now say when they hold,
`listing` has two transactions, and the first says what a third property,
that every link is answered, had said beside it.

In `Layers` the frames of all new layers were put together one by one and the order of
closing by filtering the stack; `Kept` and `Turns` say of both what holds, in terms the
prover can use, and `layers` reaches the same states.

`Pages_proofs` extends both `Writes` and `Listing`, and `Shell_proofs` both `Session`
and `Layers`, two machines side by side; that is why the second of each names its
specification, `ListingSpec` and `LayersSpec`.

Only model-checked: `SavedCloses` and `BackLeadsOut`, which are liveness under
fairness and beyond the prover. The safety each rests on is proved: a saved dialog's
timer runs for as long as it is open (`SavedDialogsRunOut`), and each press of back
leads nearer the way out (`EveryPressCounts`). What is left to TLC is that the timer
fires, that the request is answered and that the press comes. Every other property of
the passing runs is stated by a theorem.

## Not modelled

* Reconciliation, recurring detection, bills, contacts, saved names, notifications,
  budgets, workspaces and vaults: one document and one write each, guarded by a unique
  index at most. Who may write them, and from which dialog, is in Routes and Dialogs.
  Seeding and ordering of categories, and their admission by a later commit, are left
  out; their migration is in Periods.
* Rescheduling and sharing of goals, expense claims and rotation of join codes on the
  server; splits beyond their numbering scope; deletion of a workspace.
* Listing, export, insights, forecasts and the review drill-down on the server are
  reads.
* Parsing and formatting of dates, amounts, CSV columns and identifiers.
* API authentication, rate limiting, start-up migrations, configuration, seed data.
* MongoDB's failover: transactions ask for a majority.
* In the client: several tabs, the demo beyond what its dialogs do, theme and privacy keys, the contents of a wrong PIN,
  revocation of tokens, filters other than the search, paging, rotation of the screen
  while a layer is open, two layers opened in one frame, charts and motion components,
  and what a form's fields contain: a change of the form is a counter.
* The Android shell's own code, beyond its way back and its preferences as the client
  calls them, and the build scripts.

## What is left

In the order in which a mistake would cost most: reconciliation as the separate
writes it is (`reconciliations.go:78`) beside ledger mutations of the account; seeding
and admission of categories (`transaction_categories.go:141-178, 688-735`); start-up
migration run by two replicas and stopped half-way (`db/migrations.go:297`), refining
one atomic back-fill; acceptance of one recurring suggestion by two callers
(`recurring_detection.go:157`).
