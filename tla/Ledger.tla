------------------------------ MODULE Ledger ------------------------------
(***************************************************************************)
(* The ledger core of the Ledgerly API: creating, editing and deleting      *)
(* financial transactions, with everything one commit touches - account and *)
(* vault balances, the user-facing numbering sequences, the idempotency     *)
(* collection, the workspace ledger version and the audit revisions.        *)
(*                                                                          *)
(* A creation request reads and validates OUTSIDE its MongoDB transaction   *)
(* and commits inside it, so it is a small process with a program counter.  *)
(* Updates and deletions run wholly inside one transaction and are single   *)
(* steps: every such transaction increments workspaces.ledger_version, so   *)
(* two of them always write-conflict and the driver re-runs the loser.      *)
(* UpdateAccount and the sequence PATCH read outside what they later write  *)
(* and are split in two steps.                                              *)
(***************************************************************************)
EXTENDS Integers, FiniteSets, Sequences, Sums

CONSTANTS
  Accounts,               \* accounts of one workspace, all in one currency
  Vaults,                 \* the vaults that hold them
  VaultOf,                \* account -> its vault, fixed at creation
  Requests,               \* creation requests; each names the _id newID() gives it
  Keys,                   \* pairs (user, Idempotency-Key)
  Destinations,           \* what a body may name as its destination: any id, or None
  Inputs,                 \* request bodies clients send
  Openings,               \* opening balances a client may enter
  FirstOpening,           \* account -> the opening balance it was created with
  VaultOpening,           \* vault -> the opening balance it was created with
  Statuses,               \* active (TRUE) or inactive, as a client may enter it
  Categories,             \* what the enabled automation rules turn a body into
  Editors,                \* concurrent UpdateAccount calls
  Admins,                 \* concurrent PATCH /transaction-sequences calls
  Patches,                \* bodies of those calls
  Digits,                 \* values of minimum_digits
  DefaultDigits,          \* DefaultTransactionSequenceMinimumDigits
  MaxMoneyMinor,          \* the monetary bound
  MaximumDigits,          \* digits of the longest identifier
  MaximumSequenceNumber,  \* the last number a sequence can issue
  MaxLedgerVersion,       \* bound: ledger mutations explored
  None                    \* no record, no value

VARIABLES
  opening, balance,       \* accounts.opening_minor, accounts.balance_minor
  archived, inactive,     \* accounts with archived:true / status "inactive"
  vaultBalance,           \* vaults.balance_minor
  tx,                     \* transactions: _id -> record, or None
  nextNumber, autoGenerate, minimumDigits,     \* transaction_sequences, per scope
  idem,                   \* idempotency: key -> the request whose response it stores
  lapsed,                 \* requests whose idempotency record is past expires_at
  ledgerVersion,          \* workspaces.ledger_version
  revisions,              \* audit_events of entity_type "transaction", in commit order
  rules,                  \* the enabled automation rules
  pc, key, body,          \* creation requests
  editor, admin           \* what UpdateAccount and PATCH calls read before they write

books     == <<opening, balance, archived, inactive, vaultBalance>>
numbering == <<nextNumber, autoGenerate, minimumDigits>>
history   == <<tx, ledgerVersion, revisions>>
calls     == <<pc, key, body>>
vars == <<books, history, numbering, idem, lapsed, rules, calls, editor, admin>>

---------------------------------------------------------------------------
(* Values *)

Types  == {"expense", "income", "transfer", "refund", "reimbursement", "adjustment"}
Scopes == {"expense", "income", "transfer", "split"}
Money  == -MaxMoneyMinor .. MaxMoneyMinor

\* A user-facing identifier is a digit string: its number and its length.
\* "5" and "0005" are different identifiers with the same number.
Identifiers  == [number : 1 .. MaximumSequenceNumber, width : Nat]
\* Only the destination of a transfer is validated.
Directed(x)  == x.type = "transfer" => x.dest \in Accounts /\ x.dest # x.account
Transactions == {x \in [type : Types, account : Accounts, dest : Destinations,
                        amount : 1 .. MaxMoneyMinor, id : Identifiers, scope : Scopes] :
                   Directed(x)}
Bodies       == [input : Inputs, category : Categories]

ASSUME BoundsAssumption ==
  /\ MaxMoneyMinor \in Nat \ {0}
  /\ MaximumSequenceNumber \in Nat \ {0}
  /\ MaxLedgerVersion \in Nat /\ MaximumDigits \in Nat
  /\ Digits \subseteq Nat /\ DefaultDigits \in Digits
ASSUME AccountAssumption ==
  /\ IsFiniteSet(Accounts) /\ VaultOf \in [Accounts -> Vaults]
  /\ Openings \subseteq Money
  /\ FirstOpening \in [Accounts -> Money] /\ VaultOpening \in [Vaults -> Money]
  /\ Statuses \subseteq BOOLEAN
\* What CreateTransaction refuses before it reads anything; None for the
\* identifier asks for an automatic one.
ASSUME InputAssumption ==
  \A in \in Inputs :
    /\ in.type \in Types /\ in.split \in BOOLEAN
    /\ in.account \in Accounts /\ in.dest \in Destinations
    /\ Directed(in)
    /\ in.amount \in 1 .. MaxMoneyMinor
    /\ in.id \in Identifiers \cup {None}
ASSUME PatchAssumption ==
  \A p \in Patches :
    /\ p.scope \in Scopes
    /\ p.auto \in BOOLEAN \cup {None}
    /\ p.next \in (1 .. MaximumSequenceNumber) \cup {None}
    /\ p.digits \in Digits \cup {None}
ASSUME NoneAssumption ==
  /\ None \notin Requests \cup Accounts \cup Identifiers \cup Transactions
  /\ None \in Destinations

TransactionSequenceScope(type, split) ==
  CASE split -> "split"
    [] ~split /\ type = "transfer" -> "transfer"
    [] ~split /\ type \in {"income", "refund", "reimbursement"} -> "income"
    [] ~split /\ type \in {"expense", "adjustment"} -> "expense"

DecimalDigits(n) == Cardinality({k \in 0 .. MaximumDigits - 1 : 10 ^ k <= n})

FormatTransactionSequenceNumber(n, digits) ==
  [number |-> n,
   width  |-> IF digits < DecimalDigits(n) THEN DecimalDigits(n) ELSE digits]

\* The signed amount a record moves on its source account.
SourceDelta(x) ==
  CASE x.type \in {"expense", "transfer"} -> -x.amount
    [] x.type \in {"income", "refund", "reimbursement"} -> x.amount
    [] x.type = "adjustment" -> 0

\* The account that receives what a record moves. Other records may store a
\* destination; no balance follows it.
Receiver(x) == IF x.type = "transfer" THEN x.dest ELSE None

\* What a record contributes to the balance of an account or of a vault. A
\* transfer inside one vault leaves the vault alone.
AccountEffect(x, a) ==
  CASE x = None -> 0
    [] x # None /\ a = x.account -> SourceDelta(x)
    [] x # None /\ a # x.account /\ a = Receiver(x) -> x.amount
    [] x # None /\ a # x.account /\ a # Receiver(x) -> 0

CrossVault(x) == Receiver(x) # None /\ VaultOf[Receiver(x)] # VaultOf[x.account]

VaultEffectOfSource(x, v) ==
  IF x # None /\ v = VaultOf[x.account] /\ (Receiver(x) = None \/ CrossVault(x))
  THEN SourceDelta(x) ELSE 0
VaultEffect(x, v) ==
  CASE x = None -> 0
    [] x # None /\ v = VaultOf[x.account] -> IF Receiver(x) = None \/ CrossVault(x)
                                             THEN SourceDelta(x) ELSE 0
    [] x # None /\ v # VaultOf[x.account] -> IF CrossVault(x) /\ v = VaultOf[Receiver(x)]
                                             THEN x.amount ELSE 0

\* The range filter of every balance update: the document is matched only when
\* the result stays within the monetary bound.
CanAddToCurrent(b, delta) == b \in Money
CanAdd(b, delta) ==
  LET minimum == IF delta < 0 THEN -MaxMoneyMinor - delta ELSE -MaxMoneyMinor
      maximum == IF delta > 0 THEN MaxMoneyMinor - delta ELSE MaxMoneyMinor
  IN  minimum <= b /\ b <= maximum

CanPost(x, bal, vbal) ==
  /\ \A a \in Accounts : CanAdd(bal[a], AccountEffect(x, a))
  /\ \A v \in Vaults   : CanAdd(vbal[v], VaultEffect(x, v))

CanReverse(x) ==
  /\ \A a \in Accounts : CanAdd(balance[a], -AccountEffect(x, a))
  /\ \A v \in Vaults   : CanAdd(vaultBalance[v], -VaultEffect(x, v))

ReplaceWithoutReversal(old, new) ==
  /\ balance' = [a \in Accounts |-> balance[a] + AccountEffect(new, a)]
  /\ vaultBalance' = [v \in Vaults |-> vaultBalance[v] + VaultEffect(new, v)]
  /\ UNCHANGED <<opening, archived, inactive>>
\* One account and one vault entry per document the change touches.
Replace(old, new) ==
  /\ balance' = [a \in Accounts |->
                   balance[a] - AccountEffect(old, a) + AccountEffect(new, a)]
  /\ vaultBalance' = [v \in Vaults |->
                   vaultBalance[v] - VaultEffect(old, v) + VaultEffect(new, v)]
  /\ UNCHANGED <<opening, archived, inactive>>

ReviseWithoutBefore(t, before, after) ==
  /\ tx' = [tx EXCEPT ![t] = after]
  /\ ledgerVersion' = ledgerVersion + 1
  /\ revisions' = Append(revisions, [version |-> ledgerVersion + 1, tx |-> t,
                                     before |-> None, after |-> after])
\* advanceLedgerVersion and the transaction revision written with it.
Revise(t, before, after) ==
  /\ tx' = [tx EXCEPT ![t] = after]
  /\ ledgerVersion' = ledgerVersion + 1
  /\ revisions' = Append(revisions, [version |-> ledgerVersion + 1, tx |-> t,
                                     before |-> before, after |-> after])

AccountsOf(x) == {x.account, Receiver(x)} \ {None}

OpenSource(x) == x.account \notin archived
\* No touched account is archived.
Open(x) == AccountsOf(x) \cap archived = {}

UnclaimNothing(t) == idem
\* The idempotency collection without the record of transaction t.
Unclaim(t) == [k \in Keys |-> IF idem[k] = t THEN None ELSE idem[k]]

UnclaimedAnyway(k) == TRUE
\* The unique index on (user_id, key), expired records included.
Unclaimed(k) == idem[k] = None

IdentifierTaken(scope, id) ==
  \E t \in Requests : tx[t] # None /\ tx[t].scope = scope /\ tx[t].id = id

ReserveNothing(scope, id) == nextNumber' = nextNumber
ReserveItself(scope, id) ==
  nextNumber' = [nextNumber EXCEPT ![scope] = IF @ < id.number THEN id.number ELSE @]
\* ReserveManualTransactionID: $max next_number (number + 1).
Reserve(scope, id) ==
  nextNumber' = [nextNumber EXCEPT ![scope] = IF @ < id.number + 1 THEN id.number + 1 ELSE @]

---------------------------------------------------------------------------
(* Creating a transaction: CreateTransaction, then CreateFinancialTransaction *)

\* requireAccount and accountIsInactive for the accounts of a body.
Usable(in) == AccountsOf(in) \cap (archived \cup inactive) = {}

\* The body is validated, and the automation rules applied to it, outside any
\* transaction. Later steps use what was read here.
CreateTransaction(r, k, in) ==
  /\ pc[r] = "idle"
  /\ key' = [key EXCEPT ![r] = k]
  /\ body' = [body EXCEPT ![r] = [input |-> in, category |-> rules]]
  /\ pc' = [pc EXCEPT ![r] = IF Usable(in) THEN "validated" ELSE "rejected"]
  /\ UNCHANGED <<books, history, numbering, idem, lapsed, rules, editor, admin>>

Answer(r, outcome) == pc' = [pc EXCEPT ![r] = outcome] /\ UNCHANGED <<key, body>>

\* releaseExpiredIdempotencyKey, then idempotentResult: an expired record is
\* deleted, an active one answers the request or refuses a changed body.
IdempotentResult(r) ==
  LET found == IF idem[key[r]] \in lapsed THEN None ELSE idem[key[r]]
  IN  /\ pc[r] = "validated"
      /\ idem' = [idem EXCEPT ![key[r]] = found]
      /\ \/ found = None /\ Answer(r, "ready")
         \/ found # None /\ body[found] = body[r] /\ Answer(r, "replayed")
         \/ found # None /\ body[found] # body[r] /\ Answer(r, "conflict")
      /\ UNCHANGED <<books, history, numbering, lapsed, rules, editor, admin>>

Scope(r)     == TransactionSequenceScope(body[r].input.type, body[r].input.split)
Automatic(r) == body[r].input.id = None
Allocatable(s) == autoGenerate[s] /\ nextNumber[s] <= MaximumSequenceNumber

\* The record a commit of r inserts.
Prepared(r) ==
  LET in == body[r].input  s == Scope(r)
  IN  [type |-> in.type, account |-> in.account, dest |-> in.dest,
       amount |-> in.amount, scope |-> s,
       id |-> IF Automatic(r) THEN FormatTransactionSequenceNumber(nextNumber[s], minimumDigits[s])
              ELSE in.id]

\* The identifier is prepared first; the unique identifier index is consulted
\* again by the insert. These failures end the request at once: only ErrConflict
\* and raw duplicate-key errors are looked up again.
RefuseIdentifier(r) ==
  /\ pc[r] = "ready"
  /\ \/ Automatic(r) /\ ~autoGenerate[Scope(r)] /\ Answer(r, "disabled")
     \/ Automatic(r) /\ autoGenerate[Scope(r)] /\ ~Allocatable(Scope(r)) /\ Answer(r, "exhausted")
     \/ /\ IdentifierTaken(Scope(r), Prepared(r).id)
        /\ Automatic(r) => Allocatable(Scope(r)) /\ Unclaimed(key[r])
        /\ Answer(r, "duplicate")
  /\ UNCHANGED <<books, history, numbering, idem, lapsed, rules, editor, admin>>

Identified(r) ==
  IF Automatic(r) THEN Allocatable(Scope(r))
  ELSE ~IdentifierTaken(Scope(r), body[r].input.id)

\* The unique (user, key) index refuses the claim, or a filtered balance update
\* matches nothing; the transaction aborts and the key is looked up again.
AbortCommit(r) ==
  LET x == Prepared(r)
  IN  /\ pc[r] = "ready" /\ Identified(r)
      /\ \/ ~Unclaimed(key[r])
         \/ /\ ~IdentifierTaken(Scope(r), x.id)
            /\ ~Open(x) \/ ~CanPost(x, balance, vaultBalance)
      /\ Answer(r, "recover")
      /\ UNCHANGED <<books, history, numbering, idem, lapsed, rules, editor, admin>>

CommitTransaction(r) ==
  LET x == Prepared(r)
  IN  /\ pc[r] = "ready" /\ Identified(r)
      /\ ledgerVersion < MaxLedgerVersion
      /\ Unclaimed(key[r])
      /\ ~IdentifierTaken(Scope(r), x.id)
      /\ Open(x) /\ CanPost(x, balance, vaultBalance)
      /\ IF Automatic(r) THEN nextNumber' = [nextNumber EXCEPT ![Scope(r)] = @ + 1]
         ELSE Reserve(Scope(r), x.id)
      /\ idem' = [idem EXCEPT ![key[r]] = r]
      /\ Replace(None, x)
      /\ Revise(r, None, x)
      /\ Answer(r, "created")
      /\ UNCHANGED <<autoGenerate, minimumDigits, lapsed, rules, editor, admin>>

\* idempotentResult again, with the clock reading of the first lookup: whatever
\* is stored now was written after that reading, so it counts as active.
RecoverResult(r) ==
  /\ pc[r] = "recover"
  /\ Answer(r, IF idem[key[r]] # None /\ body[idem[key[r]]] = body[r]
               THEN "replayed" ELSE "conflict")
  /\ UNCHANGED <<books, history, numbering, idem, lapsed, rules, editor, admin>>

---------------------------------------------------------------------------
(* Editing and deleting a transaction: one MongoDB transaction each *)

\* Unlike a creation, an edit clears the destination of a non-transfer.
Amended(t, in) ==
  [type |-> in.type, account |-> in.account, dest |-> Receiver(in), amount |-> in.amount,
   scope |-> tx[t].scope,
   id |-> IF in.id = None THEN tx[t].id ELSE in.id]

\* The new accounts must not be archived; the old ones may be. The old effect is
\* reversed and the new one applied, each under the range filter.
UpdateTransaction(t, in) ==
  LET old == tx[t]  new == Amended(t, in)
  IN  /\ old # None /\ ledgerVersion < MaxLedgerVersion
      /\ Open(new)
      /\ IF new.id = old.id THEN UNCHANGED nextNumber
         ELSE ~IdentifierTaken(new.scope, new.id) /\ Reserve(new.scope, new.id)
      /\ CanReverse(old)
      /\ CanPost(new, [a \in Accounts |-> balance[a] - AccountEffect(old, a)],
                      [v \in Vaults |-> vaultBalance[v] - VaultEffect(old, v)])
      /\ Replace(old, new)
      /\ Revise(t, old, new)
      /\ UNCHANGED <<autoGenerate, minimumDigits, idem, lapsed, rules, calls, editor, admin>>

\* The idempotency record of the transaction goes with it.
DeleteTransaction(t) ==
  /\ tx[t] # None /\ ledgerVersion < MaxLedgerVersion
  /\ CanReverse(tx[t])
  /\ Replace(tx[t], None)
  /\ Revise(t, tx[t], None)
  /\ idem' = Unclaim(t)
  /\ UNCHANGED <<numbering, lapsed, rules, calls, editor, admin>>

---------------------------------------------------------------------------
(* Accounts *)

\* UpdateAccount reads the account, and computes the change of its opening
\* balance, before it opens its transaction.
ReadAccount(e, a, o, active) ==
  /\ editor[e] = None /\ a \notin archived
  /\ editor' = [editor EXCEPT ![e] = [account |-> a, opening |-> o, active |-> active,
                                      delta |-> o - opening[a]]]
  /\ UNCHANGED <<books, history, numbering, idem, lapsed, rules, calls, admin>>

Rebasable(c) ==
  /\ c.account \notin archived
  /\ c.delta # 0 => /\ CanAdd(balance[c.account], c.delta)
                    /\ CanAdd(vaultBalance[VaultOf[c.account]], c.delta)

UpdateAccount(e) ==
  LET c == editor[e]  a == c.account
  IN  /\ c # None /\ Rebasable(c)
      /\ opening' = [opening EXCEPT ![a] = c.opening]
      /\ balance' = [balance EXCEPT ![a] = @ + c.delta]
      /\ vaultBalance' = [vaultBalance EXCEPT ![VaultOf[a]] = @ + c.delta]
      /\ inactive' = IF c.active THEN inactive \ {a} ELSE inactive \cup {a}
      /\ editor' = [editor EXCEPT ![e] = None]
      /\ UNCHANGED <<archived, history, numbering, idem, lapsed, rules, calls, admin>>

AbortUpdateAccount(e) ==
  /\ editor[e] # None /\ ~Rebasable(editor[e])
  /\ editor' = [editor EXCEPT ![e] = None]
  /\ UNCHANGED <<books, history, numbering, idem, lapsed, rules, calls, admin>>

ArchiveAccount(a) ==
  /\ a \notin archived
  /\ archived' = archived \cup {a}
  /\ UNCHANGED <<opening, balance, inactive, vaultBalance, history, numbering, idem,
                 lapsed, rules, calls, editor, admin>>

---------------------------------------------------------------------------
(* Numbering settings, automation rules, the clock *)

Given(value, current) == IF value = None THEN current ELSE value

\* UpdateTransactionSequence merges the body into the settings it just read.
ReadSequence(d, p) ==
  LET s == p.scope
  IN  /\ admin[d] = None
      /\ admin' = [admin EXCEPT ![d] = [scope |-> s, next |-> Given(p.next, nextNumber[s]),
                                        auto |-> Given(p.auto, autoGenerate[s]),
                                        digits |-> Given(p.digits, minimumDigits[s])]]
      /\ UNCHANGED <<books, history, numbering, idem, lapsed, rules, calls, editor>>

\* PatchTransactionSequence writes all three fields when next_number has not
\* passed the requested value, and is refused otherwise.
PatchSequence(d) ==
  LET c == admin[d]
  IN  /\ c # None
      /\ \/ /\ nextNumber[c.scope] <= c.next
            /\ nextNumber' = [nextNumber EXCEPT ![c.scope] = c.next]
            /\ autoGenerate' = [autoGenerate EXCEPT ![c.scope] = c.auto]
            /\ minimumDigits' = [minimumDigits EXCEPT ![c.scope] = c.digits]
         \/ nextNumber[c.scope] > c.next /\ UNCHANGED numbering
      /\ admin' = [admin EXCEPT ![d] = None]
      /\ UNCHANGED <<books, history, idem, lapsed, rules, calls, editor>>

ChangeRules(c) ==
  /\ c # rules /\ rules' = c
  /\ UNCHANGED <<books, history, numbering, idem, lapsed, calls, editor, admin>>

\* Twenty-four hours after its commit an idempotency record stops counting ...
Lapse(r) ==
  /\ \E k \in Keys : idem[k] = r
  /\ lapsed' = lapsed \cup {r}
  /\ UNCHANGED <<books, history, numbering, idem, rules, calls, editor, admin>>

\* ... and the TTL monitor deletes it at some later time.
ExpireKey(k) ==
  /\ idem[k] \in lapsed
  /\ idem' = [idem EXCEPT ![k] = None]
  /\ UNCHANGED <<books, history, numbering, lapsed, rules, calls, editor, admin>>

---------------------------------------------------------------------------
Init ==
  /\ opening = FirstOpening /\ balance = FirstOpening
  /\ archived = {} /\ inactive = {}
  /\ vaultBalance = VaultOpening
  /\ tx = [r \in Requests |-> None]
  /\ nextNumber = [s \in Scopes |-> 1]
  /\ autoGenerate = [s \in Scopes |-> TRUE]
  /\ minimumDigits = [s \in Scopes |-> DefaultDigits]
  /\ idem = [k \in Keys |-> None] /\ lapsed = {}
  /\ ledgerVersion = 0 /\ revisions = <<>>
  /\ rules \in Categories
  /\ pc = [r \in Requests |-> "idle"]
  /\ key = [r \in Requests |-> None] /\ body = [r \in Requests |-> None]
  /\ editor = [e \in Editors |-> None] /\ admin = [d \in Admins |-> None]

Next ==
  \/ \E r \in Requests : \/ \E k \in Keys, in \in Inputs : CreateTransaction(r, k, in)
                         \/ IdempotentResult(r)
                         \/ RefuseIdentifier(r)
                         \/ AbortCommit(r)
                         \/ CommitTransaction(r)
                         \/ RecoverResult(r)
                         \/ \E in \in Inputs : UpdateTransaction(r, in)
                         \/ DeleteTransaction(r)
                         \/ Lapse(r)
  \/ \E e \in Editors : \/ \E a \in Accounts, o \in Openings, active \in Statuses :
                             ReadAccount(e, a, o, active)
                        \/ UpdateAccount(e)
                        \/ AbortUpdateAccount(e)
  \/ \E a \in Accounts : ArchiveAccount(a)
  \/ \E d \in Admins : \/ \E p \in Patches : ReadSequence(d, p)
                       \/ PatchSequence(d)
  \/ \E c \in Categories : ChangeRules(c)
  \/ \E k \in Keys : ExpireKey(k)

Spec == Init /\ [][Next]_vars

---------------------------------------------------------------------------
(* Properties *)

Outcomes == {"idle", "validated", "ready", "recover", "created", "replayed",
             "rejected", "disabled", "exhausted", "duplicate", "conflict"}

\* The types of the collections and of the requests in flight.
TypeOK ==
  /\ opening \in [Accounts -> Money] /\ balance \in [Accounts -> Int]
  /\ vaultBalance \in [Vaults -> Int]
  /\ archived \subseteq Accounts /\ inactive \subseteq Accounts
  /\ tx \in [Requests -> Transactions \cup {None}]
  /\ nextNumber \in [Scopes -> Nat \ {0}]
  /\ autoGenerate \in [Scopes -> BOOLEAN] /\ minimumDigits \in [Scopes -> Digits]
  /\ idem \in [Keys -> Requests \cup {None}] /\ lapsed \subseteq Requests
  /\ ledgerVersion \in Nat
  /\ revisions \in Seq([version : Nat, tx : Requests,
                        before : Transactions \cup {None}, after : Transactions \cup {None}])
  /\ rules \in Categories
  /\ pc \in [Requests -> Outcomes]
  /\ key \in [Requests -> Keys \cup {None}] /\ body \in [Requests -> Bodies \cup {None}]
  /\ \A r \in Requests : pc[r] # "idle" => key[r] \in Keys /\ body[r] \in Bodies
  /\ editor \in [Editors -> [account : Accounts, opening : Money, active : BOOLEAN,
                             delta : Int] \cup {None}]
  /\ admin \in [Admins -> [scope : Scopes, next : Nat \ {0}, auto : BOOLEAN,
                           digits : Digits] \cup {None}]

\* Every balance the ledger stores stays within the monetary bound, whatever
\* order of creations, edits, deletions and opening-balance changes commits.
BalancesBounded ==
  /\ \A a \in Accounts : balance[a] \in Money
  /\ \A v \in Vaults : vaultBalance[v] \in Money

Stored == {t \in Requests : tx[t] # None}
Excess(n) == IF n > 0 THEN n ELSE 0

\* What the stored records bring to an account, and what they take from it.
Brought(a) == Total([t \in Stored |-> Excess(AccountEffect(tx[t], a))])
Taken(a)   == Total([t \in Stored |-> Excess(-AccountEffect(tx[t], a))])

AccountsAddUp == \A a \in Accounts : balance[a] = opening[a] + Brought(a) - Taken(a)

Held(v) == {a \in Accounts : VaultOf[a] = v}
\* What the accounts of a vault hold, each counted from the lowest balance allowed.
Above(b, v) == Total([a \in Held(v) |-> MaxMoneyMinor + b[a]])

VaultsAddUp ==
  \A v \in Vaults :
    vaultBalance[v] + Above(FirstOpening, v) = VaultOpening[v] + Above(balance, v)

\* Every account balance is its opening balance plus the effects of the live
\* transactions, and every vault has moved from its own opening balance by
\* exactly what its accounts have moved from theirs, after any history of
\* creations, edits, deletions, archivals and opening-balance changes. A missed
\* or doubled half of an update, on either side, breaks one of the two.
BalanceIntegrity == AccountsAddUp /\ VaultsAddUp

\* An automatic number is larger than every number its scope has ever carried,
\* those of deleted and renumbered transactions included: the audit log names
\* them all, and next_number stays above each of them.
HighWater ==
  \A i \in 1 .. Len(revisions) :
    LET x == revisions[i].after IN x # None => x.id.number < nextNumber[x.scope]

\* Automatic identifiers never meet the unique index: a request that asked for
\* one is never refused as a duplicate.
AutomaticNeverCollides ==
  \A r \in Requests : pc[r] = "duplicate" => ~Automatic(r)

\* The audit log is a faithful journal: versions are the consecutive ledger
\* versions, each revision starts where the previous revision of the same
\* transaction ended, and the last one shows the stored record (period reviews
\* recompute history from exactly this).
JournalComplete ==
  /\ Len(revisions) = ledgerVersion
  /\ \A i \in 1 .. Len(revisions) : revisions[i].version = i
  /\ \A t \in Requests :
       LET about == {i \in 1 .. Len(revisions) : revisions[i].tx = t}
       IN  /\ about = {} => tx[t] = None
           /\ \A i \in about :
                /\ (\A j \in about : j <= i) => revisions[i].after = tx[t]
                /\ (\A j \in about : i <= j) => revisions[i].before = None
                /\ \A j \in about :
                     (i < j /\ \A m \in about : m <= i \/ j <= m)
                       => revisions[j].before = revisions[i].after

\* One effect per idempotency key: a stored transaction whose idempotency record
\* has not expired is the one the key resolves to, so no second transaction can
\* have been created under that key.
SingleEffect ==
  \A r \in Requests : pc[r] = "created" /\ tx[r] # None /\ r \notin lapsed => idem[key[r]] = r

\* A key never resolves to a transaction that was deleted.
ReplayTargetsExist == \A k \in Keys : idem[k] # None => tx[idem[k]] # None

\* An archived account receives nothing new: no record created or edited after
\* the archival moves money on it, although requests validated before it may
\* commit after it. Deleting or moving away an old record is still allowed.
ArchivedFrozen ==
  [][\A t \in Requests : tx'[t] # tx[t] /\ tx'[t] # None
        => AccountsOf(tx'[t]) \cap archived = {}]_vars

\* A sequence never turns back, so a number that was handed out is not handed
\* out again after a deletion or a settings change.
NextNumberMonotone == [][\A s \in Scopes : nextNumber[s] <= nextNumber'[s]]_vars

---------------------------------------------------------------------------
(* What all of this promises: a book of entries *)

Books == INSTANCE Books WITH
  Entries <- Requests, Records <- Transactions, Effect <- AccountEffect,
  entry <- tx, resolves <- idem, posted <- {r \in Requests : pc[r] = "created"}

\* With one account editor at a time the ledger implements the book: every step is
\* one atomic change of it, or none (balances, keys and entries never disagree).
BooksSpec == Books!Spec
=============================================================================
