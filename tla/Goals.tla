------------------------------- MODULE Goals -------------------------------
(***************************************************************************)
(* Goals: an amount saved towards a target. Progress is recorded, taken     *)
(* from an existing transaction (a link), or recorded together with a new   *)
(* transaction. Each request carries an idempotency key and leaves an       *)
(* action record; the unique index is on (goal, key), and a key is looked   *)
(* up first for its goal and then for the whole workspace.                  *)
(*                                                                          *)
(* A request reads the goal, the transaction and the key before the MongoDB *)
(* transaction in which persistGoalProgress writes the goal and the action  *)
(* record. Both writers of a goal write its document, so that transaction   *)
(* is one step; what was read before it may be stale.                       *)
(*                                                                          *)
(* One workspace; every caller may manage goals and create transactions.    *)
(* Currencies, accounts and directions agree: their checks do not race.     *)
(***************************************************************************)
EXTENDS Integers, Sequences, FiniteSets, SequencesExt, Sums

CONSTANTS
  GoalIds, Targets,      \* targets a goal is created with or edited to
  Opening,               \* the amount each goal is created with
  Editable,              \* bound: goals that UpdateGoal is called on
  Keys, Amounts,
  Existing,              \* transactions that belong to no goal
  Fresh,                 \* _ids of transactions created for a goal
  Calls,                 \* requests for progress, in flight at once
  Requests,              \* what they may ask
  Editors,               \* concurrent CancelGoal and ReopenGoal calls
  Deletable,             \* bound: transactions somebody deletes
  None

VARIABLES
  goal,         \* goals: _id -> record, or None once deleted
  tx,           \* transactions: _id -> record, or None
  actions,      \* goal_action_idempotency
  pc, request,  \* each call: where it stands and what it asks
  link,         \* the transaction as LinkGoalTransaction read it
  intent        \* the goal and the change each editor has decided on

vars == <<goal, tx, actions, pc, request, link, intent>>

Transactions == Existing \cup Fresh
Kinds == {"progress", "linked_transaction", "transaction"}
GoalRecords == [current : Nat, target : Targets, cancelled : BOOLEAN, linked : Seq(Transactions)]
TransactionRecords == [amount : Amounts, goal : GoalIds \cup {None},
                       origin : (GoalIds \X Keys) \cup {None}]
Fingerprints == [kind : Kinds, goal : GoalIds, tx : Transactions \cup {None}, amount : Amounts]
ActionRecords == [goal : GoalIds, key : Keys, tx : Transactions \cup {None},
                  fingerprint : Fingerprints]
Changes == [goal : GoalIds, cancelled : BOOLEAN]

ASSUME GoalAssumption ==
  /\ Targets \subseteq Nat \ {0} /\ Amounts \subseteq Nat \ {0}
  /\ Opening \in [GoalIds -> Nat]
  /\ Existing \cap Fresh = {} /\ Deletable \subseteq Transactions /\ Editable \subseteq GoalIds
  /\ None \notin GoalIds \cup Keys \cup Transactions \cup Requests
  /\ None \notin GoalRecords \cup TransactionRecords \cup Changes
ASSUME RequestAssumption ==
  \A r \in Requests : /\ r.kind \in Kinds /\ r.goal \in GoalIds /\ r.key \in Keys
                      /\ r.kind = "linked_transaction" => r.tx \in Transactions
                      /\ r.kind # "linked_transaction" => r.amount \in Amounts /\ r.tx = None

---------------------------------------------------------------------------
(* Keys and fingerprints *)

\* The fingerprint covers the goal, the action and its effect; for a link, the
\* transaction as it is stored now.
Fingerprint(c) ==
  LET r == request[c]
  IN  [kind |-> r.kind, goal |-> r.goal, tx |-> r.tx,
       amount |-> IF r.kind = "linked_transaction" THEN link[c].amount ELSE r.amount]

\* findGoalAction: the record of this goal and key, else any record of the key.
Known(g, k) ==
  LET exact == {a \in actions : a.goal = g /\ a.key = k}
  IN  IF exact # {} THEN exact ELSE {a \in actions : a.key = k}

Matches(c, a) == a.fingerprint = Fingerprint(c)

\* A repeated request is answered with the goal, by existingGoalActionResult with
\* its transaction as well; a changed one is refused.
AnswerWith(c, transactionToo) ==
  \E a \in Known(request[c].goal, request[c].key) :
    LET available == /\ goal[a.goal] # None
                     /\ transactionToo /\ a.tx # None => tx[a.tx] # None
    IN  pc' = [pc EXCEPT ![c] = IF Matches(c, a) /\ available THEN "replayed" ELSE "failed"]

Answer(c) == AnswerWith(c, FALSE)
AnswerInFull(c) == AnswerWith(c, TRUE)

Unknown(c) == Known(request[c].goal, request[c].key) = {}
Fail(c) == pc' = [pc EXCEPT ![c] = "failed"]

---------------------------------------------------------------------------
(* A request for progress *)

Remaining(g) == IF goal[g].current > goal[g].target THEN 0
                ELSE goal[g].target - goal[g].current
Open(g, amount) == ~goal[g].cancelled /\ amount <= Remaining(g)

Start(c, r) ==
  /\ pc[c] = "idle"
  /\ request' = [request EXCEPT ![c] = r]
  /\ pc' = [pc EXCEPT ![c] = "start"]
  /\ UNCHANGED <<goal, tx, actions, link, intent>>

\* RecordGoalProgress and the lookup of persistGoalProgress.
BeginProgress(c) ==
  /\ pc[c] = "start" /\ request[c].kind = "progress"
  /\ IF goal[request[c].goal] = None THEN Fail(c)
     ELSE IF Unknown(c) THEN pc' = [pc EXCEPT ![c] = "persist"] ELSE Answer(c)
  /\ UNCHANGED <<goal, tx, actions, request, link, intent>>

ReadLinkedTransaction(c) ==
  /\ pc[c] = "start" /\ request[c].kind = "linked_transaction"
  /\ IF tx[request[c].tx] = None
     THEN Fail(c) /\ link' = link
     ELSE /\ link' = [link EXCEPT ![c] = tx[request[c].tx]]
          /\ pc' = [pc EXCEPT ![c] = "goal"]
  /\ UNCHANGED <<goal, tx, actions, request, intent>>

Linkable(c) ==
  LET g == request[c].goal
  IN  /\ Open(g, link[c].amount) /\ link[c].goal \in {None, g}
      /\ ~Contains(goal[g].linked, request[c].tx)

SeenIfLinkable(c) == ~Unknown(c) /\ Linkable(c)
\* Looked up before the link is validated, which an applied one would fail.
Seen(c) == ~Unknown(c)

BeginLink(c) ==
  /\ pc[c] = "goal"
  /\ IF goal[request[c].goal] = None THEN Fail(c)
     ELSE IF Seen(c) THEN AnswerInFull(c)
     ELSE pc' = [pc EXCEPT ![c] = IF Linkable(c) THEN "lookup" ELSE "failed"]
  /\ UNCHANGED <<goal, tx, actions, request, link, intent>>

\* The lookup with which persistGoalProgress begins.
LookupLink(c) ==
  /\ pc[c] = "lookup"
  /\ IF Unknown(c) THEN pc' = [pc EXCEPT ![c] = "persist"] ELSE Answer(c)
  /\ UNCHANGED <<goal, tx, actions, request, link, intent>>

Progressed(g, amount, t) ==
  [goal[g] EXCEPT !.current = @ + amount,
                  !.linked = IF t = None THEN @ ELSE Append(@, t)]

Action(c, t) == [goal |-> request[c].goal, key |-> request[c].key, tx |-> t,
                 fingerprint |-> Fingerprint(c)]

\* Validated by the reads before the transaction only.
MayPersistUnchecked(g, k, amount) ==
  goal[g] # None /\ \A a \in actions : ~(a.goal = g /\ a.key = k)
MayPersistAgain(g, k, amount) == goal[g] # None /\ Open(g, amount)
\* What the transaction finds when it runs, whatever was read before.
MayPersist(g, k, amount) ==
  /\ goal[g] # None /\ Open(g, amount)
  /\ \A a \in actions : ~(a.goal = g /\ a.key = k)      \* unique index

Persist(c) ==
  LET r == request[c]
      amount == Fingerprint(c).amount
  IN  /\ pc[c] = "persist" /\ MayPersist(r.goal, r.key, amount)
      /\ goal' = [goal EXCEPT ![r.goal] = Progressed(r.goal, amount, r.tx)]
      /\ actions' = actions \cup {Action(c, r.tx)}
      /\ pc' = [pc EXCEPT ![c] = "applied"]
      /\ UNCHANGED <<tx, request, link, intent>>

AbortPersist(c) ==
  /\ pc[c] = "persist"
  /\ ~MayPersist(request[c].goal, request[c].key, Fingerprint(c).amount)
  /\ pc' = [pc EXCEPT ![c] = "recover"]
  /\ UNCHANGED <<goal, tx, actions, request, link, intent>>

\* After any error the key is looked up again: the effect may be a retry's.
Recover(c) ==
  /\ pc[c] = "recover"
  /\ IF Unknown(c) THEN Fail(c) ELSE Answer(c)
  /\ UNCHANGED <<goal, tx, actions, request, link, intent>>

\* CreateGoalTransaction up to its outer transaction.
BeginCreate(c) ==
  LET r == request[c]
  IN  /\ pc[c] = "start" /\ r.kind = "transaction"
      /\ IF goal[r.goal] = None THEN Fail(c)
         ELSE IF ~Unknown(c) THEN AnswerInFull(c)
         ELSE pc' = [pc EXCEPT ![c] = IF Open(r.goal, r.amount) THEN "create" ELSE "failed"]
      /\ UNCHANGED <<goal, tx, actions, request, link, intent>>

\* CreateTransaction with the key derived from goal and key: a stored one is
\* returned, and deleting a transaction deletes its idempotency record.
Posted(g, k) == {t \in Transactions : tx[t] # None /\ tx[t].origin = <<g, k>>}
NewIds == {t \in Fresh : tx[t] = None /\ \A a \in actions : a.tx # t}

\* One outer transaction: CreateTransaction, then persistGoalProgress joins it.
CreateAndPersist(c) ==
  LET r == request[c]
      posted == Posted(r.goal, r.key)
  IN  /\ pc[c] = "create" /\ goal[r.goal] # None
      /\ \E t \in IF posted # {} THEN posted ELSE NewIds :
           /\ tx' = IF posted # {} THEN tx
                    ELSE [tx EXCEPT ![t] = [amount |-> r.amount, goal |-> r.goal,
                                            origin |-> <<r.goal, r.key>>]]
           /\ \/ /\ Unknown(c) /\ MayPersist(r.goal, r.key, r.amount)
                 /\ goal' = [goal EXCEPT ![r.goal] = Progressed(r.goal, r.amount, t)]
                 /\ actions' = actions \cup {Action(c, t)}
                 /\ pc' = [pc EXCEPT ![c] = "applied"]
              \/ /\ \E a \in Known(r.goal, r.key) : Matches(c, a)
                 /\ pc' = [pc EXCEPT ![c] = "replayed"]
                 /\ UNCHANGED <<goal, actions>>
      /\ UNCHANGED <<request, link, intent>>

\* Any refusal, of the transaction itself included, undoes both; the lookup
\* that follows runs in the aborted transaction and finds nothing.
AbortCreate(c) ==
  /\ pc[c] = "create" /\ Fail(c)
  /\ UNCHANGED <<goal, tx, actions, request, link, intent>>

---------------------------------------------------------------------------
(* The other operations on goals and transactions *)

ReadCancellation(e, g, cancelled) ==
  /\ intent[e] = None /\ goal[g] # None /\ goal[g].cancelled # cancelled
  /\ intent' = [intent EXCEPT ![e] = [goal |-> g, cancelled |-> cancelled]]
  /\ UNCHANGED <<goal, tx, actions, pc, request, link>>

\* CancelGoal or ReopenGoal: the update is not conditional on what was read.
SetGoalCancellation(e) ==
  LET i == intent[e]
  IN  /\ i # None
      /\ goal' = IF goal[i.goal] = None THEN goal
                 ELSE [goal EXCEPT ![i.goal].cancelled = i.cancelled]
      /\ intent' = [intent EXCEPT ![e] = None]
      /\ UNCHANGED <<tx, actions, pc, request, link>>

\* The editor's form carries an amount of its own, which replaces the stored one.
UpdateGoal(g, current, target) ==
  /\ goal[g] # None /\ current <= target
  /\ goal' = [goal EXCEPT ![g].current = current, ![g].target = target]
  /\ UNCHANGED <<tx, actions, pc, request, link, intent>>

DeleteGoal(g) ==
  /\ goal[g] # None /\ goal' = [goal EXCEPT ![g] = None]
  /\ UNCHANGED <<tx, actions, pc, request, link, intent>>

\* A blank goal keeps the one the transaction has.
UpdateTransaction(t, amount, g) ==
  /\ tx[t] # None /\ goal[g] # None
  /\ tx' = [tx EXCEPT ![t].amount = amount, ![t].goal = g]
  /\ UNCHANGED <<goal, actions, pc, request, link, intent>>

\* Progress made with the transaction stays.
DeleteTransaction(t) ==
  /\ tx[t] # None /\ tx' = [tx EXCEPT ![t] = None]
  /\ UNCHANGED <<goal, actions, pc, request, link, intent>>

---------------------------------------------------------------------------
\* A goal is created with an amount of its own, up to its target.
Init ==
  /\ \E target \in [GoalIds -> Targets] :
       /\ \A g \in GoalIds : Opening[g] <= target[g]
       /\ goal = [g \in GoalIds |-> [current |-> Opening[g], target |-> target[g],
                                    cancelled |-> FALSE, linked |-> <<>>]]
  /\ \E amount \in [Existing -> Amounts] :
       tx = [t \in Transactions |->
               IF t \in Existing THEN [amount |-> amount[t], goal |-> None, origin |-> None]
               ELSE None]
  /\ actions = {} /\ pc = [c \in Calls |-> "idle"]
  /\ request = [c \in Calls |-> None] /\ link = [c \in Calls |-> None]
  /\ intent = [e \in Editors |-> None]

CallStep(c) ==
  \/ \E r \in Requests : Start(c, r)
  \/ BeginProgress(c) \/ ReadLinkedTransaction(c) \/ BeginLink(c) \/ LookupLink(c)
  \/ Persist(c) \/ AbortPersist(c) \/ Recover(c)
  \/ BeginCreate(c) \/ CreateAndPersist(c) \/ AbortCreate(c)

Next ==
  \/ \E c \in Calls : CallStep(c)
  \/ \E e \in Editors : \/ \E g \in GoalIds, b \in BOOLEAN : ReadCancellation(e, g, b)
                        \/ SetGoalCancellation(e)
  \/ \E g \in Editable : \/ \E target \in Targets : \E current \in 0 .. target :
                              UpdateGoal(g, current, target)
                         \/ DeleteGoal(g)
  \/ \E t \in Deletable : \/ DeleteTransaction(t)
                          \/ \E amount \in Amounts, g \in GoalIds : UpdateTransaction(t, amount, g)

Spec == Init /\ [][Next]_vars

---------------------------------------------------------------------------
(* Properties *)

\* The types of goals, transactions, action records and calls in flight.
TypeOK ==
  /\ goal \in [GoalIds -> GoalRecords \cup {None}]
  /\ tx \in [Transactions -> TransactionRecords \cup {None}]
  /\ actions \subseteq ActionRecords
  /\ pc \in [Calls -> {"idle", "start", "goal", "lookup", "persist", "recover", "create",
                       "applied", "replayed", "failed"}]
  /\ request \in [Calls -> Requests \cup {None}]
  /\ link \in [Calls -> TransactionRecords \cup {None}]
  /\ intent \in [Editors -> Changes \cup {None}]

\* A goal never holds more than its target, although requests validated against
\* one amount and target are persisted against others.
WithinTarget == \A g \in GoalIds : goal[g] # None => goal[g].current <= goal[g].target

\* Two calls with one key never both make progress on one goal.
AppliedOnce ==
  \A c, d \in Calls :
    /\ c # d /\ pc[c] = "applied" /\ pc[d] = "applied"
    => request[c].goal # request[d].goal \/ request[c].key # request[d].key

\* What each action recorded on a goal added to it.
Progress(g) == [a \in {b \in actions : b.goal = g} |-> a.fingerprint.amount]

\* The amount a goal was created with and the progress recorded since add up to
\* its amount, unless its editor has replaced that amount.
ProgressAddsUp ==
  \A g \in GoalIds \ Editable : goal[g].current = Opening[g] + Total(Progress(g))

\* "Same-key identical retries return the prior result": a call fails only while
\* no record of its very request exists, or what it would return was deleted.
RetryReplays ==
  [][\A c \in Calls :
       pc[c] \notin {"idle", "failed"} /\ pc'[c] = "failed" =>
         \/ goal[request[c].goal] = None
         \/ request[c].kind = "linked_transaction" /\ tx[request[c].tx] = None
         \/ \A a \in actions : \/ a.goal # request[c].goal \/ a.key # request[c].key
                               \/ a.fingerprint # Fingerprint(c)
                               \/ a.tx # None /\ tx[a.tx] = None
                               \/ pc[c] = "create"]_vars
=============================================================================
