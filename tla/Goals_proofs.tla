---------------------------- MODULE Goals_proofs ----------------------------
(***************************************************************************)
(* Theorems about Goals, for any goals, keys, transactions, requests and    *)
(* editors: no goal exceeds its target, two requests with one key make      *)
(* progress once, and a repeated request is answered with its record.       *)
(***************************************************************************)
EXTENDS Goals, Sums_proofs

-----------------------------------------------------------------------------
(* The inductive invariant *)

\* What a call has read by the time it stands where it does.
Called ==
  \A c \in Calls :
    /\ pc[c] # "idle" => request[c] \in Requests
    /\ pc[c] \in {"goal", "lookup"} => request[c].kind = "linked_transaction"
    /\ pc[c] = "create" => request[c].kind = "transaction"
    /\ pc[c] \notin {"idle", "start"} /\ request[c].kind = "linked_transaction"
         /\ pc[c] # "failed" => link[c] \in TransactionRecords

\* The unique index on goal and key.
OneRecord == \A a, b \in actions : a.goal = b.goal /\ a.key = b.key => a = b

\* Progress leaves a record of its key.
Recorded ==
  \A c \in Calls : pc[c] = "applied" =>
    \E a \in actions : a.goal = request[c].goal /\ a.key = request[c].key

GoalInv == TypeOK /\ Called /\ WithinTarget /\ OneRecord /\ Recorded /\ AppliedOnce

LEMMA TargetsPositive ==
  /\ \A n \in Targets : n \in Nat /\ n > 0
  /\ \A n \in Amounts : n \in Nat /\ n > 0
BY GoalAssumption

-----------------------------------------------------------------------------
(* Requests *)

\* The fingerprint of a request that got so far as to persist.
LEMMA FingerprintTyped ==
  ASSUME GoalInv, NEW c \in Calls, pc[c] \in {"goal", "lookup", "persist", "recover", "create"}
  PROVE  /\ Fingerprint(c) \in Fingerprints
         /\ request[c].goal \in GoalIds /\ request[c].key \in Keys
         /\ request[c].tx \in Transactions \cup {None}
         /\ request[c].kind # "linked_transaction" =>
              Fingerprint(c).amount = request[c].amount
<1>1. request[c] \in Requests
  BY DEF GoalInv, Called
<1>2. /\ request[c].kind \in Kinds /\ request[c].goal \in GoalIds /\ request[c].key \in Keys
      /\ request[c].kind = "linked_transaction" => request[c].tx \in Transactions
      /\ request[c].kind # "linked_transaction" => request[c].amount \in Amounts
                                                   /\ request[c].tx = None
  BY <1>1, RequestAssumption
<1>3. request[c].kind = "linked_transaction" => link[c] \in TransactionRecords
  BY DEF GoalInv, Called
<1>4. request[c].kind = "linked_transaction" => link[c].amount \in Amounts
  BY <1>3 DEF TransactionRecords
<1> QED
  BY <1>2, <1>4 DEF Fingerprint, Fingerprints

\* A call that makes no progress leaves what the other calls rely on.
LEMMA CallMoves ==
  ASSUME GoalInv, NEW c \in Calls, NEW at,
         at \in {"start", "goal", "lookup", "persist", "recover", "create", "replayed", "failed"},
         pc' = [pc EXCEPT ![c] = at], \A d \in Calls : d # c => request'[d] = request[d],
         UNCHANGED <<goal, actions>>, TypeOK', Called'
  PROVE  GoalInv'
<1>1. \A d \in Calls : pc'[d] = "applied" => d # c /\ pc[d] = "applied"
  <2>1. pc'[c] = at /\ at # "applied" /\ \A d \in Calls : d # c => pc'[d] = pc[d]
    BY DEF GoalInv, TypeOK
  <2> QED
    BY <2>1
<1>2. WithinTarget' /\ OneRecord'
  BY DEF GoalInv, WithinTarget, OneRecord
<1>3. Recorded' /\ AppliedOnce'
  BY <1>1 DEF GoalInv, Recorded, AppliedOnce
<1> QED
  BY <1>2, <1>3 DEF GoalInv

\* A call that moves on with what it has read.
LEMMA CallKeeps ==
  ASSUME GoalInv, NEW c \in Calls, pc[c] # "idle", NEW at,
         at \in {"goal", "lookup", "persist", "recover", "create", "replayed", "failed"},
         pc' = [pc EXCEPT ![c] = at],
         at \in {"goal", "lookup"} => request[c].kind = "linked_transaction",
         at = "create" => request[c].kind = "transaction",
         at # "failed" /\ request[c].kind = "linked_transaction" =>
           link'[c] \in TransactionRecords,
         \A d \in Calls : d # c => link'[d] = link[d],
         link' \in [Calls -> TransactionRecords \cup {None}],
         tx' \in [Transactions -> TransactionRecords \cup {None}],
         UNCHANGED <<goal, actions, request, intent>>
  PROVE  GoalInv'
<1>1. /\ pc'[c] = at /\ \A d \in Calls : d # c => pc'[d] = pc[d]
      /\ request' = request
  BY DEF GoalInv, TypeOK
<1>2. TypeOK'
  BY DEF GoalInv, TypeOK
<1>3. Called'
  <2> SUFFICES ASSUME NEW d \in Calls
               PROVE  /\ pc'[d] # "idle" => request[d] \in Requests
                      /\ pc'[d] \in {"goal", "lookup"} => request[d].kind = "linked_transaction"
                      /\ pc'[d] = "create" => request[d].kind = "transaction"
                      /\ pc'[d] \notin {"idle", "start"} /\ pc'[d] # "failed"
                           /\ request[d].kind = "linked_transaction"
                         => link'[d] \in TransactionRecords
    BY <1>1 DEF Called
  <2>1. CASE d = c
    BY <1>1, <2>1 DEF GoalInv, Called
  <2>2. CASE d # c
    BY <1>1, <2>2 DEF GoalInv, Called
  <2> QED
    BY <2>1, <2>2
<1> QED
  BY <1>1, <1>2, <1>3, CallMoves

LEMMA StartStep ==
  ASSUME GoalInv, NEW c \in Calls, NEW r \in Requests, Start(c, r) PROVE GoalInv'
<1>1. /\ request' = [request EXCEPT ![c] = r] /\ pc' = [pc EXCEPT ![c] = "start"]
      /\ UNCHANGED <<goal, tx, actions, link, intent>>
  BY DEF Start
<1>2. TypeOK'
  BY <1>1 DEF GoalInv, TypeOK
<1>3. Called'
  BY <1>1 DEF GoalInv, TypeOK, Called
<1>4. \A d \in Calls : d # c => request'[d] = request[d]
  BY <1>1 DEF GoalInv, TypeOK
<1> QED
  BY <1>1, <1>2, <1>3, <1>4, CallMoves

\* An answer ends a call.
LEMMA AnswerEnds ==
  ASSUME NEW c \in Calls, NEW inFull, AnswerWith(c, inFull)
  PROVE  \E at \in {"replayed", "failed"} : pc' = [pc EXCEPT ![c] = at]
BY DEF AnswerWith

\* The reads and refusals of a request.
LEMMA ReadingStep ==
  ASSUME GoalInv, NEW c \in Calls,
         \/ BeginProgress(c) \/ ReadLinkedTransaction(c) \/ BeginLink(c) \/ LookupLink(c)
         \/ AbortPersist(c) \/ Recover(c) \/ BeginCreate(c) \/ AbortCreate(c)
  PROVE  GoalInv'
<1>1. /\ link \in [Calls -> TransactionRecords \cup {None}]
      /\ tx \in [Transactions -> TransactionRecords \cup {None}]
  BY DEF GoalInv, TypeOK
<1>2. CASE ReadLinkedTransaction(c)
  <2>1. /\ pc[c] = "start" /\ request[c].kind = "linked_transaction"
        /\ UNCHANGED <<goal, tx, actions, request, intent>>
    BY <1>2 DEF ReadLinkedTransaction
  <2>2. request[c].tx \in Transactions
    BY <2>1, RequestAssumption DEF GoalInv, Called
  <2>3. CASE tx[request[c].tx] = None
    BY <1>1, <1>2, <2>1, <2>3, CallKeeps DEF ReadLinkedTransaction, Fail
  <2>4. CASE tx[request[c].tx] # None
    <3>1. /\ link' = [link EXCEPT ![c] = tx[request[c].tx]] /\ pc' = [pc EXCEPT ![c] = "goal"]
          /\ tx[request[c].tx] \in TransactionRecords
      BY <1>1, <1>2, <2>2, <2>4 DEF ReadLinkedTransaction
    <3>2. /\ link' \in [Calls -> TransactionRecords \cup {None}]
          /\ link'[c] \in TransactionRecords /\ \A d \in Calls : d # c => link'[d] = link[d]
      BY <1>1, <3>1
    <3> QED
      BY <1>1, <2>1, <3>1, <3>2, CallKeeps
  <2> QED
    BY <2>3, <2>4
<1>3. CASE BeginProgress(c)
  <2>1. /\ pc[c] = "start" /\ request[c].kind = "progress"
        /\ UNCHANGED <<goal, tx, actions, request, link, intent>>
        /\ \E at \in {"failed", "persist", "replayed"} : pc' = [pc EXCEPT ![c] = at]
    BY <1>3, AnswerEnds DEF BeginProgress, Fail, Answer
  <2> QED
    BY <1>1, <2>1, CallKeeps
<1>4. CASE BeginLink(c) \/ LookupLink(c)
  <2>1. /\ pc[c] \in {"goal", "lookup"}
        /\ UNCHANGED <<goal, tx, actions, request, link, intent>>
        /\ \E at \in {"failed", "persist", "replayed", "lookup"} : pc' = [pc EXCEPT ![c] = at]
    BY <1>4, AnswerEnds DEF BeginLink, LookupLink, Fail, Answer, AnswerInFull
  <2>2. request[c].kind = "linked_transaction" /\ link[c] \in TransactionRecords
    BY <2>1 DEF GoalInv, Called
  <2> QED
    BY <1>1, <2>1, <2>2, CallKeeps
<1>5. CASE AbortPersist(c) \/ Recover(c)
  <2>1. /\ pc[c] \in {"persist", "recover"}
        /\ UNCHANGED <<goal, tx, actions, request, link, intent>>
        /\ \E at \in {"failed", "recover", "replayed"} : pc' = [pc EXCEPT ![c] = at]
    BY <1>5, AnswerEnds DEF AbortPersist, Recover, Fail, Answer
  <2>2. request[c].kind = "linked_transaction" => link[c] \in TransactionRecords
    BY <2>1 DEF GoalInv, Called
  <2> QED
    BY <1>1, <2>1, <2>2, CallKeeps
<1>6. CASE BeginCreate(c)
  <2>1. /\ pc[c] = "start" /\ request[c].kind = "transaction"
        /\ UNCHANGED <<goal, tx, actions, request, link, intent>>
        /\ \E at \in {"failed", "create", "replayed"} : pc' = [pc EXCEPT ![c] = at]
    BY <1>6, AnswerEnds DEF BeginCreate, Fail, AnswerInFull
  <2> QED
    BY <1>1, <2>1, CallKeeps
<1>7. CASE AbortCreate(c)
  BY <1>1, <1>7, CallKeeps DEF AbortCreate, Fail
<1> QED
  BY <1>2, <1>3, <1>4, <1>5, <1>6, <1>7

-----------------------------------------------------------------------------
(* Progress *)

\* Progress changes the amount and the links of a goal.
LEMMA ProgressedTyped ==
  ASSUME NEW g \in GoalIds, goal[g] \in GoalRecords, NEW amount \in Nat,
         NEW t \in Transactions \cup {None}
  PROVE  /\ Progressed(g, amount, t) \in GoalRecords
         /\ Progressed(g, amount, t).current = goal[g].current + amount
         /\ Progressed(g, amount, t).target = goal[g].target
<1> DEFINE next == Progressed(g, amount, t)
           sum == goal[g].current + amount
           linked == IF t = None THEN goal[g].linked ELSE Append(goal[g].linked, t)
<1>1. sum \in Nat /\ linked \in Seq(Transactions)
  BY DEF GoalRecords
<1>2. next = [goal[g] EXCEPT !.current = sum, !.linked = linked]
  BY DEF Progressed, GoalRecords
<1> HIDE DEF next, linked, sum
<1>3. next \in GoalRecords /\ next.current = sum /\ next.target = goal[g].target
  BY <1>1, <1>2 DEF GoalRecords
<1> QED
  BY <1>3 DEF next, sum

\* Progress within what the transaction itself finds: under the target, and the
\* first with its key.
LEMMA ProgressMade ==
  ASSUME GoalInv, NEW c \in Calls, pc[c] \in {"persist", "create"},
         NEW amount, amount = Fingerprint(c).amount,
         MayPersist(request[c].goal, request[c].key, amount),
         NEW t \in Transactions \cup {None},
         goal' = [goal EXCEPT ![request[c].goal] = Progressed(request[c].goal, amount, t)],
         actions' = actions \cup {Action(c, t)}, pc' = [pc EXCEPT ![c] = "applied"],
         tx' \in [Transactions -> TransactionRecords \cup {None}],
         UNCHANGED <<request, link, intent>>
  PROVE  GoalInv'
<1> DEFINE g == request[c].goal
           next == Progressed(g, amount, t)
<1>1. /\ Fingerprint(c) \in Fingerprints /\ g \in GoalIds /\ request[c].key \in Keys
  BY FingerprintTyped
<1>2. amount \in Nat
  BY <1>1, GoalAssumption DEF Fingerprints
<1>3. /\ goal[g] \in GoalRecords /\ goal[g].current <= goal[g].target
      /\ goal[g].current \in Nat /\ goal[g].target \in Nat
  BY <1>1, TargetsPositive DEF GoalInv, TypeOK, MayPersist, WithinTarget, GoalRecords
<1>4. goal[g].current + amount <= goal[g].target
  BY <1>2, <1>3 DEF MayPersist, Open, Remaining
<1>5. /\ next \in GoalRecords /\ next.current <= next.target
  <2>1. /\ next \in GoalRecords /\ next.current = goal[g].current + amount
        /\ next.target = goal[g].target
    BY <1>1, <1>2, <1>3, ProgressedTyped
  <2> QED
    BY <1>4, <2>1
<1>6. Action(c, t) \in ActionRecords
  BY <1>1 DEF Action, ActionRecords
<1>7. Action(c, t).goal = g /\ Action(c, t).key = request[c].key
  BY DEF Action
<1> HIDE DEF next
<1>8. /\ pc'[c] = "applied" /\ \A d \in Calls : d # c => pc'[d] = pc[d]
      /\ goal' = [goal EXCEPT ![g] = next] /\ request' = request
  BY DEF GoalInv, TypeOK, next
<1>9. TypeOK'
  BY <1>1, <1>5, <1>6, <1>8 DEF GoalInv, TypeOK
<1>10. Called'
  BY <1>8 DEF GoalInv, Called
<1>11. WithinTarget'
  BY <1>5, <1>8 DEF GoalInv, TypeOK, WithinTarget
<1>12. \A a \in actions : ~(a.goal = g /\ a.key = request[c].key)
  BY DEF MayPersist
<1>13. OneRecord' /\ Recorded'
  BY <1>7, <1>8, <1>12 DEF GoalInv, OneRecord, Recorded
<1>14. AppliedOnce'
  BY <1>8, <1>12 DEF GoalInv, Recorded, AppliedOnce
<1> QED
  BY <1>9, <1>10, <1>11, <1>13, <1>14 DEF GoalInv

LEMMA PersistStep == ASSUME GoalInv, NEW c \in Calls, Persist(c) PROVE GoalInv'
<1>1. pc[c] = "persist" /\ request[c].tx \in Transactions \cup {None}
  BY FingerprintTyped DEF Persist
<1> QED
  BY <1>1, ProgressMade DEF Persist, GoalInv, TypeOK

LEMMA CreateStep == ASSUME GoalInv, NEW c \in Calls, CreateAndPersist(c) PROVE GoalInv'
<1> DEFINE r == request[c]
           posted == Posted(r.goal, r.key)
           record == [amount |-> r.amount, goal |-> r.goal, origin |-> <<r.goal, r.key>>]
<1>1. pc[c] = "create" /\ UNCHANGED <<request, link, intent>>
  BY DEF CreateAndPersist
<1>2. r.kind = "transaction" /\ r \in Requests
  BY <1>1 DEF GoalInv, Called
<1>3. /\ Fingerprint(c) \in Fingerprints /\ r.goal \in GoalIds /\ r.key \in Keys
      /\ Fingerprint(c).amount = r.amount /\ r.amount \in Amounts
  BY <1>1, <1>2, FingerprintTyped DEF Fingerprints
<1>4. PICK t \in IF posted # {} THEN posted ELSE NewIds :
        /\ tx' = IF posted # {} THEN tx ELSE [tx EXCEPT ![t] = record]
        /\ \/ /\ Unknown(c) /\ MayPersist(r.goal, r.key, r.amount)
              /\ goal' = [goal EXCEPT ![r.goal] = Progressed(r.goal, r.amount, t)]
              /\ actions' = actions \cup {Action(c, t)}
              /\ pc' = [pc EXCEPT ![c] = "applied"]
           \/ /\ \E a \in Known(r.goal, r.key) : Matches(c, a)
              /\ pc' = [pc EXCEPT ![c] = "replayed"]
              /\ UNCHANGED <<goal, actions>>
  BY DEF CreateAndPersist
<1>5. t \in Transactions
  BY <1>4 DEF Posted, NewIds, Transactions
<1>6. record \in TransactionRecords
  BY <1>3 DEF TransactionRecords
<1> HIDE DEF record, posted
<1>7. tx' \in [Transactions -> TransactionRecords \cup {None}]
  BY <1>4, <1>5, <1>6 DEF GoalInv, TypeOK
<1>8. CASE /\ Unknown(c) /\ MayPersist(r.goal, r.key, r.amount)
           /\ goal' = [goal EXCEPT ![r.goal] = Progressed(r.goal, r.amount, t)]
           /\ actions' = actions \cup {Action(c, t)}
           /\ pc' = [pc EXCEPT ![c] = "applied"]
  BY <1>1, <1>3, <1>5, <1>7, <1>8, ProgressMade
<1>9. CASE pc' = [pc EXCEPT ![c] = "replayed"] /\ UNCHANGED <<goal, actions>>
  BY <1>1, <1>2, <1>7, <1>9, CallKeeps DEF GoalInv, TypeOK
<1> QED
  BY <1>4, <1>8, <1>9

-----------------------------------------------------------------------------
(* The other operations *)

\* What changes goals keeps them within their targets.
LEMMA GoalChange ==
  ASSUME GoalInv, goal' \in [GoalIds -> GoalRecords \cup {None}], WithinTarget',
         tx' \in [Transactions -> TransactionRecords \cup {None}],
         intent' \in [Editors -> Changes \cup {None}],
         UNCHANGED <<actions, pc, request, link>>
  PROVE  GoalInv'
<1>1. TypeOK'
  BY DEF GoalInv, TypeOK
<1>2. Called' /\ OneRecord' /\ Recorded' /\ AppliedOnce'
  BY DEF GoalInv, Called, OneRecord, Recorded, AppliedOnce
<1> QED
  BY <1>1, <1>2 DEF GoalInv

LEMMA CancellationStep ==
  ASSUME GoalInv, NEW e \in Editors,
         SetGoalCancellation(e)
           \/ \E g \in GoalIds, b \in BOOLEAN : ReadCancellation(e, g, b)
  PROVE  GoalInv'
<1>1. /\ goal \in [GoalIds -> GoalRecords \cup {None}] /\ WithinTarget
      /\ tx \in [Transactions -> TransactionRecords \cup {None}]
      /\ intent \in [Editors -> Changes \cup {None}]
  BY DEF GoalInv, TypeOK
<1>2. ASSUME NEW g \in GoalIds, NEW b \in BOOLEAN, ReadCancellation(e, g, b) PROVE GoalInv'
  <2>1. [goal |-> g, cancelled |-> b] \in Changes
    BY DEF Changes
  <2>2. intent' = [intent EXCEPT ![e] = [goal |-> g, cancelled |-> b]]
        /\ UNCHANGED <<goal, tx, actions, pc, request, link>>
    BY <1>2 DEF ReadCancellation
  <2>3. WithinTarget'
    BY <1>1, <2>2 DEF WithinTarget
  <2> QED
    BY <1>1, <2>1, <2>2, <2>3, GoalChange
<1>3. CASE SetGoalCancellation(e)
  <2> DEFINE i == intent[e]
  <2>1. /\ i \in Changes /\ intent' = [intent EXCEPT ![e] = None]
        /\ UNCHANGED <<tx, actions, pc, request, link>>
        /\ goal' = IF goal[i.goal] = None THEN goal
                   ELSE [goal EXCEPT ![i.goal] = [@ EXCEPT !.cancelled = i.cancelled]]
    BY <1>1, <1>3 DEF SetGoalCancellation
  <2>2. i.goal \in GoalIds /\ i.cancelled \in BOOLEAN
    BY <2>1 DEF Changes
  <2> HIDE DEF i
  <2>3. CASE goal[i.goal] = None
    <3>1. goal' = goal
      BY <2>1, <2>3
    <3>2. WithinTarget'
      BY <1>1, <3>1 DEF WithinTarget
    <3> QED
      BY <1>1, <2>1, <3>1, <3>2, GoalChange
  <2>4. CASE goal[i.goal] # None
    <3> DEFINE next == [goal[i.goal] EXCEPT !.cancelled = i.cancelled]
    <3>1. goal[i.goal] \in GoalRecords
      BY <1>1, <2>2, <2>4
    <3>2. /\ next \in GoalRecords /\ next.current = goal[i.goal].current
          /\ next.target = goal[i.goal].target
      BY <2>2, <3>1 DEF GoalRecords
    <3>3. goal' = [goal EXCEPT ![i.goal] = next]
      BY <2>1, <2>4
    <3> HIDE DEF next
    <3>4. goal' \in [GoalIds -> GoalRecords \cup {None}] /\ WithinTarget'
      BY <1>1, <2>2, <2>4, <3>2, <3>3 DEF WithinTarget
    <3> QED
      BY <1>1, <2>1, <3>4, GoalChange
  <2> QED
    BY <2>3, <2>4
<1> QED
  BY <1>2, <1>3

LEMMA UpdateStep ==
  ASSUME GoalInv, NEW g \in GoalIds, NEW target \in Targets, NEW current \in 0 .. target,
         UpdateGoal(g, current, target)
  PROVE  GoalInv'
<1> DEFINE next == [goal[g] EXCEPT !.current = current, !.target = target]
<1>1. /\ goal \in [GoalIds -> GoalRecords \cup {None}] /\ WithinTarget
      /\ tx \in [Transactions -> TransactionRecords \cup {None}]
      /\ intent \in [Editors -> Changes \cup {None}]
  BY DEF GoalInv, TypeOK
<1>2. /\ goal[g] # None /\ UNCHANGED <<tx, actions, pc, request, link, intent>>
      /\ goal' = [goal EXCEPT ![g].current = current, ![g].target = target]
  BY DEF UpdateGoal
<1>3. goal[g] \in GoalRecords /\ current \in Nat /\ current <= target
  BY <1>1, <1>2, TargetsPositive
<1>4. next \in GoalRecords /\ next.current = current /\ next.target = target
  BY <1>3 DEF GoalRecords
<1>5. goal' = [goal EXCEPT ![g] = next]
  BY <1>1, <1>2, <1>3 DEF GoalRecords
<1> HIDE DEF next
<1>6. goal' \in [GoalIds -> GoalRecords \cup {None}] /\ WithinTarget'
  BY <1>1, <1>3, <1>4, <1>5 DEF WithinTarget
<1> QED
  BY <1>1, <1>2, <1>6, GoalChange

LEMMA DeleteStep == ASSUME GoalInv, NEW g \in GoalIds, DeleteGoal(g) PROVE GoalInv'
<1>1. /\ goal' = [goal EXCEPT ![g] = None] /\ UNCHANGED <<tx, actions, pc, request, link, intent>>
  BY DEF DeleteGoal
<1>2. goal' \in [GoalIds -> GoalRecords \cup {None}] /\ WithinTarget'
  BY <1>1 DEF GoalInv, TypeOK, WithinTarget
<1> QED
  BY <1>1, <1>2, GoalChange DEF GoalInv, TypeOK

LEMMA TransactionStep ==
  ASSUME GoalInv, NEW t \in Deletable,
         DeleteTransaction(t) \/ \E amount \in Amounts, g \in GoalIds : UpdateTransaction(t, amount, g)
  PROVE  GoalInv'
<1>1. t \in Transactions /\ tx[t] # None /\ UNCHANGED <<goal, actions, pc, request, link, intent>>
  BY GoalAssumption DEF DeleteTransaction, UpdateTransaction
<1>2. \E record \in TransactionRecords \cup {None} : tx' = [tx EXCEPT ![t] = record]
  <2>1. CASE DeleteTransaction(t)
    BY <2>1 DEF DeleteTransaction
  <2>2. ASSUME NEW amount \in Amounts, NEW g \in GoalIds, UpdateTransaction(t, amount, g)
        PROVE  \E record \in TransactionRecords \cup {None} : tx' = [tx EXCEPT ![t] = record]
    <3> DEFINE record == [tx[t] EXCEPT !.amount = amount, !.goal = g]
    <3>1. record \in TransactionRecords
      <4>1. tx[t] \in TransactionRecords
        BY <1>1 DEF GoalInv, TypeOK
      <4> QED
        BY <4>1 DEF TransactionRecords
    <3>2. tx' = [tx EXCEPT ![t] = record]
      BY <1>1, <2>2 DEF UpdateTransaction, GoalInv, TypeOK
    <3> HIDE DEF record
    <3> QED
      BY <3>1, <3>2
  <2> QED
    BY <2>1, <2>2
<1>3. tx' \in [Transactions -> TransactionRecords \cup {None}] /\ WithinTarget'
  BY <1>1, <1>2 DEF GoalInv, TypeOK, WithinTarget
<1> QED
  BY <1>1, <1>3, GoalChange DEF GoalInv, TypeOK

-----------------------------------------------------------------------------
(* The theorems *)

\* A new goal is a goal, and holds what it was created with.
LEMMA NewGoals ==
  ASSUME Init
  PROVE  /\ goal \in [GoalIds -> GoalRecords]
         /\ \A g \in GoalIds : goal[g].current = Opening[g] /\ goal[g].current <= goal[g].target
<1>1. PICK target \in [GoalIds -> Targets] :
        /\ \A g \in GoalIds : Opening[g] <= target[g]
        /\ goal = [g \in GoalIds |-> [current |-> Opening[g], target |-> target[g],
                                     cancelled |-> FALSE, linked |-> <<>>]]
  BY DEF Init
<1>2. <<>> \in Seq(Transactions)
  OBVIOUS
<1>3. \A g \in GoalIds : goal[g] \in GoalRecords
  BY <1>1, <1>2, GoalAssumption DEF GoalRecords
<1> QED
  BY <1>1, <1>3

LEMMA InvInit == Init => GoalInv
<1> SUFFICES ASSUME Init PROVE GoalInv
  OBVIOUS
<1>1. goal \in [GoalIds -> GoalRecords] /\ WithinTarget
  BY NewGoals DEF WithinTarget
<1>2. PICK amount \in [Existing -> Amounts] :
        tx = [t \in Transactions |->
                IF t \in Existing THEN [amount |-> amount[t], goal |-> None, origin |-> None]
                ELSE None]
  BY DEF Init
<1>3. tx \in [Transactions -> TransactionRecords \cup {None}]
  BY <1>2 DEF TransactionRecords
<1> QED
  BY <1>1, <1>3 DEF Init, GoalInv, TypeOK, Called, OneRecord, Recorded, AppliedOnce

LEMMA CallStepKeeps == ASSUME GoalInv, NEW c \in Calls, CallStep(c) PROVE GoalInv'
BY StartStep, ReadingStep, PersistStep, CreateStep DEF CallStep

LEMMA InvNext == GoalInv /\ [Next]_vars => GoalInv'
<1> SUFFICES ASSUME GoalInv, [Next]_vars, Editable \subseteq GoalIds PROVE GoalInv'
  BY GoalAssumption
<1>1. ASSUME NEW c \in Calls, CallStep(c) PROVE GoalInv'
  BY <1>1, CallStepKeeps
<1>2. ASSUME NEW e \in Editors,
             \/ \E g \in GoalIds, b \in BOOLEAN : ReadCancellation(e, g, b)
             \/ SetGoalCancellation(e)
      PROVE  GoalInv'
  BY <1>2, CancellationStep
<1>3. ASSUME NEW g \in Editable,
             \/ \E target \in Targets : \E current \in 0 .. target : UpdateGoal(g, current, target)
             \/ DeleteGoal(g)
      PROVE  GoalInv'
  BY <1>3, UpdateStep, DeleteStep
<1>4. ASSUME NEW t \in Deletable,
             \/ DeleteTransaction(t)
             \/ \E amount \in Amounts, g \in GoalIds : UpdateTransaction(t, amount, g)
      PROVE  GoalInv'
  BY <1>4, TransactionStep
<1>5. CASE UNCHANGED vars
  BY <1>5 DEF vars, GoalInv, TypeOK, Called, WithinTarget, OneRecord, Recorded, AppliedOnce
<1> QED
  BY <1>1, <1>2, <1>3, <1>4, <1>5 DEF Next

LEMMA Reachable == Spec => []GoalInv
BY InvInit, InvNext, PTL DEF Spec

\* Goals, transactions, records and calls keep their types (goal_actions.go).
THEOREM GoalsTyped == Spec => []TypeOK
<1>1. GoalInv => TypeOK
  BY DEF GoalInv
<1> QED
  BY <1>1, Reachable, PTL

\* Whatever was read before, progress is refused beyond the target of the moment it
\* is stored, and no edit lowers the target under the amount (persistGoalProgress,
\* UpdateGoal).
THEOREM NeverBeyondTarget == Spec => []WithinTarget
<1>1. GoalInv => WithinTarget
  BY DEF GoalInv
<1> QED
  BY <1>1, Reachable, PTL

\* Any number of tries of one request make progress once: the unique index on goal
\* and key stands behind a lookup that may come too early (persistGoalProgress).
THEOREM AppliedAtMostOnce == Spec => []AppliedOnce
<1>1. GoalInv => AppliedOnce
  BY DEF GoalInv
<1> QED
  BY <1>1, Reachable, PTL

-----------------------------------------------------------------------------
(* Repeated requests *)

\* Why a call may fail.
Excused(c) ==
  \/ goal[request[c].goal] = None
  \/ request[c].kind = "linked_transaction" /\ tx[request[c].tx] = None
  \/ \A a \in actions : \/ a.goal # request[c].goal \/ a.key # request[c].key
                        \/ a.fingerprint # Fingerprint(c)
                        \/ a.tx # None /\ tx[a.tx] = None
                        \/ pc[c] = "create"

\* A request is refused on account of the record of its key only when that is another
\* request's, or what it stands for is gone.
LEMMA AnswerExcused ==
  ASSUME GoalInv, NEW c \in Calls, NEW inFull \in BOOLEAN, AnswerWith(c, inFull),
         pc'[c] = "failed"
  PROVE  Excused(c)
<1>1. PICK a \in Known(request[c].goal, request[c].key) :
        \/ ~Matches(c, a)
        \/ goal[a.goal] = None
        \/ a.tx # None /\ tx[a.tx] = None
  <2>1. PICK a \in Known(request[c].goal, request[c].key) :
          pc' = [pc EXCEPT ![c] =
                   IF Matches(c, a) /\ goal[a.goal] # None
                        /\ (inFull /\ a.tx # None => tx[a.tx] # None)
                   THEN "replayed" ELSE "failed"]
    BY DEF AnswerWith
  <2>2. pc \in [Calls -> {"idle", "start", "goal", "lookup", "persist", "recover", "create",
                          "applied", "replayed", "failed"}]
    BY DEF GoalInv, TypeOK
  <2>3. ~(Matches(c, a) /\ goal[a.goal] # None /\ (inFull /\ a.tx # None => tx[a.tx] # None))
    BY <2>1, <2>2
  <2> QED
    BY <2>3
<1>2. ASSUME NEW b \in actions, b.goal = request[c].goal, b.key = request[c].key PROVE a = b
  <2>1. a \in actions /\ a.goal = request[c].goal /\ a.key = request[c].key
    BY <1>2 DEF Known
  <2> QED
    BY <1>2, <2>1 DEF GoalInv, OneRecord
<1> QED
  BY <1>1, <1>2 DEF Excused, Matches

\* A key that nothing is known of excuses anything.
LEMMA UnknownExcused == ASSUME NEW c \in Calls, Unknown(c) PROVE Excused(c)
BY DEF Unknown, Known, Excused

LEMMA FailureExcused ==
  ASSUME GoalInv, NEW c \in Calls, CallStep(c), pc[c] \notin {"idle", "failed"},
         pc'[c] = "failed"
  PROVE  Excused(c)
<1>1. pc \in [Calls -> {"idle", "start", "goal", "lookup", "persist", "recover", "create",
                        "applied", "replayed", "failed"}]
  BY DEF GoalInv, TypeOK
<1>2. ASSUME NEW at, pc' = [pc EXCEPT ![c] = at], at # "failed" PROVE FALSE
  BY <1>1, <1>2
<1>3. CASE \E r \in Requests : Start(c, r)
  BY <1>2, <1>3 DEF Start
<1>4. CASE BeginProgress(c)
  BY <1>2, <1>4, AnswerExcused DEF BeginProgress, Answer, Excused
<1>5. CASE ReadLinkedTransaction(c)
  BY <1>2, <1>5 DEF ReadLinkedTransaction, Excused
<1>6. CASE BeginLink(c)
  BY <1>6, AnswerExcused, UnknownExcused DEF BeginLink, Seen, AnswerInFull, Excused
<1>7. CASE LookupLink(c)
  BY <1>2, <1>7, AnswerExcused DEF LookupLink, Answer
<1>8. CASE Persist(c) \/ AbortPersist(c)
  BY <1>2, <1>8 DEF Persist, AbortPersist
<1>9. CASE Recover(c)
  BY <1>9, AnswerExcused, UnknownExcused DEF Recover, Answer
<1>10. CASE BeginCreate(c)
  BY <1>10, AnswerExcused, UnknownExcused DEF BeginCreate, AnswerInFull, Excused
<1>11. CASE CreateAndPersist(c) \/ AbortCreate(c)
  BY <1>11 DEF CreateAndPersist, AbortCreate, Excused
<1> QED
  BY <1>3, <1>4, <1>5, <1>6, <1>7, <1>8, <1>9, <1>10, <1>11 DEF CallStep

\* "Same-key identical retries return the prior result": a request whose very record
\* is stored, with what it stands for, is never refused (existingGoalActionResult).
THEOREM RetriesAreAnswered == Spec => RetryReplays
<1> DEFINE A == \A c \in Calls :
                  pc[c] \notin {"idle", "failed"} /\ pc'[c] = "failed" => Excused(c)
<1>1. GoalInv /\ [Next]_vars => [A]_vars
  <2> SUFFICES ASSUME GoalInv, Next, NEW c \in Calls, pc[c] \notin {"idle", "failed"},
                      pc'[c] = "failed"
               PROVE  Excused(c)
    OBVIOUS
  <2>1. pc \in [Calls -> {"idle", "start", "goal", "lookup", "persist", "recover", "create",
                          "applied", "replayed", "failed"}]
    BY DEF GoalInv, TypeOK
  <2>2. pc' # pc
    OBVIOUS
  <2>3. PICK d \in Calls : CallStep(d)
    BY <2>2 DEF Next, ReadCancellation, SetGoalCancellation, UpdateGoal, DeleteGoal,
                DeleteTransaction, UpdateTransaction
  <2>4. \A b \in Calls : b # d => pc'[b] = pc[b]
    BY <2>1, <2>3 DEF CallStep, Start, BeginProgress, ReadLinkedTransaction, BeginLink, LookupLink,
              Persist, AbortPersist, Recover, BeginCreate, CreateAndPersist, AbortCreate,
              Fail, Answer, AnswerInFull, AnswerWith
  <2>5. c = d
    BY <2>4
  <2> QED
    BY <2>3, <2>5, FailureExcused
<1>2. [A]_vars => [\A c \in Calls :
                     pc[c] \notin {"idle", "failed"} /\ pc'[c] = "failed" =>
                       \/ goal[request[c].goal] = None
                       \/ request[c].kind = "linked_transaction" /\ tx[request[c].tx] = None
                       \/ \A a \in actions : \/ a.goal # request[c].goal \/ a.key # request[c].key
                                             \/ a.fingerprint # Fingerprint(c)
                                             \/ a.tx # None /\ tx[a.tx] = None
                                             \/ pc[c] = "create"]_vars
  BY DEF Excused
<1> QED
  BY <1>1, <1>2, Reachable, PTL DEF Spec, RetryReplays

-----------------------------------------------------------------------------
(* Progress adds up *)

\* ProgressAddsUp for finitely many records; only the editor deletes a goal.
ProgressInv ==
  /\ IsFiniteSet(actions)
  /\ \A g \in GoalIds \ Editable :
       goal[g] # None /\ goal[g].current = Opening[g] + Total(Progress(g))

\* A step that records no progress leaves the amounts alone, edited goals aside.
LEMMA AmountsKept ==
  ASSUME ProgressInv, actions' = actions,
         \A g \in GoalIds \ Editable : goal'[g] # None /\ goal'[g].current = goal[g].current
  PROVE  ProgressInv'
<1>1. \A g \in GoalIds : Progress(g)' = Progress(g)
  BY DEF Progress
<1> QED
  BY <1>1 DEF ProgressInv

\* Progress and its record are stored together, the record under a key of its own.
LEMMA ProgressRecorded ==
  ASSUME GoalInv, ProgressInv, NEW c \in Calls, pc[c] \in {"persist", "create"},
         MayPersist(request[c].goal, request[c].key, Fingerprint(c).amount),
         NEW t \in Transactions \cup {None},
         goal' = [goal EXCEPT ![request[c].goal] =
                    Progressed(request[c].goal, Fingerprint(c).amount, t)],
         actions' = actions \cup {Action(c, t)}
  PROVE  ProgressInv'
<1> DEFINE h == request[c].goal
           amount == Fingerprint(c).amount
           new == Action(c, t)
           Of(g) == {b \in actions : b.goal = g}
<1>1. /\ Fingerprint(c) \in Fingerprints /\ h \in GoalIds /\ amount \in Nat
  BY FingerprintTyped, GoalAssumption DEF Fingerprints
<1>2. /\ new.goal = h /\ new.key = request[c].key /\ new.fingerprint.amount = amount
  BY DEF Action
<1>3. new \notin actions
  BY <1>2 DEF MayPersist
<1>4. IsFiniteSet(actions')
  BY FS_AddElement DEF ProgressInv
<1> SUFFICES ASSUME NEW g \in GoalIds \ Editable
             PROVE  goal'[g] # None /\ goal'[g].current = Opening[g] + Total(Progress(g)')
  BY <1>4 DEF ProgressInv
<1>5. /\ IsFiniteSet(Of(g)) /\ Of(g) \subseteq ActionRecords
  BY FS_Subset DEF ProgressInv, GoalInv, TypeOK
<1>6. Progress(g) \in [Of(g) -> Nat]
  BY <1>5, GoalAssumption DEF Progress, ActionRecords, Fingerprints
<1>7. goal \in [GoalIds -> GoalRecords \cup {None}]
  BY DEF GoalInv, TypeOK
<1>8. /\ goal[g] \in GoalRecords /\ goal[g].current \in Nat /\ Opening[g] \in Nat
      /\ goal[g].current = Opening[g] + Total(Progress(g)) /\ Total(Progress(g)) \in Int
  <2>1. Total(Progress(g)) \in Int
    <3> HIDE DEF Of
    <3> QED
      BY <1>5, <1>6, TotalType
  <2> QED
    BY <1>7, <2>1, GoalAssumption DEF ProgressInv, GoalRecords
<1>9. CASE g = h
  <2>0. {b \in actions' : b.goal = g} = Of(g) \cup {new}
    BY <1>2, <1>9
  <2>1. Progress(g)' \in [Of(g) \cup {new} -> Nat]
    <3>1. \A a \in Of(g) \cup {new} : a.fingerprint.amount \in Nat
      BY <1>1, <1>2, <1>5, GoalAssumption DEF ActionRecords, Fingerprints
    <3> HIDE DEF new
    <3> QED
      BY <2>0, <3>1 DEF Progress
  <2>2. /\ Progress(g)'[new] = amount /\ new \notin Of(g)
        /\ \A a \in Of(g) : Progress(g)'[a] = Progress(g)[a]
    <3> HIDE DEF new, amount
    <3>1. Progress(g)' = [a \in Of(g) \cup {new} |-> a.fingerprint.amount]
      BY <2>0 DEF Progress
    <3> QED
      BY <1>2, <1>3, <3>1 DEF Progress
  <2>3. Total(Progress(g)') = Total(Progress(g)) + amount
    <3> HIDE DEF new, Of
    <3> QED
      BY <1>5, <1>6, <2>1, <2>2, TotalExtend, SMTT(60)
  <2>4. goal'[g] = Progressed(g, amount, t)
    BY <1>1, <1>7, <1>9
  <2>5. Progressed(g, amount, t) \in GoalRecords /\ Progressed(g, amount, t).current = goal[g].current + amount
    BY <1>1, <1>8, ProgressedTyped
  <2>6. goal'[g] # None
    BY <2>4, <2>5, GoalAssumption
  <2>7. goal'[g].current = goal[g].current + amount
    BY <2>4, <2>5
  <2> HIDE DEF amount
  <2> QED
    BY <1>1, <1>8, <2>3, <2>6, <2>7
<1>10. CASE g # h
  <2>1. Progress(g)' = Progress(g)
    <3>1. {b \in actions' : b.goal = g} = Of(g)
      BY <1>2, <1>10
    <3> QED
      BY <3>1 DEF Progress
  <2>2. goal'[g] = goal[g]
    BY <1>1, <1>7, <1>10
  <2> QED
    BY <1>8, <2>1, <2>2, GoalAssumption
<1> QED
  BY <1>9, <1>10

LEMMA ProgressNext == GoalInv /\ ProgressInv /\ [Next]_vars => ProgressInv'
<1> SUFFICES ASSUME GoalInv, ProgressInv, [Next]_vars PROVE ProgressInv'
  OBVIOUS
<1>1. ASSUME UNCHANGED <<goal, actions>> PROVE ProgressInv'
  BY <1>1, AmountsKept DEF ProgressInv
<1>2. ASSUME NEW c \in Calls, Persist(c) PROVE ProgressInv'
  <2>1. pc[c] = "persist" /\ request[c].tx \in Transactions \cup {None}
    BY <1>2, FingerprintTyped DEF Persist
  <2> QED
    BY <1>2, <2>1, ProgressRecorded DEF Persist
<1>3. ASSUME NEW c \in Calls, CreateAndPersist(c) PROVE ProgressInv'
  <2> DEFINE r == request[c]
             posted == Posted(r.goal, r.key)
  <2>1. pc[c] = "create" /\ r.kind = "transaction"
    BY <1>3 DEF CreateAndPersist, GoalInv, Called
  <2>2. Fingerprint(c).amount = r.amount
    BY <2>1 DEF Fingerprint
  <2>3. PICK t \in IF posted # {} THEN posted ELSE NewIds :
          \/ /\ MayPersist(r.goal, r.key, r.amount)
             /\ goal' = [goal EXCEPT ![r.goal] = Progressed(r.goal, r.amount, t)]
             /\ actions' = actions \cup {Action(c, t)}
          \/ UNCHANGED <<goal, actions>>
    BY <1>3 DEF CreateAndPersist
  <2>4. t \in Transactions
    BY <2>3 DEF Posted, NewIds, Transactions
  <2> HIDE DEF posted
  <2> QED
    BY <1>1, <2>1, <2>2, <2>3, <2>4, ProgressRecorded
<1>4. ASSUME NEW e \in Editors, SetGoalCancellation(e) PROVE ProgressInv'
  <2>1. \A g \in GoalIds \ Editable : goal[g] \in GoalRecords
    BY DEF GoalInv, TypeOK, ProgressInv
  <2>2. ASSUME NEW g \in GoalIds \ Editable
        PROVE  goal'[g] # None /\ goal'[g].current = goal[g].current
    <3> DEFINE i == intent[e]
    <3>1. goal' = goal \/ goal' = [goal EXCEPT ![i.goal] = [@ EXCEPT !.cancelled = i.cancelled]]
      BY <1>4 DEF SetGoalCancellation
    <3>2. i \in Changes
      BY <1>4 DEF SetGoalCancellation, GoalInv, TypeOK
    <3>3. i.cancelled \in BOOLEAN
      BY <3>2 DEF Changes
    <3> HIDE DEF i
    <3>4. goal'[g] = goal[g] \/ goal'[g] = [goal[g] EXCEPT !.cancelled = i.cancelled]
      BY <3>1 DEF GoalInv, TypeOK
    <3>5. /\ [goal[g] EXCEPT !.cancelled = i.cancelled] \in GoalRecords
          /\ [goal[g] EXCEPT !.cancelled = i.cancelled].current = goal[g].current
      BY <2>1, <3>3 DEF GoalRecords
    <3> QED
      BY <2>1, <3>4, <3>5, GoalAssumption
  <2> QED
    BY <1>4, <2>2, AmountsKept DEF SetGoalCancellation
<1>5. ASSUME NEW g \in Editable,
             \/ \E target \in Targets : \E current \in 0 .. target : UpdateGoal(g, current, target)
             \/ DeleteGoal(g)
      PROVE  ProgressInv'
  <2>1. \A h \in GoalIds \ Editable : goal'[h] = goal[h]
    BY <1>5 DEF UpdateGoal, DeleteGoal, GoalInv, TypeOK
  <2> QED
    BY <1>5, <2>1, AmountsKept DEF UpdateGoal, DeleteGoal, ProgressInv
<1> QED
  BY <1>1, <1>2, <1>3, <1>4, <1>5
  DEF Next, CallStep, vars, Start, BeginProgress, ReadLinkedTransaction, BeginLink, LookupLink,
      AbortPersist, Recover, BeginCreate, AbortCreate, ReadCancellation, DeleteTransaction,
      UpdateTransaction

\* What was recorded as progress adds up to the amount of a goal that nobody has
\* edited, in any interleaving of retries, links and cancellations.
THEOREM RecordsAddUp == Spec => []ProgressAddsUp
<1>1. Init => ProgressInv
  <2> SUFFICES ASSUME Init PROVE ProgressInv
    OBVIOUS
  <2>1. actions = {} /\ IsFiniteSet(actions)
    BY FS_EmptySet DEF Init
  <2>2. \A g \in GoalIds : Total(Progress(g)) = 0
    BY <2>1, TotalZero DEF Progress
  <2>3. \A g \in GoalIds : goal[g] # None /\ goal[g].current = Opening[g] /\ Opening[g] \in Nat
    BY NewGoals, GoalAssumption
  <2> QED
    BY <2>1, <2>2, <2>3 DEF ProgressInv
<1>2. ProgressInv => ProgressAddsUp
  BY DEF ProgressInv, ProgressAddsUp
<1> QED
  BY <1>1, <1>2, ProgressNext, Reachable, PTL DEF Spec
=============================================================================
