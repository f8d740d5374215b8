--------------------------- MODULE Ledger_proofs ---------------------------
(***************************************************************************)
(* Theorems about Ledger, for every value of its constants.                 *)
(***************************************************************************)
EXTENDS Ledger, Sums_proofs

---------------------------------------------------------------------------
(* The operators the model is built from *)

\* Every transaction type, split or not, is numbered by one of the four scopes.
LEMMA ScopeType ==
  ASSUME NEW type \in Types, NEW split \in BOOLEAN
  PROVE  TransactionSequenceScope(type, split) \in Scopes
BY DEF TransactionSequenceScope, Types, Scopes

\* The number of digits of a number is a natural number.
LEMMA DigitsType ==
  ASSUME NEW n \in Nat
  PROVE  DecimalDigits(n) \in Nat
<1> DEFINE S == {k \in 0 .. MaximumDigits - 1 : 10 ^ k <= n}
<1>1. IsFiniteSet(0 .. MaximumDigits - 1)
  BY FS_Interval, BoundsAssumption
<1>2. S \subseteq 0 .. MaximumDigits - 1
  OBVIOUS
<1>3. IsFiniteSet(S)
  BY <1>1, <1>2, FS_Subset
<1>4. Cardinality(S) \in Nat
  BY <1>3, FS_CardinalityType
<1> QED
  BY <1>4 DEF DecimalDigits

\* Formatting pads, it does not change the number.
LEMMA FormatType ==
  ASSUME NEW n \in 1 .. MaximumSequenceNumber, NEW digits \in Nat
  PROVE  /\ FormatTransactionSequenceNumber(n, digits) \in Identifiers
         /\ FormatTransactionSequenceNumber(n, digits).number = n
<1>1. n \in Nat /\ DecimalDigits(n) \in Nat
  BY DigitsType, BoundsAssumption
<1> QED
  BY <1>1 DEF FormatTransactionSequenceNumber, Identifiers

\* A record is not None.
LEMMA RecordNotNone == None \notin Transactions /\ None \notin Requests /\ None \notin Identifiers
BY NoneAssumption

\* What a record contributes to an account or a vault is an amount.
LEMMA EffectType ==
  ASSUME NEW x \in Transactions \cup {None}
  PROVE  /\ \A a \in Accounts : AccountEffect(x, a) \in Int
         /\ \A v \in Vaults : VaultEffect(x, v) \in Int
<1>1. CASE x = None
  BY <1>1 DEF AccountEffect, VaultEffect
<1>2. CASE x \in Transactions /\ x # None
  <2>1. x.amount \in Int /\ x.type \in Types
    BY <1>2, BoundsAssumption DEF Transactions
  <2>2. SourceDelta(x) \in Int
    BY <2>1 DEF SourceDelta, Types
  <2>3. \A a \in Accounts : AccountEffect(x, a) \in Int
    BY <1>2, <2>1, <2>2 DEF AccountEffect
  <2>4. \A v \in Vaults : VaultEffect(x, v) \in Int
    BY <1>2, <2>1, <2>2 DEF VaultEffect
  <2> QED
    BY <2>3, <2>4
<1> QED
  BY <1>1, <1>2

\* The range filter admits exactly the changes whose result is within the bound
\* of a balance that is.
LEMMA CanAddBounds ==
  ASSUME NEW b \in Int, NEW delta \in Int, CanAdd(b, delta)
  PROVE  b + delta \in Money
BY BoundsAssumption DEF CanAdd, Money

LEMMA PreparedType ==
  ASSUME TypeOK, NEW r \in Requests, pc[r] # "idle", Identified(r)
  PROVE  /\ Prepared(r) \in Transactions
         /\ Prepared(r).scope = Scope(r) /\ Scope(r) \in Scopes
         /\ Automatic(r) => Prepared(r).id.number = nextNumber[Scope(r)]
         /\ ~Automatic(r) => Prepared(r).id = body[r].input.id
<1> DEFINE in == body[r].input  s == Scope(r)
<1>1. in \in Inputs
  BY DEF TypeOK, Bodies
<1>2. /\ in.type \in Types /\ in.split \in BOOLEAN
      /\ in.account \in Accounts /\ in.dest \in Destinations /\ Directed(in)
      /\ in.amount \in 1 .. MaxMoneyMinor
      /\ in.id \in Identifiers \cup {None}
  BY <1>1, InputAssumption
<1>3. s \in Scopes
  BY <1>2, ScopeType DEF Scope
<1>4. ASSUME Automatic(r)
      PROVE  /\ FormatTransactionSequenceNumber(nextNumber[s], minimumDigits[s]) \in Identifiers
             /\ FormatTransactionSequenceNumber(nextNumber[s], minimumDigits[s]).number = nextNumber[s]
  <2>1. nextNumber[s] \in 1 .. MaximumSequenceNumber
    BY <1>3, <1>4, BoundsAssumption DEF Identified, Allocatable, TypeOK
  <2>2. minimumDigits[s] \in Nat
    BY <1>3, BoundsAssumption DEF TypeOK
  <2> QED
    BY <2>1, <2>2, FormatType
<1>5. ~Automatic(r) => in.id \in Identifiers
  BY <1>2 DEF Automatic
<1>6. Prepared(r).id \in Identifiers
  BY <1>4, <1>5 DEF Prepared
<1>7. Prepared(r) \in Transactions
  BY <1>2, <1>3, <1>6 DEF Prepared, Transactions, Directed
<1> QED
  BY <1>3, <1>4, <1>7 DEF Prepared

LEMMA AmendedType ==
  ASSUME TypeOK, NEW t \in Requests, tx[t] # None, NEW in \in Inputs
  PROVE  Amended(t, in) \in Transactions /\ Amended(t, in).scope = tx[t].scope
<1>1. tx[t] \in Transactions
  BY DEF TypeOK
<1>2. tx[t].id \in Identifiers /\ tx[t].scope \in Scopes
  BY <1>1 DEF Transactions
<1>3. /\ in.type \in Types /\ in.account \in Accounts /\ in.dest \in Destinations /\ Directed(in)
      /\ in.amount \in 1 .. MaxMoneyMinor /\ in.id \in Identifiers \cup {None}
  BY InputAssumption
<1>4. Receiver(in) \in Destinations /\ (in.type = "transfer" => Receiver(in) = in.dest)
  BY <1>3, NoneAssumption DEF Receiver
<1> QED
  BY <1>2, <1>3, <1>4 DEF Amended, Transactions, Directed

LEMMA ReplaceType ==
  ASSUME TypeOK, NEW old \in Transactions \cup {None}, NEW new \in Transactions \cup {None},
         Replace(old, new)
  PROVE  /\ balance' \in [Accounts -> Int] /\ vaultBalance' \in [Vaults -> Int]
         /\ opening' \in [Accounts -> Money]
         /\ archived' \subseteq Accounts /\ inactive' \subseteq Accounts
<1>1. \A a \in Accounts : balance[a] \in Int /\ AccountEffect(old, a) \in Int /\ AccountEffect(new, a) \in Int
  BY EffectType DEF TypeOK
<1>2. \A v \in Vaults : vaultBalance[v] \in Int /\ VaultEffect(old, v) \in Int /\ VaultEffect(new, v) \in Int
  BY EffectType DEF TypeOK
<1> QED
  BY <1>1, <1>2 DEF Replace, TypeOK

LEMMA ReviseType ==
  ASSUME TypeOK, NEW t \in Requests, NEW before \in Transactions \cup {None},
         NEW after \in Transactions \cup {None}, Revise(t, before, after)
  PROVE  /\ tx' \in [Requests -> Transactions \cup {None}]
         /\ ledgerVersion' \in Nat
         /\ revisions' \in Seq([version : Nat, tx : Requests,
                        before : Transactions \cup {None}, after : Transactions \cup {None}])
<1>1. [version |-> ledgerVersion + 1, tx |-> t, before |-> before, after |-> after]
        \in [version : Nat, tx : Requests,
             before : Transactions \cup {None}, after : Transactions \cup {None}]
  BY DEF TypeOK
<1> QED
  BY <1>1 DEF Revise, TypeOK

---------------------------------------------------------------------------
(* Type correctness *)

LEMMA TypeInit == Init => TypeOK
<1> SUFFICES ASSUME Init PROVE TypeOK
  OBVIOUS
<1>1. opening \in [Accounts -> Money] /\ balance \in [Accounts -> Int] /\ vaultBalance \in [Vaults -> Int]
  <2>1. /\ FirstOpening \in [Accounts -> Money] /\ VaultOpening \in [Vaults -> Money]
        /\ Money \subseteq Int
    BY AccountAssumption, BoundsAssumption DEF Money
  <2>2. opening = FirstOpening /\ balance = FirstOpening /\ vaultBalance = VaultOpening
    BY DEF Init
  <2> QED
    BY <2>1, <2>2
<1> QED
  BY <1>1, BoundsAssumption DEF Init, TypeOK, Outcomes

LEMMA TypeNext == TypeOK /\ [Next]_vars => TypeOK'
<1> SUFFICES ASSUME TypeOK, [Next]_vars PROVE TypeOK'
  OBVIOUS
<1>1. ASSUME NEW r \in Requests, NEW k \in Keys, NEW in \in Inputs, CreateTransaction(r, k, in)
      PROVE  TypeOK'
  <2>1. [input |-> in, category |-> rules] \in Bodies
    BY DEF TypeOK, Bodies
  <2> QED
    BY <1>1, <2>1 DEF TypeOK, CreateTransaction, Outcomes, books, history, numbering
<1>2. ASSUME NEW r \in Requests, IdempotentResult(r) PROVE TypeOK'
  <2>1. idem' \in [Keys -> Requests \cup {None}]
    BY <1>2 DEF TypeOK, IdempotentResult
  <2>2. pc' \in [Requests -> Outcomes] /\ UNCHANGED <<key, body>>
    BY <1>2 DEF TypeOK, IdempotentResult, Answer, Outcomes
  <2>3. pc[r] # "idle" /\ \A q \in Requests : pc'[q] # "idle" => pc[q] # "idle"
    BY <1>2 DEF TypeOK, IdempotentResult, Answer
  <2> QED
    BY <1>2, <2>1, <2>2, <2>3 DEF TypeOK, IdempotentResult, books, history, numbering
<1>3. ASSUME NEW r \in Requests, RefuseIdentifier(r) PROVE TypeOK'
  BY <1>3 DEF TypeOK, RefuseIdentifier, Answer, Outcomes, books, history, numbering
<1>4. ASSUME NEW r \in Requests, AbortCommit(r) PROVE TypeOK'
  BY <1>4 DEF TypeOK, AbortCommit, Answer, Outcomes, books, history, numbering
<1>5. ASSUME NEW r \in Requests, CommitTransaction(r) PROVE TypeOK'
  <2> DEFINE x == Prepared(r)
  <2>1. pc[r] # "idle" /\ Identified(r)
    BY <1>5 DEF CommitTransaction
  <2>2. x \in Transactions /\ Scope(r) \in Scopes /\ x.id \in Identifiers
    BY <2>1, PreparedType DEF Transactions
  <2>3. /\ balance' \in [Accounts -> Int] /\ vaultBalance' \in [Vaults -> Int]
        /\ opening' \in [Accounts -> Money]
        /\ archived' \subseteq Accounts /\ inactive' \subseteq Accounts
    BY <1>5, <2>2, ReplaceType DEF CommitTransaction
  <2>4. /\ tx' \in [Requests -> Transactions \cup {None}]
        /\ ledgerVersion' \in Nat
        /\ revisions' \in Seq([version : Nat, tx : Requests,
                        before : Transactions \cup {None}, after : Transactions \cup {None}])
    BY <1>5, <2>2, ReviseType DEF CommitTransaction
  <2>5. nextNumber' \in [Scopes -> Nat \ {0}]
    BY SMTT(60), <1>5, <2>2, BoundsAssumption DEF CommitTransaction, Reserve, TypeOK,
       Identifiers
  <2>6. idem' \in [Keys -> Requests \cup {None}]
    BY <1>5, <2>1 DEF CommitTransaction, TypeOK
  <2>7. /\ pc' \in [Requests -> Outcomes] /\ UNCHANGED <<key, body>>
        /\ \A q \in Requests : pc'[q] # "idle" => pc[q] # "idle"
    BY <1>5, <2>1 DEF CommitTransaction, Answer, Outcomes, TypeOK
  <2> QED
    BY <1>5, <2>3, <2>4, <2>5, <2>6, <2>7 DEF TypeOK, CommitTransaction
<1>6. ASSUME NEW r \in Requests, RecoverResult(r) PROVE TypeOK'
  BY <1>6 DEF TypeOK, RecoverResult, Answer, Outcomes, books, history, numbering
<1>7. ASSUME NEW t \in Requests, NEW in \in Inputs, UpdateTransaction(t, in) PROVE TypeOK'
  <2> DEFINE new == Amended(t, in)
  <2>1. tx[t] \in Transactions /\ tx[t] # None
    BY <1>7 DEF UpdateTransaction, TypeOK
  <2>2. new \in Transactions /\ new.scope \in Scopes /\ new.id \in Identifiers
    BY <2>1, AmendedType DEF Transactions
  <2>3. /\ balance' \in [Accounts -> Int] /\ vaultBalance' \in [Vaults -> Int]
        /\ opening' \in [Accounts -> Money]
        /\ archived' \subseteq Accounts /\ inactive' \subseteq Accounts
    BY <1>7, <2>1, <2>2, ReplaceType DEF UpdateTransaction
  <2>4. /\ tx' \in [Requests -> Transactions \cup {None}]
        /\ ledgerVersion' \in Nat
        /\ revisions' \in Seq([version : Nat, tx : Requests,
                        before : Transactions \cup {None}, after : Transactions \cup {None}])
    BY <1>7, <2>1, <2>2, ReviseType DEF UpdateTransaction
  <2>5. nextNumber' \in [Scopes -> Nat \ {0}]
    <3>1. CASE new.id = tx[t].id
      BY <1>7, <3>1 DEF UpdateTransaction, TypeOK
    <3>2. CASE new.id # tx[t].id
      <4>1. Reserve(new.scope, new.id)
        BY <1>7, <3>2 DEF UpdateTransaction
      <4> QED
        BY <4>1, <2>2, BoundsAssumption DEF Reserve, TypeOK, Identifiers
    <3> QED
      BY <3>1, <3>2
  <2> QED
    BY <1>7, <2>3, <2>4, <2>5 DEF TypeOK, UpdateTransaction, calls
<1>8. ASSUME NEW t \in Requests, DeleteTransaction(t) PROVE TypeOK'
  <2>1. tx[t] \in Transactions
    BY <1>8 DEF DeleteTransaction, TypeOK
  <2>3. /\ balance' \in [Accounts -> Int] /\ vaultBalance' \in [Vaults -> Int]
        /\ opening' \in [Accounts -> Money]
        /\ archived' \subseteq Accounts /\ inactive' \subseteq Accounts
    BY <1>8, <2>1, ReplaceType DEF DeleteTransaction
  <2>4. /\ tx' \in [Requests -> Transactions \cup {None}]
        /\ ledgerVersion' \in Nat
        /\ revisions' \in Seq([version : Nat, tx : Requests,
                        before : Transactions \cup {None}, after : Transactions \cup {None}])
    BY <1>8, <2>1, ReviseType DEF DeleteTransaction
  <2>5. idem' \in [Keys -> Requests \cup {None}]
    BY <1>8 DEF DeleteTransaction, Unclaim, TypeOK
  <2> QED
    BY <1>8, <2>3, <2>4, <2>5 DEF TypeOK, DeleteTransaction, numbering, calls
<1>9. ASSUME NEW r \in Requests, Lapse(r) PROVE TypeOK'
  BY <1>9 DEF TypeOK, Lapse, books, history, numbering, calls
<1>10. ASSUME NEW e \in Editors, NEW a \in Accounts, NEW o \in Openings, NEW active \in Statuses,
              ReadAccount(e, a, o, active)
       PROVE  TypeOK'
  <2>1. o \in Money /\ active \in BOOLEAN /\ o - opening[a] \in Int
    BY AccountAssumption, BoundsAssumption DEF TypeOK, Money
  <2> QED
    BY SMTT(30), <1>10, <2>1 DEF TypeOK, ReadAccount, books, history, numbering, calls
<1>11. ASSUME NEW e \in Editors, UpdateAccount(e) PROVE TypeOK'
  <2>1. /\ editor[e].account \in Accounts /\ editor[e].opening \in Money /\ editor[e].delta \in Int
    BY <1>11 DEF TypeOK, UpdateAccount
  <2>2. /\ opening' \in [Accounts -> Money] /\ balance' \in [Accounts -> Int]
        /\ inactive' \subseteq Accounts
    BY <1>11, <2>1 DEF TypeOK, UpdateAccount
  <2>3. vaultBalance' \in [Vaults -> Int]
    <3>1. VaultOf[editor[e].account] \in Vaults
      BY <2>1, AccountAssumption
    <3>2. vaultBalance' = [vaultBalance EXCEPT ![VaultOf[editor[e].account]] = @ + editor[e].delta]
      BY <1>11 DEF UpdateAccount
    <3> QED
      BY <2>1, <3>1, <3>2 DEF TypeOK
  <2>4. editor' = [editor EXCEPT ![e] = None]
    BY <1>11 DEF UpdateAccount
  <2> QED
    BY <1>11, <2>2, <2>3, <2>4 DEF TypeOK, UpdateAccount, history, numbering, calls
<1>12. ASSUME NEW e \in Editors, AbortUpdateAccount(e) PROVE TypeOK'
  BY <1>12 DEF TypeOK, AbortUpdateAccount, books, history, numbering, calls
<1>13. ASSUME NEW a \in Accounts, ArchiveAccount(a) PROVE TypeOK'
  BY <1>13 DEF TypeOK, ArchiveAccount, history, numbering, calls
<1>14. ASSUME NEW d \in Admins, NEW p \in Patches, ReadSequence(d, p) PROVE TypeOK'
  <2>1. /\ p.scope \in Scopes /\ Given(p.next, nextNumber[p.scope]) \in Nat \ {0}
        /\ Given(p.auto, autoGenerate[p.scope]) \in BOOLEAN
        /\ Given(p.digits, minimumDigits[p.scope]) \in Digits
    BY PatchAssumption, BoundsAssumption DEF TypeOK, Given
  <2> QED
    BY <1>14, <2>1 DEF TypeOK, ReadSequence, books, history, numbering, calls
<1>15. ASSUME NEW d \in Admins, PatchSequence(d) PROVE TypeOK'
  BY <1>15 DEF TypeOK, PatchSequence, books, history, numbering, calls
<1>16. ASSUME NEW c \in Categories, ChangeRules(c) PROVE TypeOK'
  BY <1>16 DEF TypeOK, ChangeRules, books, history, numbering, calls
<1>17. ASSUME NEW k \in Keys, ExpireKey(k) PROVE TypeOK'
  BY <1>17 DEF TypeOK, ExpireKey, books, history, numbering, calls
<1>18. CASE UNCHANGED vars
  BY SMTT(30), <1>18 DEF TypeOK, vars, books, history, numbering, calls
<1> QED
  BY <1>1, <1>2, <1>3, <1>4, <1>5, <1>6, <1>7, <1>8, <1>9, <1>10, <1>11, <1>12, <1>13,
     <1>14, <1>15, <1>16, <1>17, <1>18 DEF Next

\* The collections and the requests in flight keep their types.
THEOREM TypeCorrect == Spec => []TypeOK
BY TypeInit, TypeNext, PTL DEF Spec

---------------------------------------------------------------------------
(* Balances stay within the monetary bound *)

LEMMA BoundedNext == TypeOK /\ BalancesBounded /\ [Next]_vars => BalancesBounded'
<1> SUFFICES ASSUME TypeOK, BalancesBounded, [Next]_vars PROVE BalancesBounded'
  OBVIOUS
<1>1. ASSUME NEW r \in Requests, CommitTransaction(r) PROVE BalancesBounded'
  <2> DEFINE x == Prepared(r)
  <2>1. x \in Transactions
    BY <1>1, PreparedType DEF CommitTransaction
  <2>2. CanPost(x, balance, vaultBalance) /\ Replace(None, x)
    BY <1>1 DEF CommitTransaction
  <2>3. \A a \in Accounts : AccountEffect(None, a) = 0
    BY DEF AccountEffect
  <2>4. \A v \in Vaults : VaultEffect(None, v) = 0
    BY DEF VaultEffect
  <2>5. \A a \in Accounts : balance'[a] \in Money
    <3> TAKE a \in Accounts
    <3>1. balance[a] \in Int /\ AccountEffect(x, a) \in Int /\ CanAdd(balance[a], AccountEffect(x, a))
      BY <2>1, <2>2, EffectType DEF CanPost, TypeOK
    <3>2. balance[a] + AccountEffect(x, a) \in Money
      BY <3>1, CanAddBounds
    <3>3. balance'[a] = balance[a] + AccountEffect(x, a)
      BY <2>2, <2>3, <3>1 DEF Replace
    <3> QED
      BY <3>2, <3>3
  <2>6. \A v \in Vaults : vaultBalance'[v] \in Money
    <3> TAKE v \in Vaults
    <3>1. vaultBalance[v] \in Int /\ VaultEffect(x, v) \in Int /\ CanAdd(vaultBalance[v], VaultEffect(x, v))
      BY <2>1, <2>2, EffectType DEF CanPost, TypeOK
    <3>2. vaultBalance[v] + VaultEffect(x, v) \in Money
      BY <3>1, CanAddBounds
    <3>3. vaultBalance'[v] = vaultBalance[v] + VaultEffect(x, v)
      BY <2>2, <2>4, <3>1 DEF Replace
    <3> QED
      BY <3>2, <3>3
  <2> QED
    BY <2>5, <2>6 DEF BalancesBounded
<1>2. ASSUME NEW t \in Requests, NEW in \in Inputs, UpdateTransaction(t, in) PROVE BalancesBounded'
  <2> DEFINE old == tx[t]
             new == Amended(t, in)
             bal == [a \in Accounts |-> balance[a] - AccountEffect(old, a)]
             vbal == [v \in Vaults |-> vaultBalance[v] - VaultEffect(old, v)]
  <2>1. old \in Transactions /\ new \in Transactions
    BY <1>2, AmendedType DEF UpdateTransaction, TypeOK
  <2>2. CanPost(new, bal, vbal) /\ Replace(old, new)
    BY <1>2 DEF UpdateTransaction
  <2>3. \A a \in Accounts : balance'[a] \in Money
    <3> TAKE a \in Accounts
    <3>1. /\ balance[a] \in Int /\ AccountEffect(old, a) \in Int /\ AccountEffect(new, a) \in Int
      BY <2>1, EffectType DEF TypeOK
    <3>2. bal[a] = balance[a] - AccountEffect(old, a) /\ CanAdd(bal[a], AccountEffect(new, a))
      BY <2>2 DEF CanPost
    <3>3. bal[a] + AccountEffect(new, a) \in Money
      BY <3>1, <3>2, CanAddBounds
    <3>4. balance'[a] = bal[a] + AccountEffect(new, a)
      BY <2>2, <3>1, <3>2 DEF Replace
    <3> QED
      BY <3>3, <3>4
  <2>4. \A v \in Vaults : vaultBalance'[v] \in Money
    <3> TAKE v \in Vaults
    <3>1. /\ vaultBalance[v] \in Int /\ VaultEffect(old, v) \in Int /\ VaultEffect(new, v) \in Int
      BY <2>1, EffectType DEF TypeOK
    <3>2. vbal[v] = vaultBalance[v] - VaultEffect(old, v) /\ CanAdd(vbal[v], VaultEffect(new, v))
      BY <2>2 DEF CanPost
    <3>3. vbal[v] + VaultEffect(new, v) \in Money
      BY <3>1, <3>2, CanAddBounds
    <3>4. vaultBalance'[v] = vbal[v] + VaultEffect(new, v)
      BY <2>2, <3>1, <3>2 DEF Replace
    <3> QED
      BY <3>3, <3>4
  <2> QED
    BY <2>3, <2>4 DEF BalancesBounded
<1>3. ASSUME NEW t \in Requests, DeleteTransaction(t) PROVE BalancesBounded'
  <2> DEFINE old == tx[t]
  <2>1. old \in Transactions /\ CanReverse(old) /\ Replace(old, None)
    BY <1>3 DEF DeleteTransaction, TypeOK
  <2>2. \A a \in Accounts : AccountEffect(None, a) = 0
    BY DEF AccountEffect
  <2>3. \A v \in Vaults : VaultEffect(None, v) = 0
    BY DEF VaultEffect
  <2>4. \A a \in Accounts : balance'[a] \in Money
    <3> TAKE a \in Accounts
    <3>1. balance[a] \in Int /\ AccountEffect(old, a) \in Int /\ CanAdd(balance[a], -AccountEffect(old, a))
      BY <2>1, EffectType DEF CanReverse, TypeOK
    <3>2. balance[a] + -AccountEffect(old, a) \in Money
      BY <3>1, CanAddBounds
    <3>3. balance'[a] = balance[a] + -AccountEffect(old, a)
      BY <2>1, <2>2, <3>1 DEF Replace
    <3> QED
      BY <3>2, <3>3
  <2>5. \A v \in Vaults : vaultBalance'[v] \in Money
    <3> TAKE v \in Vaults
    <3>1. vaultBalance[v] \in Int /\ VaultEffect(old, v) \in Int /\ CanAdd(vaultBalance[v], -VaultEffect(old, v))
      BY <2>1, EffectType DEF CanReverse, TypeOK
    <3>2. vaultBalance[v] + -VaultEffect(old, v) \in Money
      BY <3>1, CanAddBounds
    <3>3. vaultBalance'[v] = vaultBalance[v] + -VaultEffect(old, v)
      BY <2>1, <2>3, <3>1 DEF Replace
    <3> QED
      BY <3>2, <3>3
  <2> QED
    BY <2>4, <2>5 DEF BalancesBounded
<1>4. ASSUME NEW e \in Editors, UpdateAccount(e) PROVE BalancesBounded'
  <2> DEFINE c == editor[e]  b == c.account  w == VaultOf[b]
  <2>1. b \in Accounts /\ w \in Vaults /\ c.delta \in Int
    BY <1>4, AccountAssumption DEF UpdateAccount, TypeOK
  <2>2. /\ balance[b] \in Money /\ balance[b] \in Int
        /\ vaultBalance[w] \in Money /\ vaultBalance[w] \in Int
    BY <2>1 DEF BalancesBounded, TypeOK
  <2>3. /\ balance' = [balance EXCEPT ![b] = @ + c.delta]
        /\ vaultBalance' = [vaultBalance EXCEPT ![w] = @ + c.delta]
        /\ c.delta # 0 => CanAdd(balance[b], c.delta) /\ CanAdd(vaultBalance[w], c.delta)
    BY <1>4 DEF UpdateAccount, Rebasable
  <2>4. balance[b] + c.delta \in Money /\ vaultBalance[w] + c.delta \in Money
    <3>1. CASE c.delta = 0
      BY <2>2, <3>1
    <3>2. CASE c.delta # 0
      BY <2>1, <2>2, <2>3, <3>2, CanAddBounds
    <3> QED
      BY <3>1, <3>2
  <2> QED
    BY <2>1, <2>3, <2>4 DEF BalancesBounded, TypeOK
<1>5. ASSUME UNCHANGED <<balance, vaultBalance>> PROVE BalancesBounded'
  BY <1>5 DEF BalancesBounded
<1> QED
  BY <1>1, <1>2, <1>3, <1>4, <1>5
  DEF Next, vars, books, CreateTransaction, IdempotentResult, RefuseIdentifier, AbortCommit,
      RecoverResult, Lapse, ReadAccount, AbortUpdateAccount, ArchiveAccount, ReadSequence,
      PatchSequence, ChangeRules, ExpireKey

\* No history of creations, edits, deletions and opening-balance changes takes an
\* account or a vault past the monetary bound.
THEOREM BoundedBalances == Spec => []BalancesBounded
<1>1. Init => BalancesBounded
  BY SMTT(60), AccountAssumption DEF Init, BalancesBounded
<1> QED
  BY <1>1, BoundedNext, TypeCorrect, PTL DEF Spec

---------------------------------------------------------------------------
(* Numbering *)

\* HighWater is not inductive by itself: an edit that keeps the identifier writes
\* the number of the stored record again. The stored records obey it as well.
LiveBelow == \A t \in Requests : tx[t] # None => tx[t].id.number < nextNumber[tx[t].scope]
NumberInv == HighWater /\ LiveBelow /\ AutomaticNeverCollides

\* No step lowers a sequence, and what a step writes is numbered below its sequence.
LEMMA SequenceStep ==
  ASSUME TypeOK, [Next]_vars
  PROVE  \A s \in Scopes : nextNumber[s] <= nextNumber'[s]
<1>1. \A s \in Scopes : nextNumber[s] \in Int
  BY DEF TypeOK
<1>2. ASSUME NEW s \in Scopes, NEW id \in Identifiers, Reserve(s, id)
      PROVE  \A q \in Scopes : nextNumber[q] <= nextNumber'[q]
  BY <1>1, <1>2, BoundsAssumption DEF Reserve, Identifiers, TypeOK
<1>3. ASSUME NEW r \in Requests, CommitTransaction(r)
      PROVE  \A s \in Scopes : nextNumber[s] <= nextNumber'[s]
  <2>1. Prepared(r) \in Transactions /\ Scope(r) \in Scopes
    BY <1>3, PreparedType DEF CommitTransaction
  <2>2. Prepared(r).id \in Identifiers
    BY <2>1 DEF Transactions
  <2>3. CASE Automatic(r)
    <3>1. nextNumber' = [nextNumber EXCEPT ![Scope(r)] = @ + 1]
      BY <1>3, <2>3 DEF CommitTransaction
    <3>2. nextNumber \in [Scopes -> Nat \ {0}]
      BY DEF TypeOK
    <3> QED
      BY <1>1, <2>1, <3>1, <3>2
  <2>4. CASE ~Automatic(r)
    BY <1>2, <1>3, <2>1, <2>2, <2>4 DEF CommitTransaction
  <2> QED
    BY <2>3, <2>4
<1>4. ASSUME NEW t \in Requests, NEW in \in Inputs, UpdateTransaction(t, in)
      PROVE  \A s \in Scopes : nextNumber[s] <= nextNumber'[s]
  <2>1. Amended(t, in).scope \in Scopes /\ Amended(t, in).id \in Identifiers
    BY <1>4, AmendedType DEF UpdateTransaction, Transactions
  <2>2. CASE Amended(t, in).id = tx[t].id
    BY <1>1, <1>4, <2>2 DEF UpdateTransaction
  <2>3. CASE Amended(t, in).id # tx[t].id
    BY <1>2, <1>4, <2>1, <2>3 DEF UpdateTransaction
  <2> QED
    BY <2>2, <2>3
<1>5. ASSUME NEW d \in Admins, PatchSequence(d)
      PROVE  \A s \in Scopes : nextNumber[s] <= nextNumber'[s]
  <2> DEFINE c == admin[d]
  <2>1. c.scope \in Scopes /\ c.next \in Int /\ nextNumber \in [Scopes -> Nat \ {0}]
    BY <1>5 DEF PatchSequence, TypeOK
  <2>2. \/ nextNumber[c.scope] <= c.next /\ nextNumber' = [nextNumber EXCEPT ![c.scope] = c.next]
        \/ nextNumber' = nextNumber
    BY <1>5 DEF PatchSequence, numbering
  <2> QED
    BY <1>1, <2>1, <2>2
<1>6. ASSUME UNCHANGED nextNumber
      PROVE  \A s \in Scopes : nextNumber[s] <= nextNumber'[s]
  BY <1>1, <1>6
<1> QED
  BY <1>3, <1>4, <1>5, <1>6
  DEF Next, vars, numbering, CreateTransaction, IdempotentResult, RefuseIdentifier, AbortCommit,
      RecoverResult, DeleteTransaction, Lapse, ReadAccount, UpdateAccount, AbortUpdateAccount,
      ArchiveAccount, ReadSequence, ChangeRules, ExpireKey

LEMMA SequenceNumbers ==
  ASSUME TypeOK, [Next]_vars
  PROVE  \A s \in Scopes : /\ nextNumber[s] <= nextNumber'[s]
                           /\ nextNumber[s] \in Int /\ nextNumber'[s] \in Int
<1>1. nextNumber \in [Scopes -> Nat]
  BY DEF TypeOK
<1>2. nextNumber' \in [Scopes -> Nat]
  <2>1. TypeOK'
    BY TypeNext
  <2> QED
    BY <2>1 DEF TypeOK
<1> QED
  BY <1>1, <1>2, SequenceStep

\* A sequence never turns back.
THEOREM SequencesAdvance == Spec => NextNumberMonotone
<1>1. TypeOK /\ [Next]_vars => [\A s \in Scopes : nextNumber[s] <= nextNumber'[s]]_vars
  BY SequenceStep
<1> QED
  BY <1>1, TypeCorrect, PTL DEF Spec, NextNumberMonotone

Revision == [version : Nat, tx : Requests,
             before : Transactions \cup {None}, after : Transactions \cup {None}]

LEMMA RevisionType ==
  ASSUME TypeOK, NEW i \in 1 .. Len(revisions)
  PROVE  /\ revisions[i].before \in Transactions \cup {None}
         /\ revisions[i].after \in Transactions \cup {None}
         /\ revisions[i].tx \in Requests /\ revisions[i].version \in Nat
<1> HIDE DEF Revision
<1>1. revisions \in Seq(Revision)
  BY DEF TypeOK, Revision
<1>2. revisions[i] \in Revision
  BY <1>1
<1> QED
  BY <1>2 DEF Revision

\* What Revise does to the records and the journal, for a record numbered below
\* its sequence.
LEMMA ReviseBelow ==
  ASSUME TypeOK, [Next]_vars, HighWater, LiveBelow,
         NEW t \in Requests, NEW before, NEW after \in Transactions \cup {None},
         Revise(t, before, after),
         after # None => after.id.number < nextNumber'[after.scope]
  PROVE  HighWater' /\ LiveBelow'
<1>1. \A s \in Scopes : /\ nextNumber[s] <= nextNumber'[s]
                        /\ nextNumber[s] \in Int /\ nextNumber'[s] \in Int
  BY SequenceNumbers
<1>2. \A x \in Transactions : x.id.number \in Int /\ x.scope \in Scopes
  BY BoundsAssumption DEF Transactions, Identifiers
<1>3. LiveBelow'
  <2> SUFFICES ASSUME NEW q \in Requests, tx'[q] # None
               PROVE  tx'[q].id.number < nextNumber'[tx'[q].scope]
    BY DEF LiveBelow
  <2>1. CASE q = t
    BY <2>1 DEF Revise, TypeOK
  <2>2. CASE q # t
    <3>1. tx'[q] = tx[q] /\ tx[q] \in Transactions
      BY <2>2 DEF Revise, TypeOK
    <3> QED
      BY <1>1, <1>2, <3>1 DEF LiveBelow
  <2> QED
    BY <2>1, <2>2
<1>4. HighWater'
  <2> DEFINE entry == [version |-> ledgerVersion + 1, tx |-> t, before |-> before, after |-> after]
  <2>1. revisions' = Append(revisions, entry)
    BY DEF Revise
  <2>2. revisions \in Seq([version : Nat, tx : Requests,
                        before : Transactions \cup {None}, after : Transactions \cup {None}])
    BY DEF TypeOK
  <2>3. /\ Len(revisions) \in Nat /\ Len(revisions') = Len(revisions) + 1
        /\ revisions'[Len(revisions) + 1] = entry
        /\ \A i \in 1 .. Len(revisions) : revisions'[i] = revisions[i]
    BY <2>1, <2>2
  <2> SUFFICES ASSUME NEW i \in 1 .. Len(revisions'), revisions'[i].after # None
               PROVE  revisions'[i].after.id.number < nextNumber'[revisions'[i].after.scope]
    BY DEF HighWater
  <2>4. CASE i = Len(revisions) + 1
    BY <2>3, <2>4
  <2>5. CASE i # Len(revisions) + 1
    <3>1. i \in 1 .. Len(revisions) /\ revisions'[i] = revisions[i]
      BY <2>3, <2>5
    <3>2. revisions[i].after \in Transactions
      BY <3>1, RevisionType
    <3>3. /\ revisions[i].after # None /\ revisions[i].after.id.number \in Int
          /\ revisions[i].after.scope \in Scopes
      BY <1>2, <3>1, <3>2
    <3>4. revisions[i].after.id.number < nextNumber[revisions[i].after.scope]
      BY <3>1, <3>3 DEF NumberInv, HighWater
    <3> QED
      BY <1>1, <3>1, <3>3, <3>4
  <2> QED
    BY <2>4, <2>5
<1> QED
  BY <1>3, <1>4

LEMMA NumberNext == TypeOK /\ NumberInv /\ [Next]_vars => NumberInv'
<1> SUFFICES ASSUME TypeOK, NumberInv, [Next]_vars PROVE NumberInv'
  OBVIOUS
<1>1. \A s \in Scopes : /\ nextNumber[s] <= nextNumber'[s]
                        /\ nextNumber[s] \in Int /\ nextNumber'[s] \in Int
  BY SequenceNumbers
<1>2. \A x \in Transactions : x.id.number \in Int /\ x.scope \in Scopes
  BY SMTT(60), BoundsAssumption DEF Transactions, Identifiers
<1>3. HighWater' /\ LiveBelow'
  <2>1. ASSUME NEW r \in Requests, CommitTransaction(r) PROVE HighWater' /\ LiveBelow'
    <3> DEFINE x == Prepared(r)
    <3>1. /\ x \in Transactions /\ x.scope = Scope(r) /\ Scope(r) \in Scopes
          /\ Automatic(r) => x.id.number = nextNumber[Scope(r)]
          /\ ~Automatic(r) => x.id = body[r].input.id
      BY <2>1, PreparedType DEF CommitTransaction
    <3>2. x.id.number < nextNumber'[x.scope]
      <4>1. CASE Automatic(r)
        BY <1>1, <2>1, <3>1, <4>1 DEF CommitTransaction, TypeOK
      <4>2. CASE ~Automatic(r)
        <5>1. Reserve(Scope(r), x.id)
          BY <2>1, <4>2 DEF CommitTransaction
        <5> QED
          BY <1>1, <1>2, <3>1, <5>1 DEF Reserve, TypeOK
      <4> QED
        BY <4>1, <4>2
    <3> QED
      BY <2>1, <3>1, <3>2, ReviseBelow DEF CommitTransaction, NumberInv
  <2>2. ASSUME NEW t \in Requests, NEW in \in Inputs, UpdateTransaction(t, in)
        PROVE  HighWater' /\ LiveBelow'
    <3> DEFINE new == Amended(t, in)
    <3>1. new \in Transactions /\ new.scope = tx[t].scope /\ tx[t] \in Transactions
      BY <2>2, AmendedType DEF UpdateTransaction, TypeOK
    <3>2. new.id.number < nextNumber'[new.scope]
      <4>1. CASE new.id = tx[t].id
        BY <1>1, <1>2, <2>2, <3>1, <4>1 DEF UpdateTransaction, NumberInv, LiveBelow
      <4>2. CASE new.id # tx[t].id
        <5>1. Reserve(new.scope, new.id)
          BY <2>2, <4>2 DEF UpdateTransaction
        <5> QED
          BY <1>1, <1>2, <3>1, <5>1 DEF Reserve, TypeOK
      <4> QED
        BY <4>1, <4>2
    <3> QED
      BY <2>2, <3>1, <3>2, ReviseBelow DEF UpdateTransaction, NumberInv
  <2>3. ASSUME NEW t \in Requests, DeleteTransaction(t) PROVE HighWater' /\ LiveBelow'
    BY <2>3, ReviseBelow DEF DeleteTransaction, NumberInv
  <2>4. ASSUME UNCHANGED <<tx, revisions>> PROVE HighWater' /\ LiveBelow'
    <3>1. \A t \in Requests : tx[t] # None => tx[t] \in Transactions
      BY DEF TypeOK
    <3>2. \A i \in 1 .. Len(revisions) : revisions[i].after # None => revisions[i].after \in Transactions
      BY RevisionType
    <3>3. LiveBelow'
      BY <1>1, <1>2, <2>4, <3>1 DEF NumberInv, LiveBelow
    <3>4. HighWater'
      BY SMTT(30), <1>1, <1>2, <2>4, <3>2 DEF NumberInv, HighWater
    <3> QED
      BY <3>3, <3>4
  <2> QED
    BY ZenonT(30), <2>1, <2>2, <2>3, <2>4 DEF Next, vars, history, CreateTransaction,
       IdempotentResult, RefuseIdentifier, AbortCommit, RecoverResult, Lapse,
       ReadAccount, UpdateAccount, AbortUpdateAccount, ArchiveAccount, ReadSequence,
       PatchSequence, ChangeRules, ExpireKey
<1>4. AutomaticNeverCollides'
  <2>1. ASSUME NEW r \in Requests, NEW k \in Keys, NEW in \in Inputs, CreateTransaction(r, k, in)
        PROVE  AutomaticNeverCollides'
    BY <2>1 DEF CreateTransaction, NumberInv, AutomaticNeverCollides, Automatic, TypeOK
  <2>2. ASSUME NEW r \in Requests, RefuseIdentifier(r), pc'[r] = "duplicate" PROVE ~Automatic(r)
    <3> SUFFICES ASSUME Automatic(r) PROVE FALSE
      OBVIOUS
    <3>1. IdentifierTaken(Scope(r), Prepared(r).id) /\ Allocatable(Scope(r)) /\ pc[r] = "ready"
      BY <2>2 DEF RefuseIdentifier, Answer, TypeOK
    <3>2. Prepared(r).id.number = nextNumber[Scope(r)] /\ Scope(r) \in Scopes
      BY <3>1, PreparedType DEF Identified
    <3>3. PICK t \in Requests : tx[t] # None /\ tx[t].scope = Scope(r) /\ tx[t].id = Prepared(r).id
      BY <3>1 DEF IdentifierTaken
    <3> QED
      BY <1>1, <3>2, <3>3 DEF NumberInv, LiveBelow
  <2>3. ASSUME NEW r \in Requests, RefuseIdentifier(r) PROVE AutomaticNeverCollides'
    BY <2>2, <2>3 DEF RefuseIdentifier, Answer, NumberInv, AutomaticNeverCollides, Automatic, TypeOK
  <2>4. ASSUME UNCHANGED body, \A r \in Requests : pc'[r] = "duplicate" => pc[r] = "duplicate"
        PROVE  AutomaticNeverCollides'
    BY <2>4 DEF NumberInv, AutomaticNeverCollides, Automatic
  <2>5. ASSUME NEW r \in Requests, IdempotentResult(r) \/ AbortCommit(r) \/ CommitTransaction(r) \/ RecoverResult(r)
        PROVE  AutomaticNeverCollides'
    <3>1. UNCHANGED body /\ \A q \in Requests : pc'[q] = "duplicate" => pc[q] = "duplicate"
      BY <2>5 DEF IdempotentResult, AbortCommit, CommitTransaction, RecoverResult, Answer, TypeOK
    <3> QED
      BY <2>4, <3>1
  <2> QED
    BY ZenonT(30), <2>1, <2>3, <2>4, <2>5 DEF Next, vars, calls, UpdateTransaction,
       DeleteTransaction, Lapse, ReadAccount, UpdateAccount, AbortUpdateAccount,
       ArchiveAccount, ReadSequence, PatchSequence, ChangeRules, ExpireKey
<1> QED
  BY <1>3, <1>4 DEF NumberInv

LEMMA NumberInvariant == Spec => []NumberInv
<1>1. Init => NumberInv
  BY DEF Init, NumberInv, HighWater, LiveBelow, AutomaticNeverCollides
<1> QED
  BY <1>1, NumberNext, TypeCorrect, PTL DEF Spec

\* An automatic number is larger than every number its scope has ever carried.
THEOREM NumbersNeverReused == Spec => []HighWater
BY NumberInvariant, PTL DEF NumberInv

\* No request for an automatic identifier is refused as a duplicate.
THEOREM AutomaticUnique == Spec => []AutomaticNeverCollides
BY NumberInvariant, PTL DEF NumberInv

---------------------------------------------------------------------------
(* The journal *)

\* The revisions of one record.
About(t) == {i \in 1 .. Len(revisions) : revisions[i].tx = t}

\* What the journal says of one record.
Chained(t) ==
  /\ About(t) = {} => tx[t] = None
  /\ \A i \in About(t) :
       /\ (\A j \in About(t) : j <= i) => revisions[i].after = tx[t]
       /\ (\A j \in About(t) : i <= j) => revisions[i].before = None
       /\ \A j \in About(t) :
            (i < j /\ \A m \in About(t) : m <= i \/ j <= m)
              => revisions[j].before = revisions[i].after

LEMMA JournalIsChained ==
  JournalComplete <=> /\ Len(revisions) = ledgerVersion
                      /\ \A i \in 1 .. Len(revisions) : revisions[i].version = i
                      /\ \A t \in Requests : Chained(t)
BY DEF JournalComplete, Chained, About

\* What is appended to the audit log by one revision.
LEMMA ReviseAppends ==
  ASSUME TypeOK, NEW t \in Requests, NEW before, NEW after, Revise(t, before, after)
  PROVE  /\ Len(revisions) \in Nat /\ Len(revisions') = Len(revisions) + 1
         /\ \A i \in 1 .. Len(revisions) : revisions'[i] = revisions[i]
         /\ revisions'[Len(revisions) + 1]
              = [version |-> ledgerVersion + 1, tx |-> t, before |-> before, after |-> after]
         /\ ledgerVersion' = ledgerVersion + 1
         /\ tx'[t] = after /\ \A q \in Requests \ {t} : tx'[q] = tx[q]
<1>1. revisions \in Seq([version : Nat, tx : Requests,
                         before : Transactions \cup {None}, after : Transactions \cup {None}])
  BY DEF TypeOK
<1>2. revisions' = Append(revisions, [version |-> ledgerVersion + 1, tx |-> t,
                                      before |-> before, after |-> after])
  BY DEF Revise
<1>3. ledgerVersion' = ledgerVersion + 1 /\ tx'[t] = after /\ \A q \in Requests \ {t} : tx'[q] = tx[q]
  BY DEF Revise, TypeOK
<1> QED
  BY <1>1, <1>2, <1>3

\* A revision that starts at the stored record continues the journal.
LEMMA ReviseContinues ==
  ASSUME TypeOK, JournalComplete, NEW t \in Requests, NEW after, Revise(t, tx[t], after)
  PROVE  JournalComplete'
<1> DEFINE n == Len(revisions)
           last == [version |-> ledgerVersion + 1, tx |-> t, before |-> tx[t], after |-> after]
<1>1. /\ n \in Nat /\ Len(revisions') = n + 1
      /\ \A i \in 1 .. n : revisions'[i] = revisions[i]
      /\ revisions'[n + 1] = last
      /\ ledgerVersion' = ledgerVersion + 1
      /\ tx'[t] = after /\ \A q \in Requests \ {t} : tx'[q] = tx[q]
  BY ReviseAppends
<1>2. /\ n = ledgerVersion
      /\ \A i \in 1 .. n : revisions[i].version = i
      /\ \A q \in Requests : Chained(q)
  BY JournalIsChained
<1>3. \A q \in Requests \ {t} : About(q)' = About(q)
  BY <1>1 DEF About
<1>4. About(t)' = About(t) \cup {n + 1}
  BY <1>1 DEF About
<1>5. \A q : About(q) \subseteq 1 .. n
  BY DEF About
<1> HIDE DEF n, last
<1>6. ASSUME NEW q \in Requests \ {t} PROVE Chained(q)'
  <2>1. Chained(q)
    BY <1>2
  <2>2. tx'[q] = tx[q] /\ About(q)' = About(q)
    BY <1>1, <1>3
  <2>3. \A i \in About(q) : revisions'[i] = revisions[i]
    BY <1>1, <1>5
  <2> QED
    BY <2>1, <2>2, <2>3 DEF Chained
<1>7. Chained(t)'
  <2>1. Chained(t)
    BY <1>2
  <2>2. n + 1 \in About(t)' /\ \A i \in About(t) : i \in Int /\ i < n + 1
    BY <1>1, <1>4, <1>5
  <2>3. \A i \in About(t) : revisions'[i] = revisions[i]
    BY <1>1, <1>5
  <2>4. ASSUME NEW i \in About(t)', \A j \in About(t)' : j <= i
        PROVE  revisions'[i].after = tx'[t]
    <3>1. i = n + 1
      BY <1>1, <1>4, <2>2, <2>4
    <3> QED
      BY <1>1, <3>1 DEF last
  <2>5. ASSUME NEW i \in About(t)', \A j \in About(t)' : i <= j
        PROVE  revisions'[i].before = None
    <3>1. CASE i \in About(t)
      BY <1>4, <2>1, <2>3, <2>5, <3>1 DEF Chained
    <3>2. CASE i = n + 1
      <4>1. About(t) = {}
        BY <1>1, <1>4, <2>2, <2>5, <3>2
      <4> QED
        BY <1>1, <2>1, <3>2, <4>1 DEF Chained, last
    <3> QED
      BY <1>4, <3>1, <3>2
  <2>6. ASSUME NEW i \in About(t)', NEW j \in About(t)', i < j,
               \A m \in About(t)' : m <= i \/ j <= m
        PROVE  revisions'[j].before = revisions'[i].after
    <3>1. i \in About(t)
      BY <1>1, <1>4, <2>2, <2>6
    <3>2. CASE j \in About(t)
      BY <1>4, <2>1, <2>3, <2>6, <3>1, <3>2 DEF Chained
    <3>3. CASE j = n + 1
      <4>1. \A m \in About(t) : m <= i
        BY <1>1, <1>4, <2>2, <2>6, <3>3
      <4>2. revisions[i].after = tx[t]
        BY <2>1, <3>1, <4>1 DEF Chained
      <4> QED
        BY <1>1, <2>3, <3>1, <3>3, <4>2 DEF last
    <3> QED
      BY <1>4, <3>2, <3>3
  <2>7. About(t)' # {}
    BY <2>2
  <2> QED
    BY <2>4, <2>5, <2>6, <2>7 DEF Chained
<1>8. \A i \in 1 .. Len(revisions') : revisions'[i].version = i
  BY <1>1, <1>2 DEF last
<1>9. JournalComplete' <=> /\ Len(revisions') = ledgerVersion'
                           /\ \A i \in 1 .. Len(revisions') : revisions'[i].version = i
                           /\ \A q \in Requests : Chained(q)'
  BY DEF JournalComplete, Chained, About
<1> QED
  BY <1>1, <1>2, <1>6, <1>7, <1>8, <1>9

\* Only a request that committed has a record: a commit inserts a new one.
Committed == \A t \in Requests : tx[t] # None => pc[t] = "created"

LEMMA CommittedNext == TypeOK /\ Committed /\ [Next]_vars => Committed'
<1> SUFFICES ASSUME TypeOK, Committed, [Next]_vars PROVE Committed'
  OBVIOUS
<1>1. ASSUME NEW r \in Requests, NEW k \in Keys, NEW in \in Inputs, CreateTransaction(r, k, in)
      PROVE  Committed'
  BY <1>1 DEF CreateTransaction, history, Committed, TypeOK
<1>2. ASSUME NEW r \in Requests,
             IdempotentResult(r) \/ RefuseIdentifier(r) \/ AbortCommit(r) \/ RecoverResult(r)
      PROVE  Committed'
  <2>1. tx' = tx /\ pc[r] # "created" /\ \A q \in Requests \ {r} : pc'[q] = pc[q]
    BY <1>2 DEF IdempotentResult, RefuseIdentifier, AbortCommit, RecoverResult, Answer, history, TypeOK
  <2> QED
    BY <2>1 DEF Committed
<1>3. ASSUME NEW r \in Requests, CommitTransaction(r) PROVE Committed'
  BY <1>3 DEF CommitTransaction, Revise, Answer, Committed, TypeOK
<1>4. ASSUME NEW t \in Requests, NEW in \in Inputs, UpdateTransaction(t, in) PROVE Committed'
  BY <1>4 DEF UpdateTransaction, Revise, calls, Committed, TypeOK
<1>5. ASSUME NEW t \in Requests, DeleteTransaction(t) PROVE Committed'
  BY <1>5 DEF DeleteTransaction, Revise, calls, Committed, TypeOK
<1>6. ASSUME tx' = tx, pc' = pc PROVE Committed'
  BY SMTT(60), <1>6 DEF Committed
<1> QED
  BY <1>1, <1>2, <1>3, <1>4, <1>5, <1>6
  DEF Next, vars, history, calls, Lapse, ReadAccount, UpdateAccount, AbortUpdateAccount,
      ArchiveAccount, ReadSequence, PatchSequence, ChangeRules, ExpireKey

\* Every step either revises one record, starting where it stands, or leaves
\* records and journal alone.
LEMMA StepRevises ==
  ASSUME TypeOK, Committed, [Next]_vars
  PROVE  \/ UNCHANGED history
         \/ \E t \in Requests : \E after : Revise(t, tx[t], after)
<1>1. ASSUME NEW r \in Requests, CommitTransaction(r)
      PROVE  Revise(r, tx[r], Prepared(r))
  <2>1. Revise(r, None, Prepared(r)) /\ pc[r] = "ready"
    BY <1>1 DEF CommitTransaction
  <2>2. tx[r] = None
    BY <2>1 DEF Committed
  <2> QED
    BY <2>1, <2>2
<1>2. ASSUME NEW t \in Requests, NEW in \in Inputs, UpdateTransaction(t, in)
      PROVE  Revise(t, tx[t], Amended(t, in))
  BY <1>2 DEF UpdateTransaction
<1>3. ASSUME NEW t \in Requests, DeleteTransaction(t)
      PROVE  Revise(t, tx[t], None)
  BY <1>3 DEF DeleteTransaction
<1> QED
  BY <1>1, <1>2, <1>3
  DEF Next, vars, CreateTransaction, IdempotentResult, RefuseIdentifier, AbortCommit, RecoverResult,
      Lapse, ReadAccount, UpdateAccount, AbortUpdateAccount, ArchiveAccount, ReadSequence,
      PatchSequence, ChangeRules, ExpireKey

\* The audit log is a faithful journal of every record, whatever creations, edits
\* and deletions commit in whatever order.
THEOREM JournalFaithful == Spec => []JournalComplete
<1>1. Init => JournalComplete /\ Committed
  BY DEF Init, JournalComplete, Committed
<1>2. TypeOK /\ Committed /\ JournalComplete /\ [Next]_vars => JournalComplete'
  <2> SUFFICES ASSUME TypeOK, Committed, JournalComplete, [Next]_vars PROVE JournalComplete'
    OBVIOUS
  <2>1. CASE UNCHANGED history
    BY <2>1 DEF history, JournalComplete
  <2>2. ASSUME NEW t \in Requests, NEW after, Revise(t, tx[t], after) PROVE JournalComplete'
    BY <2>2, ReviseContinues
  <2> QED
    BY <2>1, <2>2, StepRevises
<1>3. TypeOK /\ Committed /\ [Next]_vars => Committed'
  BY CommittedNext
<1> QED
  BY <1>1, <1>2, <1>3, TypeCorrect, PTL DEF Spec

---------------------------------------------------------------------------
(* Idempotency keys *)

KeyInv == SingleEffect /\ ReplayTargetsExist

\* Removing lapsed records from the collection, and letting more of them lapse,
\* disturbs neither property.
LEMMA ForgetKeys ==
  ASSUME TypeOK, KeyInv, tx' = tx, \A r \in lapsed : r \in lapsed',
         \A r \in Requests : pc'[r] = "created" => pc[r] = "created" /\ key'[r] = key[r],
         \A k \in Keys : idem'[k] = idem[k] \/ (idem'[k] = None /\ idem[k] \in lapsed)
  PROVE  KeyInv'
<1>1. ReplayTargetsExist'
  BY DEF KeyInv, ReplayTargetsExist
<1>2. SingleEffect'
  <2> SUFFICES ASSUME NEW r \in Requests, pc'[r] = "created", tx'[r] # None, r \notin lapsed'
               PROVE  idem'[key'[r]] = r
    BY DEF SingleEffect
  <2>1. pc[r] = "created" /\ key'[r] = key[r] /\ key[r] \in Keys
    BY DEF TypeOK
  <2>2. idem[key[r]] = r
    BY <2>1 DEF KeyInv, SingleEffect
  <2> QED
    BY <2>1, <2>2
<1> QED
  BY <1>1, <1>2 DEF KeyInv

LEMMA KeyNext == TypeOK /\ KeyInv /\ [Next]_vars => KeyInv'
<1> SUFFICES ASSUME TypeOK, KeyInv, [Next]_vars PROVE KeyInv'
  OBVIOUS
<1>1. ASSUME NEW r \in Requests, NEW k \in Keys, NEW in \in Inputs, CreateTransaction(r, k, in)
      PROVE  KeyInv'
  <2>1. tx' = tx /\ lapsed' = lapsed /\ idem' = idem
    BY <1>1 DEF CreateTransaction, history
  <2>2. \A q \in Requests : pc'[q] = "created" => pc[q] = "created" /\ key'[q] = key[q]
    BY <1>1 DEF CreateTransaction, TypeOK
  <2> QED
    BY <2>1, <2>2, ForgetKeys
<1>2. ASSUME NEW r \in Requests, IdempotentResult(r) PROVE KeyInv'
  <2>1. tx' = tx /\ lapsed' = lapsed /\ key' = key
    BY <1>2 DEF IdempotentResult, Answer, history
  <2>2. \A q \in Requests : pc'[q] = "created" => pc[q] = "created"
    BY <1>2 DEF IdempotentResult, Answer, TypeOK
  <2>3. \A k \in Keys : idem'[k] = idem[k] \/ (idem'[k] = None /\ idem[k] \in lapsed)
    BY <1>2 DEF IdempotentResult, TypeOK
  <2> QED
    BY <2>1, <2>2, <2>3, ForgetKeys
<1>3. ASSUME NEW r \in Requests, RefuseIdentifier(r) \/ AbortCommit(r) \/ RecoverResult(r)
      PROVE  KeyInv'
  <2>1. tx' = tx /\ lapsed' = lapsed /\ key' = key /\ idem' = idem
    BY <1>3 DEF RefuseIdentifier, AbortCommit, RecoverResult, Answer, history
  <2>2. \A q \in Requests : pc'[q] = "created" => pc[q] = "created"
    BY <1>3 DEF RefuseIdentifier, AbortCommit, RecoverResult, Answer, TypeOK
  <2> QED
    BY <2>1, <2>2, ForgetKeys
<1>4. ASSUME NEW r \in Requests, CommitTransaction(r) PROVE KeyInv'
  <2> DEFINE x == Prepared(r)
  <2>1. /\ pc[r] = "ready" /\ key[r] \in Keys /\ x \in Transactions
        /\ idem[key[r]] = None /\ r # None
    BY <1>4, PreparedType, NoneAssumption DEF CommitTransaction, Unclaimed, TypeOK
  <2>2. /\ idem' = [idem EXCEPT ![key[r]] = r] /\ tx' = [tx EXCEPT ![r] = x]
        /\ pc' = [pc EXCEPT ![r] = "created"] /\ UNCHANGED <<key, lapsed>>
    BY <1>4 DEF CommitTransaction, Revise, Answer
  <2>3. ReplayTargetsExist'
    <3> SUFFICES ASSUME NEW k \in Keys, idem'[k] # None PROVE tx'[idem'[k]] # None
      BY DEF ReplayTargetsExist
    <3>1. CASE k = key[r]
      BY <2>1, <2>2, <3>1, NoneAssumption DEF TypeOK
    <3>2. CASE k # key[r]
      BY <2>1, <2>2, <3>2, NoneAssumption DEF TypeOK, KeyInv, ReplayTargetsExist
    <3> QED
      BY <3>1, <3>2
  <2>4. SingleEffect'
    <3> SUFFICES ASSUME NEW q \in Requests, pc'[q] = "created", tx'[q] # None, q \notin lapsed'
                 PROVE  idem'[key'[q]] = q
      BY DEF SingleEffect
    <3>1. CASE q = r
      BY <2>1, <2>2, <3>1 DEF TypeOK
    <3>2. CASE q # r
      <4>1. pc[q] = "created" /\ tx[q] # None /\ q \notin lapsed /\ q # None
        BY <2>2, <3>2, NoneAssumption DEF TypeOK
      <4>2. idem[key[q]] = q
        BY <4>1 DEF KeyInv, SingleEffect
      <4>3. key[q] # key[r]
        BY <2>1, <4>1, <4>2
      <4> QED
        BY <2>2, <4>1, <4>2, <4>3 DEF TypeOK
    <3> QED
      BY <3>1, <3>2
  <2> QED
    BY <2>3, <2>4 DEF KeyInv
<1>5. ASSUME NEW t \in Requests, NEW in \in Inputs, UpdateTransaction(t, in) PROVE KeyInv'
  <2>1. /\ UNCHANGED <<idem, lapsed, pc, key>>
        /\ tx[t] # None /\ tx' = [tx EXCEPT ![t] = Amended(t, in)] /\ Amended(t, in) # None
    BY <1>5, AmendedType, NoneAssumption DEF UpdateTransaction, Revise, calls
  <2>2. \A q \in Requests : tx'[q] # None <=> tx[q] # None
    BY <2>1 DEF TypeOK
  <2> QED
    BY <2>1, <2>2 DEF KeyInv, SingleEffect, ReplayTargetsExist, TypeOK
<1>6. ASSUME NEW t \in Requests, DeleteTransaction(t) PROVE KeyInv'
  <2>1. /\ UNCHANGED <<lapsed, pc, key>> /\ tx' = [tx EXCEPT ![t] = None]
        /\ idem' = [k \in Keys |-> IF idem[k] = t THEN None ELSE idem[k]]
    BY <1>6 DEF DeleteTransaction, Revise, Unclaim, calls
  <2>2. \A q \in Requests : pc[q] = "created" => key[q] \in Keys
    BY DEF TypeOK
  <2> QED
    BY <2>1, <2>2 DEF KeyInv, SingleEffect, ReplayTargetsExist, TypeOK
<1>7. ASSUME NEW k \in Keys, ExpireKey(k) PROVE KeyInv'
  <2>1. tx' = tx /\ lapsed' = lapsed /\ pc' = pc /\ key' = key
    BY <1>7 DEF ExpireKey, history, calls
  <2>2. \A j \in Keys : idem'[j] = idem[j] \/ (idem'[j] = None /\ idem[j] \in lapsed)
    BY <1>7 DEF ExpireKey, TypeOK
  <2> QED
    BY <2>1, <2>2, ForgetKeys
<1>8. ASSUME tx' = tx, pc' = pc, key' = key, idem' = idem, \A r \in lapsed : r \in lapsed'
      PROVE  KeyInv'
  BY <1>8, ForgetKeys
<1> QED
  BY <1>1, <1>2, <1>3, <1>4, <1>5, <1>6, <1>7, <1>8
  DEF Next, vars, history, calls, Lapse, ReadAccount, UpdateAccount, AbortUpdateAccount,
      ArchiveAccount, ReadSequence, PatchSequence, ChangeRules

LEMMA KeyInvariant == Spec => []KeyInv
<1>1. Init => KeyInv
  BY DEF Init, KeyInv, SingleEffect, ReplayTargetsExist
<1> QED
  BY <1>1, KeyNext, TypeCorrect, PTL DEF Spec

\* A key whose record stands resolves to the one transaction created under it.
THEOREM OneEffectPerKey == Spec => []SingleEffect
<1>1. KeyInv => SingleEffect
  BY ZenonT(30) DEF KeyInv
<1> QED
  BY <1>1, KeyInvariant, PTL

\* No key resolves to a deleted transaction.
THEOREM KeysResolve == Spec => []ReplayTargetsExist
<1>1. KeyInv => ReplayTargetsExist
  BY ZenonT(30) DEF KeyInv
<1> QED
  BY <1>1, KeyInvariant, PTL

---------------------------------------------------------------------------
(* Archived accounts *)

LEMMA ArchivedStep ==
  ASSUME TypeOK, Next, NEW t \in Requests, tx'[t] # tx[t], tx'[t] # None
  PROVE  AccountsOf(tx'[t]) \cap archived = {}
<1>1. ASSUME NEW r \in Requests, CommitTransaction(r) PROVE AccountsOf(tx'[t]) \cap archived = {}
  <2>1. tx' = [tx EXCEPT ![r] = Prepared(r)] /\ Open(Prepared(r))
    BY <1>1 DEF CommitTransaction, Revise
  <2> QED
    BY <2>1 DEF Open, TypeOK
<1>2. ASSUME NEW r \in Requests, NEW in \in Inputs, UpdateTransaction(r, in)
      PROVE  AccountsOf(tx'[t]) \cap archived = {}
  <2>1. tx' = [tx EXCEPT ![r] = Amended(r, in)] /\ Open(Amended(r, in))
    BY <1>2 DEF UpdateTransaction, Revise
  <2> QED
    BY <2>1 DEF Open, TypeOK
<1>3. ASSUME NEW r \in Requests, DeleteTransaction(r) PROVE FALSE
  BY <1>3 DEF DeleteTransaction, Revise, TypeOK
<1> QED
  BY ZenonT(30), <1>1, <1>2, <1>3 DEF Next, history, CreateTransaction,
     IdempotentResult, RefuseIdentifier, AbortCommit, RecoverResult, Lapse, ReadAccount,
     UpdateAccount, AbortUpdateAccount, ArchiveAccount, ReadSequence, PatchSequence,
     ChangeRules, ExpireKey

\* Nothing new moves money on an archived account, in any interleaving.
THEOREM ArchiveFreezes == Spec => ArchivedFrozen
<1>1. TypeOK /\ [Next]_vars =>
        [\A t \in Requests : tx'[t] # tx[t] /\ tx'[t] # None
            => AccountsOf(tx'[t]) \cap archived = {}]_vars
  BY ArchivedStep
<1> QED
  BY <1>1, TypeCorrect, PTL DEF Spec, ArchivedFrozen

---------------------------------------------------------------------------
(* The book of entries *)

\* Only committed requests have a record, and what an editor has read is still
\* the opening balance it will replace (true with one editor at a time).
EditInv ==
  /\ \A r \in Requests : tx[r] # None => pc[r] = "created"
  /\ \A e \in Editors : editor[e] # None =>
       /\ editor[e].opening \in Openings
       /\ editor[e].delta = editor[e].opening - opening[editor[e].account]

OneEditor == \A e, f \in Editors : e = f

\* Steps that touch neither records nor opening balances nor editors, and forget no commit.
LEMMA EditKept ==
  ASSUME EditInv, tx' = tx, opening' = opening, editor' = editor,
         \A r \in Requests : pc[r] = "created" => pc'[r] = "created"
  PROVE  EditInv'
BY DEF EditInv

LEMMA EditNext == OneEditor /\ TypeOK /\ EditInv /\ [Next]_vars => EditInv'
<1> SUFFICES ASSUME OneEditor, TypeOK, EditInv, [Next]_vars PROVE EditInv'
  OBVIOUS
<1>1. ASSUME NEW r \in Requests, NEW k \in Keys, NEW in \in Inputs, CreateTransaction(r, k, in)
      PROVE  EditInv'
  <2>1. tx' = tx /\ opening' = opening /\ editor' = editor
    BY <1>1 DEF CreateTransaction, history, books
  <2>2. \A q \in Requests : pc[q] = "created" => pc'[q] = "created"
    BY <1>1 DEF CreateTransaction, TypeOK
  <2> QED
    BY <2>1, <2>2, EditKept
<1>2. ASSUME NEW r \in Requests,
             IdempotentResult(r) \/ RefuseIdentifier(r) \/ AbortCommit(r) \/ RecoverResult(r)
      PROVE  EditInv'
  <2>1. tx' = tx /\ opening' = opening /\ editor' = editor
    BY <1>2 DEF IdempotentResult, RefuseIdentifier, AbortCommit, RecoverResult, history, books
  <2>2. \A q \in Requests : pc[q] = "created" => pc'[q] = "created"
    BY <1>2 DEF IdempotentResult, RefuseIdentifier, AbortCommit, RecoverResult, Answer, TypeOK
  <2> QED
    BY <2>1, <2>2, EditKept
<1>3. ASSUME NEW r \in Requests, CommitTransaction(r) PROVE EditInv'
  <2>1. /\ tx' = [tx EXCEPT ![r] = Prepared(r)] /\ pc' = [pc EXCEPT ![r] = "created"]
        /\ opening' = opening /\ editor' = editor
    BY <1>3 DEF CommitTransaction, Revise, Replace, Answer
  <2> QED
    BY <2>1 DEF EditInv, TypeOK
<1>4. ASSUME NEW t \in Requests, NEW in \in Inputs, UpdateTransaction(t, in) PROVE EditInv'
  <2>1. /\ tx' = [tx EXCEPT ![t] = Amended(t, in)] /\ tx[t] # None /\ pc' = pc
        /\ opening' = opening /\ editor' = editor
    BY <1>4 DEF UpdateTransaction, Revise, Replace, calls
  <2> QED
    BY <2>1 DEF EditInv, TypeOK
<1>5. ASSUME NEW t \in Requests, DeleteTransaction(t) PROVE EditInv'
  <2>1. /\ tx' = [tx EXCEPT ![t] = None] /\ pc' = pc
        /\ opening' = opening /\ editor' = editor
    BY <1>5 DEF DeleteTransaction, Revise, Replace, calls
  <2> QED
    BY <2>1 DEF EditInv, TypeOK
<1>6. ASSUME NEW e \in Editors, NEW a \in Accounts, NEW o \in Openings, NEW active \in Statuses,
             ReadAccount(e, a, o, active)
      PROVE  EditInv'
  <2>1. /\ tx' = tx /\ pc' = pc /\ opening' = opening
        /\ editor' = [editor EXCEPT ![e] = [account |-> a, opening |-> o, active |-> active,
                                            delta |-> o - opening[a]]]
    BY <1>6 DEF ReadAccount, history, books, calls
  <2> QED
    BY <2>1 DEF EditInv, TypeOK
<1>7. ASSUME NEW e \in Editors, UpdateAccount(e) \/ AbortUpdateAccount(e) PROVE EditInv'
  <2>1. tx' = tx /\ pc' = pc /\ editor' = [editor EXCEPT ![e] = None]
    BY <1>7 DEF UpdateAccount, AbortUpdateAccount, history, calls
  <2>2. \A f \in Editors : editor'[f] = None
    BY <2>1 DEF OneEditor, TypeOK
  <2> QED
    BY <2>1, <2>2 DEF EditInv
<1>8. ASSUME tx' = tx, pc' = pc, opening' = opening, editor' = editor PROVE EditInv'
  BY <1>8, EditKept
<1> QED
  BY <1>1, <1>2, <1>3, <1>4, <1>5, <1>6, <1>7, <1>8
  DEF Next, vars, books, history, calls, Lapse, ArchiveAccount, ReadSequence, PatchSequence,
      ChangeRules, ExpireKey

\* Book steps that change nothing, or forget one key.
LEMMA BookIdle ==
  ASSUME tx' = tx, opening' = opening, balance' = balance, idem' = idem,
         \A r \in Requests : pc'[r] = "created" <=> pc[r] = "created"
  PROVE  UNCHANGED Books!vars
BY DEF Books!vars

LEMMA BookPosted ==
  ASSUME TypeOK, NEW r \in Requests, NEW outcome, Answer(r, outcome),
         pc[r] # "created", outcome # "created"
  PROVE  \A q \in Requests : pc'[q] = "created" <=> pc[q] = "created"
BY DEF Answer, TypeOK

LEMMA BookStep ==
  ASSUME OneEditor, TypeOK, TypeOK', BalancesBounded', EditInv, [Next]_vars
  PROVE  [Books!Next]_(Books!vars)
<1>0. None \notin Requests /\ None \notin lapsed
  BY NoneAssumption DEF TypeOK
<1>1. ASSUME NEW r \in Requests, NEW k \in Keys, NEW in \in Inputs, CreateTransaction(r, k, in)
      PROVE  UNCHANGED Books!vars
  <2>1. /\ tx' = tx /\ opening' = opening /\ balance' = balance /\ idem' = idem
        /\ \A q \in Requests : pc'[q] = "created" <=> pc[q] = "created"
    BY <1>1 DEF CreateTransaction, history, books, TypeOK
  <2> QED
    BY <2>1, BookIdle
<1>2. ASSUME NEW r \in Requests, RefuseIdentifier(r) \/ AbortCommit(r) \/ RecoverResult(r)
      PROVE  UNCHANGED Books!vars
  <2>1. /\ tx' = tx /\ opening' = opening /\ balance' = balance /\ idem' = idem
        /\ \A q \in Requests : pc'[q] = "created" <=> pc[q] = "created"
    BY <1>2 DEF RefuseIdentifier, AbortCommit, RecoverResult, Answer, history, books, TypeOK
  <2> QED
    BY <2>1, BookIdle
<1>3. ASSUME NEW r \in Requests, IdempotentResult(r) PROVE [Books!Next]_(Books!vars)
  <2>1. /\ tx' = tx /\ opening' = opening /\ balance' = balance
        /\ \A q \in Requests : pc'[q] = "created" <=> pc[q] = "created"
        /\ key[r] \in Keys
    BY <1>3 DEF IdempotentResult, Answer, history, books, TypeOK
  <2>2. CASE idem[key[r]] \in lapsed
    <3>1. idem' = [idem EXCEPT ![key[r]] = None] /\ idem[key[r]] # None
      BY <1>0, <1>3, <2>2 DEF IdempotentResult
    <3>2. Books!Forget(key[r])
      BY <2>1, <3>1 DEF Books!Forget
    <3> QED
      BY <2>1, <3>2 DEF Books!Next
  <2>3. CASE idem[key[r]] \notin lapsed
    <3>1. idem' = idem
      BY <1>3, <2>3 DEF IdempotentResult, TypeOK
    <3> QED
      BY <2>1, <3>1, BookIdle
  <2> QED
    BY <2>2, <2>3
<1>4. ASSUME NEW r \in Requests, CommitTransaction(r) PROVE Books!Next
  <2> DEFINE x == Prepared(r)
  <2>1. /\ pc[r] = "ready" /\ key[r] \in Keys /\ x \in Transactions
        /\ tx[r] = None /\ idem[key[r]] = None
    BY <1>4, PreparedType DEF CommitTransaction, Unclaimed, EditInv, TypeOK
  <2>2. /\ idem' = [idem EXCEPT ![key[r]] = r] /\ tx' = [tx EXCEPT ![r] = x]
        /\ pc' = [pc EXCEPT ![r] = "created"] /\ opening' = opening /\ Replace(None, x)
    BY <1>4 DEF CommitTransaction, Revise, Answer, Replace
  <2>3. tx'[r] = x
    BY <2>2 DEF TypeOK
  <2>4. Books!Write(r)
    BY <2>1, <2>2, <2>3 DEF Books!Write
  <2>5. Books!Move(None, tx'[r])
    BY <2>2, <2>3 DEF Books!Move, Books!Money, Replace, BalancesBounded, Money
  <2>6. {q \in Requests : pc'[q] = "created"} = {q \in Requests : pc[q] = "created"} \cup {r}
    BY <2>2 DEF TypeOK
  <2>7. r \notin {q \in Requests : pc[q] = "created"}
    BY <2>1
  <2>8. idem' = [idem EXCEPT ![key[r]] = r] /\ UNCHANGED opening
    BY <2>2
  <2>9. PICK k \in Keys : k = key[r]
    BY <2>1
  <2>10. Books!Post(r, k)
    BY <2>1, <2>4, <2>5, <2>6, <2>7, <2>8, <2>9 DEF Books!Post
  <2> QED
    BY <2>10 DEF Books!Next
<1>5. ASSUME NEW t \in Requests, NEW in \in Inputs, UpdateTransaction(t, in) PROVE Books!Next
  <2> DEFINE new == Amended(t, in)
  <2>1. /\ tx[t] # None /\ tx' = [tx EXCEPT ![t] = new] /\ new \in Transactions
        /\ UNCHANGED <<idem, pc, opening>> /\ Replace(tx[t], new)
    BY <1>5, AmendedType DEF UpdateTransaction, Revise, Replace, calls
  <2>2. tx'[t] = new
    BY <2>1 DEF TypeOK
  <2>3. Books!Write(t)
    BY <2>1, <2>2 DEF Books!Write
  <2>4. Books!Move(tx[t], tx'[t])
    BY <2>1, <2>2 DEF Books!Move, Books!Money, Replace, BalancesBounded, Money
  <2>5. Books!Amend(t)
    BY <2>1, <2>3, <2>4 DEF Books!Amend
  <2> QED
    BY <2>5 DEF Books!Next
<1>6. ASSUME NEW t \in Requests, DeleteTransaction(t) PROVE Books!Next
  <2>1. /\ tx[t] # None /\ tx' = [tx EXCEPT ![t] = None] /\ idem' = Unclaim(t)
        /\ UNCHANGED <<pc, opening>> /\ Replace(tx[t], None)
    BY <1>6 DEF DeleteTransaction, Revise, Replace, calls
  <2>2. Books!Move(tx[t], None)
    BY <2>1 DEF Books!Move, Books!Money, Replace, BalancesBounded, Money
  <2>3. Books!Void(t)
    BY <2>1, <2>2 DEF Books!Void, Unclaim
  <2> QED
    BY <2>3 DEF Books!Next
<1>7. ASSUME NEW e \in Editors, UpdateAccount(e) PROVE Books!Next
  <2> DEFINE a == editor[e].account  o == editor[e].opening
  <2>1. /\ a \in Accounts /\ o \in Openings /\ editor[e].delta = o - opening[a]
        /\ balance \in [Accounts -> Int]
    BY <1>7 DEF UpdateAccount, EditInv, TypeOK
  <2>2. /\ opening' = [opening EXCEPT ![a] = o]
        /\ balance' = [balance EXCEPT ![a] = @ + (o - opening[a])]
        /\ UNCHANGED <<tx, idem, pc>>
    BY <1>7, <2>1 DEF UpdateAccount, history, calls
  <2>3. balance[a] + (o - opening[a]) \in Money
    BY <2>1, <2>2 DEF BalancesBounded
  <2>4. balance[a] + o - opening[a] = balance[a] + (o - opening[a])
    BY <2>1, AccountAssumption DEF TypeOK, Money
  <2>5. Books!Rebase(a, o)
    BY <2>1, <2>2, <2>3, <2>4 DEF Books!Rebase, Books!Money, Money
  <2> QED
    BY <2>1, <2>5 DEF Books!Next
<1>8. ASSUME NEW k \in Keys, ExpireKey(k) PROVE Books!Next
  <2>1. /\ idem' = [idem EXCEPT ![k] = None] /\ idem[k] # None
        /\ UNCHANGED <<tx, pc, opening, balance>>
    BY <1>0, <1>8 DEF ExpireKey, history, books, calls
  <2>2. Books!Forget(k)
    BY <2>1 DEF Books!Forget
  <2> QED
    BY <2>2 DEF Books!Next
<1>9. ASSUME UNCHANGED <<tx, pc, opening, balance, idem>> PROVE UNCHANGED Books!vars
  BY <1>9 DEF Books!vars
<1> QED
  BY <1>1, <1>2, <1>3, <1>4, <1>5, <1>6, <1>7, <1>8, <1>9
  DEF Next, vars, books, history, calls, Lapse, ReadAccount, AbortUpdateAccount, ArchiveAccount,
      ReadSequence, PatchSequence, ChangeRules

\* With one account editor at a time, every behaviour of the ledger is a behaviour
\* of the book of entries.
THEOREM LedgerImplementsBooks == ASSUME OneEditor PROVE Spec => BooksSpec
<1>1. Init => Books!Init
  BY AccountAssumption DEF Init, Books!Init, Books!Money, Money
<1>2. Init => EditInv
  BY DEF Init, EditInv
<1>3. TypeOK /\ EditInv /\ [Next]_vars => EditInv'
  BY EditNext
<1>4. TypeOK /\ TypeOK' /\ BalancesBounded' /\ EditInv /\ [Next]_vars => [Books!Next]_(Books!vars)
  BY BookStep
<1> QED
  BY <1>1, <1>2, <1>3, <1>4, TypeCorrect, BoundedBalances, PTL DEF Spec, BooksSpec, Books!Spec

---------------------------------------------------------------------------
(* Balances add up *)

\* AccountsAddUp for finitely many records.
BalanceInv == IsFiniteSet(Stored) /\ AccountsAddUp

LEMMA SumsType ==
  ASSUME TypeOK, IsFiniteSet(Stored), NEW a \in Accounts
  PROVE  Brought(a) \in Int /\ Taken(a) \in Int
<1> DEFINE in  == [q \in Stored |-> Excess(AccountEffect(tx[q], a))]
           out == [q \in Stored |-> Excess(-AccountEffect(tx[q], a))]
<1>1. \A q \in Stored : AccountEffect(tx[q], a) \in Int
  BY EffectType DEF TypeOK, Stored
<1>2. in \in [Stored -> Nat] /\ out \in [Stored -> Nat]
  BY <1>1 DEF Excess
<1> HIDE DEF in, out
<1>3. Total(in) \in Nat /\ Total(out) \in Nat
  BY <1>2, TotalType
<1> QED
  BY <1>3 DEF Brought, Taken, in, out

\* A record replaced, added or removed changes the two sums of an account by what
\* it contributes.
LEMMA SumsStep ==
  ASSUME TypeOK, IsFiniteSet(Stored), NEW t \in Requests, NEW new \in Transactions \cup {None},
         tx' = [tx EXCEPT ![t] = new], NEW a \in Accounts
  PROVE  /\ IsFiniteSet(Stored')
         /\ Brought(a) \in Int /\ Taken(a) \in Int /\ Brought(a)' \in Int /\ Taken(a)' \in Int
         /\ Brought(a)' - Taken(a)'
              = Brought(a) - Taken(a) - AccountEffect(tx[t], a) + AccountEffect(new, a)
<1> DEFINE U == Stored \cup {t}
           in0  == [q \in U |-> Excess(AccountEffect(tx[q], a))]
           in1  == [q \in U |-> Excess(AccountEffect(tx'[q], a))]
           out0 == [q \in U |-> Excess(-AccountEffect(tx[q], a))]
           out1 == [q \in U |-> Excess(-AccountEffect(tx'[q], a))]
<1>1. IsFiniteSet(U) /\ U \subseteq Requests /\ t \in U /\ Stored \subseteq U
  BY FS_AddElement DEF Stored
<1>2. tx'[t] = new /\ \A q \in Requests \ {t} : tx'[q] = tx[q]
  BY DEF TypeOK
<1>3. Stored' \subseteq U /\ IsFiniteSet(Stored')
  <2>1. Stored' \subseteq U
    BY <1>2 DEF Stored
  <2> QED
    BY <1>1, <2>1, FS_Subset
<1>4. \A q \in U : /\ AccountEffect(tx[q], a) \in Int /\ AccountEffect(tx'[q], a) \in Int
  BY <1>1, <1>2, EffectType DEF TypeOK
<1>5. /\ in0 \in [U -> Nat] /\ in1 \in [U -> Nat] /\ out0 \in [U -> Nat] /\ out1 \in [U -> Nat]
  BY <1>4 DEF Excess
<1>6. \A q \in U : /\ q \notin Stored => AccountEffect(tx[q], a) = 0
                   /\ q \notin Stored' => AccountEffect(tx'[q], a) = 0
  BY <1>1 DEF Stored, AccountEffect
<1>7. Brought(a) = Total(in0) /\ Taken(a) = Total(out0)
  <2>1. \A q \in U \ Stored : in0[q] = 0 /\ out0[q] = 0
    BY <1>6 DEF Excess
  <2>2. /\ [q \in Stored |-> in0[q]] = [q \in Stored |-> Excess(AccountEffect(tx[q], a))]
        /\ [q \in Stored |-> out0[q]] = [q \in Stored |-> Excess(-AccountEffect(tx[q], a))]
    BY <1>1
  <2> HIDE DEF in0, out0
  <2> QED
    BY <1>1, <1>5, <2>1, <2>2, TotalPad DEF Brought, Taken
<1>8. Brought(a)' = Total(in1) /\ Taken(a)' = Total(out1)
  <2>1. \A q \in U \ Stored' : in1[q] = 0 /\ out1[q] = 0
    BY <1>6 DEF Excess
  <2>2. /\ [q \in Stored' |-> in1[q]] = [q \in Stored' |-> Excess(AccountEffect(tx'[q], a))]
        /\ [q \in Stored' |-> out1[q]] = [q \in Stored' |-> Excess(-AccountEffect(tx'[q], a))]
    BY <1>3
  <2> HIDE DEF in1, out1
  <2> QED
    BY SMTT(30), <1>3, <1>5, <2>1, <2>2, TotalPad DEF Brought, Taken
<1>9. \A q \in U \ {t} : in1[q] = in0[q] /\ out1[q] = out0[q]
  BY <1>1, <1>2
<1>10. in0[t] - out0[t] = AccountEffect(tx[t], a) /\ in1[t] - out1[t] = AccountEffect(new, a)
  BY <1>1, <1>2, <1>4 DEF Excess
<1>11. /\ in0[t] \in Nat /\ in1[t] \in Nat /\ out0[t] \in Nat /\ out1[t] \in Nat
  BY <1>1, <1>5
<1> HIDE DEF in0, in1, out0, out1, U
<1>12. /\ Total(in1) + in0[t] = Total(in0) + in1[t]
       /\ Total(out1) + out0[t] = Total(out0) + out1[t]
  BY <1>1, <1>5, <1>9, TotalChange
<1>13. /\ Total(in0) \in Nat /\ Total(in1) \in Nat /\ Total(out0) \in Nat /\ Total(out1) \in Nat
  BY <1>1, <1>5, TotalType
<1>14. Total(in1) - Total(out1) = Total(in0) - Total(out0) - AccountEffect(tx[t], a) + AccountEffect(new, a)
  BY <1>10, <1>11, <1>12, <1>13
<1> QED
  BY <1>3, <1>7, <1>8, <1>13, <1>14

LEMMA BalanceNext ==
  ASSUME OneEditor, TypeOK, TypeOK', BalancesBounded', EditInv, BalanceInv, [Next]_vars
  PROVE  BalanceInv'
<1>1. [Books!Next]_(Books!vars)
  BY BookStep
<1>2. ASSUME NEW t \in Requests, NEW new \in Transactions \cup {None},
             tx' = [tx EXCEPT ![t] = new], opening' = opening, Books!Move(tx[t], new)
      PROVE  BalanceInv'
  <2>1. ASSUME NEW a \in Accounts
        PROVE  IsFiniteSet(Stored') /\ balance'[a] = opening'[a] + Brought(a)' - Taken(a)'
    <3>1. /\ IsFiniteSet(Stored')
          /\ Brought(a) \in Int /\ Taken(a) \in Int /\ Brought(a)' \in Int /\ Taken(a)' \in Int
          /\ Brought(a)' - Taken(a)'
               = Brought(a) - Taken(a) - AccountEffect(tx[t], a) + AccountEffect(new, a)
      BY <1>2, SumsStep DEF BalanceInv
    <3>2. AccountEffect(tx[t], a) \in Int /\ AccountEffect(new, a) \in Int
      BY EffectType DEF TypeOK
    <3>3. balance'[a] = balance[a] - AccountEffect(tx[t], a) + AccountEffect(new, a)
      BY <1>2 DEF Books!Move
    <3>4. balance[a] \in Int /\ opening[a] \in Int /\ opening'[a] = opening[a]
      BY <1>2, BoundsAssumption DEF TypeOK, Money
    <3>5. balance[a] = opening[a] + Brought(a) - Taken(a)
      BY DEF BalanceInv, AccountsAddUp
    <3> QED
      BY <3>1, <3>2, <3>3, <3>4, <3>5
  <2>2. IsFiniteSet(Stored')
    <3>1. Stored' \subseteq Stored \cup {t}
      BY <1>2 DEF Stored, TypeOK
    <3> QED
      BY <3>1, FS_AddElement, FS_Subset DEF BalanceInv
  <2> QED
    BY <2>1, <2>2 DEF BalanceInv, AccountsAddUp
<1>3. ASSUME tx' = tx, \A a \in Accounts : balance'[a] - opening'[a] = balance[a] - opening[a]
      PROVE  BalanceInv'
  <2>1. Stored' = Stored /\ \A a \in Accounts : Brought(a)' = Brought(a) /\ Taken(a)' = Taken(a)
    BY <1>3 DEF Stored, Brought, Taken
  <2>2. ASSUME NEW a \in Accounts PROVE balance'[a] = opening'[a] + Brought(a)' - Taken(a)'
    <3>1. Brought(a) \in Int /\ Taken(a) \in Int
      BY SumsType DEF BalanceInv
    <3>2. /\ balance[a] \in Int /\ opening[a] \in Int /\ balance'[a] \in Int /\ opening'[a] \in Int
      BY BoundsAssumption DEF TypeOK, Money
    <3> QED
      BY <1>3, <2>1, <3>1, <3>2 DEF BalanceInv, AccountsAddUp
  <2> QED
    BY <2>1, <2>2 DEF BalanceInv, AccountsAddUp
<1>4. ASSUME NEW t \in Requests, NEW k \in Keys, Books!Post(t, k) PROVE BalanceInv'
  <2>1. tx'[t] \in Transactions /\ tx' = [tx EXCEPT ![t] = tx'[t]] /\ tx[t] = None
        /\ Books!Move(tx[t], tx'[t]) /\ opening' = opening
    BY <1>4 DEF Books!Post, Books!Write
  <2> QED
    BY <1>2, <2>1
<1>5. ASSUME NEW t \in Requests, Books!Amend(t) PROVE BalanceInv'
  <2>1. tx'[t] \in Transactions /\ tx' = [tx EXCEPT ![t] = tx'[t]]
        /\ Books!Move(tx[t], tx'[t]) /\ opening' = opening
    BY <1>5 DEF Books!Amend, Books!Write
  <2> QED
    BY <1>2, <2>1
<1>6. ASSUME NEW t \in Requests, Books!Void(t) PROVE BalanceInv'
  BY <1>2, <1>6 DEF Books!Void
<1>7. ASSUME NEW b \in Accounts, NEW o \in Openings, Books!Rebase(b, o) PROVE BalanceInv'
  <2>1. tx' = tx /\ opening' = [opening EXCEPT ![b] = o]
        /\ balance' = [balance EXCEPT ![b] = @ + (o - opening[b])]
    BY <1>7 DEF Books!Rebase
  <2>2. o \in Int /\ opening \in [Accounts -> Int] /\ balance \in [Accounts -> Int]
    BY SMTT(30), AccountAssumption, BoundsAssumption DEF TypeOK, Money
  <2>3. \A a \in Accounts : balance'[a] - opening'[a] = balance[a] - opening[a]
    BY <2>1, <2>2
  <2> QED
    BY <1>3, <2>1, <2>3
<1>8. ASSUME UNCHANGED <<tx, opening, balance>> PROVE BalanceInv'
  BY <1>3, <1>8
<1>9. ASSUME NEW k \in Keys, Books!Forget(k) PROVE BalanceInv'
  BY <1>8, <1>9 DEF Books!Forget
<1>10. ASSUME UNCHANGED Books!vars PROVE BalanceInv'
  BY <1>8, <1>10 DEF Books!vars
<1> QED
  BY <1>1, <1>4, <1>5, <1>6, <1>7, <1>9, <1>10 DEF Books!Next

---------------------------------------------------------------------------
(* Vaults move by what their accounts move *)

LEMMA AboveTerms ==
  ASSUME NEW b \in [Accounts -> Money], NEW v
  PROVE  /\ IsFiniteSet(Held(v))
         /\ [a \in Held(v) |-> MaxMoneyMinor + b[a]] \in [Held(v) -> Nat]
         /\ Above(b, v) \in Nat
<1>1. IsFiniteSet(Held(v))
  BY AccountAssumption, FS_Subset DEF Held
<1>2. [a \in Held(v) |-> MaxMoneyMinor + b[a]] \in [Held(v) -> Nat]
  <2>1. \A m \in Money : MaxMoneyMinor + m \in Nat
    BY BoundsAssumption DEF Money
  <2> QED
    BY <2>1 DEF Held
<1> QED
  BY <1>1, <1>2, TotalType DEF Above

\* A record moves the accounts of a vault, between them, by what it moves the vault:
\* by nothing when it stays inside.
LEMMA VaultMoves ==
  ASSUME NEW x \in Transactions \cup {None}, NEW v \in Vaults,
         NEW b \in [Accounts -> Money], NEW c \in [Accounts -> Money],
         \A a \in Accounts : c[a] = b[a] + AccountEffect(x, a)
  PROVE  Above(c, v) = Above(b, v) + VaultEffect(x, v)
<1> DEFINE H == Held(v)
           f == [a \in H |-> MaxMoneyMinor + b[a]]
           g == [a \in H |-> MaxMoneyMinor + c[a]]
           s == x.account
           d == Receiver(x)
<1>1. /\ IsFiniteSet(H) /\ f \in [H -> Nat] /\ g \in [H -> Nat]
      /\ Total(f) = Above(b, v) /\ Total(g) = Above(c, v)
      /\ Above(b, v) \in Nat /\ Above(c, v) \in Nat
  BY AboveTerms DEF Above
<1>2. \A a \in H : a \in Accounts /\ VaultOf[a] = v
  BY DEF Held
<1>3. \A a \in Accounts : VaultOf[a] = v => a \in H
  BY DEF Held
<1>4. ASSUME NEW a \in H PROVE g[a] = f[a] + AccountEffect(x, a) /\ AccountEffect(x, a) \in Int
  <2>1. a \in Accounts /\ b[a] \in Int /\ c[a] \in Int /\ MaxMoneyMinor \in Int
    BY <1>2, BoundsAssumption DEF Money
  <2>2. AccountEffect(x, a) \in Int /\ c[a] = b[a] + AccountEffect(x, a)
    BY <2>1, EffectType
  <2> QED
    BY <2>1, <2>2
<1> HIDE DEF f, g, H
<1>5. CASE x = None
  <2>1. VaultEffect(x, v) = 0 /\ \A a \in H : AccountEffect(x, a) = 0
    BY <1>5 DEF VaultEffect, AccountEffect
  <2>2. \A a \in H : g[a] = f[a]
    BY <1>1, <1>4, <2>1
  <2>3. g = f
    BY <1>1, <2>2
  <2> QED
    BY <1>1, <2>1, <2>3
<1>6. CASE x # None
  <2>1. /\ x \in Transactions /\ s \in Accounts /\ x.amount \in Nat /\ x.type \in Types
        /\ (x.type = "transfer" => x.dest \in Accounts /\ x.dest # s)
    BY <1>6, BoundsAssumption DEF Transactions, Directed
  <2>2. /\ d \in Accounts \cup {None} /\ d # s
        /\ d # None => x.type = "transfer"
        /\ None \notin Accounts
    BY <2>1, NoneAssumption DEF Receiver
  <2>3. SourceDelta(x) \in Int /\ (x.type = "transfer" => SourceDelta(x) = -x.amount)
    BY <2>1 DEF SourceDelta, Types
  <2>4. /\ s \in H => AccountEffect(x, s) = SourceDelta(x)
        /\ d \in H => AccountEffect(x, d) = x.amount
        /\ \A a \in H : a # s /\ a # d => AccountEffect(x, a) = 0
    BY <1>6, <2>2 DEF AccountEffect
  <2>5. /\ s \in H <=> VaultOf[s] = v
        /\ d \in Accounts => (d \in H <=> VaultOf[d] = v)
        /\ d = None => d \notin H
    BY <1>2, <1>3, <2>1, <2>2
  <2>6. CASE s \notin H /\ d \notin H
    <3>1. VaultEffect(x, v) = 0
      BY <1>6, <2>2, <2>5, <2>6 DEF VaultEffect, CrossVault
    <3>2. \A a \in H : g[a] = f[a]
      BY <1>1, <1>4, <2>4, <2>6
    <3>3. g = f
      BY <1>1, <3>2
    <3> QED
      BY <1>1, <3>1, <3>3
  <2>7. CASE s \in H /\ d \notin H
    <3>1. VaultEffect(x, v) = SourceDelta(x)
      BY <1>6, <2>2, <2>5, <2>7 DEF VaultEffect, CrossVault
    <3>2. \A a \in H \ {s} : g[a] = f[a]
      BY <1>1, <1>4, <2>4, <2>7
    <3>3. Total(g) + f[s] = Total(f) + g[s]
      BY <1>1, <2>7, <3>2, TotalChange
    <3>4. g[s] = f[s] + SourceDelta(x) /\ f[s] \in Nat /\ g[s] \in Nat
      BY <1>1, <1>4, <2>4, <2>7
    <3> QED
      BY <1>1, <2>3, <3>1, <3>3, <3>4
  <2>8. CASE s \notin H /\ d \in H
    <3>1. VaultEffect(x, v) = x.amount
      BY <1>6, <2>2, <2>5, <2>8 DEF VaultEffect, CrossVault
    <3>2. \A a \in H \ {d} : g[a] = f[a]
      BY <1>1, <1>4, <2>4, <2>8
    <3>3. Total(g) + f[d] = Total(f) + g[d]
      BY <1>1, <2>8, <3>2, TotalChange
    <3>4. g[d] = f[d] + x.amount /\ f[d] \in Nat /\ g[d] \in Nat
      BY <1>1, <1>4, <2>4, <2>8
    <3> QED
      BY <1>1, <2>1, <3>1, <3>3, <3>4
  <2>9. CASE s \in H /\ d \in H
    <3>1. VaultEffect(x, v) = 0 /\ SourceDelta(x) = -x.amount
      BY <1>6, <2>2, <2>3, <2>5, <2>9 DEF VaultEffect, CrossVault
    <3>2. \A a \in H \ {s, d} : g[a] = f[a]
      BY <1>1, <1>4, <2>4, <2>9
    <3>3. Total(g) + f[s] + f[d] = Total(f) + g[s] + g[d]
      BY <1>1, <2>2, <2>9, <3>2, TotalTwoChanges
    <3>4. /\ g[s] = f[s] + SourceDelta(x) /\ f[s] \in Nat /\ g[s] \in Nat
          /\ g[d] = f[d] + x.amount /\ f[d] \in Nat /\ g[d] \in Nat
      BY <1>1, <1>4, <2>4, <2>9
    <3> QED
      BY <1>1, <2>1, <3>1, <3>3, <3>4
  <2> QED
    BY <2>6, <2>7, <2>8, <2>9
<1> QED
  BY <1>5, <1>6

LEMMA VaultsKept ==
  ASSUME VaultsAddUp, UNCHANGED <<balance, vaultBalance>>
  PROVE  VaultsAddUp'
BY DEF VaultsAddUp, Above

\* No step needs a single editor here: an editor moves the account and its vault by
\* the same amount, whatever it read.
LEMMA VaultNext ==
  ASSUME TypeOK, TypeOK', BalancesBounded, BalancesBounded', VaultsAddUp, [Next]_vars
  PROVE  VaultsAddUp'
<1>1. /\ FirstOpening \in [Accounts -> Money] /\ VaultOpening \in [Vaults -> Int]
      /\ balance \in [Accounts -> Money] /\ balance' \in [Accounts -> Money]
  BY AccountAssumption, BoundsAssumption DEF BalancesBounded, TypeOK, Money
<1>2. ASSUME NEW v \in Vaults
      PROVE  /\ vaultBalance[v] + Above(FirstOpening, v) = VaultOpening[v] + Above(balance, v)
             /\ vaultBalance[v] \in Int /\ VaultOpening[v] \in Int
             /\ Above(FirstOpening, v) \in Nat /\ Above(balance, v) \in Nat
  <2>1. Above(FirstOpening, v) \in Nat /\ Above(balance, v) \in Nat
    BY <1>1, AboveTerms
  <2> QED
    BY <1>1, <2>1 DEF VaultsAddUp, TypeOK
<1>3. ASSUME NEW old \in Transactions \cup {None}, NEW new \in Transactions \cup {None},
             Replace(old, new),
             old # None => CanReverse(old)
      PROVE  VaultsAddUp'
  <2> DEFINE mid == [a \in Accounts |-> balance[a] - AccountEffect(old, a)]
  <2>1. mid \in [Accounts -> Money]
    <3>1. ASSUME NEW a \in Accounts PROVE balance[a] - AccountEffect(old, a) \in Money
      <4>1. balance[a] \in Int /\ AccountEffect(old, a) \in Int /\ balance[a] \in Money
        BY <1>1, EffectType DEF TypeOK
      <4>2. CASE old = None
        BY <4>1, <4>2 DEF AccountEffect
      <4>3. CASE old # None
        <5>1. CanAdd(balance[a], -AccountEffect(old, a))
          BY <1>3, <4>3 DEF CanReverse
        <5>2. balance[a] + -AccountEffect(old, a) \in Money
          BY <4>1, <5>1, CanAddBounds
        <5> QED
          BY <4>1, <5>2
      <4> QED
        BY <4>2, <4>3
    <3> QED
      BY <3>1
  <2>2. \A a \in Accounts : /\ balance[a] = mid[a] + AccountEffect(old, a)
                            /\ balance'[a] = mid[a] + AccountEffect(new, a)
    <3>1. ASSUME NEW a \in Accounts
          PROVE  balance[a] \in Int /\ AccountEffect(old, a) \in Int /\ AccountEffect(new, a) \in Int
      BY EffectType DEF TypeOK
    <3> QED
      BY <1>3, <3>1 DEF Replace
  <2> HIDE DEF mid
  <2>3. ASSUME NEW v \in Vaults
        PROVE  vaultBalance'[v] + Above(FirstOpening, v) = VaultOpening[v] + Above(balance', v)
    <3>1. /\ Above(balance, v) = Above(mid, v) + VaultEffect(old, v)
          /\ Above(balance', v) = Above(mid, v) + VaultEffect(new, v)
      <4>1. Above(balance, v) = Above(mid, v) + VaultEffect(old, v)
        <5>1. balance \in [Accounts -> Money] /\ mid \in [Accounts -> Money]
          BY <1>1, <2>1
        <5>2. \A a \in Accounts : balance[a] = mid[a] + AccountEffect(old, a)
          BY <2>2
        <5> QED
          BY <5>1, <5>2, VaultMoves
      <4> DEFINE after == balance'
      <4>2. after \in [Accounts -> Money] /\ \A a \in Accounts : after[a] = mid[a] + AccountEffect(new, a)
        BY <1>1, <2>2
      <4> HIDE DEF after
      <4>3. Above(after, v) = Above(mid, v) + VaultEffect(new, v)
        BY <2>1, <4>2, VaultMoves
      <4> QED
        BY <4>1, <4>3 DEF after
    <3>2. VaultEffect(old, v) \in Int /\ VaultEffect(new, v) \in Int /\ Above(mid, v) \in Nat
      BY <2>1, EffectType, AboveTerms
    <3>3. vaultBalance'[v] = vaultBalance[v] - VaultEffect(old, v) + VaultEffect(new, v)
      BY <1>3 DEF Replace
    <3> QED
      BY <1>2, <3>1, <3>2, <3>3
  <2> QED
    BY <2>3 DEF VaultsAddUp, Above
<1>4. ASSUME NEW r \in Requests, CommitTransaction(r) PROVE VaultsAddUp'
  <2>1. Prepared(r) \in Transactions /\ Replace(None, Prepared(r))
    BY <1>4, PreparedType DEF CommitTransaction
  <2> QED
    BY <1>3, <2>1
<1>5. ASSUME NEW t \in Requests, NEW in \in Inputs, UpdateTransaction(t, in) PROVE VaultsAddUp'
  <2>1. tx[t] \in Transactions /\ Amended(t, in) \in Transactions
        /\ Replace(tx[t], Amended(t, in)) /\ CanReverse(tx[t])
    BY <1>5, AmendedType DEF UpdateTransaction, TypeOK
  <2> QED
    BY <1>3, <2>1
<1>6. ASSUME NEW t \in Requests, DeleteTransaction(t) PROVE VaultsAddUp'
  <2>1. tx[t] \in Transactions /\ Replace(tx[t], None) /\ CanReverse(tx[t])
    BY <1>6 DEF DeleteTransaction, TypeOK
  <2> QED
    BY <1>3, <2>1
<1>7. ASSUME NEW e \in Editors, UpdateAccount(e) PROVE VaultsAddUp'
  <2> DEFINE a == editor[e].account  delta == editor[e].delta  w == VaultOf[a]
  <2>1. /\ a \in Accounts /\ delta \in Int /\ w \in Vaults
        /\ balance' = [balance EXCEPT ![a] = @ + delta]
        /\ vaultBalance' = [vaultBalance EXCEPT ![w] = @ + delta]
    BY <1>7, AccountAssumption DEF UpdateAccount, TypeOK
  <2> HIDE DEF a, delta, w
  <2>2. ASSUME NEW v \in Vaults
        PROVE  vaultBalance'[v] + Above(FirstOpening, v) = VaultOpening[v] + Above(balance', v)
    <3> DEFINE H == Held(v)
               f == [x \in H |-> MaxMoneyMinor + balance[x]]
               g == [x \in H |-> MaxMoneyMinor + balance'[x]]
    <3>1. /\ IsFiniteSet(H) /\ f \in [H -> Nat] /\ g \in [H -> Nat]
          /\ Total(f) = Above(balance, v) /\ Total(g) = Above(balance', v)
          /\ Above(balance', v) \in Nat
      BY <1>1, AboveTerms DEF Above
    <3>2. \A x \in H \ {a} : g[x] = f[x]
      BY <1>1, <2>1 DEF Held
    <3>3. CASE w = v
      <4>1. a \in H
        BY <2>1, <3>3 DEF Held, w
      <4>2. g[a] = f[a] + delta /\ f[a] \in Nat /\ g[a] \in Nat
        <5>1. balance'[a] = balance[a] + delta /\ balance[a] \in Int /\ MaxMoneyMinor \in Int
          BY <2>1, BoundsAssumption DEF TypeOK
        <5>2. g[a] = MaxMoneyMinor + balance'[a] /\ f[a] = MaxMoneyMinor + balance[a]
          BY <4>1
        <5>3. f[a] \in Nat /\ g[a] \in Nat
          BY <3>1, <4>1
        <5> QED
          BY <2>1, <5>1, <5>2, <5>3
      <4> HIDE DEF f, g, H
      <4>3. Total(g) + f[a] = Total(f) + g[a]
        BY <3>1, <3>2, <4>1, TotalChange
      <4>4. vaultBalance'[v] = vaultBalance[v] + delta
        BY <2>1, <3>3 DEF TypeOK
      <4>5. Above(balance', v) = Above(balance, v) + delta
        BY <1>2, <2>1, <3>1, <4>2, <4>3
      <4> QED
        <5>1. /\ vaultBalance[v] + Above(FirstOpening, v) = VaultOpening[v] + Above(balance, v)
             /\ vaultBalance[v] \in Int /\ VaultOpening[v] \in Int
             /\ Above(FirstOpening, v) \in Nat /\ Above(balance, v) \in Nat /\ delta \in Int
          BY <1>2, <2>1
        <5> QED
          BY <4>4, <4>5, <5>1
    <3>4. CASE w # v
      <4>1. a \notin H
        BY <3>4 DEF Held, w
      <4>2. \A x \in H : g[x] = f[x]
        BY <3>2, <4>1
      <4> HIDE DEF f, g, H
      <4>3. g = f
        BY <3>1, <4>2
      <4>4. vaultBalance'[v] = vaultBalance[v]
        BY <2>1, <3>4 DEF TypeOK
      <4> QED
        BY <1>2, <3>1, <4>3, <4>4
    <3> QED
      BY <3>3, <3>4
  <2> QED
    BY <2>2 DEF VaultsAddUp, Above
<1>8. ASSUME UNCHANGED <<balance, vaultBalance>> PROVE VaultsAddUp'
  BY <1>8, VaultsKept
<1> QED
  BY <1>4, <1>5, <1>6, <1>7, <1>8
  DEF Next, vars, books, CreateTransaction, IdempotentResult, RefuseIdentifier, AbortCommit,
      RecoverResult, Lapse, ReadAccount, AbortUpdateAccount, ArchiveAccount, ReadSequence,
      PatchSequence, ChangeRules, ExpireKey

\* Whatever commits, and with any number of account editors, a vault has moved from
\* its opening balance by exactly what its accounts have moved from theirs.
THEOREM VaultsFollowAccounts == Spec => []VaultsAddUp
<1>1. Init => VaultsAddUp
  <2> SUFFICES ASSUME Init, NEW v \in Vaults
               PROVE  vaultBalance[v] + Above(FirstOpening, v) = VaultOpening[v] + Above(balance, v)
    BY DEF VaultsAddUp
  <2>1. balance = FirstOpening /\ vaultBalance = VaultOpening
    BY DEF Init
  <2> QED
    BY <2>1
<1>2. TypeOK /\ TypeOK' /\ BalancesBounded /\ BalancesBounded' /\ VaultsAddUp /\ [Next]_vars
        => VaultsAddUp'
  BY VaultNext
<1> QED
  BY <1>1, <1>2, TypeCorrect, BoundedBalances, PTL DEF Spec

---------------------------------------------------------------------------
(* Accounts and vaults together *)

\* With one account editor at a time, every account balance is its opening balance
\* plus what the stored records bring and minus what they take, and every vault has
\* moved by what its accounts have, whatever commits.
THEOREM BalancesAddUp == ASSUME OneEditor PROVE Spec => []BalanceIntegrity
<1>1. Init => EditInv
  BY DEF Init, EditInv
<1>2. Init => BalanceInv
  <2> SUFFICES ASSUME Init PROVE BalanceInv
    OBVIOUS
  <2>1. Stored = {} /\ IsFiniteSet(Stored)
    BY FS_EmptySet DEF Init, Stored
  <2>2. \A a \in Accounts : Brought(a) = 0 /\ Taken(a) = 0
    BY <2>1, TotalZero DEF Brought, Taken
  <2>3. \A a \in Accounts : balance[a] = opening[a] /\ opening[a] \in Int
    <3>1. opening = FirstOpening /\ balance = FirstOpening
      BY DEF Init
    <3>2. FirstOpening \in [Accounts -> Int]
      BY AccountAssumption, BoundsAssumption DEF Money
    <3> QED
      BY <3>1, <3>2
  <2> QED
    BY <2>1, <2>2, <2>3 DEF BalanceInv, AccountsAddUp
<1>3. TypeOK /\ EditInv /\ [Next]_vars => EditInv'
  BY EditNext
<1>4. TypeOK /\ TypeOK' /\ BalancesBounded' /\ EditInv /\ BalanceInv /\ [Next]_vars => BalanceInv'
  BY BalanceNext
<1>5. BalanceInv /\ VaultsAddUp => BalanceIntegrity
  BY DEF BalanceInv, BalanceIntegrity
<1> QED
  BY <1>1, <1>2, <1>3, <1>4, <1>5, TypeCorrect, BoundedBalances, VaultsFollowAccounts, PTL DEF Spec
=============================================================================
