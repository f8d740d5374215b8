------------------------------- MODULE Books -------------------------------
(***************************************************************************)
(* What the ledger core promises its clients: a book of entries in which    *)
(* every change of an entry and the balances it moves are one step, an      *)
(* entry is posted at most once, and an idempotency key that resolves to a  *)
(* standing entry cannot post another one.                                  *)
(***************************************************************************)
EXTENDS Integers

CONSTANTS Entries, Records, Keys, Accounts, Openings, MaxMoneyMinor, None,
          Effect(_, _)  \* what a record, or None, contributes to an account

VARIABLES entry,     \* entry -> its record, or None
          opening, balance,
          resolves,  \* key -> the entry it resolves to, or None
          posted     \* entries ever posted

vars == <<entry, opening, balance, resolves, posted>>

Money == -MaxMoneyMinor .. MaxMoneyMinor

\* The balances after a record is replaced by another; None is no record.
Move(old, new) ==
  /\ balance' = [a \in Accounts |-> balance[a] - Effect(old, a) + Effect(new, a)]
  /\ \A a \in Accounts : balance'[a] \in Money

\* Entry t, and no other, becomes some record.
Write(t) == entry'[t] \in Records /\ entry' = [entry EXCEPT ![t] = entry'[t]]

Post(t, k) ==
  /\ t \notin posted /\ entry[t] = None /\ resolves[k] = None
  /\ posted' = posted \cup {t}
  /\ Write(t) /\ Move(None, entry'[t])
  /\ resolves' = [resolves EXCEPT ![k] = t]
  /\ UNCHANGED opening

Amend(t) ==
  /\ entry[t] # None
  /\ Write(t) /\ Move(entry[t], entry'[t])
  /\ UNCHANGED <<opening, resolves, posted>>

\* No key resolves to a void entry.
Void(t) ==
  /\ entry[t] # None
  /\ entry' = [entry EXCEPT ![t] = None] /\ Move(entry[t], None)
  /\ resolves' = [k \in Keys |-> IF resolves[k] = t THEN None ELSE resolves[k]]
  /\ UNCHANGED <<opening, posted>>

\* A new opening balance moves the balance by the same amount.
Rebase(a, o) ==
  /\ balance[a] + o - opening[a] \in Money
  /\ opening' = [opening EXCEPT ![a] = o]
  /\ balance' = [balance EXCEPT ![a] = @ + (o - opening[a])]
  /\ UNCHANGED <<entry, resolves, posted>>

\* A key may be forgotten some time after its entry was posted.
Forget(k) ==
  /\ resolves[k] # None
  /\ resolves' = [resolves EXCEPT ![k] = None]
  /\ UNCHANGED <<entry, opening, balance, posted>>

Init ==
  /\ entry = [t \in Entries |-> None] /\ posted = {}
  /\ opening \in [Accounts -> Money] /\ balance = opening
  /\ resolves = [k \in Keys |-> None]

Next ==
  \/ \E t \in Entries : \/ \E k \in Keys : Post(t, k)
                        \/ Amend(t)
                        \/ Void(t)
  \/ \E a \in Accounts, o \in Openings : Rebase(a, o)
  \/ \E k \in Keys : Forget(k)

Spec == Init /\ [][Next]_vars
=============================================================================
