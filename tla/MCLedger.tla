----------------------------- MODULE MCLedger -----------------------------
(***************************************************************************)
(* Finite instances of Ledger for TLC.                                      *)
(***************************************************************************)
EXTENDS Ledger, TLC

CONSTANTS a1, a2, a3, v1, v2

Clients == Permutations(Requests) \cup Permutations(Keys)

Body(type, from, to, amount, id) ==
  [type |-> type, split |-> FALSE, account |-> from, dest |-> to, amount |-> amount, id |-> id]
Split(from, amount) ==
  [type |-> "expense", split |-> TRUE, account |-> from, dest |-> None, amount |-> amount, id |-> None]
Patch(scope, auto, next, digits) ==
  [scope |-> scope, auto |-> auto, next |-> next, digits |-> digits]
Numbered(n, w) == [number |-> n, width |-> w]

\* Balances: two accounts share a vault, a third has its own.
ThreeVaultOf  == (a1 :> v1) @@ (a2 :> v1) @@ (a3 :> v2)
BalanceInputs == {Body("transfer", a1, a2, 1, None), Body("transfer", a1, a3, 2, None),
                  Body("refund", a2, a1, 2, None)}
AnyAccount   == {a1, a2, a3, None}
ThreeOpenings == (a1 :> 0) @@ (a2 :> 1) @@ (a3 :> 0)
TwoOpenings   == (v1 :> 0) @@ (v2 :> -1)

OneVaultOf  == (a1 :> v1)
OneOpening  == (a1 :> 0)
OneVault    == (v1 :> 0)

\* Requests: automatic and manual identifiers of one scope, "0002" and "2" among
\* them, and an automatic one of another scope.
NumberingInputs == {Body("expense", a1, None, 1, None), Split(a1, 1),
                    Body("expense", a1, None, 1, Numbered(2, 4)),
                    Body("adjustment", a1, None, 1, Numbered(2, 1))}
NumberingPatches == {Patch("expense", FALSE, None, None), Patch("expense", TRUE, 3, 1)}
=============================================================================
