----------------------------- MODULE MCImports -----------------------------
(* Instances of Imports: a statement whose first row resembles a transaction of *)
(* the ledger and whose second row does not parse, uploaded in two sessions.    *)
EXTENDS Imports, TLC

CONSTANTS s1, s2, l1, t1, n1, n2, e1

Statement == {(1 :> l1 @@ 2 :> Invalid)}
Symmetry == Permutations(Sessions) \cup Permutations(Fresh) \cup Permutations(Editors)
=============================================================================
