------------------------------ MODULE MCSession ------------------------------
(***************************************************************************)
(* Session for TLC.  Its people are alike.  Its properties say nothing     *)
(* once a mutation of the native preferences was lost, so that what        *)
(* follows such a loss is left out.                                        *)
(***************************************************************************)
EXTENDS Session

Alike == Permutations(Users)

Whole == ~torn
=============================================================================
