-------------------------------- MODULE Sums --------------------------------
(***************************************************************************)
(* Sums of natural numbers over finite sets.  A sum is the number of units  *)
(* that its terms have between them, so that facts about cardinalities are  *)
(* facts about sums.                                                        *)
(***************************************************************************)
EXTENDS Integers, FiniteSets

\* The units of each term.
Units(f) == UNION {{s} \X (1 .. f[s]) : s \in DOMAIN f}

\* The sum of the values of a function.
Total(f) == Cardinality(Units(f))
=============================================================================
