------------------------------- MODULE Totals -------------------------------
(***************************************************************************)
(* Sums of amounts held by a finite set of holders, as the number of units *)
(* they hold together.  Counting units instead of folding over the set     *)
(* keeps the sum within reach of the theorems on Cardinality.              *)
(***************************************************************************)
EXTENDS Integers, FiniteSets

\* One pair for every unit that a member of S holds.
Units(f, S) == UNION {{s} \X (1..f[s]) : s \in S}

\* The sum of f[s] over the members s of S.
Total(f, S) == Cardinality(Units(f, S))
=============================================================================
