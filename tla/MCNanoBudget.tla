---------------------------- MODULE MCNanoBudget ----------------------------
(* Values of the constants of NanoBudget for TLC. *)
EXTENDS NanoBudget, TLC

CONSTANTS b1, i1, i2, i3, tx1

\* Four fractions make a unit: budgets of 2 1/4 units and of 2 1/2, which round
\* down and up, and spends of a half, of 1 1/4 and of 2 units.
SomeBudgets == {9, 10}
SomeSpends == {2, 5, 8}

\* Intents differ in their names only.
Symmetry == Permutations(Intents)
=============================================================================
