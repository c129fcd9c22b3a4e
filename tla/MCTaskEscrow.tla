---------------------------- MODULE MCTaskEscrow ----------------------------
(* Values of the constants of TaskEscrow for TLC. *)
EXTENDS TaskEscrow, TLC

CONSTANTS t1, t2, g1, g2, a1, a2, s1, s2

\* A fee of 3333 bps on 10 rounds to 3.
TenOnly == {10}

\* Scores on both sides of each threshold of _coerce_review_outcome.
Scores ==
  {[score |-> 72, agreement |-> 6600, confidence |-> 6200],
   [score |-> 90, agreement |-> 6599, confidence |-> 6200],
   [score |-> 55, agreement |-> 6600, confidence |-> 6200]}

Interchangeable ==
  Permutations({a1, a2}) \cup Permutations({s1, s2}) \cup Permutations({t1, t2})
=============================================================================
