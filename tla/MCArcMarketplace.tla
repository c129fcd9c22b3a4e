-------------------------- MODULE MCArcMarketplace --------------------------
(* Values of the constants of ArcMarketplace for TLC. *)
EXTENDS ArcMarketplace

CONSTANTS t1, g1, g2, a1, a2, n1, n2

\* A fee of 3333 bps on rewards 1 and 10 rounds: 0 of 1, and 3 of 10.
OddRewards == {1, 10}
=============================================================================
