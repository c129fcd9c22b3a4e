---------------------------- MODULE MCTaskMarket ----------------------------
(* Values of the constants of TaskMarket for TLC. *)
EXTENDS TaskMarket

CONSTANTS h1, h2

\* The requests of one phase of a task's life, to keep two handlers affordable.
DecisionRequests ==
  {"approve", "reject", "settle", "refund", "dispute", "resolve_paid", "resolve_refund"}
AppealRequests == {"approve", "appeal", "settle", "dispute"}
VerdictRequests == {"approve", "reject", "settle"}
PayoutRequests == {"approve", "settle"}
DisputeRequests == {"approve", "dispute", "resolve_paid"}
HireRequests == {"sync", "accept", "cancel", "pause"}
UnresolvedRequests == {"dispute", "appeal"}
=============================================================================
