------------------------- MODULE MCRestartingMarket -------------------------
(* Values of the constants of RestartingMarket for TLC. *)
EXTENDS RestartingMarket

CONSTANTS h1, h2

\* From the funding of a direct hire to its payout or dispute.
DeliveryRequests == {"sync", "approve", "settle", "dispute"}

\* From a result to its payout or refund.
RetryRequests == {"approve", "settle", "dispute", "resolve_refund"}

\* The same, with a creator who may decide otherwise after a timeout.
ContradictingRequests == RetryRequests \cup {"reject"}
=============================================================================
