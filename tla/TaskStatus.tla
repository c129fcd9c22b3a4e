----------------------------- MODULE TaskStatus -----------------------------
(***************************************************************************)
(* The lifecycle graph every service of Dispatch shares (helpers.ts), and  *)
(* the router's check of a status change against it (transitionTask).      *)
(***************************************************************************)

TaskStatuses ==
  {"CREATED", "ESCROW_FUNDED", "OPEN", "ASSIGNED", "EXECUTING", "SUBMITTED",
   "UNDER_REVIEW", "APPROVED", "REJECTED", "DISPUTED", "APPEALED", "UNRESOLVED",
   "SETTLED", "CANCELLED", "REFUNDED"}

taskStatusTransitions ==
  [CREATED       |-> {"ESCROW_FUNDED", "CANCELLED"},
   ESCROW_FUNDED |-> {"OPEN", "REFUNDED"},
   OPEN          |-> {"ASSIGNED", "CANCELLED"},
   ASSIGNED      |-> {"EXECUTING", "SUBMITTED", "CANCELLED"},
   EXECUTING     |-> {"SUBMITTED", "DISPUTED"},
   SUBMITTED     |-> {"UNDER_REVIEW", "APPROVED", "REJECTED", "DISPUTED", "UNRESOLVED",
                      "EXECUTING"},
   UNDER_REVIEW  |-> {"APPROVED", "REJECTED", "DISPUTED", "UNRESOLVED", "EXECUTING"},
   APPROVED      |-> {"SETTLED"},
   REJECTED      |-> {"REFUNDED", "DISPUTED", "APPEALED", "EXECUTING"},
   DISPUTED      |-> {"UNDER_REVIEW", "APPROVED", "REJECTED", "APPEALED", "UNRESOLVED"},
   APPEALED      |-> {"UNDER_REVIEW", "APPROVED", "REJECTED", "DISPUTED", "UNRESOLVED"},
   UNRESOLVED    |-> {"APPEALED", "DISPUTED", "REJECTED", "UNDER_REVIEW"},
   SETTLED       |-> {},
   CANCELLED     |-> {"REFUNDED"},
   REFUNDED      |-> {}]

\* Rollbacks after a failed dispatch or a timeout.
canRecoverTaskStatus(from, to) ==
  \/ from = "ASSIGNED" /\ to = "OPEN"
  \/ from = "EXECUTING" /\ to \in {"ASSIGNED", "OPEN"}

canTransitionTaskStatus(from, to) == to \in taskStatusTransitions[from]

isTerminalTaskStatus(s) == s \in {"SETTLED", "REFUNDED"}

\* What transitionTask lets pass: no change, a bypass, or the table.
Passes(from, to) == from = to \/ canTransitionTaskStatus(from, to)

PassesAsRecovery(from, to) == from = to \/ canRecoverTaskStatus(from, to)

PassesAsResolution(from, to) ==
  \/ from = "DISPUTED" /\ to \in {"APPROVED", "REJECTED", "SETTLED", "REFUNDED"}
  \/ Passes(from, to)
=============================================================================
