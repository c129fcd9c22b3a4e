----------------------------- MODULE TaskRecord -----------------------------
(***************************************************************************)
(* The router's task object as a value, and what the handlers of           *)
(* taskMarketService.ts and settlementService.ts do to it: for each        *)
(* handler a guard (its early throws) and an effect (its assignments).     *)
(* A handler that throws half way has already written: its effect returns  *)
(* the half-written object.  TaskMarket interleaves these effects around   *)
(* the awaits of the handlers.                                             *)
(*                                                                         *)
(* Kept: the fields a guard reads.  Left out: titles, attachments, the     *)
(* timeline, reviewActions (what the UI offers), evaluations, the ERC-8183 *)
(* mirror.                                                                 *)
(***************************************************************************)
EXTENDS Integers, TaskStatus

CONSTANTS HiringMode,       \* TaskDetailView.hiringMode
          MaxParticipants,  \* TaskDetailView.maxParticipants
          NoSubmission,     \* latestSubmissionId = null
          LocalSubmission   \* `${taskId}-submission', an id no chain knows

ASSUME HiringModes == HiringMode \in {"direct_hire", "open_market"}
ASSUME ParticipantCap == MaxParticipants \in Nat \ {0}

ResultStatuses ==
  {"not_started", "in_progress", "submitted", "approved", "rejected", "disputed",
   "appealed", "unresolved", "settled"}
SettlementStates ==
  {"reward_funded", "pending_settlement", "settled", "refunded", "disputed", "unresolved"}

\* Kinds of receipt: settlementState with outcome.
Receipts == {"paid", "refunded", "paused", "admin_paid", "admin_refunded"}
TerminalReceipts == Receipts \ {"paused"}

\* store.settlements keeps every receipt; what is told apart is none, one, several.
Several == 2
appendSettlement(history, kind) ==
  [history EXCEPT ![kind] = IF @ = Several THEN Several ELSE @ + 1]
NoReceipts == [kind \in Receipts |-> 0]
hasTerminalReceipt(history) == \E kind \in TerminalReceipts : history[kind] > 0

\* funded: transactionState is "accepted" and onchainTaskRef is set.
\* participants: the number of participatingAgentIds.
TaskRecords(Submissions) ==
  [status : TaskStatuses, resultStatus : ResultStatuses,
   settlementState : SettlementStates, dispute : {"none", "open", "resolved"},
   submission : Submissions \cup {NoSubmission, LocalSubmission},
   funded : BOOLEAN, participants : Nat, history : [Receipts -> 0 .. Several]]

buildTaskDetail ==
  [status |-> "CREATED", resultStatus |-> "not_started",
   settlementState |-> "reward_funded", dispute |-> "none",
   submission |-> NoSubmission, funded |-> FALSE,
   participants |-> IF HiringMode = "direct_hire" THEN 1 ELSE 0, history |-> NoReceipts]

\* transitionTask, then the three assignments; nothing when it throws.
Move(r, passes, status, resultStatus, settlementState) ==
  IF passes
  THEN [r EXCEPT !.status = status, !.resultStatus = resultStatus,
                 !.settlementState = settlementState]
  ELSE r

Proceed(r, status, resultStatus, settlementState) ==
  Move(r, Passes(r.status, status), status, resultStatus, settlementState)

-----------------------------------------------------------------------------
(* Funding and synchronisation with the chain. *)

\* Faulty variant of Synced: a funded direct hire counts as assigned.
SyncedAsAssigned(r, fundingAnchored, assignAnchored) ==
  [r EXCEPT !.funded = fundingAnchored,
            !.status = IF fundingAnchored /\ @ = "CREATED"
                       THEN IF HiringMode = "direct_hire" THEN "ASSIGNED" ELSE "OPEN"
                       ELSE @]

\* applyChainReceipt and the rest of syncTaskWithChain: only a receipt of the
\* funding (or assignment) transaction leaves the task funded.  The receipt is
\* the caller's, and nothing here checks it against the chain.
Synced(r, fundingAnchored, assignAnchored) ==
  [r EXCEPT !.funded = fundingAnchored,
            !.status = IF fundingAnchored /\ @ = "CREATED"
                       THEN IF HiringMode = "direct_hire" /\ assignAnchored
                            THEN "ASSIGNED" ELSE "OPEN"
                       ELSE @]

\* reconcileTaskFromOnchain: the chain's state overwrites the local one.
\* disputeRecord and the receipts are not touched.
\* Faulty variant: a cancelled task is taken for a refunded one.
CancelledReadsAsRefunded(s) ==
  IF s = "ESCROW_FUNDED" THEN "OPEN" ELSE IF s = "CANCELLED" THEN "REFUNDED" ELSE s

ReconciledStatus(s) == IF s = "ESCROW_FUNDED" THEN "OPEN" ELSE s

ReconciledResult(r, s) ==
  CASE s \in {"CREATED", "ESCROW_FUNDED", "OPEN", "ASSIGNED"} -> "not_started"
    [] s = "EXECUTING"                   -> "in_progress"
    [] s \in {"SUBMITTED", "UNDER_REVIEW"} -> "submitted"
    [] s = "APPROVED"                    -> "approved"
    [] s = "REJECTED"                    -> "rejected"
    [] s = "DISPUTED"                    -> "disputed"
    [] s = "APPEALED"                    -> "appealed"
    [] s = "UNRESOLVED"                  -> "unresolved"
    [] s = "SETTLED"                     -> "settled"
    [] OTHER                             -> r.resultStatus

ReconciledSettlement(r, s, locked) ==
  CASE s \in {"APPROVED", "REJECTED", "CANCELLED"} -> "pending_settlement"
    [] s = "DISPUTED"                    -> "disputed"
    [] s \in {"APPEALED", "UNRESOLVED"}  -> "unresolved"
    [] s = "SETTLED"                     -> "settled"
    [] s = "REFUNDED"                    -> "refunded"
    [] s = "CREATED"                     -> r.settlementState
    [] OTHER -> IF locked THEN "reward_funded" ELSE r.settlementState

reconcileTaskFromOnchain(r, s, submission, locked) ==
  [r EXCEPT !.funded = TRUE,
            !.submission = IF submission = NoSubmission THEN @ ELSE submission,
            !.status = ReconciledStatus(s),
            !.resultStatus = ReconciledResult(r, s),
            !.settlementState = ReconciledSettlement(r, s, locked)]

-----------------------------------------------------------------------------
(* Assignment and execution. *)

MayAccept(r) ==
  /\ r.funded
  /\ r.status \in {"OPEN", "ASSIGNED"}
  /\ ~(HiringMode = "open_market" /\ r.participants >= MaxParticipants)

\* The agents an accepting wallet may bring: the one selected for a direct hire;
\* on the open market one that takes part already, or one more.  They are
\* numbered in the order they joined.
Candidates(r) == IF HiringMode = "direct_hire" THEN {1} ELSE 1 .. r.participants + 1

\* The k-th agent accepts: it is pushed unless participatingAgentIds includes it.
Joined(r, k) == [r EXCEPT !.participants = IF k > @ THEN k ELSE @]

\* A task that is no longer OPEN when the chain call returns makes it throw.
Accepted(r, wasOpen) ==
  IF wasOpen
  THEN Proceed(r, "ASSIGNED", "not_started", r.settlementState)
  ELSE [r EXCEPT !.resultStatus = "not_started"]

\* maybeAutoDispatchPlatformAgent.
MayAutoDispatch(r) ==
  /\ r.funded
  /\ r.resultStatus = "not_started"
  /\ IF HiringMode = "direct_hire"
     THEN r.status = "ASSIGNED"
     ELSE r.status \in {"OPEN", "ASSIGNED"} /\ r.participants = 0

AutoAssigned(r) == [r EXCEPT !.status = IF @ = "OPEN" THEN "ASSIGNED" ELSE @]

MayStart(r) == r.funded /\ r.status \in {"OPEN", "ASSIGNED"}

ExecutionStarted(r) == Proceed(r, "EXECUTING", "in_progress", r.settlementState)

MaySubmit(r) == r.funded /\ r.status \notin {"APPROVED", "DISPUTED", "SETTLED", "REFUNDED"}

\* The id the chain returned, or the one already known, or a local one.
SubmissionReceived(r, anchored) ==
  IF Passes(r.status, "SUBMITTED")
  THEN [r EXCEPT !.status = "SUBMITTED", !.resultStatus = "submitted",
                 !.submission = IF anchored # NoSubmission THEN anchored
                                ELSE IF @ # NoSubmission THEN @ ELSE LocalSubmission]
  ELSE r

\* Faulty variants of markExecutionFailed: a status outside the lifecycle; a
\* rollback that does not ask transitionTask.
FailsToAnUnknownStatus(r) == [r EXCEPT !.status = "FAILED"]

RollsBackUnchecked(r) ==
  [r EXCEPT !.status = IF HiringMode = "open_market" THEN "OPEN" ELSE "ASSIGNED",
            !.resultStatus = "not_started"]

ExecutionFailed(r) ==
  LET rollback == IF HiringMode = "open_market" THEN "OPEN" ELSE "ASSIGNED"
  IN  Move(r, PassesAsRecovery(r.status, rollback), rollback, "not_started",
           r.settlementState)

MayCancel(r) ==
  r.funded /\ r.status \in {"OPEN", "ASSIGNED"} /\ r.resultStatus = "not_started"

Cancelled(r) == Proceed(r, "CANCELLED", r.resultStatus, "pending_settlement")

-----------------------------------------------------------------------------
(* Review. *)

IsReviewable(r) == r.funded /\ r.status \in {"SUBMITTED", "UNDER_REVIEW"}

MayDecide(r) == IsReviewable(r) /\ r.submission # NoSubmission

Approved(r) == Proceed(r, "APPROVED", "approved", "pending_settlement")
Rejected(r) == Proceed(r, "REJECTED", "rejected", "pending_settlement")

\* applyAdvisoryReview does not look at the status again.
Advised(r) ==
  [r EXCEPT !.status = IF @ = "SUBMITTED" THEN "UNDER_REVIEW" ELSE @,
            !.resultStatus = "submitted"]

MayAppeal(r) ==
  /\ r.funded
  /\ r.status \in {"DISPUTED", "REJECTED", "UNRESOLVED"}
  /\ r.submission # NoSubmission

AppealOpened(r) == Proceed(r, "APPEALED", "appealed", "unresolved")

ConsensusOutcomes == {"accepted", "rejected", "disputed", "unresolved"}

\* applyConsensusOutcome after its chain calls; the dispute stays open.
ConsensusApplied(r, outcome) ==
  CASE outcome = "accepted" -> Approved(r)
    [] outcome = "rejected" -> Rejected(r)
    [] outcome = "unresolved" -> Proceed(r, "UNRESOLVED", "unresolved", "unresolved")
    [] outcome = "disputed" ->
         IF Passes(r.status, "DISPUTED")
         THEN [Proceed(r, "DISPUTED", "disputed", "disputed") EXCEPT
                 !.dispute = IF @ = "none" THEN "open" ELSE @]
         ELSE r

-----------------------------------------------------------------------------
(* Settlement.  Every effect records its receipt before it moves the task. *)

assertNotTerminal(r) == ~isTerminalTaskStatus(r.status) /\ ~hasTerminalReceipt(r.history)

\* Faulty variants of settleApprovedTask and refundTask: an open dispute is not
\* looked at.
MaySettleDisputed(r) ==
  assertNotTerminal(r) /\ r.status = "APPROVED" /\ r.funded

MayRefundDisputed(r) ==
  assertNotTerminal(r) /\ r.status \in {"REJECTED", "CANCELLED"} /\ r.funded

MaySettle(r) ==
  /\ assertNotTerminal(r)
  /\ r.dispute # "open"
  /\ r.settlementState \notin {"disputed", "unresolved"}
  /\ r.status = "APPROVED"
  /\ r.funded

MayRefund(r) ==
  /\ assertNotTerminal(r)
  /\ r.dispute # "open"
  /\ r.settlementState # "unresolved"
  /\ r.status \in {"REJECTED", "CANCELLED"}
  /\ r.funded

MayDispute(r) ==
  /\ r.dispute # "open"
  /\ r.status \in {"SUBMITTED", "UNDER_REVIEW", "REJECTED", "APPROVED"}
  /\ r.funded

MayResolve(r) == r.dispute = "open"

Recorded(r, kind) == [r EXCEPT !.history = appendSettlement(@, kind)]

\* Faulty variants of the settlement effects: the receipt is appended by the
\* service and by markSettlement; the receipt is appended after the status
\* change, which may throw; the dispute is left open.
SettledWithTwoReceipts(r) ==
  Proceed(Recorded(Recorded(r, "paid"), "paid"), "SETTLED", "settled", "settled")

SettledThenRecorded(r) ==
  IF Passes(r.status, "SETTLED")
  THEN Proceed(Recorded(r, "paid"), "SETTLED", "settled", "settled")
  ELSE r

ResolvedButOpen(r, paid) ==
  [Recorded(r, IF paid THEN "admin_paid" ELSE "admin_refunded") EXCEPT
     !.status = IF paid THEN "SETTLED" ELSE "REFUNDED"]

Settled(r) ==
  LET r1 == Recorded(r, "paid")
  IN  IF r.status = "SETTLED" THEN r1 ELSE Proceed(r1, "SETTLED", "settled", "settled")

Refunded(r) ==
  LET r1 == Recorded(r, "refunded")
  IN  IF r.status = "REFUNDED" THEN r1
      ELSE Proceed(r1, "REFUNDED", r.resultStatus, "refunded")

DisputeOpened(r) ==
  LET r1 == Recorded(r, "paused")
  IN  IF Passes(r.status, "DISPUTED")
      THEN [Proceed(r1, "DISPUTED", "disputed", "disputed") EXCEPT !.dispute = "open"]
      ELSE r1

\* markAdminResolution checks two status changes and closes the dispute
\* between them.
AdminResolved(r, paid) ==
  LET r1 == Recorded(r, IF paid THEN "admin_paid" ELSE "admin_refunded")
      verdict == IF paid THEN "APPROVED" ELSE "REJECTED"
      final == IF paid THEN "SETTLED" ELSE "REFUNDED"
      r2 == [r1 EXCEPT !.dispute = IF @ = "none" THEN "none" ELSE "resolved"]
  IN  IF ~PassesAsResolution(r.status, verdict) THEN r1
      ELSE Move(r2, PassesAsResolution(r.status, final), final,
                IF paid THEN "settled" ELSE "rejected",
                IF paid THEN "settled" ELSE "refunded")
=============================================================================
