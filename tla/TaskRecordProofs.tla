-------------------------- MODULE TaskRecordProofs --------------------------
(***************************************************************************)
(* What the handlers' effects on the task object return, for every task    *)
(* object and every set of submission ids: the lemmas that the proofs about *)
(* ExecutionEngine and TaskMarket cite.                                    *)
(***************************************************************************)
EXTENDS TaskRecord, TLAPS

\* A status change keeps the object's type, and every field but the three it
\* assigns.
LEMMA MoveEffect ==
  ASSUME NEW S, NEW r \in TaskRecords(S), NEW passes \in BOOLEAN,
         NEW status \in TaskStatuses, NEW resultStatus \in ResultStatuses,
         NEW settlementState \in SettlementStates
  PROVE  LET m == Move(r, passes, status, resultStatus, settlementState)
         IN  /\ m \in TaskRecords(S)
             /\ m.funded = r.funded /\ m.participants = r.participants /\ m.history = r.history
             /\ m.dispute = r.dispute /\ m.submission = r.submission
             /\ m.status = IF passes THEN status ELSE r.status
             /\ m.resultStatus = IF passes THEN resultStatus ELSE r.resultStatus
             /\ m.settlementState = IF passes THEN settlementState ELSE r.settlementState
BY DEF Move, TaskRecords

\* The same of a change that transitionTask checks against the lifecycle.
LEMMA ProceedEffect ==
  ASSUME NEW S, NEW r \in TaskRecords(S),
         NEW status \in TaskStatuses, NEW resultStatus \in ResultStatuses,
         NEW settlementState \in SettlementStates
  PROVE  LET m == Proceed(r, status, resultStatus, settlementState)
             passes == Passes(r.status, status)
         IN  /\ m \in TaskRecords(S)
             /\ m.funded = r.funded /\ m.participants = r.participants /\ m.history = r.history
             /\ m.dispute = r.dispute /\ m.submission = r.submission
             /\ m.status = IF passes THEN status ELSE r.status
             /\ m.resultStatus = IF passes THEN resultStatus ELSE r.resultStatus
             /\ m.settlementState = IF passes THEN settlementState ELSE r.settlementState
<1>1. Passes(r.status, status) \in BOOLEAN
  BY DEF Passes, canTransitionTaskStatus
<1> QED
  BY <1>1, MoveEffect DEF Proceed

\* The fields that no effect of the execution engine and no decision of the
\* creator assigns.
SameStanding(m, r) ==
  /\ m.funded = r.funded /\ m.participants = r.participants
  /\ m.history = r.history /\ m.dispute = r.dispute

\* The reports of the execution engine.  A failure never leaves a task in
\* EXECUTING, a result never leaves it in ASSIGNED or EXECUTING.
LEMMA EngineEffect ==
  ASSUME NEW S, NEW r \in TaskRecords(S), NEW anchored \in S \cup {NoSubmission}
  PROVE  /\ ExecutionStarted(r) \in TaskRecords(S)
         /\ SameStanding(ExecutionStarted(r), r)
         /\ SubmissionReceived(r, anchored) \in TaskRecords(S)
         /\ SameStanding(SubmissionReceived(r, anchored), r)
         /\ SubmissionReceived(r, anchored).status \notin {"ASSIGNED", "EXECUTING"}
         /\ ExecutionFailed(r) \in TaskRecords(S)
         /\ SameStanding(ExecutionFailed(r), r)
         /\ ExecutionFailed(r).status # "EXECUTING"
<1> USE DEF SameStanding
<1>1. ExecutionStarted(r) \in TaskRecords(S) /\ SameStanding(ExecutionStarted(r), r)
  <2>1. /\ "EXECUTING" \in TaskStatuses /\ "in_progress" \in ResultStatuses
        /\ r.settlementState \in SettlementStates
    BY DEF TaskStatuses, ResultStatuses, TaskRecords
  <2> QED
    BY <2>1, ProceedEffect DEF ExecutionStarted
<1>2. /\ SubmissionReceived(r, anchored) \in TaskRecords(S)
      /\ SameStanding(SubmissionReceived(r, anchored), r)
  <2>1. "SUBMITTED" \in TaskStatuses /\ "submitted" \in ResultStatuses
    BY DEF TaskStatuses, ResultStatuses
  <2> QED
    BY <2>1 DEF SubmissionReceived, TaskRecords
<1>3. SubmissionReceived(r, anchored).status \notin {"ASSIGNED", "EXECUTING"}
  <2>1. r.status \in {"ASSIGNED", "EXECUTING"} => Passes(r.status, "SUBMITTED")
    BY DEF Passes, canTransitionTaskStatus, taskStatusTransitions
  <2> QED
    BY <2>1 DEF SubmissionReceived, TaskRecords
<1>4. /\ ExecutionFailed(r) \in TaskRecords(S)
      /\ SameStanding(ExecutionFailed(r), r)
      /\ ExecutionFailed(r).status # "EXECUTING"
  <2> DEFINE rollback == IF HiringMode = "open_market" THEN "OPEN" ELSE "ASSIGNED"
             passes == PassesAsRecovery(r.status, rollback)
  <2>1. passes \in BOOLEAN /\ (r.status = "EXECUTING" => passes)
    BY DEF PassesAsRecovery, canRecoverTaskStatus
  <2>2. /\ rollback \in TaskStatuses /\ rollback # "EXECUTING"
        /\ r.settlementState \in SettlementStates
    BY DEF TaskStatuses, TaskRecords
  <2>3. ExecutionFailed(r) = Move(r, passes, rollback, "not_started", r.settlementState)
    BY DEF ExecutionFailed
  <2> HIDE DEF passes, rollback
  <2> QED
    BY <2>1, <2>2, <2>3, MoveEffect DEF ResultStatuses
<1> QED
  BY <1>1, <1>2, <1>3, <1>4

\* The creator's decisions.
LEMMA DecisionEffect ==
  ASSUME NEW S, NEW r \in TaskRecords(S)
  PROVE  \A m \in {Approved(r), Rejected(r), Cancelled(r)} :
           /\ m \in TaskRecords(S)
           /\ SameStanding(m, r)
           /\ m.status \in {r.status, "APPROVED", "REJECTED", "CANCELLED"}
<1>1. /\ "APPROVED" \in TaskStatuses /\ "REJECTED" \in TaskStatuses
      /\ "CANCELLED" \in TaskStatuses
      /\ "approved" \in ResultStatuses /\ "rejected" \in ResultStatuses
      /\ "pending_settlement" \in SettlementStates /\ r.resultStatus \in ResultStatuses
  BY DEF TaskStatuses, ResultStatuses, SettlementStates, TaskRecords
<1>2. /\ Approved(r) \in TaskRecords(S) /\ SameStanding(Approved(r), r)
      /\ Approved(r).status \in {r.status, "APPROVED"}
  BY <1>1, ProceedEffect DEF Approved, SameStanding
<1>3. /\ Rejected(r) \in TaskRecords(S) /\ SameStanding(Rejected(r), r)
      /\ Rejected(r).status \in {r.status, "REJECTED"}
  BY <1>1, ProceedEffect DEF Rejected, SameStanding
<1>4. /\ Cancelled(r) \in TaskRecords(S) /\ SameStanding(Cancelled(r), r)
      /\ Cancelled(r).status \in {r.status, "CANCELLED"}
  BY <1>1, ProceedEffect DEF Cancelled, SameStanding
<1> QED
  BY <1>2, <1>3, <1>4

\* An accepting agent takes part, and nothing else changes.
LEMMA JoinEffect ==
  ASSUME NEW S, NEW r \in TaskRecords(S), NEW k \in Nat
  PROVE  /\ Joined(r, k) \in TaskRecords(S)
         /\ Joined(r, k).funded = r.funded /\ Joined(r, k).status = r.status
BY DEF Joined, TaskRecords

\* Its acceptance keeps the task's standing.
LEMMA AcceptEffect ==
  ASSUME NEW S, NEW r \in TaskRecords(S), NEW wasOpen \in BOOLEAN
  PROVE  /\ Accepted(r, wasOpen) \in TaskRecords(S)
         /\ SameStanding(Accepted(r, wasOpen), r)
         /\ Accepted(r, wasOpen).status \in {r.status, "ASSIGNED"}
<1>1. /\ "ASSIGNED" \in TaskStatuses /\ "not_started" \in ResultStatuses
      /\ r.settlementState \in SettlementStates
  BY DEF TaskStatuses, ResultStatuses, TaskRecords
<1>2. CASE wasOpen
  BY <1>1, <1>2, ProceedEffect DEF Accepted, SameStanding
<1>3. CASE ~wasOpen
  BY <1>1, <1>3 DEF Accepted, TaskRecords, SameStanding
<1> QED
  BY <1>2, <1>3

\* An advisory verdict and the opening of an appeal record no receipt and leave
\* the dispute alone.
LEMMA ReviewEffect ==
  ASSUME NEW S, NEW r \in TaskRecords(S)
  PROVE  /\ Advised(r) \in TaskRecords(S)
         /\ SameStanding(Advised(r), r)
         /\ Advised(r).status = IF r.status = "SUBMITTED" THEN "UNDER_REVIEW" ELSE r.status
         /\ AppealOpened(r) \in TaskRecords(S)
         /\ SameStanding(AppealOpened(r), r)
         /\ AppealOpened(r).submission = r.submission
         /\ AppealOpened(r).status =
              IF Passes(r.status, "APPEALED") THEN "APPEALED" ELSE r.status
<1>1. "APPEALED" \in TaskStatuses /\ "UNDER_REVIEW" \in TaskStatuses
  BY DEF TaskStatuses
<1>2. "appealed" \in ResultStatuses /\ "submitted" \in ResultStatuses
  BY DEF ResultStatuses
<1>3. "unresolved" \in SettlementStates
  BY DEF SettlementStates
<1>4. /\ Advised(r) \in TaskRecords(S)
      /\ SameStanding(Advised(r), r)
      /\ Advised(r).status = IF r.status = "SUBMITTED" THEN "UNDER_REVIEW" ELSE r.status
  BY <1>1, <1>2 DEF Advised, TaskRecords, SameStanding
<1>5. /\ AppealOpened(r) \in TaskRecords(S)
      /\ SameStanding(AppealOpened(r), r)
      /\ AppealOpened(r).submission = r.submission
      /\ AppealOpened(r).status =
           IF Passes(r.status, "APPEALED") THEN "APPEALED" ELSE r.status
  BY <1>1, <1>2, <1>3, ProceedEffect DEF AppealOpened, SameStanding
<1> QED
  BY <1>4, <1>5

\* The status a consensus outcome asks for.
Verdict ==
  [accepted |-> "APPROVED", rejected |-> "REJECTED", disputed |-> "DISPUTED",
   unresolved |-> "UNRESOLVED"]

\* The outcome of an appeal records no receipt; only "disputed" touches the
\* dispute, and it opens one where there was none.
LEMMA ConsensusEffect ==
  ASSUME NEW S, NEW r \in TaskRecords(S), NEW outcome \in ConsensusOutcomes
  PROVE  LET m == ConsensusApplied(r, outcome)
         IN  /\ m \in TaskRecords(S)
             /\ m.history = r.history
             /\ m.status = IF Passes(r.status, Verdict[outcome])
                           THEN Verdict[outcome] ELSE r.status
             /\ m.dispute = IF /\ outcome = "disputed"
                               /\ Passes(r.status, "DISPUTED")
                               /\ r.dispute = "none"
                            THEN "open" ELSE r.dispute
<1>1. {"APPROVED", "REJECTED", "DISPUTED", "UNRESOLVED"} \subseteq TaskStatuses
  BY DEF TaskStatuses
<1>2. {"approved", "rejected", "disputed", "unresolved"} \subseteq ResultStatuses
  BY DEF ResultStatuses
<1>3. {"pending_settlement", "disputed", "unresolved"} \subseteq SettlementStates
  BY DEF SettlementStates
<1>4. ASSUME NEW status \in TaskStatuses, NEW result \in ResultStatuses,
             NEW settlement \in SettlementStates,
             outcome # "disputed", Verdict[outcome] = status,
             ConsensusApplied(r, outcome) = Proceed(r, status, result, settlement)
      PROVE LET m == ConsensusApplied(r, outcome)
            IN  /\ m \in TaskRecords(S)
                /\ m.history = r.history
                /\ m.status = IF Passes(r.status, Verdict[outcome])
                              THEN Verdict[outcome] ELSE r.status
                /\ m.dispute = r.dispute
  BY <1>4, ProceedEffect
<1>5. CASE outcome = "accepted"
  <2>1. ConsensusApplied(r, outcome) = Proceed(r, "APPROVED", "approved", "pending_settlement")
    BY <1>5 DEF ConsensusApplied, Approved
  <2>2. Verdict[outcome] = "APPROVED"
    BY <1>5 DEF Verdict
  <2> QED
    BY <1>1, <1>2, <1>3, <1>4, <1>5, <2>1, <2>2
<1>6. CASE outcome = "rejected"
  <2>1. ConsensusApplied(r, outcome) = Proceed(r, "REJECTED", "rejected", "pending_settlement")
    BY <1>6 DEF ConsensusApplied, Rejected
  <2>2. Verdict[outcome] = "REJECTED"
    BY <1>6 DEF Verdict
  <2> QED
    BY <1>1, <1>2, <1>3, <1>4, <1>6, <2>1, <2>2
<1>7. CASE outcome = "unresolved"
  <2>1. ConsensusApplied(r, outcome) = Proceed(r, "UNRESOLVED", "unresolved", "unresolved")
    BY <1>7 DEF ConsensusApplied
  <2>2. Verdict[outcome] = "UNRESOLVED"
    BY <1>7 DEF Verdict
  <2> QED
    BY <1>1, <1>2, <1>3, <1>4, <1>7, <2>1, <2>2
<1>8. CASE outcome = "disputed"
  <2> DEFINE d == Proceed(r, "DISPUTED", "disputed", "disputed")
             e == [d EXCEPT !.dispute = IF @ = "none" THEN "open" ELSE @]
  <2>1. ConsensusApplied(r, outcome) = IF Passes(r.status, "DISPUTED") THEN e ELSE r
    BY <1>8 DEF ConsensusApplied
  <2>2. /\ d \in TaskRecords(S)
        /\ d.history = r.history /\ d.dispute = r.dispute
        /\ d.status = IF Passes(r.status, "DISPUTED") THEN "DISPUTED" ELSE r.status
    BY <1>1, <1>2, <1>3, ProceedEffect
  <2> HIDE DEF d
  <2>3. /\ e \in TaskRecords(S) /\ e.history = r.history /\ e.status = d.status
        /\ e.dispute = IF r.dispute = "none" THEN "open" ELSE r.dispute
    BY <2>2 DEF TaskRecords
  <2>4. Verdict[outcome] = "DISPUTED"
    BY <1>8 DEF Verdict
  <2> HIDE DEF e
  <2> QED
    BY <1>8, <2>1, <2>2, <2>3, <2>4
<1> QED
  BY <1>5, <1>6, <1>7, <1>8 DEF ConsensusOutcomes

\* What the refresh and the synchronisation write: the status comes from the
\* chain's state, and neither the receipts nor the dispute are touched.
LEMMA SyncEffect ==
  ASSUME NEW S, NEW r \in TaskRecords(S), NEW funding \in BOOLEAN, NEW assignment \in BOOLEAN
  PROVE  /\ Synced(r, funding, assignment) \in TaskRecords(S)
         /\ Synced(r, funding, assignment).history = r.history
         /\ Synced(r, funding, assignment).dispute = r.dispute
         /\ Synced(r, funding, assignment).status \in {r.status, "ASSIGNED", "OPEN"}
         /\ r.status # "CREATED" => Synced(r, funding, assignment).status = r.status
<1>1. "ASSIGNED" \in TaskStatuses /\ "OPEN" \in TaskStatuses
  BY DEF TaskStatuses
<1> QED
  BY <1>1 DEF Synced, TaskRecords

\* The automatic dispatch of a built-in agent assigns an open task.
LEMMA AutoEffect ==
  ASSUME NEW S, NEW r \in TaskRecords(S)
  PROVE  /\ AutoAssigned(r) \in TaskRecords(S)
         /\ SameStanding(AutoAssigned(r), r)
         /\ AutoAssigned(r).status = IF r.status = "OPEN" THEN "ASSIGNED" ELSE r.status
<1>1. "ASSIGNED" \in TaskStatuses
  BY DEF TaskStatuses
<1> QED
  BY <1>1 DEF AutoAssigned, TaskRecords, SameStanding

\* The refresh writes whatever state it read.
LEMMA ReconcileEffect ==
  ASSUME NEW S, NEW r \in TaskRecords(S), NEW s \in TaskStatuses,
         NEW submission \in S \cup {NoSubmission}, NEW locked \in BOOLEAN
  PROVE  LET m == reconcileTaskFromOnchain(r, s, submission, locked)
         IN  /\ m \in TaskRecords(S)
             /\ m.history = r.history /\ m.dispute = r.dispute
             /\ m.status = IF s = "ESCROW_FUNDED" THEN "OPEN" ELSE s
<1>1. ReconciledStatus(s) \in TaskStatuses
  BY DEF ReconciledStatus, TaskStatuses
<1>2. ReconciledResult(r, s) \in ResultStatuses
  <2>1. r.resultStatus \in ResultStatuses
    BY DEF TaskRecords
  <2> QED
    BY <2>1 DEF ReconciledResult, ResultStatuses
<1>3. ReconciledSettlement(r, s, locked) \in SettlementStates
  <2>1. r.settlementState \in SettlementStates
    BY DEF TaskRecords
  <2> QED
    BY <2>1 DEF ReconciledSettlement, SettlementStates
<1> DEFINE status == ReconciledStatus(s)
           result == ReconciledResult(r, s)
           settlement == ReconciledSettlement(r, s, locked)
<1>4. reconcileTaskFromOnchain(r, s, submission, locked) =
        [r EXCEPT !.funded = TRUE,
                  !.submission = IF submission = NoSubmission THEN @ ELSE submission,
                  !.status = status, !.resultStatus = result, !.settlementState = settlement]
  BY DEF reconcileTaskFromOnchain
<1>5. status = IF s = "ESCROW_FUNDED" THEN "OPEN" ELSE s
  BY DEF ReconciledStatus
<1> HIDE DEF status, result, settlement
<1>6. /\ status \in TaskStatuses /\ result \in ResultStatuses
      /\ settlement \in SettlementStates
  BY <1>1, <1>2, <1>3 DEF status, result, settlement
<1> QED
  BY <1>4, <1>5, <1>6 DEF TaskRecords

\* A receipt counts once more, up to `several', and nothing else changes.
LEMMA RecordedEffect ==
  ASSUME NEW S, NEW r \in TaskRecords(S), NEW kind \in Receipts
  PROVE  LET m == Recorded(r, kind)
         IN  /\ m \in TaskRecords(S)
             /\ m.status = r.status /\ m.resultStatus = r.resultStatus
             /\ m.settlementState = r.settlementState
             /\ m.dispute = r.dispute /\ m.submission = r.submission
             /\ m.funded = r.funded /\ m.participants = r.participants
             /\ m.history = appendSettlement(r.history, kind)
             /\ m.history[kind] = IF r.history[kind] = Several THEN Several
                                  ELSE r.history[kind] + 1
             /\ \A k \in Receipts \ {kind} : m.history[k] = r.history[k]
<1>1. r.history \in [Receipts -> 0 .. Several]
  BY DEF TaskRecords
<1>2. appendSettlement(r.history, kind) \in [Receipts -> 0 .. Several]
  BY <1>1 DEF appendSettlement, Several
<1>3. Recorded(r, kind).history = appendSettlement(r.history, kind)
  BY DEF Recorded, TaskRecords
<1>4. /\ appendSettlement(r.history, kind)[kind] =
           IF r.history[kind] = Several THEN Several ELSE r.history[kind] + 1
      /\ \A k \in Receipts \ {kind} : appendSettlement(r.history, kind)[k] = r.history[k]
  BY <1>1 DEF appendSettlement
<1>5. Recorded(r, kind) \in TaskRecords(S)
  BY <1>2 DEF Recorded, TaskRecords
<1> QED
  BY <1>3, <1>4, <1>5 DEF Recorded, TaskRecords

\* The settlement service.  The receipt is appended in every case; the status
\* changes if the lifecycle lets it pass.
LEMMA SettlementEffect ==
  ASSUME NEW S, NEW r \in TaskRecords(S)
  PROVE  /\ LET m == Settled(r)
            IN  /\ m \in TaskRecords(S)
                /\ m.dispute = r.dispute
                /\ m.history = Recorded(r, "paid").history
                /\ m.status = IF Passes(r.status, "SETTLED") THEN "SETTLED" ELSE r.status
         /\ LET m == Refunded(r)
            IN  /\ m \in TaskRecords(S)
                /\ m.dispute = r.dispute
                /\ m.history = Recorded(r, "refunded").history
                /\ m.status = IF Passes(r.status, "REFUNDED") THEN "REFUNDED" ELSE r.status
         /\ LET m == DisputeOpened(r)
            IN  /\ m \in TaskRecords(S)
                /\ m.dispute = IF Passes(r.status, "DISPUTED") THEN "open" ELSE r.dispute
                /\ m.history = Recorded(r, "paused").history
                /\ m.status = IF Passes(r.status, "DISPUTED") THEN "DISPUTED" ELSE r.status
<1>1. {"SETTLED", "REFUNDED", "DISPUTED"} \subseteq TaskStatuses
  BY DEF TaskStatuses
<1>2. {"settled", "disputed"} \subseteq ResultStatuses
  BY DEF ResultStatuses
<1>3. {"settled", "refunded", "disputed"} \subseteq SettlementStates
  BY DEF SettlementStates
<1>4. {"paid", "refunded", "paused"} \subseteq Receipts
  BY DEF Receipts
<1>5. r.resultStatus \in ResultStatuses
  BY DEF TaskRecords
<1>6. Passes("SETTLED", "SETTLED") /\ Passes("REFUNDED", "REFUNDED")
  BY DEF Passes
<1>7. LET m == Settled(r)
      IN  /\ m \in TaskRecords(S)
          /\ m.dispute = r.dispute
          /\ m.history = Recorded(r, "paid").history
          /\ m.status = IF Passes(r.status, "SETTLED") THEN "SETTLED" ELSE r.status
  <2> DEFINE r1 == Recorded(r, "paid")
  <2>1. r1 \in TaskRecords(S) /\ r1.status = r.status /\ r1.dispute = r.dispute
    BY <1>4, RecordedEffect
  <2>2. Settled(r) = IF r.status = "SETTLED" THEN r1
                     ELSE Proceed(r1, "SETTLED", "settled", "settled")
    BY DEF Settled
  <2> HIDE DEF r1
  <2>3. r1.history = Recorded(r, "paid").history
    BY DEF r1
  <2>4. CASE r.status = "SETTLED"
    BY <1>6, <2>1, <2>2, <2>3, <2>4
  <2>5. CASE r.status # "SETTLED"
    <3>1. /\ "SETTLED" \in TaskStatuses /\ "settled" \in ResultStatuses
          /\ "settled" \in SettlementStates
      BY <1>1, <1>2, <1>3
    <3>2. LET m == Proceed(r1, "SETTLED", "settled", "settled")
          IN  /\ m \in TaskRecords(S)
              /\ m.dispute = r1.dispute /\ m.history = r1.history
              /\ m.status = IF Passes(r1.status, "SETTLED") THEN "SETTLED" ELSE r1.status
      BY <2>1, <3>1, ProceedEffect
    <3> QED
      BY <2>1, <2>2, <2>3, <2>5, <3>2
  <2> QED
    BY <2>4, <2>5
<1>8. LET m == Refunded(r)
      IN  /\ m \in TaskRecords(S)
          /\ m.dispute = r.dispute
          /\ m.history = Recorded(r, "refunded").history
          /\ m.status = IF Passes(r.status, "REFUNDED") THEN "REFUNDED" ELSE r.status
  <2> DEFINE r1 == Recorded(r, "refunded")
  <2>1. r1 \in TaskRecords(S) /\ r1.status = r.status /\ r1.dispute = r.dispute
    BY <1>4, RecordedEffect
  <2>2. Refunded(r) = IF r.status = "REFUNDED" THEN r1
                      ELSE Proceed(r1, "REFUNDED", r.resultStatus, "refunded")
    BY DEF Refunded
  <2> HIDE DEF r1
  <2>3. r1.history = Recorded(r, "refunded").history
    BY DEF r1
  <2>4. CASE r.status = "REFUNDED"
    BY <1>6, <2>1, <2>2, <2>3, <2>4
  <2>5. CASE r.status # "REFUNDED"
    <3>1. "REFUNDED" \in TaskStatuses /\ "refunded" \in SettlementStates
      BY <1>1, <1>3
    <3>2. LET m == Proceed(r1, "REFUNDED", r.resultStatus, "refunded")
          IN  /\ m \in TaskRecords(S)
              /\ m.dispute = r1.dispute /\ m.history = r1.history
              /\ m.status = IF Passes(r1.status, "REFUNDED") THEN "REFUNDED" ELSE r1.status
      BY <1>5, <2>1, <3>1, ProceedEffect
    <3> QED
      BY <2>1, <2>2, <2>3, <2>5, <3>2
  <2> QED
    BY <2>4, <2>5
<1>9. LET m == DisputeOpened(r)
      IN  /\ m \in TaskRecords(S)
          /\ m.dispute = IF Passes(r.status, "DISPUTED") THEN "open" ELSE r.dispute
          /\ m.history = Recorded(r, "paused").history
          /\ m.status = IF Passes(r.status, "DISPUTED") THEN "DISPUTED" ELSE r.status
  <2> DEFINE r1 == Recorded(r, "paused")
             d == Proceed(r1, "DISPUTED", "disputed", "disputed")
  <2>1. r1 \in TaskRecords(S) /\ r1.status = r.status /\ r1.dispute = r.dispute
    BY <1>4, RecordedEffect
  <2>2. DisputeOpened(r) = IF Passes(r.status, "DISPUTED")
                           THEN [d EXCEPT !.dispute = "open"] ELSE r1
    BY DEF DisputeOpened
  <2>3. /\ d \in TaskRecords(S) /\ d.history = r1.history
        /\ d.status = IF Passes(r.status, "DISPUTED") THEN "DISPUTED" ELSE r.status
    <3> HIDE DEF r1
    <3> QED
      BY <1>1, <1>2, <1>3, <2>1, ProceedEffect
  <2>4. r1.history = Recorded(r, "paused").history
    OBVIOUS
  <2> HIDE DEF r1, d
  <2>5. /\ [d EXCEPT !.dispute = "open"] \in TaskRecords(S)
        /\ [d EXCEPT !.dispute = "open"].dispute = "open"
        /\ [d EXCEPT !.dispute = "open"].history = d.history
        /\ [d EXCEPT !.dispute = "open"].status = d.status
    BY <2>3 DEF TaskRecords
  <2> QED
    BY <2>1, <2>2, <2>3, <2>4, <2>5
<1> QED
  BY <1>7, <1>8, <1>9

\* The admin's resolution.  A dispute it knows of is resolved as soon as the
\* verdict passes; the final status must pass on its own.
LEMMA ResolutionEffect ==
  ASSUME NEW S, NEW r \in TaskRecords(S), NEW paid \in BOOLEAN
  PROVE  LET m == AdminResolved(r, paid)
             verdict == IF paid THEN "APPROVED" ELSE "REJECTED"
             final == IF paid THEN "SETTLED" ELSE "REFUNDED"
         IN  /\ m \in TaskRecords(S)
             /\ m.history = Recorded(r, IF paid THEN "admin_paid" ELSE "admin_refunded").history
             /\ m.dispute = IF PassesAsResolution(r.status, verdict) /\ r.dispute # "none"
                            THEN "resolved" ELSE r.dispute
             /\ m.status = IF /\ PassesAsResolution(r.status, verdict)
                              /\ PassesAsResolution(r.status, final)
                           THEN final ELSE r.status
<1> DEFINE kind == IF paid THEN "admin_paid" ELSE "admin_refunded"
           verdict == IF paid THEN "APPROVED" ELSE "REJECTED"
           final == IF paid THEN "SETTLED" ELSE "REFUNDED"
           result == IF paid THEN "settled" ELSE "rejected"
           settlement == IF paid THEN "settled" ELSE "refunded"
           r1 == Recorded(r, kind)
           r2 == [r1 EXCEPT !.dispute = IF @ = "none" THEN "none" ELSE "resolved"]
           passes == PassesAsResolution(r.status, final)
<1>1. final \in TaskStatuses
  BY DEF TaskStatuses
<1>2. result \in ResultStatuses /\ settlement \in SettlementStates
  BY DEF ResultStatuses, SettlementStates
<1>3. kind \in Receipts
  BY DEF Receipts
<1>4. AdminResolved(r, paid) =
        IF ~PassesAsResolution(r.status, verdict) THEN r1
        ELSE Move(r2, passes, final, result, settlement)
  BY DEF AdminResolved
<1>5. passes \in BOOLEAN
  BY DEF PassesAsResolution, Passes, canTransitionTaskStatus
<1> HIDE DEF kind, verdict, final, result, settlement, passes
<1>6. r1 \in TaskRecords(S) /\ r1.status = r.status /\ r1.dispute = r.dispute
  BY <1>3, RecordedEffect
<1> HIDE DEF r1
<1>7. /\ r2 \in TaskRecords(S) /\ r2.status = r.status /\ r2.history = r1.history
      /\ r2.dispute = IF r.dispute = "none" THEN "none" ELSE "resolved"
  BY <1>6 DEF TaskRecords
<1> HIDE DEF r2
<1>8. LET m == Move(r2, passes, final, result, settlement)
      IN  /\ m \in TaskRecords(S) /\ m.history = r1.history
          /\ m.dispute = IF r.dispute = "none" THEN "none" ELSE "resolved"
          /\ m.status = IF passes THEN final ELSE r.status
  BY <1>1, <1>2, <1>5, <1>7, MoveEffect
<1>9. LET m == AdminResolved(r, paid)
      IN  /\ m \in TaskRecords(S)
          /\ m.history = r1.history
          /\ m.dispute = IF PassesAsResolution(r.status, verdict) /\ r.dispute # "none"
                         THEN "resolved" ELSE r.dispute
          /\ m.status = IF PassesAsResolution(r.status, verdict) /\ passes
                        THEN final ELSE r.status
  <2>1. CASE PassesAsResolution(r.status, verdict)
    <3>1. AdminResolved(r, paid) = Move(r2, passes, final, result, settlement)
      BY <1>4, <2>1
    <3> QED
      BY <1>8, <2>1, <3>1
  <2>2. CASE ~PassesAsResolution(r.status, verdict)
    <3>1. AdminResolved(r, paid) = r1
      BY <1>4, <2>2
    <3> QED
      BY <1>6, <2>2, <3>1
  <2> QED
    BY <2>1, <2>2
<1> QED
  BY <1>9 DEF r1, kind, verdict, final, passes
=============================================================================
