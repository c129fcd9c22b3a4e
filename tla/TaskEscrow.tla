----------------------------- MODULE TaskEscrow -----------------------------
(***************************************************************************)
(* The GenLayer escrow contract, task_escrow.py, with the agent registry   *)
(* it reads.  A raised UserError rolls the call back, so each method is    *)
(* one action whose guard is the negation of the conditions it raises on.  *)
(*                                                                         *)
(* What differs from the Solidity contract: the creator, not an operator,  *)
(* drives the task; a review is finalised with scores the creator reports, *)
(* which must be good enough for the verdict asked for; several results    *)
(* may be submitted; escrow_locked is never zeroed, so that the reward is  *)
(* paid once rests on the states alone.                                    *)
(*                                                                         *)
(* Agents and submissions with the empty identifier, which the contract    *)
(* cannot tell from none, are excluded.  Left out: fields no guard reads   *)
(* (deadline, metadata, hashes, round counter), events and the clock;      *)
(* update_agent, which writes such fields only.  A transfer, which the     *)
(* chain executes, is kept as what each task moved, and to whom.           *)
(***************************************************************************)
EXTENDS Integers

CONSTANTS Tasks,          \* task identifiers
          Agents,         \* agent identifiers
          Accounts,       \* addresses that send transactions
          SubmissionIds,  \* submission identifiers, chosen by the submitter
          Rewards,        \* amounts offered
          Evidence,       \* scores the creator may report of a result
          NoAccount, NoAgent, NoTask, NoSubmission, NoEvidence,
          ProtocolFeeBps  \* constructor argument

\* The constructor bounds the fee, create_task the reward.
ASSUME EscrowConstants ==
  /\ Rewards \subseteq Nat \ {0}
  /\ ProtocolFeeBps \in Nat /\ ProtocolFeeBps <= 10000
  /\ Evidence \subseteq [score : Nat, agreement : Nat, confidence : Nat]
  /\ NoAccount \notin Accounts
  /\ NoAgent \notin Agents
  /\ NoTask \notin Tasks
  /\ NoSubmission \notin SubmissionIds
  /\ NoEvidence \notin Evidence

VARIABLES
  agentOwner,             \* AgentRecord.owner; NoAccount until registered
  agentActive,            \* AgentRecord.active
  creator,                \* TaskRecord.creator; NoAccount while there is no record
  reward,                 \* TaskRecord.reward
  task_mode,              \* TaskRecord.task_mode
  state,                  \* TaskRecord.state
  assigned_agent_id,      \* TaskRecord.assigned_agent_id
  escrow_locked,          \* TaskRecord.escrow_locked
  dispute_paused,         \* TaskRecord.dispute_paused
  settled_submission_id,  \* TaskRecord.settled_submission_id
  review_outcome,         \* TaskRecord.review_outcome
  consensus,              \* TaskRecord.consensus_score, validator_agreement_bps, ...
  submission_ids,         \* task_to_submission_ids, of which only emptiness is read
  submissionTask,         \* SubmissionRecord.task_id; NoTask while there is no record
  submitter,              \* SubmissionRecord.submitter
  deposited,              \* moved by the chain: creator to contract,
  toAgent,                \*   contract to the submitter,
  toTreasury,             \*   contract to the treasury,
  toCreator,              \*   contract back to the creator
  payee                   \* the account the payout went to

registry == <<agentOwner, agentActive>>
terms == <<creator, reward, task_mode>>
review == <<dispute_paused, review_outcome, consensus>>
submissions == <<submission_ids, submissionTask, submitter>>
paid == <<toAgent, toTreasury, toCreator, payee>>
money == <<escrow_locked, deposited, paid>>
work == <<assigned_agent_id, settled_submission_id>>
vars == <<registry, terms, state, work, review, submissions, money>>

TaskState ==
  {"NONE", "CREATED", "OPEN", "ASSIGNED", "EXECUTING", "SUBMITTED", "UNDER_REVIEW",
   "APPROVED", "REJECTED", "DISPUTED", "APPEALED", "UNRESOLVED", "SETTLED",
   "CANCELLED", "REFUNDED"}
Modes == {"SINGLE_SUBMISSION", "MULTI_SUBMISSION"}
Outcomes == {"accepted", "rejected", "disputed", "unresolved"}

Init ==
  /\ agentOwner = [a \in Agents |-> NoAccount]
  /\ agentActive = [a \in Agents |-> FALSE]
  /\ creator = [t \in Tasks |-> NoAccount]
  /\ reward = [t \in Tasks |-> 0]
  /\ task_mode = [t \in Tasks |-> "NONE"]
  /\ state = [t \in Tasks |-> "NONE"]
  /\ assigned_agent_id = [t \in Tasks |-> NoAgent]
  /\ escrow_locked = [t \in Tasks |-> 0]
  /\ dispute_paused = [t \in Tasks |-> FALSE]
  /\ settled_submission_id = [t \in Tasks |-> NoSubmission]
  /\ review_outcome = [t \in Tasks |-> "pending"]
  /\ consensus = [t \in Tasks |-> NoEvidence]
  /\ submission_ids = [t \in Tasks |-> {}]
  /\ submissionTask = [s \in SubmissionIds |-> NoTask]
  /\ submitter = [s \in SubmissionIds |-> NoAccount]
  /\ deposited = [t \in Tasks |-> 0]
  /\ toAgent = [t \in Tasks |-> 0]
  /\ toTreasury = [t \in Tasks |-> 0]
  /\ toCreator = [t \in Tasks |-> 0]
  /\ payee = [t \in Tasks |-> NoAccount]

-----------------------------------------------------------------------------
(* The registry. *)

register_agent(sender, a) ==
  /\ agentOwner[a] = NoAccount
  /\ agentOwner' = [agentOwner EXCEPT ![a] = sender]
  /\ agentActive' = [agentActive EXCEPT ![a] = TRUE]
  /\ UNCHANGED <<terms, state, work, review, submissions, money>>

\* There is no way back: update_agent leaves the flag alone.
disable_agent(sender, a) ==
  /\ agentOwner[a] = sender
  /\ agentActive' = [agentActive EXCEPT ![a] = FALSE]
  /\ UNCHANGED <<agentOwner, terms, state, work, review, submissions, money>>

-----------------------------------------------------------------------------
(* Helpers. *)

_require_creator(sender, t) == creator[t] = sender
_require_submission(t, s) == submissionTask[s] = t
_require_agent_sender(sender, a) == agentActive[a] /\ agentOwner[a] = sender

SetState(t, s) == state' = [state EXCEPT ![t] = s]

Fee(amount) == (amount * ProtocolFeeBps) \div 10000

\* The scores that make a result "equivalent enough" to be accepted.
Equivalent(e) == e.score >= 72 /\ e.agreement >= 6600 /\ e.confidence >= 6200

\* The scores that make a result bad enough to be rejected outright.
Inadequate(e) == e.score <= 55 /\ e.agreement >= 6600

\* Faulty variant of _coerce_review_outcome: agreement is not looked at.
CoercedByScoreAlone(requested, e) ==
  IF requested = "accepted" /\ e.score < 72 THEN "unresolved"
  ELSE IF requested = "rejected" /\ e.score > 55 THEN "disputed"
  ELSE requested

\* The verdict that is recorded, given the one the creator asks for.
_coerce_review_outcome(requested, e) ==
  IF requested = "accepted" /\ ~Equivalent(e) THEN "unresolved"
  ELSE IF requested = "rejected" /\ ~Inadequate(e) THEN "disputed"
  ELSE requested

-----------------------------------------------------------------------------
(* Transactions. *)

create_task(sender, t, amount, mode) ==
  /\ creator[t] = NoAccount
  /\ creator' = [creator EXCEPT ![t] = sender]
  /\ reward' = [reward EXCEPT ![t] = amount]
  /\ task_mode' = [task_mode EXCEPT ![t] = mode]
  /\ SetState(t, "CREATED")
  /\ UNCHANGED <<registry, work, review, submissions, money>>

\* Faulty variant of fund_task: the second write of the record is missing.
FundWithoutOpening(sender, t) ==
  /\ _require_creator(sender, t)
  /\ state[t] = "CREATED"
  /\ deposited' = [deposited EXCEPT ![t] = @ + reward[t]]
  /\ escrow_locked' = [escrow_locked EXCEPT ![t] = reward[t]]
  /\ SetState(t, "ESCROW_FUNDED")
  /\ UNCHANGED <<registry, terms, work, review, submissions, paid>>

\* The value sent with the call must be the reward.  ESCROW_FUNDED is written
\* and overwritten by OPEN in the same call.
fund_task(sender, t) ==
  /\ _require_creator(sender, t)
  /\ state[t] = "CREATED"
  /\ deposited' = [deposited EXCEPT ![t] = @ + reward[t]]
  /\ escrow_locked' = [escrow_locked EXCEPT ![t] = reward[t]]
  /\ SetState(t, "OPEN")
  /\ UNCHANGED <<registry, terms, work, review, submissions, paid>>

assign_task(sender, t, a) ==
  /\ _require_creator(sender, t)
  /\ state[t] = "OPEN"
  /\ agentActive[a]
  /\ assigned_agent_id' = [assigned_agent_id EXCEPT ![t] = a]
  /\ SetState(t, "ASSIGNED")
  /\ UNCHANGED <<registry, terms, settled_submission_id, review, submissions, money>>

start_execution(sender, t, a) ==
  /\ state[t] = "ASSIGNED"
  /\ assigned_agent_id[t] = a
  /\ _require_agent_sender(sender, a)
  /\ SetState(t, "EXECUTING")
  /\ UNCHANGED <<registry, terms, work, review, submissions, money>>

\* The record of the id is written whether or not it exists already, be it
\* another task's.
submit_task(sender, t, s, a) ==
  /\ state[t] \in {"ASSIGNED", "EXECUTING", "SUBMITTED"}
  /\ assigned_agent_id[t] \in {NoAgent, a}
  /\ task_mode[t] = "SINGLE_SUBMISSION" => submission_ids[t] = {}
  /\ _require_agent_sender(sender, a)
  /\ submission_ids' = [submission_ids EXCEPT ![t] = @ \cup {s}]
  /\ submissionTask' = [submissionTask EXCEPT ![s] = t]
  /\ submitter' = [submitter EXCEPT ![s] = sender]
  /\ SetState(t, "SUBMITTED")
  /\ UNCHANGED <<registry, terms, work, review, money>>

start_review(sender, t) ==
  /\ _require_creator(sender, t)
  /\ state[t] = "SUBMITTED"
  /\ SetState(t, "UNDER_REVIEW")
  /\ UNCHANGED <<registry, terms, work, review, submissions, money>>

ReviewState ==
  [accepted |-> "APPROVED", rejected |-> "REJECTED", disputed |-> "DISPUTED",
   unresolved |-> "UNRESOLVED"]

finalize_review(sender, t, s, requested, e) ==
  LET outcome == _coerce_review_outcome(requested, e) IN
  /\ _require_creator(sender, t)
  /\ _require_submission(t, s)
  /\ state[t] \in {"SUBMITTED", "UNDER_REVIEW", "DISPUTED", "APPEALED", "UNRESOLVED"}
  /\ review_outcome' = [review_outcome EXCEPT ![t] = outcome]
  /\ consensus' = [consensus EXCEPT ![t] = e]
  /\ dispute_paused' = [dispute_paused EXCEPT ![t] = outcome \in {"disputed", "unresolved"}]
  /\ SetState(t, ReviewState[outcome])
  /\ settled_submission_id' =
       [settled_submission_id EXCEPT ![t] = IF outcome = "accepted" THEN s ELSE @]
  /\ UNCHANGED <<registry, terms, assigned_agent_id, submissions, money>>

\* review_outcome keeps what the last finalised review left, "pending" if none.
approve_submission(sender, t, s) ==
  /\ _require_creator(sender, t)
  /\ _require_submission(t, s)
  /\ state[t] \in {"SUBMITTED", "UNDER_REVIEW"}
  /\ SetState(t, "APPROVED")
  /\ settled_submission_id' = [settled_submission_id EXCEPT ![t] = s]
  /\ UNCHANGED <<registry, terms, assigned_agent_id, review, submissions, money>>

reject_submission(sender, t, s) ==
  /\ _require_creator(sender, t)
  /\ _require_submission(t, s)
  /\ state[t] \in {"SUBMITTED", "UNDER_REVIEW"}
  /\ SetState(t, "REJECTED")
  /\ UNCHANGED <<registry, terms, work, review, submissions, money>>

\* Anybody may dispute.
dispute_task(t) ==
  /\ state[t] \in {"SUBMITTED", "UNDER_REVIEW", "REJECTED"}
  /\ SetState(t, "DISPUTED")
  /\ dispute_paused' = [dispute_paused EXCEPT ![t] = TRUE]
  /\ UNCHANGED <<registry, terms, work, review_outcome, consensus, submissions, money>>

appeal_task(sender, t) ==
  /\ _require_creator(sender, t)
  /\ state[t] \in {"DISPUTED", "REJECTED", "UNRESOLVED"}
  /\ SetState(t, "APPEALED")
  /\ dispute_paused' = [dispute_paused EXCEPT ![t] = TRUE]
  /\ UNCHANGED <<registry, terms, work, review_outcome, consensus, submissions, money>>

\* Anybody may settle.  A payout of nothing is not transferred.
settle_task(t) ==
  LET fee == Fee(escrow_locked[t])
      payout == escrow_locked[t] - fee
  IN
  /\ state[t] = "APPROVED"
  /\ review_outcome[t] = "accepted"
  /\ toTreasury' = [toTreasury EXCEPT ![t] = @ + fee]
  /\ toAgent' = [toAgent EXCEPT ![t] = @ + payout]
  /\ payee' = [payee EXCEPT ![t] = IF payout > 0 THEN submitter[settled_submission_id[t]] ELSE @]
  /\ SetState(t, "SETTLED")
  /\ UNCHANGED <<registry, terms, work, review, submissions, escrow_locked, deposited, toCreator>>

cancel_task(sender, t) ==
  /\ _require_creator(sender, t)
  /\ state[t] \in {"CREATED", "OPEN"}
  /\ SetState(t, "CANCELLED")
  /\ UNCHANGED <<registry, terms, work, review, submissions, money>>

\* Faulty variant of refund_task: the transfer is made and the record of the
\* closed task is not saved.
RefundWithoutClosing(sender, t) ==
  /\ _require_creator(sender, t)
  /\ state[t] \in {"REJECTED", "CANCELLED"}
  /\ toCreator' = [toCreator EXCEPT ![t] = @ + escrow_locked[t]]
  /\ UNCHANGED <<registry, terms, state, work, review, submissions, escrow_locked, deposited,
                 toAgent, toTreasury, payee>>

\* A task cancelled before it was funded is refunded nothing.
refund_task(sender, t) ==
  /\ _require_creator(sender, t)
  /\ state[t] \in {"REJECTED", "CANCELLED"}
  /\ toCreator' = [toCreator EXCEPT ![t] = @ + escrow_locked[t]]
  /\ SetState(t, "REFUNDED")
  /\ UNCHANGED <<registry, terms, work, review, submissions, escrow_locked, deposited,
                 toAgent, toTreasury, payee>>

-----------------------------------------------------------------------------

CreatorNext(sender, t) ==
  \/ \E amount \in Rewards, mode \in Modes : create_task(sender, t, amount, mode)
  \/ fund_task(sender, t)
  \/ \E a \in Agents : assign_task(sender, t, a)
  \/ start_review(sender, t)
  \/ appeal_task(sender, t)
  \/ cancel_task(sender, t)
  \/ refund_task(sender, t)

VerdictNext(sender, t, s) ==
  \/ \E requested \in Outcomes, e \in Evidence : finalize_review(sender, t, s, requested, e)
  \/ approve_submission(sender, t, s)
  \/ reject_submission(sender, t, s)

AgentNext(sender, a) ==
  \/ register_agent(sender, a)
  \/ disable_agent(sender, a)
  \/ \E t \in Tasks : start_execution(sender, t, a)
  \/ \E t \in Tasks, s \in SubmissionIds : submit_task(sender, t, s, a)

Next ==
  \/ \E sender \in Accounts, t \in Tasks : CreatorNext(sender, t)
  \/ \E sender \in Accounts, t \in Tasks, s \in SubmissionIds : VerdictNext(sender, t, s)
  \/ \E sender \in Accounts, a \in Agents : AgentNext(sender, a)
  \/ \E t \in Tasks : dispute_task(t) \/ settle_task(t)

Spec == Init /\ [][Next]_vars

-----------------------------------------------------------------------------
(* Properties. *)

\* Every variable has its type.
TypeOK ==
  /\ agentOwner \in [Agents -> Accounts \cup {NoAccount}]
  /\ agentActive \in [Agents -> BOOLEAN]
  /\ creator \in [Tasks -> Accounts \cup {NoAccount}]
  /\ reward \in [Tasks -> Rewards \cup {0}]
  /\ task_mode \in [Tasks -> Modes \cup {"NONE"}]
  /\ state \in [Tasks -> TaskState]
  /\ assigned_agent_id \in [Tasks -> Agents \cup {NoAgent}]
  /\ escrow_locked \in [Tasks -> Nat]
  /\ dispute_paused \in [Tasks -> BOOLEAN]
  /\ settled_submission_id \in [Tasks -> SubmissionIds \cup {NoSubmission}]
  /\ review_outcome \in [Tasks -> Outcomes \cup {"pending"}]
  /\ consensus \in [Tasks -> Evidence \cup {NoEvidence}]
  /\ submission_ids \in [Tasks -> SUBSET SubmissionIds]
  /\ submissionTask \in [SubmissionIds -> Tasks \cup {NoTask}]
  /\ submitter \in [SubmissionIds -> Accounts \cup {NoAccount}]
  /\ deposited \in [Tasks -> Nat]
  /\ toAgent \in [Tasks -> Nat]
  /\ toTreasury \in [Tasks -> Nat]
  /\ toCreator \in [Tasks -> Nat]
  /\ payee \in [Tasks -> Accounts \cup {NoAccount}]

\* The reward of a task, tied to its lifecycle state: as the lock is never
\* released, the states alone say whether the reward is still there.
TaskMoneyInv(t) ==
  /\ deposited[t] = escrow_locked[t]
  /\ creator[t] # NoAccount => reward[t] > 0
  /\ state[t] # "NONE" => creator[t] # NoAccount
  /\ escrow_locked[t] \in {0, reward[t]}
  /\ state[t] \in {"NONE", "CREATED"} => deposited[t] = 0
  /\ state[t] \notin {"NONE", "CREATED", "CANCELLED", "REFUNDED"} => deposited[t] > 0
  /\ toAgent[t] + toTreasury[t] = (IF state[t] = "SETTLED" THEN deposited[t] ELSE 0)
  /\ toCreator[t] = (IF state[t] = "REFUNDED" THEN deposited[t] ELSE 0)

\* The verdict of a task, tied to its state: a contested task is paused, an
\* accepted one rests on equivalent evidence, an approved one names a result
\* that somebody submitted and is paid for.
TaskReviewInv(t) ==
  /\ dispute_paused[t] <=> state[t] \in {"DISPUTED", "APPEALED", "UNRESOLVED"}
  /\ review_outcome[t] = "accepted" =>
       /\ consensus[t] \in Evidence /\ Equivalent(consensus[t])
       /\ state[t] \in {"APPROVED", "SETTLED"}
  /\ state[t] = "SETTLED" => review_outcome[t] = "accepted"
  /\ state[t] \in {"APPROVED", "SETTLED"} => settled_submission_id[t] \in SubmissionIds
  /\ settled_submission_id[t] \in SubmissionIds =>
       submitter[settled_submission_id[t]] \in Accounts
  /\ toAgent[t] > 0 => payee[t] \in Accounts

\* The inductive invariant of the contract.
EscrowInv ==
  /\ \A t \in Tasks : TaskMoneyInv(t) /\ TaskReviewInv(t)
  /\ \A s \in SubmissionIds : submissionTask[s] # NoTask => submitter[s] \in Accounts

\* The gate of finalize_review holds on every way to the money, also through
\* approvals, rejections, disputes and appeals in between: what was paid for was
\* reported with scores good enough for a completed task, is not under dispute,
\* and the money went to somebody who submitted a result.
PaidIsEquivalent ==
  \A t \in Tasks : toAgent[t] + toTreasury[t] > 0 =>
    /\ consensus[t] \in Evidence /\ Equivalent(consensus[t])
    /\ ~dispute_paused[t]
    /\ toAgent[t] > 0 => payee[t] \in Accounts

\* "Approve a specific submission so the task can be settled"
\* (approve_submission): whatever is approved may be settled.
ApprovedCanSettle ==
  \A t \in Tasks : state[t] = "APPROVED" => ENABLED settle_task(t)

\* The payout goes to the owner of the agent the task was assigned to.
PayeeOwnsAssignedAgent ==
  \A t \in Tasks : payee[t] # NoAccount =>
    /\ assigned_agent_id[t] \in Agents
    /\ payee[t] = agentOwner[assigned_agent_id[t]]

-----------------------------------------------------------------------------
(* The contract implements the escrow's promise. *)

phase ==
  [t \in Tasks |->
     IF deposited[t] = 0 THEN "empty"
     ELSE IF state[t] = "SETTLED" THEN "paid"
     ELSE IF state[t] = "REFUNDED" THEN "refunded" ELSE "held"]

Promise == INSTANCE EscrowPromise

\* Seen through `phase', the contract's calls are deposits, payouts and
\* refunds of the abstract escrow, although nothing ever clears the lock.
ImplementsPromise == Promise!Spec
=============================================================================
