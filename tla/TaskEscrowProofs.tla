-------------------------- MODULE TaskEscrowProofs --------------------------
(***************************************************************************)
(* Proofs about TaskEscrow for every set of tasks, agents, accounts,       *)
(* submissions and evidence, every reward and every fee up to 100%.        *)
(***************************************************************************)
EXTENDS TaskEscrow, TLAPS

\* The fee of a whole amount is whole and never exceeds it.
LEMMA FeeBounds ==
  ASSUME NEW amount \in Nat
  PROVE  Fee(amount) \in Nat /\ Fee(amount) <= amount /\ amount - Fee(amount) \in Nat
<1>1. ProtocolFeeBps \in Nat /\ ProtocolFeeBps <= 10000
  BY EscrowConstants
<1>2. amount * ProtocolFeeBps \in Nat /\ amount * ProtocolFeeBps <= amount * 10000
  BY <1>1, Z3
<1>3. \A n \in Nat : n <= amount * 10000 => n \div 10000 \in Nat /\ n \div 10000 <= amount
  BY Z3
<1>4. Fee(amount) \in Nat /\ Fee(amount) <= amount
  BY <1>2, <1>3 DEF Fee
<1> QED
  BY <1>4

\* Rewards, and the zero of a task that does not exist, are whole.
LEMMA RewardIsNat ==
  ASSUME TypeOK, NEW t \in Tasks
  PROVE  reward[t] \in Nat /\ deposited[t] + reward[t] \in Nat
<1>1. reward[t] \in Rewards \cup {0} /\ deposited[t] \in Nat
  BY DEF TypeOK
<1>2. \A r \in Rewards : r \in Nat
  BY EscrowConstants
<1>3. reward[t] \in Nat
  BY <1>1, <1>2
<1> QED
  BY <1>1, <1>3

\* A verdict that is recorded is one of the four, and "accepted" needs
\* equivalent evidence.
LEMMA CoercedOutcome ==
  ASSUME NEW requested \in Outcomes, NEW e \in Evidence
  PROVE  /\ _coerce_review_outcome(requested, e) \in Outcomes
         /\ _coerce_review_outcome(requested, e) = "accepted" => Equivalent(e)
  BY DEF _coerce_review_outcome, Outcomes

\* Every call keeps every variable in its type; that a payout reaches an
\* account needs the invariant.
LEMMA TypeStep ==
  ASSUME TypeOK, EscrowInv, [Next]_vars
  PROVE  TypeOK'
<1> Rewards \subseteq Nat
  BY EscrowConstants
<1> USE DEF TypeOK, TaskState, Modes, Outcomes, SetState, registry, terms, review,
            submissions, paid, money, work
<1>1. CASE UNCHANGED vars
  BY <1>1 DEF vars
<1>2. ASSUME NEW sender \in Accounts, NEW t \in Tasks, CreatorNext(sender, t) PROVE TypeOK'
  <2>1. ASSUME NEW amount \in Rewards, NEW mode \in Modes, create_task(sender, t, amount, mode)
        PROVE TypeOK'
    BY <2>1 DEF create_task
  <2>2. CASE fund_task(sender, t)
    <3>1. reward[t] \in Nat /\ deposited[t] + reward[t] \in Nat
      BY RewardIsNat
    <3>2. deposited' \in [Tasks -> Nat] /\ escrow_locked' \in [Tasks -> Nat]
      BY <2>2, <3>1 DEF fund_task
    <3> QED
      BY <2>2, <3>2 DEF fund_task
  <2>3. ASSUME NEW a \in Agents, assign_task(sender, t, a) PROVE TypeOK'
    BY <2>3 DEF assign_task
  <2>4. CASE start_review(sender, t) \/ appeal_task(sender, t) \/ cancel_task(sender, t)
    <3>1. CASE start_review(sender, t)  BY <3>1 DEF start_review
    <3>2. CASE appeal_task(sender, t)   BY <3>2 DEF appeal_task
    <3>3. CASE cancel_task(sender, t)   BY <3>3 DEF cancel_task
    <3> QED BY <2>4, <3>1, <3>2, <3>3
  <2>5. CASE refund_task(sender, t)
    BY <2>5 DEF refund_task
  <2> QED
    BY <1>2, <2>1, <2>2, <2>3, <2>4, <2>5 DEF CreatorNext
<1>3. ASSUME NEW sender \in Accounts, NEW t \in Tasks, NEW s \in SubmissionIds,
             VerdictNext(sender, t, s)
      PROVE TypeOK'
  <2>1. ASSUME NEW requested \in Outcomes, NEW e \in Evidence,
               finalize_review(sender, t, s, requested, e)
        PROVE TypeOK'
    <3> DEFINE outcome == _coerce_review_outcome(requested, e)
    <3>1. outcome \in Outcomes
      BY CoercedOutcome
    <3>2. /\ review_outcome' = [review_outcome EXCEPT ![t] = outcome]
          /\ consensus' = [consensus EXCEPT ![t] = e]
          /\ dispute_paused' =
               [dispute_paused EXCEPT ![t] = outcome \in {"disputed", "unresolved"}]
          /\ state' = [state EXCEPT ![t] = ReviewState[outcome]]
          /\ settled_submission_id' =
               [settled_submission_id EXCEPT ![t] = IF outcome = "accepted" THEN s ELSE @]
          /\ UNCHANGED <<registry, terms, assigned_agent_id, submissions, money>>
      BY <2>1 DEF finalize_review
    <3> HIDE DEF outcome
    <3>3. ReviewState[outcome] \in TaskState
      BY <3>1 DEF ReviewState
    <3> QED
      BY <3>1, <3>2, <3>3
  <2>2. CASE approve_submission(sender, t, s) \/ reject_submission(sender, t, s)
    BY <2>2 DEF approve_submission, reject_submission
  <2> QED
    BY <1>3, <2>1, <2>2 DEF VerdictNext
<1>4. ASSUME NEW sender \in Accounts, NEW a \in Agents, AgentNext(sender, a) PROVE TypeOK'
  <2>1. CASE register_agent(sender, a) \/ disable_agent(sender, a)
    BY <2>1, ZenonT(60) DEF register_agent, disable_agent
  <2>2. ASSUME NEW t \in Tasks, start_execution(sender, t, a) PROVE TypeOK'
    BY <2>2 DEF start_execution
  <2>3. ASSUME NEW t \in Tasks, NEW s \in SubmissionIds, submit_task(sender, t, s, a)
        PROVE TypeOK'
    BY <2>3 DEF submit_task
  <2> QED
    BY <1>4, <2>1, <2>2, <2>3 DEF AgentNext
<1>5. ASSUME NEW t \in Tasks, dispute_task(t) PROVE TypeOK'
  BY <1>5 DEF dispute_task
<1>6. ASSUME NEW t \in Tasks, settle_task(t) PROVE TypeOK'
  <2> DEFINE fee == Fee(escrow_locked[t])
             payout == escrow_locked[t] - fee
  <2>1. fee \in Nat /\ payout \in Nat
    BY FeeBounds
  <2>2. /\ toTreasury' = [toTreasury EXCEPT ![t] = @ + fee]
        /\ toAgent' = [toAgent EXCEPT ![t] = @ + payout]
        /\ UNCHANGED <<registry, terms, work, review, submissions, escrow_locked, deposited,
                       toCreator>>
        /\ state' = [state EXCEPT ![t] = "SETTLED"]
        /\ payee' = [payee EXCEPT ![t] =
                       IF payout > 0 THEN submitter[settled_submission_id[t]] ELSE @]
    BY <1>6 DEF settle_task
  <2> HIDE DEF fee, payout
  <2>3. toTreasury' \in [Tasks -> Nat] /\ toAgent' \in [Tasks -> Nat]
    BY <2>1, <2>2
  <2>4. payee' \in [Tasks -> Accounts \cup {NoAccount}]
    <3>1. settled_submission_id[t] \in SubmissionIds
      BY <1>6 DEF settle_task, EscrowInv, TaskReviewInv
    <3> QED
      BY <2>2, <3>1
  <2> QED
    BY <2>2, <2>3, <2>4
<1> QED
  BY <1>1, <1>2, <1>3, <1>4, <1>5, <1>6 DEF Next

\* The calls that move a task along its lifecycle without touching its terms
\* or its money: none of them leaves or enters a state that decides about it.
Progress(t) ==
  \/ \E sender \in Accounts :
       \/ \E a \in Agents : assign_task(sender, t, a) \/ start_execution(sender, t, a)
       \/ \E a \in Agents, s \in SubmissionIds : submit_task(sender, t, s, a)
       \/ \E s \in SubmissionIds : VerdictNext(sender, t, s)
       \/ start_review(sender, t) \/ appeal_task(sender, t) \/ cancel_task(sender, t)
  \/ dispute_task(t)

Working == {"OPEN", "ASSIGNED", "EXECUTING", "SUBMITTED", "UNDER_REVIEW", "APPROVED",
            "REJECTED", "DISPUTED", "APPEALED", "UNRESOLVED"}

LEMMA ProgressEffect ==
  ASSUME TypeOK, NEW t \in Tasks, Progress(t)
  PROVE  /\ UNCHANGED <<terms, money>>
         /\ \/ state[t] \in Working /\ \E s \in Working : state' = [state EXCEPT ![t] = s]
            \/ /\ state[t] \in {"CREATED", "OPEN"}
               /\ state' = [state EXCEPT ![t] = "CANCELLED"]
<1> USE DEF Working, SetState
<1>1. ASSUME NEW sender \in Accounts, NEW a \in Agents,
             assign_task(sender, t, a) \/ start_execution(sender, t, a)
      PROVE  UNCHANGED <<terms, money>> /\ state[t] \in Working
             /\ \E s \in Working : state' = [state EXCEPT ![t] = s]
  BY <1>1 DEF assign_task, start_execution
<1>2. ASSUME NEW sender \in Accounts, NEW a \in Agents, NEW s \in SubmissionIds,
             submit_task(sender, t, s, a)
      PROVE  UNCHANGED <<terms, money>> /\ state[t] \in Working
             /\ \E u \in Working : state' = [state EXCEPT ![t] = u]
  BY <1>2 DEF submit_task
<1>3. ASSUME NEW sender \in Accounts, NEW s \in SubmissionIds, VerdictNext(sender, t, s)
      PROVE  UNCHANGED <<terms, money>> /\ state[t] \in Working
             /\ \E u \in Working : state' = [state EXCEPT ![t] = u]
  <2>1. ASSUME NEW requested \in Outcomes, NEW e \in Evidence,
               finalize_review(sender, t, s, requested, e)
        PROVE  UNCHANGED <<terms, money>> /\ state[t] \in Working
               /\ \E u \in Working : state' = [state EXCEPT ![t] = u]
    <3>1. _coerce_review_outcome(requested, e) \in Outcomes
      BY CoercedOutcome
    <3>2. ReviewState[_coerce_review_outcome(requested, e)] \in Working
      BY <3>1 DEF ReviewState, Outcomes
    <3> QED
      BY <2>1, <3>2 DEF finalize_review
  <2> QED
    BY <1>3, <2>1 DEF VerdictNext, approve_submission, reject_submission
<1>4. ASSUME NEW sender \in Accounts,
             start_review(sender, t) \/ appeal_task(sender, t) \/ dispute_task(t)
      PROVE  UNCHANGED <<terms, money>> /\ state[t] \in Working
             /\ \E u \in Working : state' = [state EXCEPT ![t] = u]
  BY <1>4 DEF start_review, appeal_task, dispute_task
<1>5. CASE dispute_task(t)
  BY <1>5 DEF dispute_task
<1>6. ASSUME NEW sender \in Accounts, cancel_task(sender, t)
      PROVE  /\ UNCHANGED <<terms, money>> /\ state[t] \in {"CREATED", "OPEN"}
             /\ state' = [state EXCEPT ![t] = "CANCELLED"]
  BY <1>6 DEF cancel_task
<1> QED
  BY <1>1, <1>2, <1>3, <1>4, <1>5, <1>6 DEF Progress

\* Every step is one of the calls that decide about money or terms, progress,
\* or a step of the registry.
LEMMA StepCases ==
  ASSUME [Next]_vars
  PROVE  \/ \E sender \in Accounts, t \in Tasks :
              \/ \E amount \in Rewards, mode \in Modes : create_task(sender, t, amount, mode)
              \/ fund_task(sender, t)
              \/ refund_task(sender, t)
         \/ \E t \in Tasks : settle_task(t) \/ Progress(t)
         \/ \E sender \in Accounts, a \in Agents :
              register_agent(sender, a) \/ disable_agent(sender, a)
         \/ UNCHANGED vars
  BY DEF Next, CreatorNext, AgentNext, Progress

\* The money of a task stays tied to its state.
LEMMA MoneyStep ==
  ASSUME TypeOK, EscrowInv, [Next]_vars, NEW x \in Tasks
  PROVE  TaskMoneyInv(x)'
<1> Rewards \subseteq Nat \ {0}
  BY EscrowConstants
<1> TaskMoneyInv(x)
  BY DEF EscrowInv
<1> USE DEF TypeOK, TaskMoneyInv, SetState, terms, money, paid
<1>1. ASSUME NEW sender \in Accounts, NEW t \in Tasks, NEW amount \in Rewards, NEW mode \in Modes,
             create_task(sender, t, amount, mode)
      PROVE  TaskMoneyInv(x)'
  BY <1>1, EscrowConstants DEF create_task
<1>2. ASSUME NEW sender \in Accounts, NEW t \in Tasks, fund_task(sender, t)
      PROVE  TaskMoneyInv(x)'
  <2>1. CASE x # t
    BY <1>2, <2>1 DEF fund_task
  <2>2. CASE x = t
    <3>1. deposited[x] = 0 /\ creator[x] # NoAccount /\ reward[x] \in Nat /\ reward[x] > 0
      BY <1>2, <2>2 DEF fund_task
    <3>2. /\ deposited'[x] = reward[x] /\ escrow_locked'[x] = reward[x] /\ state'[x] = "OPEN"
          /\ UNCHANGED <<terms, toAgent, toTreasury, toCreator>>
      BY <1>2, <2>2, <3>1 DEF fund_task
    <3>3. state[x] = "CREATED"
      BY <1>2, <2>2 DEF fund_task
    <3>4. toAgent[x] + toTreasury[x] = 0 /\ toCreator[x] = 0
      BY <3>3
    <3> QED
      BY <3>1, <3>2, <3>4
  <2> QED
    BY <2>1, <2>2
<1>3. ASSUME NEW sender \in Accounts, NEW t \in Tasks, refund_task(sender, t)
      PROVE  TaskMoneyInv(x)'
  <2>1. CASE x # t
    BY <1>3, <2>1 DEF refund_task
  <2>2. CASE x = t
    <3>1. toCreator[x] = 0 /\ toAgent[x] + toTreasury[x] = 0
      BY <1>3, <2>2 DEF refund_task
    <3>2. /\ toCreator' = [toCreator EXCEPT ![x] = @ + escrow_locked[x]]
          /\ state' = [state EXCEPT ![x] = "REFUNDED"]
          /\ state[x] \in {"REJECTED", "CANCELLED"}
          /\ UNCHANGED <<terms, escrow_locked, deposited, toAgent, toTreasury>>
      BY <1>3, <2>2 DEF refund_task
    <3>3. toCreator'[x] = deposited[x]
      BY <3>1, <3>2
    <3> QED
      BY <3>1, <3>2, <3>3
  <2> QED
    BY <2>1, <2>2
<1>4. ASSUME NEW t \in Tasks, settle_task(t)
      PROVE  TaskMoneyInv(x)'
  <2> DEFINE fee == Fee(escrow_locked[t])
  <2>1. fee \in Nat /\ escrow_locked[t] - fee \in Nat
    BY FeeBounds
  <2>2. /\ toTreasury' = [toTreasury EXCEPT ![t] = @ + fee]
        /\ toAgent' = [toAgent EXCEPT ![t] = @ + (escrow_locked[t] - fee)]
        /\ state' = [state EXCEPT ![t] = "SETTLED"]
        /\ state[t] = "APPROVED"
        /\ UNCHANGED <<terms, escrow_locked, deposited, toCreator>>
    BY <1>4 DEF settle_task
  <2> HIDE DEF fee
  <2>3. CASE x # t
    BY <2>2, <2>3
  <2>4. CASE x = t
    <3>1. /\ toAgent[x] \in Nat /\ toTreasury[x] \in Nat /\ toAgent[x] + toTreasury[x] = 0
          /\ toCreator[x] = 0 /\ deposited[x] > 0
      BY <2>2, <2>4
    <3>2. toTreasury'[x] = fee /\ toAgent'[x] = escrow_locked[x] - fee
      BY <2>1, <2>2, <2>4, <3>1
    <3>3. toAgent'[x] + toTreasury'[x] = deposited'[x]
      BY <2>1, <2>2, <2>4, <3>2
    <3> QED
      BY <2>2, <2>4, <3>1, <3>3
  <2> QED
    BY <2>3, <2>4
<1>5. ASSUME NEW t \in Tasks, Progress(t)
      PROVE  TaskMoneyInv(x)'
  BY <1>5, ProgressEffect DEF Working
<1>6. ASSUME NEW sender \in Accounts, NEW a \in Agents,
             register_agent(sender, a) \/ disable_agent(sender, a)
      PROVE  TaskMoneyInv(x)'
  BY <1>6 DEF register_agent, disable_agent
<1>7. CASE UNCHANGED vars
  BY <1>7 DEF vars
<1> QED
  BY <1>1, <1>2, <1>3, <1>4, <1>5, <1>6, <1>7, StepCases

\* A submission that is recorded was sent by an account, and keeps one.
LEMMA SubmitterStep ==
  ASSUME TypeOK, EscrowInv, [Next]_vars, NEW s \in SubmissionIds
  PROVE  /\ submissionTask'[s] # NoTask => submitter'[s] \in Accounts
         /\ submitter[s] \in Accounts => submitter'[s] \in Accounts
<1> submissionTask[s] # NoTask => submitter[s] \in Accounts
  BY DEF EscrowInv
<1>1. ASSUME NEW sender \in Accounts, NEW t \in Tasks, NEW a \in Agents, NEW u \in SubmissionIds,
             submit_task(sender, t, u, a)
      PROVE  /\ submissionTask'[s] # NoTask => submitter'[s] \in Accounts
             /\ submitter[s] \in Accounts => submitter'[s] \in Accounts
  BY <1>1 DEF submit_task, TypeOK
<1>2. CASE UNCHANGED submissions
  BY <1>2 DEF submissions
<1> QED
  BY <1>1, <1>2 DEF Next, vars, CreatorNext, VerdictNext, AgentNext, create_task, fund_task,
     assign_task, start_review, appeal_task, cancel_task, refund_task, finalize_review,
     approve_submission, reject_submission, register_agent, disable_agent, start_execution,
     dispute_task, settle_task

\* The verdict of a task stays tied to its state.
LEMMA ReviewStep ==
  ASSUME TypeOK, EscrowInv, [Next]_vars, NEW x \in Tasks
  PROVE  TaskReviewInv(x)'
<1> TaskReviewInv(x)
  BY DEF EscrowInv
<1>0. \A s \in SubmissionIds :
        /\ submissionTask[s] # NoTask => submitter[s] \in Accounts
        /\ submitter[s] \in Accounts => submitter'[s] \in Accounts
  BY SubmitterStep DEF EscrowInv
<1> USE DEF TypeOK, TaskReviewInv, SetState, review, work, money, paid
<1>1. ASSUME NEW sender \in Accounts, NEW t \in Tasks, CreatorNext(sender, t)
      PROVE  TaskReviewInv(x)'
  <2>1. ASSUME NEW amount \in Rewards, NEW mode \in Modes, create_task(sender, t, amount, mode)
        PROVE  TaskReviewInv(x)'
    <3>1. CASE x # t
      BY <1>0, <2>1, <3>1 DEF create_task
    <3>2. CASE x = t
      <4>1. state[x] = "NONE"
        BY <2>1, <3>2 DEF create_task, EscrowInv, TaskMoneyInv
      <4> QED
        BY <1>0, <2>1, <3>2, <4>1 DEF create_task
    <3> QED
      BY <3>1, <3>2
  <2>2. CASE fund_task(sender, t)
    BY <1>0, <2>2 DEF fund_task
  <2>3. ASSUME NEW a \in Agents, assign_task(sender, t, a)
        PROVE  TaskReviewInv(x)'
    BY <1>0, <2>3 DEF assign_task
  <2>4. CASE start_review(sender, t)
    BY <1>0, <2>4 DEF start_review
  <2>5. CASE appeal_task(sender, t)
    BY <1>0, <2>5 DEF appeal_task
  <2>6. CASE cancel_task(sender, t)
    BY <1>0, <2>6 DEF cancel_task
  <2>7. CASE refund_task(sender, t)
    BY <1>0, <2>7 DEF refund_task
  <2> QED
    BY <1>1, <2>1, <2>2, <2>3, <2>4, <2>5, <2>6, <2>7 DEF CreatorNext
<1>2. ASSUME NEW sender \in Accounts, NEW t \in Tasks, NEW s \in SubmissionIds,
             VerdictNext(sender, t, s)
      PROVE  TaskReviewInv(x)'
  <2>0. _require_submission(t, s) => submitter[s] \in Accounts /\ submitter'[s] \in Accounts
    BY <1>0, EscrowConstants DEF _require_submission
  <2>1. ASSUME NEW requested \in Outcomes, NEW e \in Evidence,
               finalize_review(sender, t, s, requested, e)
        PROVE  TaskReviewInv(x)'
    <3> DEFINE outcome == _coerce_review_outcome(requested, e)
    <3>1. outcome \in Outcomes /\ (outcome = "accepted" => Equivalent(e))
      BY CoercedOutcome
    <3>2. /\ review_outcome' = [review_outcome EXCEPT ![t] = outcome]
          /\ consensus' = [consensus EXCEPT ![t] = e]
          /\ dispute_paused' =
               [dispute_paused EXCEPT ![t] = outcome \in {"disputed", "unresolved"}]
          /\ state' = [state EXCEPT ![t] = ReviewState[outcome]]
          /\ settled_submission_id' =
               [settled_submission_id EXCEPT ![t] = IF outcome = "accepted" THEN s ELSE @]
          /\ _require_submission(t, s)
          /\ UNCHANGED money
      BY <2>1 DEF finalize_review
    <3> HIDE DEF outcome
    <3>3. CASE x # t
      BY <1>0, <3>2, <3>3
    <3>4. CASE x = t
      <4>1. /\ outcome = "accepted" => state'[x] = "APPROVED" /\ settled_submission_id'[x] = s
            /\ outcome = "rejected" => state'[x] = "REJECTED"
            /\ outcome = "disputed" => state'[x] = "DISPUTED"
            /\ outcome = "unresolved" => state'[x] = "UNRESOLVED"
            /\ outcome # "accepted" => settled_submission_id'[x] = settled_submission_id[x]
        BY <3>2, <3>4 DEF ReviewState
      <4>2. outcome \in {"accepted", "rejected", "disputed", "unresolved"}
        BY <3>1 DEF Outcomes
      <4>3. dispute_paused'[x] <=> state'[x] \in {"DISPUTED", "APPEALED", "UNRESOLVED"}
        BY <3>2, <3>4, <4>1, <4>2
      <4>4. review_outcome'[x] = outcome /\ consensus'[x] = e
        BY <3>2, <3>4
      <4>5. settled_submission_id'[x] \in SubmissionIds =>
              submitter'[settled_submission_id'[x]] \in Accounts
        BY <1>0, <2>0, <3>2, <4>1
      <4>6. toAgent'[x] > 0 => payee'[x] \in Accounts
        BY <3>2
      <4>7. state'[x] # "SETTLED"
        BY <4>1, <4>2
      <4> QED
        BY <3>1, <4>1, <4>2, <4>3, <4>4, <4>5, <4>6, <4>7 DEF Equivalent
    <3> QED
      BY <3>3, <3>4
  <2>2. CASE approve_submission(sender, t, s)
    BY <1>0, <2>0, <2>2 DEF approve_submission
  <2>3. CASE reject_submission(sender, t, s)
    BY <1>0, <2>3 DEF reject_submission
  <2> QED
    BY <1>2, <2>1, <2>2, <2>3 DEF VerdictNext
<1>3. ASSUME NEW sender \in Accounts, NEW a \in Agents, AgentNext(sender, a)
      PROVE  TaskReviewInv(x)'
  <2>1. CASE register_agent(sender, a) \/ disable_agent(sender, a)
    BY <1>0, <2>1 DEF register_agent, disable_agent
  <2>2. ASSUME NEW t \in Tasks, start_execution(sender, t, a)
        PROVE  TaskReviewInv(x)'
    BY <1>0, <2>2 DEF start_execution
  <2>3. ASSUME NEW t \in Tasks, NEW s \in SubmissionIds, submit_task(sender, t, s, a)
        PROVE  TaskReviewInv(x)'
    BY <1>0, <2>3 DEF submit_task
  <2> QED
    BY <1>3, <2>1, <2>2, <2>3 DEF AgentNext
<1>4. ASSUME NEW t \in Tasks, dispute_task(t)
      PROVE  TaskReviewInv(x)'
  BY <1>0, <1>4 DEF dispute_task
<1>5. ASSUME NEW t \in Tasks, settle_task(t)
      PROVE  TaskReviewInv(x)'
  <2> DEFINE fee == Fee(escrow_locked[t])
             payout == escrow_locked[t] - fee
  <2>1. payout \in Nat
    BY FeeBounds
  <2>2. /\ state[t] = "APPROVED" /\ review_outcome[t] = "accepted"
        /\ state' = [state EXCEPT ![t] = "SETTLED"]
        /\ toAgent' = [toAgent EXCEPT ![t] = @ + payout]
        /\ payee' = [payee EXCEPT ![t] =
                       IF payout > 0 THEN submitter[settled_submission_id[t]] ELSE @]
        /\ UNCHANGED <<work, review, submissions>>
    BY <1>5 DEF settle_task
  <2> HIDE DEF fee, payout
  <2>3. CASE x # t
    BY <1>0, <2>2, <2>3 DEF submissions
  <2>4. CASE x = t
    <3>1. submitter[settled_submission_id[x]] \in Accounts
      BY <2>2, <2>4
    <3>2. toAgent'[x] > 0 => payee'[x] \in Accounts
      BY <2>1, <2>2, <2>4, <3>1
    <3> QED
      BY <2>2, <2>4, <3>1, <3>2 DEF submissions
  <2> QED
    BY <2>3, <2>4
<1>6. CASE UNCHANGED vars
  BY <1>0, <1>6 DEF vars, submissions
<1> QED
  BY <1>1, <1>2, <1>3, <1>4, <1>5, <1>6 DEF Next

\* Types and the invariant are preserved together by every call of every
\* account, whatever the evidence.
THEOREM EscrowInvariant == Spec => [](TypeOK /\ EscrowInv)
<1>1. Init => TypeOK /\ EscrowInv
  BY EscrowConstants DEF Init, TypeOK, EscrowInv, TaskMoneyInv, TaskReviewInv, TaskState, Modes,
     Outcomes
<1>2. TypeOK /\ EscrowInv /\ [Next]_vars => TypeOK' /\ EscrowInv'
  <2> SUFFICES ASSUME TypeOK, EscrowInv, [Next]_vars PROVE EscrowInv'
    BY TypeStep
  <2>1. \A x \in Tasks : TaskMoneyInv(x)' /\ TaskReviewInv(x)'
    BY MoneyStep, ReviewStep
  <2>2. \A s \in SubmissionIds : submissionTask'[s] # NoTask => submitter'[s] \in Accounts
    BY SubmitterStep
  <2> QED
    BY <2>1, <2>2 DEF EscrowInv
<1> QED
  BY <1>1, <1>2, PTL DEF Spec

\* Every reachable state has its types.
THEOREM EscrowTypeCorrect == Spec => []TypeOK
BY EscrowInvariant, PTL

\* Money is paid for equivalent, uncontested, submitted work only.
THEOREM PaymentSafety == Spec => []PaidIsEquivalent
<1>1. TypeOK /\ EscrowInv => PaidIsEquivalent
  <2> SUFFICES ASSUME TypeOK, EscrowInv, NEW t \in Tasks, toAgent[t] + toTreasury[t] > 0
               PROVE  /\ consensus[t] \in Evidence /\ Equivalent(consensus[t])
                      /\ ~dispute_paused[t]
                      /\ toAgent[t] > 0 => payee[t] \in Accounts
    BY DEF PaidIsEquivalent
  <2>1. state[t] = "SETTLED"
    BY DEF EscrowInv, TaskMoneyInv
  <2> QED
    BY <2>1 DEF EscrowInv, TaskReviewInv
<1> QED
  BY <1>1, EscrowInvariant, PTL

\* Where the money of a task is, by its state and what was deposited.
LEMMA PhaseOf ==
  ASSUME NEW t \in Tasks
  PROVE  /\ phase[t] = IF deposited[t] = 0 THEN "empty"
                      ELSE IF state[t] = "SETTLED" THEN "paid"
                      ELSE IF state[t] = "REFUNDED" THEN "refunded" ELSE "held"
         /\ phase'[t] = IF deposited'[t] = 0 THEN "empty"
                       ELSE IF state'[t] = "SETTLED" THEN "paid"
                       ELSE IF state'[t] = "REFUNDED" THEN "refunded" ELSE "held"
  BY DEF phase

\* A call for one task leaves the phase of the others.
LEMMA PhaseUpdate ==
  ASSUME NEW t \in Tasks, NEW p, phase'[t] = p,
         \A u \in Tasks \ {t} : deposited'[u] = deposited[u] /\ state'[u] = state[u]
  PROVE  phase' = [phase EXCEPT ![t] = p]
<1>1. \A u \in Tasks \ {t} : phase'[u] = phase[u]
  BY PhaseOf
<1>2. phase = [u \in Tasks |-> phase[u]] /\ phase' = [u \in Tasks |-> phase'[u]]
  BY DEF phase
<1> QED
  BY <1>1, <1>2

\* The contract implements the escrow's promise.
THEOREM EscrowRefinement == Spec => ImplementsPromise
<1>1. Init => Promise!Init
  BY DEF Init, Promise!Init, phase
<1>2. TypeOK /\ EscrowInv /\ [Next]_vars => [Promise!Next]_(Promise!vars)
  <2> SUFFICES ASSUME TypeOK, EscrowInv, [Next]_vars
               PROVE  Promise!Next \/ UNCHANGED Promise!vars
    OBVIOUS
  <2> USE DEF TypeOK, SetState, terms, money, paid
  <2>0. \A t \in Tasks : TaskMoneyInv(t)
    BY DEF EscrowInv
  <2>1. ASSUME NEW sender \in Accounts, NEW t \in Tasks, NEW amount \in Rewards, NEW mode \in Modes,
               create_task(sender, t, amount, mode)
        PROVE  UNCHANGED Promise!vars
    <3>1. deposited[t] = 0 /\ UNCHANGED <<deposited, toAgent, toTreasury, toCreator>>
      BY <2>0, <2>1 DEF create_task, TaskMoneyInv
    <3>2. phase'[t] = phase[t]
      BY <3>1, PhaseOf
    <3>3. phase' = [phase EXCEPT ![t] = phase[t]]
      BY <2>1, <3>1, <3>2, PhaseUpdate DEF create_task
    <3> QED
      BY <3>1, <3>3 DEF Promise!vars, phase
  <2>2. ASSUME NEW sender \in Accounts, NEW t \in Tasks, fund_task(sender, t)
        PROVE  Promise!Next
    <3>1. deposited[t] = 0 /\ reward[t] > 0
      BY <2>0, <2>2 DEF fund_task, TaskMoneyInv
    <3>2. reward[t] \in Rewards /\ reward[t] \in Nat
      BY <3>1, RewardIsNat
    <3> 0 + reward[t] = reward[t]
      BY <3>2
    <3>3. /\ deposited' = [deposited EXCEPT ![t] = reward[t]]
          /\ state' = [state EXCEPT ![t] = "OPEN"]
          /\ UNCHANGED <<toAgent, toTreasury, toCreator>>
      BY <2>2, <3>1, <3>2 DEF fund_task
    <3>4. phase[t] = "empty" /\ phase' = [phase EXCEPT ![t] = "held"]
      <4>1. phase[t] = "empty" /\ phase'[t] = "held"
        BY <3>1, <3>2, <3>3, PhaseOf
      <4> QED
        BY <3>3, <4>1, PhaseUpdate
    <3> QED
      BY <3>2, <3>3, <3>4 DEF Promise!Next, Promise!Deposit
  <2>3. ASSUME NEW t \in Tasks, settle_task(t)
        PROVE  Promise!Next
    <3> DEFINE fee == Fee(escrow_locked[t])
    <3>1. fee \in Nat /\ fee <= escrow_locked[t] /\ escrow_locked[t] - fee \in Nat
      BY FeeBounds
    <3>2. /\ state[t] = "APPROVED"
          /\ toTreasury' = [toTreasury EXCEPT ![t] = @ + fee]
          /\ toAgent' = [toAgent EXCEPT ![t] = @ + (escrow_locked[t] - fee)]
          /\ state' = [state EXCEPT ![t] = "SETTLED"]
          /\ UNCHANGED <<deposited, toCreator>>
      BY <2>3 DEF settle_task
    <3> HIDE DEF fee
    <3>3. /\ deposited[t] = escrow_locked[t] /\ deposited[t] > 0
          /\ toAgent[t] = 0 /\ toTreasury[t] = 0
      <4>1. deposited[t] > 0 /\ toAgent[t] + toTreasury[t] = 0 /\ deposited[t] = escrow_locked[t]
        BY <2>0, <3>2 DEF TaskMoneyInv
      <4>2. toAgent[t] \in Nat /\ toTreasury[t] \in Nat
        OBVIOUS
      <4> QED
        BY <4>1, <4>2
    <3> 0 + (escrow_locked[t] - fee) = escrow_locked[t] - fee /\ 0 + fee = fee
      BY <3>1
    <3>4. /\ toTreasury' = [toTreasury EXCEPT ![t] = fee]
          /\ toAgent' = [toAgent EXCEPT ![t] = deposited[t] - fee]
      BY <3>1, <3>2, <3>3
    <3>5. phase[t] = "held" /\ phase' = [phase EXCEPT ![t] = "paid"]
      <4>1. phase[t] = "held" /\ phase'[t] = "paid"
        BY <3>2, <3>3, PhaseOf
      <4> QED
        BY <3>2, <4>1, PhaseUpdate
    <3>6. fee \in 0 .. deposited[t]
      BY <3>1, <3>3
    <3> QED
      BY <3>2, <3>4, <3>5, <3>6 DEF Promise!Next, Promise!Pay
  <2>4. ASSUME NEW sender \in Accounts, NEW t \in Tasks, refund_task(sender, t)
        PROVE  Promise!Next \/ UNCHANGED Promise!vars
    <3>1. /\ state[t] \in {"REJECTED", "CANCELLED"}
          /\ toCreator' = [toCreator EXCEPT ![t] = @ + escrow_locked[t]]
          /\ state' = [state EXCEPT ![t] = "REFUNDED"]
          /\ UNCHANGED <<deposited, toAgent, toTreasury>>
      BY <2>4 DEF refund_task
    <3>2. toCreator[t] = 0 /\ deposited[t] = escrow_locked[t] /\ deposited[t] \in Nat
      BY <2>0, <3>1 DEF TaskMoneyInv
    <3> 0 + deposited[t] = deposited[t]
      BY <3>2
    <3>3. toCreator' = [toCreator EXCEPT ![t] = deposited[t]]
      BY <3>1, <3>2
    <3>4. CASE deposited[t] = 0
      <4>1. toCreator' = toCreator
        BY <3>2, <3>3, <3>4
      <4>2. phase'[t] = phase[t]
        BY <3>1, <3>4, PhaseOf
      <4>3. phase' = [phase EXCEPT ![t] = phase[t]]
        BY <3>1, <4>2, PhaseUpdate
      <4> QED
        BY <3>1, <4>1, <4>3 DEF Promise!vars, phase
    <3>5. CASE deposited[t] # 0
      <4>1. phase[t] = "held" /\ phase'[t] = "refunded"
        BY <3>1, <3>5, PhaseOf
      <4>2. phase' = [phase EXCEPT ![t] = "refunded"]
        BY <3>1, <4>1, PhaseUpdate
      <4> QED
        BY <3>1, <3>3, <4>1, <4>2 DEF Promise!Next, Promise!Refund
    <3> QED
      BY <3>4, <3>5
  <2>5. ASSUME NEW t \in Tasks, Progress(t)
        PROVE  UNCHANGED Promise!vars
    <3>1. UNCHANGED money
      BY <2>5, ProgressEffect
    <3>2. \E s \in Working \cup {"CANCELLED"} : state' = [state EXCEPT ![t] = s]
      BY <2>5, ProgressEffect
    <3>3. state[t] \notin {"SETTLED", "REFUNDED"} /\ state'[t] \notin {"SETTLED", "REFUNDED"}
      BY <2>5, <3>2, ProgressEffect DEF Working
    <3>4. phase'[t] = phase[t]
      BY <3>1, <3>3, PhaseOf
    <3>5. phase' = [phase EXCEPT ![t] = phase[t]]
      <4>1. \A u \in Tasks \ {t} : state'[u] = state[u]
        BY <3>2
      <4> QED
        BY <3>1, <3>4, <4>1, PhaseUpdate
    <3>6. phase' = phase
      BY <3>5 DEF phase
    <3>7. UNCHANGED <<deposited, toAgent, toTreasury, toCreator>>
      BY <3>1
    <3> QED
      BY <3>6, <3>7 DEF Promise!vars
  <2>6. ASSUME NEW sender \in Accounts, NEW a \in Agents,
               register_agent(sender, a) \/ disable_agent(sender, a)
        PROVE  UNCHANGED Promise!vars
    BY <2>6 DEF register_agent, disable_agent, Promise!vars, phase
  <2>7. CASE UNCHANGED vars
    BY <2>7 DEF vars, Promise!vars, phase
  <2> QED
    BY <2>1, <2>2, <2>3, <2>4, <2>5, <2>6, <2>7, StepCases
<1> QED
  BY <1>1, <1>2, EscrowInvariant, PTL DEF Spec, ImplementsPromise, Promise!Spec
=============================================================================
