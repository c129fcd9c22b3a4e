------------------------ MODULE ArcMarketplaceProofs ------------------------
(***************************************************************************)
(* Proofs about ArcMarketplace for every set of tasks, agents and accounts,*)
(* every reward and every fee that fits a uint16.                          *)
(***************************************************************************)
EXTENDS ArcMarketplace, TLAPS

\* The fee of a whole number of token units is a whole number: the division
\* rounds, it does not leave the naturals.
LEMMA FeeIsNat ==
  ASSUME NEW amount \in Nat
  PROVE  PlatformFee(amount) \in Nat
<1>1. PlatformFeeBps \in Nat
  BY MarketplaceConstants
<1>2. amount * PlatformFeeBps \in Nat
  BY <1>1
<1>3. \A n \in Nat : n \div 10000 \in Nat
  OBVIOUS
<1> QED
  BY <1>2, <1>3 DEF PlatformFee

\* Reward amounts, and the zero of a task that does not exist, are naturals.
LEMMA RewardIsNat ==
  ASSUME TypeOK, NEW t \in Tasks
  PROVE  /\ rewardAmount[t] \in Nat
         /\ rewardAmount[t] > 0 => rewardAmount[t] \in Rewards
<1>1. rewardAmount[t] \in Rewards \cup {0}
  BY DEF TypeOK
<1>2. \A r \in Rewards : r \in Nat
  BY MarketplaceConstants
<1> QED
  BY <1>1, <1>2

\* The transactions that only move the lifecycle state.
LEMMA StateTransactionEffect ==
  ASSUME TypeOK, NEW sender \in Accounts, NEW t \in Tasks, StateTransaction(sender, t)
  PROVE  /\ \E s \in TaskState \ {"NONE", "CREATED", "OPEN", "ASSIGNED", "SETTLED", "REFUNDED"} :
              state' = [state EXCEPT ![t] = s]
         /\ UNCHANGED <<operator, terms, work, money>>
         /\ state'[t] = "EXECUTING" => state[t] = "ASSIGNED"
<1> USE DEF SetState, TaskState, TypeOK
<1>1. ASSUME NEW s \in SubmissionIds, NEW outcome \in Outcomes,
             finalize_review(sender, t, s, outcome)
      PROVE ReviewState[outcome] \in {"APPROVED", "REJECTED", "DISPUTED", "UNRESOLVED"}
  BY DEF Outcomes, ReviewState
<1> QED
  BY <1>1 DEF StateTransaction, start_execution, start_review, approve_submission,
     reject_submission, finalize_review, dispute_task, appeal_task, cancel_task, CanStart,
     CanDecide, CanFinalize, CanDispute, CanAppeal, CanCancel

\* Every transaction keeps every variable in its type.
LEMMA TypeStep == TypeOK /\ [Next]_vars => TypeOK'
<1> USE MarketplaceConstants, NoAccountIsNoSender
<1> SUFFICES ASSUME TypeOK, [Next]_vars PROVE TypeOK'
  OBVIOUS
<1> USE DEF TypeOK, TaskState, SubmissionIds, SetState, terms, work, money, registryVars
<1>1. CASE UNCHANGED vars
  BY <1>1 DEF vars, marketVars
<1>2. CASE RegistryNext /\ UNCHANGED marketVars
  <2>1. agentOwner' \in [Agents -> Accounts \cup {NoAccount}]
    BY <1>2 DEF RegistryNext, register_agent, update_agent, disable_agent
  <2>2. agentActive' \in [Agents -> BOOLEAN]
    BY <1>2 DEF RegistryNext, register_agent, update_agent, disable_agent
  <2> QED
    BY <1>2, <2>1, <2>2 DEF marketVars
<1>3. ASSUME NEW sender \in Accounts, NEW next \in Accounts, setOperator(sender, next),
             UNCHANGED registryVars
      PROVE TypeOK'
  BY <1>3 DEF setOperator
<1>4. ASSUME NEW sender \in Accounts, NEW t \in Tasks, UNCHANGED registryVars
      PROVE /\ \A reward \in Rewards : create_task(sender, t, reward) => TypeOK'
            /\ fund_task(sender, t) => TypeOK'
            /\ \A a \in Agents : assign_task(sender, t, a) => TypeOK'
            /\ \A a \in Agents, nonce \in Nonces : submit_task(sender, t, a, nonce) => TypeOK'
            /\ StateTransaction(sender, t) => TypeOK'
            /\ settle_task(sender, t) => TypeOK'
            /\ refund_task(sender, t) => TypeOK'
  <2>1. ASSUME NEW reward \in Rewards, create_task(sender, t, reward) PROVE TypeOK'
    BY <1>4, <2>1 DEF create_task
  <2>2. CASE fund_task(sender, t)
    <3>1. rewardAmount[t] \in Nat /\ deposited[t] + rewardAmount[t] \in Nat
      BY RewardIsNat
    <3>2. /\ deposited' = [deposited EXCEPT ![t] = deposited[t] + rewardAmount[t]]
          /\ escrowLocked' = [escrowLocked EXCEPT ![t] = rewardAmount[t]]
      BY <2>2 DEF fund_task
    <3>3. deposited' \in [Tasks -> Nat] /\ escrowLocked' \in [Tasks -> Nat]
      BY <3>1, <3>2
    <3> QED
      BY <1>4, <2>2, <3>3 DEF fund_task
  <2>3. ASSUME NEW a \in Agents, assign_task(sender, t, a) PROVE TypeOK'
    BY <1>4, <2>3 DEF assign_task, CanAssign
  <2>4. ASSUME NEW a \in Agents, NEW nonce \in Nonces, submit_task(sender, t, a, nonce)
        PROVE TypeOK'
    BY <1>4, <2>4 DEF submit_task, CanSubmit
  <2>5. CASE StateTransaction(sender, t)
    BY <1>4, <2>5, StateTransactionEffect
  <2>6. CASE settle_task(sender, t)
    <3> DEFINE fee == PlatformFee(escrowLocked[t])
    <3>1. fee \in Nat /\ fee <= escrowLocked[t]
      BY <2>6, FeeIsNat DEF settle_task, CanSettle
    <3>2. escrowLocked[t] - fee \in Nat
      BY <3>1
    <3>3. toAgent[t] + (escrowLocked[t] - fee) \in Nat /\ toTreasury[t] + fee \in Nat
      BY <3>1, <3>2
    <3>4. /\ toAgent' = [toAgent EXCEPT ![t] = toAgent[t] + (escrowLocked[t] - fee)]
          /\ toTreasury' = [toTreasury EXCEPT ![t] = toTreasury[t] + fee]
      BY <2>6 DEF settle_task, CanSettle
    <3> HIDE DEF fee
    <3>5. toAgent' \in [Tasks -> Nat] /\ toTreasury' \in [Tasks -> Nat]
      BY <3>3, <3>4
    <3> QED
      BY <1>4, <2>6, <3>5 DEF settle_task, CanSettle
  <2>7. CASE refund_task(sender, t)
    BY <1>4, <2>7 DEF refund_task, CanRefund
  <2> QED
    BY <2>1, <2>2, <2>3, <2>4, <2>5, <2>6, <2>7
<1> QED
  BY <1>1, <1>2, <1>3, <1>4 DEF Next, MarketNext

\* Every variable has its type.
THEOREM TypeCorrect == Spec => []TypeOK
<1> USE MarketplaceConstants, NoAccountIsNoSender
<1>1. Init => TypeOK
  BY DEF Init, RegistryInit, TypeOK, TaskState, SubmissionIds
<1>2. TypeOK /\ [Next]_vars => TypeOK'
  BY TypeStep
<1> QED
  BY <1>1, <1>2, PTL DEF Spec

\* An agent that has an owner keeps it: the registry has no transfer.
LEMMA OwnerIsFixed ==
  ASSUME TypeOK, [Next]_vars, NEW a \in Agents, agentOwner[a] # NoAccount
  PROVE  agentOwner'[a] = agentOwner[a]
<1>1. CASE RegistryNext
  BY <1>1, NoAccountIsNoSender
  DEF RegistryNext, register_agent, update_agent, disable_agent, TypeOK
<1>2. CASE UNCHANGED registryVars
  BY <1>2 DEF registryVars
<1> QED
  BY <1>1, <1>2 DEF Next, vars

\* Every transaction of the contract and of the registry preserves what ties
\* a task's money to its state.
LEMMA EscrowStep == TypeOK /\ EscrowInv /\ [Next]_vars => EscrowInv'
<1> USE MarketplaceConstants, NoAccountIsNoSender
<1> SUFFICES ASSUME TypeOK, EscrowInv, [Next]_vars, NEW x \in Tasks
             PROVE  TaskEscrowInv(x)'
  BY DEF EscrowInv
<1> USE DEF TypeOK, SetState, SubmissionIds
<1>0. TaskEscrowInv(x)
  BY DEF EscrowInv
<1>1. \A a \in Agents : agentOwner[a] # NoAccount => agentOwner'[a] = agentOwner[a]
  BY OwnerIsFixed
<1>2. CASE UNCHANGED marketVars
  BY <1>0, <1>1, <1>2 DEF marketVars, terms, work, money, TaskEscrowInv
<1>3. ASSUME NEW sender \in Accounts, NEW next \in Accounts, setOperator(sender, next)
      PROVE TaskEscrowInv(x)'
  BY <1>0, <1>1, <1>3 DEF setOperator, terms, work, money, TaskEscrowInv
<1>4. ASSUME NEW sender \in Accounts, NEW t \in Tasks, UNCHANGED registryVars
      PROVE /\ \A reward \in Rewards : create_task(sender, t, reward) => TaskEscrowInv(x)'
            /\ fund_task(sender, t) => TaskEscrowInv(x)'
            /\ \A a \in Agents : assign_task(sender, t, a) => TaskEscrowInv(x)'
            /\ \A a \in Agents, nonce \in Nonces :
                 submit_task(sender, t, a, nonce) => TaskEscrowInv(x)'
            /\ StateTransaction(sender, t) => TaskEscrowInv(x)'
            /\ settle_task(sender, t) => TaskEscrowInv(x)'
            /\ refund_task(sender, t) => TaskEscrowInv(x)'
  <2> USE DEF TaskEscrowInv, terms, work, money, registryVars
  <2>1. ASSUME NEW reward \in Rewards, create_task(sender, t, reward)
        PROVE TaskEscrowInv(x)'
    BY <1>0, <1>4, <2>1 DEF create_task
  <2>2. CASE fund_task(sender, t)
    <3>1. rewardAmount[t] \in Nat
      BY RewardIsNat
    <3>2. CASE x # t
      BY <1>0, <1>4, <2>2, <3>2 DEF fund_task
    <3>3. CASE x = t
      <4>1. /\ creator[t] # NoAccount /\ rewardAmount[t] > 0
            /\ deposited[t] = 0 /\ toAgent[t] = 0 /\ toTreasury[t] = 0 /\ toCreator[t] = 0
            /\ assignedAgentId[t] = NoAgent
            /\ latestSubmissionId[t] = NoSubmission
            /\ payee[t] = NoAccount
        <5>1. state[t] = "CREATED" /\ creator[t] # NoAccount
          BY <2>2 DEF fund_task, onlyCreator
        <5>2. deposited[t] = 0 /\ rewardAmount[t] > 0
          BY <1>0, <3>3, <5>1
        <5>3. assignedAgentId[t] = NoAgent
          BY <1>0, <3>3, <5>2
        <5>4. latestSubmissionId[t] = NoSubmission /\ payee[t] = NoAccount
          BY <1>0, <3>3, <5>3
        <5>5. deposited[t] = escrowLocked[t] + toAgent[t] + toTreasury[t] + toCreator[t]
          BY <1>0, <3>3
        <5>6. /\ escrowLocked[t] \in Nat /\ toAgent[t] \in Nat
              /\ toTreasury[t] \in Nat /\ toCreator[t] \in Nat
          OBVIOUS
        <5> QED
          BY <5>1, <5>2, <5>3, <5>4, <5>5, <5>6
      <4>2. /\ deposited'[t] = rewardAmount[t] /\ escrowLocked'[t] = rewardAmount[t]
            /\ state'[t] = "OPEN"
            /\ UNCHANGED <<creator, rewardAmount, assignedAgentId, latestSubmissionId,
                           toAgent, toTreasury, toCreator, payee>>
        BY <2>2, <3>1, <4>1 DEF fund_task
      <4> QED
        BY <3>1, <3>3, <4>1, <4>2
    <3> QED
      BY <3>2, <3>3
  <2>3. ASSUME NEW a \in Agents, assign_task(sender, t, a) PROVE TaskEscrowInv(x)'
    BY <1>0, <1>4, <2>3 DEF assign_task, CanAssign
  <2>4. ASSUME NEW a \in Agents, NEW nonce \in Nonces, submit_task(sender, t, a, nonce)
        PROVE TaskEscrowInv(x)'
    BY <1>0, <1>4, <2>4 DEF submit_task, CanSubmit
  <2>5. CASE StateTransaction(sender, t)
    BY <1>0, <1>4, <2>5, StateTransactionEffect
  <2>6. CASE settle_task(sender, t)
    <3> DEFINE fee == PlatformFee(escrowLocked[t])
    <3>1. fee \in Nat /\ fee <= escrowLocked[t]
      BY <2>6, FeeIsNat DEF settle_task, CanSettle
    <3>2. PICK a \in Agents :
            /\ assignedAgentId[t] = a
            /\ agentOwner[a] # NoAccount
            /\ payee' = [payee EXCEPT ![t] = agentOwner[a]]
      BY <2>6 DEF settle_task, CanSettle
    <3>3. /\ toAgent' = [toAgent EXCEPT ![t] = toAgent[t] + (escrowLocked[t] - fee)]
          /\ toTreasury' = [toTreasury EXCEPT ![t] = toTreasury[t] + fee]
          /\ escrowLocked' = [escrowLocked EXCEPT ![t] = 0]
          /\ state' = [state EXCEPT ![t] = "SETTLED"]
          /\ UNCHANGED <<creator, rewardAmount, assignedAgentId, latestSubmissionId,
                         deposited, toCreator>>
      BY <2>6 DEF settle_task, CanSettle
    <3> HIDE DEF fee
    <3>4. CASE x # t
      BY <1>0, <1>4, <3>2, <3>3, <3>4
    <3>5. CASE x = t
      <4>1. toCreator[t] = 0
        <5>1. escrowLocked[t] > 0
          BY <2>6 DEF settle_task, CanSettle
        <5> QED
          BY <1>0, <3>5, <5>1
      <4>2. /\ deposited'[x] = escrowLocked'[x] + toAgent'[x] + toTreasury'[x] + toCreator'[x]
            /\ toCreator'[x] = 0
        BY <1>0, <3>1, <3>3, <3>5, <4>1
      <4> QED
        BY <1>0, <1>4, <3>2, <3>3, <3>5, <4>2
    <3> QED
      BY <3>4, <3>5
  <2>7. CASE refund_task(sender, t)
    <3>1. CASE x # t
      BY <1>0, <1>4, <2>7, <3>1 DEF refund_task, CanRefund
    <3>2. CASE x = t
      BY <1>0, <1>4, <2>7, <3>2 DEF refund_task, CanRefund
    <3> QED
      BY <3>1, <3>2
  <2> QED
    BY <2>1, <2>2, <2>3, <2>4, <2>5, <2>6, <2>7
<1> QED
  BY <1>2, <1>3, <1>4 DEF Next, MarketNext, vars

\* The strengthened invariant: every transaction of the contract and of the
\* registry preserves it.
THEOREM EscrowInvariant == Spec => []EscrowInv
<1> USE MarketplaceConstants, NoAccountIsNoSender
<1>1. Init => EscrowInv
  BY DEF Init, RegistryInit, EscrowInv, TaskEscrowInv
<1>2. TypeOK /\ EscrowInv /\ [Next]_vars => EscrowInv'
  BY EscrowStep
<1> QED
  BY <1>1, <1>2, TypeCorrect, PTL DEF Spec

\* The money properties the runs check, for every instance.
THEOREM MoneySafety ==
  Spec => [](Conservation /\ PaidOrRefunded /\ ClosedStatesHoldNothing)
<1>1. TypeOK /\ EscrowInv => Conservation /\ PaidOrRefunded /\ ClosedStatesHoldNothing
  BY DEF TypeOK, EscrowInv, TaskEscrowInv, Conservation, PaidOrRefunded, ClosedStatesHoldNothing
<1> QED
  BY <1>1, TypeCorrect, EscrowInvariant, PTL

\* Payouts reach the owner of the assigned agent.
THEOREM PayeeSafety == Spec => []PayeeOwnsAssignedAgent
<1>1. TypeOK /\ EscrowInv => PayeeOwnsAssignedAgent
  BY DEF TypeOK, EscrowInv, TaskEscrowInv, PayeeOwnsAssignedAgent
<1> QED
  BY <1>1, TypeCorrect, EscrowInvariant, PTL

\* Three transactions move money; all others, and the registry, leave it.
LEMMA MoneyMoves ==
  ASSUME TypeOK, [Next]_vars
  PROVE  \/ UNCHANGED money
         \/ \E sender \in Accounts, t \in Tasks :
              fund_task(sender, t) \/ settle_task(sender, t) \/ refund_task(sender, t)
<1>1. ASSUME NEW sender \in Accounts, NEW t \in Tasks, StateTransaction(sender, t)
      PROVE UNCHANGED money
  BY <1>1, StateTransactionEffect
<1> QED
  BY <1>1 DEF Next, MarketNext, vars, marketVars, money, create_task, assign_task, submit_task,
     CanAssign, CanSubmit, setOperator

\* After the release of a task's escrow no transaction moves money for it.
THEOREM ReleasedForGood == Spec => ReleaseIsFinal
<1>1. ASSUME TypeOK, EscrowInv, [Next]_vars, NEW x \in Tasks
      PROVE  KeepsRelease(x)
  <2> USE MarketplaceConstants DEF KeepsRelease, TypeOK
  <2>1. CASE UNCHANGED money
    BY <1>1, <2>1 DEF money
  <2>2. ASSUME NEW sender \in Accounts, NEW t \in Tasks, fund_task(sender, t)
        PROVE KeepsRelease(x)
    BY <1>1, <2>2 DEF fund_task, EscrowInv, TaskEscrowInv
  <2>3. ASSUME NEW sender \in Accounts, NEW t \in Tasks, settle_task(sender, t)
        PROVE KeepsRelease(x)
    BY <1>1, <2>3 DEF settle_task, CanSettle
  <2>4. ASSUME NEW sender \in Accounts, NEW t \in Tasks, refund_task(sender, t)
        PROVE KeepsRelease(x)
    BY <1>1, <2>4 DEF refund_task, CanRefund
  <2> QED
    BY <1>1, <2>1, <2>2, <2>3, <2>4, MoneyMoves
<1>2. TypeOK /\ EscrowInv /\ [Next]_vars => [\A t \in Tasks : KeepsRelease(t)]_vars
  BY <1>1
<1> QED
  BY <1>2, TypeCorrect, EscrowInvariant, PTL DEF Spec, ReleaseIsFinal

\* Once a result is anchored, neither the submission nor the agent changes.
THEOREM SubmissionSafety == Spec => SubmissionIsFixed
<1>1. ASSUME TypeOK, EscrowInv, [Next]_vars, NEW x \in Tasks
      PROVE  KeepsSubmission(x)
  <2> USE MarketplaceConstants DEF KeepsSubmission, TypeOK, work
  <2>1. CASE UNCHANGED work
    BY <2>1
  <2>2. ASSUME NEW sender \in Accounts, NEW t \in Tasks, NEW a \in Agents,
               assign_task(sender, t, a)
        PROVE KeepsSubmission(x)
    BY <1>1, <2>2 DEF assign_task, CanAssign, EscrowInv, TaskEscrowInv
  <2>3. ASSUME NEW sender \in Accounts, NEW t \in Tasks, NEW a \in Agents,
               NEW nonce \in Nonces, submit_task(sender, t, a, nonce)
        PROVE KeepsSubmission(x)
    BY <1>1, <2>3 DEF submit_task, CanSubmit, EscrowInv, TaskEscrowInv
  <2>4. ASSUME NEW sender \in Accounts, NEW t \in Tasks, StateTransaction(sender, t)
        PROVE KeepsSubmission(x)
    BY <2>4, <1>1, StateTransactionEffect
  <2> QED
    BY <1>1, <2>1, <2>2, <2>3, <2>4
    DEF Next, MarketNext, vars, marketVars, create_task, fund_task, settle_task, refund_task,
        setOperator
<1>2. TypeOK /\ EscrowInv /\ [Next]_vars => [\A t \in Tasks : KeepsSubmission(t)]_vars
  BY <1>1
<1> QED
  BY <1>2, TypeCorrect, EscrowInvariant, PTL DEF Spec, SubmissionIsFixed

\* Where the money of a task is, by the amounts that moved.
LEMMA PhaseOf ==
  ASSUME NEW t \in Tasks
  PROVE  /\ phase[t] = IF deposited[t] = 0 THEN "empty"
                      ELSE IF escrowLocked[t] > 0 THEN "held"
                      ELSE IF toCreator[t] > 0 THEN "refunded" ELSE "paid"
         /\ phase'[t] = IF deposited'[t] = 0 THEN "empty"
                       ELSE IF escrowLocked'[t] > 0 THEN "held"
                       ELSE IF toCreator'[t] > 0 THEN "refunded" ELSE "paid"
  BY DEF phase

\* A step that leaves the money of all tasks but one alone leaves their phase.
LEMMA PhaseUpdate ==
  ASSUME NEW t \in Tasks, NEW p,
         phase'[t] = p,
         \A u \in Tasks \ {t} : /\ deposited'[u] = deposited[u]
                                /\ escrowLocked'[u] = escrowLocked[u]
                                /\ toCreator'[u] = toCreator[u]
  PROVE  phase' = [phase EXCEPT ![t] = p]
<1>1. \A u \in Tasks \ {t} : phase'[u] = phase[u]
  BY PhaseOf
<1>2. phase = [u \in Tasks |-> phase[u]] /\ phase' = [u \in Tasks |-> phase'[u]]
  BY DEF phase
<1> QED
  BY <1>1, <1>2

\* Every transaction is a deposit, a payout, a refund, or moves no money at all.
LEMMA PromiseStep ==
  TypeOK /\ EscrowInv /\ [Next]_vars => [Promise!Next]_(Promise!vars)
<1> SUFFICES ASSUME TypeOK, EscrowInv, [Next]_vars
             PROVE  Promise!Next \/ UNCHANGED Promise!vars
  OBVIOUS
<1> USE MarketplaceConstants DEF TypeOK
<1>1. CASE UNCHANGED money
  BY <1>1 DEF money, Promise!vars, phase
<1>2. ASSUME NEW sender \in Accounts, NEW t \in Tasks, fund_task(sender, t)
      PROVE Promise!Next
  <2>1. deposited[t] = 0 /\ rewardAmount[t] \in Rewards /\ rewardAmount[t] > 0
    BY <1>2 DEF fund_task, EscrowInv, TaskEscrowInv
  <2> rewardAmount[t] \in Nat /\ 0 + rewardAmount[t] = rewardAmount[t]
    BY RewardIsNat
  <2>2. /\ deposited' = [deposited EXCEPT ![t] = rewardAmount[t]]
        /\ escrowLocked' = [escrowLocked EXCEPT ![t] = rewardAmount[t]]
        /\ UNCHANGED <<toAgent, toTreasury, toCreator>>
    BY <1>2, <2>1 DEF fund_task
  <2>3. phase[t] = "empty" /\ phase' = [phase EXCEPT ![t] = "held"]
    BY <2>1, <2>2, PhaseOf, PhaseUpdate
  <2> QED
    BY <2>1, <2>2, <2>3 DEF Promise!Next, Promise!Deposit
<1>3. ASSUME NEW sender \in Accounts, NEW t \in Tasks, settle_task(sender, t)
      PROVE Promise!Next
  <2> DEFINE fee == PlatformFee(escrowLocked[t])
  <2>1. fee \in Nat /\ fee <= escrowLocked[t]
    BY <1>3, FeeIsNat DEF settle_task, CanSettle
  <2>2. /\ escrowLocked[t] > 0
        /\ toAgent' = [toAgent EXCEPT ![t] = toAgent[t] + (escrowLocked[t] - fee)]
        /\ toTreasury' = [toTreasury EXCEPT ![t] = toTreasury[t] + fee]
        /\ escrowLocked' = [escrowLocked EXCEPT ![t] = 0]
        /\ UNCHANGED <<deposited, toCreator>>
    BY <1>3 DEF settle_task, CanSettle
  <2> HIDE DEF fee
  <2>3. /\ deposited[t] = escrowLocked[t] /\ deposited[t] > 0
        /\ toAgent[t] = 0 /\ toTreasury[t] = 0 /\ toCreator[t] = 0
    BY <2>2 DEF EscrowInv, TaskEscrowInv
  <2> escrowLocked[t] - fee \in Nat /\ fee \in Nat
    BY <2>1
  <2> 0 + (escrowLocked[t] - fee) = escrowLocked[t] - fee /\ 0 + fee = fee
    OBVIOUS
  <2>4. /\ toAgent' = [toAgent EXCEPT ![t] = deposited[t] - fee]
        /\ toTreasury' = [toTreasury EXCEPT ![t] = fee]
    BY <2>1, <2>2, <2>3
  <2>5. phase[t] = "held" /\ phase' = [phase EXCEPT ![t] = "paid"]
    BY <2>2, <2>3, PhaseOf, PhaseUpdate
  <2>6. fee \in 0 .. deposited[t]
    BY <2>1, <2>3
  <2> QED
    BY <2>2, <2>4, <2>5, <2>6 DEF Promise!Next, Promise!Pay
<1>4. ASSUME NEW sender \in Accounts, NEW t \in Tasks, refund_task(sender, t)
      PROVE Promise!Next
  <2>1. /\ escrowLocked[t] > 0
        /\ toCreator' = [toCreator EXCEPT ![t] = toCreator[t] + escrowLocked[t]]
        /\ escrowLocked' = [escrowLocked EXCEPT ![t] = 0]
        /\ UNCHANGED <<deposited, toAgent, toTreasury>>
    BY <1>4 DEF refund_task, CanRefund
  <2>2. deposited[t] = escrowLocked[t] /\ deposited[t] > 0 /\ toCreator[t] = 0
    BY <2>1 DEF EscrowInv, TaskEscrowInv
  <2> 0 + deposited[t] = deposited[t]
    OBVIOUS
  <2>3. toCreator' = [toCreator EXCEPT ![t] = deposited[t]]
    BY <2>1, <2>2
  <2>4. phase[t] = "held" /\ phase' = [phase EXCEPT ![t] = "refunded"]
    BY <2>1, <2>2, <2>3, PhaseOf, PhaseUpdate
  <2> QED
    BY <2>1, <2>3, <2>4 DEF Promise!Next, Promise!Refund
<1> QED
  BY <1>1, <1>2, <1>3, <1>4, MoneyMoves

\* The contract implements the escrow's promise.
THEOREM Refinement == Spec => ImplementsPromise
<1>1. Init => Promise!Init
  BY DEF Init, Promise!Init, phase
<1>2. TypeOK /\ EscrowInv /\ [Next]_vars => [Promise!Next]_(Promise!vars)
  BY PromiseStep
<1> QED
  BY <1>1, <1>2, TypeCorrect, EscrowInvariant, PTL DEF Spec, ImplementsPromise, Promise!Spec
=============================================================================
