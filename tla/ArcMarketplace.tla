--------------------------- MODULE ArcMarketplace ---------------------------
(***************************************************************************)
(* The escrow contract on Arc, DispatchMarketplace.sol, with the registry  *)
(* contract it reads (ArcAgentRegistry) and the ERC-20 token it moves.     *)
(* A transaction is atomic: a failed require reverts it, so each function  *)
(* is one action whose guard is the conjunction of its requires.           *)
(*                                                                         *)
(* Kept: every state change, every require, who may call, the money.       *)
(* Left out: fields no guard reads (deadline, mode, metadata, hashes,      *)
(* review outcome and scores) and events.  The token is external: of its   *)
(* balances the model keeps what each task moved, and to whom.             *)
(***************************************************************************)
EXTENDS ArcAgentRegistry

CONSTANTS Tasks,          \* task identifiers
          Rewards,        \* amounts offered, in token units
          Nonces,         \* submission nonces
          NoAgent,        \* the empty agent id
          NoSubmission,   \* the empty submission id
          PlatformFeeBps  \* constructor argument, a uint16 nobody bounds by 10000

ASSUME MarketplaceConstants ==
  /\ Rewards \subseteq Nat \ {0}
  /\ PlatformFeeBps \in Nat /\ PlatformFeeBps < 2^16
  /\ NoAgent \notin Agents
  /\ NoSubmission \notin Nonces

VARIABLES
  operator,            \* the account allowed to settle and refund
  creator,             \* TaskRecord.creator; NoAccount while the task does not exist
  rewardAmount,        \* TaskRecord.rewardAmount
  state,               \* TaskRecord.state
  assignedAgentId,     \* TaskRecord.assignedAgentId
  latestSubmissionId,  \* TaskRecord.latestSubmissionId
  escrowLocked,        \* TaskRecord.escrowLocked
  deposited,           \* moved by the token contract: creator to marketplace,
  toAgent,             \*   marketplace to the agent's wallet,
  toTreasury,          \*   marketplace to the treasury,
  toCreator,           \*   marketplace back to the creator
  payee                \* the wallet the payout went to

terms == <<creator, rewardAmount>>
work == <<assignedAgentId, latestSubmissionId>>
money == <<escrowLocked, deposited, toAgent, toTreasury, toCreator, payee>>
marketVars == <<operator, terms, state, work, money>>
vars == <<registryVars, marketVars>>

TaskState ==
  {"NONE", "CREATED", "OPEN", "ASSIGNED", "EXECUTING", "SUBMITTED", "UNDER_REVIEW",
   "APPROVED", "REJECTED", "DISPUTED", "APPEALED", "UNRESOLVED", "SETTLED",
   "CANCELLED", "REFUNDED"}

Init ==
  /\ RegistryInit
  /\ operator \in Accounts
  /\ creator = [t \in Tasks |-> NoAccount]
  /\ rewardAmount = [t \in Tasks |-> 0]
  /\ state = [t \in Tasks |-> "NONE"]
  /\ assignedAgentId = [t \in Tasks |-> NoAgent]
  /\ latestSubmissionId = [t \in Tasks |-> NoSubmission]
  /\ escrowLocked = [t \in Tasks |-> 0]
  /\ deposited = [t \in Tasks |-> 0]
  /\ toAgent = [t \in Tasks |-> 0]
  /\ toTreasury = [t \in Tasks |-> 0]
  /\ toCreator = [t \in Tasks |-> 0]
  /\ payee = [t \in Tasks |-> NoAccount]

-----------------------------------------------------------------------------
(* Modifiers and helpers. *)

onlyOperator(sender) == sender = operator
onlyCreator(sender, t) == creator[t] = sender
onlyCreatorOrOperator(sender, t) == sender \in {creator[t], operator}

SetState(t, s) == state' = [state EXCEPT ![t] = s]

\* platformFee = escrowLocked * platformFeeBps / 10000, rounded down.
PlatformFee(amount) == (amount * PlatformFeeBps) \div 10000

-----------------------------------------------------------------------------
(* Transactions.  What a function requires has a name of its own where the *)
(* router asks for a gas estimate before it sends the transaction.         *)

setOperator(sender, next) ==
  /\ onlyOperator(sender)
  /\ operator' = next
  /\ UNCHANGED <<terms, state, work, money>>

create_task(sender, t, reward) ==
  /\ creator[t] = NoAccount
  /\ creator' = [creator EXCEPT ![t] = sender]
  /\ rewardAmount' = [rewardAmount EXCEPT ![t] = reward]
  /\ SetState(t, "CREATED")
  /\ UNCHANGED <<operator, work, money>>

\* Faulty variants of fund_task: the second status write is missing; a funded
\* task may be funded again.
FundWithoutOpening(sender, t) ==
  /\ onlyCreator(sender, t)
  /\ state[t] = "CREATED"
  /\ deposited' = [deposited EXCEPT ![t] = @ + rewardAmount[t]]
  /\ escrowLocked' = [escrowLocked EXCEPT ![t] = rewardAmount[t]]
  /\ SetState(t, "ESCROW_FUNDED")
  /\ UNCHANGED <<operator, terms, work, toAgent, toTreasury, toCreator, payee>>

FundAgain(sender, t) ==
  /\ onlyCreator(sender, t)
  /\ state[t] \in {"CREATED", "OPEN"}
  /\ deposited' = [deposited EXCEPT ![t] = @ + rewardAmount[t]]
  /\ escrowLocked' = [escrowLocked EXCEPT ![t] = rewardAmount[t]]
  /\ SetState(t, "OPEN")
  /\ UNCHANGED <<operator, terms, work, toAgent, toTreasury, toCreator, payee>>

\* ESCROW_FUNDED is written and overwritten by OPEN in the same transaction,
\* so no transaction ever starts in it.
fund_task(sender, t) ==
  /\ onlyCreator(sender, t)
  /\ state[t] = "CREATED"
  /\ escrowLocked[t] = 0
  /\ deposited' = [deposited EXCEPT ![t] = @ + rewardAmount[t]]
  /\ escrowLocked' = [escrowLocked EXCEPT ![t] = rewardAmount[t]]
  /\ SetState(t, "OPEN")
  /\ UNCHANGED <<operator, terms, work, toAgent, toTreasury, toCreator, payee>>

\* Faulty variant of assign_task: the state is not checked.
AssignInAnyState(sender, t, a) ==
  /\ onlyCreatorOrOperator(sender, t)
  /\ escrowLocked[t] > 0
  /\ agentOwner[a] # NoAccount
  /\ agentActive[a]
  /\ assignedAgentId' = [assignedAgentId EXCEPT ![t] = a]
  /\ SetState(t, "ASSIGNED")
  /\ UNCHANGED <<operator, terms, latestSubmissionId, money>>

CanAssign(sender, t, a) ==
  /\ onlyCreatorOrOperator(sender, t)
  /\ escrowLocked[t] > 0
  /\ state[t] = "OPEN"
  /\ agentOwner[a] # NoAccount
  /\ agentActive[a]

assign_task(sender, t, a) ==
  /\ CanAssign(sender, t, a)
  /\ assignedAgentId' = [assignedAgentId EXCEPT ![t] = a]
  /\ SetState(t, "ASSIGNED")
  /\ UNCHANGED <<operator, terms, latestSubmissionId, money>>

CanStart(sender, t, a) ==
  /\ onlyCreatorOrOperator(sender, t)
  /\ state[t] = "ASSIGNED"
  /\ assignedAgentId[t] = a

start_execution(sender, t, a) ==
  /\ CanStart(sender, t, a)
  /\ SetState(t, "EXECUTING")
  /\ UNCHANGED <<operator, terms, work, money>>

\* Faulty variant of submit_task: a submitted result may be replaced.
SubmitAgain(sender, t, a, nonce) ==
  /\ onlyCreatorOrOperator(sender, t)
  /\ escrowLocked[t] > 0
  /\ state[t] \in {"ASSIGNED", "EXECUTING", "SUBMITTED"}
  /\ assignedAgentId[t] = a
  /\ latestSubmissionId' = [latestSubmissionId EXCEPT ![t] = nonce]
  /\ SetState(t, "SUBMITTED")
  /\ UNCHANGED <<operator, terms, assignedAgentId, money>>

CanSubmit(sender, t, a) ==
  /\ onlyCreatorOrOperator(sender, t)
  /\ escrowLocked[t] > 0
  /\ state[t] \in {"ASSIGNED", "EXECUTING"}
  /\ assignedAgentId[t] = a

\* The submission id is made of task, agent and nonce: the nonce tells two
\* submissions of one task apart.
submit_task(sender, t, a, nonce) ==
  /\ CanSubmit(sender, t, a)
  /\ latestSubmissionId' = [latestSubmissionId EXCEPT ![t] = nonce]
  /\ SetState(t, "SUBMITTED")
  /\ UNCHANGED <<operator, terms, assignedAgentId, money>>

start_review(sender, t) ==
  /\ onlyCreatorOrOperator(sender, t)
  /\ state[t] \in {"SUBMITTED", "REJECTED"}
  /\ SetState(t, "UNDER_REVIEW")
  /\ UNCHANGED <<operator, terms, work, money>>

\* The three review verdicts compare the submission id and nothing else: the
\* state they are given in is not checked.
CanDecide(sender, t, s) ==
  /\ onlyCreatorOrOperator(sender, t)
  /\ latestSubmissionId[t] = s

approve_submission(sender, t, s) ==
  /\ CanDecide(sender, t, s)
  /\ SetState(t, "APPROVED")
  /\ UNCHANGED <<operator, terms, work, money>>

reject_submission(sender, t, s) ==
  /\ CanDecide(sender, t, s)
  /\ SetState(t, "REJECTED")
  /\ UNCHANGED <<operator, terms, work, money>>

Outcomes == {"accepted", "rejected", "disputed", "unresolved"}

ReviewState ==
  [accepted |-> "APPROVED", rejected |-> "REJECTED", disputed |-> "DISPUTED",
   unresolved |-> "UNRESOLVED"]

CanFinalize(sender, t, s) == onlyOperator(sender) /\ latestSubmissionId[t] = s

finalize_review(sender, t, s, outcome) ==
  /\ CanFinalize(sender, t, s)
  /\ SetState(t, ReviewState[outcome])
  /\ UNCHANGED <<operator, terms, work, money>>

CanDispute(sender, t) ==
  /\ onlyCreatorOrOperator(sender, t)
  /\ state[t] \in {"SUBMITTED", "UNDER_REVIEW", "APPROVED", "REJECTED"}

dispute_task(sender, t) ==
  /\ CanDispute(sender, t)
  /\ SetState(t, "DISPUTED")
  /\ UNCHANGED <<operator, terms, work, money>>

CanAppeal(sender, t) ==
  /\ onlyCreatorOrOperator(sender, t)
  /\ state[t] \in {"DISPUTED", "REJECTED"}

appeal_task(sender, t) ==
  /\ CanAppeal(sender, t)
  /\ SetState(t, "APPEALED")
  /\ UNCHANGED <<operator, terms, work, money>>

\* Faulty variant of settle_task: the reward is paid without looking at what
\* is still locked.
SettleReward(sender, t) ==
  /\ onlyOperator(sender)
  /\ state[t] = "APPROVED"
  /\ \E a \in Agents :
       /\ assignedAgentId[t] = a
       /\ agentOwner[a] # NoAccount
       /\ payee' = [payee EXCEPT ![t] = agentOwner[a]]
  /\ toAgent' = [toAgent EXCEPT ![t] = @ + (rewardAmount[t] - PlatformFee(rewardAmount[t]))]
  /\ toTreasury' = [toTreasury EXCEPT ![t] = @ + PlatformFee(rewardAmount[t])]
  /\ escrowLocked' = [escrowLocked EXCEPT ![t] = 0]
  /\ SetState(t, "SETTLED")
  /\ UNCHANGED <<operator, terms, work, deposited, toCreator>>

\* Checked arithmetic: a fee above 100% makes the subtraction revert.
CanSettle(sender, t) ==
  /\ onlyOperator(sender)
  /\ state[t] = "APPROVED"
  /\ escrowLocked[t] > 0
  /\ PlatformFee(escrowLocked[t]) <= escrowLocked[t]
  /\ assignedAgentId[t] \in Agents
  /\ agentOwner[assignedAgentId[t]] # NoAccount

\* The payout goes to whoever owns the assigned agent now.
settle_task(sender, t) ==
  /\ CanSettle(sender, t)
  /\ payee' = [payee EXCEPT ![t] = agentOwner[assignedAgentId[t]]]
  /\ toAgent' = [toAgent EXCEPT ![t] = @ + (escrowLocked[t] - PlatformFee(escrowLocked[t]))]
  /\ toTreasury' = [toTreasury EXCEPT ![t] = @ + PlatformFee(escrowLocked[t])]
  /\ escrowLocked' = [escrowLocked EXCEPT ![t] = 0]
  /\ SetState(t, "SETTLED")
  /\ UNCHANGED <<operator, terms, work, deposited, toCreator>>

CanCancel(sender, t) ==
  /\ onlyCreatorOrOperator(sender, t)
  /\ state[t] \in {"CREATED", "OPEN", "ASSIGNED"}

cancel_task(sender, t) ==
  /\ CanCancel(sender, t)
  /\ SetState(t, "CANCELLED")
  /\ UNCHANGED <<operator, terms, work, money>>

RefundableStates == {"CANCELLED", "REJECTED", "UNRESOLVED", "DISPUTED", "APPEALED"}

\* Faulty variant of refund_task: the platform keeps its fee.
RefundLessFee(sender, t) ==
  /\ onlyOperator(sender)
  /\ state[t] \in RefundableStates
  /\ escrowLocked[t] > 0
  /\ toCreator' = [toCreator EXCEPT ![t] = @ + (escrowLocked[t] - PlatformFee(escrowLocked[t]))]
  /\ toTreasury' = [toTreasury EXCEPT ![t] = @ + PlatformFee(escrowLocked[t])]
  /\ escrowLocked' = [escrowLocked EXCEPT ![t] = 0]
  /\ SetState(t, "REFUNDED")
  /\ UNCHANGED <<operator, terms, work, deposited, toAgent, payee>>

CanRefund(sender, t) ==
  /\ onlyOperator(sender)
  /\ state[t] \in RefundableStates
  /\ escrowLocked[t] > 0

refund_task(sender, t) ==
  /\ CanRefund(sender, t)
  /\ toCreator' = [toCreator EXCEPT ![t] = @ + escrowLocked[t]]
  /\ escrowLocked' = [escrowLocked EXCEPT ![t] = 0]
  /\ SetState(t, "REFUNDED")
  /\ UNCHANGED <<operator, terms, work, deposited, toAgent, toTreasury, payee>>

-----------------------------------------------------------------------------

SubmissionIds == Nonces \cup {NoSubmission}

\* Transactions that put the task in another state and do nothing else.
StateTransaction(sender, t) ==
  \/ \E a \in Agents : start_execution(sender, t, a)
  \/ start_review(sender, t)
  \/ \E s \in SubmissionIds : approve_submission(sender, t, s)
  \/ \E s \in SubmissionIds : reject_submission(sender, t, s)
  \/ \E s \in SubmissionIds, outcome \in Outcomes : finalize_review(sender, t, s, outcome)
  \/ dispute_task(sender, t)
  \/ appeal_task(sender, t)
  \/ cancel_task(sender, t)

MarketNext ==
  \/ \E sender \in Accounts, t \in Tasks :
       \/ \E reward \in Rewards : create_task(sender, t, reward)
       \/ fund_task(sender, t)
       \/ \E a \in Agents : assign_task(sender, t, a)
       \/ \E a \in Agents, nonce \in Nonces : submit_task(sender, t, a, nonce)
       \/ StateTransaction(sender, t)
       \/ settle_task(sender, t)
       \/ refund_task(sender, t)
  \/ \E sender, next \in Accounts : setOperator(sender, next)

Next ==
  \/ MarketNext /\ UNCHANGED registryVars
  \/ RegistryNext /\ UNCHANGED marketVars

Spec == Init /\ [][Next]_vars

-----------------------------------------------------------------------------
(* Properties. *)

\* Every variable has its type.
TypeOK ==
  /\ agentOwner \in [Agents -> Accounts \cup {NoAccount}]
  /\ agentActive \in [Agents -> BOOLEAN]
  /\ operator \in Accounts
  /\ creator \in [Tasks -> Accounts \cup {NoAccount}]
  /\ rewardAmount \in [Tasks -> Rewards \cup {0}]
  /\ state \in [Tasks -> TaskState]
  /\ assignedAgentId \in [Tasks -> Agents \cup {NoAgent}]
  /\ latestSubmissionId \in [Tasks -> SubmissionIds]
  /\ escrowLocked \in [Tasks -> Nat]
  /\ deposited \in [Tasks -> Nat]
  /\ toAgent \in [Tasks -> Nat]
  /\ toTreasury \in [Tasks -> Nat]
  /\ toCreator \in [Tasks -> Nat]
  /\ payee \in [Tasks -> Accounts \cup {NoAccount}]

\* Whatever the operator, the creators and the agent owners do, in whatever
\* order, every unit a creator paid in is either still locked for that task
\* or was paid out exactly once: fee rounding loses and creates nothing.
Conservation ==
  \A t \in Tasks :
    deposited[t] = escrowLocked[t] + toAgent[t] + toTreasury[t] + toCreator[t]

\* One outcome per task: a task that paid its agent (or the treasury) never
\* refunds its creator, although approve and reject work in every state.
PaidOrRefunded ==
  \A t \in Tasks : toAgent[t] + toTreasury[t] > 0 => toCreator[t] = 0

\* The states the router reads as "money has left" never hide a locked
\* reward, and a locked reward is the whole reward.
ClosedStatesHoldNothing ==
  \A t \in Tasks :
    /\ state[t] \in {"NONE", "CREATED", "SETTLED", "REFUNDED"} => escrowLocked[t] = 0
    /\ escrowLocked[t] > 0 => escrowLocked[t] = rewardAmount[t]

\* The payout went to the owner of the agent the task was assigned to, and
\* no later registration or assignment makes that untrue.
PayeeOwnsAssignedAgent ==
  \A t \in Tasks :
    payee[t] # NoAccount =>
      /\ assignedAgentId[t] \in Agents
      /\ payee[t] = agentOwner[assignedAgentId[t]]

\* What the lifecycle state, the assignment and the submission of a task say
\* about its money.
TaskEscrowInv(t) ==
  /\ deposited[t] = escrowLocked[t] + toAgent[t] + toTreasury[t] + toCreator[t]
  /\ toAgent[t] + toTreasury[t] > 0 => toCreator[t] = 0
  /\ creator[t] # NoAccount => rewardAmount[t] > 0
  /\ state[t] = "CREATED" \/ deposited[t] > 0 => creator[t] # NoAccount
  /\ state[t] \in {"NONE", "CREATED"} => deposited[t] = 0
  /\ state[t] \in {"SETTLED", "REFUNDED"} => escrowLocked[t] = 0
  /\ state[t] \in {"OPEN", "ASSIGNED", "EXECUTING"} => escrowLocked[t] > 0
  /\ escrowLocked[t] > 0 =>
       /\ escrowLocked[t] = rewardAmount[t]
       /\ deposited[t] = escrowLocked[t]
  /\ assignedAgentId[t] # NoAgent =>
       /\ deposited[t] > 0
       /\ state[t] # "OPEN"
       /\ agentOwner[assignedAgentId[t]] # NoAccount
  /\ latestSubmissionId[t] # NoSubmission =>
       /\ assignedAgentId[t] # NoAgent
       /\ state[t] \notin {"ASSIGNED", "EXECUTING"}
  /\ payee[t] # NoAccount =>
       /\ escrowLocked[t] = 0
       /\ assignedAgentId[t] # NoAgent
       /\ payee[t] = agentOwner[assignedAgentId[t]]

\* The inductive invariant behind the four properties above: TaskEscrowInv
\* holds of every task after every transaction.
EscrowInv == \A t \in Tasks : TaskEscrowInv(t)

\* The submission a review or a payout refers to is never replaced, and the
\* agent that is paid for it is never exchanged: nothing leads back to OPEN
\* or ASSIGNED once a result is anchored.
KeepsSubmission(t) ==
  latestSubmissionId[t] # NoSubmission =>
    /\ latestSubmissionId'[t] = latestSubmissionId[t]
    /\ assignedAgentId'[t] = assignedAgentId[t]

SubmissionIsFixed == [][\A t \in Tasks : KeepsSubmission(t)]_vars

\* Once the escrow of a funded task has been released, no later transaction
\* moves a further unit for it, whatever state it is put into.
KeepsRelease(t) ==
  deposited[t] > 0 /\ escrowLocked[t] = 0 =>
    /\ escrowLocked'[t] = 0
    /\ deposited'[t] = deposited[t]
    /\ toAgent'[t] = toAgent[t]
    /\ toTreasury'[t] = toTreasury[t]
    /\ toCreator'[t] = toCreator[t]

ReleaseIsFinal == [][\A t \in Tasks : KeepsRelease(t)]_vars

-----------------------------------------------------------------------------
(* The contract implements the escrow's promise. *)

phase ==
  [t \in Tasks |->
     IF deposited[t] = 0 THEN "empty"
     ELSE IF escrowLocked[t] > 0 THEN "held"
     ELSE IF toCreator[t] > 0 THEN "refunded" ELSE "paid"]

Promise == INSTANCE EscrowPromise

\* Seen through `phase', the contract's transactions are deposits, payouts
\* and refunds of the abstract escrow.
ImplementsPromise == Promise!Spec
=============================================================================
