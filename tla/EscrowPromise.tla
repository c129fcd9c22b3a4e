--------------------------- MODULE EscrowPromise ---------------------------
(***************************************************************************)
(* What a task escrow promises, whatever contract keeps it: the reward of  *)
(* a task is deposited once, stays untouched while it is held, and leaves  *)
(* in one piece, either to the agent and the treasury or back to the       *)
(* creator.  The Solidity marketplace (ArcMarketplace) and the GenLayer    *)
(* escrow (TaskEscrow) are each shown to implement this specification.     *)
(***************************************************************************)
EXTENDS Integers

CONSTANTS Tasks,    \* task identifiers
          Rewards   \* the amounts a creator may offer, all positive

VARIABLES phase,      \* where the reward of each task is
          deposited,  \* what the creator paid in
          toAgent,    \* what the agent's wallet received
          toTreasury, \* the platform fee
          toCreator   \* what was refunded

vars == <<phase, deposited, toAgent, toTreasury, toCreator>>

Phases == {"empty", "held", "paid", "refunded"}

Init ==
  /\ phase = [t \in Tasks |-> "empty"]
  /\ deposited = [t \in Tasks |-> 0]
  /\ toAgent = [t \in Tasks |-> 0]
  /\ toTreasury = [t \in Tasks |-> 0]
  /\ toCreator = [t \in Tasks |-> 0]

Deposit(t, amount) ==
  /\ phase[t] = "empty"
  /\ phase' = [phase EXCEPT ![t] = "held"]
  /\ deposited' = [deposited EXCEPT ![t] = amount]
  /\ UNCHANGED <<toAgent, toTreasury, toCreator>>

\* The fee is the implementation's business; that fee and payout add up to
\* the deposit is the promise.
Pay(t, fee) ==
  /\ phase[t] = "held"
  /\ phase' = [phase EXCEPT ![t] = "paid"]
  /\ toAgent' = [toAgent EXCEPT ![t] = deposited[t] - fee]
  /\ toTreasury' = [toTreasury EXCEPT ![t] = fee]
  /\ UNCHANGED <<deposited, toCreator>>

Refund(t) ==
  /\ phase[t] = "held"
  /\ phase' = [phase EXCEPT ![t] = "refunded"]
  /\ toCreator' = [toCreator EXCEPT ![t] = deposited[t]]
  /\ UNCHANGED <<deposited, toAgent, toTreasury>>

Next ==
  \E t \in Tasks :
    \/ \E amount \in Rewards : Deposit(t, amount)
    \/ \E fee \in 0 .. deposited[t] : Pay(t, fee)
    \/ Refund(t)

Spec == Init /\ [][Next]_vars
=============================================================================
