-------------------------- MODULE ArcAgentRegistry --------------------------
(***************************************************************************)
(* The agent registry contract, DispatchAgentRegistry.sol: who owns an     *)
(* agent and whether it is active.  Versions, metadata and timestamps are  *)
(* stored and never read by a guard, so they are left out.                 *)
(***************************************************************************)
EXTENDS Integers

CONSTANTS Agents,    \* agent identifiers
          Accounts,  \* addresses that send transactions
          NoAccount  \* address(0)

ASSUME NoAccountIsNoSender == NoAccount \notin Accounts

VARIABLES agentOwner,  \* AgentRecord.owner; NoAccount until registered
          agentActive  \* AgentRecord.active

registryVars == <<agentOwner, agentActive>>

RegistryInit ==
  /\ agentOwner = [a \in Agents |-> NoAccount]
  /\ agentActive = [a \in Agents |-> FALSE]

\* Faulty variant of register_agent: the id may be taken already.
RegisterTaken(sender, a) ==
  /\ agentOwner' = [agentOwner EXCEPT ![a] = sender]
  /\ agentActive' = [agentActive EXCEPT ![a] = TRUE]

register_agent(sender, a) ==
  /\ agentOwner[a] = NoAccount
  /\ agentOwner' = [agentOwner EXCEPT ![a] = sender]
  /\ agentActive' = [agentActive EXCEPT ![a] = TRUE]

\* A metadata update switches a disabled agent on again.
update_agent(sender, a) ==
  /\ agentOwner[a] = sender
  /\ agentActive' = [agentActive EXCEPT ![a] = TRUE]
  /\ UNCHANGED agentOwner

disable_agent(sender, a) ==
  /\ agentOwner[a] = sender
  /\ agentActive' = [agentActive EXCEPT ![a] = FALSE]
  /\ UNCHANGED agentOwner

RegistryNext ==
  \E sender \in Accounts, a \in Agents :
    \/ register_agent(sender, a)
    \/ update_agent(sender, a)
    \/ disable_agent(sender, a)
=============================================================================
