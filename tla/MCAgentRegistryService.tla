----------------------- MODULE MCAgentRegistryService -----------------------
(* Values of the constants of AgentRegistryService for TLC. *)
EXTENDS AgentRegistryService, TLC

CONSTANTS w1, w2, a1, b1, e1, e2, c1, d1, h1, h2

\* Requests differ in their names only.
Symmetry == Permutations(Handlers)

\* Bound: a draft can only be published as an agent that is not registered yet;
\* once the one agent has been registered with an endpoint there is no draft.
DraftsArePublishable ==
  (\E a \in Agents : endpointUrl[a] # NoEndpoint) => \A d \in Drafts : draftOwner[d] = NoWallet
=============================================================================
