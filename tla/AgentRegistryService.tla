------------------------ MODULE AgentRegistryService ------------------------
(***************************************************************************)
(* The router's registry of agents (agentRegistryService.ts), the owner    *)
(* proofs a registration needs (ownerProofService.ts), the builder that    *)
(* publishes drafts (agentBuilderService.ts) and what an administrator     *)
(* does to agents and endpoints (adminService.ts, safetyService.ts).       *)
(*                                                                         *)
(* A wallet asks for a challenge, signs it, and has the signature verified *)
(* by a service over HTTP.  A registration names the proof it got.  Agents *)
(* with an endpoint are asked for their health and probed with a job, over *)
(* HTTP; the handler that waits keeps the row and writes it when the       *)
(* answer comes, or the wait for it has timed out.                         *)
(*                                                                         *)
(* The row of an agent is kept as one function per field.  Left out:       *)
(* names, versions, prices, histories of checks, the connection's display, *)
(* and what a check says of an agent beyond its status.                    *)
(***************************************************************************)
CONSTANTS
  Wallets,
  Agents,          \* agents that may be registered
  BuiltIn,         \* the agents of platformAgentCatalog.ts
  Endpoints,       \* URLs that the schema of a registration admits
  NotHttp,         \* those of another scheme: ftp:, mailto:
  Challenges, Drafts,
  Handlers,        \* requests that may wait for an answer at one time
  PlatformWallet,  \* the owner of the built-in agents
  NoWallet, NoEndpoint

ASSUME RegistryConstants ==
  /\ PlatformWallet \in Wallets
  /\ NoWallet \notin Wallets
  /\ NoEndpoint \notin Endpoints
  /\ NotHttp \subseteq Endpoints
  /\ Agents \cap BuiltIn = {}

VARIABLES
  challengeStatus, challengeWallet,
  overdue,            \* challenges past their time
  signed,             \* challenges whose wallet has signed them (history)
  ownerWallet, originType, endpointUrl,
  registrationState, isActive, healthStatus, compatibilityStatus,
  suspensionReason,   \* a reason is written
  blacklistedEndpoints,
  draftOwner, lastTestRun,
  req                 \* the requests that wait

challenges == <<challengeStatus, challengeWallet, overdue, signed>>
profiles == <<ownerWallet, originType, endpointUrl>>
rows == <<registrationState, isActive, healthStatus, compatibilityStatus, suspensionReason>>
drafts == <<draftOwner, lastTestRun>>
vars == <<challenges, profiles, rows, blacklistedEndpoints, drafts, req>>

AllAgents == Agents \cup BuiltIn
RegistrationStates == {"draft", "verified", "published", "active", "inactive", "suspended"}
HealthStatuses == {"unknown", "healthy", "unhealthy", "suspended"}
CompatibilityStatuses == {"unknown", "compatible", "warning", "incompatible"}

Registered(a) == ownerWallet[a] # NoWallet

\* What a request that waits is for: a registration or a publication, with both
\* checks; or a check of its own, the test with or without a probe.
BothChecks == {"register", "publish"}
Purposes == BothChecks \cup {"health", "probe", "test"}
Idle == [pc |-> "idle"]
Verifying(c, good) == [pc |-> "verify", challenge |-> c, good |-> good]
Waits(pc, a, purpose) == [pc |-> pc, agent |-> a, purpose |-> purpose]

Init ==
  /\ challengeStatus = [c \in Challenges |-> "none"]
  /\ challengeWallet = [c \in Challenges |-> NoWallet]
  /\ overdue = {} /\ signed = {}
  /\ ownerWallet = [a \in AllAgents |-> IF a \in BuiltIn THEN PlatformWallet ELSE NoWallet]
  /\ originType = [a \in AllAgents |-> "platform"]
  /\ endpointUrl = [a \in AllAgents |-> NoEndpoint]
  /\ registrationState = [a \in AllAgents |-> IF a \in BuiltIn THEN "active" ELSE "draft"]
  /\ isActive = [a \in AllAgents |-> a \in BuiltIn]
  /\ healthStatus = [a \in AllAgents |-> IF a \in BuiltIn THEN "healthy" ELSE "unknown"]
  /\ compatibilityStatus =
       [a \in AllAgents |-> IF a \in BuiltIn THEN "compatible" ELSE "unknown"]
  /\ suspensionReason = [a \in AllAgents |-> FALSE]
  /\ blacklistedEndpoints = {}
  /\ draftOwner = [d \in Drafts |-> NoWallet]
  /\ lastTestRun = [d \in Drafts |-> "none"]
  /\ req = [h \in Handlers |-> Idle]

-----------------------------------------------------------------------------
(* Owner proofs. *)

issueChallenge(c, w) ==
  /\ challengeStatus[c] = "none"
  /\ challengeStatus' = [challengeStatus EXCEPT ![c] = "issued"]
  /\ challengeWallet' = [challengeWallet EXCEPT ![c] = w]
  /\ UNCHANGED <<overdue, signed, profiles, rows, blacklistedEndpoints, drafts, req>>

TimePasses(c) ==
  /\ challengeStatus[c] # "none"
  /\ overdue' = overdue \cup {c}
  /\ UNCHANGED <<challengeStatus, challengeWallet, signed, profiles, rows,
                 blacklistedEndpoints, drafts, req>>

\* A good signature is one of the challenge's wallet, which only its owner makes.
\* An overdue challenge expires, verified or not.
verifyChallenge(h, c, w, good) ==
  /\ req[h] = Idle
  /\ challengeStatus[c] # "none"
  /\ challengeWallet[c] = w
  /\ signed' = IF good THEN signed \cup {c} ELSE signed
  /\ IF c \in overdue
     THEN /\ challengeStatus' = [challengeStatus EXCEPT ![c] = "expired"]
          /\ UNCHANGED req
     ELSE /\ req' = [req EXCEPT ![h] = Verifying(c, good)]
          /\ UNCHANGED challengeStatus
  /\ UNCHANGED <<challengeWallet, overdue, profiles, rows, blacklistedEndpoints, drafts>>

\* The verifier says no, or fails, whatever it was sent.
VerifierRefuses(h) ==
  /\ req[h].pc = "verify"
  /\ req' = [req EXCEPT ![h] = Idle]
  /\ UNCHANGED <<challenges, profiles, rows, blacklistedEndpoints, drafts>>

\* The service of production checks the signature; the default elsewhere accepts
\* a hash that is no secret, and is not modelled.
VerifierAccepts(h) ==
  /\ req[h].pc = "verify"
  /\ req[h].good
  /\ challengeStatus' = [challengeStatus EXCEPT ![req[h].challenge] = "verified"]
  /\ req' = [req EXCEPT ![h] = Idle]
  /\ UNCHANGED <<challengeWallet, overdue, signed, profiles, rows, blacklistedEndpoints, drafts>>

\* Faulty variant of requireVerifiedProof: a proof is good for every wallet.
requireSomeProof(c, w) == challengeStatus[c] = "verified"

\* The caller names the proof of the last verification of c; one that an earlier
\* verification returned is found no more.
requireVerifiedProof(c, w) ==
  /\ challengeStatus[c] = "verified"
  /\ challengeWallet[c] = w

-----------------------------------------------------------------------------
(* getAgent and listAgents, with which most handlers answer, first write   *)
(* the rows of the built-in agents anew.                                   *)

Anew(f, value) == [a \in AllAgents |-> IF a \in BuiltIn THEN value ELSE f[a]]

bootstrapPlatformAgents(state, active, health, compatibility, reason) ==
  /\ registrationState' = Anew(state, "active")
  /\ isActive' = Anew(active, TRUE)
  /\ healthStatus' = Anew(health, "healthy")
  /\ compatibilityStatus' = Anew(compatibility, "compatible")
  /\ suspensionReason' = Anew(reason, FALSE)

Bootstraps ==
  bootstrapPlatformAgents(registrationState, isActive, healthStatus, compatibilityStatus,
                          suspensionReason)

\* updateMetadata changes what is left out here, and answers in the same way.
listAgents ==
  /\ Bootstraps
  /\ UNCHANGED <<challenges, profiles, blacklistedEndpoints, drafts, req>>
-----------------------------------------------------------------------------
(* Checks of an agent's endpoint. *)

\* validateEndpoint throws for a URL that is not http(s), or is blacklisted.
validateEndpoint(a) == endpointUrl[a] \notin NotHttp \cup blacklistedEndpoints

assertOwner(a, w) == Registered(a) /\ ownerWallet[a] = w

\* Writes the status of a check; getAgent follows if the request answers with it.
Writes(health, compatibility, answers) ==
  IF answers
  THEN bootstrapPlatformAgents(registrationState, isActive, health, compatibility,
                               suspensionReason)
  ELSE /\ healthStatus' = health
       /\ compatibilityStatus' = compatibility
       /\ UNCHANGED <<registrationState, isActive, suspensionReason>>

runPrePublishHealthcheck(h, a, w) ==
  /\ req[h] = Idle
  /\ assertOwner(a, w)
  /\ endpointUrl[a] # NoEndpoint
  /\ validateEndpoint(a)
  /\ req' = [req EXCEPT ![h] = Waits("health", a, "health")]
  /\ UNCHANGED <<challenges, profiles, rows, blacklistedEndpoints, drafts>>

\* Faulty variant of testCompatibility: a request is sent to no address.
TestsNoEndpoint(h, a, w, purpose) ==
  /\ req[h] = Idle
  /\ assertOwner(a, w)
  /\ validateEndpoint(a)
  /\ req' = [req EXCEPT ![h] = Waits("compat", a, purpose)]
  /\ UNCHANGED <<challenges, profiles, rows, blacklistedEndpoints, drafts>>

\* An agent without an endpoint fails the test on the spot.
testCompatibility(h, a, w, purpose) ==
  /\ req[h] = Idle
  /\ assertOwner(a, w)
  /\ IF endpointUrl[a] = NoEndpoint
     THEN /\ Writes(healthStatus, [compatibilityStatus EXCEPT ![a] = "incompatible"], FALSE)
          /\ UNCHANGED req
     ELSE /\ validateEndpoint(a)
          /\ req' = [req EXCEPT ![h] = Waits("compat", a, purpose)]
          /\ UNCHANGED rows
  /\ UNCHANGED <<challenges, profiles, blacklistedEndpoints, drafts>>

\* /health answers, or fails.  A registration or publication goes on with the
\* test, which throws if the endpoint was blacklisted meanwhile.
HealthAnswers(h, ok) ==
  /\ req[h].pc = "health"
  /\ LET a == req[h].agent
         purpose == req[h].purpose
     IN  /\ Writes([healthStatus EXCEPT ![a] = IF ok THEN "healthy" ELSE "unhealthy"],
                   compatibilityStatus, FALSE)
         /\ req' = [req EXCEPT ![h] = IF purpose \in BothChecks /\ validateEndpoint(a)
                                      THEN Waits("compat", a, purpose) ELSE Idle]
  /\ UNCHANGED <<challenges, profiles, blacklistedEndpoints, drafts>>

\* The report of validateAgent is written.
Reports(h, status) ==
  /\ Writes(healthStatus, [compatibilityStatus EXCEPT ![req[h].agent] = status],
            req[h].purpose \in BothChecks)
  /\ req' = [req EXCEPT ![h] = Idle]

GoesOn(h, pc) ==
  /\ req' = [req EXCEPT ![h] = Waits(pc, req[h].agent, req[h].purpose)]
  /\ UNCHANGED rows

\* What the agent declared may not be what its answers say.
Judged(h) == \E status \in {"compatible", "warning"} : Reports(h, status)

\* validateAgent: /health, then /execute with a job and /status.
CompatAnswers(h, ok) ==
  /\ req[h].pc = "compat"
  /\ IF ok
     THEN IF req[h].purpose = "test" THEN Judged(h) ELSE GoesOn(h, "execute")
     ELSE Reports(h, "incompatible")
  /\ UNCHANGED <<challenges, profiles, blacklistedEndpoints, drafts>>

\* The job is done at once, refused, or started, and its run then asked for once;
\* or an answer is missing or useless.
ExecuteAnswers(h) ==
  /\ req[h].pc = "execute"
  /\ Judged(h) \/ Reports(h, "incompatible")
  /\ UNCHANGED <<challenges, profiles, blacklistedEndpoints, drafts>>

-----------------------------------------------------------------------------
(* Registration and publication. *)

Enters(a, w, origin, e) ==
  /\ ~Registered(a)
  /\ ownerWallet' = [ownerWallet EXCEPT ![a] = w]
  /\ originType' = [originType EXCEPT ![a] = origin]
  /\ endpointUrl' = [endpointUrl EXCEPT ![a] = e]

Becomes(a, state) == [registrationState EXCEPT ![a] = state]

\* Faulty variant of registerAgent: an external agent is taken without a check.
RegistersUnchecked(h, a, c, w, origin, e) ==
  /\ req[h] = Idle
  /\ requireVerifiedProof(c, w)
  /\ Enters(a, w, origin, e)
  /\ bootstrapPlatformAgents(Becomes(a, "draft"), isActive, healthStatus,
                             compatibilityStatus, suspensionReason)
  /\ UNCHANGED <<challenges, blacklistedEndpoints, drafts, req>>

\* An external agent is in the registry before its endpoint is validated; if
\* that throws, it stays.
registerAgent(h, a, c, w, origin, e) ==
  /\ req[h] = Idle
  /\ requireVerifiedProof(c, w)
  /\ origin = "external" => e # NoEndpoint
  /\ Enters(a, w, origin, e)
  /\ IF origin = "external"
     THEN /\ registrationState' = Becomes(a, "verified")
          /\ req' = IF e \in NotHttp \cup blacklistedEndpoints THEN req
                    ELSE [req EXCEPT ![h] = Waits("health", a, "register")]
          /\ UNCHANGED <<isActive, healthStatus, compatibilityStatus, suspensionReason>>
     ELSE /\ bootstrapPlatformAgents(Becomes(a, "draft"), isActive, healthStatus,
                                     compatibilityStatus, suspensionReason)
          /\ UNCHANGED req
  /\ UNCHANGED <<challenges, blacklistedEndpoints, drafts>>

\* A publication that asks for one of the checks is one without, and the check as
\* a request of its own.
publishVersion(h, a, w, checks) ==
  /\ req[h] = Idle
  /\ assertOwner(a, w)
  /\ IF originType[a] = "external" /\ checks
     THEN /\ registrationState' = Becomes(a, "published")
          /\ req' = IF validateEndpoint(a)
                    THEN [req EXCEPT ![h] = Waits("health", a, "publish")] ELSE req
          /\ UNCHANGED <<isActive, healthStatus, compatibilityStatus, suspensionReason>>
     ELSE /\ bootstrapPlatformAgents(Becomes(a, "published"), isActive, healthStatus,
                                     compatibilityStatus, suspensionReason)
          /\ UNCHANGED req
  /\ UNCHANGED <<challenges, profiles, blacklistedEndpoints, drafts>>

-----------------------------------------------------------------------------
(* Activity. *)

activate(a, w) ==
  /\ assertOwner(a, w)
  /\ registrationState[a] # "suspended"
  /\ bootstrapPlatformAgents(Becomes(a, "active"), [isActive EXCEPT ![a] = TRUE],
                             healthStatus, compatibilityStatus, suspensionReason)
  /\ UNCHANGED <<challenges, profiles, blacklistedEndpoints, drafts, req>>

deactivate(a, w) ==
  /\ assertOwner(a, w)
  /\ bootstrapPlatformAgents(Becomes(a, "inactive"), [isActive EXCEPT ![a] = FALSE],
                             healthStatus, compatibilityStatus, suspensionReason)
  /\ UNCHANGED <<challenges, profiles, blacklistedEndpoints, drafts, req>>

\* Faulty variant of suspend: the agent stays active.
SuspendsInName(a) ==
  /\ Registered(a)
  /\ bootstrapPlatformAgents(Becomes(a, "suspended"), isActive,
                             [healthStatus EXCEPT ![a] = "suspended"], compatibilityStatus,
                             [suspensionReason EXCEPT ![a] = TRUE])
  /\ UNCHANGED <<challenges, profiles, blacklistedEndpoints, drafts, req>>

\* An administrator's suspend, and disableAgent.
suspend(a) ==
  /\ Registered(a)
  /\ bootstrapPlatformAgents(Becomes(a, "suspended"), [isActive EXCEPT ![a] = FALSE],
                             [healthStatus EXCEPT ![a] = "suspended"], compatibilityStatus,
                             [suspensionReason EXCEPT ![a] = TRUE])
  /\ UNCHANGED <<challenges, profiles, blacklistedEndpoints, drafts, req>>

\* Nothing takes an endpoint off the list.
blacklistEndpoint(e) ==
  /\ blacklistedEndpoints' = blacklistedEndpoints \cup {e}
  /\ UNCHANGED <<challenges, profiles, rows, drafts, req>>

-----------------------------------------------------------------------------
(* The builder. *)

createDraft(d, w) ==
  /\ draftOwner[d] = NoWallet
  /\ draftOwner' = [draftOwner EXCEPT ![d] = w]
  /\ UNCHANGED <<lastTestRun, challenges, profiles, rows, blacklistedEndpoints, req>>

\* The test of what the draft was stays with it.
updateDraft(d) ==
  /\ draftOwner[d] # NoWallet
  /\ lastTestRun' = [lastTestRun EXCEPT ![d] = IF @ = "none" THEN "none" ELSE "outdated"]
  /\ UNCHANGED <<draftOwner, challenges, profiles, rows, blacklistedEndpoints, req>>

runTest(d) ==
  /\ draftOwner[d] # NoWallet
  /\ lastTestRun' = [lastTestRun EXCEPT ![d] = "current"]
  /\ UNCHANGED <<draftOwner, challenges, profiles, rows, blacklistedEndpoints, req>>

\* registerAgent, publishVersion and, if asked for, activate, with no wait between.
publishDraft(d, a, c, activates) ==
  LET w == draftOwner[d]
  IN  /\ w # NoWallet
      /\ lastTestRun[d] # "none"
      /\ requireVerifiedProof(c, w)
      /\ Enters(a, w, "platform", NoEndpoint)
      /\ bootstrapPlatformAgents(Becomes(a, IF activates THEN "active" ELSE "published"),
                                 [isActive EXCEPT ![a] = activates],
                                 healthStatus, compatibilityStatus, suspensionReason)
      /\ UNCHANGED <<challenges, blacklistedEndpoints, drafts, req>>

-----------------------------------------------------------------------------
Answers(h) ==
  \/ VerifierRefuses(h) \/ VerifierAccepts(h)
  \/ \E ok \in BOOLEAN : HealthAnswers(h, ok) \/ CompatAnswers(h, ok)
  \/ ExecuteAnswers(h)

Proves(w) ==
  \E c \in Challenges :
    \/ issueChallenge(c, w)
    \/ TimePasses(c)
    \/ \E h \in Handlers, good \in BOOLEAN : verifyChallenge(h, c, w, good)

Registers(w) ==
  \E h \in Handlers, a \in Agents, c \in Challenges, origin \in {"platform", "external"},
     e \in Endpoints \cup {NoEndpoint} : registerAgent(h, a, c, w, origin, e)

Owns(w) ==
  \E a \in AllAgents :
    \/ activate(a, w) \/ deactivate(a, w)
    \/ \E h \in Handlers :
         \/ \E checks \in BOOLEAN : publishVersion(h, a, w, checks)
         \/ runPrePublishHealthcheck(h, a, w)
         \/ \E purpose \in {"probe", "test"} : testCompatibility(h, a, w, purpose)

Administers ==
  \/ \E a \in AllAgents : suspend(a)
  \/ \E e \in Endpoints : blacklistEndpoint(e)

Builds ==
  \E d \in Drafts :
    \/ \E w \in Wallets : createDraft(d, w)
    \/ updateDraft(d) \/ runTest(d)
    \/ \E a \in Agents, c \in Challenges, activates \in BOOLEAN :
         publishDraft(d, a, c, activates)

Next ==
  \/ listAgents \/ Administers \/ Builds
  \/ \E w \in Wallets : Proves(w) \/ Registers(w) \/ Owns(w)
  \/ \E h \in Handlers : Answers(h)

Spec == Init /\ [][Next]_vars

-----------------------------------------------------------------------------
(* Properties. *)

Requests ==
  {Idle}
  \cup [pc : {"verify"}, challenge : Challenges, good : BOOLEAN]
  \cup [pc : {"health", "compat", "execute"}, agent : Agents, purpose : Purposes]

\* The type of every variable.  Only registered agents with an endpoint are
\* waited for: a built-in agent has none.
TypeOK ==
  /\ challengeStatus \in [Challenges -> {"none", "issued", "verified", "expired"}]
  /\ challengeWallet \in [Challenges -> Wallets \cup {NoWallet}]
  /\ overdue \subseteq Challenges /\ signed \subseteq Challenges
  /\ ownerWallet \in [AllAgents -> Wallets \cup {NoWallet}]
  /\ originType \in [AllAgents -> {"platform", "external"}]
  /\ endpointUrl \in [AllAgents -> Endpoints \cup {NoEndpoint}]
  /\ registrationState \in [AllAgents -> RegistrationStates]
  /\ isActive \in [AllAgents -> BOOLEAN]
  /\ healthStatus \in [AllAgents -> HealthStatuses]
  /\ compatibilityStatus \in [AllAgents -> CompatibilityStatuses]
  /\ suspensionReason \in [AllAgents -> BOOLEAN]
  /\ blacklistedEndpoints \subseteq Endpoints
  /\ draftOwner \in [Drafts -> Wallets \cup {NoWallet}]
  /\ lastTestRun \in [Drafts -> {"none", "current", "outdated"}]
  /\ req \in [Handlers -> Requests]
  /\ \A a \in BuiltIn :
       ownerWallet[a] = PlatformWallet /\ originType[a] = "platform" /\ endpointUrl[a] = NoEndpoint

\* Nobody registers an agent for a wallet that has not signed a challenge of its
\* own (requireVerifiedProof, verifyChallenge), whatever requests overlap.
OwnersHaveSigned ==
  \A a \in Agents : Registered(a) =>
    \E c \in signed : challengeWallet[c] = ownerWallet[a]

\* isActive and registrationState are written by different handlers and read by
\* different ones: an active agent is active or published to the reader of the
\* other field, never suspended, inactive or a draft; a suspended one has a reason.
ActivityAgrees ==
  \A a \in AllAgents :
    /\ isActive[a] => Registered(a) /\ registrationState[a] \in {"active", "published"}
    /\ registrationState[a] = "active" => isActive[a]
    /\ registrationState[a] = "suspended" => suspensionReason[a]

Registering(a) == \E h \in Handlers :
  req[h].pc \notin {"idle", "verify"} /\ req[h].agent = a /\ req[h].purpose = "register"

\* A registration leaves no external agent without both checks, unless its
\* endpoint is one that validateEndpoint refuses, from the start or by the time
\* of the second check: that ends the request but keeps the agent.
AdmittedIsChecked ==
  \A a \in Agents :
    /\ originType[a] = "external"
    /\ "unknown" \in {healthStatus[a], compatibilityStatus[a]}
    => Registering(a) \/ endpointUrl[a] \in NotHttp \cup blacklistedEndpoints

-----------------------------------------------------------------------------
(* What the code does not keep. *)

\* "Suspended agents cannot be activated" (agentRegistryService.ts:182): an agent
\* an administrator has suspended is not active again.
SuspendedStaysInactive == \A a \in AllAgents : suspensionReason[a] => ~isActive[a]

\* Suspending an agent has an effect on it (adminService.ts, disableAgent).
SuspensionTakes == [][\A a \in AllAgents : suspend(a) => ~isActive'[a]]_vars

\* A proof that was handed out stays good (a second verification may expire it).
ProofsStay ==
  [][\A c \in Challenges : challengeStatus[c] = "verified" =>
       challengeStatus'[c] = "verified"]_vars

\* A challenge that has expired is not verified any more.
ExpiredStays ==
  [][\A c \in Challenges : challengeStatus[c] = "expired" => challengeStatus'[c] = "expired"]_vars

\* A suspended agent does not look healthy (the late answer of a check).
SuspendedIsNotHealthy ==
  \A a \in AllAgents : registrationState[a] = "suspended" => healthStatus[a] = "suspended"

\* "Endpoint must use http or https" (safetyService.ts:12): no agent is in the
\* registry with another one.  (registerAgent writes the row before it asks.)
EndpointsAreHttp == \A a \in AllAgents : endpointUrl[a] \notin NotHttp

\* No job is sent to an endpoint on the blacklist.
BlacklistedGetsNoJob ==
  [][\A h \in Handlers : req[h].pc # "execute" /\ req'[h].pc = "execute" =>
       validateEndpoint(req'[h].agent)]_vars

\* "Run a test before publishing" (agentBuilderService.ts:120): what a draft
\* publishes is what was tested.
TestedIsPublished ==
  [][\A d \in Drafts, a \in Agents, c \in Challenges, activates \in BOOLEAN :
       publishDraft(d, a, c, activates) => lastTestRun[d] = "current"]_vars
=============================================================================
