--------------------- MODULE AgentRegistryServiceProofs ---------------------
(***************************************************************************)
(* What AgentRegistryService keeps for any wallets, agents, endpoints,     *)
(* challenges, drafts and requests at one time.  TypeOK is inductive; the  *)
(* three invariants below are inductive once the requests that wait and    *)
(* the agents nobody has registered yet are brought in.                    *)
(***************************************************************************)
EXTENDS AgentRegistryService, TLAPS

USE RegistryConstants

\* Case analysis on the steps: a formula that every action implies, and the
\* step that changes nothing, holds of every step.
LEMMA Steps ==
  ASSUME [Next]_vars
  PROVE  \/ UNCHANGED vars
         \/ listAgents
         \/ \E a \in AllAgents : suspend(a)
         \/ \E e \in Endpoints : blacklistEndpoint(e)
         \/ \E d \in Drafts, w \in Wallets : createDraft(d, w)
         \/ \E d \in Drafts : updateDraft(d) \/ runTest(d)
         \/ \E d \in Drafts, a \in Agents, c \in Challenges, activates \in BOOLEAN :
              publishDraft(d, a, c, activates)
         \/ \E c \in Challenges, w \in Wallets : issueChallenge(c, w)
         \/ \E c \in Challenges : TimePasses(c)
         \/ \E h \in Handlers, c \in Challenges, w \in Wallets, good \in BOOLEAN :
              verifyChallenge(h, c, w, good)
         \/ \E h \in Handlers, a \in Agents, c \in Challenges, w \in Wallets,
               origin \in {"platform", "external"}, e \in Endpoints \cup {NoEndpoint} :
              registerAgent(h, a, c, w, origin, e)
         \/ \E a \in AllAgents, w \in Wallets : activate(a, w) \/ deactivate(a, w)
         \/ \E h \in Handlers, a \in AllAgents, w \in Wallets, checks \in BOOLEAN :
              publishVersion(h, a, w, checks)
         \/ \E h \in Handlers, a \in AllAgents, w \in Wallets :
              runPrePublishHealthcheck(h, a, w)
         \/ \E h \in Handlers, a \in AllAgents, w \in Wallets, purpose \in {"probe", "test"} :
              testCompatibility(h, a, w, purpose)
         \/ \E h \in Handlers : VerifierRefuses(h) \/ VerifierAccepts(h)
         \/ \E h \in Handlers, ok \in BOOLEAN : HealthAnswers(h, ok) \/ CompatAnswers(h, ok)
         \/ \E h \in Handlers : ExecuteAnswers(h)
  BY DEF Next, Administers, Builds, Proves, Registers, Owns, Answers

\* The rows' part of TypeOK.
RowsOK ==
  /\ registrationState \in [AllAgents -> RegistrationStates]
  /\ isActive \in [AllAgents -> BOOLEAN]
  /\ healthStatus \in [AllAgents -> HealthStatuses]
  /\ compatibilityStatus \in [AllAgents -> CompatibilityStatuses]
  /\ suspensionReason \in [AllAgents -> BOOLEAN]

\* bootstrapPlatformAgents writes rows if it is given rows.
LEMMA BootstrapTypes ==
  ASSUME NEW state \in [AllAgents -> RegistrationStates],
         NEW active \in [AllAgents -> BOOLEAN],
         NEW health \in [AllAgents -> HealthStatuses],
         NEW compatibility \in [AllAgents -> CompatibilityStatuses],
         NEW reason \in [AllAgents -> BOOLEAN],
         bootstrapPlatformAgents(state, active, health, compatibility, reason)
  PROVE  RowsOK'
  BY DEF bootstrapPlatformAgents, Anew, RowsOK, RegistrationStates, HealthStatuses,
         CompatibilityStatuses

\* So does the writing of a check.
LEMMA WriteTypes ==
  ASSUME RowsOK,
         NEW health \in [AllAgents -> HealthStatuses],
         NEW compatibility \in [AllAgents -> CompatibilityStatuses],
         NEW answers \in BOOLEAN,
         Writes(health, compatibility, answers)
  PROVE  RowsOK'
  <1>1. CASE answers
    BY <1>1, BootstrapTypes DEF Writes, RowsOK
  <1>2. CASE ~answers
    BY <1>2 DEF Writes, RowsOK
  <1> QED BY <1>1, <1>2

LEMMA BecomesTypes ==
  ASSUME RowsOK, NEW a \in AllAgents, NEW state \in RegistrationStates
  PROVE  Becomes(a, state) \in [AllAgents -> RegistrationStates]
  BY DEF RowsOK, Becomes

\* The rest of TypeOK.
ProofsOK ==
  /\ challengeStatus \in [Challenges -> {"none", "issued", "verified", "expired"}]
  /\ challengeWallet \in [Challenges -> Wallets \cup {NoWallet}]
  /\ overdue \subseteq Challenges /\ signed \subseteq Challenges

ProfilesOK ==
  /\ ownerWallet \in [AllAgents -> Wallets \cup {NoWallet}]
  /\ originType \in [AllAgents -> {"platform", "external"}]
  /\ endpointUrl \in [AllAgents -> Endpoints \cup {NoEndpoint}]
  /\ blacklistedEndpoints \subseteq Endpoints
  /\ \A a \in BuiltIn :
       ownerWallet[a] = PlatformWallet /\ originType[a] = "platform" /\ endpointUrl[a] = NoEndpoint

DraftsOK ==
  /\ draftOwner \in [Drafts -> Wallets \cup {NoWallet}]
  /\ lastTestRun \in [Drafts -> {"none", "current", "outdated"}]

RequestsOK == req \in [Handlers -> Requests]

LEMMA TypeParts == TypeOK <=> RowsOK /\ ProofsOK /\ ProfilesOK /\ DraftsOK /\ RequestsOK
  BY DEF TypeOK, RowsOK, ProofsOK, ProfilesOK, DraftsOK, RequestsOK

LEMMA TypeInit == Init => TypeOK
  BY DEF Init, TypeOK, AllAgents, RegistrationStates, HealthStatuses, CompatibilityStatuses,
         Requests, Idle

\* A request that waits is one of the kinds, whatever the others are.
LEMMA RequestTypes ==
  ASSUME RequestsOK, NEW h \in Handlers, NEW r \in Requests
  PROVE  [req EXCEPT ![h] = r] \in [Handlers -> Requests]
  BY DEF RequestsOK

LEMMA WaitTypes ==
  /\ Idle \in Requests
  /\ \A c \in Challenges, good \in BOOLEAN : Verifying(c, good) \in Requests
  /\ \A pc \in {"health", "compat", "execute"}, a \in Agents, purpose \in Purposes :
       Waits(pc, a, purpose) \in Requests
  BY DEF Idle, Verifying, Waits, Requests

\* What a request that waits for an agent's answer is about.
LEMMA WaitingFor ==
  ASSUME RequestsOK, NEW h \in Handlers, req[h].pc \in {"health", "compat", "execute"}
  PROVE  req[h].agent \in Agents /\ req[h].purpose \in Purposes
  BY DEF RequestsOK, Requests, Idle

LEMMA Verifies ==
  ASSUME RequestsOK, NEW h \in Handlers, req[h].pc = "verify"
  PROVE  req[h].challenge \in Challenges /\ req[h].good \in BOOLEAN
  BY DEF RequestsOK, Requests, Idle

\* Profiles are written once, for an agent that is not built in.
LEMMA EntersTypes ==
  ASSUME ProfilesOK, NEW a \in Agents, NEW w \in Wallets,
         NEW origin \in {"platform", "external"}, NEW e \in Endpoints \cup {NoEndpoint},
         Enters(a, w, origin, e), UNCHANGED blacklistedEndpoints
  PROVE  ProfilesOK'
  BY DEF ProfilesOK, Enters, AllAgents

LEMMA TypeStep == TypeOK /\ [Next]_vars => TypeOK'
  <1> SUFFICES ASSUME RowsOK, ProofsOK, ProfilesOK, DraftsOK, RequestsOK, [Next]_vars
               PROVE  RowsOK' /\ ProofsOK' /\ ProfilesOK' /\ DraftsOK' /\ RequestsOK'
    BY DEF TypeOK, RowsOK, ProofsOK, ProfilesOK, DraftsOK, RequestsOK
  <1> USE DEF challenges, profiles, rows, drafts
  <1>1. CASE UNCHANGED vars
    BY <1>1 DEF vars, RowsOK, ProofsOK, ProfilesOK, DraftsOK, RequestsOK
  <1>2. CASE listAgents
    <2>1. RowsOK'  BY <1>2, BootstrapTypes DEF listAgents, Bootstraps, RowsOK
    <2> QED BY <1>2, <2>1 DEF listAgents, ProofsOK, ProfilesOK, DraftsOK, RequestsOK
  <1>3. ASSUME NEW a \in AllAgents, suspend(a)
        PROVE  RowsOK' /\ ProofsOK' /\ ProfilesOK' /\ DraftsOK' /\ RequestsOK'
    <2>1. Becomes(a, "suspended") \in [AllAgents -> RegistrationStates]
      BY BecomesTypes DEF RegistrationStates
    <2>2. [healthStatus EXCEPT ![a] = "suspended"] \in [AllAgents -> HealthStatuses]
      BY DEF RowsOK, HealthStatuses
    <2>3. /\ [isActive EXCEPT ![a] = FALSE] \in [AllAgents -> BOOLEAN]
          /\ [suspensionReason EXCEPT ![a] = TRUE] \in [AllAgents -> BOOLEAN]
      BY DEF RowsOK
    <2>4. RowsOK'  BY <1>3, <2>1, <2>2, <2>3, BootstrapTypes DEF suspend, RowsOK
    <2> QED BY <1>3, <2>4 DEF suspend, ProofsOK, ProfilesOK, DraftsOK, RequestsOK
  <1>4. ASSUME NEW e \in Endpoints, blacklistEndpoint(e)
        PROVE  RowsOK' /\ ProofsOK' /\ ProfilesOK' /\ DraftsOK' /\ RequestsOK'
    BY <1>4 DEF blacklistEndpoint, RowsOK, ProofsOK, ProfilesOK, DraftsOK, RequestsOK
  <1>5. ASSUME NEW d \in Drafts,
               (\E w \in Wallets : createDraft(d, w)) \/ updateDraft(d) \/ runTest(d)
        PROVE  RowsOK' /\ ProofsOK' /\ ProfilesOK' /\ DraftsOK' /\ RequestsOK'
    <2>1. DraftsOK'  BY <1>5 DEF createDraft, updateDraft, runTest, DraftsOK
    <2> QED
      BY <1>5, <2>1 DEF createDraft, updateDraft, runTest, RowsOK, ProofsOK, ProfilesOK, RequestsOK
  <1>6. ASSUME NEW d \in Drafts, NEW a \in Agents, NEW c \in Challenges,
               NEW activates \in BOOLEAN, publishDraft(d, a, c, activates)
        PROVE  RowsOK' /\ ProofsOK' /\ ProfilesOK' /\ DraftsOK' /\ RequestsOK'
    <2>1. Becomes(a, IF activates THEN "active" ELSE "published")
            \in [AllAgents -> RegistrationStates]
      BY BecomesTypes DEF RegistrationStates, AllAgents
    <2>2. [isActive EXCEPT ![a] = activates] \in [AllAgents -> BOOLEAN]
      BY DEF RowsOK
    <2>3. RowsOK'  BY <1>6, <2>1, <2>2, BootstrapTypes DEF publishDraft, RowsOK
    <2>4. draftOwner[d] \in Wallets  BY <1>6 DEF publishDraft, DraftsOK
    <2>5. ProfilesOK'  BY <1>6, <2>4, EntersTypes DEF publishDraft
    <2> QED BY <1>6, <2>3, <2>5 DEF publishDraft, ProofsOK, DraftsOK, RequestsOK
  <1>7. ASSUME NEW c \in Challenges, (\E w \in Wallets : issueChallenge(c, w)) \/ TimePasses(c)
        PROVE  RowsOK' /\ ProofsOK' /\ ProfilesOK' /\ DraftsOK' /\ RequestsOK'
    <2>1. ProofsOK'  BY <1>7 DEF issueChallenge, TimePasses, ProofsOK
    <2> QED BY <1>7, <2>1 DEF issueChallenge, TimePasses, RowsOK, ProfilesOK, DraftsOK, RequestsOK
  <1>8. ASSUME NEW h \in Handlers, NEW c \in Challenges, NEW w \in Wallets,
               NEW good \in BOOLEAN, verifyChallenge(h, c, w, good)
        PROVE  RowsOK' /\ ProofsOK' /\ ProfilesOK' /\ DraftsOK' /\ RequestsOK'
    <2>1. ProofsOK'  BY <1>8 DEF verifyChallenge, ProofsOK
    <2>2. RequestsOK'
      BY <1>8, RequestTypes, WaitTypes DEF verifyChallenge, RequestsOK
    <2> QED BY <1>8, <2>1, <2>2 DEF verifyChallenge, RowsOK, ProfilesOK, DraftsOK
  <1>9. ASSUME NEW h \in Handlers, NEW a \in Agents, NEW c \in Challenges, NEW w \in Wallets,
               NEW origin \in {"platform", "external"}, NEW e \in Endpoints \cup {NoEndpoint},
               registerAgent(h, a, c, w, origin, e)
        PROVE  RowsOK' /\ ProofsOK' /\ ProfilesOK' /\ DraftsOK' /\ RequestsOK'
    <2>1. /\ Becomes(a, "verified") \in [AllAgents -> RegistrationStates]
          /\ Becomes(a, "draft") \in [AllAgents -> RegistrationStates]
      BY BecomesTypes DEF RegistrationStates, AllAgents
    <2>2. RowsOK'
      <3>1. CASE origin = "external"  BY <1>9, <2>1, <3>1 DEF registerAgent, RowsOK
      <3>2. CASE origin # "external"
        BY <1>9, <2>1, <3>2, BootstrapTypes DEF registerAgent, RowsOK
      <3> QED BY <3>1, <3>2
    <2>3. ProfilesOK'  BY <1>9, EntersTypes DEF registerAgent
    <2>4. RequestsOK'
      BY <1>9, RequestTypes, WaitTypes DEF registerAgent, RequestsOK, Purposes, BothChecks
    <2> QED BY <1>9, <2>2, <2>3, <2>4 DEF registerAgent, ProofsOK, DraftsOK
  <1>10. ASSUME NEW a \in AllAgents, NEW w \in Wallets, activate(a, w) \/ deactivate(a, w)
         PROVE  RowsOK' /\ ProofsOK' /\ ProfilesOK' /\ DraftsOK' /\ RequestsOK'
    <2>1. /\ Becomes(a, "active") \in [AllAgents -> RegistrationStates]
          /\ Becomes(a, "inactive") \in [AllAgents -> RegistrationStates]
      BY BecomesTypes DEF RegistrationStates
    <2>2. \A b \in BOOLEAN : [isActive EXCEPT ![a] = b] \in [AllAgents -> BOOLEAN]
      BY DEF RowsOK
    <2>3. RowsOK'
      BY <1>10, <2>1, <2>2, BootstrapTypes DEF activate, deactivate, RowsOK
    <2> QED BY <1>10, <2>3 DEF activate, deactivate, ProofsOK, ProfilesOK, DraftsOK, RequestsOK
  <1>11. ASSUME NEW h \in Handlers, NEW a \in AllAgents, NEW w \in Wallets,
                NEW checks \in BOOLEAN, publishVersion(h, a, w, checks)
         PROVE  RowsOK' /\ ProofsOK' /\ ProfilesOK' /\ DraftsOK' /\ RequestsOK'
    <2>1. Becomes(a, "published") \in [AllAgents -> RegistrationStates]
      BY BecomesTypes DEF RegistrationStates
    <2>2. RowsOK'
      <3>1. CASE originType[a] = "external" /\ checks
        BY <1>11, <2>1, <3>1 DEF publishVersion, RowsOK
      <3>2. CASE ~(originType[a] = "external" /\ checks)
        BY <1>11, <2>1, <3>2, BootstrapTypes DEF publishVersion, RowsOK
      <3> QED BY <3>1, <3>2
    <2>3. originType[a] = "external" => a \in Agents  BY DEF ProfilesOK, AllAgents
    <2>4. RequestsOK'
      <3>1. CASE originType[a] = "external" /\ checks
        <4>1. Waits("health", a, "publish") \in Requests
          BY <2>3, <3>1, WaitTypes DEF Purposes, BothChecks
        <4> QED BY <1>11, <3>1, <4>1, RequestTypes DEF publishVersion, RequestsOK
      <3>2. CASE ~(originType[a] = "external" /\ checks)
        BY <1>11, <3>2 DEF publishVersion, RequestsOK
      <3> QED BY <3>1, <3>2
    <2> QED BY <1>11, <2>2, <2>4 DEF publishVersion, ProofsOK, ProfilesOK, DraftsOK
  <1>12. ASSUME NEW h \in Handlers, NEW a \in AllAgents, NEW w \in Wallets,
                runPrePublishHealthcheck(h, a, w)
         PROVE  RowsOK' /\ ProofsOK' /\ ProfilesOK' /\ DraftsOK' /\ RequestsOK'
    <2>1. a \in Agents  BY <1>12 DEF runPrePublishHealthcheck, ProfilesOK, AllAgents
    <2>2. Waits("health", a, "health") \in Requests  BY <2>1, WaitTypes DEF Purposes
    <2>3. RequestsOK'
      BY <1>12, <2>2, RequestTypes DEF runPrePublishHealthcheck, RequestsOK
    <2> QED BY <1>12, <2>3 DEF runPrePublishHealthcheck, RowsOK, ProofsOK, ProfilesOK, DraftsOK
  <1>13. ASSUME NEW h \in Handlers, NEW a \in AllAgents, NEW w \in Wallets,
                NEW purpose \in {"probe", "test"}, testCompatibility(h, a, w, purpose)
         PROVE  RowsOK' /\ ProofsOK' /\ ProfilesOK' /\ DraftsOK' /\ RequestsOK'
    <2>1. RowsOK' /\ RequestsOK'
      <3>1. CASE endpointUrl[a] = NoEndpoint
        <4>1. [compatibilityStatus EXCEPT ![a] = "incompatible"]
                \in [AllAgents -> CompatibilityStatuses]
          BY DEF RowsOK, CompatibilityStatuses
        <4>2. healthStatus \in [AllAgents -> HealthStatuses]  BY DEF RowsOK
        <4>3. RowsOK'  BY <1>13, <3>1, <4>1, <4>2, WriteTypes DEF testCompatibility
        <4> QED BY <1>13, <3>1, <4>3 DEF testCompatibility, RequestsOK
      <3>2. CASE endpointUrl[a] # NoEndpoint
        <4>1. a \in Agents  BY <3>2 DEF ProfilesOK, AllAgents
        <4>2. Waits("compat", a, purpose) \in Requests  BY <4>1, WaitTypes DEF Purposes
        <4> QED BY <1>13, <3>2, <4>2, RequestTypes DEF testCompatibility, RowsOK, RequestsOK
      <3> QED BY <3>1, <3>2
    <2> QED BY <1>13, <2>1 DEF testCompatibility, ProofsOK, ProfilesOK, DraftsOK
  <1>14. ASSUME NEW h \in Handlers, VerifierRefuses(h) \/ VerifierAccepts(h)
         PROVE  RowsOK' /\ ProofsOK' /\ ProfilesOK' /\ DraftsOK' /\ RequestsOK'
    <2>1. req[h].challenge \in Challenges
      BY <1>14, Verifies DEF VerifierRefuses, VerifierAccepts
    <2>2. ProofsOK'  BY <1>14, <2>1 DEF VerifierRefuses, VerifierAccepts, ProofsOK
    <2>3. RequestsOK'
      BY <1>14, RequestTypes, WaitTypes DEF VerifierRefuses, VerifierAccepts, RequestsOK
    <2> QED
      BY <1>14, <2>2, <2>3 DEF VerifierRefuses, VerifierAccepts, RowsOK, ProfilesOK, DraftsOK
  <1>15. ASSUME NEW h \in Handlers, NEW ok \in BOOLEAN, HealthAnswers(h, ok)
         PROVE  RowsOK' /\ ProofsOK' /\ ProfilesOK' /\ DraftsOK' /\ RequestsOK'
    <2>1. req[h].agent \in Agents /\ req[h].purpose \in Purposes
      BY <1>15, WaitingFor DEF HealthAnswers
    <2>2. [healthStatus EXCEPT ![req[h].agent] = IF ok THEN "healthy" ELSE "unhealthy"]
            \in [AllAgents -> HealthStatuses]
      BY <2>1 DEF RowsOK, HealthStatuses
    <2>3. RowsOK'  BY <1>15, <2>2, WriteTypes DEF HealthAnswers, RowsOK
    <2>4. Waits("compat", req[h].agent, req[h].purpose) \in Requests  BY <2>1, WaitTypes
    <2>5. RequestsOK'
      BY <1>15, <2>4, RequestTypes, WaitTypes DEF HealthAnswers, RequestsOK
    <2> QED BY <1>15, <2>3, <2>5 DEF HealthAnswers, ProofsOK, ProfilesOK, DraftsOK
  <1>16. ASSUME NEW h \in Handlers, req[h].pc \in {"compat", "execute"},
                (\E status \in CompatibilityStatuses : Reports(h, status)) \/ GoesOn(h, "execute")
         PROVE  RowsOK' /\ RequestsOK'
    <2>1. req[h].agent \in Agents /\ req[h].purpose \in Purposes  BY <1>16, WaitingFor
    <2>2. CASE GoesOn(h, "execute")
      <3>1. Waits("execute", req[h].agent, req[h].purpose) \in Requests  BY <2>1, WaitTypes
      <3> QED BY <2>2, <3>1, RequestTypes DEF GoesOn, RowsOK, RequestsOK
    <2>3. ASSUME NEW status \in CompatibilityStatuses, Reports(h, status)
          PROVE  RowsOK' /\ RequestsOK'
      <3> DEFINE written == [compatibilityStatus EXCEPT ![req[h].agent] = status]
                 answers == req[h].purpose \in BothChecks
      <3>1. written \in [AllAgents -> CompatibilityStatuses]  BY <2>1 DEF RowsOK
      <3>2. healthStatus \in [AllAgents -> HealthStatuses]  BY DEF RowsOK
      <3>3. answers \in BOOLEAN  OBVIOUS
      <3>4. Writes(healthStatus, written, answers)  BY <2>3 DEF Reports
      <3>5. RowsOK'
        <4> HIDE DEF written, answers
        <4> QED BY <3>1, <3>2, <3>3, <3>4, WriteTypes
      <3> QED BY <2>3, <3>5, RequestTypes, WaitTypes DEF Reports, RequestsOK
    <2> QED BY <1>16, <2>2, <2>3
  <1>17. ASSUME NEW h \in Handlers, NEW ok \in BOOLEAN, CompatAnswers(h, ok) \/ ExecuteAnswers(h)
         PROVE  RowsOK' /\ ProofsOK' /\ ProfilesOK' /\ DraftsOK' /\ RequestsOK'
    <2>1. RowsOK' /\ RequestsOK'
      BY <1>16, <1>17 DEF CompatAnswers, ExecuteAnswers, Judged, CompatibilityStatuses
    <2> QED
      BY <1>17, <2>1 DEF CompatAnswers, ExecuteAnswers, ProofsOK, ProfilesOK, DraftsOK
  <1> QED
    BY Steps, <1>1, <1>2, <1>3, <1>4, <1>5, <1>6, <1>7, <1>8, <1>9, <1>10, <1>11, <1>12,
       <1>13, <1>14, <1>15, <1>17, ZenonT(60)

\* Every reachable state of the registry has its types; no built-in agent is
\* ever waited for.
THEOREM RegistryTypeCorrect == Spec => []TypeOK
  <1>1. Init => TypeOK  BY TypeInit
  <1>2. TypeOK /\ [Next]_vars => TypeOK'  BY TypeStep
  <1> QED BY <1>1, <1>2, PTL DEF Spec

-----------------------------------------------------------------------------
(* Owners.  A challenge is signed only after it was issued, and the answer *)
(* a verification waits for is about a signed one if its signature is good.*)

OwnersInv ==
  /\ \A c \in signed : challengeStatus[c] # "none"
  /\ \A c \in Challenges : challengeStatus[c] = "verified" => c \in signed
  /\ \A h \in Handlers : req[h].pc = "verify" /\ req[h].good => req[h].challenge \in signed
  /\ OwnersHaveSigned

\* What most steps leave as it is.
OwnersFrame ==
  /\ UNCHANGED <<challengeStatus, challengeWallet, signed, ownerWallet>>
  /\ \A h \in Handlers : req'[h].pc = "verify" => req'[h] = req[h]

LEMMA OwnersFramed ==
  ASSUME OwnersInv, OwnersFrame
  PROVE  OwnersInv'
  BY DEF OwnersInv, OwnersFrame, OwnersHaveSigned, Registered

LEMMA OwnersEnter ==
  ASSUME TypeOK, OwnersInv, NEW c \in Challenges, NEW a \in Agents, NEW w \in Wallets,
         requireVerifiedProof(c, w), ownerWallet' = [ownerWallet EXCEPT ![a] = w],
         UNCHANGED challenges,
         \A h \in Handlers : req'[h].pc = "verify" => req'[h] = req[h]
  PROVE  OwnersInv'
  <1>1. \A b \in Agents : b # a => ownerWallet'[b] = ownerWallet[b]
    BY DEF TypeOK, AllAgents
  <1>2. ownerWallet'[a] = w  BY DEF TypeOK, AllAgents
  <1>3. c \in signed /\ challengeWallet[c] = w  BY DEF OwnersInv, requireVerifiedProof
  <1>4. OwnersHaveSigned'
    BY <1>1, <1>2, <1>3 DEF OwnersInv, OwnersHaveSigned, Registered, challenges
  <1> QED BY <1>4 DEF OwnersInv, challenges

LEMMA OwnersStep == TypeOK /\ OwnersInv /\ [Next]_vars => OwnersInv'
  <1> SUFFICES ASSUME TypeOK, OwnersInv, [Next]_vars  PROVE OwnersInv'
    OBVIOUS
  <1> USE DEF challenges, profiles, rows, drafts
  <1>0. req \in [Handlers -> Requests]  BY DEF TypeOK
  <1>1. CASE UNCHANGED vars  BY <1>1, OwnersFramed DEF vars, OwnersFrame
  <1>2. CASE \/ listAgents \/ \E a \in AllAgents : suspend(a)
             \/ \E e \in Endpoints : blacklistEndpoint(e)
             \/ \E d \in Drafts, w \in Wallets : createDraft(d, w)
             \/ \E d \in Drafts : updateDraft(d) \/ runTest(d)
             \/ \E c \in Challenges : TimePasses(c)
             \/ \E a \in AllAgents, w \in Wallets : activate(a, w) \/ deactivate(a, w)
    BY <1>2, OwnersFramed DEF OwnersFrame, listAgents, suspend, blacklistEndpoint, createDraft,
       updateDraft, runTest, TimePasses, activate, deactivate
  <1>3. ASSUME NEW d \in Drafts, NEW a \in Agents, NEW c \in Challenges,
               NEW activates \in BOOLEAN, publishDraft(d, a, c, activates)
        PROVE  OwnersInv'
    <2>1. draftOwner[d] \in Wallets  BY <1>3 DEF publishDraft, TypeOK
    <2> QED BY <1>3, <2>1, OwnersEnter DEF publishDraft, Enters
  <1>4. ASSUME NEW c \in Challenges, NEW w \in Wallets, issueChallenge(c, w)  PROVE OwnersInv'
    <2>1. c \notin signed  BY <1>4 DEF issueChallenge, OwnersInv
    <2>2. \A b \in Challenges : b # c => /\ challengeStatus'[b] = challengeStatus[b]
                                        /\ challengeWallet'[b] = challengeWallet[b]
      BY <1>4 DEF issueChallenge, TypeOK
    <2>3. challengeStatus'[c] = "issued"  BY <1>4 DEF issueChallenge, TypeOK
    <2>4. signed \subseteq Challenges  BY DEF TypeOK
    <2>5. UNCHANGED <<signed, ownerWallet, req>>  BY <1>4 DEF issueChallenge
    <2> QED
      BY <2>1, <2>2, <2>3, <2>4, <2>5 DEF OwnersInv, OwnersHaveSigned, Registered
  <1>5. ASSUME NEW h \in Handlers, NEW c \in Challenges, NEW w \in Wallets,
               NEW good \in BOOLEAN, verifyChallenge(h, c, w, good)
        PROVE  OwnersInv'
    <2>1. /\ signed \subseteq signed' /\ signed' \subseteq signed \cup {c}
          /\ good => c \in signed'
          /\ UNCHANGED <<challengeWallet, ownerWallet>>
      BY <1>5 DEF verifyChallenge
    <2>0. challengeStatus \in [Challenges -> {"none", "issued", "verified", "expired"}]
      BY DEF TypeOK
    <2>a. /\ challengeStatus[c] # "none"
          /\ \/ challengeStatus' = challengeStatus
             \/ challengeStatus' = [challengeStatus EXCEPT ![c] = "expired"]
      BY <1>5 DEF verifyChallenge
    <2>2. /\ challengeStatus[c] # "none" /\ challengeStatus'[c] # "none"
          /\ \A b \in Challenges : \/ challengeStatus'[b] = challengeStatus[b]
                                   \/ b = c /\ challengeStatus'[b] = "expired"
      BY <2>0, <2>a
    <2>3. \A g \in Handlers : req'[g] = req[g] \/ req'[g] = Verifying(c, good)
      BY <1>0, <1>5 DEF verifyChallenge
    <2>4. signed \subseteq Challenges  BY DEF TypeOK
    <2>5. \A g \in Handlers : req'[g].pc = "verify" /\ req'[g].good => req'[g].challenge \in signed'
      BY <2>1, <2>3 DEF OwnersInv, Verifying
    <2>6. /\ \A b \in signed' : challengeStatus'[b] # "none"
          /\ \A b \in Challenges : challengeStatus'[b] = "verified" => b \in signed'
      BY <2>1, <2>2, <2>4 DEF OwnersInv
    <2>7. OwnersHaveSigned'  BY <2>1 DEF OwnersInv, OwnersHaveSigned, Registered
    <2> QED BY <2>5, <2>6, <2>7 DEF OwnersInv
  <1>6. ASSUME NEW h \in Handlers, NEW a \in Agents, NEW c \in Challenges, NEW w \in Wallets,
               NEW origin \in {"platform", "external"}, NEW e \in Endpoints \cup {NoEndpoint},
               registerAgent(h, a, c, w, origin, e)
        PROVE  OwnersInv'
    <2>1. \A g \in Handlers : req'[g].pc = "verify" => req'[g] = req[g]
      BY <1>0, <1>6 DEF registerAgent, Waits
    <2> QED BY <1>6, <2>1, OwnersEnter DEF registerAgent, Enters
  <1>7. ASSUME NEW h \in Handlers, NEW a \in AllAgents, NEW w \in Wallets,
               NEW checks \in BOOLEAN, publishVersion(h, a, w, checks)
        PROVE  OwnersInv'
    <2>1. \A g \in Handlers : req'[g].pc = "verify" => req'[g] = req[g]
      BY <1>0, <1>7 DEF publishVersion, Waits
    <2> QED BY <1>7, <2>1, OwnersFramed DEF publishVersion, OwnersFrame
  <1>8. ASSUME NEW h \in Handlers, NEW a \in AllAgents, NEW w \in Wallets,
               \/ runPrePublishHealthcheck(h, a, w)
               \/ \E purpose \in {"probe", "test"} : testCompatibility(h, a, w, purpose)
        PROVE  OwnersInv'
    <2>1. \/ req' = req
          \/ \E pc \in {"health", "compat"}, purpose \in Purposes :
               req' = [req EXCEPT ![h] = Waits(pc, a, purpose)]
      BY <1>8 DEF runPrePublishHealthcheck, testCompatibility, Purposes
    <2>2. \A g \in Handlers : req'[g].pc = "verify" => req'[g] = req[g]
      BY <1>0, <2>1 DEF Waits
    <2> QED
      BY <1>8, <2>2, OwnersFramed DEF runPrePublishHealthcheck, testCompatibility, OwnersFrame
  <1>9. ASSUME NEW h \in Handlers, VerifierRefuses(h)  PROVE OwnersInv'
    BY <1>0, <1>9, OwnersFramed DEF VerifierRefuses, OwnersFrame, Idle
  <1>10. ASSUME NEW h \in Handlers, VerifierAccepts(h)  PROVE OwnersInv'
    <2>1. req[h].challenge \in signed  BY <1>10 DEF VerifierAccepts, OwnersInv
    <2>2. \A c \in Challenges : \/ challengeStatus'[c] = challengeStatus[c]
                                \/ c = req[h].challenge /\ challengeStatus'[c] = "verified"
      <3>1. challengeStatus \in [Challenges -> {"none", "issued", "verified", "expired"}]
        BY DEF TypeOK
      <3>2. challengeStatus' = [challengeStatus EXCEPT ![req[h].challenge] = "verified"]
        BY <1>10 DEF VerifierAccepts
      <3> TAKE c \in Challenges
      <3>3. CASE c = req[h].challenge  BY <3>1, <3>2, <3>3
      <3>4. CASE c # req[h].challenge  BY <3>1, <3>2, <3>4
      <3> QED BY <3>3, <3>4
    <2>3. \A g \in Handlers : req'[g].pc = "verify" => req'[g] = req[g]
      BY <1>0, <1>10 DEF VerifierAccepts, Idle
    <2>4. UNCHANGED <<challengeWallet, signed, ownerWallet>>  BY <1>10 DEF VerifierAccepts
    <2>5. signed \subseteq Challenges  BY DEF TypeOK
    <2> QED BY <2>1, <2>2, <2>3, <2>4, <2>5 DEF OwnersInv, OwnersHaveSigned, Registered
  <1>11. ASSUME NEW h \in Handlers,
                (\E ok \in BOOLEAN : HealthAnswers(h, ok) \/ CompatAnswers(h, ok)) \/ ExecuteAnswers(h)
         PROVE  OwnersInv'
    <2>1. \/ req' = [req EXCEPT ![h] = Idle]
          \/ \E pc \in {"compat", "execute"} :
               req' = [req EXCEPT ![h] = Waits(pc, req[h].agent, req[h].purpose)]
      BY <1>11 DEF HealthAnswers, CompatAnswers, ExecuteAnswers, Judged, Reports, GoesOn
    <2>2. \A g \in Handlers : req'[g].pc = "verify" => req'[g] = req[g]
      BY <1>0, <2>1 DEF Waits, Idle
    <2> QED
      BY <1>11, <2>2, OwnersFramed DEF HealthAnswers, CompatAnswers, ExecuteAnswers, OwnersFrame
  <1> QED BY Steps, <1>1, <1>2, <1>3, <1>4, <1>5, <1>6, <1>7, <1>8, <1>9, <1>10, <1>11

\* No agent is registered for a wallet that has not signed a challenge of its own.
THEOREM OwnerSafety == Spec => []OwnersHaveSigned
  <1>1. Init => OwnersInv
    BY DEF Init, OwnersInv, OwnersHaveSigned, Registered, Idle, AllAgents
  <1>2. OwnersInv => OwnersHaveSigned  BY DEF OwnersInv
  <1> QED BY <1>1, <1>2, OwnersStep, RegistryTypeCorrect, PTL DEF Spec

-----------------------------------------------------------------------------
(* Activity.  ActivityAgrees is inductive: it is enough that the fields a   *)
(* handler hands to bootstrapPlatformAgents agree for the other agents.     *)

Agrees(owner, state, active, reason) ==
  \A a \in Agents :
    /\ active[a] => owner[a] # NoWallet /\ state[a] \in {"active", "published"}
    /\ state[a] = "active" => active[a]
    /\ state[a] = "suspended" => reason[a]

LEMMA AgreesNow ==
  ActivityAgrees => Agrees(ownerWallet, registrationState, isActive, suspensionReason)
  BY DEF ActivityAgrees, Agrees, Registered, AllAgents

LEMMA BootstrapAgrees ==
  ASSUME TypeOK', NEW state, NEW active, NEW health, NEW compatibility, NEW reason,
         bootstrapPlatformAgents(state, active, health, compatibility, reason),
         Agrees(ownerWallet', state, active, reason)
  PROVE  ActivityAgrees'
  <1> SUFFICES ASSUME NEW a \in AllAgents
               PROVE  /\ isActive'[a] =>
                           ownerWallet'[a] # NoWallet /\ registrationState'[a] \in {"active", "published"}
                      /\ registrationState'[a] = "active" => isActive'[a]
                      /\ registrationState'[a] = "suspended" => suspensionReason'[a]
    BY DEF ActivityAgrees, Registered
  <1>1. /\ registrationState'[a] = IF a \in BuiltIn THEN "active" ELSE state[a]
        /\ isActive'[a] = IF a \in BuiltIn THEN TRUE ELSE active[a]
        /\ suspensionReason'[a] = IF a \in BuiltIn THEN FALSE ELSE reason[a]
    BY DEF bootstrapPlatformAgents, Anew
  <1>2. CASE a \in BuiltIn
    <2>1. ownerWallet'[a] = PlatformWallet  BY <1>2 DEF TypeOK
    <2> QED BY <1>1, <1>2, <2>1
  <1>3. CASE a \notin BuiltIn
    <2>1. a \in Agents  BY <1>3 DEF AllAgents
    <2> QED BY <1>1, <1>3, <2>1 DEF Agrees
  <1> QED BY <1>2, <1>3

LEMMA WriteAgrees ==
  ASSUME TypeOK', ActivityAgrees, UNCHANGED ownerWallet,
         NEW health, NEW compatibility, NEW answers \in BOOLEAN,
         Writes(health, compatibility, answers)
  PROVE  ActivityAgrees'
  <1>1. CASE answers
    BY <1>1, AgreesNow, BootstrapAgrees DEF Writes
  <1>2. CASE ~answers
    BY <1>2 DEF Writes, ActivityAgrees, Registered
  <1> QED BY <1>1, <1>2

\* One agent's fields change; the new ones agree with each other.
LEMMA OneAgrees ==
  ASSUME TypeOK, ActivityAgrees, NEW a \in AllAgents, NEW state \in RegistrationStates,
         NEW active \in BOOLEAN, NEW reason \in BOOLEAN, NEW owner \in Wallets \cup {NoWallet},
         active => owner # NoWallet /\ state \in {"active", "published"},
         state = "active" => active,
         state = "suspended" => reason
  PROVE  Agrees([ownerWallet EXCEPT ![a] = owner], Becomes(a, state),
                [isActive EXCEPT ![a] = active], [suspensionReason EXCEPT ![a] = reason])
  <1>1. /\ ownerWallet \in [AllAgents -> Wallets \cup {NoWallet}]
        /\ registrationState \in [AllAgents -> RegistrationStates]
        /\ isActive \in [AllAgents -> BOOLEAN]
        /\ suspensionReason \in [AllAgents -> BOOLEAN]
    BY DEF TypeOK
  <1> SUFFICES ASSUME NEW b \in Agents
               PROVE  /\ [isActive EXCEPT ![a] = active][b] =>
                           /\ [ownerWallet EXCEPT ![a] = owner][b] # NoWallet
                           /\ Becomes(a, state)[b] \in {"active", "published"}
                      /\ Becomes(a, state)[b] = "active" => [isActive EXCEPT ![a] = active][b]
                      /\ Becomes(a, state)[b] = "suspended" =>
                           [suspensionReason EXCEPT ![a] = reason][b]
    BY DEF Agrees
  <1>2. b \in AllAgents  BY DEF AllAgents
  <1>3. CASE b = a  BY <1>1, <1>2, <1>3 DEF Becomes
  <1>4. CASE b # a
    <2>1. /\ [isActive EXCEPT ![a] = active][b] = isActive[b]
          /\ [ownerWallet EXCEPT ![a] = owner][b] = ownerWallet[b]
          /\ Becomes(a, state)[b] = registrationState[b]
          /\ [suspensionReason EXCEPT ![a] = reason][b] = suspensionReason[b]
      BY <1>1, <1>2, <1>4 DEF Becomes
    <2> QED BY <1>2, <2>1 DEF ActivityAgrees, Registered
  <1> QED BY <1>3, <1>4

\* The state of an agent that is not built in changes, and perhaps its owner,
\* before an answer is waited for.
LEMMA StateAgrees ==
  ASSUME TypeOK, TypeOK', ActivityAgrees, NEW a \in Agents,
         NEW state \in {"verified", "published"}, NEW owner \in Wallets,
         ownerWallet' = [ownerWallet EXCEPT ![a] = owner],
         registrationState' = Becomes(a, state),
         isActive[a] => state = "published",
         UNCHANGED <<isActive, suspensionReason>>
  PROVE  ActivityAgrees'
  <1> SUFFICES ASSUME NEW b \in AllAgents
               PROVE  /\ isActive[b] =>
                           ownerWallet'[b] # NoWallet /\ registrationState'[b] \in {"active", "published"}
                      /\ registrationState'[b] = "active" => isActive[b]
                      /\ registrationState'[b] = "suspended" => suspensionReason[b]
    BY DEF ActivityAgrees, Registered
  <1>1. /\ ownerWallet \in [AllAgents -> Wallets \cup {NoWallet}]
        /\ registrationState \in [AllAgents -> RegistrationStates]
    BY DEF TypeOK
  <1>2. CASE b = a  BY <1>1, <1>2 DEF Becomes
  <1>3. CASE b # a
    <2>1. ownerWallet'[b] = ownerWallet[b] /\ registrationState'[b] = registrationState[b]
      BY <1>1, <1>3 DEF Becomes
    <2> QED BY <2>1 DEF ActivityAgrees, Registered
  <1> QED BY <1>2, <1>3

LEMMA ActivityStep == TypeOK /\ TypeOK' /\ ActivityAgrees /\ [Next]_vars => ActivityAgrees'
  <1> SUFFICES ASSUME TypeOK, TypeOK', ActivityAgrees, [Next]_vars  PROVE ActivityAgrees'
    OBVIOUS
  <1> USE DEF challenges, profiles, rows, drafts
  <1>0. /\ ownerWallet \in [AllAgents -> Wallets \cup {NoWallet}]
        /\ isActive \in [AllAgents -> BOOLEAN]
        /\ suspensionReason \in [AllAgents -> BOOLEAN]
    BY DEF TypeOK
  <1>a. \A a \in AllAgents :
          /\ [ownerWallet EXCEPT ![a] = ownerWallet[a]] = ownerWallet
          /\ [isActive EXCEPT ![a] = isActive[a]] = isActive
          /\ [suspensionReason EXCEPT ![a] = suspensionReason[a]] = suspensionReason
    BY <1>0
  <1>1. CASE UNCHANGED <<ownerWallet, registrationState, isActive, suspensionReason>>
    BY <1>1 DEF ActivityAgrees, Registered
  <1>2. CASE listAgents
    BY <1>2, AgreesNow, BootstrapAgrees DEF listAgents, Bootstraps
  <1>3. ASSUME NEW a \in AllAgents, suspend(a)  PROVE ActivityAgrees'
    <2>1. Agrees(ownerWallet, Becomes(a, "suspended"), [isActive EXCEPT ![a] = FALSE],
                 [suspensionReason EXCEPT ![a] = TRUE])
      <3>1. ownerWallet[a] \in Wallets \cup {NoWallet}  BY <1>0
      <3> QED BY <1>a, <3>1, OneAgrees, ZenonT(60) DEF RegistrationStates
    <2> QED BY <1>3, <2>1, BootstrapAgrees DEF suspend
  <1>4. ASSUME NEW d \in Drafts, NEW a \in Agents, NEW c \in Challenges,
               NEW activates \in BOOLEAN, publishDraft(d, a, c, activates)
        PROVE  ActivityAgrees'
    <2>1. /\ draftOwner[d] \in Wallets
          /\ ownerWallet' = [ownerWallet EXCEPT ![a] = draftOwner[d]]
      BY <1>4 DEF publishDraft, Enters, TypeOK
    <2>2. a \in AllAgents  BY DEF AllAgents
    <2> DEFINE state == IF activates THEN "active" ELSE "published"
    <2>3. Agrees(ownerWallet', Becomes(a, state), [isActive EXCEPT ![a] = activates],
                 suspensionReason)
      <3>1. state \in RegistrationStates /\ (activates => state = "active")
            /\ (state = "active" => activates) /\ state # "suspended"
            /\ state \in {"active", "published"}
        BY DEF RegistrationStates
      <3>2. suspensionReason[a] \in BOOLEAN  BY <1>0, <2>2
      <3> HIDE DEF state
      <3>3. Agrees([ownerWallet EXCEPT ![a] = draftOwner[d]], Becomes(a, state),
                   [isActive EXCEPT ![a] = activates],
                   [suspensionReason EXCEPT ![a] = suspensionReason[a]])
        BY <2>1, <2>2, <3>1, <3>2, OneAgrees
      <3> QED BY <1>a, <2>1, <2>2, <3>3
    <2> QED BY <1>4, <2>3, BootstrapAgrees DEF publishDraft
  <1>5. ASSUME NEW h \in Handlers, NEW a \in Agents, NEW c \in Challenges, NEW w \in Wallets,
               NEW origin \in {"platform", "external"}, NEW e \in Endpoints \cup {NoEndpoint},
               registerAgent(h, a, c, w, origin, e)
        PROVE  ActivityAgrees'
    <2>1. /\ ~Registered(a) /\ ownerWallet' = [ownerWallet EXCEPT ![a] = w]
          /\ a \in AllAgents
      BY <1>5 DEF registerAgent, Enters, AllAgents
    <2>2. ~isActive[a]  BY <2>1 DEF ActivityAgrees
    <2>3. CASE origin = "external"
      BY <1>5, <2>1, <2>2, <2>3, StateAgrees DEF registerAgent
    <2>4. CASE origin # "external"
      <3>1. suspensionReason[a] \in BOOLEAN /\ isActive[a] \in BOOLEAN  BY <1>0, <2>1
      <3>2. Agrees([ownerWallet EXCEPT ![a] = w], Becomes(a, "draft"),
                   [isActive EXCEPT ![a] = isActive[a]],
                   [suspensionReason EXCEPT ![a] = suspensionReason[a]])
        BY <2>1, <2>2, <3>1, OneAgrees DEF RegistrationStates
      <3>3. Agrees(ownerWallet', Becomes(a, "draft"), isActive, suspensionReason)
        BY <1>a, <2>1, <3>2
      <3> QED BY <1>5, <2>4, <3>3, BootstrapAgrees DEF registerAgent
    <2> QED BY <2>3, <2>4
  <1>6. ASSUME NEW a \in AllAgents, NEW w \in Wallets, activate(a, w) \/ deactivate(a, w)
        PROVE  ActivityAgrees'
    <2>1. ownerWallet[a] \in Wallets \cup {NoWallet} /\ ownerWallet[a] # NoWallet
          /\ suspensionReason[a] \in BOOLEAN
      BY <1>0, <1>6 DEF activate, deactivate, assertOwner, Registered
    <2>2. CASE activate(a, w)
      <3>1. Agrees(ownerWallet, Becomes(a, "active"), [isActive EXCEPT ![a] = TRUE],
                   suspensionReason)
        BY <1>a, <2>1, OneAgrees, ZenonT(60) DEF RegistrationStates
      <3> QED BY <2>2, <3>1, BootstrapAgrees DEF activate
    <2>3. CASE deactivate(a, w)
      <3>1. Agrees(ownerWallet, Becomes(a, "inactive"), [isActive EXCEPT ![a] = FALSE],
                   suspensionReason)
        BY <1>a, <2>1, OneAgrees, ZenonT(60) DEF RegistrationStates
      <3> QED BY <2>3, <3>1, BootstrapAgrees DEF deactivate
    <2> QED BY <1>6, <2>2, <2>3
  <1>7. ASSUME NEW h \in Handlers, NEW a \in AllAgents, NEW w \in Wallets,
               NEW checks \in BOOLEAN, publishVersion(h, a, w, checks)
        PROVE  ActivityAgrees'
    <2>1. ownerWallet[a] = w /\ w \in Wallets  BY <1>7 DEF publishVersion, assertOwner
    <2>2. CASE originType[a] = "external" /\ checks
      <3>1. a \in Agents  BY <2>2 DEF TypeOK, AllAgents
      <3>2. ownerWallet' = [ownerWallet EXCEPT ![a] = w]
        BY <1>7, <1>a, <2>1 DEF publishVersion
      <3> QED BY <1>7, <2>2, <3>1, <3>2, StateAgrees DEF publishVersion
    <2>3. CASE ~(originType[a] = "external" /\ checks)
      <3>1. suspensionReason[a] \in BOOLEAN /\ isActive[a] \in BOOLEAN /\ ownerWallet[a] # NoWallet
        BY <1>0, <2>1
      <3>2. Agrees([ownerWallet EXCEPT ![a] = ownerWallet[a]], Becomes(a, "published"),
                   [isActive EXCEPT ![a] = isActive[a]],
                   [suspensionReason EXCEPT ![a] = suspensionReason[a]])
        BY <2>1, <3>1, OneAgrees DEF RegistrationStates
      <3>3. Agrees(ownerWallet, Becomes(a, "published"), isActive, suspensionReason)
        BY <1>a, <3>2
      <3> QED BY <1>7, <2>3, <3>3, BootstrapAgrees DEF publishVersion
    <2> QED BY <2>2, <2>3
  <1>8. ASSUME NEW h \in Handlers, NEW a \in AllAgents, NEW w \in Wallets,
               NEW purpose \in {"probe", "test"}, testCompatibility(h, a, w, purpose)
        PROVE  ActivityAgrees'
    BY <1>1, <1>8 DEF testCompatibility, Writes
  <1>9. ASSUME NEW h \in Handlers, NEW status, Reports(h, status), UNCHANGED profiles
        PROVE  ActivityAgrees'
    <2>1. (req[h].purpose \in BothChecks) \in BOOLEAN  OBVIOUS
    <2> QED BY <1>9, <2>1, WriteAgrees DEF Reports
  <1>10. ASSUME NEW h \in Handlers, NEW ok \in BOOLEAN, HealthAnswers(h, ok)
         PROVE  ActivityAgrees'
    BY <1>1, <1>10 DEF HealthAnswers, Writes
  <1>11. ASSUME NEW h \in Handlers, NEW ok \in BOOLEAN, CompatAnswers(h, ok) \/ ExecuteAnswers(h)
         PROVE  ActivityAgrees'
    <2>1. UNCHANGED profiles /\ ((\E status : Reports(h, status)) \/ GoesOn(h, "execute"))
      BY <1>11 DEF CompatAnswers, ExecuteAnswers, Judged
    <2>2. CASE GoesOn(h, "execute")  BY <1>1, <2>1, <2>2 DEF GoesOn
    <2> QED BY <1>9, <2>1, <2>2
  <1>12. \/ UNCHANGED <<ownerWallet, registrationState, isActive, suspensionReason>>
         \/ ~ \/ UNCHANGED vars \/ \E e \in Endpoints : blacklistEndpoint(e)
              \/ \E d \in Drafts, w \in Wallets : createDraft(d, w)
              \/ \E d \in Drafts : updateDraft(d) \/ runTest(d)
              \/ \E c \in Challenges, w \in Wallets : issueChallenge(c, w)
              \/ \E c \in Challenges : TimePasses(c)
              \/ \E h \in Handlers, c \in Challenges, w \in Wallets, good \in BOOLEAN :
                   verifyChallenge(h, c, w, good)
              \/ \E h \in Handlers, a \in AllAgents, w \in Wallets :
                   runPrePublishHealthcheck(h, a, w)
              \/ \E h \in Handlers : VerifierRefuses(h) \/ VerifierAccepts(h)
    BY DEF vars, blacklistEndpoint, createDraft, updateDraft, runTest, issueChallenge, TimePasses,
       verifyChallenge, runPrePublishHealthcheck, VerifierRefuses, VerifierAccepts
  <1> QED
    BY Steps, <1>1, <1>2, <1>3, <1>4, <1>5, <1>6, <1>7, <1>8, <1>10, <1>11, <1>12, ZenonT(60)

\* isActive and registrationState never contradict each other, whatever handlers
\* overlap.
THEOREM ActivitySafety == Spec => []ActivityAgrees
  <1>1. Init => ActivityAgrees
    <2> SUFFICES ASSUME Init, NEW a \in AllAgents
                 PROVE  /\ isActive[a] =>
                             ownerWallet[a] # NoWallet /\ registrationState[a] \in {"active", "published"}
                        /\ registrationState[a] = "active" => isActive[a]
                        /\ registrationState[a] = "suspended" => suspensionReason[a]
      BY DEF ActivityAgrees, Registered
    <2>1. /\ ownerWallet[a] = IF a \in BuiltIn THEN PlatformWallet ELSE NoWallet
          /\ registrationState[a] = IF a \in BuiltIn THEN "active" ELSE "draft"
          /\ isActive[a] <=> a \in BuiltIn
      BY DEF Init
    <2>2. CASE a \in BuiltIn  BY <2>1, <2>2
    <2>3. CASE a \notin BuiltIn  BY <2>1, <2>3
    <2> QED BY <2>2, <2>3
  <1> QED BY <1>1, ActivityStep, RegistryTypeCorrect, PTL DEF Spec

-----------------------------------------------------------------------------
(* Checks.  A registration that has gone on to the test has written the    *)
(* agent's health, and no handler makes a known status unknown again.      *)

AdmittedInv ==
  /\ \A h \in Handlers :
       /\ req[h].pc \in {"compat", "execute"}
       /\ req[h].purpose = "register"
       => healthStatus[req[h].agent] # "unknown"
  /\ AdmittedIsChecked

Known(health, compatibility) ==
  \A a \in Agents :
    /\ healthStatus[a] # "unknown" => health[a] # "unknown"
    /\ compatibilityStatus[a] # "unknown" => compatibility[a] # "unknown"

\* What most steps leave as it is.  A request that begins to wait is about
\* something else than a test on behalf of a registration.
AdmittedFrame ==
  /\ Known(healthStatus', compatibilityStatus')
  /\ UNCHANGED <<originType, endpointUrl>>
  /\ blacklistedEndpoints \subseteq blacklistedEndpoints'
  /\ \A h \in Handlers :
       \/ req'[h] = req[h]
       \/ /\ req[h].pc \in {"idle", "verify"} \/ req[h].purpose # "register"
          /\ req'[h].pc \in {"idle", "verify"} \/ req'[h].purpose # "register"

LEMMA AdmittedFramed ==
  ASSUME TypeOK, AdmittedInv, AdmittedFrame
  PROVE  AdmittedInv'
  <1>1. \A h \in Handlers : req'[h].pc \in {"compat", "execute"} /\ req'[h].purpose = "register" =>
          req'[h] = req[h] /\ req[h].agent \in Agents
    BY WaitingFor, TypeParts DEF AdmittedFrame
  <1>2. \A h \in Handlers : req'[h].pc \in {"compat", "execute"} /\ req'[h].purpose = "register" =>
          healthStatus'[req'[h].agent] # "unknown"
    BY <1>1 DEF AdmittedInv, AdmittedFrame, Known
  <1>3. \A a \in Agents : Registering(a) => Registering(a)'
    BY DEF Registering, AdmittedFrame
  <1>4. AdmittedIsChecked'
    <2> SUFFICES ASSUME NEW a \in Agents, originType'[a] = "external",
                        "unknown" \in {healthStatus'[a], compatibilityStatus'[a]}
                 PROVE  Registering(a)' \/ endpointUrl'[a] \in NotHttp \cup blacklistedEndpoints'
      BY DEF AdmittedIsChecked
    <2>1. originType[a] = "external" /\ endpointUrl'[a] = endpointUrl[a]  BY DEF AdmittedFrame
    <2>2. "unknown" \in {healthStatus[a], compatibilityStatus[a]}  BY DEF AdmittedFrame, Known
    <2>3. Registering(a) \/ endpointUrl[a] \in NotHttp \cup blacklistedEndpoints
      BY <2>1, <2>2 DEF AdmittedInv, AdmittedIsChecked
    <2> QED BY <1>3, <2>1, <2>3 DEF AdmittedFrame
  <1> QED BY <1>2, <1>4 DEF AdmittedInv

\* bootstrapPlatformAgents writes only the rows of built-in agents anew.
LEMMA BootstrapKnows ==
  ASSUME NEW state, NEW active, NEW health, NEW compatibility, NEW reason,
         bootstrapPlatformAgents(state, active, health, compatibility, reason)
  PROVE  \A a \in Agents : healthStatus'[a] = health[a] /\ compatibilityStatus'[a] = compatibility[a]
  BY DEF bootstrapPlatformAgents, Anew, AllAgents

LEMMA WriteKnows ==
  ASSUME NEW health, NEW compatibility, NEW answers \in BOOLEAN,
         Writes(health, compatibility, answers)
  PROVE  \A a \in Agents : healthStatus'[a] = health[a] /\ compatibilityStatus'[a] = compatibility[a]
  <1>1. CASE answers  BY <1>1, BootstrapKnows DEF Writes
  <1>2. CASE ~answers  BY <1>2 DEF Writes
  <1> QED BY <1>1, <1>2

\* A registration's request goes on or ends.
LEMMA RegistrationGoesOn ==
  ASSUME TypeOK, AdmittedInv, NEW h \in Handlers, NEW a \in Agents,
         req[h].pc \in {"health", "compat", "execute"} => req[h].agent = a,
         Known(healthStatus', compatibilityStatus'), UNCHANGED <<profiles, blacklistedEndpoints>>,
         \A g \in Handlers : g # h => req'[g] = req[g],
         req'[h].pc \in {"compat", "execute"} => req'[h].agent = a /\ healthStatus'[a] # "unknown",
         \/ Registering(a)'
         \/ endpointUrl[a] \in NotHttp \cup blacklistedEndpoints
         \/ healthStatus'[a] # "unknown" /\ compatibilityStatus'[a] # "unknown"
  PROVE  AdmittedInv'
  <1>1. \A g \in Handlers : req'[g].pc \in {"compat", "execute"} /\ req'[g].purpose = "register" =>
          healthStatus'[req'[g].agent] # "unknown"
    <2> TAKE g \in Handlers
    <2>1. CASE g = h  BY <2>1
    <2>2. CASE g # h
      <3>1. req[g].pc \in {"compat", "execute"} => req[g].agent \in Agents
        BY WaitingFor, TypeParts
      <3> QED BY <2>2, <3>1 DEF AdmittedInv, Known
    <2> QED BY <2>1, <2>2
  <1>2. ASSUME NEW b \in Agents, originType'[b] = "external",
               "unknown" \in {healthStatus'[b], compatibilityStatus'[b]}
        PROVE  Registering(b)' \/ endpointUrl'[b] \in NotHttp \cup blacklistedEndpoints'
    <2>1. CASE b = a  BY <1>2, <2>1 DEF profiles
    <2>2. CASE b # a
      <3>1. originType[b] = "external" /\ endpointUrl'[b] = endpointUrl[b]
        BY <1>2 DEF profiles
      <3>2. "unknown" \in {healthStatus[b], compatibilityStatus[b]}  BY <1>2 DEF Known
      <3>3. Registering(b) \/ endpointUrl[b] \in NotHttp \cup blacklistedEndpoints
        BY <3>1, <3>2 DEF AdmittedInv, AdmittedIsChecked
      <3>4. CASE Registering(b)
        <4>1. PICK g \in Handlers : req[g].pc \notin {"idle", "verify"}
                                    /\ req[g].agent = b /\ req[g].purpose = "register"
          BY <3>4 DEF Registering
        <4>2. req[g].pc \in {"health", "compat", "execute"}
          BY <4>1 DEF TypeOK, Requests, Idle
        <4>3. g # h  BY <2>2, <4>1, <4>2
        <4> QED BY <4>1, <4>3 DEF Registering
      <3> QED BY <3>1, <3>3, <3>4
    <2> QED BY <2>1, <2>2
  <1> QED BY <1>1, <1>2 DEF AdmittedInv, AdmittedIsChecked

\* An agent enters the registry.
LEMMA AgentEnters ==
  ASSUME TypeOK, AdmittedInv, NEW a \in Agents, NEW w, NEW origin, NEW e,
         Enters(a, w, origin, e), UNCHANGED blacklistedEndpoints,
         Known(healthStatus', compatibilityStatus'),
         \A g \in Handlers : req'[g] = req[g] \/ (req[g] = Idle /\ req'[g].pc = "health"),
         origin = "external" => Registering(a)' \/ e \in NotHttp \cup blacklistedEndpoints
  PROVE  AdmittedInv'
  <1>1. /\ originType'[a] = origin /\ endpointUrl'[a] = e
        /\ \A b \in Agents : b # a => originType'[b] = originType[b] /\ endpointUrl'[b] = endpointUrl[b]
    BY DEF Enters, TypeOK, AllAgents
  <1>2. \A g \in Handlers : req'[g].pc \in {"compat", "execute"} /\ req'[g].purpose = "register" =>
          healthStatus'[req'[g].agent] # "unknown"
    <2> TAKE g \in Handlers
    <2>1. req[g].pc \in {"compat", "execute"} => req[g].agent \in Agents  BY WaitingFor, TypeParts
    <2> QED BY <2>1 DEF AdmittedInv, Known
  <1>3. \A b \in Agents : Registering(b) => Registering(b)'  BY DEF Registering, Idle
  <1>4. ASSUME NEW b \in Agents, originType'[b] = "external",
               "unknown" \in {healthStatus'[b], compatibilityStatus'[b]}
        PROVE  Registering(b)' \/ endpointUrl'[b] \in NotHttp \cup blacklistedEndpoints'
    <2>1. CASE b = a  BY <1>1, <1>4, <2>1
    <2>2. CASE b # a
      <3>1. "unknown" \in {healthStatus[b], compatibilityStatus[b]}  BY <1>4 DEF Known
      <3>2. Registering(b) \/ endpointUrl[b] \in NotHttp \cup blacklistedEndpoints
        BY <1>1, <1>4, <2>2, <3>1 DEF AdmittedInv, AdmittedIsChecked
      <3> QED BY <1>1, <1>3, <2>2, <3>2
    <2> QED BY <2>1, <2>2
  <1> QED BY <1>2, <1>4 DEF AdmittedInv, AdmittedIsChecked

\* A request that is no registration begins to wait.
LEMMA BeginsOther ==
  ASSUME TypeOK, NEW h \in Handlers, NEW pc, NEW a,
         NEW purpose \in {"publish", "health", "probe", "test"},
         req[h] = Idle,
         req' = req \/ req' = [req EXCEPT ![h] = Waits(pc, a, purpose)]
  PROVE  \A g \in Handlers : req'[g] = req[g] \/ (req[g] = Idle /\ req'[g].purpose # "register")
  <1>1. req \in [Handlers -> Requests]  BY DEF TypeOK
  <1>2. CASE req' = req  BY <1>2
  <1>3. CASE req' = [req EXCEPT ![h] = Waits(pc, a, purpose)]
    <2>1. req'[h].purpose # "register"  BY <1>1, <1>3 DEF Waits
    <2>2. \A g \in Handlers : g # h => req'[g] = req[g]  BY <1>1, <1>3
    <2> QED BY <2>1, <2>2
  <1> QED BY <1>2, <1>3

LEMMA AdmittedStep == TypeOK /\ AdmittedInv /\ [Next]_vars => AdmittedInv'
  <1> SUFFICES ASSUME TypeOK, AdmittedInv, [Next]_vars  PROVE AdmittedInv'
    OBVIOUS
  <1> USE DEF challenges, profiles, rows, drafts
  <1>0. /\ req \in [Handlers -> Requests]
        /\ healthStatus \in [AllAgents -> HealthStatuses]
        /\ compatibilityStatus \in [AllAgents -> CompatibilityStatuses]
        /\ Agents \subseteq AllAgents
    BY DEF TypeOK, AllAgents
  <1>1. CASE UNCHANGED <<healthStatus, compatibilityStatus, originType, endpointUrl>>
             /\ blacklistedEndpoints \subseteq blacklistedEndpoints'
             /\ \A g \in Handlers : \/ req'[g] = req[g]
                                    \/ /\ req[g].pc \in {"idle", "verify"}
                                       /\ req'[g].pc \in {"idle", "verify"} \/ req'[g].purpose # "register"
    BY <1>1, AdmittedFramed DEF AdmittedFrame, Known
  <1>2. ASSUME NEW state, NEW active, NEW health, NEW reason,
               bootstrapPlatformAgents(state, active, health, compatibilityStatus, reason),
               \A a \in Agents : healthStatus[a] # "unknown" => health[a] # "unknown",
               UNCHANGED <<originType, endpointUrl, blacklistedEndpoints, req>>
        PROVE  AdmittedInv'
    BY <1>2, BootstrapKnows, AdmittedFramed DEF AdmittedFrame, Known
  <1>3. CASE listAgents  BY <1>2, <1>3 DEF listAgents, Bootstraps
  <1>4. ASSUME NEW a \in AllAgents, suspend(a)  PROVE AdmittedInv'
    <2>1. \A b \in Agents : healthStatus[b] # "unknown" =>
            [healthStatus EXCEPT ![a] = "suspended"][b] # "unknown"
      BY <1>0
    <2> QED BY <1>2, <1>4, <2>1 DEF suspend
  <1>5. ASSUME NEW a \in AllAgents, NEW w \in Wallets, activate(a, w) \/ deactivate(a, w)
        PROVE  AdmittedInv'
    BY <1>2, <1>5 DEF activate, deactivate
  <1>6. ASSUME NEW d \in Drafts, NEW a \in Agents, NEW c \in Challenges,
               NEW activates \in BOOLEAN, publishDraft(d, a, c, activates)
        PROVE  AdmittedInv'
    <2>1. Known(healthStatus', compatibilityStatus')
      BY <1>6, BootstrapKnows DEF publishDraft, Known
    <2>2. /\ Enters(a, draftOwner[d], "platform", NoEndpoint)
          /\ UNCHANGED blacklistedEndpoints
          /\ \A g \in Handlers : req'[g] = req[g]
      BY <1>6 DEF publishDraft
    <2>3. "platform" # "external"  OBVIOUS
    <2> QED BY <2>1, <2>2, <2>3, AgentEnters
  <1>7. ASSUME NEW h \in Handlers, NEW a \in Agents, NEW c \in Challenges, NEW w \in Wallets,
               NEW origin \in {"platform", "external"}, NEW e \in Endpoints \cup {NoEndpoint},
               registerAgent(h, a, c, w, origin, e)
        PROVE  AdmittedInv'
    <2>1. Known(healthStatus', compatibilityStatus')
      BY <1>7, BootstrapKnows DEF registerAgent, Known
    <2>2. req' = req \/ req' = [req EXCEPT ![h] = Waits("health", a, "register")]
      BY <1>7 DEF registerAgent
    <2>3. \A g \in Handlers : req'[g] = req[g] \/ (req[g] = Idle /\ req'[g].pc = "health")
      <3>1. req[h] = Idle  BY <1>7 DEF registerAgent
      <3>2. CASE req' = req  BY <3>2
      <3>3. CASE req' = [req EXCEPT ![h] = Waits("health", a, "register")]
        <4>1. req'[h].pc = "health"  BY <1>0, <3>3 DEF Waits
        <4>2. \A g \in Handlers : g # h => req'[g] = req[g]  BY <1>0, <3>3
        <4> QED BY <3>1, <4>1, <4>2
      <3> QED BY <2>2, <3>2, <3>3
    <2>4. origin = "external" => Registering(a)' \/ e \in NotHttp \cup blacklistedEndpoints
      BY <1>0, <1>7 DEF registerAgent, Waits, Registering
    <2> QED BY <1>7, <2>1, <2>3, <2>4, AgentEnters DEF registerAgent
  <1>8. ASSUME NEW h \in Handlers, NEW a \in AllAgents, NEW w \in Wallets,
               NEW checks \in BOOLEAN, publishVersion(h, a, w, checks)
        PROVE  AdmittedInv'
    <2>1. CASE originType[a] = "external" /\ checks
      <3>1. req[h] = Idle
            /\ (req' = req \/ req' = [req EXCEPT ![h] = Waits("health", a, "publish")])
        BY <1>8, <2>1 DEF publishVersion
      <3>2. \A g \in Handlers : \/ req'[g] = req[g]
                                \/ (req[g] = Idle /\ req'[g].purpose # "register")
        BY <3>1, BeginsOther
      <3> QED BY <1>1, <1>8, <2>1, <3>2 DEF publishVersion, Idle
    <2>2. CASE ~(originType[a] = "external" /\ checks)
      BY <1>2, <1>8, <2>2 DEF publishVersion
    <2> QED BY <2>1, <2>2
  <1>9. ASSUME NEW h \in Handlers, NEW a \in AllAgents, NEW w \in Wallets,
               runPrePublishHealthcheck(h, a, w)
        PROVE  AdmittedInv'
    <2>1. req[h] = Idle /\ req' = [req EXCEPT ![h] = Waits("health", a, "health")]
      BY <1>9 DEF runPrePublishHealthcheck
    <2>2. \A g \in Handlers : req'[g] = req[g] \/ (req[g] = Idle /\ req'[g].purpose # "register")
      BY <2>1, BeginsOther
    <2> QED BY <1>1, <1>9, <2>2 DEF runPrePublishHealthcheck, Idle
  <1>10. ASSUME NEW h \in Handlers, NEW a \in AllAgents, NEW w \in Wallets,
                NEW purpose \in {"probe", "test"}, testCompatibility(h, a, w, purpose)
         PROVE  AdmittedInv'
    <2>1. CASE endpointUrl[a] = NoEndpoint
      <3>1. Known(healthStatus', compatibilityStatus')
        BY <1>0, <1>10, <2>1 DEF testCompatibility, Writes, Known
      <3> QED BY <1>10, <2>1, <3>1, AdmittedFramed DEF testCompatibility, AdmittedFrame
    <2>2. CASE endpointUrl[a] # NoEndpoint
      <3>1. req[h] = Idle /\ req' = [req EXCEPT ![h] = Waits("compat", a, purpose)]
        BY <1>10, <2>2 DEF testCompatibility
      <3>2. \A g \in Handlers : req'[g] = req[g] \/ (req[g] = Idle /\ req'[g].purpose # "register")
        BY <3>1, BeginsOther
      <3> QED BY <1>1, <1>10, <2>2, <3>2 DEF testCompatibility, Idle
    <2> QED BY <2>1, <2>2
  <1>11. ASSUME NEW h \in Handlers,
                \/ VerifierRefuses(h) \/ VerifierAccepts(h)
                \/ \E c \in Challenges, w \in Wallets, good \in BOOLEAN : verifyChallenge(h, c, w, good)
         PROVE  AdmittedInv'
    <2>1. \A g \in Handlers : req'[g] = req[g] \/ /\ req[g].pc \in {"idle", "verify"}
                                                  /\ req'[g].pc \in {"idle", "verify"}
      BY <1>0, <1>11 DEF VerifierRefuses, VerifierAccepts, verifyChallenge, Verifying, Idle
    <2> QED BY <1>1, <1>11, <2>1 DEF VerifierRefuses, VerifierAccepts, verifyChallenge
  <1>12. ASSUME NEW h \in Handlers, NEW ok \in BOOLEAN, HealthAnswers(h, ok)  PROVE AdmittedInv'
    <2> DEFINE a == req[h].agent
    <2>1. a \in Agents  BY <1>12, WaitingFor, TypeParts DEF HealthAnswers
    <2>2. healthStatus' = [healthStatus EXCEPT ![a] = IF ok THEN "healthy" ELSE "unhealthy"]
          /\ UNCHANGED compatibilityStatus
      BY <1>12 DEF HealthAnswers, Writes
    <2>3. /\ healthStatus'[a] # "unknown"
          /\ Known(healthStatus', compatibilityStatus')
      BY <1>0, <2>1, <2>2 DEF Known
    <2>4. req' = [req EXCEPT ![h] = IF req[h].purpose \in BothChecks /\ validateEndpoint(a)
                                    THEN Waits("compat", a, req[h].purpose) ELSE Idle]
      BY <1>12 DEF HealthAnswers
    <2>5. CASE req[h].purpose = "register"
      <3>1. CASE validateEndpoint(a)
        <4>1. req'[h] = Waits("compat", a, "register")
          BY <1>0, <2>4, <2>5, <3>1 DEF BothChecks
        <4>2. \A g \in Handlers : g # h => req'[g] = req[g]  BY <1>0, <2>4
        <4>3. Registering(a)'  BY <4>1 DEF Registering, Waits
        <4> QED
          BY <1>12, <2>1, <2>3, <4>1, <4>2, <4>3, RegistrationGoesOn DEF HealthAnswers, Waits
      <3>2. CASE ~validateEndpoint(a)
        <4>1. req'[h] = Idle  BY <1>0, <2>4, <3>2
        <4>2. \A g \in Handlers : g # h => req'[g] = req[g]  BY <1>0, <2>4
        <4> QED
          BY <1>12, <2>1, <2>3, <3>2, <4>1, <4>2, RegistrationGoesOn
          DEF HealthAnswers, Idle, validateEndpoint
      <3> QED BY <3>1, <3>2
    <2>6. CASE req[h].purpose # "register"
      <3>1. \A g \in Handlers : \/ req'[g] = req[g]
                                \/ /\ req[g].purpose # "register"
                                   /\ req'[g].pc = "idle" \/ req'[g].purpose # "register"
        BY <1>0, <2>4, <2>6 DEF Waits, Idle
      <3> QED BY <1>12, <2>3, <3>1, AdmittedFramed DEF HealthAnswers, AdmittedFrame
    <2> QED BY <2>5, <2>6
  <1>13. ASSUME NEW h \in Handlers, req[h].pc \in {"compat", "execute"},
                UNCHANGED <<profiles, blacklistedEndpoints>>, GoesOn(h, "execute")
         PROVE  AdmittedInv'
    <2> DEFINE a == req[h].agent
    <2>1. a \in Agents  BY <1>13, WaitingFor, TypeParts
    <2>2. /\ req'[h] = Waits("execute", a, req[h].purpose)
          /\ \A g \in Handlers : g # h => req'[g] = req[g]
          /\ UNCHANGED <<healthStatus, compatibilityStatus>>
      BY <1>0, <1>13 DEF GoesOn
    <2>3. Known(healthStatus', compatibilityStatus')  BY <2>2 DEF Known
    <2>4. CASE req[h].purpose = "register"
      <3>1. healthStatus'[a] # "unknown"  BY <1>13, <2>2, <2>4 DEF AdmittedInv
      <3>2. Registering(a)'  BY <2>2, <2>4 DEF Registering, Waits
      <3> QED BY <1>13, <2>1, <2>2, <2>3, <3>1, <3>2, RegistrationGoesOn DEF Waits
    <2>5. CASE req[h].purpose # "register"
      BY <1>13, <2>2, <2>3, <2>5, AdmittedFramed DEF AdmittedFrame, Waits
    <2> QED BY <2>4, <2>5
  <1>14. ASSUME NEW h \in Handlers, req[h].pc \in {"compat", "execute"},
                UNCHANGED <<profiles, blacklistedEndpoints>>,
                NEW status \in {"compatible", "warning", "incompatible"}, Reports(h, status)
         PROVE  AdmittedInv'
    <2> DEFINE a == req[h].agent
    <2>1. a \in Agents  BY <1>14, WaitingFor, TypeParts
    <2>2. \A b \in Agents : /\ healthStatus'[b] = healthStatus[b]
                            /\ compatibilityStatus'[b] = [compatibilityStatus EXCEPT ![a] = status][b]
      <3> DEFINE written == [compatibilityStatus EXCEPT ![a] = status]
                 answers == req[h].purpose \in BothChecks
      <3>1. Writes(healthStatus, written, answers)  BY <1>14 DEF Reports
      <3>2. answers \in BOOLEAN  OBVIOUS
      <3> HIDE DEF written, answers
      <3>3. \A b \in Agents : healthStatus'[b] = healthStatus[b] /\ compatibilityStatus'[b] = written[b]
        BY <3>1, <3>2, WriteKnows
      <3> QED BY <3>3 DEF written
    <2>3. /\ Known(healthStatus', compatibilityStatus')
          /\ compatibilityStatus'[a] # "unknown"
      BY <1>0, <2>1, <2>2 DEF Known
    <2>4. /\ req'[h] = Idle
          /\ \A g \in Handlers : g # h => req'[g] = req[g]
      BY <1>0, <1>14 DEF Reports
    <2>5. CASE req[h].purpose = "register"
      <3>1. healthStatus'[a] # "unknown"  BY <1>14, <2>1, <2>2, <2>5 DEF AdmittedInv
      <3> QED BY <1>14, <2>1, <2>3, <2>4, <3>1, RegistrationGoesOn DEF Idle
    <2>6. CASE req[h].purpose # "register"
      BY <1>14, <2>3, <2>4, <2>6, AdmittedFramed DEF AdmittedFrame, Idle
    <2> QED BY <2>5, <2>6
  <1>15. ASSUME NEW h \in Handlers, NEW ok \in BOOLEAN, CompatAnswers(h, ok) \/ ExecuteAnswers(h)
         PROVE  AdmittedInv'
    BY <1>13, <1>14, <1>15 DEF CompatAnswers, ExecuteAnswers, Judged
  <1>16. CASE \/ UNCHANGED vars \/ \E e \in Endpoints : blacklistEndpoint(e)
              \/ \E d \in Drafts, w \in Wallets : createDraft(d, w)
              \/ \E d \in Drafts : updateDraft(d) \/ runTest(d)
              \/ \E c \in Challenges, w \in Wallets : issueChallenge(c, w)
              \/ \E c \in Challenges : TimePasses(c)
    BY <1>1, <1>16 DEF vars, blacklistEndpoint, createDraft, updateDraft, runTest,
       issueChallenge, TimePasses
  <1> QED
    BY Steps, <1>3, <1>4, <1>5, <1>6, <1>7, <1>8, <1>9, <1>10, <1>11, <1>12, <1>15, <1>16, ZenonT(60)

\* A registration leaves no external agent without both checks, unless its
\* endpoint is not http or has been blacklisted.
THEOREM AdmissionSafety == Spec => []AdmittedIsChecked
  <1>1. Init => AdmittedInv
    BY DEF Init, AdmittedInv, AdmittedIsChecked, Idle, AllAgents
  <1>2. AdmittedInv => AdmittedIsChecked  BY DEF AdmittedInv
  <1> QED BY <1>1, <1>2, AdmittedStep, RegistryTypeCorrect, PTL DEF Spec
=============================================================================
