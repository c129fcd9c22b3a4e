# Dispatch, specified in TLA+

Dispatch is a marketplace in which a creator pays an AI agent for a task. The
reward is held by an escrow contract; a router (one Node process) keeps the task
records, drives the agents and calls the contract as its *operator*. This
directory models the parts where money, task state and concurrency meet,
model-checks them with TLC and proves what matters most of seven of them with
TLAPS.

Paths below are relative to the repository (`src/` in `PROJECT.json`).

## 1. The system

| part | state it keeps | operations | talks to |
|---|---|---|---|
| Arc escrow, `packages/contracts/arc/DispatchMarketplace.sol` | per task: creator, reward, state, agent, submission, locked amount; the operator | `create_task` ... `refund_task`, `setOperator` | the registry contract, an ERC-20 token |
| Arc registry, `DispatchAgentRegistry.sol` | per agent: owner, active | register, update, disable | read by the escrow |
| Task market, `apps/router/src/services/taskMarketService.ts` | task records in memory: status, result status, settlement state, dispute, participants | accept, approve, reject, reviews, appeal, cancel, improve again, sync, recover; `mark*` called by others | the contract through `arcChainService.ts`, the evaluator over HTTP, the engine |
| Settlement, `settlementService.ts` | receipt history | settle, refund, dispute, admin resolution | the contract, the task market's `mark*` |
| Execution engine, `executionEngine.ts` with dispatcher, worker, callback handler, retry policy | execution runs, nonces | dispatch, poll, callback, timeout, two timers | agents over HTTP, the task market |
| Administration, `adminService.ts` | paused tasks, audit log, blacklist | pause, resolve, disable | settlement, registry service |
| GenLayer escrow, `packages/contracts/marketplace/*.py` | the same task with several submissions and a review outcome | as the Arc escrow, with an equivalence gate on verdicts | its agent registry |
| Nano budgets, `nanoBudgetService.ts` | budgets, spend intents, receipts | draft, fund proof, intent, approve, record payment | the store |
| Persistence, `db/store.ts`, `db/persistedStore.ts`, `db/postgresStore.ts` | one snapshot of everything above | debounced write, restore at start | disk or Postgres |
| Agent registry service, owner proofs, builder | agents, versions, challenges, drafts | register, publish, prove | the store, HTTP health checks |
| Evaluator, `apps/evaluator` | none | scores and verdicts | LLM adapters |
| Trust ranking, ERC-8183 mirror, safety heuristics, demo flow, platform agents, web, adapter, indexer | derived or presentational | | |

What is hard about it:

* **Interleaving at awaits.** Every router handler reads the shared task object,
  awaits the chain (a refresh, a transaction, a receipt) and then writes the
  object as it is by then. Nothing locks a task. Check-then-await is the rule in
  `settlementService.ts`.
* **The chain.** A transaction passes a gas estimate, waits in the wallet's nonce
  order, and is mined later, against another state. Its receipt's status is not
  read (`arcChainService.ts:448-461`), and the wait for it may time out.
* **Half-done work.** A handler that throws keeps what it has already written:
  receipts are appended before the status change that may be refused.
* **Two copies of the truth.** `reconcileTaskFromOnchain` overwrites the record
  with a read of the contract that may be old when it is applied.
* **Timers.** A polling pass can last longer than the timer's period, so passes
  overlap on one run; exceptions in a timer end the process.
* **Restarts.** Snapshots are debounced and dropped while one is in flight; a
  restart resumes from one of any age, while the chain has moved on.
* **Rows held across HTTP.** Registration, publication and health checks wait for
  the agent or the signature verifier and then write the row, whatever an
  administrator did to it meanwhile.
* **Rounding.** Budgets are compared as they are and summed rounded.
* **A gate with several ways round it.** GenLayer's settlement rests on a review
  outcome that approvals, disputes and appeals pass by.

What makes each part correct: the escrow conserves the reward and releases it
once; receipts and final statuses tell the truth about the money; nothing is paid
while a dispute is open; work starts only on assigned tasks; every request is
answered; a run is tried as often as allowed and ends; a task that is shown as
executing has somebody at work; the snapshot on disk is whole, is never replaced
by an older one and catches up with the store; approvals stay within the budget;
an agent's owner has proved it and no agent is admitted unchecked. `PROJECT.json`
lists the hazards by line.

## 2. The modules

| module | what it is |
|---|---|
| `EscrowPromise` | abstract: a reward is deposited once, held, and leaves in one piece |
| `ArcAgentRegistry`, `ArcMarketplace` | the two Solidity contracts; one action per function, guard = its `require`s |
| `ArcMarketplaceProofs` | theorems about `ArcMarketplace` |
| `TaskStatus` | the lifecycle tables and `transitionTask` |
| `TaskRecord` | the router's task object as a value; for each handler its guard (`May...`) and its effect |
| `TaskMarket` | interleaves guards and effects at the awaits, over an instance of `ArcMarketplace` |
| `ExecutionEngine` | runs of one task and agent, interleaved at their awaits, over `TaskRecord` |
| `RestartingMarket` | `TaskMarket` with receipt timeouts, in a process that dies between any two awaits and restarts from a snapshot |
| `TaskEscrow` | the two GenLayer contracts, a second implementation of `EscrowPromise` |
| `DurableStore` | abstract: a store that restarts from a state the whole of it was in |
| `SnapshotStore` | the debounced snapshot in a file or in Postgres, with signals, failures and crashes |
| `NanoBudget` | budgets, spend intents, receipts and the available-budget arithmetic |
| `AgentRegistryService` | owner proofs, registration, publication, checks, suspension, blacklist |
| `TaskEscrowProofs`, `SnapshotStoreProofs`, `NanoBudgetProofs`, `AgentRegistryServiceProofs` | theorems about these four |
| `TaskRecordProofs` | lemmas about the handlers' guards and effects, used by the next two |
| `TaskMarketProofs`, `ExecutionEngineProofs` | theorems about the market over its contract, with and without restarts, and about the engine |
| `MC...` | constants for TLC |

`TaskMarket` and `ExecutionEngine` EXTEND `TaskRecord`, which EXTENDS
`TaskStatus`; `RestartingMarket` EXTENDS `TaskMarket`. `TaskMarket` holds
`Arc == INSTANCE ArcMarketplace` with one task and one agent, and calls the very
actions the proofs are about.

**Contract.** A Solidity transaction is atomic, so each function is one action.
The token is external: the model keeps what each task moved (`deposited`,
`toAgent`, `toTreasury`, `toCreator`) and to whom (`payee`). Left out: deadline,
mode, metadata, hashes, scores, events.

**Task market.** A request is a continuation `req[h]` with a program counter:
`refresh` (the read is out), `write` (about to estimate and send), `sent`,
`mined`, `evaluate`. `Begin` reads the contract, or fails to, which the code
swallows; `Resume` applies the read, checks the guard and runs to the next await;
`Send` needs the estimate to pass (`Accepts`, the `Can...` guards of the contract's
functions, which are the conditions their actions start with); `Mine`
executes the oldest pending transaction or lets it revert and wakes the handler
in either case, because the code does not look; `Complete` applies the effect to
the task as it is now. `EngineStart`, `EngineSubmit` and `EngineFail` are the
engine's calls of `markExecutionStarted`, `markSubmissionReceived` and
`markExecutionFailed`; `BrowserWrite` is the creator's wallet;
`syncTaskWithChain` is the browser's report, with the automatic dispatch of
platform agents. An effect that throws half way returns the half-written record,
e.g. `DisputeOpened` appends the receipt and leaves the rest. There is one agent,
which may accept again as long as participants are admitted: an acceptance sets its
run to dispatched whatever the run was, as `dispatchTask` does with an active run.
Further participants, whom the router dispatches without an assignment on the
contract, are in `ExecutionEngine` only. `EngineSubmit` takes the guard of
`markSubmissionReceived` and the read after it in one step: what the read changes,
`SubmissionReceived` asks for again.

**Engine.** `req[p]` is an accepting request or a polling pass. `Accept` admits
participants until `MaxParticipants` have joined (the API allows up to 20), also
the same one again, whose active run is then dispatched once more; each run
belongs to one participant. `List` is the
filter of `pollAsyncRuns`, `Visit` the loop reaching the run (whose state may have
changed), `pollStatus` and `fetchResult` the two fetches, `DispatchFails`,
`DispatchReturnsResult` and `DispatchAccepted` the answers to a dispatch. Chain
writes below `mark*` are reduced to whether they throw. `up` records whether an
exception has left a timer.

**Restarts.** `RestartingMarket` adds to `TaskMarket` a wait for a receipt that
times out (`GiveUp`) and `saved`, the snapshot: `Persist` copies
the task, its pause and its run into it at any moment, and `Restart` brings them
back and forgets the requests under way. What is pending on the chain stays and
is mined. This is the store `DurableStore` promises, with a snapshot of any age.

**Snapshots.** The store is the set of the facts written to it. `set` is a write
through a tracked Map, Set or array, which arms the timer; `mutate` is a record
changed in place, which tells nobody. `persist` runs to its first await
(`mkdir` for the file, the query for Postgres), and `Export`, `Written`,
`Renamed` and `Upserted` are what follows each await; `Fails` is the `catch` that
logs; a query that fails may have been applied. `persistScheduled` and
`persistInFlight` are the variables of the code. A signal's handler leaves the
process running, but with Postgres it ends the pool of connections once its
persist has returned (`EndsPool`, `flushAndClose`), and `persist` on an ended pool
saves nothing more.
`Durable` maps a process that is down to one that will restart.

**GenLayer escrow.** A raised `UserError` rolls the call back, so each method is
one action and its guard is what it does not raise on. `_coerce_review_outcome`
is kept with its thresholds; the scores it judges are arguments of the creator's
call, which the contract has no means to compare with what validators found. The
contract never zeroes `escrow_locked`: that the reward leaves once rests on the
states alone; `phase` maps states and deposits to those of `EscrowPromise`. Empty
agent and submission identifiers, which the contract cannot tell from none, are
excluded.

**Nano budgets.** Every handler is synchronous and so one action, but for
`verify-arc-proof`, which is two: `VerifyRequested` and, after the chain has
answered, `VerifyAnswered`. Amounts are integers in fractions of the token's
smallest unit, so that rounding to six decimals happens in the model where it
happens in the code. `verify` compares the transfer with the intent's amount; the
payer and the payee it also compares are named by the request itself
(`nanoRoutes.ts:127,130`), so that they bind nobody and are left out. So are the
`allowedPayeeTypes` of a budget, which the model does not refuse.

**Registry.** The row of an agent is one function per field. A request that waits
is a continuation `req[h]`: `verify` for a signature, `health`, `compat` and
`execute` for the agent's answers; the action after it writes the row as the code
does, whatever happened in between. `suspend` (also behind `disableAgent`) and
`blacklistEndpoint` are the administrator's; `bootstrapPlatformAgents`, which every
listing and most writes call, is part of each action that calls it.
`validateEndpoint` refuses endpoints on the blacklist and those that are not http
(`NotHttp`), which the schema of the route admits; `registerAgent` has written the
row by then, as the code has.

Operators named as faulty variants in their comments (`FundAgain`,
`SendsBlindly`, ...) are what a bug in the definition after them would look like.
No specification uses them; `PROJECT.json` names which property each one breaks.

## 3. What TLC checks

| run | instance | shows |
|---|---|---|
| `escrow` | 1 task, 2 agents, 2 accounts (each may be creator, operator and agent owner), 2 nonces, rewards 1 and 10, fee 3333 bps | conservation, single release, payee, fixed submission, refinement of `EscrowPromise` |
| `market_sequential` | 1 request at a time of any of the 13 kinds, from a draft; the engine, the browser and the chain run freely; `MaxPending` 2 | receipts and final statuses are true, one terminal receipt, no refund by the creator in a dispute, disputes hold the escrow, final is final, every request is answered |
| `market_decisions` | 2 concurrent requests among approve, reject, settle, refund, dispute, resolve; from a submitted result | money that moves is recorded; no payout in a dispute |
| `market_delivery` | `RestartingMarket`: direct hire with automatic dispatch; receipts may time out, the process may die and restart from any snapshot, and the creator retries | one terminal receipt, no work before assignment |
| `engine_capped` | open market with room for 2 participants, 1 run, 3 retries, 4 attempts, 2 overlapping passes, callbacks, cancellation (324,272 states) | past the retry cap only an owner who accepts again has a run dispatched; an executing task loses its last worker in two known ways only; every run ends |
| `engine_single` | open market, 2 participants, 2 runs, retry cap 1, re-acceptance, no callbacks (167,489 states) | an executing task has somebody at work while time-outs race late answers |
| `snapshot_store` | 3 facts, one of them written in place, 2 writers, both backends, 2 signals that end the database's pool, 1 failing persist, any number of crashes | the disk is whole, saves only grow, what was scheduled is saved, refinement of `DurableStore` |
| `nano_budget` | 1 budget of 9 or 10 fractions, 3 intents of 2, 5 or 8, 4 fractions to the unit, 1 transaction, at most 2 receipts of an intent | approvals exceed the budget by less than a unit, receipts are of approved intents, failed is final |
| `genlayer_escrow` | 2 tasks, 1 agent, 2 accounts, 2 submission identifiers both tasks may use, scores on both sides of each threshold, fee 3333 bps | only equivalent work is paid for; refinement of `EscrowPromise` |
| `agent_registry` | 2 wallets, an agent to register and a built-in one, 2 endpoints of which one is not http, 1 challenge, 1 draft, 2 overlapping requests (512,480 states) | owners have signed, activity and state agree, nobody is admitted unchecked but through an endpoint that is refused |

Runs that refute what the repository says of itself:

| run | what happens |
|---|---|
| `market_double_settle` | two settlements pass the double-settlement guard together, the second transaction reverts unseen, two payouts are recorded |
| `genlayer_approved` | `approve_submission` leaves the review outcome pending and `settle_task` refuses it: the reward of an approved task can be neither paid nor refunded |

Further configurations are kept beside the regular runs. `MCTaskMarketHire`
passes: two concurrent requests among synchronise, accept, cancel and pause in an
open market keep `DispatchIsAssigned`. The others refute a property each:

| configuration | property | what happens |
|---|---|---|
| `MCTaskMarketFalseReceipt` | `ReceiptsAreTrue` | a verdict overtakes a settlement on the chain; the reverted payout is recorded with its hash |
| `MCTaskMarketDisputed` | `ResolutionCanPay` | `approve_payout` calls `settle_task` on a task the contract holds in DISPUTED; it always reverts |
| `MCTaskMarketDisputed` | `PauseMeansDispute` | an APPROVED task is paused with a receipt but without a dispute |
| `MCRestartingMarketLostReceipt` | `MoneyIsRecorded` | a receipt timeout, then a late success, leaves a payout unrecorded |
| `MCRestartingMarketSecondReceipt` | `OneTerminalReceipt` | an approval times out and is mined late, a rejection sent meanwhile follows it, a settlement reverts behind them and is recorded as paid; the refresh restores REJECTED, a dispute and a refund by the administrator add a second terminal receipt |
| `MCTaskMarketUnresolved` | `AppealIsAvailable` | an appeal of an unresolved task is admitted and reverts |
| `MCTaskMarketDisputePayout` | `NoPayoutInDispute` | a payout with an appeal under way |
| `MCTaskMarketUnassigned` | `DispatchIsAssigned` | a direct hire is accepted before its `assign_task` |
| `MCExecutionEnginePolling` | `RouterStaysUp` | the task is cancelled while its run is dispatched; the rollback throws inside a timer and the process ends |
| `MCExecutionEnginePolling` | `NoStrandedTask` | the last retry fails inside a polling pass that swallows the exception |
| `MCExecutionEngineCallbacks` | `NoStrandedTask` | a callback that overtakes the polling leaves the task behind, also with `MaxRetries = 1` |
| `MCExecutionEngineCallbacks` | `UnauthorizedStops` | a later failure overwrites the terminal error code |
| `MCExecutionEngineCallbacks` | `PostedIsReceived` | adapter and router name a run differently |
| `MCExecutionEngineReaccept` | `AttemptsBounded` | on an open market with room left, an owner who accepts again has the active run dispatched once more, past `MaxRetries` |
| `MCRestartingMarketOrphan` | `ExecutingHasRun` | a restart brings back an executing task and forgets its dispatch |
| `MCSnapshotStoreDropped` | `RestIsSaved` | a change made while a persist is under way, or in place, is saved by a later write only |
| `MCSnapshotStoreDropped` | `SavedAfterSignals` | a signal ends the database's pool, the process serves on and saves nothing more |
| `MCSnapshotStoreUnreadable` | `SavedStays` | a snapshot that cannot be read is overwritten by an almost empty one |
| `MCNanoBudgetRecounted` | `CountedIsApproved` | two receipts of one intent are both counted as paid |
| `MCTaskEscrowSharedId` | `PayeeOwnsAssignedAgent` | a submission identifier used for another task replaces the record that is paid by |
| `MCAgentRegistryServiceRefuted` | eight, see below | |

A configuration with several properties reports them all with `tlc -continue`.

`MCAgentRegistryServiceRefuted` holds `SuspendedStaysInactive` (the owner
deactivates a suspended agent, which is then no longer `suspended`, and activates
it), `SuspensionTakes` (the next listing puts a built-in agent back to active),
`SuspendedIsNotHealthy` (a check that is answered late overwrites the suspended
health), `BlacklistedGetsNoJob` (the job of a compatibility test goes to an
endpoint blacklisted after the test had begun), `ProofsStay` (an overdue challenge
that is verified once more expires), `ExpiredStays` (a late answer verifies a
challenge that expired meanwhile), `TestedIsPublished` (a draft is edited after
its test and published) and `EndpointsAreHttp` (a registration whose endpoint is not
http is refused after its row was written).

**Which properties hold where.** `ReceiptsAreTrue`, `OneTerminalReceipt` and
`StatusIsTrue` hold for one request at a time and fail for two concurrent ones:
the runs above show both sides. `MoneyIsRecorded` survives concurrency and fails
only when a receipt wait times out. `OneTerminalReceipt` survives timeouts and
restarts with one handler as long as the administrator resolves nothing (section 4);
with a resolution it fails when the handler has contradicted the decision whose
receipt it no longer waits for: a wait that ends too early is concurrency with the
handler's own past. With restarts `StatusIsTrue`,
`ReceiptsAreTrue`, `OpenDisputeHoldsEscrow` and `FinalStatusIsFinal` fail, because
the snapshot is older than the chain; `NoPayoutInDispute` and `NoRefundInDispute`
are proved for one handler with restarts (section 4). `DispatchIsAssigned` of a direct hire
holds across restarts unless the task is accepted through the router; an
acceptance breaks it without any fault (`MCTaskMarketUnassigned`).
`NoPayoutInDispute` is proved for one handler, and for two without appeals
(section 4; `market_decisions` checks two). It fails with three, also without appeals (`approve`,
`settle` and `dispute` as the requests of `MCTaskMarketDisputePayout`, and a third
handler): `dispute_task` is mined, an approval overtakes its answer and moves the
contract from DISPUTED to APPROVED, for `approve_submission` asks for the latest
submission and for no state; a settlement is sent, a read taken before the approval
shows DISPUTED again, the dispute is recorded, and the settlement is mined.
`NoRefundInDispute` fails with two (`reject`, `refund` and `dispute`):
`dispute_task` is mined, a refund passes its guard before the answer is recorded,
and `refund_task` accepts a DISPUTED task.

**Bounds and why they are enough.** One task: handlers of different tasks share
nothing but the wallet's nonce order, which the pending queue already delays
arbitrarily. Two agents and two accounts in `escrow` let the owner of an agent
differ from, or equal, the creator and the operator. Two handlers: the
hazards in `PROJECT.json` are pairs of requests; with three handlers the state
space leaves the time limit, and only a search for a violation ends in it (the one
of `NoPayoutInDispute` described above).
`MaxPending` 2 is one transaction per concurrent writer of interest. Receipts are
counted as none, one, several (`Several`), because no guard tells more apart.
`MaxParticipants` 2 lets a task be accepted again, by the same wallet or another,
while it is ASSIGNED; it is what the API's tests use and no guard tells 2 from 20.
In `TaskMarket`, which has one agent, the second acceptance is that agent's own.
`MaxRuns` 2 lets a second run be created after a first; `MaxRetries` 1 and 3 (the
server's default) are the values around which `canRetry` and its callers differ;
`MaxAttempts` stops repeated acceptance from counting on, one above `MaxRetries` so
that it does pass the cap. `engine_single` has neither callbacks nor several
retries, with which `NoStrandedTask` fails; `engine_capped` has both and states
what is left of it, `StrandedOnlyUntold`. Rewards 1 and 10 with an odd fee exercise
rounding to zero and to a fraction.

Three facts are the least with which a save can be older than another save and
the store newer than both; two writers are needed for one persist to meet
another. Budgets of 9 and 10 fractions round down and up, and three spends are
needed for two roundings to add up. Two GenLayer tasks share their submission
identifiers, as the contract lets them. In the registry two requests may overlap
on one row, which is where every hazard found lies; a second registrable agent
would share nothing with the first but the endpoint. The constraint
`DraftsArePublishable` leaves drafts aside once the one agent is registered with an
endpoint: a draft is published as an agent that is not registered yet, so that
none can matter any more. Symmetry is used only where
no liveness is checked.

**Fairness.** `TaskMarket` assumes that pending transactions are mined and that a
handler past an await proceeds (`fetch` and viem time out, so every await returns
or throws); it never assumes that anybody sends a request, that the evaluator
accepts, or that the engine makes progress. `ExecutionEngine` assumes that HTTP
requests are answered or time out (8 and 12 seconds in `lib/http.ts`), that both
timers tick and that time passes. `SnapshotStore` assumes that its timer fires
and that a file operation or a query is answered, while the process lives; nobody
is obliged to write, to send a signal or to restart. All of it is plain weak
fairness.

**Assumptions about the environment.** A crash is one of the process: what the
operating system or the database has accepted stays, and no upsert is applied
after its process has died (one that fails before that may have been). `beforeExit` never fires while the HTTP server
listens. `RestartingMarket` takes the creation of the task as saved. The creator's browser reports only receipts
it has: the router takes the `latestReceipt` of a synchronisation as it is sent
(`taskMarketService.ts:182-192`) and `Synced` does not verify it either. The
registry's signature verifier is the production one and honest; the default
elsewhere accepts a hash anybody can compute, under which an owner has proved
nothing. The registry does not restart. A publication with one check stands for
a publication and a check of its own, and an agent's answers to `/execute` and
`/status` are one answer. The error of binary floating point below the sixth
decimal is ignored.

`CHECK_DEADLOCK FALSE` is set for the engine only: a task that is reviewed and a
process that has ended really stop.

## 4. What is proved

`ArcMarketplaceProofs`, for every set of tasks, agents, accounts and nonces, every
positive reward and every `uint16` fee (including fees above 100%, with which
`settle_task` reverts as checked subtraction does):

* `TypeCorrect`: `Spec => []TypeOK`.
* `EscrowInvariant`: `Spec => []EscrowInv`. `TaskEscrowInv(t)` ties a task's state
  to what is locked and what has moved; it is needed because the properties a
  reader wants (`Conservation`, `PaidOrRefunded`, `ClosedStatesHoldNothing`) are
  not inductive: whether `refund_task` pays twice depends on REFUNDED and SETTLED
  holding nothing and on no function leaving them.
* `MoneySafety`, `PayeeSafety` follow from the two.
* `ReleasedForGood`, `SubmissionSafety`: the action properties, each by the three
  transactions that touch money and the two that touch the work.
* `Refinement`: `Spec => ImplementsPromise`, step by step through `phase`.

Its assumptions are `MarketplaceConstants` and `NoAccountIsNoSender` (the null
address sends no transaction), which TLC evaluates in the run `escrow`. It proves
`PaidOrRefunded` and `ClosedStatesHoldNothing` too, which no run lists because
they follow from `Conservation` and `EscrowInv`.

`TaskEscrowProofs`, for every set of tasks, agents, accounts, submission
identifiers and evidence and every fee up to 100%: `EscrowTypeCorrect`,
`EscrowInvariant`, `PaymentSafety` and `EscrowRefinement`. The contract zeroes
nothing, so `TaskMoneyInv(t)` has to say for each state what has moved, and
`TaskReviewInv(t)` which outcome a state may carry; `PaidIsEquivalent` alone is not
inductive, since disputes and appeals keep an outcome they do not look at.

`SnapshotStoreProofs`, for every set of facts, writers, backends and signals:
`StoreTypeCorrect`, `StoreInvariant`, `WholeSnapshots`, `SavedForGood` and
`StoreRefinement`. The invariant `StoreInv` says that one persist runs at a time
and that what it exported is a state the store was in and covers the disk;
without it a late rename could bring back an older snapshot. `SavedForGood` is
conditional on `RestoreFails = FALSE`.

`NanoBudgetProofs`, for every set of budgets, intents and transactions and all
amounts: `ApprovalOvershoot` (two roundings let an approval exceed the budget by
less than one unit), `NanoInvariant`, `NanoTypeCorrect`, `SpendSafety`
and `FailedForGood`. `NanoInv` adds to the properties that an intent nobody
proposed has no receipts and that a proposed one has a budget.
`BudgetSafety` is `Spec => []WithinBudget`. `BudgetInv` adds that finitely many
intents are reserved at any time (`Intents` itself may be infinite) and that the
amount of a budget with intents is fixed. What it takes is that a sum over a finite
set does not depend on the order of its elements, and that an approval adds its
amount to it. The library's induction rules take a predicate as a parameter, which
no installed prover can instantiate; the lemmas on `Total` argue instead from a
minimal element of the set of counterexamples, by the well-foundedness of `<` on
the naturals and of the strict subset relation.

`AgentRegistryServiceProofs`, for any number of wallets, agents, endpoints and
overlapping requests: `RegistryTypeCorrect`, `OwnerSafety`, `ActivitySafety` and
`AdmissionSafety`. The last needs `AdmittedInv`: a registration that waits for the
compatibility check has written the health already, and no handler makes a known
status unknown again. It excepts the endpoints `validateEndpoint` refuses, for
which the code does leave an unchecked row. `OwnerSafety` rests on the honest
verifier (section 3).

`TaskRecordProofs` holds lemmas without state: what reconciliation, each effect and
each guard do to the status, the dispute and the receipts of a record, whichever
record it is. Both proofs below cite them instead of opening the effects again.

`ExecutionEngineProofs`, for any number of requests, passes, runs and attempts:

* `EngineInvariant`, `TypeCorrect`: types, and `RunsExist`, that every
  continuation refers to a run that has been created.
* `RetriesAreBounded`: past `MaxRetries` no step but an acceptance by the run's owner
  dispatches a run, in both hiring modes and with any number of participants. That
  the attempts themselves stay within the cap is false (`MCExecutionEngineReaccept`).
* `StrandedOnlyByUntold`: whatever the number of retries, with callbacks or without,
  in both hiring modes, a task that is executing loses the last one who works on it
  only when a retry's dispatch is given up in a polling pass, whose exception nobody
  passes on, or when a callback has completed the run and the submission throws.
  `MCExecutionEnginePolling` and `MCExecutionEngineCallbacks` show that both happen.

Both are action properties. They need `EngineInv`, and the first `RetriesInv` besides:
a run that is queued for a retry has attempts left.

`TaskMarketProofs`, for any number of concurrent handlers, any subset of the
requests and both hiring modes:

* `MarketInvariant`, `TypesHold`. `MarketInv` is typing with three facts: each
  continuation is at a stage its operation has (`RequestsInv`), the queue holds
  one transaction of each handler that waits for one, and besides these only
  transactions that nobody waits for (`QueueInv`), and the contract satisfies
  `TypeOK` and `EscrowInv`. Without timeouts and restarts somebody waits for every
  transaction (`Owned`).
* `RouterUsesTheContract`: every step of the market is a transaction of
  `ArcMarketplace` or leaves the contract alone. `ContractStaysSafe` follows, by
  the step theorems of `ArcMarketplaceProofs` instantiated for one task.
* `MoneyRecorded`: money that has moved has a receipt, or a request that was mined
  is about to append one (`MoneyInv`).

For `RestartingMarket`, where receipts time out and the process restarts from a
snapshot of any age, under the same parameters:

* `RestartInvariant`: `MarketInv` survives, and the snapshot is a record of the
  router's types (`SnapshotOK`).
* `RestartsUseTheContract`, `ContractSurvivesRestarts`: the market is still a sender
  of the contract's transactions and nothing else, so that the reward is conserved
  and leaves at most once whatever the router forgets.
* `MarketMovesAsPromised`, `MarketImplementsPromise`: every step of the market is a
  step of `EscrowPromise` or leaves it alone, by the step lemma of the contract's
  `Refinement`; with a task picked up before it holds a submission, so is the
  initial state. The router refines the abstract escrow through the contract.
* `DispatchedIsAssigned`: a run is dispatched only on an assignment the contract
  holds, in a direct hire without `accept` among the requests. `AssignedInv` covers
  all that can show work in hand: the record, the run, the snapshot, the
  contract's state, a start under way and every read that is not applied yet,
  since a stale one of them would bring the work back after a restart. The
  contract's side is that an assignment is never taken back.

An acceptance assigns the record without asking the contract
(`MCTaskMarketUnassigned`), and in an open market the router assigns by itself, in
an acceptance or an automatic dispatch, and marks the task before the contract
has agreed: hence the two hypotheses of `DispatchedIsAssigned`. The assumption
`RestartConstants`, which TLC evaluates in `market_delivery`, says that no handler
has the name that stands for nobody.

For one handler besides the engine (`Handlers = {h}`):

* `SequentialAgreement`: `SequentialInv(h)`. The record agrees with the contract
  unless a mined transaction awaits its answer; what a guard admitted stays
  admitted while the handler waits; a transaction that was sent will be accepted;
  a result's report overtakes nothing. TLC checked it in eight instances first.
* `ReceiptedOnce`, `ReceiptsTellTheTruth`, `FinalStatusIsTrue`,
  `DisputeHoldsEscrow`, `NoPayoutWhileDisputed`, `NoRefundWhileDisputed`,
  `FinalStatusStays` follow from it. `ReceiptsTellTheTruth` and
  `FinalStatusIsTrue` need `Fee < 10000`: a fee of 100% leaves the agent nothing
  although it is recorded as paid, and one above it makes `settle_task` revert.

For one handler with timeouts, crashes and restarts:

* `NoPayoutAcrossRestarts`, `NoRefundAcrossRestarts`. The record no longer agrees
  with the contract, so `SequentialInv` is of no use. `DisputedInv(h)` argues from
  the wallet's nonce order instead: the handler waits for one transaction at a
  time, so that what it has sent is younger than every settlement and refund still
  queued, those it gave up waiting for included; when its dispute is mined, none of
  them is left. A dispute in the record or in the snapshot excludes settlements and
  refunds that are queued or about to be sent, and a snapshot's dispute that is no
  longer open in the record was closed with a terminal receipt, which both guards
  look at.
* `ReceiptedOnceAcrossRestarts`, without `resolve_paid` and `resolve_refund` among
  the requests. The two guards refuse a second terminal receipt, and what they found
  stays true while the handler waits (`ReceiptedInv`); the administrator's guard
  asks for an open dispute, not for receipts, and `MCRestartingMarketSecondReceipt`
  shows the resolution that adds a second one.

TLC checked both invariants before the proof (one handler, every request but the
resolutions, an open market from SUBMITTED: 3.9 million states).

One handler is not a convenience: with two, `MCTaskMarketDoubleSettle`,
`MCTaskMarketFalseReceipt` and `MCTaskMarketDisputePayout` refute these properties.

For two handlers without appeals (`Handlers = {g, h}`), any other requests, without
restarts:

* `NoPayoutAmongTwo`. The record lags behind the contract, so `SequentialInv` is of
  no use here either. `PairInv(g, h)` argues that while one handler settles, only
  the other one can dispute or approve, and never both. Once `dispute_task` is mined
  the contract is `Barred`: from there no call but `approve_submission` leads back to
  a state in which a settlement is executed, and the handler that recorded the
  dispute may only resolve it, because its guards look at the dispute and at a
  status that is barred too (`Calm`, which also covers the read it has taken and not
  applied). The rest is `SubmissionInv`, that a submission stays anchored as long as
  there is something to decide, and `FoundInv`, what the guards of the requests
  under way have found. TLC checked the invariant before the proof, in three
  instances: decisions, verdicts and resolutions from a submitted task,
  sync, accept, approve, settle and dispute from a draft, and sync, cancel,
  reject, refund, settle, dispute and approve from a direct hire of a platform agent
  (4.5 million).

Both hypotheses are needed: two handlers one of which appeals
(`MCTaskMarketDisputePayout`) and three that do not (section 3) pay in a dispute, and
`NoRefundInDispute` fails with two.

Only model-checked: liveness (`Answered`, `RunEnds`, `ScheduledIsSaved`), which is
beyond the prover.

## 5. Not modelled

Presentation (web), text generation and its quality engine, the ERC-8183 mirror
that no guard reads, the demo seeding, the trust score's floating point sums, the
evaluator's aggregation of scores (a pure weighted mean; the market takes any
outcome it can return). The audit log, moderation flags and rate limits, which no
guard of the modelled parts reads. `packages/contracts/marketplace/domain.py`, a
copy of the contract's rules for tests, and the single-file
`contracts/marketplace/marketplace.py`. Bundles under
`apps/web/.vercel-static` are generated.

Within the modelled parts: several market tasks at once, task drafts, recovery of
a task the router has lost, external receipts
(`reconcileTaskFromExternalReceipts`), the built-in agents' run beyond the reports
they make, roles (the modelled requests come from whoever may make them), restarts
of the engine, and the registry's version history, metadata, slugs and connection
display. Improve Again refuses tasks that live on the contract, so it has no place
in `TaskMarket`.

## 6. Plan

Done: escrow and registry contracts, task market over the contract, execution
engine, GenLayer contracts, nano budgets, snapshot store, market with restarts,
agent registry; proofs about all of them.

Left, most important first:

1. `LocalMarket`: the task market without a chain bridge (its writes are skipped,
   handlers become atomic but for evaluator and Improve Again).
2. `ExecutionEngine` over `DurableStore`: runs that restart in `dispatching`.
3. Aggregation of evaluator scores as a function against a reference definition.
4. Recovery of lost tasks and external receipts, with several tasks.
