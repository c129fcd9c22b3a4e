----------------------------- MODULE TaskMarket -----------------------------
(***************************************************************************)
(* The router's handlers for one task, interleaved at their awaits, over   *)
(* the escrow contract they write to (server.ts attaches the bridges, the  *)
(* server wallet is the contract's operator).                              *)
(*                                                                         *)
(* One Node process runs every handler; the task object is shared and a    *)
(* handler keeps its reference across awaits.  A request                   *)
(*   refresh : reads the contract, or fails to, and is answered later;     *)
(*   resumes : overwrites the task with what it read, checks its guard;    *)
(*   write   : a gas estimate throws if the call would revert now;         *)
(*   sent    : the transaction waits in the wallet's nonce order;          *)
(*   mined   : executed, or reverted: the receipt's status is not read;    *)
(*   completes: applies its effect to the task as it is by then.           *)
(* The execution engine reports starts, results and failures of the run in *)
(* the same way, without the refresh.  The creator's browser creates, funds*)
(* and assigns on the contract directly.                                   *)
(***************************************************************************)
EXTENDS TaskRecord, Sequences, FiniteSets

CONSTANTS
  Handlers,          \* concurrent requests
  Engine,            \* the execution engine's report in flight
  Requests,          \* the operations requested, a subset of AllRequests
  InitialStatus,     \* where the model picks the task up
  PlatformAgent,     \* the agent is a built-in one, dispatched automatically
  MaxPending,        \* bound on transactions waiting to be mined
  \* the contract's world: one task, one agent, the creator and the server
  Task, Agent, Creator, Server, Submission, Reward, Fee, NoAccount, NoAgent

VARIABLES
  task,      \* the router's task object
  paused,    \* store.pausedTasks has an active row
  run,       \* the execution run of the task, as far as the task sees it
  req,       \* handler and engine continuations
  pending,   \* the server wallet's transactions, in nonce order
  agentOwner, agentActive, operator, creator, rewardAmount, state,
  assignedAgentId, latestSubmissionId, escrowLocked, deposited, toAgent,
  toTreasury, toCreator, payee

Arc == INSTANCE ArcMarketplace WITH
  Agents <- {Agent}, Accounts <- {Creator, Server}, Tasks <- {Task},
  Rewards <- {Reward}, Nonces <- {Submission}, PlatformFeeBps <- Fee

registryVars == <<agentOwner, agentActive>>
arcVars == <<operator, creator, rewardAmount, state, assignedAgentId, latestSubmissionId,
             escrowLocked, deposited, toAgent, toTreasury, toCreator, payee>>
chain == <<registryVars, arcVars>>
vars == <<task, paused, run, req, pending, chain>>

Procs == Handlers \cup {Engine}

\* The contract's constants, and names that differ.
ASSUME MarketConstants ==
  /\ Engine \notin Handlers
  /\ MaxPending \in Nat
  /\ Reward \in Nat \ {0} /\ Fee \in Nat /\ Fee < 2^16
  /\ NoAccount \notin {Creator, Server} /\ NoAgent # Agent
  /\ NoSubmission # Submission /\ LocalSubmission \notin {Submission, NoSubmission}

ApiRequests ==
  {"accept", "approve", "reject", "advise", "appeal", "cancel", "settle", "refund",
   "dispute", "resolve_paid", "resolve_refund"}
AllRequests == ApiRequests \cup {"sync", "pause"}

\* Handlers that ask for the pause before they refresh.
AsksPauseFirst == {"approve", "reject", "advise", "appeal", "cancel"}

ContractCalls ==
  {"assign_task", "start_execution", "submit_task", "approve_submission",
   "reject_submission", "finalize_review", "dispute_task", "appeal_task", "settle_task",
   "cancel_task", "refund_task"}

Unread == [state |-> "unread", submission |-> NoSubmission, locked |-> FALSE]
NoCall == "none"
Idle ==
  [pc |-> "idle", op |-> "none", call |-> NoCall, seen |-> Unread,
   submission |-> NoSubmission, outcome |-> "none"]

-----------------------------------------------------------------------------
(* The contract, as the server wallet calls it. *)

readTask ==
  [state |-> state[Task], submission |-> latestSubmissionId[Task],
   locked |-> escrowLocked[Task] > 0]

Call(c) ==
  /\ \/ c.call = "assign_task" /\ Arc!assign_task(Server, Task, Agent)
     \/ c.call = "start_execution" /\ Arc!start_execution(Server, Task, Agent)
     \/ c.call = "submit_task" /\ Arc!submit_task(Server, Task, Agent, Submission)
     \/ c.call = "approve_submission" /\ Arc!approve_submission(Server, Task, c.submission)
     \/ c.call = "reject_submission" /\ Arc!reject_submission(Server, Task, c.submission)
     \/ /\ c.call = "finalize_review"
        /\ Arc!finalize_review(Server, Task, c.submission, c.outcome)
     \/ c.call = "dispute_task" /\ Arc!dispute_task(Server, Task)
     \/ c.call = "appeal_task" /\ Arc!appeal_task(Server, Task)
     \/ c.call = "settle_task" /\ Arc!settle_task(Server, Task)
     \/ c.call = "cancel_task" /\ Arc!cancel_task(Server, Task)
     \/ c.call = "refund_task" /\ Arc!refund_task(Server, Task)
  /\ UNCHANGED registryVars

\* What the call's requires ask of the contract as it is now.
Accepts(c) ==
  \/ c.call = "assign_task" /\ Arc!CanAssign(Server, Task, Agent)
  \/ c.call = "start_execution" /\ Arc!CanStart(Server, Task, Agent)
  \/ c.call = "submit_task" /\ Arc!CanSubmit(Server, Task, Agent)
  \/ /\ c.call \in {"approve_submission", "reject_submission"}
     /\ Arc!CanDecide(Server, Task, c.submission)
  \/ c.call = "finalize_review" /\ Arc!CanFinalize(Server, Task, c.submission)
  \/ c.call = "dispute_task" /\ Arc!CanDispute(Server, Task)
  \/ c.call = "appeal_task" /\ Arc!CanAppeal(Server, Task)
  \/ c.call = "settle_task" /\ Arc!CanSettle(Server, Task)
  \/ c.call = "cancel_task" /\ Arc!CanCancel(Server, Task)
  \/ c.call = "refund_task" /\ Arc!CanRefund(Server, Task)

Reverts(c) == ~Accepts(c)

-----------------------------------------------------------------------------
(* What a request checks, calls and does. *)

Guard(op, r) ==
  CASE op = "accept" -> ~paused /\ MayAccept(r)
    [] op \in {"approve", "reject"} -> MayDecide(r)
    [] op = "advise" -> IsReviewable(r)
    [] op = "appeal" -> MayAppeal(r)
    [] op = "cancel" -> MayCancel(r)
    [] op = "settle" -> MaySettle(r)
    [] op = "refund" -> MayRefund(r)
    [] op = "dispute" -> MayDispute(r)
    [] op \in {"resolve_paid", "resolve_refund"} -> MayResolve(r)

\* Only an open-market task that is still open is assigned on the contract.
AssignCall(r) ==
  IF r.status = "OPEN" /\ HiringMode = "open_market" THEN "assign_task" ELSE NoCall

\* The first contract call of a request.
FirstCall(op, r) ==
  CASE op = "accept" -> AssignCall(r)
    [] op = "approve" -> "approve_submission"
    [] op = "reject" -> "reject_submission"
    [] op = "advise" -> NoCall
    [] op = "appeal" -> "appeal_task"
    [] op = "cancel" -> "cancel_task"
    [] op \in {"settle", "resolve_paid"} -> "settle_task"
    [] op \in {"refund", "resolve_refund"} -> "refund_task"
    [] op = "dispute" -> "dispute_task"

\* The model's one agent takes part.
Picked(r) == Joined(r, 1)

\* What a request writes before its first call.
Prepared(op, r) ==
  CASE op = "accept" -> Picked(r)
    [] op = "appeal" -> AppealOpened(r)
    [] OTHER -> r

\* What it writes after its last one.
Effect(c, r) ==
  CASE c.op = "accept" -> Accepted(r, TRUE)
    [] c.op = "auto" -> AutoAssigned(r)
    [] c.op = "approve" -> Approved(r)
    [] c.op = "reject" -> Rejected(r)
    [] c.op = "advise" -> Advised(r)
    [] c.op = "appeal" -> ConsensusApplied(r, c.outcome)
    [] c.op = "cancel" -> Cancelled(r)
    [] c.op = "settle" -> Settled(r)
    [] c.op = "refund" -> Refunded(r)
    [] c.op = "dispute" -> DisputeOpened(r)
    [] c.op = "resolve_paid" -> AdminResolved(r, TRUE)
    [] c.op = "resolve_refund" -> AdminResolved(r, FALSE)
    [] c.op = "start" -> ExecutionStarted(r)
    [] c.op = "submit" ->
         SubmissionReceived(r, IF c.call = "submit_task" THEN Submission ELSE NoSubmission)

\* What it does to the execution run: an accepted task is dispatched, unless
\* the status change threw; a run that is active already is dispatched again.
RunAfter(c, r) ==
  CASE c.op = "accept" -> IF r.status = "ASSIGNED" THEN "dispatched" ELSE run
    [] c.op = "auto" -> IF run = "running" THEN run ELSE "dispatched"
    [] c.op = "start" -> IF r.status = "EXECUTING" THEN "running" ELSE run
    [] c.op = "submit" -> "done"
    [] OTHER -> run

Continue(p, c) == req' = [req EXCEPT ![p] = c]
Finish(p) == Continue(p, Idle)
Answer(p, c, r) ==
  /\ task' = Effect(c, r)
  /\ run' = RunAfter(c, task')
  /\ Finish(p)

-----------------------------------------------------------------------------
(* Requests. *)

\* A request arrives and reads the contract; a failed read is swallowed.
Begin(h, op) ==
  /\ req[h].pc = "idle"
  /\ op \in AsksPauseFirst => ~paused
  /\ \E seen \in {readTask, Unread} :
       /\ seen.state # "NONE"
       /\ Continue(h, [Idle EXCEPT !.pc = "refresh", !.op = op, !.seen = seen])
  /\ UNCHANGED <<task, paused, run, pending, chain>>

Refreshed(h) ==
  LET seen == req[h].seen
  IN  IF seen = Unread THEN task
      ELSE reconcileTaskFromOnchain(task, seen.state, seen.submission, seen.locked)

\* The read answers: reconcile, check the guard, run to the next await.
Resume(h) ==
  LET r == Refreshed(h)
      op == req[h].op
      c == [Idle EXCEPT !.op = op, !.submission = r.submission]
  IN  /\ req[h].pc = "refresh"
      /\ \/ /\ ~Guard(op, r)
            /\ task' = r
            /\ Finish(h)
            /\ UNCHANGED run
         \/ /\ Guard(op, r)
            /\ FirstCall(op, r) # NoCall
            /\ task' = Prepared(op, r)
            /\ Continue(h, [c EXCEPT !.pc = "write", !.call = FirstCall(op, r)])
            /\ UNCHANGED run
         \/ /\ Guard(op, r)
            /\ op = "advise"
            /\ task' = r
            /\ Continue(h, [c EXCEPT !.pc = "evaluate"])
            /\ UNCHANGED run
         \/ /\ Guard(op, r)
            /\ op = "accept" /\ FirstCall(op, r) = NoCall
            /\ task' = Accepted(Picked(r), r.status = "OPEN")
            /\ run' = RunAfter([c EXCEPT !.op = op], task')
            /\ Finish(h)
      /\ UNCHANGED <<paused, pending, chain>>

\* Faulty variant of Send: no estimate.
SendsBlindly(p) ==
  /\ req[p].pc = "write"
  /\ Len(pending) < MaxPending
  /\ pending' = Append(pending, [by |-> p, tx |-> req[p]])
  /\ Continue(p, [req[p] EXCEPT !.pc = "sent"])
  /\ UNCHANGED <<task, paused, run, chain>>

\* The estimate passes and the transaction is sent.
Send(p) ==
  /\ req[p].pc = "write"
  /\ ~Reverts(req[p])
  /\ Len(pending) < MaxPending
  /\ pending' = Append(pending, [by |-> p, tx |-> req[p]])
  /\ Continue(p, [req[p] EXCEPT !.pc = "sent"])
  /\ UNCHANGED <<task, paused, run, chain>>

\* Faulty variant of Throw: an estimate that fails is repeated until it passes.
RepeatsTheEstimate(p) ==
  /\ req[p].pc = "evaluate"
  /\ Finish(p)
  /\ UNCHANGED <<task, paused, run, pending, chain>>

\* The estimate throws, because the call would revert or the RPC failed, or
\* the evaluator does.
Throw(p) ==
  /\ req[p].pc \in {"write", "evaluate"}
  /\ Finish(p)
  /\ UNCHANGED <<task, paused, run, pending, chain>>

\* The oldest pending transaction is executed or reverts.
Mine ==
  LET tx == Head(pending)
  IN  /\ pending # <<>>
      /\ Call(tx.tx) \/ (Reverts(tx.tx) /\ UNCHANGED chain)
      /\ pending' = Tail(pending)
      /\ req' = [p \in Procs |-> IF tx.by = p THEN [req[p] EXCEPT !.pc = "mined"]
                                 ELSE req[p]]
      /\ UNCHANGED <<task, paused, run>>

\* An appeal goes on to the evaluator, then to finalize_review, then to a
\* verdict of its own if the task is back in review by then.
NextCall(c) ==
  IF /\ c.call = "finalize_review"
     /\ c.outcome \in {"accepted", "rejected"}
     /\ task.status \in {"SUBMITTED", "UNDER_REVIEW"}
  THEN IF c.outcome = "accepted" THEN "approve_submission" ELSE "reject_submission"
  ELSE NoCall

Complete(p) ==
  LET c == req[p]
  IN  /\ c.pc = "mined"
      /\ \/ /\ c.call = "appeal_task"
            /\ Continue(p, [c EXCEPT !.pc = "evaluate", !.call = NoCall])
            /\ UNCHANGED <<task, run>>
         \/ /\ NextCall(c) # NoCall
            /\ Continue(p, [c EXCEPT !.pc = "write", !.call = NextCall(c)])
            /\ UNCHANGED <<task, run>>
         \/ /\ c.call # "appeal_task"
            /\ NextCall(c) = NoCall
            /\ Answer(p, c, task)
      /\ UNCHANGED <<paused, pending, chain>>

Evaluate(h) ==
  LET c == req[h]
  IN  /\ c.pc = "evaluate"
      /\ \/ /\ c.op = "advise"
            /\ Answer(h, c, task)
         \/ /\ c.op = "appeal"
            /\ \E outcome \in ConsensusOutcomes :
                 Continue(h, [c EXCEPT !.pc = "write", !.call = "finalize_review",
                                       !.outcome = outcome])
            /\ UNCHANGED <<task, run>>
      /\ UNCHANGED <<paused, pending, chain>>

-----------------------------------------------------------------------------
(* The execution engine. *)

\* A start report finds the task running already, or throws, or goes on.
EngineStart ==
  /\ req[Engine].pc = "idle"
  /\ run = "dispatched"
  /\ \/ /\ task.funded /\ task.status = "EXECUTING"
        /\ run' = "running"
        /\ UNCHANGED req
     \/ /\ MayStart(task)
        /\ Continue(Engine, [Idle EXCEPT !.pc = "write", !.op = "start",
                                         !.call = "start_execution"])
        /\ UNCHANGED run
  /\ UNCHANGED <<task, paused, pending, chain>>

\* A result arrives, first or late or again (callback, poll, replay): the
\* bridge reads the contract before it writes.  Guard and read are one step: a
\* task that moves on between them is refused by SubmissionReceived.
EngineSubmit ==
  /\ req[Engine].pc = "idle"
  /\ run # "none"
  /\ MaySubmit(task)
  /\ LET c == [Idle EXCEPT !.op = "submit"]
     IN  Continue(Engine, IF state[Task] \in {"ASSIGNED", "EXECUTING"}
                          THEN [c EXCEPT !.pc = "write", !.call = "submit_task"]
                          ELSE [c EXCEPT !.pc = "mined"])
  /\ UNCHANGED <<task, paused, run, pending, chain>>

\* The run failed or timed out.
EngineFail ==
  /\ run \in {"dispatched", "running"}
  /\ task' = ExecutionFailed(task)
  /\ run' = "failed"
  /\ UNCHANGED <<paused, req, pending, chain>>

-----------------------------------------------------------------------------
(* The browser and the admin. *)

BrowserWrite ==
  /\ \/ Arc!create_task(Creator, Task, Reward)
     \/ Arc!fund_task(Creator, Task)
     \/ HiringMode = "direct_hire" /\ Arc!assign_task(Creator, Task, Agent)
  /\ UNCHANGED <<task, paused, run, req, pending, registryVars>>

\* The browser reports a transaction it waited for.  The router does not verify
\* the report: that it is honest, a funding receipt existing only once the
\* contract holds the reward, is assumed of the creator's browser.
syncTaskWithChain(h, fundingAnchored, assignAnchored) ==
  LET r == Synced(task, fundingAnchored, assignAnchored)
      c == [Idle EXCEPT !.op = "auto"]
  IN  /\ req[h].pc = "idle"
      /\ "sync" \in Requests
      /\ fundingAnchored => deposited[Task] > 0
      /\ assignAnchored => fundingAnchored /\ assignedAgentId[Task] = Agent
      /\ \/ /\ ~(PlatformAgent /\ MayAutoDispatch(r))
            /\ task' = r
            /\ UNCHANGED <<run, req>>
         \/ /\ PlatformAgent /\ MayAutoDispatch(r)
            /\ HiringMode = "open_market"
            /\ task' = Picked(r)
            /\ Continue(h, [c EXCEPT !.pc = "write", !.call = "assign_task"])
            /\ UNCHANGED run
         \/ /\ PlatformAgent /\ MayAutoDispatch(r)
            /\ HiringMode = "direct_hire"
            /\ Answer(h, c, r)
      /\ UNCHANGED <<paused, pending, chain>>

\* There is no action that lifts a pause.
pauseTask ==
  /\ "pause" \in Requests
  /\ ~paused
  /\ paused' = TRUE
  /\ UNCHANGED <<task, run, req, pending, chain>>

-----------------------------------------------------------------------------

\* Either a draft nothing is known of on the chain, or a funded task whose
\* result was submitted and anchored.
Submitted == InitialStatus = "SUBMITTED"
On(value, empty) == [t \in {Task} |-> IF Submitted THEN value ELSE empty]

Init ==
  /\ task = IF Submitted
            THEN [buildTaskDetail EXCEPT
                    !.status = "SUBMITTED", !.resultStatus = "submitted",
                    !.submission = Submission, !.funded = TRUE, !.participants = 1]
            ELSE buildTaskDetail
  /\ paused = FALSE
  /\ run = IF Submitted THEN "done" ELSE "none"
  /\ req = [p \in Procs |-> Idle]
  /\ pending = <<>>
  /\ agentOwner = [a \in {Agent} |-> Server] /\ agentActive = [a \in {Agent} |-> TRUE]
  /\ operator = Server
  /\ creator = On(Creator, NoAccount) /\ rewardAmount = On(Reward, 0)
  /\ state = On("SUBMITTED", "NONE")
  /\ assignedAgentId = On(Agent, NoAgent) /\ latestSubmissionId = On(Submission, NoSubmission)
  /\ escrowLocked = On(Reward, 0) /\ deposited = On(Reward, 0)
  /\ toAgent = On(0, 0) /\ toTreasury = On(0, 0) /\ toCreator = On(0, 0)
  /\ payee = On(NoAccount, NoAccount)

Advance(p) ==
  \/ Send(p)
  \/ Throw(p)
  \/ Complete(p)
  \/ p \in Handlers /\ (Resume(p) \/ Evaluate(p))

Next ==
  \/ \E p \in Procs : Advance(p)
  \/ Mine
  \/ \E h \in Handlers :
       \/ \E op \in Requests \cap ApiRequests : Begin(h, op)
       \/ \E funding, assignment \in BOOLEAN : syncTaskWithChain(h, funding, assignment)
  \/ EngineStart
  \/ EngineSubmit
  \/ EngineFail
  \/ BrowserWrite
  \/ pauseTask

\* Every await returns or throws, and the chain keeps producing blocks;
\* nobody is obliged to send a request.
Spec == Init /\ [][Next]_vars /\ WF_vars(Mine) /\ \A p \in Procs : WF_vars(Advance(p))

-----------------------------------------------------------------------------
(* Properties. *)

Continuations ==
  [pc : {"idle", "refresh", "write", "sent", "mined", "evaluate"},
   op : ApiRequests \cup {"none", "auto", "start", "submit"},
   call : ContractCalls \cup {NoCall},
   seen : {Unread} \cup
          [state : Arc!TaskState \ {"NONE"}, submission : {Submission, NoSubmission},
           locked : BOOLEAN],
   submission : {Submission, NoSubmission, LocalSubmission},
   outcome : ConsensusOutcomes \cup {"none"}]

\* Every variable has its type.
TypeOK ==
  /\ task \in TaskRecords({Submission})
  /\ paused \in BOOLEAN
  /\ run \in {"none", "dispatched", "running", "done", "failed"}
  /\ req \in [Procs -> Continuations]
  /\ pending \in Seq([by : Procs, tx : Continuations])
  /\ Len(pending) <= MaxPending
  /\ Arc!TypeOK

Quiet == \A p \in Procs : req[p].pc = "idle"
PaidReceipts == task.history["paid"] + task.history["admin_paid"]
RefundReceipts == task.history["refunded"] + task.history["admin_refunded"]

\* A receipt that says an agent was paid, or a creator refunded, is in the
\* history only if the contract did move that task's reward there: receipts
\* are appended although the status of the mined transaction is never read.
ReceiptsAreTrue ==
  /\ PaidReceipts > 0 => toAgent[Task] > 0
  /\ RefundReceipts > 0 => toCreator[Task] > 0

\* The double-settlement guard works: whoever asks for settlement, refund and
\* resolution, in whatever order, at most one terminal receipt is recorded.
OneTerminalReceipt == PaidReceipts + RefundReceipts <= 1

\* The two final statuses are never shown for money that has not moved.
StatusIsTrue ==
  /\ task.status = "SETTLED" => toAgent[Task] > 0
  /\ task.status = "REFUNDED" => toCreator[Task] > 0

\* A dispute that is open while nothing is under way still has a reward to
\* be resolved about.
OpenDisputeHoldsEscrow == task.dispute = "open" /\ Quiet => escrowLocked[Task] > 0

\* Money that left the escrow through the router is in the receipt history
\* once the request that moved it has been answered.
MoneyIsRecorded ==
  Quiet =>
    /\ toAgent[Task] > 0 => PaidReceipts > 0
    /\ toCreator[Task] > 0 => RefundReceipts > 0

\* Every pause receipt belongs to a dispute the task knows of.
PauseMeansDispute == Quiet /\ task.history["paused"] > 0 => task.dispute # "none"

\* The creator's settlement never pays the agent while a dispute is open.
NoPayoutInDispute ==
  [][toAgent' # toAgent /\ Head(pending).tx.op = "settle" => task.dispute # "open"]_vars

\* The creator's refund is never executed while a dispute is open.
NoRefundInDispute ==
  [][toCreator' # toCreator /\ Head(pending).tx.op = "refund" => task.dispute # "open"]_vars

\* A task that shows a final status keeps it: no late report of the engine, no
\* refresh and no synchronisation takes it back.
FinalStatusIsFinal ==
  [][isTerminalTaskStatus(task.status) => task.status' = task.status]_vars

\* An admin who resolves an open dispute in the agent's favour reaches a
\* contract call that can succeed.
ResolutionCanPay ==
  \A h \in Handlers : req[h].pc = "write" /\ req[h].op = "resolve_paid" => ~Reverts(req[h])

\* A task the router lets through to an appeal can be appealed on the contract.
AppealIsAvailable ==
  \A h \in Handlers : req[h].pc = "write" /\ req[h].call = "appeal_task" => ~Reverts(req[h])

\* An agent is only put to work on a task the contract has assigned to it, or
\* that was cancelled meanwhile: a transaction that lost the race leaves no run
\* that will be delivered for nothing.
DispatchIsAssigned ==
  Quiet /\ run \in {"dispatched", "running"} =>
    \/ assignedAgentId[Task] = Agent
    \/ task.status = "CANCELLED"

\* Every request and every engine report is answered: no handler waits for
\* ever, although transactions queue behind one another and may revert.
Answered == \A p \in Procs : (req[p].pc # "idle") ~> (req[p].pc = "idle")
=============================================================================
