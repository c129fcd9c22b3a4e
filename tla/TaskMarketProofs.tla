-------------------------- MODULE TaskMarketProofs --------------------------
(***************************************************************************)
(* Proofs about TaskMarket, for every fee, reward and bound on pending     *)
(* transactions, both hiring modes and both places where the model picks a *)
(* task up.                                                                *)
(*                                                                         *)
(* For any number of concurrent handlers: types, what the contract under   *)
(* the router goes on guaranteeing (the proofs about ArcMarketplace are    *)
(* instantiated, not repeated), and MoneyIsRecorded.                       *)
(* For one handler next to the execution engine and the browser: what the  *)
(* receipts, the statuses and the dispute say about the contract.          *)
(* For two handlers that do not appeal: no payout while a dispute is open. *)
(* For RestartingMarket, whose process times out, dies and restarts: the   *)
(* contract's guarantees again, that the market implements the escrow's    *)
(* promise, and that a direct hire works on nothing it is not assigned;    *)
(* for one handler, that money respects disputes and receipts are single.  *)
(***************************************************************************)
EXTENDS RestartingMarket, TaskRecordProofs, SequenceTheorems

-----------------------------------------------------------------------------
(* The contract under the router. *)

\* The contract's proofs, about the market's one task.
ArcP == INSTANCE ArcMarketplaceProofs WITH
  Agents <- {Agent}, Accounts <- {Creator, Server}, Tasks <- {Task},
  Rewards <- {Reward}, Nonces <- {Submission}, PlatformFeeBps <- Fee

\* Both instances define the same formulas.
LEMMA SameContract ==
  /\ Arc!TypeOK <=> ArcP!TypeOK
  /\ Arc!EscrowInv <=> ArcP!EscrowInv
  /\ [Arc!Next]_(Arc!vars) <=> [ArcP!Next]_(ArcP!vars)
<1>1. Arc!TypeOK <=> ArcP!TypeOK
  BY DEF Arc!TypeOK, ArcP!TypeOK, Arc!TaskState, ArcP!TaskState,
       Arc!SubmissionIds, ArcP!SubmissionIds
<1>2. Arc!EscrowInv <=> ArcP!EscrowInv
  BY DEF Arc!EscrowInv, ArcP!EscrowInv, Arc!TaskEscrowInv, ArcP!TaskEscrowInv
<1>3. Arc!Next <=> ArcP!Next
  BY DEF Arc!Next, ArcP!Next, Arc!MarketNext, ArcP!MarketNext,
       Arc!RegistryNext, ArcP!RegistryNext, Arc!register_agent, ArcP!register_agent,
       Arc!update_agent, ArcP!update_agent, Arc!disable_agent, ArcP!disable_agent,
       Arc!create_task, ArcP!create_task, Arc!fund_task, ArcP!fund_task,
       Arc!assign_task, ArcP!assign_task, Arc!submit_task, ArcP!submit_task,
       Arc!StateTransaction, ArcP!StateTransaction,
       Arc!start_execution, ArcP!start_execution, Arc!start_review, ArcP!start_review,
       Arc!approve_submission, ArcP!approve_submission,
       Arc!reject_submission, ArcP!reject_submission,
       Arc!finalize_review, ArcP!finalize_review, Arc!dispute_task, ArcP!dispute_task,
       Arc!appeal_task, ArcP!appeal_task, Arc!cancel_task, ArcP!cancel_task,
       Arc!settle_task, ArcP!settle_task, Arc!refund_task, ArcP!refund_task,
       Arc!setOperator, ArcP!setOperator, Arc!CanAssign, ArcP!CanAssign,
       Arc!CanStart, ArcP!CanStart, Arc!CanSubmit, ArcP!CanSubmit,
       Arc!CanDecide, ArcP!CanDecide, Arc!CanFinalize, ArcP!CanFinalize,
       Arc!CanDispute, ArcP!CanDispute, Arc!CanAppeal, ArcP!CanAppeal,
       Arc!CanSettle, ArcP!CanSettle, Arc!CanCancel, ArcP!CanCancel,
       Arc!CanRefund, ArcP!CanRefund, Arc!onlyOperator, ArcP!onlyOperator,
       Arc!onlyCreator, ArcP!onlyCreator,
       Arc!onlyCreatorOrOperator, ArcP!onlyCreatorOrOperator, Arc!SetState, ArcP!SetState,
       Arc!PlatformFee, ArcP!PlatformFee, Arc!SubmissionIds, ArcP!SubmissionIds,
       Arc!Outcomes, ArcP!Outcomes, Arc!ReviewState, ArcP!ReviewState,
       Arc!RefundableStates, ArcP!RefundableStates, Arc!registryVars, ArcP!registryVars,
       Arc!marketVars, ArcP!marketVars, Arc!terms, ArcP!terms, Arc!work, ArcP!work,
       Arc!money, ArcP!money
<1>4. UNCHANGED Arc!vars <=> UNCHANGED ArcP!vars
  BY DEF Arc!vars, ArcP!vars, Arc!registryVars, ArcP!registryVars,
       Arc!marketVars, ArcP!marketVars, Arc!terms, ArcP!terms, Arc!work, ArcP!work,
       Arc!money, ArcP!money
<1> QED
  BY <1>1, <1>2, <1>3, <1>4

\* What a transaction of the contract keeps: its types, and what the state of
\* a task says about its money.
LEMMA ContractKeeps ==
  /\ Arc!TypeOK /\ [Arc!Next]_(Arc!vars) => Arc!TypeOK'
  /\ Arc!TypeOK /\ Arc!EscrowInv /\ [Arc!Next]_(Arc!vars) => Arc!EscrowInv'
<1>1. /\ {Reward} \subseteq Nat \ {0} /\ Fee \in Nat /\ Fee < 2^16
      /\ NoAgent \notin {Agent} /\ NoSubmission \notin {Submission}
  BY MarketConstants
<1>2. NoAccount \notin {Creator, Server}
  BY MarketConstants
<1>3. ArcP!TypeOK /\ [ArcP!Next]_(ArcP!vars) => ArcP!TypeOK'
  BY <1>1, <1>2, ArcP!TypeStep
<1>4. ArcP!TypeOK /\ ArcP!EscrowInv /\ [ArcP!Next]_(ArcP!vars) => ArcP!EscrowInv'
  BY <1>1, <1>2, ArcP!EscrowStep
<1>5. Arc!TypeOK' <=> ArcP!TypeOK'
  BY DEF Arc!TypeOK, ArcP!TypeOK, Arc!TaskState, ArcP!TaskState,
       Arc!SubmissionIds, ArcP!SubmissionIds
<1>6. Arc!EscrowInv' <=> ArcP!EscrowInv'
  BY DEF Arc!EscrowInv, ArcP!EscrowInv, Arc!TaskEscrowInv, ArcP!TaskEscrowInv
<1> QED
  BY <1>3, <1>4, <1>5, <1>6, SameContract

\* What the contract's proof says of a transaction, of the market's contract.
LEMMA PromiseStep ==
  Arc!TypeOK /\ Arc!EscrowInv /\ [Arc!Next]_(Arc!vars) =>
    [Arc!Promise!Next]_(Arc!Promise!vars)
<1>1. /\ {Reward} \subseteq Nat \ {0} /\ Fee \in Nat /\ Fee < 2^16
      /\ NoAgent \notin {Agent} /\ NoSubmission \notin {Submission}
      /\ NoAccount \notin {Creator, Server}
  BY MarketConstants
<1>2. ArcP!TypeOK /\ ArcP!EscrowInv /\ [ArcP!Next]_(ArcP!vars) =>
        [ArcP!Promise!Next]_(ArcP!Promise!vars)
  BY <1>1, ArcP!PromiseStep
<1>3. [ArcP!Promise!Next]_(ArcP!Promise!vars) => [Arc!Promise!Next]_(Arc!Promise!vars)
  BY DEF ArcP!Promise!Next, Arc!Promise!Next, ArcP!Promise!vars, Arc!Promise!vars,
         ArcP!Promise!Deposit, Arc!Promise!Deposit, ArcP!Promise!Pay, Arc!Promise!Pay,
         ArcP!Promise!Refund, Arc!Promise!Refund, ArcP!phase, Arc!phase
<1> QED
  BY <1>2, <1>3, SameContract

-----------------------------------------------------------------------------
(* Requests and the transactions they wait for. *)

\* The contract calls a request of each kind makes.
CallsOf ==
  [none |-> {}, accept |-> {"assign_task"}, auto |-> {"assign_task"},
   approve |-> {"approve_submission"}, reject |-> {"reject_submission"}, advise |-> {},
   appeal |-> {"appeal_task", "finalize_review", "approve_submission", "reject_submission"},
   cancel |-> {"cancel_task"}, settle |-> {"settle_task"}, resolve_paid |-> {"settle_task"},
   refund |-> {"refund_task"}, resolve_refund |-> {"refund_task"},
   dispute |-> {"dispute_task"}, start |-> {"start_execution"}, submit |-> {"submit_task"}]

EngineOps == {"none", "start", "submit"}

\* Where a request can stand: its call belongs to its kind, only the engine
\* starts and submits, an appeal has an outcome after its first call.
Stage(p, c) ==
  /\ IF p = Engine THEN c.op \in EngineOps ELSE c.op \notin {"start", "submit"}
  /\ c.pc = "refresh" => c.op \in ApiRequests
  /\ c.pc = "evaluate" => c.op \in {"advise", "appeal"}
  /\ c.pc \in {"write", "sent"} => c.call \in CallsOf[c.op]
  /\ c.pc = "mined" => c.call \in CallsOf[c.op] \/ (c.op = "submit" /\ c.call = NoCall)
  /\ c.op = "appeal" /\ c.call \notin {NoCall, "appeal_task"} => c.outcome \in ConsensusOutcomes

RequestsInv == \A p \in Procs : Stage(p, req[p])

\* What a queued transaction calls belongs to its request, and a verdict says
\* which one.
Sendable(c) ==
  /\ c.call \in CallsOf[c.op]
  /\ c.call = "finalize_review" => c.outcome \in ConsensusOutcomes

\* The queue holds the transactions of the requests that wait for one, as they
\* were sent, each once.  Besides them there may be transactions that nobody
\* waits for any more.
QueueInv ==
  /\ \A i \in 1 .. Len(pending) :
       /\ Sendable(pending[i].tx)
       /\ pending[i].by \in Procs =>
            /\ req[pending[i].by].pc = "sent"
            /\ pending[i].tx = [req[pending[i].by] EXCEPT !.pc = "write"]
  /\ \A i, j \in 1 .. Len(pending) :
       pending[i].by \in Procs /\ pending[i].by = pending[j].by => i = j

\* Without timeouts and restarts somebody waits for every transaction.
Owned == \A i \in 1 .. Len(pending) : pending[i].by \in Procs

Entries == [by : Procs \cup {"nobody"}, tx : Continuations]

\* The router's own variables, without the contract's.
RouterTypeOK ==
  /\ task \in TaskRecords({Submission})
  /\ paused \in BOOLEAN
  /\ run \in {"none", "dispatched", "running", "done", "failed"}
  /\ req \in [Procs -> Continuations]
  /\ pending \in Seq(Entries)
  /\ Len(pending) <= MaxPending

MarketInv ==
  /\ RouterTypeOK
  /\ RequestsInv
  /\ QueueInv
  /\ Arc!TypeOK
  /\ Arc!EscrowInv

\* No receipt is ever taken back.
Grows(m, r) == \A kind \in Receipts : m.history[kind] >= r.history[kind]

PaidIn(r) == r.history["paid"] + r.history["admin_paid"]
RefundedIn(r) == r.history["refunded"] + r.history["admin_refunded"]

\* What a request writes last: a task object again, with no receipt less; and
\* a settlement or a refund always leaves a receipt, whatever status the task
\* has by then.
LEMMA EffectKeeps ==
  ASSUME NEW r \in TaskRecords({Submission}), NEW c \in Continuations,
         c.op # "none", c.op = "appeal" => c.outcome \in ConsensusOutcomes
  PROVE  LET m == Effect(c, r)
         IN  /\ m \in TaskRecords({Submission})
             /\ Grows(m, r)
             /\ c.op \in {"settle", "resolve_paid"} => PaidIn(m) > 0
             /\ c.op \in {"refund", "resolve_refund"} => RefundedIn(m) > 0
<1>1. r.history \in [Receipts -> 0 .. Several] /\ Several = 2
  BY DEF TaskRecords, Several
<1>2. /\ "paid" \in Receipts /\ "refunded" \in Receipts /\ "paused" \in Receipts
      /\ "admin_paid" \in Receipts /\ "admin_refunded" \in Receipts
  BY DEF Receipts
<1>3. ASSUME NEW m, m.history = r.history
      PROVE  Grows(m, r)
  <2>1. \A kind \in Receipts : r.history[kind] \in Nat
    BY <1>1
  <2>2. \A n \in Nat : n >= n
    OBVIOUS
  <2> QED
    BY <1>3, <2>1, <2>2 DEF Grows
<1>4. ASSUME NEW m \in TaskRecords({Submission}), NEW kind \in Receipts,
             m.history = Recorded(r, kind).history
      PROVE  /\ Grows(m, r)
             /\ m.history[kind] > 0
             /\ \A k \in Receipts : m.history[k] \in Nat
  <2>1. m.history \in [Receipts -> 0 .. Several]
    BY DEF TaskRecords
  <2>2. /\ m.history[kind] = IF r.history[kind] = Several THEN Several
                             ELSE r.history[kind] + 1
        /\ \A k \in Receipts \ {kind} : m.history[k] = r.history[k]
    BY <1>4, RecordedEffect
  <2> QED
    BY <1>1, <2>1, <2>2 DEF Grows
<1>5. CASE c.op = "accept"
  <2>1. Effect(c, r) = Accepted(r, TRUE)
    BY <1>5 DEF Effect
  <2>2. /\ Accepted(r, TRUE) \in TaskRecords({Submission})
        /\ Accepted(r, TRUE).history = r.history
    BY AcceptEffect DEF SameStanding
  <2> QED
    BY <1>3, <1>5, <2>1, <2>2
<1>6. CASE c.op = "auto"
  <2>1. Effect(c, r) = AutoAssigned(r)
    BY <1>6 DEF Effect
  <2> QED
    BY <1>3, <1>6, <2>1, AutoEffect DEF SameStanding
<1>7. CASE c.op \in {"approve", "reject", "cancel"}
  <2>1. Effect(c, r) \in {Approved(r), Rejected(r), Cancelled(r)}
    BY <1>7 DEF Effect
  <2> QED
    BY <1>3, <1>7, <2>1, DecisionEffect DEF SameStanding
<1>8. CASE c.op = "advise"
  <2>1. Effect(c, r) = Advised(r)
    BY <1>8 DEF Effect
  <2> QED
    BY <1>3, <1>8, <2>1, ReviewEffect DEF SameStanding
<1>9. CASE c.op = "appeal"
  <2>1. Effect(c, r) = ConsensusApplied(r, c.outcome)
    BY <1>9 DEF Effect
  <2> QED
    BY <1>3, <1>9, <2>1, ConsensusEffect
<1>10. CASE c.op = "settle"
  <2>1. Effect(c, r) = Settled(r)
    BY <1>10 DEF Effect
  <2>2. /\ Settled(r) \in TaskRecords({Submission})
        /\ Settled(r).history = Recorded(r, "paid").history
    BY SettlementEffect
  <2> DEFINE m == Effect(c, r)
  <2>3. /\ m \in TaskRecords({Submission}) /\ Grows(m, r)
        /\ m.history["paid"] > 0
        /\ \A k \in Receipts : m.history[k] \in Nat
    BY <1>2, <1>4, <2>1, <2>2
  <2> HIDE DEF m
  <2>4. PaidIn(m) > 0
    BY <1>2, <2>3 DEF PaidIn
  <2> QED
    BY <1>10, <2>3, <2>4 DEF m
<1>11. CASE c.op = "refund"
  <2>1. Effect(c, r) = Refunded(r)
    BY <1>11 DEF Effect
  <2>2. /\ Refunded(r) \in TaskRecords({Submission})
        /\ Refunded(r).history = Recorded(r, "refunded").history
    BY SettlementEffect
  <2> DEFINE m == Effect(c, r)
  <2>3. /\ m \in TaskRecords({Submission}) /\ Grows(m, r)
        /\ m.history["refunded"] > 0
        /\ \A k \in Receipts : m.history[k] \in Nat
    BY <1>2, <1>4, <2>1, <2>2
  <2> HIDE DEF m
  <2>4. RefundedIn(m) > 0
    BY <1>2, <2>3 DEF RefundedIn
  <2> QED
    BY <1>11, <2>3, <2>4 DEF m
<1>12. CASE c.op = "dispute"
  <2>1. Effect(c, r) = DisputeOpened(r)
    BY <1>12 DEF Effect
  <2>2. /\ DisputeOpened(r) \in TaskRecords({Submission})
        /\ DisputeOpened(r).history = Recorded(r, "paused").history
    BY SettlementEffect
  <2> QED
    BY <1>2, <1>4, <1>12, <2>1, <2>2
<1>13. CASE c.op = "resolve_paid"
  <2>1. Effect(c, r) = AdminResolved(r, TRUE)
    BY <1>13 DEF Effect
  <2>2. /\ AdminResolved(r, TRUE) \in TaskRecords({Submission})
        /\ AdminResolved(r, TRUE).history = Recorded(r, "admin_paid").history
    BY ResolutionEffect
  <2> DEFINE m == Effect(c, r)
  <2>3. /\ m \in TaskRecords({Submission}) /\ Grows(m, r)
        /\ m.history["admin_paid"] > 0
        /\ \A k \in Receipts : m.history[k] \in Nat
    BY <1>2, <1>4, <2>1, <2>2
  <2> HIDE DEF m
  <2>4. PaidIn(m) > 0
    BY <1>2, <2>3 DEF PaidIn
  <2> QED
    BY <1>13, <2>3, <2>4 DEF m
<1>14. CASE c.op = "resolve_refund"
  <2>1. Effect(c, r) = AdminResolved(r, FALSE)
    BY <1>14 DEF Effect
  <2>2. /\ AdminResolved(r, FALSE) \in TaskRecords({Submission})
        /\ AdminResolved(r, FALSE).history = Recorded(r, "admin_refunded").history
    BY ResolutionEffect
  <2> DEFINE m == Effect(c, r)
  <2>3. /\ m \in TaskRecords({Submission}) /\ Grows(m, r)
        /\ m.history["admin_refunded"] > 0
        /\ \A k \in Receipts : m.history[k] \in Nat
    BY <1>2, <1>4, <2>1, <2>2
  <2> HIDE DEF m
  <2>4. RefundedIn(m) > 0
    BY <1>2, <2>3 DEF RefundedIn
  <2> QED
    BY <1>14, <2>3, <2>4 DEF m
<1>15. CASE c.op = "start"
  <2>1. Effect(c, r) = ExecutionStarted(r)
    BY <1>15 DEF Effect
  <2> QED
    BY <1>3, <1>15, <2>1, EngineEffect DEF SameStanding
<1>16. CASE c.op = "submit"
  <2> DEFINE anchored == IF c.call = "submit_task" THEN Submission ELSE NoSubmission
  <2>1. Effect(c, r) = SubmissionReceived(r, anchored)
    BY <1>16 DEF Effect
  <2>2. anchored \in {Submission} \cup {NoSubmission}
    OBVIOUS
  <2> HIDE DEF anchored
  <2> QED
    BY ZenonT(40), <1>3, <1>16, <2>1, <2>2, EngineEffect DEF SameStanding
<1>17. c.op \in ApiRequests \cup {"auto", "start", "submit"}
  BY DEF Continuations
<1> QED
  BY <1>5, <1>6, <1>7, <1>8, <1>9, <1>10, <1>11, <1>12, <1>13, <1>14, <1>15, <1>16, <1>17
     DEF ApiRequests

\* A sequence is one over every set that holds its elements.
LEMMA SequenceOver ==
  ASSUME NEW S, NEW T, NEW s \in Seq(S), \A i \in 1 .. Len(s) : s[i] \in T
  PROVE  s \in Seq(T)
<1>1. Len(s) \in Nat /\ s \in [1 .. Len(s) -> S]
  BY LenProperties
<1>2. s \in [1 .. Len(s) -> T]
  BY <1>1
<1> QED
  BY <1>1, <1>2, SeqDef

\* Which kinds of request make which call.
LEMMA CallOps ==
  ASSUME NEW c \in Continuations, c.call \in CallsOf[c.op]
  PROVE  /\ c.op # "none" /\ c.op # "advise" /\ c.call # NoCall
         /\ c.call \in {"appeal_task", "finalize_review"} => c.op = "appeal"
         /\ c.call \in {"approve_submission", "reject_submission"} =>
              c.op \in {"approve", "reject", "appeal"}
         /\ c.call = "settle_task" <=> c.op \in {"settle", "resolve_paid"}
         /\ c.call = "refund_task" <=> c.op \in {"refund", "resolve_refund"}
         /\ c.call = "start_execution" <=> c.op = "start"
         /\ c.call = "submit_task" => c.op = "submit"
<1>1. c.op \in ApiRequests \cup {"none", "auto", "start", "submit"}
  BY DEF Continuations
<1> QED
  BY <1>1 DEF CallsOf, ApiRequests, NoCall

\* What is queued is a request as it was written, of a sender or of nobody.
LEMMA QueuedEntry ==
  ASSUME RouterTypeOK, NEW i \in 1 .. Len(pending)
  PROVE  pending[i].by \in Procs \cup {"nobody"} /\ pending[i].tx \in Continuations
<1>1. pending[i] \in Entries
  BY ElementOfSeq DEF RouterTypeOK
<1> QED
  BY <1>1 DEF Entries

\* A request that moves on to another stage while none of its transactions is
\* queued.
LEMMA ContinueKeeps ==
  ASSUME RouterTypeOK, RequestsInv, QueueInv,
         NEW p \in Procs, NEW c \in Continuations, Stage(p, c), req[p].pc # "sent",
         Continue(p, c), UNCHANGED pending
  PROVE  /\ req' \in [Procs -> Continuations] /\ RequestsInv' /\ QueueInv'
         /\ pending' \in Seq(Entries) /\ Len(pending') <= MaxPending
<1>1. req \in [Procs -> Continuations] /\ req' = [req EXCEPT ![p] = c]
  BY DEF RouterTypeOK, Continue
<1>2. req' \in [Procs -> Continuations]
  BY <1>1
<1>3. RequestsInv'
  BY <1>1 DEF RequestsInv, Stage
<1>4. ASSUME NEW i \in 1 .. Len(pending), pending[i].by \in Procs
      PROVE  req'[pending[i].by] = req[pending[i].by]
  <2>1. pending[i].by # p
    BY <1>4 DEF QueueInv
  <2> QED
    BY <1>1, <1>4, <2>1
<1>5. QueueInv'
  BY <1>4 DEF QueueInv, Sendable
<1> QED
  BY <1>2, <1>3, <1>5 DEF RouterTypeOK

\* The transaction that is sent is the youngest of the queue.
LEMMA SendKeeps ==
  ASSUME RouterTypeOK, RequestsInv, QueueInv, NEW p \in Procs, Send(p)
  PROVE  /\ req' \in [Procs -> Continuations] /\ RequestsInv' /\ QueueInv'
         /\ pending' \in Seq(Entries) /\ Len(pending') <= MaxPending
         /\ Owned => Owned'
<1> DEFINE c == [req[p] EXCEPT !.pc = "sent"]
           e == [by |-> p, tx |-> req[p]]
<1>1. /\ req[p] \in Continuations /\ req[p].pc = "write"
      /\ c \in Continuations /\ e \in Entries
  BY ZenonT(40) DEF RouterTypeOK, Send, Continuations, Entries
<1>2. req' = [req EXCEPT ![p] = c] /\ pending' = Append(pending, e)
  BY DEF Send, Continue
<1>3. pending \in Seq(Entries) /\ Len(pending) < MaxPending /\ MaxPending \in Nat
  BY MarketConstants DEF RouterTypeOK, Send
<1>4. /\ pending' \in Seq(Entries) /\ Len(pending') = Len(pending) + 1
      /\ \A i \in 1 .. Len(pending) : pending'[i] = pending[i]
      /\ pending'[Len(pending) + 1] = e
  <2> HIDE DEF e
  <2> QED
    BY <1>1, <1>2, <1>3, AppendProperties
<1>5. req' \in [Procs -> Continuations] /\ req'[p] = c
      /\ \A q \in Procs \ {p} : req'[q] = req[q]
  BY <1>1, <1>2 DEF RouterTypeOK
<1>6. Stage(p, c) /\ Sendable(req[p])
  <2>1. Stage(p, req[p])
    BY DEF RequestsInv
  <2>2. Stage(p, c)
    BY <1>1, <2>1 DEF Stage, Continuations
  <2>3. Sendable(req[p])
    BY <1>1, <2>1, CallOps DEF Stage, Sendable, NoCall
  <2> QED
    BY <2>2, <2>3
<1>7. RequestsInv'
  BY ZenonT(40), <1>5, <1>6 DEF RequestsInv, Stage
<1>8. c.pc = "sent" /\ [c EXCEPT !.pc = "write"] = req[p]
  BY ZenonT(40), <1>1 DEF Continuations
<1>9. ASSUME NEW i \in 1 .. Len(pending), pending[i].by \in Procs
      PROVE  /\ pending[i].by \in Procs \ {p}
             /\ req'[pending[i].by] = req[pending[i].by]
  BY <1>1, <1>5, <1>9 DEF QueueInv
<1>10. \A k \in 1 .. Len(pending') : k \in 1 .. Len(pending) \/ k = Len(pending) + 1
  BY <1>3, <1>4
<1> HIDE DEF c
<1>11. ASSUME NEW i \in 1 .. Len(pending')
       PROVE  /\ Sendable(pending'[i].tx)
              /\ pending'[i].by \in Procs =>
                   /\ req'[pending'[i].by].pc = "sent"
                   /\ pending'[i].tx = [req'[pending'[i].by] EXCEPT !.pc = "write"]
  <2>1. CASE i = Len(pending) + 1
    BY <1>4, <1>5, <1>6, <1>8, <2>1
  <2>2. CASE i \in 1 .. Len(pending)
    <3>1. pending'[i] = pending[i] /\ Sendable(pending[i].tx)
      BY <1>4, <2>2 DEF QueueInv
    <3>2. ASSUME pending[i].by \in Procs
          PROVE  /\ req'[pending[i].by].pc = "sent"
                 /\ pending[i].tx = [req'[pending[i].by] EXCEPT !.pc = "write"]
      <4>1. req'[pending[i].by] = req[pending[i].by]
        BY <1>9, <2>2, <3>2
      <4> QED
        BY <2>2, <3>2, <4>1 DEF QueueInv
    <3> QED
      BY <3>1, <3>2
  <2> QED
    BY <1>10, <2>1, <2>2
<1>12. ASSUME NEW i \in 1 .. Len(pending'), NEW j \in 1 .. Len(pending'),
              pending'[i].by \in Procs, pending'[i].by = pending'[j].by
       PROVE  i = j
  <2>1. \A k \in 1 .. Len(pending) : pending'[k].by # p /\ pending'[k].by = pending[k].by
    BY <1>4, <1>9
  <2>2. pending'[Len(pending) + 1].by = p
    BY <1>4
  <2> QED
    BY <1>10, <1>12, <2>1, <2>2 DEF QueueInv
<1>13. Owned => Owned'
  BY <1>4, <1>10 DEF Owned
<1>14. QueueInv'
  BY <1>11, <1>12 DEF QueueInv, Sendable
<1> QED
  BY <1>3, <1>4, <1>5, <1>7, <1>13, <1>14

\* The oldest transaction of the queue, and what is left without it.
LEMMA OldestPending ==
  ASSUME RouterTypeOK, pending # <<>>
  PROVE  /\ 1 \in 1 .. Len(pending) /\ Head(pending) = pending[1]
         /\ Tail(pending) \in Seq(Entries) /\ Len(Tail(pending)) = Len(pending) - 1
         /\ Len(pending) \in Nat
         /\ \A i \in 1 .. Len(Tail(pending)) :
              Tail(pending)[i] = pending[i + 1] /\ i + 1 \in 1 .. Len(pending) /\ i + 1 # 1
<1>1. pending \in Seq(Entries) /\ pending # <<>>
  BY DEF RouterTypeOK
<1>2. Len(pending) \in Nat /\ Len(pending) >= 1
  BY <1>1, EmptySeq
<1>3. /\ Head(pending) = pending[1]
      /\ Tail(pending) \in Seq(Entries) /\ Len(Tail(pending)) = Len(pending) - 1
      /\ \A i \in 1 .. Len(Tail(pending)) : Tail(pending)[i] = pending[i + 1]
  BY <1>1, <1>2, HeadTailProperties
<1> QED
  BY <1>2, <1>3

\* The transaction that is mined is the oldest of the queue, and the request
\* that waits for it goes on; every other one keeps waiting where it was.
LEMMA MineMoves ==
  ASSUME RouterTypeOK, RequestsInv, QueueInv, Mine
  PROVE  LET p == Head(pending).by
             c == [req[p] EXCEPT !.pc = "mined"]
         IN  /\ pending' = Tail(pending)
             /\ p \notin Procs => req' = req
             /\ p \in Procs =>
                  /\ req[p].pc = "sent" /\ c \in Continuations
                  /\ Head(pending).tx = [req[p] EXCEPT !.pc = "write"]
                  /\ req' = [req EXCEPT ![p] = c]
<1> DEFINE p == Head(pending).by
           c == [req[p] EXCEPT !.pc = "mined"]
<1>1. req \in [Procs -> Continuations] /\ pending # <<>> /\ pending' = Tail(pending)
  BY DEF RouterTypeOK, Mine
<1>2. 1 \in 1 .. Len(pending) /\ Head(pending) = pending[1]
  BY <1>1, OldestPending
<1>3. p \in Procs => /\ req[p].pc = "sent"
                     /\ Head(pending).tx = [req[p] EXCEPT !.pc = "write"]
  BY <1>2 DEF QueueInv
<1>4. p \in Procs => c \in Continuations
  <2> HIDE DEF p
  <2>1. p \in Procs => req[p] \in Continuations
    BY <1>1
  <2> QED
    BY <2>1 DEF Continuations
<1>5. req' = [q \in Procs |-> IF p = q THEN [req[q] EXCEPT !.pc = "mined"] ELSE req[q]]
  BY DEF Mine
<1>6. /\ p \notin Procs => req' = req
      /\ p \in Procs => req' = [req EXCEPT ![p] = c]
  <2> HIDE DEF p
  <2> QED
    BY <1>1, <1>5
<1> QED
  BY <1>1, <1>3, <1>4, <1>6

\* With the oldest transaction gone the queue still holds every other one once.
LEMMA MineKeeps ==
  ASSUME RouterTypeOK, RequestsInv, QueueInv, Mine
  PROVE  /\ req' \in [Procs -> Continuations] /\ RequestsInv' /\ QueueInv'
         /\ pending' \in Seq(Entries) /\ Len(pending') <= MaxPending
         /\ Owned => Owned'
<1> DEFINE p == Head(pending).by
           c == [req[p] EXCEPT !.pc = "mined"]
<1>1. /\ pending' = Tail(pending)
      /\ p \notin Procs => req' = req
      /\ p \in Procs => /\ req[p].pc = "sent" /\ c \in Continuations
                        /\ req' = [req EXCEPT ![p] = c]
  BY MineMoves
<1>2. pending # <<>> /\ req \in [Procs -> Continuations] /\ Len(pending) <= MaxPending
  BY DEF RouterTypeOK, Mine
<1>3. /\ pending' \in Seq(Entries) /\ Len(pending') = Len(pending) - 1
      /\ Len(pending) \in Nat /\ 1 \in 1 .. Len(pending) /\ Head(pending) = pending[1]
      /\ \A i \in 1 .. Len(pending') :
           pending'[i] = pending[i + 1] /\ i + 1 \in 1 .. Len(pending) /\ i + 1 # 1
  <2> HIDE DEF p
  <2> QED
    BY <1>1, <1>2, OldestPending
<1>4. /\ req' \in [Procs -> Continuations]
      /\ \A q \in Procs : req'[q] = IF q = p THEN c ELSE req[q]
  <2> HIDE DEF p, c
  <2> QED
    BY <1>1, <1>2
<1>5. p \in Procs => Stage(p, c)
  <2> HIDE DEF p
  <2>1. p \in Procs => req[p] \in Continuations /\ Stage(p, req[p])
    BY <1>2 DEF RequestsInv
  <2> QED
    BY <1>1, <2>1 DEF Stage, Continuations
<1>6. RequestsInv'
  <2> HIDE DEF p, c
  <2>1. \A q \in Procs : Stage(q, req'[q])
    BY <1>4, <1>5 DEF RequestsInv
  <2> QED
    BY <2>1 DEF RequestsInv, Stage
<1>7. ASSUME NEW i \in 1 .. Len(pending'), pending'[i].by \in Procs
      PROVE  pending'[i].by # p /\ req'[pending'[i].by] = req[pending'[i].by]
  <2>1. pending[i + 1].by # p
    BY <1>3, <1>7 DEF QueueInv
  <2> HIDE DEF p
  <2> QED
    BY <1>3, <1>4, <1>7, <2>1
<1> HIDE DEF p, c
<1>8. ASSUME NEW i \in 1 .. Len(pending')
      PROVE  /\ Sendable(pending'[i].tx)
             /\ pending'[i].by \in Procs =>
                  /\ req'[pending'[i].by].pc = "sent"
                  /\ pending'[i].tx = [req'[pending'[i].by] EXCEPT !.pc = "write"]
  <2>1. /\ pending'[i] = pending[i + 1] /\ i + 1 \in 1 .. Len(pending)
        /\ Sendable(pending[i + 1].tx)
    BY <1>3 DEF QueueInv
  <2>2. ASSUME pending'[i].by \in Procs
        PROVE  /\ req'[pending'[i].by].pc = "sent"
               /\ pending'[i].tx = [req'[pending'[i].by] EXCEPT !.pc = "write"]
    <3>1. req'[pending'[i].by] = req[pending'[i].by]
      BY <1>7, <2>2
    <3> QED
      BY <2>1, <2>2, <3>1 DEF QueueInv
  <2> QED
    BY <2>1, <2>2
<1>9. ASSUME NEW i \in 1 .. Len(pending'), NEW j \in 1 .. Len(pending'),
             pending'[i].by \in Procs, pending'[i].by = pending'[j].by
      PROVE  i = j
  <2>1. i + 1 = j + 1
    BY <1>3, <1>9 DEF QueueInv
  <2> QED
    BY <1>3, <2>1
<1>10. QueueInv'
  BY <1>8, <1>9 DEF QueueInv, Sendable
<1>11. Owned => Owned'
  BY <1>3 DEF Owned
<1> QED
  BY <1>2, <1>3, <1>4, <1>6, <1>10, <1>11, MarketConstants

\* What every step of the router keeps.
Kept ==
  /\ RouterTypeOK'
  /\ RequestsInv'
  /\ QueueInv'
  /\ Owned => Owned'
  /\ Grows(task', task)

\* A step that leaves the receipts alone drops none.
LEMMA GrowsReflexive ==
  ASSUME NEW S, NEW r \in TaskRecords(S), NEW m, m.history = r.history
  PROVE  Grows(m, r)
<1>1. r.history \in [Receipts -> 0 .. Several]
  BY DEF TaskRecords
<1>2. \A kind \in Receipts : r.history[kind] \in Nat
  BY <1>1 DEF Several
<1>3. \A n \in Nat : n >= n
  OBVIOUS
<1> QED
  BY <1>2, <1>3 DEF Grows

\* The end of a request, and the fields of one that begins.
LEMMA FreshStage ==
  /\ Idle \in Continuations
  /\ \A p \in Procs : Stage(p, Idle)
<1>1. /\ NoCall \in ContractCalls \cup {NoCall} /\ Unread \in {Unread}
      /\ Idle.pc = "idle" /\ Idle.op = "none" /\ Idle.call = NoCall
  BY DEF Idle
<1>2. Idle \in Continuations
  BY DEF Idle, Continuations
<1> QED
  BY <1>1, <1>2 DEF Stage, EngineOps, CallsOf

\* A step that moves one request, none of whose transactions is queued.
LEMMA MoveKeeps ==
  ASSUME RouterTypeOK, RequestsInv, QueueInv,
         NEW p \in Procs, NEW c \in Continuations, Stage(p, c), req[p].pc # "sent",
         Continue(p, c), UNCHANGED <<paused, pending>>,
         task' \in TaskRecords({Submission}), Grows(task', task),
         run' \in {"none", "dispatched", "running", "done", "failed"}
  PROVE  Kept
BY ContinueKeeps DEF Kept, RouterTypeOK, Owned

\* The answer of a request whose last await has returned.
LEMMA AnswerKeeps ==
  ASSUME RouterTypeOK, RequestsInv, QueueInv,
         NEW p \in Procs, req[p].pc # "sent",
         NEW c \in Continuations, NEW r \in TaskRecords({Submission}), r.history = task.history,
         c.op # "none", c.op = "appeal" => c.outcome \in ConsensusOutcomes,
         Answer(p, c, r), UNCHANGED <<paused, pending>>
  PROVE  /\ Kept
         /\ task' = Effect(c, r)
         /\ c.op \in {"settle", "resolve_paid"} => PaidIn(task') > 0
         /\ c.op \in {"refund", "resolve_refund"} => RefundedIn(task') > 0
<1>1. task' = Effect(c, r) /\ run' = RunAfter(c, task') /\ Continue(p, Idle)
  BY DEF Answer, Finish
<1>2. /\ task' \in TaskRecords({Submission})
      /\ Grows(task', r)
      /\ c.op \in {"settle", "resolve_paid"} => PaidIn(task') > 0
      /\ c.op \in {"refund", "resolve_refund"} => RefundedIn(task') > 0
  BY <1>1, EffectKeeps
<1>3. run' \in {"none", "dispatched", "running", "done", "failed"}
  BY <1>1 DEF RunAfter, RouterTypeOK
<1>4. Grows(task', task)
  BY <1>2 DEF Grows
<1> QED
  BY <1>1, <1>2, <1>3, <1>4, FreshStage, MoveKeeps

\* A request begins with what it read of the contract.
LEMMA BeginKeeps ==
  ASSUME MarketInv, NEW h \in Handlers, NEW op \in ApiRequests, Begin(h, op)
  PROVE  Kept
<1>1. h \in Procs /\ h # Engine
  BY MarketConstants DEF Procs
<1>2. PICK seen \in {readTask, Unread} :
        /\ seen.state # "NONE"
        /\ Continue(h, [Idle EXCEPT !.pc = "refresh", !.op = op, !.seen = seen])
  BY DEF Begin
<1> DEFINE c == [Idle EXCEPT !.pc = "refresh", !.op = op, !.seen = seen]
<1>3. readTask \in [state : Arc!TaskState, submission : {Submission, NoSubmission},
                    locked : BOOLEAN]
  BY DEF MarketInv, Arc!TypeOK, Arc!SubmissionIds, readTask
<1>4. c \in Continuations
  <2>1. seen \in {Unread} \cup
                 [state : Arc!TaskState \ {"NONE"}, submission : {Submission, NoSubmission},
                  locked : BOOLEAN]
    BY <1>2, <1>3
  <2> QED
    BY <2>1 DEF Idle, Continuations
<1>5. c.pc = "refresh" /\ c.op = op /\ c.call = NoCall
  BY DEF Idle
<1> HIDE DEF c
<1>6. Stage(h, c)
  <2>1. op \notin {"start", "submit"}
    BY DEF ApiRequests
  <2> QED
    BY <1>1, <1>5, <2>1 DEF Stage
<1>7. Grows(task', task)
  BY GrowsReflexive DEF Begin, MarketInv, RouterTypeOK
<1> QED
  BY <1>1, <1>2, <1>4, <1>6, <1>7, MoveKeeps DEF Begin, MarketInv, RouterTypeOK, c

\* The refreshed task: the receipts and the dispute are those of before.
LEMMA RefreshedEffect ==
  ASSUME RouterTypeOK, NEW h \in Procs
  PROVE  LET r == Refreshed(h)
             seen == req[h].seen
         IN  /\ r \in TaskRecords({Submission})
             /\ r.history = task.history /\ r.dispute = task.dispute
             /\ seen = Unread => r = task
             /\ seen # Unread =>
                  r.status = IF seen.state = "ESCROW_FUNDED" THEN "OPEN" ELSE seen.state
<1> DEFINE seen == req[h].seen
<1>1. task \in TaskRecords({Submission})
  BY DEF RouterTypeOK
<1>2. CASE seen = Unread
  BY <1>1, <1>2 DEF Refreshed
<1>3. CASE seen # Unread
  <2>1. /\ seen.state \in Arc!TaskState \ {"NONE"}
        /\ seen.submission \in {Submission} \cup {NoSubmission} /\ seen.locked \in BOOLEAN
    BY <1>3 DEF RouterTypeOK, Continuations
  <2>2. seen.state \in TaskStatuses
    BY <2>1 DEF Arc!TaskState, TaskStatuses
  <2>3. Refreshed(h) =
          reconcileTaskFromOnchain(task, seen.state, seen.submission, seen.locked)
    BY <1>3 DEF Refreshed
  <2> DEFINE S == {Submission}
             s == seen.state
             submission == seen.submission
             locked == seen.locked
  <2> HIDE DEF S, s, submission, locked
  <2>4. LET r == reconcileTaskFromOnchain(task, s, submission, locked)
        IN  /\ r \in TaskRecords(S)
            /\ r.history = task.history /\ r.dispute = task.dispute
            /\ r.status = IF s = "ESCROW_FUNDED" THEN "OPEN" ELSE s
    <3>1. /\ task \in TaskRecords(S) /\ s \in TaskStatuses
          /\ submission \in S \cup {NoSubmission} /\ locked \in BOOLEAN
      BY <1>1, <2>1, <2>2 DEF S, s, submission, locked
    <3> QED
      BY <3>1, ReconcileEffect
  <2> QED
    BY <1>3, <2>3, <2>4 DEF seen, S, s, submission, locked
<1> QED
  BY <1>2, <1>3

\* The first call of a request belongs to its kind.
LEMMA FirstCallBelongs ==
  ASSUME NEW op \in ApiRequests, NEW r
  PROVE  FirstCall(op, r) # NoCall => FirstCall(op, r) \in CallsOf[op] \cap ContractCalls
BY DEF ApiRequests, FirstCall, AssignCall, CallsOf, ContractCalls, NoCall

\* A request that resumes runs to its next await, or to its end.
LEMMA ResumeKeeps ==
  ASSUME MarketInv, NEW h \in Handlers, Resume(h)
  PROVE  Kept
<1> DEFINE r == Refreshed(h)
           op == req[h].op
           c == [Idle EXCEPT !.op = op, !.submission = r.submission]
           Runs == {"none", "dispatched", "running", "done", "failed"}
<1>1. h \in Procs /\ h # Engine /\ RouterTypeOK /\ RequestsInv /\ QueueInv
  BY MarketConstants DEF Procs, MarketInv
<1>2. req[h].pc = "refresh" /\ op \in ApiRequests
  BY <1>1 DEF Resume, RequestsInv, Stage
<1>3. /\ r \in TaskRecords({Submission}) /\ r.history = task.history
      /\ r.submission \in {Submission, NoSubmission, LocalSubmission}
  BY <1>1, RefreshedEffect DEF TaskRecords
<1>4. run \in Runs /\ UNCHANGED <<paused, pending>>
  BY <1>1 DEF RouterTypeOK, Resume
<1>5. \/ task' = r /\ Finish(h) /\ UNCHANGED run
      \/ /\ FirstCall(op, r) # NoCall
         /\ task' = Prepared(op, r)
         /\ Continue(h, [c EXCEPT !.pc = "write", !.call = FirstCall(op, r)])
         /\ UNCHANGED run
      \/ /\ op = "advise"
         /\ task' = r
         /\ Continue(h, [c EXCEPT !.pc = "evaluate"])
         /\ UNCHANGED run
      \/ /\ op = "accept"
         /\ task' = Accepted(Picked(r), r.status = "OPEN")
         /\ run' = RunAfter([c EXCEPT !.op = op], task')
         /\ Finish(h)
  BY DEF Resume
<1>6. op # "start" /\ op # "submit"
  BY <1>2 DEF ApiRequests
<1>7. c \in Continuations /\ c.op = op /\ c.call = NoCall /\ c.outcome = "none"
  <2> HIDE DEF r, op
  <2> QED
    BY <1>2, <1>3 DEF Idle, Continuations
<1>8. Idle \in Continuations /\ Stage(h, Idle)
  BY <1>1, FreshStage
<1> HIDE DEF r, op, c
<1>9. CASE task' = r /\ Finish(h) /\ UNCHANGED run
  <2>1. Grows(task', task)
    BY <1>1, <1>3, <1>9, GrowsReflexive DEF RouterTypeOK
  <2> QED
    BY <1>1, <1>2, <1>3, <1>4, <1>8, <1>9, <2>1, MoveKeeps DEF Finish
<1>10. CASE /\ FirstCall(op, r) # NoCall
            /\ task' = Prepared(op, r)
            /\ Continue(h, [c EXCEPT !.pc = "write", !.call = FirstCall(op, r)])
            /\ UNCHANGED run
  <2> DEFINE d == [c EXCEPT !.pc = "write", !.call = FirstCall(op, r)]
  <2>1. FirstCall(op, r) \in CallsOf[op] \cap ContractCalls
    BY <1>2, <1>10, FirstCallBelongs
  <2>2. d \in Continuations /\ d.pc = "write" /\ d.op = op /\ d.call = FirstCall(op, r)
    BY <1>7, <2>1 DEF Continuations
  <2>3. op = "appeal" => FirstCall(op, r) = "appeal_task"
    BY DEF FirstCall
  <2> HIDE DEF d
  <2>4. Stage(h, d)
    BY <1>1, <1>6, <2>1, <2>2, <2>3 DEF Stage
  <2>5. Prepared(op, r) \in {r, Picked(r), AppealOpened(r)}
    BY DEF Prepared
  <2>6. /\ Prepared(op, r) \in TaskRecords({Submission})
        /\ Prepared(op, r).history = r.history
    <3>1. Picked(r) \in TaskRecords({Submission}) /\ Picked(r).history = r.history
      BY <1>3 DEF Picked, Joined, TaskRecords
    <3>2. AppealOpened(r) \in TaskRecords({Submission}) /\ AppealOpened(r).history = r.history
      BY <1>3, ReviewEffect DEF SameStanding
    <3> QED
      BY <1>3, <2>5, <3>1, <3>2
  <2>7. Grows(task', task)
    BY <1>1, <1>3, <1>10, <2>6, GrowsReflexive DEF RouterTypeOK
  <2> QED
    BY <1>1, <1>2, <1>4, <1>10, <2>2, <2>4, <2>6, <2>7, MoveKeeps DEF d
<1>11. CASE /\ op = "advise"
            /\ task' = r
            /\ Continue(h, [c EXCEPT !.pc = "evaluate"])
            /\ UNCHANGED run
  <2> DEFINE d == [c EXCEPT !.pc = "evaluate"]
  <2>1. d \in Continuations /\ d.pc = "evaluate" /\ d.op = "advise" /\ d.call = NoCall
    BY <1>7, <1>11 DEF Continuations
  <2> HIDE DEF d
  <2>2. Stage(h, d)
    BY <1>1, <2>1 DEF Stage
  <2>3. Grows(task', task)
    BY <1>1, <1>3, <1>11, GrowsReflexive DEF RouterTypeOK
  <2> QED
    BY <1>1, <1>2, <1>3, <1>4, <1>11, <2>1, <2>2, <2>3, MoveKeeps DEF d
<1>12. CASE /\ op = "accept"
            /\ task' = Accepted(Picked(r), r.status = "OPEN")
            /\ run' = RunAfter([c EXCEPT !.op = op], task')
            /\ Finish(h)
  <2> DEFINE wasOpen == r.status = "OPEN"
  <2>1. /\ Picked(r) \in TaskRecords({Submission}) /\ Picked(r).history = r.history
    BY <1>3 DEF Picked, Joined, TaskRecords
  <2>2. wasOpen \in BOOLEAN /\ task' = Accepted(Picked(r), wasOpen)
    BY <1>12
  <2>3. task' \in TaskRecords({Submission}) /\ task'.history = r.history
    <3> DEFINE k == Picked(r)
    <3> HIDE DEF k, wasOpen
    <3>1. k \in TaskRecords({Submission}) /\ task' = Accepted(k, wasOpen)
      BY <2>1, <2>2 DEF k
    <3>2. task' \in TaskRecords({Submission}) /\ task'.history = k.history
      BY <2>2, <3>1, AcceptEffect DEF SameStanding
    <3> QED
      BY <2>1, <3>2 DEF k
  <2>4. run' \in Runs
    BY <1>4, <1>12 DEF RunAfter
  <2>5. Grows(task', task)
    BY <1>1, <1>3, <2>3, GrowsReflexive DEF RouterTypeOK
  <2> QED
    BY <1>1, <1>2, <1>4, <1>8, <1>12, <2>3, <2>4, <2>5, MoveKeeps DEF Finish
<1> QED
  BY <1>5, <1>9, <1>10, <1>11, <1>12 DEF r, op, c

\* A request that throws, completes or is evaluated keeps the records, the queue
\* and the receipts.
LEMMA AdvanceKeeps ==
  ASSUME MarketInv, NEW p \in Procs, Throw(p) \/ Complete(p) \/ Evaluate(p)
  PROVE  Kept
<1> DEFINE c == req[p]
           Runs == {"none", "dispatched", "running", "done", "failed"}
<1>1. RouterTypeOK /\ RequestsInv /\ QueueInv /\ c \in Continuations /\ Stage(p, c)
  BY DEF MarketInv, RouterTypeOK, RequestsInv
<1>2. task \in TaskRecords({Submission}) /\ run \in Runs /\ Grows(task, task)
  BY <1>1, GrowsReflexive DEF RouterTypeOK
<1>3. CASE Throw(p)
  <2>1. c.pc # "sent"
    BY <1>3 DEF Throw
  <2> QED
    BY <1>1, <1>2, <1>3, <2>1, FreshStage, MoveKeeps DEF Throw, Finish
<1>4. CASE Complete(p)
  <2>1. /\ c.pc = "mined" /\ UNCHANGED <<paused, pending>>
        /\ c.call \in CallsOf[c.op] \/ (c.op = "submit" /\ c.call = NoCall)
    BY <1>1, <1>4 DEF Complete, Stage
  <2>2. CASE /\ c.call = "appeal_task"
             /\ Continue(p, [c EXCEPT !.pc = "evaluate", !.call = NoCall])
             /\ UNCHANGED <<task, run>>
    <3> DEFINE d == [c EXCEPT !.pc = "evaluate", !.call = NoCall]
    <3>1. c.op = "appeal"
      BY <1>1, <2>1, <2>2, CallOps DEF NoCall
    <3>2. d \in Continuations /\ d.pc = "evaluate" /\ d.op = "appeal" /\ d.call = NoCall
      BY <1>1, <3>1 DEF Continuations
    <3> HIDE DEF d
    <3>3. Stage(p, d)
      BY <1>1, <3>1, <3>2 DEF Stage, EngineOps
    <3> QED
      BY <1>1, <1>2, <2>1, <2>2, <3>2, <3>3, MoveKeeps DEF d
  <2>3. CASE /\ NextCall(c) # NoCall
             /\ Continue(p, [c EXCEPT !.pc = "write", !.call = NextCall(c)])
             /\ UNCHANGED <<task, run>>
    <3> DEFINE next == NextCall(c)
               d == [c EXCEPT !.pc = "write", !.call = next]
    <3>1. c.call = "finalize_review" /\ next \in {"approve_submission", "reject_submission"}
      BY <2>3 DEF NextCall
    <3>2. c.op = "appeal"
      BY <1>1, <2>1, <3>1, CallOps DEF NoCall
    <3>3. c.outcome \in ConsensusOutcomes
      BY <1>1, <3>1, <3>2 DEF Stage, NoCall
    <3>4. next \in ContractCalls /\ next \in CallsOf["appeal"]
      BY <3>1 DEF ContractCalls, CallsOf
    <3> HIDE DEF next
    <3>5. /\ d \in Continuations /\ d.pc = "write" /\ d.op = "appeal" /\ d.call = next
          /\ d.outcome = c.outcome
      BY <1>1, <3>2, <3>4 DEF Continuations
    <3> HIDE DEF d
    <3>6. Stage(p, d)
      BY <1>1, <3>2, <3>3, <3>4, <3>5 DEF Stage, EngineOps
    <3> QED
      BY <1>1, <1>2, <2>1, <2>3, <3>5, <3>6, MoveKeeps DEF d, next
  <2>4. CASE c.call # "appeal_task" /\ Answer(p, c, task)
    <3>1. c.op # "none"
      BY <1>1, <2>1, CallOps
    <3>2. c.op = "appeal" => c.outcome \in ConsensusOutcomes
      BY <1>1, <2>1, <2>4, CallOps DEF Stage
    <3> HIDE DEF c
    <3> QED
      BY <1>1, <1>2, <2>1, <2>4, <3>1, <3>2, AnswerKeeps DEF c
  <2> QED
    BY <1>4, <2>2, <2>3, <2>4 DEF Complete
<1>5. CASE Evaluate(p)
  <2>1. c.pc = "evaluate" /\ c.op \in {"advise", "appeal"} /\ UNCHANGED <<paused, pending>>
    BY <1>1, <1>5 DEF Evaluate, Stage
  <2>2. CASE c.op = "advise" /\ Answer(p, c, task)
    <3> HIDE DEF c
    <3> QED
      BY <1>1, <1>2, <2>1, <2>2, AnswerKeeps DEF c
  <2>3. ASSUME NEW outcome \in ConsensusOutcomes, c.op = "appeal",
               Continue(p, [c EXCEPT !.pc = "write", !.call = "finalize_review",
                                     !.outcome = outcome]),
               UNCHANGED <<task, run>>
        PROVE  Kept
    <3> DEFINE d == [c EXCEPT !.pc = "write", !.call = "finalize_review", !.outcome = outcome]
    <3>1. /\ "finalize_review" \in ContractCalls /\ "finalize_review" \in CallsOf["appeal"]
      BY DEF ContractCalls, CallsOf
    <3>2. /\ d \in Continuations /\ d.pc = "write" /\ d.op = "appeal"
          /\ d.call = "finalize_review" /\ d.outcome = outcome
      BY <1>1, <2>3, <3>1 DEF Continuations
    <3> HIDE DEF d
    <3>3. Stage(p, d)
      BY <1>1, <2>3, <3>1, <3>2 DEF Stage, EngineOps
    <3> QED
      BY <1>1, <1>2, <2>1, <2>3, <3>2, <3>3, MoveKeeps DEF d
  <2> QED
    BY <1>5, <2>2, <2>3 DEF Evaluate
<1> QED
  BY <1>3, <1>4, <1>5

\* The execution engine's reports.
LEMMA EngineKeeps ==
  ASSUME MarketInv, EngineStart \/ EngineSubmit \/ EngineFail
  PROVE  Kept
<1> DEFINE Runs == {"none", "dispatched", "running", "done", "failed"}
<1>1. RouterTypeOK /\ RequestsInv /\ QueueInv /\ Engine \in Procs
  BY DEF MarketInv, Procs
<1>2. task \in TaskRecords({Submission}) /\ run \in Runs /\ Grows(task, task)
  BY <1>1, GrowsReflexive DEF RouterTypeOK
<1>3. ASSUME UNCHANGED <<req, pending, paused>>, task' \in TaskRecords({Submission}),
             Grows(task', task), run' \in Runs
      PROVE  Kept
  BY <1>1, <1>3 DEF Kept, RouterTypeOK, RequestsInv, Stage, QueueInv, Sendable, Owned
<1>4. CASE EngineStart
  <2>1. req[Engine].pc = "idle" /\ UNCHANGED <<task, paused, pending>>
    BY <1>4 DEF EngineStart
  <2>2. CASE run' = "running" /\ UNCHANGED req
    BY <1>2, <1>3, <2>1, <2>2
  <2>3. CASE /\ Continue(Engine, [Idle EXCEPT !.pc = "write", !.op = "start",
                                             !.call = "start_execution"])
             /\ UNCHANGED run
    <3> DEFINE d == [Idle EXCEPT !.pc = "write", !.op = "start", !.call = "start_execution"]
    <3>1. "start_execution" \in ContractCalls /\ "start_execution" \in CallsOf["start"]
      BY DEF ContractCalls, CallsOf
    <3>2. d \in Continuations /\ d.pc = "write" /\ d.op = "start" /\ d.call = "start_execution"
      BY <3>1 DEF Idle, Continuations
    <3> HIDE DEF d
    <3>3. Stage(Engine, d)
      BY <3>1, <3>2 DEF Stage, EngineOps
    <3> QED
      BY <1>1, <1>2, <2>1, <2>3, <3>2, <3>3, MoveKeeps DEF d
  <2> QED
    BY <1>4, <2>2, <2>3 DEF EngineStart
<1>5. CASE EngineSubmit
  <2> DEFINE b == [Idle EXCEPT !.op = "submit"]
             d == IF state[Task] \in {"ASSIGNED", "EXECUTING"}
                  THEN [b EXCEPT !.pc = "write", !.call = "submit_task"]
                  ELSE [b EXCEPT !.pc = "mined"]
  <2>1. /\ req[Engine].pc = "idle" /\ UNCHANGED <<task, paused, run, pending>>
        /\ Continue(Engine, d)
    BY <1>5 DEF EngineSubmit
  <2>2. "submit_task" \in ContractCalls /\ "submit_task" \in CallsOf["submit"]
    BY DEF ContractCalls, CallsOf
  <2>3. /\ d \in Continuations /\ d.op = "submit"
        /\ \/ d.pc = "write" /\ d.call = "submit_task"
           \/ d.pc = "mined" /\ d.call = NoCall
    BY <2>2 DEF Idle, Continuations
  <2> HIDE DEF d
  <2>4. Stage(Engine, d)
    BY <2>2, <2>3 DEF Stage, EngineOps
  <2> QED
    BY <1>1, <1>2, <2>1, <2>3, <2>4, MoveKeeps
<1>6. CASE EngineFail
  <2>1. /\ UNCHANGED <<req, pending, paused>> /\ run' \in Runs
        /\ task' = ExecutionFailed(task)
    BY <1>6 DEF EngineFail
  <2>2. /\ ExecutionFailed(task) \in TaskRecords({Submission})
        /\ ExecutionFailed(task).history = task.history
    <3>1. NoSubmission \in {Submission} \cup {NoSubmission}
      OBVIOUS
    <3> QED
      BY <1>2, <3>1, EngineEffect DEF SameStanding
  <2>3. Grows(task', task)
    BY <1>2, <2>1, <2>2, GrowsReflexive
  <2> QED
    BY <1>3, <2>1, <2>2, <2>3
<1> QED
  BY <1>4, <1>5, <1>6

\* The browser's report of a transaction.
LEMMA SyncKeeps ==
  ASSUME MarketInv, NEW h \in Handlers, NEW funding \in BOOLEAN, NEW assignment \in BOOLEAN,
         syncTaskWithChain(h, funding, assignment)
  PROVE  Kept
<1> DEFINE r == Synced(task, funding, assignment)
           c == [Idle EXCEPT !.op = "auto"]
           Runs == {"none", "dispatched", "running", "done", "failed"}
<1>1. h \in Procs /\ h # Engine /\ RouterTypeOK /\ RequestsInv /\ QueueInv
  BY MarketConstants DEF Procs, MarketInv
<1>2. task \in TaskRecords({Submission}) /\ run \in Runs
  BY <1>1 DEF RouterTypeOK
<1>3. r \in TaskRecords({Submission}) /\ r.history = task.history
  BY <1>2, SyncEffect
<1>4. /\ req[h].pc = "idle" /\ UNCHANGED <<paused, pending>>
      /\ \/ task' = r /\ UNCHANGED <<run, req>>
         \/ /\ task' = Picked(r)
            /\ Continue(h, [c EXCEPT !.pc = "write", !.call = "assign_task"])
            /\ UNCHANGED run
         \/ Answer(h, c, r)
  BY DEF syncTaskWithChain
<1>5. c \in Continuations /\ c.op = "auto"
  BY DEF Idle, Continuations
<1> HIDE DEF r
<1>6. CASE task' = r /\ UNCHANGED <<run, req>>
  <2>1. Grows(task', task)
    BY <1>2, <1>3, <1>6, GrowsReflexive
  <2> QED
    BY <1>1, <1>2, <1>3, <1>4, <1>6, <2>1 DEF Kept, RouterTypeOK, RequestsInv, Stage, QueueInv, Sendable, Owned
<1>7. CASE /\ task' = Picked(r)
           /\ Continue(h, [c EXCEPT !.pc = "write", !.call = "assign_task"])
           /\ UNCHANGED run
  <2> DEFINE d == [c EXCEPT !.pc = "write", !.call = "assign_task"]
  <2>1. "assign_task" \in ContractCalls /\ "assign_task" \in CallsOf["auto"]
    BY DEF ContractCalls, CallsOf
  <2>2. d \in Continuations /\ d.pc = "write" /\ d.op = "auto" /\ d.call = "assign_task"
    BY <2>1 DEF Idle, Continuations
  <2> HIDE DEF d
  <2>3. Stage(h, d)
    BY <1>1, <2>1, <2>2 DEF Stage
  <2>4. Picked(r) \in TaskRecords({Submission}) /\ Picked(r).history = r.history
    BY <1>3 DEF Picked, Joined, TaskRecords
  <2>5. Grows(task', task)
    BY <1>2, <1>3, <1>7, <2>4, GrowsReflexive
  <2> QED
    BY <1>1, <1>2, <1>4, <1>7, <2>2, <2>3, <2>4, <2>5, MoveKeeps DEF d
<1>8. CASE Answer(h, c, r)
  <2> HIDE DEF c
  <2> QED
    BY <1>1, <1>3, <1>4, <1>5, <1>8, AnswerKeeps
<1> QED
  BY <1>4, <1>6, <1>7, <1>8

\* Every step of the market.
LEMMA StepKeeps ==
  ASSUME MarketInv, [Next]_vars
  PROVE  Kept
<1>1. RouterTypeOK /\ RequestsInv /\ QueueInv
  BY DEF MarketInv
<1>2. Grows(task, task)
  BY <1>1, GrowsReflexive DEF RouterTypeOK
<1>3. ASSUME UNCHANGED <<task, run, req, pending>>, paused' \in BOOLEAN
      PROVE  Kept
  BY <1>1, <1>2, <1>3 DEF Kept, RouterTypeOK, RequestsInv, Stage, QueueInv, Sendable, Owned
<1>4. ASSUME NEW p \in Procs, Send(p)
      PROVE  Kept
  BY <1>1, <1>2, <1>4, SendKeeps DEF Kept, RouterTypeOK, Send
<1>5. ASSUME Mine
      PROVE  Kept
  BY <1>1, <1>2, <1>5, MineKeeps DEF Kept, RouterTypeOK, Mine
<1>6. ASSUME NEW p \in Procs, Advance(p)
      PROVE  Kept
  BY <1>4, <1>6, AdvanceKeeps, ResumeKeeps DEF Advance
<1>7. ASSUME NEW h \in Handlers, NEW op \in Requests \cap ApiRequests, Begin(h, op)
      PROVE  Kept
  BY <1>7, BeginKeeps
<1>8. ASSUME NEW h \in Handlers, NEW funding \in BOOLEAN, NEW assignment \in BOOLEAN,
             syncTaskWithChain(h, funding, assignment)
      PROVE  Kept
  BY <1>8, SyncKeeps
<1>9. CASE EngineStart \/ EngineSubmit \/ EngineFail
  BY <1>9, EngineKeeps
<1>10. CASE BrowserWrite
  BY <1>1, <1>3, <1>10 DEF BrowserWrite, RouterTypeOK
<1>11. CASE pauseTask
  BY <1>3, <1>11 DEF pauseTask
<1>12. CASE UNCHANGED vars
  BY <1>1, <1>3, <1>12 DEF vars, RouterTypeOK
<1> QED
  BY <1>5, <1>6, <1>7, <1>8, <1>9, <1>10, <1>11, <1>12 DEF Next

-----------------------------------------------------------------------------
(* The router is a client of the contract: whatever is interleaved, the    *)
(* chain moves by the contract's transactions only, and everything proved  *)
(* about the contract holds under the router.                              *)

\* Every call that the router makes is a transaction of the contract.
LEMMA CallIsTransaction ==
  ASSUME Arc!TypeOK, NEW c \in Continuations, Call(c),
         c.call = "finalize_review" => c.outcome \in ConsensusOutcomes
  PROVE  Arc!Next
<1>1. Server \in {Creator, Server} /\ Task \in {Task} /\ Agent \in {Agent}
      /\ Submission \in {Submission}
  OBVIOUS
<1>2. UNCHANGED registryVars => UNCHANGED Arc!registryVars
  BY DEF registryVars, Arc!registryVars
<1>3. latestSubmissionId[Task] \in Arc!SubmissionIds
  BY DEF Arc!TypeOK
<1>4. Arc!MarketNext
  <2>1. CASE c.call = "assign_task" /\ Arc!assign_task(Server, Task, Agent)
    BY <1>1, <2>1 DEF Arc!MarketNext
  <2>2. CASE c.call = "start_execution" /\ Arc!start_execution(Server, Task, Agent)
    BY <1>1, <2>2 DEF Arc!MarketNext, Arc!StateTransaction
  <2>3. CASE c.call = "submit_task" /\ Arc!submit_task(Server, Task, Agent, Submission)
    BY <1>1, <2>3 DEF Arc!MarketNext
  <2>4. CASE c.call = "approve_submission" /\ Arc!approve_submission(Server, Task, c.submission)
    <3>1. c.submission \in Arc!SubmissionIds
      BY <1>3, <2>4 DEF Arc!approve_submission, Arc!CanDecide
    <3> QED
      BY <1>1, <2>4, <3>1 DEF Arc!MarketNext, Arc!StateTransaction
  <2>5. CASE c.call = "reject_submission" /\ Arc!reject_submission(Server, Task, c.submission)
    <3>1. c.submission \in Arc!SubmissionIds
      BY <1>3, <2>5 DEF Arc!reject_submission, Arc!CanDecide
    <3> QED
      BY <1>1, <2>5, <3>1 DEF Arc!MarketNext, Arc!StateTransaction
  <2>6. CASE /\ c.call = "finalize_review"
             /\ Arc!finalize_review(Server, Task, c.submission, c.outcome)
    <3>1. c.submission \in Arc!SubmissionIds
      BY <1>3, <2>6 DEF Arc!finalize_review, Arc!CanFinalize
    <3>2. c.outcome \in Arc!Outcomes
      BY <2>6 DEF ConsensusOutcomes, Arc!Outcomes
    <3> QED
      BY <1>1, <2>6, <3>1, <3>2 DEF Arc!MarketNext, Arc!StateTransaction
  <2>7. CASE c.call = "dispute_task" /\ Arc!dispute_task(Server, Task)
    BY <1>1, <2>7 DEF Arc!MarketNext, Arc!StateTransaction
  <2>8. CASE c.call = "appeal_task" /\ Arc!appeal_task(Server, Task)
    BY <1>1, <2>8 DEF Arc!MarketNext, Arc!StateTransaction
  <2>9. CASE c.call = "settle_task" /\ Arc!settle_task(Server, Task)
    BY <1>1, <2>9 DEF Arc!MarketNext
  <2>10. CASE c.call = "cancel_task" /\ Arc!cancel_task(Server, Task)
    BY <1>1, <2>10 DEF Arc!MarketNext, Arc!StateTransaction
  <2>11. CASE c.call = "refund_task" /\ Arc!refund_task(Server, Task)
    BY <1>1, <2>11 DEF Arc!MarketNext
  <2> QED
    BY <2>1, <2>2, <2>3, <2>4, <2>5, <2>6, <2>7, <2>8, <2>9, <2>10, <2>11 DEF Call
<1> QED
  BY <1>2, <1>4 DEF Call, Arc!Next

\* The transaction that Mine executes, whoever waits for it, can be executed as
\* the contract has it.
LEMMA MinedTransaction ==
  ASSUME MarketInv, Mine
  PROVE  LET c == Head(pending).tx
         IN  /\ c \in Continuations /\ Sendable(c)
             /\ Call(c) \/ (Reverts(c) /\ UNCHANGED chain)
             /\ UNCHANGED <<task, paused, run>>
<1> DEFINE c == Head(pending).tx
<1>1. /\ Call(c) \/ (Reverts(c) /\ UNCHANGED chain)
      /\ UNCHANGED <<task, paused, run>> /\ pending # <<>>
  BY DEF Mine
<1>2. 1 \in 1 .. Len(pending) /\ Head(pending) = pending[1]
  BY <1>1, OldestPending DEF MarketInv
<1>3. c \in Continuations /\ Sendable(c)
  BY <1>2, QueuedEntry DEF MarketInv, QueueInv
<1> QED
  BY <1>1, <1>3

\* It is the one the request that waits for it has sent.
LEMMA MinedCall ==
  ASSUME MarketInv, Mine, Head(pending).by \in Procs
  PROVE  LET p == Head(pending).by
             c == Head(pending).tx
         IN  /\ c \in Continuations /\ c.call = req[p].call /\ c.op = req[p].op
             /\ c.submission = req[p].submission /\ c.outcome = req[p].outcome
             /\ c.call \in CallsOf[c.op]
             /\ c.call = "finalize_review" => c.outcome \in ConsensusOutcomes
             /\ Stage(p, req[p])
             /\ Call(c) \/ (Reverts(c) /\ UNCHANGED chain)
             /\ UNCHANGED <<task, paused, run>>
<1> DEFINE p == Head(pending).by
           c == Head(pending).tx
<1>1. req[p].pc = "sent" /\ c = [req[p] EXCEPT !.pc = "write"]
  BY MineMoves DEF MarketInv
<1>2. req[p] \in Continuations /\ Stage(p, req[p])
  <2>1. p \in Procs
    OBVIOUS
  <2> HIDE DEF p
  <2> QED
    BY <2>1 DEF MarketInv, RouterTypeOK, RequestsInv
<1>3. /\ c \in Continuations /\ Sendable(c)
      /\ Call(c) \/ (Reverts(c) /\ UNCHANGED chain)
      /\ UNCHANGED <<task, paused, run>>
  BY MinedTransaction
<1> HIDE DEF p, c
<1>4. /\ c.call = req[p].call /\ c.op = req[p].op
      /\ c.submission = req[p].submission /\ c.outcome = req[p].outcome
  BY <1>1, <1>2 DEF Continuations
<1> QED
  BY <1>2, <1>3, <1>4 DEF p, c, Sendable

\* The chain moves when a transaction is mined, by the server's wallet or by
\* the creator's browser; nothing else writes it.
LEMMA ChainStep ==
  ASSUME [Next]_vars
  PROVE  UNCHANGED chain \/ Mine \/ BrowserWrite
<1>1. ASSUME NEW p \in Procs, Advance(p)
      PROVE  UNCHANGED chain
  BY <1>1 DEF Advance, Send, Throw, Complete, Resume, Evaluate
<1>2. ASSUME NEW h \in Handlers, NEW op, Begin(h, op)
      PROVE  UNCHANGED chain
  BY <1>2 DEF Begin
<1>3. ASSUME NEW h \in Handlers, NEW funding, NEW assignment,
             syncTaskWithChain(h, funding, assignment)
      PROVE  UNCHANGED chain
  BY <1>3 DEF syncTaskWithChain
<1>4. EngineStart \/ EngineSubmit \/ EngineFail \/ pauseTask \/ UNCHANGED vars
        => UNCHANGED chain
  BY DEF EngineStart, EngineSubmit, EngineFail, pauseTask, vars
<1> QED
  BY <1>1, <1>2, <1>3, <1>4 DEF Next

\* Each step of the market is a step of the contract, or leaves it alone.
LEMMA ContractStep ==
  ASSUME MarketInv, [Next]_vars
  PROVE  [Arc!Next]_(Arc!vars)
<1>1. UNCHANGED chain => UNCHANGED Arc!vars
  BY DEF chain, registryVars, arcVars, Arc!vars, Arc!registryVars, Arc!marketVars,
         Arc!terms, Arc!work, Arc!money
<1>2. CASE Mine
  BY <1>1, <1>2, MinedTransaction, CallIsTransaction DEF MarketInv, Sendable
<1>3. CASE BrowserWrite
  <2>1. Arc!MarketNext
    <3>1. Creator \in {Creator, Server} /\ Task \in {Task} /\ Agent \in {Agent}
          /\ Reward \in {Reward}
      OBVIOUS
    <3>2. \/ Arc!create_task(Creator, Task, Reward)
          \/ Arc!fund_task(Creator, Task)
          \/ Arc!assign_task(Creator, Task, Agent)
      BY <1>3 DEF BrowserWrite
    <3> QED
      BY <3>1, <3>2 DEF Arc!MarketNext
  <2> QED
    BY <1>3, <2>1 DEF BrowserWrite, registryVars, Arc!registryVars, Arc!Next
<1> QED
  BY <1>1, <1>2, <1>3, ChainStep

\* Both initial states are states the contract can be in: a draft the chain
\* knows nothing of, and a funded task whose result is anchored.
LEMMA InitiallyMarket == Init => MarketInv
<1> SUFFICES ASSUME Init PROVE MarketInv
  OBVIOUS
<1>1. task \in TaskRecords({Submission})
  <2>1. /\ "CREATED" \in TaskStatuses /\ "SUBMITTED" \in TaskStatuses
        /\ "not_started" \in ResultStatuses /\ "submitted" \in ResultStatuses
        /\ "reward_funded" \in SettlementStates
    BY DEF TaskStatuses, ResultStatuses, SettlementStates
  <2>2. NoReceipts \in [Receipts -> 0 .. Several]
    BY DEF NoReceipts, Several
  <2>3. buildTaskDetail \in TaskRecords({Submission})
    BY <2>1, <2>2 DEF buildTaskDetail, TaskRecords
  <2>4. [buildTaskDetail EXCEPT !.status = "SUBMITTED", !.resultStatus = "submitted",
           !.submission = Submission, !.funded = TRUE, !.participants = 1]
          \in TaskRecords({Submission})
    <3> DEFINE b == buildTaskDetail
    <3> HIDE DEF b
    <3>1. b \in TaskRecords({Submission})
      BY <2>3 DEF b
    <3>2. [b EXCEPT !.status = "SUBMITTED", !.resultStatus = "submitted",
             !.submission = Submission, !.funded = TRUE, !.participants = 1]
            \in TaskRecords({Submission})
      BY <2>1, <3>1 DEF TaskRecords
    <3> QED
      BY <3>2 DEF b
  <2> QED
    BY <2>3, <2>4 DEF Init
<1>2. RouterTypeOK
  <2>1. pending \in Seq(Entries) /\ Len(pending) = 0
    BY EmptySeq DEF Init
  <2>2. req \in [Procs -> Continuations]
    BY FreshStage DEF Init
  <2>3. Len(pending) <= MaxPending
    BY <2>1, MarketConstants
  <2>4. run \in {"none", "dispatched", "running", "done", "failed"} /\ paused \in BOOLEAN
    BY DEF Init
  <2> QED
    BY <1>1, <2>1, <2>2, <2>3, <2>4 DEF RouterTypeOK
<1>3. RequestsInv
  BY FreshStage DEF Init, RequestsInv
<1>4. QueueInv
  <2>1. Len(pending) = 0
    BY EmptySeq DEF Init
  <2> QED
    BY <2>1 DEF QueueInv
<1>5. Arc!TypeOK
  <2>1. Reward \in Nat
    BY MarketConstants
  <2> QED
    BY <2>1 DEF Init, On, Arc!TypeOK, Arc!TaskState, Arc!SubmissionIds
<1>6. Arc!EscrowInv
  <2>1. Reward \in Nat /\ Reward > 0 /\ NoAccount # Creator /\ NoAccount # Server
        /\ NoAgent # Agent /\ NoSubmission # Submission
    BY MarketConstants
  <2>2. CASE Submitted
    <3>1. /\ creator[Task] = Creator /\ rewardAmount[Task] = Reward
          /\ state[Task] = "SUBMITTED" /\ assignedAgentId[Task] = Agent
          /\ latestSubmissionId[Task] = Submission
          /\ escrowLocked[Task] = Reward /\ deposited[Task] = Reward
          /\ toAgent[Task] = 0 /\ toTreasury[Task] = 0 /\ toCreator[Task] = 0
          /\ payee[Task] = NoAccount /\ agentOwner[Agent] = Server
      BY <2>2 DEF Init, On
    <3> QED
      BY <2>1, <3>1 DEF Arc!EscrowInv, Arc!TaskEscrowInv
  <2>3. CASE ~Submitted
    <3>1. /\ creator[Task] = NoAccount /\ rewardAmount[Task] = 0
          /\ state[Task] = "NONE" /\ assignedAgentId[Task] = NoAgent
          /\ latestSubmissionId[Task] = NoSubmission
          /\ escrowLocked[Task] = 0 /\ deposited[Task] = 0
          /\ toAgent[Task] = 0 /\ toTreasury[Task] = 0 /\ toCreator[Task] = 0
          /\ payee[Task] = NoAccount
      BY <2>3 DEF Init, On
    <3> QED
      BY <2>1, <3>1 DEF Arc!EscrowInv, Arc!TaskEscrowInv
  <2> QED
    BY <2>2, <2>3
<1> QED
  BY <1>2, <1>3, <1>4, <1>5, <1>6 DEF MarketInv

\* A step of the market keeps the invariant, whatever is pending.
LEMMA MarketStep ==
  ASSUME MarketInv, [Next]_vars
  PROVE  MarketInv' /\ (Owned => Owned')
<1>1. RouterTypeOK' /\ RequestsInv' /\ QueueInv' /\ (Owned => Owned')
  BY StepKeeps DEF Kept
<1>2. Arc!TypeOK' /\ Arc!EscrowInv'
  BY ContractStep, ContractKeeps DEF MarketInv
<1> QED
  BY <1>1, <1>2 DEF MarketInv

\* For any number of concurrent handlers the router's variables keep their
\* types, every queued transaction belongs to a request that waits for it, and
\* the contract keeps its escrow invariant.
THEOREM MarketInvariant == Spec => [](MarketInv /\ Owned)
<1>1. Init => MarketInv /\ Owned
  <2>1. Init => Len(pending) = 0
    BY EmptySeq DEF Init
  <2> QED
    BY <2>1, InitiallyMarket DEF Owned
<1>2. MarketInv /\ Owned /\ [Next]_vars => MarketInv' /\ Owned'
  BY MarketStep
<1> QED
  BY <1>1, <1>2, PTL DEF Spec

\* Every variable has its type.
COROLLARY TypesHold == Spec => []TypeOK
<1>1. ASSUME MarketInv, Owned
      PROVE  pending \in Seq([by : Procs, tx : Continuations])
  <2>1. pending \in Seq(Entries)
    BY <1>1 DEF MarketInv, RouterTypeOK
  <2>2. ASSUME NEW i \in 1 .. Len(pending)
        PROVE  pending[i] \in [by : Procs, tx : Continuations]
    <3>1. pending[i] \in Entries
      BY <2>1, ElementOfSeq
    <3> QED
      BY <1>1, <3>1 DEF Owned, Entries
  <2> QED
    BY <2>1, <2>2, SequenceOver
<1>2. MarketInv /\ Owned => TypeOK
  BY <1>1 DEF MarketInv, RouterTypeOK, TypeOK
<1> QED
  BY <1>2, MarketInvariant, PTL

\* Seen from the chain, the router with its concurrent handlers is nothing but
\* a sender of the contract's transactions.
THEOREM RouterUsesTheContract == Spec => [][Arc!Next]_(Arc!vars)
<1>1. MarketInv /\ [Next]_vars => [Arc!Next]_(Arc!vars)
  BY ContractStep
<1> QED
  BY <1>1, MarketInvariant, PTL DEF Spec

\* The contract's promises to the creator hold under the router: every unit is
\* accounted for, and no interleaving of handlers pays a task's reward twice.
COROLLARY ContractStaysSafe == Spec => [](Arc!Conservation /\ Arc!PaidOrRefunded)
<1>1. MarketInv => Arc!Conservation /\ Arc!PaidOrRefunded
  BY DEF MarketInv, Arc!EscrowInv, Arc!TaskEscrowInv, Arc!Conservation, Arc!PaidOrRefunded
<1> QED
  BY <1>1, MarketInvariant, PTL

-----------------------------------------------------------------------------
(* Money that left the escrow is recorded. *)

\* Between the block that moved the money and the answer of its request, the
\* request itself stands for the receipt it will append.
Moving(call) == \E p \in Procs : req[p].pc = "mined" /\ req[p].call = call

MoneyInv ==
  /\ toAgent[Task] > 0 => PaidIn(task) > 0 \/ Moving("settle_task")
  /\ toCreator[Task] > 0 => RefundedIn(task) > 0 \/ Moving("refund_task")

\* Sums of receipts do not shrink.
LEMMA ReceiptsGrow ==
  ASSUME RouterTypeOK, Kept
  PROVE  /\ PaidIn(task') >= PaidIn(task) /\ RefundedIn(task') >= RefundedIn(task)
         /\ PaidIn(task) \in Nat /\ RefundedIn(task) \in Nat
         /\ PaidIn(task') \in Nat /\ RefundedIn(task') \in Nat
<1>1. /\ task.history \in [Receipts -> 0 .. Several]
      /\ task'.history \in [Receipts -> 0 .. Several]
      /\ \A kind \in Receipts : task'.history[kind] >= task.history[kind]
  BY DEF RouterTypeOK, Kept, TaskRecords, Grows
<1>2. /\ "paid" \in Receipts /\ "refunded" \in Receipts
      /\ "admin_paid" \in Receipts /\ "admin_refunded" \in Receipts
  BY DEF Receipts
<1>3. \A kind \in Receipts : task.history[kind] \in Nat /\ task'.history[kind] \in Nat
  BY <1>1 DEF Several
<1> QED
  BY <1>1, <1>2, <1>3 DEF PaidIn, RefundedIn

\* The answer of a request whose transaction was mined is all that ends it, and
\* a settlement or a refund that was mined is recorded by it.
LEMMA MinedIsAnswered ==
  ASSUME MarketInv, [Next]_vars, NEW p \in Procs, req[p].pc = "mined",
         req[p].call \in {"settle_task", "refund_task"}
  PROVE  \/ req'[p] = req[p]
         \/ /\ req[p].call = "settle_task" => PaidIn(task') > 0
            /\ req[p].call = "refund_task" => RefundedIn(task') > 0
<1> DEFINE c == req[p]
<1>1. /\ RouterTypeOK /\ RequestsInv /\ QueueInv
      /\ req \in [Procs -> Continuations] /\ c \in Continuations /\ Stage(p, c)
      /\ c.call \in CallsOf[c.op]
  <2>1. RouterTypeOK /\ RequestsInv /\ QueueInv
    BY DEF MarketInv
  <2>2. c \in Continuations /\ Stage(p, c)
    BY <2>1 DEF RouterTypeOK, RequestsInv
  <2> QED
    BY <2>1, <2>2 DEF RouterTypeOK, Stage, NoCall
<1>2. ASSUME NEW q \in Procs, NEW d, req' = [req EXCEPT ![q] = d], q # p
      PROVE  req'[p] = req[p]
  BY <1>1, <1>2
<1>3. ASSUME Complete(p)
      PROVE  /\ c.call = "settle_task" => PaidIn(task') > 0
             /\ c.call = "refund_task" => RefundedIn(task') > 0
  <2>1. Answer(p, c, task) /\ UNCHANGED <<paused, pending>>
    BY <1>3 DEF Complete, NextCall
  <2>2. /\ c.call = "settle_task" => c.op \in {"settle", "resolve_paid"}
        /\ c.call = "refund_task" => c.op \in {"refund", "resolve_refund"}
    BY <1>1, CallOps
  <2>3. c.op # "none" /\ c.op # "appeal"
    BY <2>2
  <2>4. task \in TaskRecords({Submission}) /\ c.pc # "sent"
    BY <1>1 DEF RouterTypeOK
  <2> HIDE DEF c
  <2>5. /\ c.op \in {"settle", "resolve_paid"} => PaidIn(task') > 0
        /\ c.op \in {"refund", "resolve_refund"} => RefundedIn(task') > 0
    BY <1>1, <2>1, <2>3, <2>4, AnswerKeeps DEF c
  <2> QED
    BY <2>2, <2>5
<1>4. ASSUME NEW q \in Procs, Advance(q)
      PROVE  req'[p] = req[p] \/ Complete(p)
  <2>1. CASE q = p
    BY <1>4, <2>1 DEF Advance, Send, Throw, Resume, Evaluate
  <2>2. CASE q # p
    BY <1>2, <1>4, <2>2 DEF Advance, Send, Throw, Complete, Resume, Evaluate, Answer,
       Finish, Continue
  <2> QED
    BY <2>1, <2>2
<1>5. ASSUME Mine
      PROVE  req'[p] = req[p]
  <2> DEFINE q == Head(pending).by
  <2>1. \/ req' = req
        \/ /\ q \in Procs /\ req[q].pc = "sent"
           /\ req' = [req EXCEPT ![q] = [req[q] EXCEPT !.pc = "mined"]]
    BY <1>1, <1>5, MineMoves
  <2> HIDE DEF q
  <2> QED
    BY <1>2, <2>1
<1>6. ASSUME NEW h \in Handlers, NEW op, Begin(h, op)
      PROVE  req'[p] = req[p]
  BY <1>2, <1>6 DEF Begin, Continue, Procs
<1>7. ASSUME NEW h \in Handlers, NEW funding, NEW assignment,
             syncTaskWithChain(h, funding, assignment)
      PROVE  req'[p] = req[p]
  BY <1>2, <1>7 DEF syncTaskWithChain, Answer, Finish, Continue, Procs
<1>8. ASSUME EngineStart \/ EngineSubmit
      PROVE  req'[p] = req[p]
  BY <1>2, <1>8 DEF EngineStart, EngineSubmit, Continue, Procs
<1>9. EngineFail \/ BrowserWrite \/ pauseTask \/ UNCHANGED vars => req' = req
  BY DEF EngineFail, BrowserWrite, pauseTask, vars
<1> QED
  BY <1>3, <1>4, <1>5, <1>6, <1>7, <1>8, <1>9 DEF Next

\* Only the settlement pays the agent, only the refund pays the creator.
LEMMA MoneyMovesByCall ==
  ASSUME MarketInv, [Next]_vars
  PROVE  /\ toAgent'[Task] # toAgent[Task] =>
              Mine /\ Head(pending).tx.call = "settle_task" /\ Call(Head(pending).tx)
         /\ toCreator'[Task] # toCreator[Task] =>
              Mine /\ Head(pending).tx.call = "refund_task" /\ Call(Head(pending).tx)
<1>1. UNCHANGED chain => UNCHANGED <<toAgent, toCreator>>
  BY DEF chain, arcVars
<1>2. BrowserWrite => UNCHANGED <<toAgent, toCreator>>
  BY DEF BrowserWrite, Arc!create_task, Arc!fund_task, Arc!assign_task, Arc!money
<1>3. ASSUME NEW c, Call(c)
      PROVE  /\ toAgent' # toAgent => c.call = "settle_task"
             /\ toCreator' # toCreator => c.call = "refund_task"
  BY <1>3 DEF Call, Arc!assign_task, Arc!start_execution, Arc!submit_task,
     Arc!approve_submission, Arc!reject_submission, Arc!finalize_review, Arc!dispute_task,
     Arc!appeal_task, Arc!settle_task, Arc!cancel_task, Arc!refund_task, Arc!money
<1>4. CASE Mine
  BY <1>1, <1>3, <1>4, MinedTransaction
<1> QED
  BY <1>1, <1>2, <1>4, ChainStep

\* Money that left the escrow through the router is in the receipt history
\* once the request that moved it has been answered, for any number of
\* concurrent handlers and whatever else happens to the task meanwhile.
THEOREM MoneyRecorded == Spec => []MoneyIsRecorded
<1>1. Init => MoneyInv
  BY DEF Init, On, MoneyInv
<1>2. MarketInv /\ Owned /\ MoneyInv /\ [Next]_vars => MoneyInv'
  <2> SUFFICES ASSUME MarketInv, Owned, MoneyInv, [Next]_vars PROVE MoneyInv'
    OBVIOUS
  <2>1. /\ PaidIn(task') >= PaidIn(task) /\ RefundedIn(task') >= RefundedIn(task)
        /\ PaidIn(task) \in Nat /\ RefundedIn(task) \in Nat
        /\ PaidIn(task') \in Nat /\ RefundedIn(task') \in Nat
    BY StepKeeps, ReceiptsGrow DEF MarketInv
  <2>2. PaidIn(task) > 0 => PaidIn(task') > 0
    BY <2>1
  <2>3. RefundedIn(task) > 0 => RefundedIn(task') > 0
    BY <2>1
  <2>4. Moving("settle_task") => Moving("settle_task")' \/ PaidIn(task') > 0
    <3> SUFFICES ASSUME NEW p \in Procs, req[p].pc = "mined", req[p].call = "settle_task"
                 PROVE  Moving("settle_task")' \/ PaidIn(task') > 0
      BY DEF Moving
    <3>1. req'[p] = req[p] \/ PaidIn(task') > 0
      BY MinedIsAnswered
    <3> QED
      BY <3>1 DEF Moving
  <2>5. Moving("refund_task") => Moving("refund_task")' \/ RefundedIn(task') > 0
    <3> SUFFICES ASSUME NEW p \in Procs, req[p].pc = "mined", req[p].call = "refund_task"
                 PROVE  Moving("refund_task")' \/ RefundedIn(task') > 0
      BY DEF Moving
    <3>1. req'[p] = req[p] \/ RefundedIn(task') > 0
      BY MinedIsAnswered
    <3> QED
      BY <3>1 DEF Moving
  <2>6. ASSUME Mine
        PROVE  \E p \in Procs :
                 req'[p].pc = "mined" /\ req'[p].call = Head(pending).tx.call
    <3> DEFINE p == Head(pending).by
               c == [req[p] EXCEPT !.pc = "mined"]
    <3>1. p \in Procs
      BY <2>6, OldestPending DEF Mine, MarketInv, Owned
    <3>2. /\ c \in Continuations /\ req' = [req EXCEPT ![p] = c]
          /\ req \in [Procs -> Continuations]
      BY <2>6, <3>1, MineMoves DEF MarketInv, RouterTypeOK
    <3>3. Head(pending).tx.call = req[p].call
      BY <2>6, <3>1, MinedCall
    <3>4. req'[p].pc = "mined" /\ req'[p].call = req[p].call
      <4>1. c.pc = "mined" /\ c.call = req[p].call
        BY <3>2 DEF Continuations
      <4> HIDE DEF p, c
      <4> QED
        BY <3>1, <3>2, <4>1
    <3> QED
      BY <3>1, <3>3, <3>4
  <2>7. toAgent'[Task] > 0 => PaidIn(task') > 0 \/ Moving("settle_task")'
    <3>1. CASE toAgent'[Task] = toAgent[Task]
      BY <2>2, <2>4, <3>1 DEF MoneyInv
    <3>2. CASE toAgent'[Task] # toAgent[Task]
      <4>1. Mine /\ Head(pending).tx.call = "settle_task"
        BY <3>2, MoneyMovesByCall
      <4> QED
        BY <2>6, <4>1 DEF Moving
    <3> QED
      BY <3>1, <3>2
  <2>8. toCreator'[Task] > 0 => RefundedIn(task') > 0 \/ Moving("refund_task")'
    <3>1. CASE toCreator'[Task] = toCreator[Task]
      BY <2>3, <2>5, <3>1 DEF MoneyInv
    <3>2. CASE toCreator'[Task] # toCreator[Task]
      <4>1. Mine /\ Head(pending).tx.call = "refund_task"
        BY <3>2, MoneyMovesByCall
      <4> QED
        BY <2>6, <4>1 DEF Moving
    <3> QED
      BY <3>1, <3>2
  <2> QED
    BY <2>7, <2>8 DEF MoneyInv
<1>3. MoneyInv => MoneyIsRecorded
  BY DEF MoneyInv, MoneyIsRecorded, Moving, Quiet, PaidReceipts, RefundReceipts, PaidIn, RefundedIn
<1> QED
  BY <1>1, <1>2, <1>3, MarketInvariant, PTL DEF Spec

-----------------------------------------------------------------------------
(* One request at a time, next to the execution engine and the browser.    *)

\* The contract's state of the task, and the submission anchored there.
Onchain == state[Task]
Anchored == latestSubmissionId[Task]

\* No handler has submitted anything yet: the browser, the engine and the
\* assignment move the chain here, and nothing else does.
Underway == {"NONE", "CREATED", "OPEN", "ASSIGNED", "EXECUTING"}
Working == {"CREATED", "OPEN", "ASSIGNED", "EXECUTING", "SUBMITTED"}
Reviewed == {"APPROVED", "REJECTED", "DISPUTED", "APPEALED", "UNRESOLVED"}
Unreviewed ==
  {"CREATED", "ESCROW_FUNDED", "OPEN", "ASSIGNED", "EXECUTING", "SUBMITTED", "UNDER_REVIEW",
   "CANCELLED"}

\* What the contract's state says about the submission and the money, when only
\* this router and the creator's browser call it.
ChainInv ==
  /\ operator = Server
  /\ creator[Task] = NoAccount => Onchain = "NONE"
  /\ Onchain \notin {"ESCROW_FUNDED", "UNDER_REVIEW"}
  /\ Onchain \in {"SUBMITTED", "SETTLED"} \cup Reviewed => Anchored = Submission
  /\ Onchain \in Underway \cup {"CANCELLED"} => Anchored = NoSubmission
  /\ Onchain \in {"OPEN", "ASSIGNED", "EXECUTING", "SUBMITTED"} \cup Reviewed =>
       escrowLocked[Task] > 0
  /\ Onchain = "SETTLED" /\ Fee < 10000 => toAgent[Task] > 0
  /\ Onchain = "REFUNDED" => toCreator[Task] > 0

\* A fee below 100% leaves the agent something, however small the reward.
LEMMA FeeLeavesPayout ==
  ASSUME NEW amount \in Nat, amount > 0, Fee < 10000
  PROVE  Arc!PlatformFee(amount) \in Nat /\ amount - Arc!PlatformFee(amount) > 0
<1>1. Fee \in Nat
  BY MarketConstants
<1>2. amount * Fee \in Nat /\ amount * Fee < amount * 10000
  BY <1>1
<1>3. \A n \in Nat, m \in Nat : n < m * 10000 => n \div 10000 \in Nat /\ n \div 10000 < m
  OBVIOUS
<1>4. Arc!PlatformFee(amount) \in Nat /\ Arc!PlatformFee(amount) < amount
  BY <1>2, <1>3 DEF Arc!PlatformFee
<1> QED
  BY <1>4

\* From where to where each call moves the task, and what it leaves alone.
LEMMA CallEffect ==
  ASSUME Arc!TypeOK, NEW c, Call(c)
  PROVE  /\ UNCHANGED <<operator, creator>>
         /\ c.call = "assign_task" => Onchain = "OPEN" /\ Onchain' = "ASSIGNED"
         /\ c.call = "start_execution" => Onchain = "ASSIGNED" /\ Onchain' = "EXECUTING"
         /\ c.call = "submit_task" =>
              /\ Onchain \in {"ASSIGNED", "EXECUTING"} /\ Onchain' = "SUBMITTED"
              /\ Anchored' = Submission
         /\ c.call = "approve_submission" => Onchain' = "APPROVED" /\ Anchored = c.submission
         /\ c.call = "reject_submission" => Onchain' = "REJECTED" /\ Anchored = c.submission
         /\ c.call = "finalize_review" /\ c.outcome \in ConsensusOutcomes =>
              Onchain' = Verdict[c.outcome] /\ Anchored = c.submission
         /\ c.call = "dispute_task" =>
              /\ Onchain \in {"SUBMITTED", "UNDER_REVIEW", "APPROVED", "REJECTED"}
              /\ Onchain' = "DISPUTED"
         /\ c.call = "appeal_task" =>
              Onchain \in {"DISPUTED", "REJECTED"} /\ Onchain' = "APPEALED"
         /\ c.call = "cancel_task" =>
              Onchain \in {"CREATED", "OPEN", "ASSIGNED"} /\ Onchain' = "CANCELLED"
         /\ c.call = "settle_task" =>
              /\ Onchain = "APPROVED" /\ Onchain' = "SETTLED"
              /\ Fee < 10000 => toAgent'[Task] > 0
         /\ c.call = "refund_task" =>
              /\ Onchain \in {"CANCELLED", "REJECTED", "UNRESOLVED", "DISPUTED", "APPEALED"}
              /\ Onchain' = "REFUNDED" /\ toCreator'[Task] > 0
         /\ c.call # "submit_task" => Anchored' = Anchored
         /\ c.call \notin {"settle_task", "refund_task"} =>
              UNCHANGED <<escrowLocked, toAgent, toCreator>>
<1> USE DEF Onchain, Anchored
<1>1. state \in [{Task} -> Arc!TaskState] /\ state[Task] = Onchain
  BY DEF Arc!TypeOK
<1>2. ASSUME NEW s, Arc!SetState(Task, s)
      PROVE  Onchain' = s
  BY <1>1, <1>2 DEF Arc!SetState
<1>3. CASE c.call = "assign_task" /\ Arc!assign_task(Server, Task, Agent)
  BY <1>2, <1>3 DEF Arc!assign_task, Arc!CanAssign, Arc!money, Arc!terms
<1>4. CASE c.call = "start_execution" /\ Arc!start_execution(Server, Task, Agent)
  BY <1>2, <1>4 DEF Arc!start_execution, Arc!CanStart, Arc!money, Arc!terms, Arc!work
<1>5. CASE c.call = "submit_task" /\ Arc!submit_task(Server, Task, Agent, Submission)
  <2>1. Anchored' = Submission
    BY <1>5 DEF Arc!submit_task, Arc!TypeOK
  <2> QED
    BY <1>2, <1>5, <2>1 DEF Arc!submit_task, Arc!CanSubmit, Arc!money, Arc!terms
<1>6. CASE c.call = "approve_submission" /\ Arc!approve_submission(Server, Task, c.submission)
  BY <1>2, <1>6 DEF Arc!approve_submission, Arc!CanDecide, Arc!money, Arc!terms, Arc!work
<1>7. CASE c.call = "reject_submission" /\ Arc!reject_submission(Server, Task, c.submission)
  BY <1>2, <1>7 DEF Arc!reject_submission, Arc!CanDecide, Arc!money, Arc!terms, Arc!work
<1>8. CASE /\ c.call = "finalize_review"
           /\ Arc!finalize_review(Server, Task, c.submission, c.outcome)
  <2>1. Onchain' = Verdict[c.outcome]
    BY <1>2, <1>8 DEF Arc!finalize_review, Arc!ReviewState, Verdict
  <2> QED
    BY <1>8, <2>1 DEF Arc!finalize_review, Arc!CanFinalize, Arc!money, Arc!terms, Arc!work
<1>9. CASE c.call = "dispute_task" /\ Arc!dispute_task(Server, Task)
  BY <1>2, <1>9 DEF Arc!dispute_task, Arc!CanDispute, Arc!money, Arc!terms, Arc!work
<1>10. CASE c.call = "appeal_task" /\ Arc!appeal_task(Server, Task)
  BY <1>2, <1>10 DEF Arc!appeal_task, Arc!CanAppeal, Arc!money, Arc!terms, Arc!work
<1>11. CASE c.call = "settle_task" /\ Arc!settle_task(Server, Task)
  <2>1. escrowLocked[Task] \in Nat /\ escrowLocked[Task] > 0 /\ toAgent[Task] \in Nat
    BY <1>11 DEF Arc!TypeOK, Arc!settle_task, Arc!CanSettle
  <2>2. toAgent'[Task] =
          toAgent[Task] + (escrowLocked[Task] - Arc!PlatformFee(escrowLocked[Task]))
    BY <1>11 DEF Arc!TypeOK, Arc!settle_task
  <2>3. Fee < 10000 => toAgent'[Task] > 0
    BY <2>1, <2>2, FeeLeavesPayout
  <2> QED
    BY <1>2, <1>11, <2>3 DEF Arc!settle_task, Arc!CanSettle, Arc!work, Arc!terms
<1>12. CASE c.call = "cancel_task" /\ Arc!cancel_task(Server, Task)
  BY <1>2, <1>12 DEF Arc!cancel_task, Arc!CanCancel, Arc!money, Arc!terms, Arc!work
<1>13. CASE c.call = "refund_task" /\ Arc!refund_task(Server, Task)
  <2>1. escrowLocked[Task] \in Nat /\ escrowLocked[Task] > 0 /\ toCreator[Task] \in Nat
    BY <1>13 DEF Arc!TypeOK, Arc!refund_task, Arc!CanRefund
  <2>2. toCreator'[Task] = toCreator[Task] + escrowLocked[Task]
    BY <1>13 DEF Arc!TypeOK, Arc!refund_task
  <2>3. toCreator'[Task] > 0
    BY <2>1, <2>2
  <2> QED
    BY <1>2, <1>13, <2>3 DEF Arc!refund_task, Arc!CanRefund, Arc!work,
       Arc!RefundableStates, Arc!terms
<1> QED
  BY <1>3, <1>4, <1>5, <1>6, <1>7, <1>8, <1>9, <1>10, <1>11, <1>12, <1>13 DEF Call

\* The browser's transactions lead from a task that does not exist to an
\* assigned one.
LEMMA BrowserEffect ==
  ASSUME MarketInv, ChainInv, BrowserWrite
  PROVE  /\ UNCHANGED <<operator, latestSubmissionId, toAgent, toCreator,
                        task, paused, run, req, pending>>
         /\ creator'[Task] # NoAccount
         /\ \/ Onchain = "NONE" /\ Onchain' = "CREATED"
            \/ Onchain = "CREATED" /\ Onchain' = "OPEN"
            \/ Onchain = "OPEN" /\ Onchain' = "ASSIGNED" /\ UNCHANGED escrowLocked
<1> USE DEF Onchain
<1>1. /\ state \in [{Task} -> Arc!TaskState]
      /\ creator \in [{Task} -> {Creator, Server} \cup {NoAccount}]
      /\ NoAccount \notin {Creator, Server}
  BY MarketConstants DEF MarketInv, Arc!TypeOK
<1>2. ASSUME NEW s, Arc!SetState(Task, s)
      PROVE  Onchain' = s
  BY <1>1, <1>2 DEF Arc!SetState
<1>3. UNCHANGED <<task, paused, run, req, pending>>
  BY DEF BrowserWrite
<1>4. CASE Arc!create_task(Creator, Task, Reward)
  <2>1. Onchain = "NONE" /\ Onchain' = "CREATED"
    BY <1>2, <1>4 DEF Arc!create_task, ChainInv
  <2>2. creator'[Task] = Creator
    BY <1>1, <1>4 DEF Arc!create_task
  <2> QED
    BY <1>1, <1>3, <1>4, <2>1, <2>2 DEF Arc!create_task, Arc!work, Arc!money
<1>5. CASE Arc!fund_task(Creator, Task)
  BY <1>1, <1>2, <1>3, <1>5 DEF Arc!fund_task, Arc!onlyCreator, Arc!work, Arc!terms
<1>6. CASE Arc!assign_task(Creator, Task, Agent)
  <2>1. Onchain = "OPEN" /\ Onchain' = "ASSIGNED"
    BY <1>2, <1>6 DEF Arc!assign_task, Arc!CanAssign
  <2>2. creator[Task] # NoAccount
    BY <2>1 DEF ChainInv
  <2> QED
    BY <1>3, <1>6, <2>1, <2>2 DEF Arc!assign_task, Arc!terms, Arc!money
<1> QED
  BY <1>4, <1>5, <1>6 DEF BrowserWrite

\* A call keeps ChainInv if a verdict finds a submitted result and a consensus
\* outcome finds an appeal.
LEMMA CallKeepsChain ==
  ASSUME MarketInv, ChainInv, NEW c \in Continuations, Call(c), c.call # NoCall,
         c.call \in {"approve_submission", "reject_submission"} => Onchain = "SUBMITTED",
         c.call = "finalize_review" => Onchain = "APPEALED" /\ c.outcome \in ConsensusOutcomes
  PROVE  ChainInv'
<1>1. Arc!TypeOK
  BY DEF MarketInv
<1>2. Onchain \in Arc!TaskState /\ Anchored \in {Submission, NoSubmission}
  BY <1>1 DEF Arc!TypeOK, Onchain, Anchored, Arc!SubmissionIds
<1>3. c.call \in ContractCalls
  BY DEF Continuations
<1>4. UNCHANGED <<operator, creator>> /\ (creator'[Task] = NoAccount => Onchain = "NONE")
  BY <1>1, CallEffect DEF ChainInv
<1>5. CASE c.call \in {"assign_task", "start_execution", "dispute_task", "appeal_task",
                       "cancel_task"}
  BY <1>1, <1>4, <1>5, CallEffect
     DEF ChainInv, Underway, Reviewed
<1>6. CASE c.call = "submit_task"
  BY <1>1, <1>4, <1>6, CallEffect DEF ChainInv, Underway, Reviewed
<1>7. CASE c.call \in {"approve_submission", "reject_submission"}
  BY <1>1, <1>4, <1>7, CallEffect DEF ChainInv, Underway, Reviewed
<1>8. CASE c.call = "finalize_review"
  <2>1. Verdict[c.outcome] \in {"APPROVED", "REJECTED", "DISPUTED", "UNRESOLVED"}
    BY <1>8 DEF Verdict, ConsensusOutcomes
  <2> QED
    BY <1>1, <1>4, <1>8, <2>1, CallEffect DEF ChainInv, Underway, Reviewed
<1>9. CASE c.call \in {"settle_task", "refund_task"}
  BY <1>1, <1>4, <1>9, CallEffect DEF ChainInv, Underway, Reviewed
<1> QED
  BY <1>3, <1>5, <1>6, <1>7, <1>8, <1>9 DEF ContractCalls

\* The local status and the contract's state agree as long as no mined
\* transaction waits for its answer.
Agrees(status, s) ==
  \/ s \in Underway \cup {"SUBMITTED", "CANCELLED"} /\ status \in Unreviewed
  \/ s = status
  \/ s = "REJECTED" /\ status = "APPEALED"
  \/ s = "DISPUTED" /\ status \in {"APPEALED", "APPROVED"}
  \/ s = "UNRESOLVED" /\ status = "APPEALED"
  \/ s = "REFUNDED" /\ status \in {"APPEALED", "UNRESOLVED"}

\* What a request found when its guard let it pass still holds while it waits.
Admitted(c, r) ==
  /\ c.op \in {"approve", "reject"} =>
       r.status \in {"SUBMITTED", "UNDER_REVIEW"} /\ c.submission # NoSubmission
  /\ c.op = "appeal" => r.status = "APPEALED" /\ c.submission # NoSubmission
  /\ c.op = "settle" => r.status = "APPROVED" /\ r.dispute # "open"
  /\ c.op = "refund" => r.status \in {"REJECTED", "CANCELLED"} /\ r.dispute # "open"
  /\ c.op = "dispute" =>
       /\ r.status \in {"SUBMITTED", "UNDER_REVIEW", "REJECTED", "APPROVED"}
       /\ r.dispute # "open"
  /\ c.op \in {"resolve_paid", "resolve_refund"} => r.dispute = "open"

\* Calls that the browser or the engine may come before.
Contested == {"assign_task", "cancel_task"}

\* What a mined transaction that is not answered yet has done: it was executed,
\* and the local status is still the one from before it.
Executed(c, r, s) ==
  /\ c.call = "approve_submission" => s = "APPROVED"
  /\ c.call = "reject_submission" => s = "REJECTED"
  /\ c.call = "dispute_task" => s = "DISPUTED"
  /\ c.call = "appeal_task" => s = "APPEALED"
  /\ c.call = "finalize_review" => s = Verdict[c.outcome]
  /\ c.call = "settle_task" => s = "SETTLED" /\ r.status = "APPROVED"
  /\ c.call = "refund_task" =>
       /\ s = "REFUNDED"
       /\ c.op = "resolve_refund" => r.status \in Reviewed \ {"APPROVED"}
  /\ c.call \in {"settle_task", "refund_task"} => PaidIn(r) + RefundedIn(r) = 0
  /\ c.call \in Contested => Agrees(r.status, s)

HandlerInv(h) ==
  LET c == req[h]
  IN  /\ c.pc # "mined" => Agrees(task.status, Onchain)
      /\ c.pc = "refresh" /\ c.seen # Unread =>
           /\ c.seen.state = Onchain \/ {c.seen.state, Onchain} \subseteq Working
           /\ c.seen.state = "SUBMITTED" => Anchored = Submission
      /\ c.pc \in {"write", "sent", "mined"} => Admitted(c, task)
      /\ c.op = "appeal" => c.call \in {NoCall, "appeal_task", "finalize_review"}
      /\ c.pc = "evaluate" /\ c.op = "appeal" => Admitted(c, task) /\ Onchain = "APPEALED"
      /\ c.pc \in {"write", "sent"} /\ c.call = "finalize_review" => Onchain = "APPEALED"
      /\ c.pc = "sent" /\ c.call \notin Contested => Accepts(c)
      /\ c.pc = "mined" => Executed(c, task, Onchain)

\* A start report that is still under way finds no submitted result: it cannot
\* take a task back to EXECUTING.
StartInv ==
  LET c == req[Engine]
  IN  c.op = "start" =>
        /\ c.pc = "write" =>
             task.status \notin {"SUBMITTED", "UNDER_REVIEW"} \/ Anchored = Submission
        /\ c.pc \in {"sent", "mined"} =>
             task.status \notin {"SUBMITTED", "UNDER_REVIEW"} /\ Anchored = NoSubmission

ReceiptInv ==
  /\ PaidIn(task) + RefundedIn(task) <= 1
  /\ PaidIn(task) > 0 => Onchain = "SETTLED"
  /\ RefundedIn(task) > 0 => Onchain = "REFUNDED"

\* An open dispute is about a result in review, until its resolution is mined.
DisputeInv(h) ==
  task.dispute = "open" =>
    /\ \/ Onchain \in Reviewed
       \/ req[h].pc = "mined" /\ req[h].op \in {"resolve_paid", "resolve_refund"}
    /\ ~(Onchain = "DISPUTED" /\ task.status = "APPROVED")

RejectedInv == task.status = "REJECTED" => Anchored = Submission

SequentialInv(h) ==
  /\ ChainInv
  /\ HandlerInv(h)
  /\ StartInv
  /\ ReceiptInv
  /\ DisputeInv(h)
  /\ RejectedInv

\* A final status is kept.
StaysFinal == isTerminalTaskStatus(task.status) => task'.status = task.status

-----------------------------------------------------------------------------
(* Steps beside the handler: the engine's, the browser's, and the pause. *)

\* They leave the handler's request alone, move the chain only while nothing is
\* submitted, and the status only before or to SUBMITTED.
Aside(h) ==
  /\ req'[h] = req[h]
  /\ task'.dispute = task.dispute /\ task'.history = task.history
  /\ \/ task'.status = task.status
     \/ /\ task.status \in {"OPEN", "ASSIGNED", "EXECUTING"}
        /\ task'.status \in {"OPEN", "ASSIGNED", "EXECUTING", "SUBMITTED"}
  /\ \/ UNCHANGED chain
     \/ /\ Onchain \in Underway /\ Onchain' \in Working
        /\ Anchored' \in {Anchored, Submission}
  /\ ChainInv'
  /\ StartInv'

\* What a call asks of the contract it still finds if the chain has not moved.
LEMMA AcceptsStays ==
  ASSUME NEW p, Accepts(req[p]), UNCHANGED chain,
         req'[p].call = req[p].call, req'[p].submission = req[p].submission
  PROVE  Accepts(req[p])'
BY DEF Accepts, chain, registryVars, arcVars, Arc!CanAssign, Arc!CanStart, Arc!CanSubmit,
   Arc!CanDecide, Arc!CanFinalize, Arc!CanDispute, Arc!CanAppeal, Arc!CanSettle,
   Arc!CanCancel, Arc!CanRefund, Arc!onlyCreatorOrOperator, Arc!onlyOperator, Arc!PlatformFee,
   Arc!RefundableStates

\* What another actor does aside of the handler's request keeps everything that
\* the handler relies on, and takes no final status back.
LEMMA AsideKeeps ==
  ASSUME MarketInv, NEW h \in Handlers, SequentialInv(h), Aside(h)
  PROVE  SequentialInv(h)' /\ StaysFinal
<1> DEFINE c == req[h]
<1>1. /\ c \in Continuations /\ Stage(h, c) /\ h # Engine
      /\ c.pc \in {"write", "sent", "mined"} => c.call \in CallsOf[c.op] \/ c.op = "submit"
      /\ c.op \notin {"start", "submit"}
  BY MarketConstants DEF MarketInv, RouterTypeOK, RequestsInv, Procs, Stage
<1>0. task.status \in TaskStatuses
  BY DEF MarketInv, RouterTypeOK, TaskRecords
<1>2. UNCHANGED chain => Onchain' = Onchain /\ Anchored' = Anchored
  BY DEF chain, arcVars, Onchain, Anchored
<1>3. PaidIn(task') = PaidIn(task) /\ RefundedIn(task') = RefundedIn(task)
  BY DEF Aside, PaidIn, RefundedIn
<1>4. Admitted(c, task) => Admitted(c, task')
  BY DEF Admitted, Aside
<1>5. Agrees(task.status, Onchain) => Agrees(task'.status, Onchain')
  <2>1. CASE UNCHANGED chain
    BY <1>2, <2>1 DEF Aside, Agrees, Underway, Unreviewed
  <2>2. CASE Onchain \in Underway /\ Onchain' \in Working
    BY <1>0, <2>2 DEF Aside, Agrees, Underway, Unreviewed, Working, TaskStatuses
  <2> QED
    BY <2>1, <2>2 DEF Aside
<1>6. ASSUME c.pc = "sent", c.call \notin Contested
      PROVE  UNCHANGED chain
  <2>1. Accepts(c) /\ Admitted(c, task) /\ c.call \in CallsOf[c.op]
    BY <1>1, <1>6 DEF SequentialInv, HandlerInv
  <2>2. c.call \in {"approve_submission", "reject_submission", "finalize_review"} =>
          c.submission # NoSubmission
    BY <1>1, <2>1, CallOps DEF Admitted
  <2>3. c.call \in {"approve_submission", "reject_submission", "finalize_review"} =>
          Anchored = c.submission
    BY <2>1 DEF Accepts, Arc!CanDecide, Arc!CanFinalize, Anchored
  <2>4. c.call \in {"dispute_task", "appeal_task", "settle_task", "refund_task"} =>
          Onchain \notin Underway
    BY <2>1 DEF Accepts, Arc!CanDispute, Arc!CanAppeal, Arc!CanSettle, Arc!CanRefund,
       Arc!RefundableStates, Onchain, Underway
  <2>5. Onchain \in Underway => Anchored = NoSubmission
    BY DEF SequentialInv, ChainInv
  <2>6. c.call \notin {"start_execution", "submit_task"}
    BY <1>1, <2>1, CallOps
  <2>7. c.call \in ContractCalls
    BY <1>1, <2>1, CallOps DEF Continuations
  <2>8. Onchain \notin Underway
    BY <1>6, <2>2, <2>3, <2>4, <2>5, <2>6, <2>7 DEF ContractCalls, Contested
  <2> QED
    BY <2>8 DEF Aside
<1>7. UNCHANGED chain /\ Accepts(req[h]) => Accepts(req[h])'
  BY AcceptsStays DEF Aside
<1>8. /\ UNCHANGED chain \/ (Onchain \in Underway /\ Onchain' \in Working)
      /\ Anchored = Submission => Anchored' = Submission
  BY <1>2 DEF Aside
<1>9. HandlerInv(h)'
  <2>1. /\ req'[h] = c
        /\ c.pc # "mined" => Agrees(task'.status, Onchain')
    BY <1>5 DEF Aside, SequentialInv, HandlerInv
  <2>2. ASSUME c.pc = "refresh", c.seen # Unread
        PROVE  /\ c.seen.state = Onchain' \/ {c.seen.state, Onchain'} \subseteq Working
               /\ c.seen.state = "SUBMITTED" => Anchored' = Submission
    <3>1. c.seen.state # "NONE"
      BY <1>1, <2>2 DEF Continuations
    <3> QED
      BY <1>2, <1>8, <2>2, <3>1 DEF SequentialInv, HandlerInv, Underway, Working
  <2>3. /\ c.pc \in {"write", "sent", "mined"} => Admitted(c, task')
        /\ c.op = "appeal" => c.call \in {NoCall, "appeal_task", "finalize_review"}
        /\ c.pc = "evaluate" /\ c.op = "appeal" => Admitted(c, task') /\ Onchain' = "APPEALED"
        /\ c.pc \in {"write", "sent"} /\ c.call = "finalize_review" => Onchain' = "APPEALED"
    BY <1>2, <1>4, <1>8 DEF SequentialInv, HandlerInv, Underway
  <2>4. c.pc = "sent" /\ c.call \notin Contested => Accepts(req[h])'
    BY <1>6, <1>7 DEF SequentialInv, HandlerInv
  <2>5. ASSUME c.pc = "mined"
        PROVE  Executed(c, task', Onchain')
    <3>1. Executed(c, task, Onchain)
      BY <2>5 DEF SequentialInv, HandlerInv
    <3>2. c.call = "finalize_review" => c.outcome \in ConsensusOutcomes
      BY <1>1, <2>5, CallOps DEF Stage, NoCall
    <3>3. c.call = "finalize_review" => Verdict[c.outcome] \notin Underway
      BY <3>2 DEF Verdict, ConsensusOutcomes, Underway
    <3> HIDE DEF c
    <3>4. /\ task.status \in Reviewed => task'.status = task.status
          /\ Onchain \notin Underway => Onchain' = Onchain
      BY <1>2, <1>8 DEF Aside, Reviewed
    <3>5. c.call \in Contested => Agrees(task'.status, Onchain')
      BY <1>5, <3>1 DEF Executed
    <3> QED
      BY <1>3, <3>1, <3>3, <3>4, <3>5 DEF Executed, Underway, Reviewed
  <2> QED
    BY <2>1, <2>2, <2>3, <2>4, <2>5 DEF HandlerInv
<1>10. ReceiptInv' /\ DisputeInv(h)' /\ RejectedInv' /\ StaysFinal
  <2>1. ReceiptInv'
    BY <1>2, <1>3, <1>8 DEF SequentialInv, ReceiptInv, Underway, Working
  <2> QED
    BY <1>2, <1>8, <2>1 DEF SequentialInv, DisputeInv, RejectedInv, StaysFinal, Aside,
       Underway, Working, Reviewed, isTerminalTaskStatus
<1> QED
  BY <1>9, <1>10 DEF SequentialInv, Aside

\* While no transaction is mined the chain is what it was.
LEMMA ChainStays ==
  ASSUME ChainInv, UNCHANGED chain
  PROVE  ChainInv' /\ Onchain' = Onchain /\ Anchored' = Anchored
BY DEF ChainInv, Onchain, Anchored, chain, arcVars

\* The status each report of the engine leaves.
LEMMA EngineStatus ==
  ASSUME NEW S, NEW r \in TaskRecords(S), NEW anchored \in S \cup {NoSubmission}
  PROVE  /\ ExecutionStarted(r).status =
              IF Passes(r.status, "EXECUTING") THEN "EXECUTING" ELSE r.status
         /\ SubmissionReceived(r, anchored).status =
              IF Passes(r.status, "SUBMITTED") THEN "SUBMITTED" ELSE r.status
         /\ \/ ExecutionFailed(r).status = r.status
            \/ /\ r.status \in {"ASSIGNED", "EXECUTING"}
               /\ ExecutionFailed(r).status \in {"OPEN", "ASSIGNED"}
<1>1. ExecutionStarted(r).status =
        IF Passes(r.status, "EXECUTING") THEN "EXECUTING" ELSE r.status
  BY DEF ExecutionStarted, Proceed, Move, TaskRecords
<1>2. SubmissionReceived(r, anchored).status =
        IF Passes(r.status, "SUBMITTED") THEN "SUBMITTED" ELSE r.status
  BY DEF SubmissionReceived, TaskRecords
<1>3. \/ ExecutionFailed(r).status = r.status
      \/ /\ r.status \in {"ASSIGNED", "EXECUTING"}
         /\ ExecutionFailed(r).status \in {"OPEN", "ASSIGNED"}
  BY DEF ExecutionFailed, Move, PassesAsRecovery, canRecoverTaskStatus, TaskRecords
<1> QED
  BY <1>1, <1>2, <1>3

\* The report that is answered changes the status only before or to SUBMITTED:
\* a start that is still under way finds no submitted result.
LEMMA ReportIsAside ==
  ASSUME MarketInv, NEW h \in Handlers, SequentialInv(h), Complete(Engine)
  PROVE  Aside(h)
<1> DEFINE c == req[Engine]
<1>1. Engine \in Procs /\ h \in Procs /\ h # Engine
  BY MarketConstants DEF Procs
<1>2. c \in Continuations /\ Stage(Engine, c) /\ task \in TaskRecords({Submission})
      /\ req \in [Procs -> Continuations]
  BY <1>1 DEF MarketInv, RouterTypeOK, RequestsInv
<1>3. c.pc = "mined" /\ UNCHANGED chain
  BY DEF Complete
<1>4. c.op \in {"start", "submit"} /\ c.call \in {"start_execution", "submit_task", NoCall}
  BY <1>2, <1>3 DEF Stage, EngineOps, CallsOf
<1>5. NextCall(c) = NoCall
  BY <1>4 DEF NextCall, NoCall
<1>6. task' = Effect(c, task) /\ req' = [req EXCEPT ![Engine] = Idle]
  BY <1>4, <1>5 DEF Complete, Answer, Finish, Continue, NoCall
<1>7. req'[h] = req[h] /\ req'[Engine] = Idle
  BY <1>1, <1>2, <1>6
<1>8. StartInv'
  BY <1>7 DEF StartInv, Idle
<1>9. task.status \in TaskStatuses
  BY <1>2 DEF TaskRecords
<1>10. CASE c.op = "start"
  <2>1. task' = ExecutionStarted(task)
    BY <1>6, <1>10 DEF Effect
  <2>2. /\ SameStanding(task', task)
        /\ task'.status = IF Passes(task.status, "EXECUTING") THEN "EXECUTING" ELSE task.status
    <3>1. NoSubmission \in {Submission} \cup {NoSubmission}
      OBVIOUS
    <3> QED
      <4>1. SameStanding(task', task)
        BY <1>2, <2>1, <3>1, EngineEffect
      <4> QED
        BY <1>2, <2>1, <4>1, EngineStatus
  <2>3. task.status \notin {"SUBMITTED", "UNDER_REVIEW", "REJECTED"}
    BY <1>3, <1>10, MarketConstants DEF SequentialInv, StartInv, RejectedInv
  <2>4. Passes(task.status, "EXECUTING") => task.status \in {"ASSIGNED", "EXECUTING"}
    BY <1>9, <2>3 DEF Passes, canTransitionTaskStatus, taskStatusTransitions, TaskStatuses
  <2> QED
    BY <1>3, <1>7, <1>8, <2>2, <2>4, ChainStays DEF Aside, SameStanding, SequentialInv
<1>11. CASE c.op = "submit"
  <2> DEFINE anchored == IF c.call = "submit_task" THEN Submission ELSE NoSubmission
  <2>1. task' = SubmissionReceived(task, anchored)
    BY <1>6, <1>11 DEF Effect
  <2>2. anchored \in {Submission} \cup {NoSubmission}
    OBVIOUS
  <2> HIDE DEF anchored
  <2>3. /\ SameStanding(task', task)
        /\ task'.status = IF Passes(task.status, "SUBMITTED") THEN "SUBMITTED" ELSE task.status
    BY <1>2, <2>1, <2>2, EngineEffect, EngineStatus
  <2>4. Passes(task.status, "SUBMITTED") => task.status \in {"ASSIGNED", "EXECUTING", "SUBMITTED"}
    BY <1>9 DEF Passes, canTransitionTaskStatus, taskStatusTransitions, TaskStatuses
  <2> QED
    BY <1>3, <1>7, <1>8, <2>3, <2>4, ChainStays DEF Aside, SameStanding, SequentialInv
<1> QED
  BY <1>4, <1>10, <1>11

\* A report that comes in, is sent or gives up.
LEMMA EngineIsAside ==
  ASSUME MarketInv, NEW h \in Handlers, SequentialInv(h),
         Send(Engine) \/ Throw(Engine) \/ EngineStart \/ EngineSubmit \/ EngineFail
  PROVE  Aside(h)
<1> DEFINE c == req[Engine]
<1>1. Engine \in Procs /\ h \in Procs /\ h # Engine
  BY MarketConstants DEF Procs
<1>2. c \in Continuations /\ Stage(Engine, c) /\ task \in TaskRecords({Submission})
      /\ req \in [Procs -> Continuations]
  BY <1>1 DEF MarketInv, RouterTypeOK, RequestsInv
<1>3. UNCHANGED chain
  BY DEF Send, Throw, EngineStart, EngineSubmit, EngineFail
<1>4. ASSUME req'[h] = req[h], StartInv', UNCHANGED task
      PROVE  Aside(h)
  BY <1>3, <1>4, ChainStays DEF Aside, SequentialInv
<1>5. ASSUME NEW d, Continue(Engine, d), UNCHANGED task,
             d.op = "start" =>
               /\ d.pc \in {"write", "sent"}
               /\ task.status \notin {"SUBMITTED", "UNDER_REVIEW"}
               /\ d.pc = "sent" => Anchored = NoSubmission
      PROVE  Aside(h)
  <2>1. req'[h] = req[h] /\ req'[Engine] = d
    BY <1>1, <1>2, <1>5 DEF Continue
  <2>2. StartInv'
    BY <1>3, <1>5, <2>1, ChainStays DEF StartInv, SequentialInv
  <2> QED
    BY <1>4, <1>5, <2>1, <2>2
<1>6. CASE Send(Engine)
  <2> DEFINE d == [c EXCEPT !.pc = "sent"]
  <2>1. /\ c.pc = "write" /\ Accepts(c) /\ Continue(Engine, d) /\ UNCHANGED task
        /\ d.op = c.op /\ d.pc = "sent"
    BY <1>2, <1>6 DEF Send, Reverts, Continuations
  <2>2. ASSUME c.op = "start"
        PROVE  task.status \notin {"SUBMITTED", "UNDER_REVIEW"} /\ Anchored = NoSubmission
    <3>1. c.call = "start_execution"
      BY <1>2, <2>1, <2>2 DEF Stage, CallsOf
    <3>2. Onchain = "ASSIGNED"
      BY <2>1, <3>1 DEF Accepts, Arc!CanStart, Onchain
    <3>3. Anchored = NoSubmission
      BY <3>2 DEF SequentialInv, ChainInv, Underway
    <3> QED
      BY <2>1, <2>2, <3>3, MarketConstants DEF SequentialInv, StartInv
  <2> HIDE DEF d
  <2> QED
    BY <1>5, <2>1, <2>2
<1>7. CASE Throw(Engine)
  BY <1>5, <1>7 DEF Throw, Finish, Idle
<1>8. CASE EngineStart
  <2>1. CASE UNCHANGED <<req, task>>
    BY <1>3, <1>4, <2>1, ChainStays DEF StartInv, SequentialInv
  <2>2. CASE /\ MayStart(task) /\ UNCHANGED task
             /\ Continue(Engine, [Idle EXCEPT !.pc = "write", !.op = "start",
                                              !.call = "start_execution"])
    BY <1>5, <2>2 DEF MayStart, Idle
  <2> QED
    BY <1>8, <2>1, <2>2 DEF EngineStart
<1>9. CASE EngineSubmit
  BY <1>5, <1>9 DEF EngineSubmit, Idle
<1>10. CASE EngineFail
  <2>1. task' = ExecutionFailed(task) /\ UNCHANGED req
    BY <1>10 DEF EngineFail
  <2>2. /\ SameStanding(task', task)
        /\ \/ task'.status = task.status
           \/ /\ task.status \in {"ASSIGNED", "EXECUTING"}
              /\ task'.status \in {"OPEN", "ASSIGNED"}
    <3>1. NoSubmission \in {Submission} \cup {NoSubmission}
      OBVIOUS
    <3> QED
      BY <1>2, <2>1, <3>1, EngineEffect, EngineStatus
  <2>3. StartInv'
    BY <1>3, <2>1, <2>2, ChainStays DEF StartInv, SequentialInv
  <2> QED
    BY <1>3, <2>1, <2>2, <2>3, ChainStays DEF Aside, SameStanding, SequentialInv
<1> QED
  BY <1>6, <1>7, <1>8, <1>9, <1>10

\* The browser's transactions, and a transaction of the engine that is mined.
LEMMA ChainIsAside ==
  ASSUME MarketInv, NEW h \in Handlers, SequentialInv(h), [Next]_vars,
         BrowserWrite \/ (Mine /\ Head(pending).by = Engine)
  PROVE  Aside(h)
<1>1. Engine \in Procs /\ h \in Procs /\ h # Engine /\ NoSubmission # Submission
  BY MarketConstants DEF Procs
<1>2. req \in [Procs -> Continuations] /\ ChainInv
  BY DEF MarketInv, RouterTypeOK, SequentialInv
<1>3. CASE BrowserWrite
  <2>1. /\ UNCHANGED <<operator, latestSubmissionId, toAgent, toCreator, task, req>>
        /\ creator'[Task] # NoAccount
        /\ \/ Onchain = "NONE" /\ Onchain' = "CREATED"
           \/ Onchain = "CREATED" /\ Onchain' = "OPEN"
           \/ Onchain = "OPEN" /\ Onchain' = "ASSIGNED" /\ UNCHANGED escrowLocked
    BY <1>2, <1>3, BrowserEffect
  <2>2. Arc!EscrowInv' /\ Arc!TypeOK'
    BY ContractStep, ContractKeeps DEF MarketInv
  <2>3. Onchain' = "OPEN" => escrowLocked'[Task] > 0
    BY <2>2 DEF Arc!EscrowInv, Arc!TaskEscrowInv, Arc!TypeOK, Onchain
  <2>4. Anchored' = Anchored
    BY <2>1 DEF Anchored
  <2>5. ChainInv'
    BY <1>2, <2>1, <2>3, <2>4 DEF ChainInv, Underway, Reviewed
  <2>6. StartInv'
    BY <2>1, <2>4 DEF SequentialInv, StartInv
  <2> QED
    BY <2>1, <2>4, <2>5, <2>6 DEF Aside, Underway, Working
<1>4. CASE Mine /\ Head(pending).by = Engine
  <2> DEFINE c == Head(pending).tx
             d == [req[Engine] EXCEPT !.pc = "mined"]
  <2>1. /\ c \in Continuations /\ c.op = req[Engine].op
        /\ c.call \in CallsOf[c.op] /\ Stage(Engine, req[Engine])
        /\ Call(c) \/ (Reverts(c) /\ UNCHANGED chain)
        /\ UNCHANGED <<task, paused, run>>
    BY <1>1, <1>4, MinedCall
  <2>2. req[Engine].pc = "sent" /\ d \in Continuations /\ req' = [req EXCEPT ![Engine] = d]
    BY <1>1, <1>4, MineMoves DEF MarketInv
  <2>3. req'[h] = req[h] /\ req'[Engine] = d /\ d.op = c.op /\ d.pc = "mined"
    BY <1>1, <1>2, <2>1, <2>2 DEF Continuations
  <2>4. \/ c.op = "start" /\ c.call = "start_execution"
        \/ c.op = "submit" /\ c.call = "submit_task"
    BY <2>1 DEF Stage, EngineOps, CallsOf
  <2> HIDE DEF c, d
  <2>5. CASE UNCHANGED chain
    <3>1. StartInv'
      BY <2>1, <2>2, <2>3, <2>5, <1>2, ChainStays DEF SequentialInv, StartInv
    <3> QED
      BY <1>2, <2>1, <2>3, <2>5, <3>1, ChainStays DEF Aside
  <2>6. CASE Call(c)
    <3>1. ChainInv'
      BY <1>2, <2>1, <2>4, <2>6, CallKeepsChain DEF NoCall
    <3>2. /\ c.op = "start" => /\ Onchain = "ASSIGNED" /\ Onchain' = "EXECUTING"
                               /\ Anchored' = Anchored
          /\ c.op = "submit" => /\ Onchain \in {"ASSIGNED", "EXECUTING"}
                                /\ Onchain' = "SUBMITTED" /\ Anchored' = Submission
      BY <2>4, <2>6, CallEffect DEF MarketInv
    <3>3. StartInv'
      BY <2>1, <2>2, <2>3, <2>4, <3>2 DEF SequentialInv, StartInv
    <3> QED
      BY <2>1, <2>3, <2>4, <3>1, <3>2, <3>3 DEF Aside, Underway, Working
  <2> QED
    BY <2>1, <2>5, <2>6
<1> QED
  BY <1>3, <1>4

-----------------------------------------------------------------------------
(* The handler's own steps between its transactions. *)

\* Before the review the local status does not matter to the agreement.
LEMMA EarlyAgrees ==
  ASSUME NEW s, s \notin {"ESCROW_FUNDED", "UNDER_REVIEW"},
         NEW a \in Unreviewed, NEW b \in Unreviewed, Agrees(a, s)
  PROVE  Agrees(b, s)
BY DEF Agrees, Unreviewed, Underway

\* A step that leaves the chain and the engine's report alone keeps the
\* invariant if the part about the handler, the receipts, the dispute and the
\* status is kept.
LEMMA LocalStep ==
  ASSUME NEW h \in Handlers, SequentialInv(h), UNCHANGED chain, req'[Engine] = req[Engine],
         task'.status \in {"SUBMITTED", "UNDER_REVIEW"} =>
           task.status \in {"SUBMITTED", "UNDER_REVIEW"} \/ Anchored = Submission,
         task'.status = "REJECTED" => task.status = "REJECTED" \/ Anchored = Submission,
         HandlerInv(h)', ReceiptInv', DisputeInv(h)', StaysFinal
  PROVE  SequentialInv(h)' /\ StaysFinal
<1>1. ChainInv' /\ Onchain' = Onchain /\ Anchored' = Anchored
  BY ChainStays DEF SequentialInv
<1>2. StartInv'
  BY <1>1, MarketConstants DEF SequentialInv, StartInv
<1>3. RejectedInv'
  BY <1>1 DEF SequentialInv, RejectedInv
<1> QED
  BY <1>1, <1>2, <1>3 DEF SequentialInv

\* A request that is answered leaves nothing behind.
LEMMA HandlerIdle ==
  ASSUME NEW h, req'[h].pc = "idle", req'[h].op = "none", Agrees(task'.status, Onchain')
  PROVE  HandlerInv(h)'
BY DEF HandlerInv

\* A step of the handler that touches neither receipts nor dispute, and is not
\* the answer to a mined transaction.
LEMMA QuietStep ==
  ASSUME NEW h \in Handlers, SequentialInv(h), UNCHANGED chain, req'[Engine] = req[Engine],
         req[h].pc # "mined",
         task'.history = task.history, task'.dispute = task.dispute,
         task'.status = "APPROVED" => task.status = "APPROVED" \/ Onchain # "DISPUTED",
         task'.status \in {"SUBMITTED", "UNDER_REVIEW"} =>
           task.status \in {"SUBMITTED", "UNDER_REVIEW"} \/ Anchored = Submission,
         task'.status = "REJECTED" => task.status = "REJECTED" \/ Anchored = Submission,
         HandlerInv(h)', StaysFinal
  PROVE  SequentialInv(h)' /\ StaysFinal
<1>1. Onchain' = Onchain
  BY ChainStays DEF SequentialInv
<1>2. ReceiptInv'
  BY <1>1 DEF SequentialInv, ReceiptInv, PaidIn, RefundedIn
<1>3. DisputeInv(h)'
  BY <1>1 DEF SequentialInv, DisputeInv
<1> QED
  BY <1>2, <1>3, LocalStep

\* A request begins, sends its transaction, or gives up.
LEMMA WaitKeeps ==
  ASSUME MarketInv, NEW h \in Handlers, SequentialInv(h),
         (\E op \in ApiRequests : Begin(h, op)) \/ Send(h) \/ Throw(h)
  PROVE  SequentialInv(h)' /\ StaysFinal
<1> DEFINE c == req[h]
<1>1. Engine \in Procs /\ h \in Procs /\ h # Engine
  BY MarketConstants DEF Procs
<1>2. c \in Continuations /\ Stage(h, c) /\ req \in [Procs -> Continuations]
  BY <1>1 DEF MarketInv, RouterTypeOK, RequestsInv
<1>3. UNCHANGED chain /\ UNCHANGED task /\ c.pc # "mined" /\ Agrees(task.status, Onchain)
  BY DEF Begin, Send, Throw, SequentialInv, HandlerInv
<1>4. Onchain' = Onchain /\ Anchored' = Anchored
  BY <1>3, ChainStays DEF SequentialInv
<1>5. ASSUME NEW d, Continue(h, d), HandlerInv(h)'
      PROVE  SequentialInv(h)' /\ StaysFinal
  <2>1. req'[Engine] = req[Engine]
    BY <1>1, <1>2, <1>5 DEF Continue
  <2> QED
    BY <1>3, <1>5, <2>1, QuietStep DEF StaysFinal
<1>6. ASSUME NEW op \in ApiRequests, Begin(h, op)
      PROVE  SequentialInv(h)' /\ StaysFinal
  <2>1. PICK seen \in {readTask, Unread} :
          Continue(h, [Idle EXCEPT !.pc = "refresh", !.op = op, !.seen = seen])
    BY <1>6 DEF Begin
  <2> DEFINE d == [Idle EXCEPT !.pc = "refresh", !.op = op, !.seen = seen]
  <2>2. req'[h] = d /\ d.pc = "refresh" /\ d.op = op /\ d.call = NoCall /\ d.seen = seen
    BY <1>1, <1>2, <2>1 DEF Continue, Idle
  <2> HIDE DEF d
  <2>3. seen # Unread =>
          /\ seen.state = Onchain
          /\ seen.state = "SUBMITTED" => Anchored = Submission
    BY <2>1 DEF readTask, Onchain, SequentialInv, ChainInv
  <2>4. HandlerInv(h)'
    BY <1>3, <1>4, <2>2, <2>3 DEF HandlerInv
  <2> QED
    BY <1>5, <2>1, <2>4 DEF d
<1>7. CASE Send(h)
  <2> DEFINE d == [c EXCEPT !.pc = "sent"]
  <2>1. c.pc = "write" /\ Accepts(c) /\ Continue(h, d)
    BY <1>7 DEF Send, Reverts
  <2>2. /\ req'[h] = d /\ d.pc = "sent" /\ d.op = c.op /\ d.call = c.call
        /\ d.submission = c.submission
    BY <1>1, <1>2, <2>1 DEF Continue, Continuations
  <2> HIDE DEF d
  <2>3. Accepts(req[h])'
    BY <1>3, <2>1, <2>2, AcceptsStays
  <2>4. Admitted(d, task')
    BY <1>3, <2>1, <2>2 DEF SequentialInv, HandlerInv, Admitted
  <2>5. /\ d.op = "appeal" => d.call \in {NoCall, "appeal_task", "finalize_review"}
        /\ d.call = "finalize_review" => Onchain = "APPEALED"
    BY <2>1, <2>2 DEF SequentialInv, HandlerInv
  <2>6. HandlerInv(h)'
    BY <1>3, <1>4, <2>2, <2>3, <2>4, <2>5 DEF HandlerInv
  <2> QED
    BY <1>5, <2>1, <2>6
<1>8. CASE Throw(h)
  <2>1. Continue(h, Idle) /\ Idle.pc = "idle" /\ Idle.op = "none"
    BY <1>8 DEF Throw, Finish, Idle
  <2>2. req'[h] = Idle
    BY <1>1, <1>2, <2>1 DEF Continue
  <2>3. HandlerInv(h)'
    BY <1>3, <1>4, <2>1, <2>2, HandlerIdle
  <2> QED
    BY <1>5, <2>1, <2>3
<1> QED
  BY <1>6, <1>7, <1>8

\* The evaluator answers.
LEMMA EvaluateKeeps ==
  ASSUME MarketInv, NEW h \in Handlers, SequentialInv(h), Evaluate(h)
  PROVE  SequentialInv(h)' /\ StaysFinal
<1> DEFINE c == req[h]
<1>1. Engine \in Procs /\ h \in Procs /\ h # Engine
  BY MarketConstants DEF Procs
<1>2. c \in Continuations /\ task \in TaskRecords({Submission})
      /\ req \in [Procs -> Continuations]
  BY <1>1 DEF MarketInv, RouterTypeOK
<1>3. UNCHANGED chain /\ c.pc = "evaluate" /\ Agrees(task.status, Onchain) /\ ChainInv
  BY DEF Evaluate, SequentialInv, HandlerInv
<1>4. Onchain' = Onchain /\ Anchored' = Anchored
  BY <1>3, ChainStays
<1>5. CASE c.op = "advise"
  <2>1. task' = Advised(task) /\ req' = [req EXCEPT ![h] = Idle]
    BY <1>5 DEF Evaluate, Answer, Effect, Finish, Continue
  <2>2. req'[h] = Idle /\ req'[Engine] = req[Engine] /\ Idle.pc = "idle" /\ Idle.op = "none"
    BY <1>1, <1>2, <2>1 DEF Idle
  <2>3. /\ task'.history = task.history /\ task'.dispute = task.dispute
        /\ task'.status = IF task.status = "SUBMITTED" THEN "UNDER_REVIEW" ELSE task.status
    BY <1>2, <2>1, ReviewEffect DEF SameStanding
  <2>4. Agrees(task'.status, Onchain)
    <3>1. Onchain \notin {"ESCROW_FUNDED", "UNDER_REVIEW"}
      BY <1>3 DEF ChainInv
    <3>2. "SUBMITTED" \in Unreviewed /\ "UNDER_REVIEW" \in Unreviewed
      BY DEF Unreviewed
    <3> QED
      BY <1>3, <2>3, <3>1, <3>2, EarlyAgrees
  <2>5. HandlerInv(h)'
    BY <1>4, <2>2, <2>4, HandlerIdle
  <2> QED
    BY <1>3, <2>2, <2>3, <2>5, QuietStep DEF StaysFinal, isTerminalTaskStatus
<1>6. CASE c.op = "appeal"
  <2>1. PICK outcome \in ConsensusOutcomes :
          Continue(h, [c EXCEPT !.pc = "write", !.call = "finalize_review",
                                !.outcome = outcome])
    BY <1>6 DEF Evaluate
  <2> DEFINE d == [c EXCEPT !.pc = "write", !.call = "finalize_review", !.outcome = outcome]
  <2>2. /\ req'[h] = d /\ req'[Engine] = req[Engine]
        /\ d.pc = "write" /\ d.op = "appeal" /\ d.call = "finalize_review"
        /\ d.submission = c.submission
    BY <1>1, <1>2, <1>6, <2>1 DEF Continue, Continuations
  <2> HIDE DEF d
  <2>3. UNCHANGED task
    BY <1>6 DEF Evaluate
  <2>4. Admitted(d, task') /\ Onchain = "APPEALED"
    BY <1>3, <1>6, <2>2, <2>3 DEF SequentialInv, HandlerInv, Admitted
  <2>5. HandlerInv(h)'
    BY <1>3, <1>4, <2>2, <2>3, <2>4 DEF HandlerInv
  <2> QED
    BY <1>3, <2>2, <2>3, <2>5, QuietStep DEF StaysFinal
<1> QED
  BY <1>5, <1>6 DEF Evaluate

\* What the refresh leaves: a status that agrees with the contract again, and
\* that neither undoes a final one nor hides an open dispute.
LEMMA RefreshAgrees ==
  ASSUME MarketInv, NEW h \in Handlers, SequentialInv(h), req[h].pc = "refresh"
  PROVE  LET r == Refreshed(h)
         IN  /\ r \in TaskRecords({Submission})
             /\ r.history = task.history /\ r.dispute = task.dispute
             /\ Agrees(r.status, Onchain)
             /\ r.status = "REJECTED" => task.status = "REJECTED" \/ Anchored = Submission
             /\ r.status = "APPROVED" => task.status = "APPROVED" \/ Onchain # "DISPUTED"
             /\ isTerminalTaskStatus(task.status) => r.status = task.status
             /\ r.status \in {"SUBMITTED", "UNDER_REVIEW"} =>
                  task.status \in {"SUBMITTED", "UNDER_REVIEW"} \/ Anchored = Submission
<1> DEFINE r == Refreshed(h)
           seen == req[h].seen
<1>1. h \in Procs /\ RouterTypeOK
  BY DEF Procs, MarketInv
<1>2. /\ r \in TaskRecords({Submission})
      /\ r.history = task.history /\ r.dispute = task.dispute
      /\ seen = Unread => r = task
      /\ seen # Unread =>
           r.status = IF seen.state = "ESCROW_FUNDED" THEN "OPEN" ELSE seen.state
  BY <1>1, RefreshedEffect
<1>3. Agrees(task.status, Onchain) /\ ChainInv
  BY DEF SequentialInv, HandlerInv
<1> HIDE DEF r
<1>4. CASE seen = Unread
  BY <1>2, <1>3, <1>4 DEF r
<1>5. CASE seen # Unread
  <2>1. /\ seen.state = Onchain \/ {seen.state, Onchain} \subseteq Working
        /\ seen.state = "SUBMITTED" => Anchored = Submission
    BY <1>5 DEF SequentialInv, HandlerInv
  <2>2. seen.state # "ESCROW_FUNDED" /\ r.status = seen.state
    BY <1>2, <1>3, <1>5, <2>1 DEF ChainInv, Working
  <2> HIDE DEF seen
  <2>3. Agrees(r.status, Onchain)
    BY <2>1, <2>2 DEF Agrees, Working, Underway, Unreviewed
  <2>4. r.status = "REJECTED" => Anchored = Submission
    BY <1>3, <2>1, <2>2 DEF ChainInv, Working, Reviewed
  <2>5. r.status = "APPROVED" => Onchain # "DISPUTED"
    BY <2>1, <2>2 DEF Working
  <2>6. isTerminalTaskStatus(task.status) => r.status = task.status
    BY <1>3, <2>1, <2>2 DEF Agrees, isTerminalTaskStatus, Working, Underway, Unreviewed
  <2>7. r.status \in {"SUBMITTED", "UNDER_REVIEW"} => Anchored = Submission
    BY <1>3, <2>1, <2>2 DEF ChainInv, Working
  <2> QED
    BY <1>2, <2>3, <2>4, <2>5, <2>6, <2>7 DEF r
<1> QED
  BY <1>4, <1>5

\* What the guard of a request finds is what the request still needs later.
LEMMA GuardAdmits ==
  ASSUME NEW op \in ApiRequests, NEW r, NEW m, NEW c, Guard(op, r),
         c.op = op, c.submission = r.submission,
         m.dispute = r.dispute, m.status = IF op = "appeal" THEN "APPEALED" ELSE r.status
  PROVE  Admitted(c, m)
<1>1. op \in {"approve", "reject"} =>
        r.status \in {"SUBMITTED", "UNDER_REVIEW"} /\ c.submission # NoSubmission
  BY DEF Guard, MayDecide, IsReviewable
<1>2. op = "appeal" => c.submission # NoSubmission
  BY DEF Guard, MayAppeal
<1>3. op = "settle" => r.status = "APPROVED" /\ r.dispute # "open"
  BY DEF Guard, MaySettle
<1>4. op = "refund" => r.status \in {"REJECTED", "CANCELLED"} /\ r.dispute # "open"
  BY DEF Guard, MayRefund
<1>5. op = "dispute" =>
        /\ r.status \in {"SUBMITTED", "UNDER_REVIEW", "REJECTED", "APPROVED"}
        /\ r.dispute # "open"
  BY DEF Guard, MayDispute
<1>6. op \in {"resolve_paid", "resolve_refund"} => r.dispute = "open"
  BY DEF Guard, MayResolve
<1> QED
  BY <1>1, <1>2, <1>3, <1>4, <1>5, <1>6 DEF Admitted

\* A request resumes.
LEMMA ResumeKeepsAgreement ==
  ASSUME MarketInv, NEW h \in Handlers, SequentialInv(h), Resume(h)
  PROVE  SequentialInv(h)' /\ StaysFinal
<1> DEFINE r == Refreshed(h)
           op == req[h].op
           c == [Idle EXCEPT !.op = op, !.submission = r.submission]
<1>1. Engine \in Procs /\ h \in Procs /\ h # Engine
  BY MarketConstants DEF Procs
<1>2. req[h].pc = "refresh" /\ op \in ApiRequests /\ req \in [Procs -> Continuations]
  BY <1>1 DEF Resume, MarketInv, RouterTypeOK, RequestsInv, Stage
<1>3. UNCHANGED chain /\ ChainInv /\ Onchain' = Onchain /\ Anchored' = Anchored
  BY ChainStays DEF Resume, SequentialInv
<1>4. \/ task' = r /\ Finish(h)
      \/ /\ Guard(op, r)
         /\ FirstCall(op, r) # NoCall
         /\ task' = Prepared(op, r)
         /\ Continue(h, [c EXCEPT !.pc = "write", !.call = FirstCall(op, r)])
      \/ /\ op = "advise"
         /\ task' = r
         /\ Continue(h, [c EXCEPT !.pc = "evaluate"])
      \/ /\ Guard(op, r)
         /\ op = "accept"
         /\ task' = Accepted(Picked(r), r.status = "OPEN")
         /\ Finish(h)
  BY DEF Resume
<1>5. c.op = op /\ c.submission = r.submission /\ c.call = NoCall
  BY DEF Idle
<1>6. /\ r \in TaskRecords({Submission})
      /\ r.history = task.history /\ r.dispute = task.dispute
      /\ Agrees(r.status, Onchain)
      /\ r.status = "REJECTED" => task.status = "REJECTED" \/ Anchored = Submission
      /\ r.status = "APPROVED" => task.status = "APPROVED" \/ Onchain # "DISPUTED"
      /\ isTerminalTaskStatus(task.status) => r.status = task.status
      /\ r.status \in {"SUBMITTED", "UNDER_REVIEW"} =>
           task.status \in {"SUBMITTED", "UNDER_REVIEW"} \/ Anchored = Submission
  BY <1>2, RefreshAgrees
<1> HIDE DEF r
<1>7. ASSUME NEW d, Continue(h, d), HandlerInv(h)',
             task'.history = r.history, task'.dispute = r.dispute,
             \/ task'.status = r.status
             \/ /\ r.status \notin {"SETTLED", "REFUNDED"}
                /\ task'.status \in {"OPEN", "ASSIGNED", "APPEALED"}
      PROVE  SequentialInv(h)' /\ StaysFinal
  <2>1. req'[Engine] = req[Engine]
    BY <1>1, <1>2, <1>7 DEF Continue
  <2>2. StaysFinal
    BY <1>6, <1>7 DEF StaysFinal, isTerminalTaskStatus
  <2> QED
    BY <1>2, <1>3, <1>6, <1>7, <2>1, <2>2, QuietStep
<1>8. ASSUME NEW d, Continue(h, d)
      PROVE  req'[h] = d
  BY <1>1, <1>2, <1>8 DEF Continue
<1>9. Idle.pc = "idle" /\ Idle.op = "none"
  BY DEF Idle
<1>10. CASE task' = r /\ Finish(h)
  <2>1. HandlerInv(h)'
    BY <1>3, <1>6, <1>8, <1>9, <1>10, HandlerIdle DEF Finish
  <2> QED
    BY <1>7, <1>10, <2>1 DEF Finish
<1>11. CASE /\ Guard(op, r)
            /\ FirstCall(op, r) # NoCall
            /\ task' = Prepared(op, r)
            /\ Continue(h, [c EXCEPT !.pc = "write", !.call = FirstCall(op, r)])
  <2> DEFINE call == FirstCall(op, r)
             d == [c EXCEPT !.pc = "write", !.call = call]
  <2>1. d.pc = "write" /\ d.op = op /\ d.call = call /\ d.submission = r.submission
    BY <1>5 DEF Idle
  <2>2. call # "finalize_review" /\ (op = "appeal" => call = "appeal_task")
    BY <1>2 DEF FirstCall, AssignCall, ApiRequests, NoCall
  <2>3. req'[h] = d
    BY <1>8, <1>11
  <2> HIDE DEF call, d
  <2>4. /\ task'.history = r.history /\ task'.dispute = r.dispute
        /\ task'.status = IF op = "appeal" THEN "APPEALED" ELSE r.status
        /\ op = "appeal" => r.status \in {"DISPUTED", "REJECTED", "UNRESOLVED"}
    <3>1. CASE op = "appeal"
      <4>1. task' = AppealOpened(r) /\ r.status \in {"DISPUTED", "REJECTED", "UNRESOLVED"}
        BY <1>11, <3>1 DEF Prepared, Guard, MayAppeal
      <4>2. Passes(r.status, "APPEALED")
        BY <4>1 DEF Passes, canTransitionTaskStatus, taskStatusTransitions
      <4> QED
        BY <1>6, <3>1, <4>1, <4>2, ReviewEffect DEF SameStanding
    <3>2. CASE op = "accept"
      <4>1. task' = Picked(r)
        BY <1>11, <3>2 DEF Prepared
      <4> QED
        BY <1>6, <3>2, <4>1 DEF Picked, Joined, TaskRecords
    <3>3. CASE op \notin {"appeal", "accept"}
      BY <1>11, <3>3 DEF Prepared
    <3> QED
      BY <3>1, <3>2, <3>3
  <2>5. Admitted(d, task')
    <3> HIDE DEF op
    <3> QED
      BY <1>2, <1>11, <2>1, <2>4, GuardAdmits
  <2>6. Agrees(task'.status, Onchain')
    BY <1>3, <1>6, <2>4 DEF Agrees, Unreviewed, Underway
  <2>7. HandlerInv(h)'
    BY <2>1, <2>2, <2>3, <2>5, <2>6 DEF HandlerInv
  <2> QED
    BY <1>7, <1>11, <2>4, <2>7 DEF d, call
<1>12. CASE /\ op = "advise"
            /\ task' = r
            /\ Continue(h, [c EXCEPT !.pc = "evaluate"])
  <2> DEFINE d == [c EXCEPT !.pc = "evaluate"]
  <2>1. d.pc = "evaluate" /\ d.op = "advise"
    BY <1>5, <1>12 DEF Idle
  <2>2. req'[h] = d
    BY <1>8, <1>12
  <2> HIDE DEF d
  <2>3. HandlerInv(h)'
    BY <1>3, <1>6, <1>12, <2>1, <2>2 DEF HandlerInv
  <2> QED
    BY <1>7, <1>12, <2>3 DEF d
<1>13. CASE /\ Guard(op, r)
            /\ op = "accept"
            /\ task' = Accepted(Picked(r), r.status = "OPEN")
            /\ Finish(h)
  <2>1. r.status \in {"OPEN", "ASSIGNED"}
    BY <1>13 DEF Guard, MayAccept
  <2>2. /\ Picked(r) \in TaskRecords({Submission}) /\ Picked(r).status = r.status
        /\ Picked(r).history = r.history /\ Picked(r).dispute = r.dispute
    BY <1>6 DEF Picked, Joined, TaskRecords
  <2>3. /\ task'.history = r.history /\ task'.dispute = r.dispute
        /\ task'.status \in {r.status, "ASSIGNED"}
    <3> DEFINE m == Picked(r)
               wasOpen == r.status = "OPEN"
    <3>1. wasOpen \in BOOLEAN /\ task' = Accepted(m, wasOpen)
      BY <1>13
    <3>2. /\ m \in TaskRecords({Submission}) /\ m.status = r.status
          /\ m.history = r.history /\ m.dispute = r.dispute
      BY <2>2
    <3> HIDE DEF m, wasOpen
    <3> QED
      BY <3>1, <3>2, AcceptEffect DEF SameStanding
  <2>4. Agrees(task'.status, Onchain')
    BY <1>3, <1>6, <2>1, <2>3, EarlyAgrees DEF ChainInv, Unreviewed
  <2>5. HandlerInv(h)'
    BY <1>8, <1>9, <1>13, <2>4, HandlerIdle DEF Finish
  <2> QED
    BY <1>7, <1>13, <2>1, <2>3, <2>5 DEF Finish
<1> QED
  BY <1>4, <1>10, <1>11, <1>12, <1>13

\* The status each answer leaves, where the proofs so far did not need it.
LEMMA DecisionStatus ==
  ASSUME NEW S, NEW r \in TaskRecords(S)
  PROVE  /\ Accepted(r, TRUE).status = IF Passes(r.status, "ASSIGNED") THEN "ASSIGNED" ELSE r.status
         /\ Approved(r).status = IF Passes(r.status, "APPROVED") THEN "APPROVED" ELSE r.status
         /\ Rejected(r).status = IF Passes(r.status, "REJECTED") THEN "REJECTED" ELSE r.status
         /\ Cancelled(r).status = IF Passes(r.status, "CANCELLED") THEN "CANCELLED" ELSE r.status
BY DEF Accepted, Approved, Rejected, Cancelled, Proceed, Move, TaskRecords

\* One receipt more than none.
LEMMA FirstReceipt ==
  ASSUME NEW r \in TaskRecords({Submission}), NEW kind \in Receipts,
         NEW m, m.history = Recorded(r, kind).history
  PROVE  /\ PaidIn(r) \in Nat /\ RefundedIn(r) \in Nat
         /\ kind = "paused" => PaidIn(m) = PaidIn(r) /\ RefundedIn(m) = RefundedIn(r)
         /\ PaidIn(r) + RefundedIn(r) = 0 /\ kind \in {"paid", "admin_paid"} =>
              PaidIn(m) = 1 /\ RefundedIn(m) = 0
         /\ PaidIn(r) + RefundedIn(r) = 0 /\ kind \in {"refunded", "admin_refunded"} =>
              PaidIn(m) = 0 /\ RefundedIn(m) = 1
<1>1. r.history \in [Receipts -> 0 .. 2]
  BY DEF TaskRecords, Several
<1>2. /\ m.history[kind] = IF r.history[kind] = 2 THEN 2 ELSE r.history[kind] + 1
      /\ \A k \in Receipts \ {kind} : m.history[k] = r.history[k]
  BY RecordedEffect DEF Several
<1>3. /\ r.history["paid"] \in 0 .. 2 /\ r.history["admin_paid"] \in 0 .. 2
      /\ r.history["refunded"] \in 0 .. 2 /\ r.history["admin_refunded"] \in 0 .. 2
      /\ {"paid", "admin_paid", "refunded", "admin_refunded", "paused"} = Receipts
  BY <1>1 DEF Receipts
<1>4. PaidIn(r) \in Nat /\ RefundedIn(r) \in Nat
  BY <1>3 DEF PaidIn, RefundedIn
<1>5. PaidIn(r) + RefundedIn(r) = 0 =>
        /\ r.history["paid"] = 0 /\ r.history["admin_paid"] = 0
        /\ r.history["refunded"] = 0 /\ r.history["admin_refunded"] = 0
  BY <1>3 DEF PaidIn, RefundedIn
<1>6. CASE kind = "paused"
  <2>1. /\ m.history["paid"] = r.history["paid"] /\ m.history["admin_paid"] = r.history["admin_paid"]
        /\ m.history["refunded"] = r.history["refunded"] /\ m.history["admin_refunded"] = r.history["admin_refunded"]
    BY <1>2, <1>3, <1>6
  <2> QED
    BY <1>3, <1>4, <1>5, <1>6, <2>1 DEF PaidIn, RefundedIn
<1>7. CASE kind = "paid"
  <2>1. /\ m.history["paid"] = IF r.history["paid"] = 2 THEN 2 ELSE r.history["paid"] + 1
        /\ m.history["admin_paid"] = r.history["admin_paid"] /\ m.history["refunded"] = r.history["refunded"]
        /\ m.history["admin_refunded"] = r.history["admin_refunded"]
    BY <1>2, <1>3, <1>7
  <2> QED
    BY <1>3, <1>4, <1>5, <1>7, <2>1 DEF PaidIn, RefundedIn
<1>8. CASE kind = "admin_paid"
  <2>1. /\ m.history["admin_paid"] = IF r.history["admin_paid"] = 2 THEN 2 ELSE r.history["admin_paid"] + 1
        /\ m.history["paid"] = r.history["paid"] /\ m.history["refunded"] = r.history["refunded"]
        /\ m.history["admin_refunded"] = r.history["admin_refunded"]
    BY <1>2, <1>3, <1>8
  <2> QED
    BY <1>3, <1>4, <1>5, <1>8, <2>1 DEF PaidIn, RefundedIn
<1>9. CASE kind = "refunded"
  <2>1. /\ m.history["refunded"] = IF r.history["refunded"] = 2 THEN 2 ELSE r.history["refunded"] + 1
        /\ m.history["paid"] = r.history["paid"] /\ m.history["admin_paid"] = r.history["admin_paid"]
        /\ m.history["admin_refunded"] = r.history["admin_refunded"]
    BY <1>2, <1>3, <1>9
  <2> QED
    BY <1>3, <1>4, <1>5, <1>9, <2>1 DEF PaidIn, RefundedIn
<1>10. CASE kind = "admin_refunded"
  <2>1. /\ m.history["admin_refunded"] = IF r.history["admin_refunded"] = 2 THEN 2 ELSE r.history["admin_refunded"] + 1
        /\ m.history["paid"] = r.history["paid"] /\ m.history["admin_paid"] = r.history["admin_paid"]
        /\ m.history["refunded"] = r.history["refunded"]
    BY <1>2, <1>3, <1>10
  <2> QED
    BY <1>3, <1>4, <1>5, <1>10, <2>1 DEF PaidIn, RefundedIn
<1> QED
  BY <1>3, <1>6, <1>7, <1>8, <1>9, <1>10

\* What an answered request leaves: agreement, and a receipt only for money
\* that has moved.
SoundAnswer(m) ==
  /\ Agrees(m.status, Onchain)
  /\ \/ PaidIn(m) = PaidIn(task) /\ RefundedIn(m) = RefundedIn(task)
     \/ Onchain = "SETTLED" /\ PaidIn(m) = 1 /\ RefundedIn(m) = 0
     \/ Onchain = "REFUNDED" /\ PaidIn(m) = 0 /\ RefundedIn(m) = 1
  /\ m.dispute = "open" => Onchain \in Reviewed /\ ~(Onchain = "DISPUTED" /\ m.status = "APPROVED")
  /\ m.status \in {"SUBMITTED", "UNDER_REVIEW"} => task.status = m.status
  /\ m.status = "REJECTED" => task.status = "REJECTED" \/ Anchored = Submission
  /\ isTerminalTaskStatus(task.status) => m.status = task.status

\* Answers that concern a task not submitted yet.
LEMMA EarlyAnswer ==
  ASSUME MarketInv, NEW h \in Handlers, SequentialInv(h), req[h].pc = "mined",
         req[h].call \in Contested,
         req[h].op \in {"accept", "auto", "cancel"}
  PROVE  SoundAnswer(Effect(req[h], task))
<1> DEFINE c == req[h]
           m == Effect(c, task)
<1>1. task \in TaskRecords({Submission}) /\ task.status \in TaskStatuses
  BY DEF MarketInv, RouterTypeOK, TaskRecords
<1>2. Agrees(task.status, Onchain) /\ Onchain \notin {"ESCROW_FUNDED", "UNDER_REVIEW"}
  BY DEF SequentialInv, HandlerInv, ChainInv, Executed
<1>3. /\ SameStanding(m, task)
      /\ \/ m.status = task.status
         \/ /\ task.status \in {"CREATED", "OPEN", "ASSIGNED"}
            /\ m.status \in {"ASSIGNED", "CANCELLED"}
  <2>1. CASE c.op = "accept"
    <3>1. m = Accepted(task, TRUE)
      BY <2>1 DEF Effect
    <3>2. Passes(task.status, "ASSIGNED") => task.status \in {"OPEN", "ASSIGNED"}
      BY <1>1 DEF Passes, canTransitionTaskStatus, taskStatusTransitions, TaskStatuses
    <3> QED
      <4>1. SameStanding(m, task)
        BY <1>1, <3>1, AcceptEffect
      <4>2. m.status = IF Passes(task.status, "ASSIGNED") THEN "ASSIGNED" ELSE task.status
        BY <1>1, <3>1, DecisionStatus
      <4> QED
        BY <3>2, <4>1, <4>2
  <2>2. CASE c.op = "auto"
    <3>1. m = AutoAssigned(task)
      BY <2>2 DEF Effect
    <3> QED
      BY <1>1, <3>1, AutoEffect
  <2>3. CASE c.op = "cancel"
    <3>1. m = Cancelled(task)
      BY <2>3 DEF Effect
    <3>2. Passes(task.status, "CANCELLED") =>
            task.status \in {"CREATED", "OPEN", "ASSIGNED", "CANCELLED"}
      BY <1>1 DEF Passes, canTransitionTaskStatus, taskStatusTransitions, TaskStatuses
    <3> QED
      BY ZenonT(40), <1>1, <3>1, <3>2, DecisionEffect, DecisionStatus
  <2> QED
    BY <2>1, <2>2, <2>3
<1> HIDE DEF m
<1>4. Agrees(m.status, Onchain)
  BY <1>2, <1>3, EarlyAgrees DEF Unreviewed
<1>5. task.dispute = "open" =>
        Onchain \in Reviewed /\ ~(Onchain = "DISPUTED" /\ task.status = "APPROVED")
  BY DEF SequentialInv, DisputeInv
<1> QED
  BY <1>3, <1>4, <1>5
     DEF m, SoundAnswer, SameStanding, PaidIn, RefundedIn, isTerminalTaskStatus

\* Answers to a decision, an appeal's outcome and a dispute.
LEMMA ReviewAnswer ==
  ASSUME MarketInv, NEW h \in Handlers, SequentialInv(h), req[h].pc = "mined",
         \/ req[h].op = "approve" /\ req[h].call = "approve_submission"
         \/ req[h].op = "reject" /\ req[h].call = "reject_submission"
         \/ req[h].op = "appeal" /\ req[h].call = "finalize_review"
         \/ req[h].op = "dispute" /\ req[h].call = "dispute_task"
  PROVE  SoundAnswer(Effect(req[h], task))
<1> DEFINE c == req[h]
           m == Effect(c, task)
<1>1. /\ task \in TaskRecords({Submission}) /\ task.status \in TaskStatuses
      /\ h \in Procs /\ c \in Continuations /\ Stage(h, c)
  BY DEF Procs, MarketInv, RouterTypeOK, RequestsInv, TaskRecords
<1>2. Executed(c, task, Onchain) /\ Admitted(c, task)
  BY DEF SequentialInv, HandlerInv
<1>3. Onchain \in Reviewed => Anchored = Submission
  BY DEF SequentialInv, ChainInv
<1>4. CASE c.op \in {"approve", "reject"}
  <2> DEFINE s == IF c.op = "approve" THEN "APPROVED" ELSE "REJECTED"
  <2>1. Onchain = s /\ task.status \in {"SUBMITTED", "UNDER_REVIEW"}
    BY <1>2, <1>4 DEF Executed, Admitted
  <2>2. m = IF c.op = "approve" THEN Approved(task) ELSE Rejected(task)
    BY <1>4 DEF Effect
  <2>3. Passes(task.status, s)
    BY <2>1 DEF Passes, canTransitionTaskStatus, taskStatusTransitions
  <2>4. SameStanding(m, task) /\ m.status = s
    BY ZenonT(40), <1>1, <1>4, <2>2, <2>3, DecisionEffect, DecisionStatus
  <2> QED
    BY <1>3, <2>1, <2>4
       DEF SoundAnswer, SameStanding, PaidIn, RefundedIn, isTerminalTaskStatus, Agrees, Reviewed
<1>5. CASE c.op = "appeal" /\ c.call = "finalize_review"
  <2> DEFINE outcome == c.outcome
  <2>1. outcome \in ConsensusOutcomes
    BY <1>1, <1>5 DEF Stage, NoCall
  <2>2. m = ConsensusApplied(task, outcome)
    BY <1>5 DEF Effect
  <2>3. Onchain = Verdict[outcome] /\ task.status = "APPEALED"
    BY <1>2, <1>5 DEF Executed, Admitted
  <2> HIDE DEF outcome
  <2>4. /\ Verdict[outcome] \in {"APPROVED", "REJECTED", "DISPUTED", "UNRESOLVED"}
        /\ outcome = "disputed" => Verdict[outcome] = "DISPUTED"
    BY <2>1 DEF Verdict, ConsensusOutcomes
  <2>5. Passes(task.status, Verdict[outcome])
    BY <2>3, <2>4 DEF Passes, canTransitionTaskStatus, taskStatusTransitions
  <2>6. /\ m.history = task.history /\ m.status = Onchain
        /\ m.dispute = "open" => Onchain = "DISPUTED" \/ task.dispute = "open"
    BY <1>1, <2>1, <2>2, <2>3, <2>4, <2>5, ConsensusEffect
  <2> HIDE DEF m
  <2> QED
    BY <1>3, <2>3, <2>4, <2>6
       DEF m, SoundAnswer, PaidIn, RefundedIn, isTerminalTaskStatus, Agrees, Reviewed
<1>6. CASE c.op = "dispute"
  <2>1. /\ Onchain = "DISPUTED" /\ task.dispute # "open"
        /\ task.status \in {"SUBMITTED", "UNDER_REVIEW", "REJECTED", "APPROVED"}
    BY <1>2, <1>6 DEF Executed, Admitted
  <2>2. m = DisputeOpened(task)
    BY <1>6 DEF Effect
  <2>3. Passes(task.status, "DISPUTED") <=> task.status # "APPROVED"
    BY <2>1 DEF Passes, canTransitionTaskStatus, taskStatusTransitions
  <2>4. /\ m.history = Recorded(task, "paused").history
        /\ IF task.status = "APPROVED" THEN m.status = "APPROVED" /\ m.dispute = task.dispute
           ELSE m.status = "DISPUTED" /\ m.dispute = "open"
    BY <1>1, <2>1, <2>2, <2>3, SettlementEffect
  <2> HIDE DEF m
  <2>5. PaidIn(m) = PaidIn(task) /\ RefundedIn(m) = RefundedIn(task)
    BY <1>1, <2>4, FirstReceipt DEF Receipts
  <2> QED
    BY <1>3, <2>1, <2>4, <2>5 DEF m, SoundAnswer, isTerminalTaskStatus, Agrees, Reviewed
<1> QED
  BY <1>4, <1>5, <1>6

\* Answers to a transaction that released the escrow.
LEMMA ReleaseAnswer ==
  ASSUME MarketInv, NEW h \in Handlers, SequentialInv(h), req[h].pc = "mined",
         \/ req[h].op \in {"settle", "resolve_paid"} /\ req[h].call = "settle_task"
         \/ req[h].op \in {"refund", "resolve_refund"} /\ req[h].call = "refund_task"
  PROVE  SoundAnswer(Effect(req[h], task))
<1> DEFINE c == req[h]
           m == Effect(c, task)
<1>1. task \in TaskRecords({Submission}) /\ task.status \in TaskStatuses
  BY DEF MarketInv, RouterTypeOK, TaskRecords
<1>2. Executed(c, task, Onchain) /\ Admitted(c, task)
  BY DEF SequentialInv, HandlerInv
<1>3. PaidIn(task) + RefundedIn(task) = 0
  BY <1>2 DEF Executed
<1>4. /\ "paid" \in Receipts /\ "refunded" \in Receipts
      /\ "admin_paid" \in Receipts /\ "admin_refunded" \in Receipts
  BY DEF Receipts
<1>5. CASE c.op = "settle"
  <2>1. Onchain = "SETTLED" /\ task.status = "APPROVED" /\ task.dispute # "open"
    BY <1>2, <1>5 DEF Executed, Admitted
  <2>2. m = Settled(task)
    BY <1>5 DEF Effect
  <2>3. Passes(task.status, "SETTLED")
    BY <2>1 DEF Passes, canTransitionTaskStatus, taskStatusTransitions
  <2>4. /\ m.status = "SETTLED" /\ m.dispute = task.dispute
        /\ m.history = Recorded(task, "paid").history
    BY <1>1, <2>2, <2>3, SettlementEffect
  <2> HIDE DEF m
  <2>5. PaidIn(m) = 1 /\ RefundedIn(m) = 0
    BY <1>1, <1>3, <1>4, <2>4, FirstReceipt
  <2> QED
    BY <2>1, <2>4, <2>5 DEF m, SoundAnswer, isTerminalTaskStatus, Agrees
<1>6. CASE c.op = "refund"
  <2>1. /\ Onchain = "REFUNDED" /\ task.status \in {"REJECTED", "CANCELLED"}
        /\ task.dispute # "open"
    BY <1>2, <1>6 DEF Executed, Admitted
  <2>2. m = Refunded(task)
    BY <1>6 DEF Effect
  <2>3. Passes(task.status, "REFUNDED")
    BY <2>1 DEF Passes, canTransitionTaskStatus, taskStatusTransitions
  <2>4. /\ m.status = "REFUNDED" /\ m.dispute = task.dispute
        /\ m.history = Recorded(task, "refunded").history
    BY <1>1, <2>2, <2>3, SettlementEffect
  <2> HIDE DEF m
  <2>5. PaidIn(m) = 0 /\ RefundedIn(m) = 1
    BY <1>1, <1>3, <1>4, <2>4, FirstReceipt
  <2> QED
    BY <2>1, <2>4, <2>5 DEF m, SoundAnswer, isTerminalTaskStatus, Agrees
<1>7. CASE c.op = "resolve_paid"
  <2>1. Onchain = "SETTLED" /\ task.status = "APPROVED" /\ task.dispute = "open"
    BY <1>2, <1>7 DEF Executed, Admitted
  <2>2. m = AdminResolved(task, TRUE)
    BY <1>7 DEF Effect
  <2>3. PassesAsResolution(task.status, "APPROVED") /\ PassesAsResolution(task.status, "SETTLED")
    BY <2>1 DEF PassesAsResolution, Passes, canTransitionTaskStatus, taskStatusTransitions
  <2>4. /\ m.status = "SETTLED" /\ m.dispute = "resolved"
        /\ m.history = Recorded(task, "admin_paid").history
    BY ZenonT(40), <1>1, <2>1, <2>2, <2>3, ResolutionEffect
  <2> HIDE DEF m
  <2>5. PaidIn(m) = 1 /\ RefundedIn(m) = 0
    BY <1>1, <1>3, <1>4, <2>4, FirstReceipt
  <2> QED
    BY <2>1, <2>4, <2>5 DEF m, SoundAnswer, isTerminalTaskStatus, Agrees
<1>8. CASE c.op = "resolve_refund"
  <2>1. /\ Onchain = "REFUNDED" /\ task.dispute = "open"
        /\ task.status \in {"REJECTED", "DISPUTED", "APPEALED", "UNRESOLVED"}
    BY <1>2, <1>8 DEF Executed, Admitted, Reviewed
  <2>2. m = AdminResolved(task, FALSE)
    BY <1>8 DEF Effect
  <2>3. /\ PassesAsResolution(task.status, "REJECTED")
        /\ PassesAsResolution(task.status, "REFUNDED") <=>
             task.status \in {"REJECTED", "DISPUTED"}
    BY <2>1 DEF PassesAsResolution, Passes, canTransitionTaskStatus, taskStatusTransitions
  <2>4. /\ m.dispute = "resolved"
        /\ m.history = Recorded(task, "admin_refunded").history
        /\ m.status = IF task.status \in {"REJECTED", "DISPUTED"} THEN "REFUNDED" ELSE task.status
    <3>1. /\ m.history = Recorded(task, "admin_refunded").history
          /\ m.dispute = IF PassesAsResolution(task.status, "REJECTED") /\ task.dispute # "none"
                         THEN "resolved" ELSE task.dispute
          /\ m.status = IF /\ PassesAsResolution(task.status, "REJECTED")
                           /\ PassesAsResolution(task.status, "REFUNDED")
                        THEN "REFUNDED" ELSE task.status
      <4>1. ASSUME NEW paid \in BOOLEAN, ~paid
            PROVE  LET n == AdminResolved(task, paid)
                   IN  /\ n.history = Recorded(task, "admin_refunded").history
                       /\ n.dispute = IF /\ PassesAsResolution(task.status, "REJECTED")
                                         /\ task.dispute # "none"
                                      THEN "resolved" ELSE task.dispute
                       /\ n.status = IF /\ PassesAsResolution(task.status, "REJECTED")
                                        /\ PassesAsResolution(task.status, "REFUNDED")
                                     THEN "REFUNDED" ELSE task.status
        BY <1>1, <4>1, ResolutionEffect
      <4> QED
        BY <2>2, <4>1, ZenonT(30)
    <3> HIDE DEF m
    <3> QED
      BY <2>1, <2>3, <3>1
  <2> HIDE DEF m
  <2>5. PaidIn(m) = 0 /\ RefundedIn(m) = 1
    BY <1>1, <1>3, <1>4, <2>4, FirstReceipt
  <2> QED
    BY <2>1, <2>4, <2>5 DEF m, SoundAnswer, isTerminalTaskStatus, Agrees
<1> QED
  BY <1>5, <1>6, <1>7, <1>8

\* The answer ends the request.
LEMMA AnswerStep ==
  ASSUME MarketInv, NEW h \in Handlers, SequentialInv(h), UNCHANGED chain,
         SoundAnswer(task'), req' = [req EXCEPT ![h] = Idle]
  PROVE  SequentialInv(h)' /\ StaysFinal
<1>1. req \in [Procs -> Continuations] /\ h \in Procs /\ Engine \in Procs /\ h # Engine
  BY MarketConstants DEF MarketInv, RouterTypeOK, Procs
<1>2. /\ req'[h] = Idle /\ req'[Engine] = req[Engine]
      /\ Idle.pc = "idle" /\ Idle.op = "none"
  BY <1>1 DEF Idle
<1>3. Onchain' = Onchain /\ Anchored' = Anchored
  BY ChainStays DEF SequentialInv
<1>4. HandlerInv(h)'
  BY <1>2, <1>3, HandlerIdle DEF SoundAnswer
<1>5. ReceiptInv'
  BY <1>3 DEF SoundAnswer, ReceiptInv, SequentialInv
<1>6. DisputeInv(h)' /\ StaysFinal
  BY <1>3 DEF SoundAnswer, DisputeInv, StaysFinal
<1> QED
  BY <1>2, <1>4, <1>5, <1>6, LocalStep DEF SoundAnswer

\* A mined transaction is answered, or an appeal goes on to the evaluator.
LEMMA CompleteKeeps ==
  ASSUME MarketInv, NEW h \in Handlers, SequentialInv(h), Complete(h)
  PROVE  SequentialInv(h)' /\ StaysFinal
<1> DEFINE c == req[h]
<1>1. req \in [Procs -> Continuations] /\ h \in Procs /\ Engine \in Procs /\ h # Engine
  BY MarketConstants DEF MarketInv, RouterTypeOK, Procs
<1>2. c \in Continuations /\ Stage(h, c) /\ c.pc = "mined" /\ UNCHANGED chain
  BY <1>1 DEF MarketInv, RequestsInv, Complete
<1>3. c.op \notin {"start", "submit"} /\ c.call \in CallsOf[c.op] /\ c.op \in ApiRequests \cup {"auto"}
  <2>1. c.op \notin {"start", "submit"} /\ c.call \in CallsOf[c.op]
    BY <1>1, <1>2 DEF Stage
  <2>2. c.op # "none"
    BY <1>2, <2>1, CallOps
  <2> QED
    BY <1>2, <2>1, <2>2 DEF Continuations
<1>4. /\ c.op = "appeal" => c.call \in {"appeal_task", "finalize_review"}
      /\ c.op = "appeal" => task.status = "APPEALED"
      /\ Executed(c, task, Onchain) /\ Admitted(c, task)
  BY <1>2, <1>3, CallOps DEF SequentialInv, HandlerInv, Admitted
<1>5. CASE c.call = "appeal_task"
  <2> DEFINE d == [c EXCEPT !.pc = "evaluate", !.call = NoCall]
  <2>1. Continue(h, d) /\ UNCHANGED task
    BY <1>5 DEF Complete, NextCall, NoCall
  <2>2. c.op = "appeal" /\ Onchain = "APPEALED"
    BY <1>2, <1>3, <1>4, <1>5, CallOps DEF Executed
  <2>3. /\ req'[h] = d /\ req'[Engine] = req[Engine]
        /\ d.pc = "evaluate" /\ d.op = "appeal" /\ d.call = NoCall
        /\ d.submission = c.submission
    BY <1>1, <1>2, <2>1, <2>2 DEF Continue, Continuations
  <2> HIDE DEF d
  <2>4. Admitted(d, task')
    BY <1>4, <2>1, <2>2, <2>3 DEF Admitted
  <2>5. Onchain' = Onchain
    BY <1>2, ChainStays DEF SequentialInv
  <2>6. Agrees(task'.status, Onchain')
    BY <1>4, <2>1, <2>2, <2>5 DEF Agrees
  <2>7. HandlerInv(h)'
    BY <2>2, <2>3, <2>4, <2>5, <2>6 DEF HandlerInv
  <2>8. ReceiptInv' /\ DisputeInv(h)' /\ StaysFinal
    BY <2>1, <2>2, <2>5 DEF SequentialInv, ReceiptInv, DisputeInv, StaysFinal, Reviewed
  <2> QED
    BY <1>2, <2>1, <2>3, <2>7, <2>8, LocalStep
<1>6. CASE c.call # "appeal_task"
  <2>1. NextCall(c) = NoCall
    <3>1. c.call = "finalize_review" => task.status = "APPEALED"
      BY <1>2, <1>3, <1>4, CallOps
    <3> QED
      BY <3>1 DEF NextCall
  <2>2. task' = Effect(c, task) /\ req' = [req EXCEPT ![h] = Idle]
    BY <1>6, <2>1 DEF Complete, Answer, Finish, Continue
  <2>3. \/ c.op \in {"accept", "auto", "cancel"} /\ c.call \in Contested
        \/ c.op = "approve" /\ c.call = "approve_submission"
        \/ c.op = "reject" /\ c.call = "reject_submission"
        \/ c.op = "appeal" /\ c.call = "finalize_review"
        \/ c.op = "dispute" /\ c.call = "dispute_task"
        \/ c.op \in {"settle", "resolve_paid"} /\ c.call = "settle_task"
        \/ c.op \in {"refund", "resolve_refund"} /\ c.call = "refund_task"
    BY <1>3, <1>4, <1>6 DEF CallsOf, ApiRequests, Contested
  <2>4. SoundAnswer(Effect(c, task))
    BY <1>2, <2>3, EarlyAnswer, ReviewAnswer, ReleaseAnswer
  <2> QED
    BY <1>2, <2>2, <2>4, AnswerStep
<1> QED
  BY <1>5, <1>6

\* The browser's synchronisation moves a draft on, and may dispatch a built-in
\* agent at once.
LEMMA SyncKeepsAgreement ==
  ASSUME MarketInv, NEW h \in Handlers, SequentialInv(h),
         NEW funding \in BOOLEAN, NEW assignment \in BOOLEAN,
         syncTaskWithChain(h, funding, assignment)
  PROVE  SequentialInv(h)' /\ StaysFinal
<1> DEFINE r == Synced(task, funding, assignment)
           c == [Idle EXCEPT !.op = "auto"]
<1>1. req \in [Procs -> Continuations] /\ h \in Procs /\ Engine \in Procs /\ h # Engine
  BY MarketConstants DEF MarketInv, RouterTypeOK, Procs
<1>2. UNCHANGED chain /\ req[h].pc = "idle" /\ req[h] \in Continuations /\ Stage(h, req[h])
  BY <1>1 DEF syncTaskWithChain, MarketInv, RequestsInv
<1>3. /\ task \in TaskRecords({Submission}) /\ task.status \in TaskStatuses
      /\ Agrees(task.status, Onchain) /\ ChainInv
      /\ req[h].op = "appeal" => req[h].call \in {NoCall, "appeal_task", "finalize_review"}
  BY <1>2 DEF MarketInv, RouterTypeOK, TaskRecords, SequentialInv, HandlerInv
<1>4. Onchain' = Onchain /\ Anchored' = Anchored
  BY <1>2, <1>3, ChainStays
<1>5. /\ r \in TaskRecords({Submission})
      /\ r.history = task.history /\ r.dispute = task.dispute
      /\ \/ r.status = task.status
         \/ task.status = "CREATED" /\ r.status \in {"OPEN", "ASSIGNED"}
  BY <1>3, SyncEffect
<1>6. \/ task' = r /\ UNCHANGED req
      \/ /\ task' = Picked(r)
         /\ Continue(h, [c EXCEPT !.pc = "write", !.call = "assign_task"])
      \/ task' = Effect(c, r) /\ Continue(h, Idle)
  BY DEF syncTaskWithChain, Answer, Finish
<1>7. c.op = "auto"
  BY DEF Idle
<1> HIDE DEF r
<1>8. /\ task'.history = task.history /\ task'.dispute = task.dispute
      /\ \/ task'.status = task.status
         \/ /\ task.status \in {"CREATED", "OPEN"}
            /\ task'.status \in {"OPEN", "ASSIGNED"}
  <2>1. CASE task' = r
    BY <1>5, <2>1
  <2>2. CASE task' = Picked(r)
    <3>1. task'.history = r.history /\ task'.dispute = r.dispute /\ task'.status = r.status
      BY <1>5, <2>2 DEF Picked, Joined, TaskRecords
    <3> QED
      BY <1>5, <3>1
  <2>3. CASE task' = Effect(c, r)
    <3>1. task' = AutoAssigned(r)
      BY <1>7, <2>3 DEF Effect
    <3>2. /\ task'.history = r.history /\ task'.dispute = r.dispute
          /\ task'.status = IF r.status = "OPEN" THEN "ASSIGNED" ELSE r.status
      BY <1>5, <3>1, AutoEffect DEF SameStanding
    <3> QED
      BY <1>5, <3>2
  <2> QED
    BY <1>6, <2>1, <2>2, <2>3
<1>9. Agrees(task'.status, Onchain')
  <2>1. CASE task'.status = task.status
    BY <1>3, <1>4, <2>1
  <2>2. CASE task.status \in {"CREATED", "OPEN"} /\ task'.status \in {"OPEN", "ASSIGNED"}
    <3>1. task.status \in Unreviewed /\ task'.status \in Unreviewed
      BY <2>2 DEF Unreviewed
    <3>2. Onchain \notin {"ESCROW_FUNDED", "UNDER_REVIEW"}
      BY <1>3 DEF ChainInv
    <3> QED
      BY <1>3, <1>4, <3>1, <3>2, EarlyAgrees
  <2> QED
    BY <1>8, <2>1, <2>2
<1>10. ASSUME HandlerInv(h)', req'[Engine] = req[Engine]
       PROVE  SequentialInv(h)' /\ StaysFinal
  <2>1. StaysFinal
    BY <1>8 DEF StaysFinal, isTerminalTaskStatus
  <2> QED
    BY <1>2, <1>8, <1>10, <2>1, QuietStep
<1>11. CASE UNCHANGED req
  <2>1. HandlerInv(h)'
    BY <1>2, <1>3, <1>9, <1>11 DEF HandlerInv
  <2> QED
    BY <1>10, <1>11, <2>1
<1>12. CASE Continue(h, [c EXCEPT !.pc = "write", !.call = "assign_task"])
  <2> DEFINE d == [c EXCEPT !.pc = "write", !.call = "assign_task"]
  <2>1. d.pc = "write" /\ d.op = "auto" /\ d.call = "assign_task"
    BY DEF Idle
  <2>2. req'[h] = d /\ req'[Engine] = req[Engine]
    BY <1>1, <1>12 DEF Continue
  <2> HIDE DEF d
  <2>3. Admitted(d, task')
    BY <2>1 DEF Admitted
  <2>4. HandlerInv(h)'
    BY <1>9, <2>1, <2>2, <2>3 DEF HandlerInv
  <2> QED
    BY <1>10, <2>2, <2>4
<1>13. CASE Continue(h, Idle)
  <2>1. req'[h] = Idle /\ req'[Engine] = req[Engine] /\ Idle.pc = "idle" /\ Idle.op = "none"
    BY <1>1, <1>13 DEF Continue, Idle
  <2>2. HandlerInv(h)'
    BY <1>9, <2>1, HandlerIdle
  <2> QED
    BY <1>10, <2>1, <2>2
<1> QED
  BY <1>6, <1>11, <1>12, <1>13

-----------------------------------------------------------------------------
(* The handler's transactions. *)

\* An estimate that passed still holds when the transaction is mined, but for
\* an assignment and a cancellation, which the browser and the engine may come
\* before.  What is executed is what the guard admitted.
LEMMA MinedIsExecuted ==
  ASSUME MarketInv, NEW h \in Handlers, SequentialInv(h), Mine, Head(pending).by = h
  PROVE  LET c == Head(pending).tx
         IN  /\ c \in Continuations /\ c.call \in CallsOf[c.op] /\ c.op \notin {"start", "submit"}
             /\ c.call = req[h].call /\ c.op = req[h].op
             /\ c.submission = req[h].submission /\ c.outcome = req[h].outcome
             /\ req[h].pc = "sent" /\ Agrees(task.status, Onchain) /\ Admitted(c, task)
             /\ Call(c) \/ (c.call \in Contested /\ UNCHANGED chain)
             /\ c.op = "appeal" => c.call \in {"appeal_task", "finalize_review"}
             /\ c.call \in {"approve_submission", "reject_submission"} => Onchain = "SUBMITTED"
             /\ c.call = "finalize_review" =>
                  Onchain = "APPEALED" /\ c.outcome \in ConsensusOutcomes
             /\ UNCHANGED <<task, paused, run>>
<1> DEFINE c == Head(pending).tx
<1>1. /\ c \in Continuations /\ c.call = req[h].call /\ c.op = req[h].op
      /\ c.submission = req[h].submission /\ c.outcome = req[h].outcome
      /\ c.call \in CallsOf[c.op]
      /\ c.call = "finalize_review" => c.outcome \in ConsensusOutcomes
      /\ Stage(h, req[h])
      /\ Call(c) \/ (Reverts(c) /\ UNCHANGED chain)
      /\ UNCHANGED <<task, paused, run>>
  BY MinedCall DEF Procs
<1>2. req[h].pc = "sent" /\ h # Engine
  BY MineMoves, MarketConstants DEF MarketInv, Procs
<1> HIDE DEF c
<1>3. c.op \notin {"start", "submit"}
  BY <1>1, <1>2 DEF Stage
<1>4. /\ Agrees(task.status, Onchain) /\ Admitted(req[h], task)
      /\ req[h].op = "appeal" => req[h].call \in {NoCall, "appeal_task", "finalize_review"}
      /\ req[h].call = "finalize_review" => Onchain = "APPEALED"
      /\ req[h].call \notin Contested => Accepts(req[h])
      /\ ChainInv
  BY <1>2 DEF SequentialInv, HandlerInv
<1>5. Admitted(c, task)
  BY <1>1, <1>4 DEF Admitted
<1>6. c.op = "appeal" => c.call \in {"appeal_task", "finalize_review"}
  BY <1>1, <1>4, CallOps
<1>7. c.call \notin Contested => Call(c)
  <2>1. Accepts(req[h]) => Accepts(c)
    BY <1>1 DEF Accepts
  <2> QED
    BY <1>1, <1>4, <2>1 DEF Reverts
<1>8. ASSUME c.call \in {"approve_submission", "reject_submission"}
      PROVE  Onchain = "SUBMITTED"
  <2>1. c.op \in {"approve", "reject"}
    BY <1>1, <1>6, <1>8, CallOps
  <2>2. task.status \in {"SUBMITTED", "UNDER_REVIEW"} /\ c.submission # NoSubmission
    BY <1>5, <2>1 DEF Admitted
  <2>3. Anchored = c.submission
    BY <1>7, <1>8, CallEffect DEF MarketInv, Contested
  <2>4. Onchain \notin Underway \cup {"CANCELLED", "UNDER_REVIEW"}
    BY <1>4, <2>2, <2>3 DEF ChainInv
  <2> QED
    BY <1>4, <2>2, <2>4 DEF Agrees
<1> QED
  BY <1>1, <1>2, <1>3, <1>4, <1>5, <1>6, <1>7, <1>8 DEF c

\* What the executed transaction leaves to be answered.
LEMMA CallIsExecuted ==
  ASSUME MarketInv, NEW h \in Handlers, SequentialInv(h),
         NEW c \in Continuations, c.call \in CallsOf[c.op], Call(c), Admitted(c, task),
         req[h].pc = "sent", Agrees(task.status, Onchain),
         c.call = "finalize_review" => c.outcome \in ConsensusOutcomes
  PROVE  Executed(c, task, Onchain')
<1> USE DEF Executed
<1>1. Arc!TypeOK /\ ChainInv
  BY DEF MarketInv, SequentialInv
<1>2. CASE c.call \in {"approve_submission", "reject_submission", "dispute_task", "appeal_task",
                       "finalize_review"}
  BY <1>1, <1>2, CallEffect DEF Contested
<1>3. CASE c.call \in Contested
  <2>1. /\ Onchain \in Underway /\ task.status \in Unreviewed
        /\ Onchain' \in Underway \cup {"CANCELLED"}
    BY <1>1, <1>3, CallEffect DEF Contested, Agrees, Underway, Unreviewed
  <2> QED
    BY <1>3, <2>1 DEF Contested, Agrees
<1>4. PaidIn(task) \in Nat /\ RefundedIn(task) \in Nat
  <2>1. "paused" \in Receipts /\ task \in TaskRecords({Submission})
    BY DEF Receipts, MarketInv, RouterTypeOK
  <2> QED
    BY <2>1, FirstReceipt
<1>5. Onchain \notin {"SETTLED", "REFUNDED"} => PaidIn(task) + RefundedIn(task) = 0
  BY <1>4 DEF SequentialInv, ReceiptInv
<1>6. CASE c.call = "settle_task"
  <2>1. Onchain = "APPROVED" /\ Onchain' = "SETTLED"
    BY <1>1, <1>6, CallEffect
  <2>2. task.status = "APPROVED"
    BY <2>1 DEF Agrees, Underway
  <2> QED
    BY <1>5, <1>6, <2>1, <2>2 DEF Contested
<1>7. CASE c.call = "refund_task"
  <2>1. /\ Onchain \in {"CANCELLED", "REJECTED", "UNRESOLVED", "DISPUTED", "APPEALED"}
        /\ Onchain' = "REFUNDED"
    BY <1>1, <1>7, CallEffect
  <2>2. ASSUME c.op = "resolve_refund"
        PROVE  task.status \in Reviewed \ {"APPROVED"}
    <3>1. task.dispute = "open"
      BY <2>2 DEF Admitted
    <3>2. Onchain \in Reviewed /\ ~(Onchain = "DISPUTED" /\ task.status = "APPROVED")
      BY <3>1 DEF SequentialInv, DisputeInv
    <3> QED
      BY <2>1, <3>2 DEF Agrees, Underway, Reviewed
  <2> QED
    BY <1>5, <1>7, <2>1, <2>2 DEF Contested
<1>8. c.call \in ContractCalls
  BY CallOps DEF Continuations
<1> QED
  BY <1>2, <1>3, <1>6, <1>7, <1>8 DEF ContractCalls, Contested

\* The handler's own transaction, executed or reverted, keeps what the handler
\* relies on.
LEMMA MineKeepsAgreement ==
  ASSUME MarketInv, NEW h \in Handlers, SequentialInv(h), Mine, Head(pending).by = h
  PROVE  SequentialInv(h)' /\ StaysFinal
<1> DEFINE c == Head(pending).tx
           d == [req[h] EXCEPT !.pc = "mined"]
<1>1. /\ c \in Continuations /\ c.call \in CallsOf[c.op] /\ c.op \notin {"start", "submit"}
      /\ c.call = req[h].call /\ c.op = req[h].op
      /\ c.submission = req[h].submission /\ c.outcome = req[h].outcome
      /\ req[h].pc = "sent" /\ Agrees(task.status, Onchain) /\ Admitted(c, task)
      /\ Call(c) \/ (c.call \in Contested /\ UNCHANGED chain)
      /\ c.op = "appeal" => c.call \in {"appeal_task", "finalize_review"}
      /\ c.call \in {"approve_submission", "reject_submission"} => Onchain = "SUBMITTED"
      /\ c.call = "finalize_review" =>
           Onchain = "APPEALED" /\ c.outcome \in ConsensusOutcomes
      /\ UNCHANGED <<task, paused, run>>
  BY MinedIsExecuted
<1>2. req \in [Procs -> Continuations] /\ h \in Procs /\ Engine \in Procs /\ h # Engine
  BY MarketConstants DEF MarketInv, RouterTypeOK, Procs
<1>3. req' = [req EXCEPT ![h] = d]
  BY <1>2, MineMoves DEF MarketInv
<1>4. /\ req'[h] = d /\ req'[Engine] = req[Engine]
      /\ d.pc = "mined" /\ d.op = c.op /\ d.call = c.call
      /\ d.submission = c.submission /\ d.outcome = c.outcome
  BY <1>1, <1>2, <1>3 DEF Continuations
<1> HIDE DEF c, d
<1>5. ChainInv /\ Arc!TypeOK
  BY DEF MarketInv, SequentialInv
<1>6. c.call \notin {NoCall, "submit_task", "start_execution"} /\ c.call \in ContractCalls
  BY <1>1, CallOps DEF Continuations
<1>7. ChainInv' /\ Anchored' = Anchored
  BY <1>1, <1>5, <1>6, CallKeepsChain, CallEffect, ChainStays
<1>8. Executed(d, task', Onchain') /\ Admitted(d, task')
  <2>1. Executed(c, task, Onchain')
    <3>1. CASE Call(c)
      BY <1>1, <3>1, CallIsExecuted
    <3>2. CASE c.call \in Contested /\ UNCHANGED chain
      <4>1. Agrees(task.status, Onchain')
        BY <1>1, <1>5, <3>2, ChainStays
      <4> QED
        BY <3>2, <4>1 DEF Executed, Contested
    <3> QED
      BY <1>1, <3>1, <3>2
  <2> QED
    BY <1>1, <1>4, <2>1 DEF Executed, Admitted
<1>9. HandlerInv(h)'
  BY <1>1, <1>4, <1>8 DEF HandlerInv
<1>10. StartInv' /\ RejectedInv' /\ StaysFinal
  BY <1>1, <1>4, <1>7 DEF SequentialInv, StartInv, RejectedInv, StaysFinal
<1>11. Onchain \in {"SETTLED", "REFUNDED"} => Onchain' = Onchain
  BY <1>1, <1>5, <1>6, CallEffect, ChainStays DEF ContractCalls, Contested
<1>12. ReceiptInv'
  BY <1>1, <1>11 DEF SequentialInv, ReceiptInv
<1>13. DisputeInv(h)'
  <2>1. SUFFICES ASSUME task.dispute = "open", c.op \notin {"resolve_paid", "resolve_refund"}
                 PROVE  Onchain' \in Reviewed
    <3>1. ASSUME task.dispute = "open", Onchain' = "DISPUTED", task.status = "APPROVED"
          PROVE  FALSE
      <4>1. Onchain \in Reviewed /\ Onchain # "DISPUTED"
        BY <1>1, <3>1 DEF SequentialInv, DisputeInv
      <4>2. c.op # "dispute" /\ c.op # "appeal"
        BY <1>1, <3>1 DEF Admitted
      <4>3. c.call \notin {"dispute_task", "finalize_review"}
        BY <1>1, <4>2 DEF CallsOf, Continuations, ApiRequests
      <4>4. Call(c)
        BY <1>1, <1>5, <3>1, <4>1, ChainStays
      <4> QED
        BY <1>5, <1>6, <3>1, <4>3, <4>4, CallEffect DEF ContractCalls
    <3> QED
      BY <1>1, <1>4, <3>1 DEF DisputeInv
  <2>2. Onchain \in Reviewed
    BY <1>1, <2>1 DEF SequentialInv, DisputeInv
  <2>3. c.op \notin {"settle", "refund", "dispute"}
    BY <1>1, <2>1 DEF Admitted
  <2>4. c.call \in {"appeal_task", "finalize_review"} \cup Contested
    <3>1. c.call \notin {"approve_submission", "reject_submission"}
      BY <1>1, <2>2 DEF Reviewed
    <3>2. c.call \notin {"settle_task", "refund_task"}
      BY <1>1, <2>1, <2>3, CallOps
    <3>3. c.call # "dispute_task"
      BY <1>1, <2>3 DEF CallsOf, Continuations, ApiRequests
    <3> QED
      BY <1>6, <3>1, <3>2, <3>3 DEF ContractCalls, Contested
  <2> QED
    BY <1>1, <1>5, <2>2, <2>4, CallEffect, ChainStays
       DEF Contested, Reviewed, Verdict, ConsensusOutcomes
<1> QED
  BY <1>7, <1>9, <1>10, <1>12, <1>13 DEF SequentialInv

-----------------------------------------------------------------------------
(* What holds when the requests of a task come one after the other. *)

\* Every step of a market with one handler keeps what that handler relies on, and
\* takes no final status back.
LEMMA SequentialStep ==
  ASSUME NEW h, Handlers = {h}, MarketInv, Owned, SequentialInv(h), [Next]_vars
  PROVE  SequentialInv(h)' /\ StaysFinal
<1>1. h \in Handlers
  OBVIOUS
<1>2. ASSUME Aside(h)
      PROVE  SequentialInv(h)' /\ StaysFinal
  BY <1>1, <1>2, AsideKeeps
<1>3. ASSUME NEW p \in Procs, Advance(p)
      PROVE  SequentialInv(h)' /\ StaysFinal
  <2>1. p = h \/ p = Engine
    BY DEF Procs
  <2>2. CASE p = h
    BY <1>1, <1>3, <2>2, WaitKeeps, CompleteKeeps, ResumeKeepsAgreement, EvaluateKeeps
       DEF Advance
  <2>3. CASE p = Engine
    <3>1. Engine \notin Handlers
      BY MarketConstants
    <3>2. Aside(h)
      BY <1>1, <1>3, <2>3, <3>1, EngineIsAside, ReportIsAside DEF Advance
    <3> QED
      BY <1>2, <3>2
  <2> QED
    BY <2>1, <2>2, <2>3
<1>4. CASE Mine
  <2>1. Head(pending).by \in {h, Engine}
    BY <1>4, OldestPending DEF Mine, MarketInv, Owned, Procs
  <2>2. CASE Head(pending).by = h
    BY <1>1, <1>4, <2>2, MineKeepsAgreement
  <2>3. CASE Head(pending).by = Engine
    BY <1>1, <1>2, <1>4, <2>3, ChainIsAside
  <2> QED
    BY <2>1, <2>2, <2>3
<1>5. ASSUME NEW op \in Requests \cap ApiRequests, Begin(h, op)
      PROVE  SequentialInv(h)' /\ StaysFinal
  BY <1>1, <1>5, WaitKeeps
<1>6. ASSUME NEW funding \in BOOLEAN, NEW assignment \in BOOLEAN,
             syncTaskWithChain(h, funding, assignment)
      PROVE  SequentialInv(h)' /\ StaysFinal
  BY <1>1, <1>6, SyncKeepsAgreement
<1>7. CASE EngineStart \/ EngineSubmit \/ EngineFail
  BY <1>1, <1>2, <1>7, EngineIsAside
<1>8. CASE BrowserWrite
  BY <1>1, <1>2, <1>8, ChainIsAside
<1>9. CASE pauseTask \/ UNCHANGED vars
  <2>1. UNCHANGED <<task, req, chain>>
    BY <1>9 DEF pauseTask, vars
  <2>2. Aside(h)
    BY <2>1, ChainStays DEF Aside, SequentialInv, StartInv
  <2> QED
    BY <1>2, <2>2
<1> QED
  BY <1>3, <1>4, <1>5, <1>6, <1>7, <1>8, <1>9 DEF Next

\* The browser's fresh task, and the submitted one, agree with the contract.
LEMMA InitiallySequential ==
  ASSUME NEW h, Handlers = {h}, Init
  PROVE  SequentialInv(h)
<1>1. /\ req[h] = Idle /\ req[Engine] = Idle
      /\ Idle.pc = "idle" /\ Idle.op = "none"
  BY DEF Init, Procs, Idle
<1>2. /\ operator = Server
      /\ creator[Task] = IF Submitted THEN Creator ELSE NoAccount
      /\ Onchain = IF Submitted THEN "SUBMITTED" ELSE "NONE"
      /\ Anchored = IF Submitted THEN Submission ELSE NoSubmission
      /\ escrowLocked[Task] = IF Submitted THEN Reward ELSE 0
      /\ NoAccount # Creator /\ NoSubmission # Submission /\ Reward \in Nat \ {0}
  BY MarketConstants DEF Init, On, Onchain, Anchored
<1>3. /\ task.status = IF Submitted THEN "SUBMITTED" ELSE "CREATED"
      /\ task.dispute = "none" /\ task.history = NoReceipts
  BY DEF Init, buildTaskDetail
<1>4. PaidIn(task) = 0 /\ RefundedIn(task) = 0
  BY <1>3 DEF PaidIn, RefundedIn, NoReceipts, Receipts
<1>5. ChainInv
  BY <1>2 DEF ChainInv, Underway, Reviewed
<1>6. HandlerInv(h)
  BY <1>1, <1>2, <1>3 DEF HandlerInv, Agrees, Underway, Unreviewed
<1>7. StartInv /\ ReceiptInv /\ DisputeInv(h) /\ RejectedInv
  BY <1>1, <1>3, <1>4 DEF StartInv, ReceiptInv, DisputeInv, RejectedInv
<1> QED
  BY <1>5, <1>6, <1>7 DEF SequentialInv

\* With one request at a time the task object and the contract agree whenever
\* no mined transaction waits for its answer, next to the engine, the browser,
\* reverting transactions and late reports.
THEOREM SequentialAgreement ==
  ASSUME NEW h, Handlers = {h}
  PROVE  Spec => [](MarketInv /\ SequentialInv(h))
<1>1. Init => SequentialInv(h)
  BY InitiallySequential
<1>2. MarketInv /\ Owned /\ SequentialInv(h) /\ [Next]_vars => SequentialInv(h)'
  BY SequentialStep
<1> QED
  BY <1>1, <1>2, MarketInvariant, PTL DEF Spec

\* The fields the properties name.
LEMMA SameReceipts ==
  PaidReceipts = PaidIn(task) /\ RefundReceipts = RefundedIn(task)
BY DEF PaidReceipts, RefundReceipts, PaidIn, RefundedIn

\* No request, in any order, leaves a second terminal receipt.
COROLLARY ReceiptedOnce ==
  ASSUME NEW h, Handlers = {h}
  PROVE  Spec => []OneTerminalReceipt
<1>1. SequentialInv(h) => OneTerminalReceipt
  BY SameReceipts DEF SequentialInv, ReceiptInv, OneTerminalReceipt
<1> QED
  BY <1>1, SequentialAgreement, PTL

\* A receipt stands for money that has moved, although the router never reads
\* the status of a mined transaction.  A fee of 100% would leave the agent
\* nothing to be paid.
COROLLARY ReceiptsTellTheTruth ==
  ASSUME NEW h, Handlers = {h}, Fee < 10000
  PROVE  Spec => []ReceiptsAreTrue
<1>1. SequentialInv(h) => ReceiptsAreTrue
  BY SameReceipts DEF SequentialInv, ReceiptInv, ChainInv, ReceiptsAreTrue
<1> QED
  BY <1>1, SequentialAgreement, PTL

\* A final status is only ever shown for money that has moved.
COROLLARY FinalStatusIsTrue ==
  ASSUME NEW h, Handlers = {h}, Fee < 10000
  PROVE  Spec => []StatusIsTrue
<1>1. ASSUME MarketInv, SequentialInv(h), isTerminalTaskStatus(task.status)
      PROVE  Onchain = task.status
  <2> DEFINE c == req[h]
  <2>1. c \in Continuations /\ Stage(h, c) /\ h # Engine
    BY <1>1, MarketConstants DEF MarketInv, RouterTypeOK, RequestsInv, Procs
  <2>2. Agrees(task.status, Onchain) => Onchain = task.status
    BY <1>1 DEF Agrees, isTerminalTaskStatus, Underway, Unreviewed
  <2>3. CASE c.pc # "mined"
    BY <1>1, <2>2, <2>3 DEF SequentialInv, HandlerInv
  <2>4. CASE c.pc = "mined"
    <3>1. /\ Executed(c, task, Onchain) /\ Admitted(c, task)
          /\ c.op \notin {"start", "submit"} /\ c.call \in CallsOf[c.op]
      BY <1>1, <2>1, <2>4 DEF SequentialInv, HandlerInv, Stage
    <3>2. task.status \in {"SETTLED", "REFUNDED"}
      BY <1>1 DEF isTerminalTaskStatus
    <3>3. c.op \notin {"approve", "reject", "appeal", "settle", "refund", "dispute"}
      BY <3>1, <3>2 DEF Admitted
    <3>4. c.op \notin {"resolve_paid", "resolve_refund"}
      BY <2>1, <3>1, <3>2, CallOps DEF Executed, Reviewed
    <3>5. c.call \in Contested
      BY <2>1, <3>1, <3>3, <3>4 DEF CallsOf, Continuations, ApiRequests, Contested
    <3> QED
      BY <2>2, <3>1, <3>5 DEF Executed
  <2> QED
    BY <2>3, <2>4
<1>2. MarketInv /\ SequentialInv(h) => StatusIsTrue
  BY <1>1 DEF StatusIsTrue, SequentialInv, ChainInv, isTerminalTaskStatus
<1> QED
  BY <1>2, SequentialAgreement, PTL

\* An open dispute that nobody is working on still has a reward to be resolved
\* about.
COROLLARY DisputeHoldsEscrow ==
  ASSUME NEW h, Handlers = {h}
  PROVE  Spec => []OpenDisputeHoldsEscrow
<1>1. SequentialInv(h) => OpenDisputeHoldsEscrow
  BY DEF SequentialInv, DisputeInv, ChainInv, OpenDisputeHoldsEscrow, Quiet, Procs
<1> QED
  BY <1>1, SequentialAgreement, PTL

\* The transaction that moves money was admitted, and still is, when it is
\* executed: the creator neither settles nor is refunded while a dispute is
\* open.
LEMMA MoneyIsAdmitted ==
  ASSUME NEW h, Handlers = {h}, MarketInv, Owned, SequentialInv(h), [Next]_vars,
         <<toAgent, toCreator>>' # <<toAgent, toCreator>>
  PROVE  Admitted(Head(pending).tx, task)
<1>1. h \in Handlers
  OBVIOUS
<1>2. ~UNCHANGED chain /\ ~BrowserWrite
  BY BrowserEffect DEF chain, arcVars, SequentialInv
<1>3. Mine
  BY <1>2, ChainStep
<1>4. Head(pending).by \in {h, Engine}
  BY <1>3, OldestPending DEF Mine, MarketInv, Owned, Procs
<1>5. CASE Head(pending).by = h
  BY <1>1, <1>3, <1>5, MinedIsExecuted
<1>6. CASE Head(pending).by = Engine
  <2> DEFINE c == Head(pending).tx
  <2>1. c.op \in EngineOps
    BY <1>3, <1>6, MinedCall DEF Stage, Procs
  <2> QED
    BY <2>1 DEF Admitted, EngineOps
<1> QED
  BY <1>4, <1>5, <1>6

\* One handler: no settlement pays the agent while a dispute is open, because the
\* dispute that was refused at the request cannot have been opened since.
THEOREM NoPayoutWhileDisputed ==
  ASSUME NEW h, Handlers = {h}
  PROVE  Spec => NoPayoutInDispute
<1>1. MarketInv /\ Owned /\ SequentialInv(h) /\ [Next]_vars =>
        [toAgent' # toAgent /\ Head(pending).tx.op = "settle" => task.dispute # "open"]_vars
  BY MoneyIsAdmitted DEF Admitted
<1> QED
  BY <1>1, SequentialAgreement, MarketInvariant, PTL DEF Spec, NoPayoutInDispute

\* One handler: no refund of the creator's is executed while a dispute is open.
THEOREM NoRefundWhileDisputed ==
  ASSUME NEW h, Handlers = {h}
  PROVE  Spec => NoRefundInDispute
<1>1. MarketInv /\ Owned /\ SequentialInv(h) /\ [Next]_vars =>
        [toCreator' # toCreator /\ Head(pending).tx.op = "refund" => task.dispute # "open"]_vars
  BY MoneyIsAdmitted DEF Admitted
<1> QED
  BY <1>1, SequentialAgreement, MarketInvariant, PTL DEF Spec, NoRefundInDispute

\* No late report, refresh or synchronisation takes a final status back.
THEOREM FinalStatusStays ==
  ASSUME NEW h, Handlers = {h}
  PROVE  Spec => FinalStatusIsFinal
<1>1. MarketInv /\ Owned /\ SequentialInv(h) /\ [Next]_vars =>
        [isTerminalTaskStatus(task.status) => task.status' = task.status]_vars
  BY SequentialStep DEF StaysFinal
<1> QED
  BY <1>1, SequentialAgreement, MarketInvariant, PTL DEF Spec, FinalStatusIsFinal

-----------------------------------------------------------------------------
(* A process that times out, dies and restarts from a snapshot.            *)

SnapshotOK ==
  saved \in [task : TaskRecords({Submission}), paused : BOOLEAN,
             run : {"none", "dispatched", "running", "done", "failed"}]

\* Nobody waits for the transactions whose handlers are gone; the queue keeps
\* them as they were sent, in their order.
LEMMA DisownKeeps ==
  ASSUME RouterTypeOK, QueueInv, DOMAIN pending' = DOMAIN pending,
         pending' = [i \in DOMAIN pending |-> pending'[i]],
         \A i \in DOMAIN pending :
           \/ pending'[i] = pending[i]
           \/ pending'[i] = [pending[i] EXCEPT !.by = "nobody"]
  PROVE  /\ pending' \in Seq(Entries) /\ Len(pending') = Len(pending)
         /\ Len(pending') <= MaxPending
         /\ \A i \in 1 .. Len(pending) :
              /\ pending'[i].tx = pending[i].tx
              /\ pending'[i].by \in Procs => pending'[i] = pending[i]
<1>1. /\ Len(pending) \in Nat /\ DOMAIN pending = 1 .. Len(pending)
      /\ Len(pending) <= MaxPending
  BY LenProperties DEF RouterTypeOK
<1>2. ASSUME NEW i \in 1 .. Len(pending)
      PROVE  /\ pending'[i] \in Entries /\ pending'[i].tx = pending[i].tx
             /\ pending'[i].by \in Procs => pending'[i] = pending[i]
  <2>1. pending[i] \in Entries
    BY ElementOfSeq DEF RouterTypeOK
  <2>2. pending'[i] = pending[i] \/ pending'[i] = [pending[i] EXCEPT !.by = "nobody"]
    BY <1>1
  <2> QED
    BY <2>1, <2>2, RestartConstants DEF Entries
<1>3. pending' \in [1 .. Len(pending) -> Entries]
  BY <1>1, <1>2
<1>4. pending' \in Seq(Entries)
  BY <1>1, <1>3, SeqDef
<1>5. Len(pending') = Len(pending)
  <2>1. Len(pending') \in Nat /\ DOMAIN pending' = 1 .. Len(pending')
    BY <1>4, LenProperties
  <2> QED
    BY <1>1, <2>1
<1> QED
  BY <1>1, <1>2, <1>4, <1>5

\* A handler that no longer waits for its receipt.
LEMMA GiveUpKeeps ==
  ASSUME MarketInv, NEW p \in Procs, GiveUp(p)
  PROVE  MarketInv'
<1>1. /\ req \in [Procs -> Continuations] /\ req' = [req EXCEPT ![p] = Idle]
      /\ UNCHANGED <<task, paused, run, chain>>
      /\ RouterTypeOK /\ RequestsInv /\ QueueInv
  BY DEF GiveUp, Finish, Continue, MarketInv, RouterTypeOK
<1>2. /\ req' \in [Procs -> Continuations] /\ req'[p] = Idle
      /\ \A q \in Procs \ {p} : req'[q] = req[q]
  BY <1>1, FreshStage
<1>3. pending' = [i \in DOMAIN pending |->
                    IF pending[i].by = p THEN [pending[i] EXCEPT !.by = "nobody"]
                    ELSE pending[i]]
  BY DEF GiveUp
<1>4. /\ pending' \in Seq(Entries) /\ Len(pending') = Len(pending)
      /\ Len(pending') <= MaxPending
      /\ \A i \in 1 .. Len(pending) :
           /\ pending'[i].tx = pending[i].tx
           /\ pending'[i].by \in Procs => pending'[i] = pending[i]
  BY <1>1, <1>3, DisownKeeps
<1>5. DOMAIN pending = 1 .. Len(pending)
  BY LenProperties DEF MarketInv, RouterTypeOK
<1>6. ASSUME NEW i \in 1 .. Len(pending), pending'[i].by \in Procs
      PROVE  pending'[i].by # p
  <2>1. CASE pending[i].by = p
    <3>1. pending[i] \in Entries
      BY ElementOfSeq DEF MarketInv, RouterTypeOK
    <3>2. pending'[i] = [pending[i] EXCEPT !.by = "nobody"]
      BY <1>3, <1>5, <2>1
    <3>3. pending'[i].by = "nobody"
      BY <3>1, <3>2 DEF Entries
    <3> QED
      BY <1>6, <3>3, RestartConstants
  <2>2. CASE pending[i].by # p
    BY <1>4, <1>6, <2>2
  <2> QED
    BY <2>1, <2>2
<1>7. RequestsInv'
  <2>1. \A q \in Procs : Stage(q, req'[q])
    BY <1>1, <1>2, FreshStage DEF RequestsInv
  <2> QED
    BY <2>1 DEF RequestsInv, Stage
<1>8. ASSUME NEW i \in 1 .. Len(pending')
      PROVE  /\ Sendable(pending'[i].tx)
             /\ pending'[i].by \in Procs =>
                  /\ req'[pending'[i].by].pc = "sent"
                  /\ pending'[i].tx = [req'[pending'[i].by] EXCEPT !.pc = "write"]
  <2>1. i \in 1 .. Len(pending) /\ Sendable(pending'[i].tx)
    BY <1>1, <1>4 DEF QueueInv
  <2>2. ASSUME pending'[i].by \in Procs
        PROVE  /\ req'[pending'[i].by].pc = "sent"
               /\ pending'[i].tx = [req'[pending'[i].by] EXCEPT !.pc = "write"]
    <3>1. pending'[i] = pending[i] /\ req'[pending[i].by] = req[pending[i].by]
      BY <1>2, <1>4, <1>6, <2>1, <2>2
    <3> QED
      BY <1>1, <2>1, <2>2, <3>1 DEF QueueInv
  <2> QED
    BY <2>1, <2>2
<1>9. ASSUME NEW i \in 1 .. Len(pending'), NEW j \in 1 .. Len(pending'),
             pending'[i].by \in Procs, pending'[i].by = pending'[j].by
      PROVE  i = j
  BY <1>1, <1>4, <1>9 DEF QueueInv
<1>10. QueueInv'
  BY <1>8, <1>9 DEF QueueInv, Sendable
<1>11. Arc!TypeOK' /\ Arc!EscrowInv'
  <2>1. UNCHANGED Arc!vars
    BY <1>1 DEF chain, registryVars, arcVars, Arc!vars, Arc!registryVars, Arc!marketVars,
       Arc!terms, Arc!work, Arc!money
  <2> QED
    BY <2>1, ContractKeeps DEF MarketInv
<1> QED
  BY <1>1, <1>2, <1>4, <1>7, <1>10, <1>11 DEF MarketInv, RouterTypeOK

\* A process that starts again works on the record it has saved, without any
\* request under way.
LEMMA RestartKeeps ==
  ASSUME MarketInv, SnapshotOK, Restart
  PROVE  MarketInv'
<1>1. /\ req' = [p \in Procs |-> Idle] /\ UNCHANGED chain
      /\ task' = saved.task /\ paused' = saved.paused /\ run' = saved.run
      /\ pending' = [i \in DOMAIN pending |-> [pending[i] EXCEPT !.by = "nobody"]]
      /\ RouterTypeOK /\ QueueInv
  BY DEF Restart, MarketInv
<1>2. /\ pending' \in Seq(Entries) /\ Len(pending') = Len(pending)
      /\ Len(pending') <= MaxPending
      /\ \A i \in 1 .. Len(pending) : pending'[i].tx = pending[i].tx
  BY <1>1, DisownKeeps
<1>3. ASSUME NEW i \in 1 .. Len(pending)
      PROVE  pending'[i].by \notin Procs
  <2>1. pending[i] \in Entries /\ DOMAIN pending = 1 .. Len(pending)
    BY ElementOfSeq, LenProperties DEF MarketInv, RouterTypeOK
  <2>2. pending'[i].by = "nobody"
    BY <1>1, <2>1 DEF Entries
  <2> QED
    BY <2>2, RestartConstants
<1>4. req' \in [Procs -> Continuations]
  BY <1>1, FreshStage
<1>5. RequestsInv'
  <2>1. \A p \in Procs : Stage(p, req'[p])
    BY <1>1, FreshStage
  <2> QED
    BY <2>1 DEF RequestsInv, Stage
<1>6. QueueInv'
  BY <1>1, <1>2, <1>3 DEF QueueInv, Sendable
<1>7. Arc!TypeOK' /\ Arc!EscrowInv'
  <2>1. UNCHANGED Arc!vars
    BY <1>1 DEF chain, registryVars, arcVars, Arc!vars, Arc!registryVars, Arc!marketVars,
       Arc!terms, Arc!work, Arc!money
  <2> QED
    BY <2>1, ContractKeeps DEF MarketInv
<1> QED
  BY <1>1, <1>2, <1>4, <1>5, <1>6, <1>7 DEF MarketInv, RouterTypeOK, SnapshotOK

\* What a step of the restarting market is, and that it keeps the market's
\* invariant: nothing of it depends on who survives to see a transaction mined.
LEMMA RestartStep ==
  ASSUME MarketInv, SnapshotOK, [RestartNext]_restartVars
  PROVE  /\ MarketInv' /\ SnapshotOK'
         /\ [Arc!Next]_(Arc!vars)
<1>1. UNCHANGED chain => UNCHANGED Arc!vars
  BY DEF chain, registryVars, arcVars, Arc!vars, Arc!registryVars, Arc!marketVars,
         Arc!terms, Arc!work, Arc!money
<1>2. CASE [Next]_vars /\ UNCHANGED saved
  BY <1>2, MarketStep, ContractStep DEF SnapshotOK
<1>3. ASSUME NEW p \in Procs, GiveUp(p)
      PROVE  MarketInv' /\ SnapshotOK' /\ [Arc!Next]_(Arc!vars)
  BY <1>1, <1>3, GiveUpKeeps DEF GiveUp, SnapshotOK
<1>4. CASE Persist
  <2>1. [Next]_vars /\ saved' = Stored
    BY <1>4 DEF Persist
  <2>2. SnapshotOK'
    BY <2>1 DEF SnapshotOK, Stored, MarketInv, RouterTypeOK
  <2> QED
    BY <2>1, <2>2, MarketStep, ContractStep
<1>5. CASE Restart
  BY <1>1, <1>5, RestartKeeps DEF Restart, SnapshotOK
<1>6. CASE UNCHANGED restartVars
  BY <1>2, <1>6 DEF restartVars
<1> QED
  BY <1>2, <1>3, <1>4, <1>5, <1>6 DEF RestartNext, TimeoutNext

\* The restarting market keeps its types, and the contract its escrow invariant.
THEOREM RestartInvariant == RestartSpec => [](MarketInv /\ SnapshotOK)
<1>1. RestartInit => MarketInv /\ SnapshotOK
  BY InitiallyMarket DEF RestartInit, SnapshotOK, Stored, MarketInv, RouterTypeOK
<1>2. MarketInv /\ SnapshotOK /\ [RestartNext]_restartVars => MarketInv' /\ SnapshotOK'
  BY RestartStep
<1> QED
  BY <1>1, <1>2, PTL DEF RestartSpec

\* Seen from the chain, a process that dies and forgets what it sent is still
\* nothing but a sender of the contract's transactions.
THEOREM RestartsUseTheContract == RestartSpec => [][Arc!Next]_(Arc!vars)
<1>1. MarketInv /\ SnapshotOK /\ [RestartNext]_restartVars => [Arc!Next]_(Arc!vars)
  BY RestartStep
<1> QED
  BY <1>1, RestartInvariant, PTL DEF RestartSpec

\* No timeout, crash or restart from an old snapshot makes the router pay a
\* task's reward twice, or makes a unit of it disappear.
THEOREM ContractSurvivesRestarts ==
  RestartSpec => [](Arc!Conservation /\ Arc!PaidOrRefunded)
<1>1. MarketInv => Arc!Conservation /\ Arc!PaidOrRefunded
  BY DEF MarketInv, Arc!EscrowInv, Arc!TaskEscrowInv, Arc!Conservation, Arc!PaidOrRefunded
<1> QED
  BY <1>1, RestartInvariant, PTL

\* Whatever is interleaved, times out, dies or is forgotten: seen from the
\* task's reward the whole market is an escrow that takes it in once and gives
\* it out once, in one piece.
THEOREM MarketMovesAsPromised ==
  RestartSpec => [][Arc!Promise!Next]_(Arc!Promise!vars)
<1>1. MarketInv /\ SnapshotOK /\ [RestartNext]_restartVars =>
        [Arc!Promise!Next]_(Arc!Promise!vars)
  BY RestartStep, PromiseStep DEF MarketInv
<1> QED
  BY <1>1, RestartInvariant, PTL DEF RestartSpec

\* From a draft on, the market implements the escrow's promise.
THEOREM MarketImplementsPromise ==
  ASSUME InitialStatus # "SUBMITTED"
  PROVE  RestartSpec => Arc!ImplementsPromise
<1>1. RestartInit => Arc!Promise!Init
  BY DEF RestartInit, Init, On, Submitted, Arc!Promise!Init, Arc!phase
<1> QED
  BY <1>1, MarketMovesAsPromised, PTL DEF RestartSpec, Arc!ImplementsPromise, Arc!Promise!Spec

-----------------------------------------------------------------------------
(* Work starts on assigned tasks only, across restarts.                    *)

Assigned == assignedAgentId[Task] = Agent
InHand == {"ASSIGNED", "EXECUTING"}

\* Whatever in the process says that somebody may be at work: the task's
\* status, its run, a start under way, a read of the contract not applied yet.
WorkShown ==
  \/ task.status \in InHand
  \/ run \in {"dispatched", "running"}
  \/ \E p \in Procs : req[p].op = "start" \/ req[p].seen.state \in InHand

\* The same of what the next process would begin with.
WorkSaved == saved.task.status \in InHand \/ saved.run \in {"dispatched", "running"}

\* Nobody accepts a task: a direct hire is assigned by the creator's wallet.
NoAccepts == \A p \in Procs : req[p].op \notin {"accept", "auto"}

AssignedInv ==
  /\ NoAccepts
  /\ WorkShown \/ WorkSaved \/ Onchain \in InHand => Assigned

\* An assignment is never taken back, and only an assigned task is in hand.
LEMMA AssignmentStays ==
  ASSUME MarketInv, [Next]_vars, Onchain \in InHand => Assigned
  PROVE  /\ Assigned => Assigned'
         /\ Onchain' \in InHand => Assigned'
<1> USE DEF Onchain, Assigned, InHand
<1>1. /\ state \in [{Task} -> Arc!TaskState]
      /\ assignedAgentId \in [{Task} -> {Agent} \cup {NoAgent}]
  BY DEF MarketInv, Arc!TypeOK
<1>2. ASSUME NEW by, Arc!assign_task(by, Task, Agent)
      PROVE  Assigned'
  BY <1>1, <1>2 DEF Arc!assign_task
<1>3. CASE UNCHANGED chain
  BY <1>3 DEF chain, arcVars
<1>4. ASSUME NEW c \in Continuations, Sendable(c), Call(c)
      PROVE  (Assigned => Assigned') /\ (Onchain' \in InHand => Assigned')
  <2>1. CASE c.call = "assign_task"
    BY <1>2, <1>4, <2>1 DEF Call
  <2>2. CASE c.call # "assign_task"
    <3>1. UNCHANGED assignedAgentId
      BY <1>4, <2>2 DEF Call, Arc!start_execution, Arc!submit_task,
         Arc!approve_submission, Arc!reject_submission, Arc!finalize_review,
         Arc!dispute_task, Arc!appeal_task, Arc!settle_task, Arc!cancel_task,
         Arc!refund_task, Arc!work
    <3>2. c.call = "start_execution" \/ Onchain' \notin InHand
      <4>1. CASE c.call = "finalize_review"
        <5>1. c.outcome \in ConsensusOutcomes /\ Onchain' = Verdict[c.outcome]
          BY <1>4, <4>1, CallEffect DEF MarketInv, Sendable
        <5> QED
          BY <5>1 DEF Verdict, ConsensusOutcomes
      <4>2. CASE c.call # "finalize_review"
        <5>1. c.call \in ContractCalls
          BY <1>4 DEF Call, ContractCalls
        <5> HIDE DEF Onchain
        <5> QED
          BY <1>4, <2>2, <4>2, <5>1, CallEffect DEF MarketInv, ContractCalls
      <4> QED
        BY <4>1, <4>2
    <3>3. c.call = "start_execution" => Onchain \in InHand
      BY <1>4, CallEffect DEF MarketInv
    <3> QED
      BY <3>1, <3>2, <3>3
  <2> QED
    BY <2>1, <2>2
<1>5. CASE Mine
  BY <1>3, <1>4, <1>5, MinedTransaction
<1>6. CASE BrowserWrite
  <2>1. CASE Arc!create_task(Creator, Task, Reward)
    BY <1>1, <2>1 DEF Arc!create_task, Arc!SetState, Arc!work
  <2>2. CASE Arc!fund_task(Creator, Task)
    BY <1>1, <2>2 DEF Arc!fund_task, Arc!SetState, Arc!work
  <2>3. CASE Arc!assign_task(Creator, Task, Agent)
    BY <1>2, <2>3
  <2> QED
    BY <1>6, <2>1, <2>2, <2>3 DEF BrowserWrite
<1> QED
  BY <1>3, <1>5, <1>6, ChainStep

\* No answer puts a task in hand, but for an acceptance and a start.
LEMMA AnswerShowsNoWork ==
  ASSUME NEW r \in TaskRecords({Submission}), NEW c \in Continuations,
         c.op \notin {"none", "accept", "auto", "start"},
         c.op = "appeal" => c.outcome \in ConsensusOutcomes
  PROVE  Effect(c, r).status \in InHand => r.status \in InHand
<1> DEFINE S == {Submission}
<1>1. r \in TaskRecords(S) /\ r.status \in TaskStatuses
  BY DEF TaskRecords
<1> HIDE DEF S
<1>2. CASE c.op \in {"approve", "reject", "cancel"}
  BY <1>1, <1>2, DecisionStatus DEF Effect, InHand
<1>3. CASE c.op = "advise"
  BY <1>1, <1>3, ReviewEffect DEF Effect, InHand
<1>4. CASE c.op = "appeal"
  <2>1. Verdict[c.outcome] \notin InHand
    BY <1>4 DEF Verdict, ConsensusOutcomes, InHand
  <2>2. Effect(c, r) = ConsensusApplied(r, c.outcome)
    BY <1>4 DEF Effect
  <2> QED
    BY <1>1, <1>4, <2>1, <2>2, ConsensusEffect
<1>5. CASE c.op \in {"settle", "refund", "dispute"}
  <2>1. Effect(c, r) \in {Settled(r), Refunded(r), DisputeOpened(r)}
    BY <1>5 DEF Effect
  <2>2. \A m \in {Settled(r), Refunded(r), DisputeOpened(r)} :
          m.status \in {r.status, "SETTLED", "REFUNDED", "DISPUTED"}
    BY <1>1, SettlementEffect
  <2> QED
    BY <2>1, <2>2 DEF InHand
<1>6. CASE c.op \in {"resolve_paid", "resolve_refund"}
  <2>1. Effect(c, r) = AdminResolved(r, TRUE) \/ Effect(c, r) = AdminResolved(r, FALSE)
    BY <1>6 DEF Effect
  <2>2. \A paid \in BOOLEAN : AdminResolved(r, paid).status \in {r.status, "SETTLED", "REFUNDED"}
    BY <1>1, ResolutionEffect
  <2> QED
    BY <2>1, <2>2 DEF InHand
<1>7. CASE c.op = "submit"
  <2>1. \A anchored : SubmissionReceived(r, anchored).status \in {r.status, "SUBMITTED"}
    BY DEF SubmissionReceived, TaskRecords
  <2> QED
    BY <1>7, <2>1 DEF Effect, InHand
<1> QED
  BY <1>2, <1>3, <1>4, <1>5, <1>6, <1>7 DEF Continuations, ApiRequests

\* A step of one request that neither shows work nor reads of any.
LEMMA MoveShowsNoWork ==
  ASSUME MarketInv, NoAccepts, NEW p \in Procs, NEW d, Continue(p, d),
         d.op \notin {"accept", "auto"},
         NEW X \in BOOLEAN, WorkShown => X,
         d.op = "start" => X, d.seen.state \in InHand => X,
         task'.status \in InHand => X, run' \in {"dispatched", "running"} => X
  PROVE  NoAccepts' /\ (WorkShown' => X)
<1>1. /\ req'[p] = d
      /\ \A q \in Procs \ {p} : req'[q] = req[q]
  BY DEF MarketInv, RouterTypeOK, Continue
<1>2. NoAccepts'
  BY <1>1 DEF NoAccepts
<1>3. ASSUME NEW q \in Procs, req'[q].op = "start" \/ req'[q].seen.state \in InHand
      PROVE  X
  BY <1>1, <1>3 DEF WorkShown
<1> QED
  BY <1>2, <1>3 DEF WorkShown

\* A direct hire that nobody accepts: what a step of the market puts in hand was
\* in hand, on record or on the contract, or is assigned.
LEMMA RouterShowsNoWork ==
  ASSUME HiringMode = "direct_hire", "accept" \notin Requests,
         MarketInv, NoAccepts, [Next]_vars
  PROVE  NoAccepts' /\ (WorkShown' => WorkShown \/ Onchain \in InHand \/ Assigned)
<1> DEFINE X == WorkShown \/ Onchain \in InHand \/ Assigned
           Goal == NoAccepts' /\ (WorkShown' => X)
           Runs == {"dispatched", "running"}
<1>1. /\ RouterTypeOK /\ RequestsInv /\ X \in BOOLEAN /\ (WorkShown => X)
      /\ task \in TaskRecords({Submission}) /\ req \in [Procs -> Continuations]
      /\ Engine \in Procs /\ \A h \in Handlers : h \in Procs
  BY DEF MarketInv, RouterTypeOK, Procs
<1>2. /\ task.status \in InHand => X
      /\ run \in Runs => X
      /\ \A p \in Procs : req[p].op = "start" \/ req[p].seen.state \in InHand => X
  BY DEF WorkShown
<1>3. /\ Idle.op = "none" /\ Idle.seen.state \notin InHand
      /\ \A p \in Procs : req[p].op \notin {"accept", "auto"}
      /\ \A p \in Procs : req[p] \in Continuations /\ Stage(p, req[p])
  BY <1>1 DEF Idle, Unread, InHand, NoAccepts, RequestsInv
<1> HIDE DEF X
<1>4. ASSUME NEW p \in Procs, NEW d, Continue(p, d), d.op \notin {"accept", "auto"},
             d.op = "start" => X, d.seen.state \in InHand => X,
             task'.status \in InHand => X, run' \in Runs => X
      PROVE  Goal
  BY <1>1, <1>4, MoveShowsNoWork
<1>5. ASSUME UNCHANGED req, task'.status \in InHand => X, run' \in Runs => X
      PROVE  Goal
  BY <1>2, <1>5 DEF NoAccepts, WorkShown
<1>6. ASSUME NEW p \in Procs, NEW r \in TaskRecords({Submission}),
             NEW c \in Continuations, Answer(p, c, r),
             c.op \notin {"none", "accept", "auto", "start"},
             c.op = "appeal" => c.outcome \in ConsensusOutcomes, r.status \in InHand => X
      PROVE  Goal
  <2>1. /\ task' = Effect(c, r) /\ run' = RunAfter(c, task') /\ Continue(p, Idle)
    BY <1>6 DEF Answer, Finish
  <2>2. task'.status \in InHand => X
    BY <1>6, <2>1, AnswerShowsNoWork
  <2>3. run' \in Runs => X
    BY <1>2, <1>6, <2>1 DEF RunAfter
  <2> QED
    BY <1>3, <1>4, <2>1, <2>2, <2>3
<1>7. ASSUME NEW p \in Procs, Send(p) \/ Throw(p)
      PROVE  Goal
  <2>1. /\ UNCHANGED <<task, run>>
        /\ \/ Continue(p, [req[p] EXCEPT !.pc = "sent"])
           \/ Continue(p, Idle)
    BY <1>7 DEF Send, Throw, Finish
  <2>2. CASE Continue(p, Idle)
    BY <1>2, <1>3, <1>4, <2>1, <2>2
  <2>3. CASE Continue(p, [req[p] EXCEPT !.pc = "sent"])
    <3> DEFINE d == [req[p] EXCEPT !.pc = "sent"]
    <3>1. d.op = req[p].op /\ d.seen = req[p].seen
      BY <1>3 DEF Continuations
    <3> HIDE DEF d
    <3> QED
      BY <1>2, <1>3, <1>4, <2>1, <2>3, <3>1 DEF d
  <2> QED
    BY <2>1, <2>2, <2>3
<1>8. ASSUME NEW p \in Procs, NEW d \in Continuations, UNCHANGED <<task, run>>,
             Continue(p, d), d.op = req[p].op, d.seen = req[p].seen
      PROVE  Goal
  BY <1>2, <1>3, <1>4, <1>8
<1>9. ASSUME NEW p \in Procs, Complete(p)
      PROVE  Goal
  <2> DEFINE c == req[p]
  <2>1. /\ c \in Continuations /\ Stage(p, c) /\ c.pc = "mined"
        /\ \/ /\ Continue(p, [c EXCEPT !.pc = "evaluate", !.call = NoCall])
              /\ UNCHANGED <<task, run>>
           \/ /\ NextCall(c) \in ContractCalls
              /\ Continue(p, [c EXCEPT !.pc = "write", !.call = NextCall(c)])
              /\ UNCHANGED <<task, run>>
           \/ c.call # "appeal_task" /\ Answer(p, c, task)
    BY <1>3, <1>9 DEF Complete, NextCall, ContractCalls
  <2>2. CASE /\ Continue(p, [c EXCEPT !.pc = "evaluate", !.call = NoCall])
             /\ UNCHANGED <<task, run>>
    <3> DEFINE d == [c EXCEPT !.pc = "evaluate", !.call = NoCall]
    <3>1. d \in Continuations /\ d.op = c.op /\ d.seen = c.seen
      BY <2>1 DEF Continuations
    <3> HIDE DEF d
    <3> QED
      BY <1>8, <2>2, <3>1 DEF d
  <2>3. CASE /\ NextCall(c) \in ContractCalls
             /\ Continue(p, [c EXCEPT !.pc = "write", !.call = NextCall(c)])
             /\ UNCHANGED <<task, run>>
    <3> DEFINE next == NextCall(c)
               d == [c EXCEPT !.pc = "write", !.call = next]
    <3> HIDE DEF next
    <3>1. d \in Continuations /\ d.op = c.op /\ d.seen = c.seen
      BY <2>1, <2>3 DEF Continuations, next
    <3> HIDE DEF d
    <3> QED
      BY <1>8, <2>3, <3>1 DEF d, next
  <2>4. CASE c.call # "appeal_task" /\ Answer(p, c, task)
    <3>1. c.op # "none" /\ (c.op = "appeal" => c.outcome \in ConsensusOutcomes)
      BY <2>1, <2>4, CallOps DEF Stage
    <3>2. c.op \notin {"accept", "auto"}
      BY <1>3
    <3>3. CASE c.op = "start"
      <4>1. X
        BY <1>2, <3>3
      <4>2. Continue(p, Idle)
        BY <2>4 DEF Answer, Finish
      <4> QED
        BY <1>3, <1>4, <4>1, <4>2
    <3>4. CASE c.op # "start"
      <4> HIDE DEF c
      <4> QED
        BY <1>1, <1>2, <1>6, <2>1, <2>4, <3>1, <3>2, <3>4
    <3> QED
      BY <3>3, <3>4
  <2> QED
    BY <2>1, <2>2, <2>3, <2>4
<1>10. ASSUME NEW h \in Handlers, Evaluate(h)
       PROVE  Goal
  <2> DEFINE c == req[h]
  <2>1. /\ h \in Procs /\ c \in Continuations
        /\ \/ c.op = "advise" /\ Answer(h, c, task)
           \/ /\ \E outcome \in ConsensusOutcomes :
                   Continue(h, [c EXCEPT !.pc = "write", !.call = "finalize_review",
                                         !.outcome = outcome])
              /\ UNCHANGED <<task, run>>
    BY <1>1, <1>3, <1>10 DEF Evaluate
  <2>2. CASE c.op = "advise" /\ Answer(h, c, task)
    <3> HIDE DEF c
    <3> QED
      BY <1>1, <1>2, <1>6, <2>1, <2>2
  <2>3. ASSUME NEW outcome \in ConsensusOutcomes, UNCHANGED <<task, run>>,
               Continue(h, [c EXCEPT !.pc = "write", !.call = "finalize_review",
                                     !.outcome = outcome])
        PROVE  Goal
    <3> DEFINE d == [c EXCEPT !.pc = "write", !.call = "finalize_review",
                              !.outcome = outcome]
    <3>1. d \in Continuations /\ d.op = c.op /\ d.seen = c.seen
      BY <2>1 DEF Continuations, ContractCalls
    <3> HIDE DEF d
    <3> QED
      BY <1>8, <2>1, <2>3, <3>1 DEF d
  <2> QED
    BY <2>1, <2>2, <2>3
<1>11. ASSUME NEW h \in Handlers, Resume(h)
       PROVE  Goal
  <2> DEFINE r == Refreshed(h)
             op == req[h].op
             c == [Idle EXCEPT !.op = op, !.submission = r.submission]
  <2>1. /\ h \in Procs /\ op \in ApiRequests /\ op \notin {"accept", "auto", "start"}
        /\ Prepared(op, r) \in {r, AppealOpened(r)}
    BY <1>1, <1>3, <1>11 DEF Resume, Stage, ApiRequests, Prepared
  <2>2. /\ r \in TaskRecords({Submission})
        /\ req[h].seen = Unread => r = task
        /\ req[h].seen # Unread =>
             r.status = IF req[h].seen.state = "ESCROW_FUNDED" THEN "OPEN"
                        ELSE req[h].seen.state
    BY <1>1, <2>1, RefreshedEffect
  <2>3. r.status \in InHand => X
    BY <1>2, <2>1, <2>2 DEF InHand
  <2>4. /\ UNCHANGED run
        /\ \/ task' = r /\ Continue(h, Idle)
           \/ /\ task' = Prepared(op, r)
              /\ Continue(h, [c EXCEPT !.pc = "write", !.call = FirstCall(op, r)])
           \/ task' = r /\ Continue(h, [c EXCEPT !.pc = "evaluate"])
    BY <1>11, <2>1 DEF Resume, Finish
  <2> HIDE DEF r, op
  <2> DEFINE d == [c EXCEPT !.pc = "write", !.call = FirstCall(op, r)]
             e == [c EXCEPT !.pc = "evaluate"]
  <2>5. d.op = op /\ d.seen = Unread /\ e.op = op /\ e.seen = Unread
    BY DEF Idle
  <2>6. Unread.state \notin InHand
    BY DEF Unread, InHand
  <2>7. task'.status \in InHand => X
    <3>1. AppealOpened(r).status \in {r.status, "APPEALED"}
      BY <2>2, ReviewEffect
    <3> QED
      BY <2>1, <2>3, <2>4, <3>1 DEF InHand
  <2>8. Continue(h, Idle) \/ Continue(h, d) \/ Continue(h, e)
    BY <2>4
  <2>9. run' \in Runs => X
    BY <1>2, <2>4
  <2> HIDE DEF d, e
  <2> QED
    BY <1>3, <1>4, <2>1, <2>5, <2>6, <2>7, <2>8, <2>9
<1>12. ASSUME Mine
       PROVE  Goal
  <2> DEFINE p == Head(pending).by
             d == [req[p] EXCEPT !.pc = "mined"]
  <2>1. UNCHANGED <<task, run>>
    BY <1>12 DEF Mine
  <2>2. \/ req' = req
        \/ p \in Procs /\ d \in Continuations /\ Continue(p, d)
    BY <1>12, MineMoves DEF MarketInv, Continue
  <2> HIDE DEF p
  <2>3. p \in Procs => d.op = req[p].op /\ d.seen = req[p].seen
    BY <1>3 DEF Continuations
  <2> HIDE DEF d
  <2> QED
    BY <1>2, <1>5, <1>8, <2>1, <2>2, <2>3
<1>13. ASSUME NEW h \in Handlers, NEW op \in Requests \cap ApiRequests, Begin(h, op)
       PROVE  Goal
  <2>1. PICK seen \in {readTask, Unread} :
          Continue(h, [Idle EXCEPT !.pc = "refresh", !.op = op, !.seen = seen])
    BY <1>13 DEF Begin
  <2> DEFINE d == [Idle EXCEPT !.pc = "refresh", !.op = op, !.seen = seen]
  <2>2. d.op = op /\ d.seen = seen
    BY DEF Idle
  <2>3. op \notin {"accept", "auto", "start"}
    BY DEF ApiRequests
  <2>4. seen.state \in InHand => X
    BY DEF readTask, Unread, InHand, X, Onchain
  <2>5. UNCHANGED <<task, run>> /\ h \in Procs
    BY <1>1, <1>13 DEF Begin
  <2> HIDE DEF d
  <2> QED
    BY <1>2, <1>4, <2>1, <2>2, <2>3, <2>4, <2>5 DEF d
<1>14. ASSUME NEW h \in Handlers, NEW funding \in BOOLEAN, NEW assignment \in BOOLEAN,
              syncTaskWithChain(h, funding, assignment)
       PROVE  Goal
  <2> DEFINE r == Synced(task, funding, assignment)
             c == [Idle EXCEPT !.op = "auto"]
  <2>1. /\ assignment => Assigned
        /\ \/ task' = r /\ UNCHANGED <<run, req>>
           \/ MayAutoDispatch(r) /\ Answer(h, c, r)
    BY <1>14 DEF syncTaskWithChain, Assigned
  <2>2. r \in TaskRecords({Submission}) /\ (r.status \in InHand => task.status \in InHand \/ assignment)
    <3>1. r \in TaskRecords({Submission})
      BY <1>1, SyncEffect
    <3>2. r.status \in InHand => task.status \in InHand \/ assignment
      BY <1>1 DEF Synced, TaskRecords, InHand
    <3> QED
      BY <3>1, <3>2
  <2>3. r.status \in InHand => X
    BY <1>2, <2>1, <2>2 DEF X
  <2> HIDE DEF r
  <2>4. CASE task' = r /\ UNCHANGED <<run, req>>
    BY <1>2, <1>5, <2>3, <2>4
  <2>5. CASE MayAutoDispatch(r) /\ Answer(h, c, r)
    <3>1. X
      BY <2>3, <2>5 DEF MayAutoDispatch, InHand
    <3>2. Continue(h, Idle)
      BY <2>5 DEF Answer, Finish
    <3> QED
      BY <1>1, <1>3, <1>4, <3>1, <3>2
  <2> QED
    BY <2>1, <2>4, <2>5
<1>15. ASSUME EngineStart
       PROVE  Goal
  <2>1. X
    BY <1>2, <1>15 DEF EngineStart
  <2>2. \/ UNCHANGED req
        \/ Continue(Engine, [Idle EXCEPT !.pc = "write", !.op = "start",
                                         !.call = "start_execution"])
    BY <1>15 DEF EngineStart
  <2>3. [Idle EXCEPT !.pc = "write", !.op = "start", !.call = "start_execution"].op = "start"
    BY DEF Idle
  <2> QED
    BY <1>1, <1>4, <1>5, <2>1, <2>2, <2>3
<1>16. ASSUME EngineSubmit
       PROVE  Goal
  <2> DEFINE b == [Idle EXCEPT !.op = "submit"]
             d == IF state[Task] \in {"ASSIGNED", "EXECUTING"}
                  THEN [b EXCEPT !.pc = "write", !.call = "submit_task"]
                  ELSE [b EXCEPT !.pc = "mined"]
  <2>1. UNCHANGED <<task, run>> /\ Continue(Engine, d)
    BY <1>16 DEF EngineSubmit
  <2>2. d.op = "submit" /\ d.seen = Unread /\ Unread.state \notin InHand
    BY DEF Idle, Unread, InHand
  <2> HIDE DEF d
  <2> QED
    BY <1>1, <1>2, <1>4, <2>1, <2>2
<1>17. ASSUME EngineFail
       PROVE  Goal
  <2>1. X /\ UNCHANGED req
    BY <1>2, <1>17 DEF EngineFail
  <2> QED
    BY <1>5, <2>1
<1>18. ASSUME BrowserWrite \/ pauseTask \/ UNCHANGED vars
       PROVE  Goal
  <2>1. UNCHANGED <<task, run, req>>
    BY <1>18 DEF BrowserWrite, pauseTask, vars
  <2> QED
    BY <1>2, <1>5, <2>1
<1> QED
  BY <1>7, <1>9, <1>10, <1>11, <1>12, <1>13, <1>14, <1>15, <1>16, <1>17, <1>18
     DEF Next, Advance, X

\* The same of a step of the restarting market: what a snapshot brings back was
\* assigned when it was saved.
LEMMA AssignedStep ==
  ASSUME HiringMode = "direct_hire", "accept" \notin Requests,
         MarketInv, AssignedInv, [RestartNext]_restartVars
  PROVE  AssignedInv'
<1>1. /\ NoAccepts /\ (Onchain \in InHand => Assigned)
      /\ (WorkShown => Assigned) /\ (WorkSaved => Assigned)
  BY DEF AssignedInv
<1>2. ASSUME [Next]_vars
      PROVE  /\ NoAccepts' /\ (WorkShown' => Assigned')
             /\ Assigned => Assigned'
             /\ Onchain' \in InHand => Assigned'
  BY <1>1, <1>2, AssignmentStays, RouterShowsNoWork
<1>3. ASSUME UNCHANGED chain
      PROVE  /\ Assigned' = Assigned /\ Onchain' = Onchain
  BY <1>3 DEF chain, arcVars, Assigned, Onchain
<1>4. CASE [Next]_vars /\ UNCHANGED saved
  <2>1. WorkSaved' = WorkSaved
    BY <1>4 DEF WorkSaved
  <2> QED
    BY <1>1, <1>2, <1>4, <2>1 DEF AssignedInv
<1>5. ASSUME NEW p \in Procs, GiveUp(p)
      PROVE  AssignedInv'
  <2>1. Continue(p, Idle) /\ UNCHANGED <<task, run, chain, saved>>
    BY <1>5 DEF GiveUp, Finish
  <2>2. Idle.op = "none" /\ Idle.seen.state \notin InHand
    BY DEF Idle, Unread, InHand
  <2>3. /\ task'.status \in InHand => Assigned
        /\ run' \in {"dispatched", "running"} => Assigned
    BY <1>1, <2>1 DEF WorkShown
  <2>4. Assigned \in BOOLEAN
    BY DEF Assigned
  <2>5. NoAccepts' /\ (WorkShown' => Assigned)
    BY <1>1, <2>1, <2>2, <2>3, <2>4, MoveShowsNoWork
  <2>6. WorkSaved' = WorkSaved
    BY <2>1 DEF WorkSaved
  <2> QED
    BY <1>1, <1>3, <2>1, <2>5, <2>6 DEF AssignedInv
<1>6. CASE Persist
  <2>1. [Next]_vars /\ saved' = Stored
    BY <1>6 DEF Persist
  <2>2. WorkSaved' => WorkShown
    BY <2>1 DEF WorkSaved, WorkShown, Stored
  <2> QED
    BY <1>1, <1>2, <2>1, <2>2 DEF AssignedInv
<1>7. CASE Restart
  <2>1. /\ task' = saved.task /\ run' = saved.run /\ req' = [p \in Procs |-> Idle]
        /\ UNCHANGED <<chain, saved>>
    BY <1>7 DEF Restart
  <2>2. Idle.op = "none" /\ Idle.seen.state \notin InHand
    BY DEF Idle, Unread, InHand
  <2>3. NoAccepts' /\ (WorkShown' => WorkSaved)
    BY <2>1, <2>2 DEF NoAccepts, WorkShown, WorkSaved
  <2>4. WorkSaved' = WorkSaved
    BY <2>1 DEF WorkSaved
  <2> QED
    BY <1>1, <1>3, <2>1, <2>3, <2>4 DEF AssignedInv
<1>8. CASE UNCHANGED restartVars
  BY <1>4, <1>8 DEF restartVars
<1> QED
  BY <1>4, <1>5, <1>6, <1>7, <1>8 DEF RestartNext, TimeoutNext

\* A direct hire that is not accepted through the router is dispatched only on an
\* assignment the contract holds, for any number of requests, after timeouts and
\* after a restart from a snapshot of any age.  (An acceptance assigns the record
\* without asking the contract: MCTaskMarketUnassigned.)
THEOREM DispatchedIsAssigned ==
  ASSUME HiringMode = "direct_hire", "accept" \notin Requests
  PROVE  RestartSpec => []DispatchIsAssigned
<1>1. RestartInit => AssignedInv
  <2> SUFFICES ASSUME RestartInit PROVE AssignedInv
    OBVIOUS
  <2>1. /\ saved = Stored
        /\ task.status = IF Submitted THEN "SUBMITTED" ELSE "CREATED"
        /\ run = IF Submitted THEN "done" ELSE "none"
        /\ Onchain = IF Submitted THEN "SUBMITTED" ELSE "NONE"
        /\ \A p \in Procs : req[p] = Idle
    BY DEF RestartInit, Init, On, Onchain, buildTaskDetail
  <2>2. saved.task = task /\ saved.run = run
    BY <2>1 DEF Stored
  <2>3. Idle.op = "none" /\ Idle.seen.state \notin InHand
    BY DEF Idle, Unread, InHand
  <2> QED
    BY <2>1, <2>2, <2>3 DEF AssignedInv, NoAccepts, WorkShown, WorkSaved, InHand
<1>2. MarketInv /\ AssignedInv /\ [RestartNext]_restartVars => AssignedInv'
  BY AssignedStep
<1>3. AssignedInv => DispatchIsAssigned
  BY DEF AssignedInv, WorkShown, Assigned, DispatchIsAssigned
<1> QED
  BY <1>1, <1>2, <1>3, RestartInvariant, PTL DEF RestartSpec

-----------------------------------------------------------------------------
(* One handler that forgets what it has sent: its disputes and receipts.   *)

\* The creator's requests that move money.
Releases == {"settle", "refund"}

ReleaseQueued == \E j \in 1 .. Len(pending) : pending[j].tx.op \in Releases

TerminalIn(r) == PaidIn(r) + RefundedIn(r)
NoReleaseYet == task.dispute # "open" /\ TerminalIn(task) = 0

\* Neither at the chain nor on its way there with the creator's money.
Harmless(c) == c.pc \notin {"sent", "mined"} /\ (c.pc = "write" => c.op \notin Releases)

SameRecord == task'.dispute = task.dispute /\ task'.history = task.history

\* What the guards of settlement and refund ask is how many there are.
LEMMA ReceiptCount ==
  ASSUME NEW r \in TaskRecords({Submission})
  PROVE  /\ TerminalIn(r) \in Nat /\ PaidIn(r) \in Nat /\ RefundedIn(r) \in Nat
         /\ hasTerminalReceipt(r.history) <=> TerminalIn(r) > 0
<1>1. r.history \in [Receipts -> 0 .. Several] /\ Several = 2
  BY DEF TaskRecords, Several
<1>2. TerminalReceipts = {"paid", "refunded", "admin_paid", "admin_refunded"}
  BY DEF TerminalReceipts, Receipts
<1>3. \A kind \in TerminalReceipts : r.history[kind] \in Nat
  BY <1>1 DEF TerminalReceipts
<1>4. /\ r.history["paid"] \in Nat /\ r.history["admin_paid"] \in Nat
      /\ r.history["refunded"] \in Nat /\ r.history["admin_refunded"] \in Nat
  BY <1>2, <1>3
<1>5. hasTerminalReceipt(r.history) <=>
        \/ r.history["paid"] > 0 \/ r.history["admin_paid"] > 0
        \/ r.history["refunded"] > 0 \/ r.history["admin_refunded"] > 0
  BY <1>2 DEF hasTerminalReceipt
<1> QED
  BY <1>4, <1>5 DEF TerminalIn, PaidIn, RefundedIn

\* The answer of the handler's last await: only a dispute or an appeal opens a
\* dispute, only the administrator's receipt closes one, and only settlement,
\* refund and resolution append a terminal receipt.
LEMMA AnswerRecord ==
  ASSUME NEW r \in TaskRecords({Submission}), NEW c \in Continuations,
         c.op # "none", c.op = "appeal" => c.outcome \in ConsensusOutcomes
  PROVE  LET m == Effect(c, r)
         IN  /\ m \in TaskRecords({Submission}) /\ TerminalIn(m) >= TerminalIn(r)
             /\ r.dispute = "open" => m.dispute = "open" \/ TerminalIn(m) > 0
             /\ c.op \in Releases => TerminalIn(m) <= TerminalIn(r) + 1
             /\ c.op \notin Releases \cup {"resolve_paid", "resolve_refund"} =>
                  TerminalIn(m) = TerminalIn(r)
             /\ c.op \in {"start", "submit", "auto", "accept", "advise"} =>
                  m.dispute = r.dispute /\ m.history = r.history
<1> DEFINE m == Effect(c, r)
<1>1. /\ m \in TaskRecords({Submission}) /\ Grows(m, r)
      /\ c.op \in {"settle", "resolve_paid"} => PaidIn(m) > 0
      /\ c.op \in {"refund", "resolve_refund"} => RefundedIn(m) > 0
  BY EffectKeeps
<1>2. /\ r.history \in [Receipts -> 0 .. Several] /\ Several = 2
      /\ "paid" \in Receipts /\ "refunded" \in Receipts /\ "paused" \in Receipts
      /\ "admin_paid" \in Receipts /\ "admin_refunded" \in Receipts
  BY DEF TaskRecords, Several, Receipts
<1>3. c.op \in ApiRequests \cup {"auto", "start", "submit"}
  BY DEF Continuations
<1>4. CASE c.op \notin Releases \cup {"dispute", "appeal", "resolve_paid", "resolve_refund"}
  <2>1. Effect(c, r) \in {Accepted(r, TRUE), AutoAssigned(r), Approved(r), Rejected(r),
                           Advised(r), Cancelled(r), ExecutionStarted(r)}
           \cup {SubmissionReceived(r, Submission), SubmissionReceived(r, NoSubmission)}
    BY <1>3, <1>4 DEF Effect, ApiRequests, Releases
  <2>2. /\ SameStanding(Accepted(r, TRUE), r) /\ SameStanding(AutoAssigned(r), r)
        /\ SameStanding(Advised(r), r)
    BY AcceptEffect, AutoEffect, ReviewEffect
  <2>3. /\ SameStanding(Approved(r), r) /\ SameStanding(Rejected(r), r)
        /\ SameStanding(Cancelled(r), r)
    BY DecisionEffect
  <2>4. SameStanding(ExecutionStarted(r), r)
    BY EngineEffect
  <2>5. SameStanding(SubmissionReceived(r, Submission), r)
    BY EngineEffect
  <2>6. SameStanding(SubmissionReceived(r, NoSubmission), r)
    BY EngineEffect
  <2>7. m.dispute = r.dispute /\ m.history = r.history
    BY <2>1, <2>2, <2>3, <2>4, <2>5, <2>6 DEF SameStanding
  <2> HIDE DEF m
  <2>8. TerminalIn(m) = TerminalIn(r) /\ TerminalIn(r) \in Nat
    BY <2>7, ReceiptCount DEF TerminalIn, PaidIn, RefundedIn
  <2> QED
    BY <1>1, <1>4, <2>7, <2>8 DEF m
<1>5. CASE c.op = "appeal"
  <2>1. m = ConsensusApplied(r, c.outcome)
    BY <1>5 DEF Effect
  <2>2. m.history = r.history /\ m.dispute \in {"open", r.dispute}
    BY <1>5, <2>1, ConsensusEffect
  <2> HIDE DEF m
  <2>3. TerminalIn(m) = TerminalIn(r) /\ TerminalIn(r) \in Nat
    BY <2>2, ReceiptCount DEF TerminalIn, PaidIn, RefundedIn
  <2> QED
    BY <1>1, <1>5, <2>2, <2>3 DEF m, Releases
<1>6. ASSUME NEW kind \in Receipts, m.history = Recorded(r, kind).history
      PROVE  /\ TerminalIn(m) <= TerminalIn(r) + 1 /\ TerminalIn(m) >= TerminalIn(r)
             /\ kind = "paused" => TerminalIn(m) = TerminalIn(r)
  <2>1. /\ m.history[kind] = IF r.history[kind] = Several THEN Several
                             ELSE r.history[kind] + 1
        /\ \A k \in Receipts \ {kind} : m.history[k] = r.history[k]
    BY <1>6, RecordedEffect
  <2>2. \A k \in Receipts : r.history[k] \in Nat /\ m.history[k] \in Nat
    BY <1>1, <1>2 DEF TaskRecords
  <2>3. m.history[kind] <= r.history[kind] + 1 /\ m.history[kind] >= r.history[kind]
    BY <1>2, <2>1, <2>2
  <2> HIDE DEF m
  <2> QED
    BY <1>2, <2>1, <2>2, <2>3 DEF TerminalIn, PaidIn, RefundedIn, Receipts
<1>7. CASE c.op = "settle"
  <2>1. m.dispute = r.dispute /\ m.history = Recorded(r, "paid").history
    BY <1>7, SettlementEffect DEF Effect
  <2> HIDE DEF m
  <2> QED
    BY <1>1, <1>2, <1>6, <1>7, <2>1 DEF m, Releases
<1>8. CASE c.op = "refund"
  <2>1. m.dispute = r.dispute /\ m.history = Recorded(r, "refunded").history
    BY <1>8, SettlementEffect DEF Effect
  <2> HIDE DEF m
  <2> QED
    BY <1>1, <1>2, <1>6, <1>8, <2>1 DEF m, Releases
<1>9. CASE c.op = "dispute"
  <2>1. m.dispute \in {"open", r.dispute} /\ m.history = Recorded(r, "paused").history
    BY <1>9, SettlementEffect DEF Effect
  <2> HIDE DEF m
  <2> QED
    BY <1>1, <1>2, <1>6, <1>9, <2>1 DEF m, Releases
<1>10. CASE c.op \in {"resolve_paid", "resolve_refund"}
  <2>1. \/ m.history = Recorded(r, "admin_paid").history
        \/ m.history = Recorded(r, "admin_refunded").history
    <3>1. m = AdminResolved(r, TRUE) \/ m = AdminResolved(r, FALSE)
      BY <1>10 DEF Effect
    <3> HIDE DEF m
    <3> QED
      BY <3>1, ResolutionEffect
  <2>2. TerminalIn(m) > 0
    <3>1. PaidIn(m) > 0 \/ RefundedIn(m) > 0
      BY <1>1, <1>10
    <3> HIDE DEF m
    <3>2. PaidIn(m) \in Nat /\ RefundedIn(m) \in Nat
      BY <1>1, ReceiptCount DEF m
    <3> QED
      BY <3>1, <3>2 DEF TerminalIn
  <2>3. TerminalIn(m) >= TerminalIn(r)
    BY <1>2, <1>6, <2>1
  <2> HIDE DEF m
  <2> QED
    BY <1>1, <1>10, <2>2, <2>3 DEF m, Releases
<1> QED
  BY <1>4, <1>5, <1>7, <1>8, <1>9, <1>10 DEF Releases

\* The handler's last await returns: nothing is sent, and the record changes as
\* its kind of request has it.
LEMMA CompleteMoves ==
  ASSUME MarketInv, NEW p \in Procs, Complete(p)
  PROVE  /\ req[p].pc = "mined" /\ UNCHANGED pending /\ Harmless(req'[p])
         /\ \A q \in Procs \ {p} : req'[q] = req[q]
         /\ TerminalIn(task') >= TerminalIn(task)
         /\ task.dispute = "open" => task'.dispute = "open" \/ TerminalIn(task') > 0
         /\ req[p].op \in Releases => TerminalIn(task') <= TerminalIn(task) + 1
         /\ req[p].op \notin Releases \cup {"resolve_paid", "resolve_refund"} =>
              TerminalIn(task') = TerminalIn(task)
         /\ p = Engine => SameRecord
<1> DEFINE c == req[p]
<1>1. /\ c \in Continuations /\ Stage(p, c) /\ task \in TaskRecords({Submission})
      /\ req \in [Procs -> Continuations]
  BY DEF MarketInv, RouterTypeOK, RequestsInv
<1>2. /\ c.pc = "mined" /\ UNCHANGED pending
      /\ c.call \in CallsOf[c.op] \/ (c.op = "submit" /\ c.call = NoCall)
  BY <1>1 DEF Complete, Stage
<1>3. TerminalIn(task) \in Nat
  BY <1>1, ReceiptCount
<1>4. ASSUME NEW d \in Continuations, Continue(p, d)
      PROVE  req'[p] = d /\ \A q \in Procs \ {p} : req'[q] = req[q]
  BY <1>1, <1>4 DEF Continue
<1>5. CASE /\ c.call = "appeal_task"
           /\ Continue(p, [c EXCEPT !.pc = "evaluate", !.call = NoCall])
           /\ UNCHANGED <<task, run>>
  <2> DEFINE d == [c EXCEPT !.pc = "evaluate", !.call = NoCall]
  <2>1. d \in Continuations /\ d.pc = "evaluate"
    BY <1>1 DEF Continuations
  <2> HIDE DEF d
  <2>2. req'[p] = d /\ \A q \in Procs \ {p} : req'[q] = req[q]
    BY <1>4, <1>5, <2>1 DEF d
  <2> QED
    BY <1>2, <1>3, <1>5, <2>1, <2>2 DEF Harmless, SameRecord
<1>6. CASE /\ NextCall(c) # NoCall
           /\ Continue(p, [c EXCEPT !.pc = "write", !.call = NextCall(c)])
           /\ UNCHANGED <<task, run>>
  <2> DEFINE next == NextCall(c)
             d == [c EXCEPT !.pc = "write", !.call = next]
  <2>1. c.call = "finalize_review" /\ next \in {"approve_submission", "reject_submission"}
    BY <1>6 DEF NextCall
  <2>2. c.op = "appeal" /\ next \in ContractCalls
    BY <1>1, <1>2, <2>1, CallOps DEF NoCall, ContractCalls
  <2> HIDE DEF next
  <2>3. d \in Continuations /\ d.pc = "write" /\ d.op = "appeal"
    BY <1>1, <2>2 DEF Continuations
  <2> HIDE DEF d
  <2>4. req'[p] = d /\ \A q \in Procs \ {p} : req'[q] = req[q]
    BY <1>4, <1>6, <2>3 DEF d, next
  <2> QED
    BY <1>2, <1>3, <1>6, <2>3, <2>4 DEF Harmless, SameRecord, Releases
<1>7. CASE c.call # "appeal_task" /\ Answer(p, c, task)
  <2>1. task' = Effect(c, task) /\ Continue(p, Idle)
    BY <1>7 DEF Answer, Finish
  <2>2. c.op # "none" /\ (c.op = "appeal" => c.outcome \in ConsensusOutcomes)
    BY <1>1, <1>2, <1>7, CallOps DEF Stage
  <2>3. p = Engine => c.op \in {"start", "submit"}
    BY <1>1, <2>2 DEF Stage, EngineOps
  <2>4. Idle \in Continuations /\ Idle.pc = "idle"
    BY FreshStage DEF Idle
  <2>5. req'[p] = Idle /\ \A q \in Procs \ {p} : req'[q] = req[q]
    BY <1>4, <2>1, <2>4
  <2> HIDE DEF c
  <2> QED
    BY <1>1, <1>2, <2>1, <2>2, <2>3, <2>4, <2>5, AnswerRecord DEF Harmless, SameRecord, c
<1> QED
  BY <1>5, <1>6, <1>7 DEF Complete

\* A request of the creator's that passes its guard found no open dispute and no
\* terminal receipt, for the refresh changes neither.
LEMMA ResumeMoves ==
  ASSUME MarketInv, NEW h \in Handlers, Resume(h)
  PROVE  /\ UNCHANGED pending /\ SameRecord
         /\ Harmless(req'[h]) \/ (req'[h].pc = "write" /\ NoReleaseYet)
<1> DEFINE r == Refreshed(h)
           op == req[h].op
           c == [Idle EXCEPT !.op = op, !.submission = r.submission]
<1>1. h \in Procs /\ RouterTypeOK /\ task \in TaskRecords({Submission})
  BY DEF Procs, MarketInv, RouterTypeOK
<1>2. req[h].pc = "refresh" /\ op \in ApiRequests /\ UNCHANGED pending
      /\ req \in [Procs -> Continuations]
  BY <1>1 DEF Resume, RequestsInv, Stage, MarketInv, RouterTypeOK, Procs
<1>3. /\ r \in TaskRecords({Submission}) /\ r.history = task.history
      /\ r.dispute = task.dispute
      /\ r.submission \in {Submission, NoSubmission, LocalSubmission}
  BY <1>1, RefreshedEffect DEF TaskRecords
<1>4. c \in Continuations /\ c.op = op
  <2> HIDE DEF r, op
  <2> QED
    BY <1>2, <1>3 DEF Idle, Continuations
<1>5. Idle \in Continuations /\ Idle.pc = "idle"
  BY FreshStage DEF Idle
<1>6. \/ task' = r /\ Finish(h)
      \/ /\ Guard(op, r)
         /\ FirstCall(op, r) # NoCall
         /\ task' = Prepared(op, r)
         /\ Continue(h, [c EXCEPT !.pc = "write", !.call = FirstCall(op, r)])
      \/ task' = r /\ Continue(h, [c EXCEPT !.pc = "evaluate"])
      \/ task' = Accepted(Picked(r), r.status = "OPEN") /\ Finish(h)
  BY DEF Resume
<1>7. ASSUME NEW d \in Continuations, Continue(h, d)
      PROVE  req'[h] = d
  BY <1>1, <1>2, <1>7 DEF Continue
<1> HIDE DEF r, op, c
<1>8. CASE task' = r /\ Finish(h)
  <2>1. req'[h] = Idle
    BY <1>5, <1>7, <1>8 DEF Finish
  <2> QED
    BY <1>2, <1>3, <1>5, <1>8, <2>1 DEF Harmless, SameRecord
<1>9. CASE /\ Guard(op, r)
           /\ FirstCall(op, r) # NoCall
           /\ task' = Prepared(op, r)
           /\ Continue(h, [c EXCEPT !.pc = "write", !.call = FirstCall(op, r)])
  <2> DEFINE call == FirstCall(op, r)
             d == [c EXCEPT !.pc = "write", !.call = call]
  <2>1. call \in ContractCalls
    BY <1>2, <1>9, FirstCallBelongs
  <2> HIDE DEF call
  <2>2. d \in Continuations /\ d.pc = "write" /\ d.op = op
    BY <1>4, <2>1 DEF Continuations
  <2> HIDE DEF d
  <2>3. req'[h] = d
    BY <1>7, <1>9, <2>2 DEF d, call
  <2>4. SameRecord
    <3>1. Prepared(op, r) \in {r, Picked(r), AppealOpened(r)}
      BY DEF Prepared
    <3>2. Picked(r).history = r.history /\ Picked(r).dispute = r.dispute
      BY <1>3 DEF Picked, Joined, TaskRecords
    <3>3. SameStanding(AppealOpened(r), r)
      BY <1>3, ReviewEffect
    <3> QED
      BY <1>3, <1>9, <3>1, <3>2, <3>3 DEF SameStanding, SameRecord
  <2>5. op \in Releases => NoReleaseYet
    <3>1. op \in Releases => r.dispute # "open" /\ ~hasTerminalReceipt(r.history)
      BY <1>9 DEF Guard, MaySettle, MayRefund, assertNotTerminal, Releases
    <3>2. hasTerminalReceipt(task.history) <=> TerminalIn(task) > 0
      BY <1>1, ReceiptCount
    <3>3. TerminalIn(task) \in Nat
      BY <1>1, ReceiptCount
    <3> QED
      BY <1>3, <3>1, <3>2, <3>3 DEF NoReleaseYet
  <2> QED
    BY <1>2, <2>2, <2>3, <2>4, <2>5 DEF Harmless
<1>10. CASE task' = r /\ Continue(h, [c EXCEPT !.pc = "evaluate"])
  <2> DEFINE d == [c EXCEPT !.pc = "evaluate"]
  <2>1. d \in Continuations /\ d.pc = "evaluate"
    BY <1>4 DEF Continuations
  <2> HIDE DEF d
  <2>2. req'[h] = d
    BY <1>7, <1>10, <2>1 DEF d
  <2> QED
    BY <1>2, <1>3, <1>10, <2>1, <2>2 DEF Harmless, SameRecord
<1>11. CASE task' = Accepted(Picked(r), r.status = "OPEN") /\ Finish(h)
  <2>1. req'[h] = Idle
    BY <1>5, <1>7, <1>11 DEF Finish
  <2> DEFINE k == Picked(r)
             wasOpen == r.status = "OPEN"
  <2>2. k \in TaskRecords({Submission}) /\ k.history = r.history /\ k.dispute = r.dispute
    BY <1>3 DEF Picked, Joined, TaskRecords
  <2>3. wasOpen \in BOOLEAN /\ task' = Accepted(k, wasOpen)
    BY <1>11
  <2> HIDE DEF k, wasOpen
  <2>4. SameStanding(Accepted(k, wasOpen), k)
    BY <2>2, <2>3, AcceptEffect
  <2> QED
    BY <1>2, <1>3, <1>5, <2>1, <2>2, <2>3, <2>4 DEF Harmless, SameRecord, SameStanding
<1> QED
  BY <1>6, <1>8, <1>9, <1>10, <1>11 DEF r, op, c

\* What a step of the market with one handler does to the record and to the
\* handler's request.
LEMMA HandlerStep ==
  ASSUME NEW h, Handlers = {h}, MarketInv, [Next]_vars
  PROVE  \/ Complete(h)
         \/ /\ SameRecord
            /\ \/ Mine
               \/ \E p \in Procs : Send(p)
               \/ /\ UNCHANGED pending
                  /\ \/ req'[h] = req[h]
                     \/ Harmless(req'[h])
                     \/ req'[h].pc = "write" /\ NoReleaseYet
<1> DEFINE Moves == /\ UNCHANGED pending
                    /\ \/ req'[h] = req[h]
                       \/ Harmless(req'[h])
                       \/ req'[h].pc = "write" /\ NoReleaseYet
<1>1. /\ h \in Handlers /\ h \in Procs /\ h # Engine /\ Procs = {h, Engine}
      /\ req \in [Procs -> Continuations] /\ task \in TaskRecords({Submission})
      /\ RequestsInv
  BY MarketConstants DEF Procs, MarketInv, RouterTypeOK
<1>2. ASSUME NEW p \in Procs, NEW d, Continue(p, d)
      PROVE  /\ p = h => req'[h] = d
             /\ p # h => req'[h] = req[h]
  BY <1>1, <1>2 DEF Continue
<1>3. Idle.pc = "idle" /\ Harmless(Idle)
  BY DEF Idle, Harmless
<1>4. ASSUME NEW p \in Procs, Throw(p)
      PROVE  SameRecord /\ Moves
  <2>1. UNCHANGED <<task, pending>> /\ Continue(p, Idle)
    BY <1>4 DEF Throw, Finish
  <2> QED
    BY <1>2, <1>3, <2>1 DEF SameRecord
<1>5. ASSUME Complete(Engine)
      PROVE  SameRecord /\ Moves
  BY <1>1, <1>5, CompleteMoves
<1>6. ASSUME Evaluate(h)
      PROVE  SameRecord /\ Moves
  <2> DEFINE c == req[h]
  <2>1. c \in Continuations /\ UNCHANGED pending
    BY <1>1, <1>6 DEF Evaluate
  <2>2. CASE c.op = "advise" /\ Answer(h, c, task)
    <3>1. task' = Effect(c, task) /\ Continue(h, Idle)
      BY <2>2 DEF Answer, Finish
    <3>2. req'[h] = Idle
      BY <1>1, <1>2, <3>1
    <3> HIDE DEF c
    <3>3. SameRecord
      BY <1>1, <2>1, <2>2, <3>1, AnswerRecord DEF SameRecord
    <3> QED
      BY <1>3, <2>1, <3>2, <3>3
  <2>3. ASSUME NEW outcome \in ConsensusOutcomes, c.op = "appeal",
               Continue(h, [c EXCEPT !.pc = "write", !.call = "finalize_review",
                                     !.outcome = outcome]),
               UNCHANGED task
        PROVE  SameRecord /\ Moves
    <3> DEFINE d == [c EXCEPT !.pc = "write", !.call = "finalize_review", !.outcome = outcome]
    <3>1. d.pc = "write" /\ d.op = "appeal"
      BY <2>1, <2>3 DEF Continuations
    <3> HIDE DEF d
    <3>2. req'[h] = d
      BY <1>1, <1>2, <2>3 DEF d
    <3> QED
      BY <2>1, <2>3, <3>1, <3>2 DEF SameRecord, Harmless, Releases
  <2> QED
    BY <1>6, <2>2, <2>3 DEF Evaluate
<1>7. ASSUME NEW op \in ApiRequests, Begin(h, op)
      PROVE  SameRecord /\ Moves
  <2>1. UNCHANGED <<task, pending>>
    BY <1>7 DEF Begin
  <2>2. PICK seen : Continue(h, [Idle EXCEPT !.pc = "refresh", !.op = op, !.seen = seen])
    BY <1>7 DEF Begin
  <2> DEFINE d == [Idle EXCEPT !.pc = "refresh", !.op = op, !.seen = seen]
  <2>3. d.pc = "refresh"
    BY DEF Idle
  <2> HIDE DEF d
  <2>4. req'[h] = d
    BY <1>1, <1>2, <2>2 DEF d
  <2> QED
    BY <2>1, <2>3, <2>4 DEF SameRecord, Harmless
<1>8. ASSUME NEW funding \in BOOLEAN, NEW assignment \in BOOLEAN,
             syncTaskWithChain(h, funding, assignment)
      PROVE  SameRecord /\ Moves
  <2> DEFINE r == Synced(task, funding, assignment)
             c == [Idle EXCEPT !.op = "auto"]
             d == [c EXCEPT !.pc = "write", !.call = "assign_task"]
  <2>1. /\ r \in TaskRecords({Submission}) /\ r.history = task.history
        /\ r.dispute = task.dispute
    BY <1>1, SyncEffect
  <2>2. /\ UNCHANGED pending
        /\ \/ task' = r /\ UNCHANGED req
           \/ task' = Picked(r) /\ Continue(h, d)
           \/ Answer(h, c, r)
    BY <1>8 DEF syncTaskWithChain
  <2>3. c \in Continuations /\ c.op = "auto"
    BY DEF Idle, Continuations
  <2>4. Picked(r).history = r.history /\ Picked(r).dispute = r.dispute
    BY <2>1 DEF Picked, Joined, TaskRecords
  <2>5. d.pc = "write" /\ d.op = "auto"
    BY DEF Idle
  <2>6. Answer(h, c, r) => task' = Effect(c, r) /\ Continue(h, Idle)
    BY DEF Answer, Finish
  <2>7. CASE Answer(h, c, r)
    <3> HIDE DEF c, r, d
    <3>1. req'[h] = Idle
      BY <1>1, <1>2, <2>6, <2>7
    <3>2. LET m == Effect(c, r) IN m.dispute = r.dispute /\ m.history = r.history
      BY <2>1, <2>3, AnswerRecord
    <3>3. SameRecord
      BY <2>1, <2>6, <2>7, <3>2 DEF SameRecord
    <3> QED
      BY <1>3, <2>2, <3>1, <3>3
  <2>8. CASE task' = Picked(r) /\ Continue(h, d)
    <3> HIDE DEF c, r, d
    <3>1. req'[h] = d
      BY <1>1, <1>2, <2>8
    <3> QED
      BY <2>1, <2>2, <2>4, <2>5, <2>8, <3>1 DEF SameRecord, Harmless, Releases
  <2> HIDE DEF c, r, d
  <2>9. CASE task' = r /\ UNCHANGED req
    BY <2>1, <2>2, <2>9 DEF SameRecord
  <2> QED
    BY <2>2, <2>7, <2>8, <2>9
<1>9. ASSUME EngineStart \/ EngineSubmit
      PROVE  SameRecord /\ Moves
  <2>1. /\ UNCHANGED <<task, pending>>
        /\ UNCHANGED req \/ \E d : Continue(Engine, d)
    BY <1>9 DEF EngineStart, EngineSubmit
  <2> QED
    BY <1>1, <1>2, <2>1 DEF SameRecord, Procs
<1>10. ASSUME EngineFail
       PROVE  SameRecord /\ Moves
  <2>1. UNCHANGED <<req, pending>> /\ task' = ExecutionFailed(task)
    BY <1>10 DEF EngineFail
  <2>2. NoSubmission \in {Submission} \cup {NoSubmission}
    OBVIOUS
  <2>3. SameStanding(ExecutionFailed(task), task)
    BY <1>1, <2>2, EngineEffect
  <2> QED
    BY <2>1, <2>3 DEF SameRecord, SameStanding
<1>11. BrowserWrite \/ pauseTask \/ UNCHANGED vars => SameRecord /\ Moves
  BY DEF BrowserWrite, pauseTask, vars, SameRecord
<1>12. Mine => SameRecord
  BY DEF Mine, SameRecord
<1>13. ASSUME NEW p \in Procs, Send(p)
       PROVE  SameRecord
  BY <1>13 DEF Send, SameRecord
<1>14. ASSUME Resume(h)
       PROVE  SameRecord /\ Moves
  BY <1>1, <1>14, ResumeMoves
<1>15. ASSUME NEW p \in Procs, Advance(p)
       PROVE  Complete(h) \/ (SameRecord /\ Moves) \/ (SameRecord /\ \E q \in Procs : Send(q))
  <2>1. Complete(p) => Complete(h) \/ Complete(Engine)
    BY <1>1
  <2>2. p \in Handlers => p = h
    OBVIOUS
  <2> HIDE DEF Moves
  <2> QED
    BY <1>4, <1>5, <1>6, <1>13, <1>14, <1>15, <2>1, <2>2 DEF Advance
<1> HIDE DEF Moves
<1>16. \/ Complete(h)
       \/ SameRecord /\ (Moves \/ Mine \/ \E q \in Procs : Send(q))
  BY <1>1, <1>7, <1>8, <1>9, <1>10, <1>11, <1>12, <1>15 DEF Next
<1> QED
  BY <1>16 DEF Moves

-----------------------------------------------------------------------------

\* The handler's transaction is younger than every settlement and refund of the
\* creator's that waits to be mined.
Youngest(h) ==
  \E i \in 1 .. Len(pending) :
    /\ pending[i].by = h
    /\ \A j \in 1 .. Len(pending) : pending[j].tx.op \in Releases => j <= i

\* A dispute, now or after a restart, is at odds with every settlement and refund
\* under way.
DisputeExcludes(h) ==
  task.dispute = "open" \/ saved.task.dispute = "open" =>
    /\ ~ReleaseQueued
    /\ ~(req[h].pc \in {"write", "sent"} /\ req[h].op \in Releases)

DisputedInv(h) ==
  /\ req[h].pc = "sent" => Youngest(h)
  /\ req[h].pc = "mined" => ~ReleaseQueued
  /\ DisputeExcludes(h)
  /\ saved.task.dispute = "open" => task.dispute = "open" \/ TerminalIn(task) > 0

\* What the queue is to a request that sends, and to one that is mined.

\* What a transaction that is sent adds to the queue.
LEMMA SendAdds ==
  ASSUME NEW h, Handlers = {h}, MarketInv, NEW p \in Procs, Send(p)
  PROVE  /\ UNCHANGED task
         /\ ReleaseQueued' => ReleaseQueued \/ (p = h /\ req[h].op \in Releases)
         /\ p = h => /\ req[h].pc = "write" /\ req'[h].pc = "sent"
                     /\ req'[h].op = req[h].op /\ Youngest(h)'
         /\ p # h => req'[h] = req[h] /\ (Youngest(h) => Youngest(h)')
<1> DEFINE e == [by |-> p, tx |-> req[p]]
<1>1. /\ h \in Procs /\ Procs = {h, Engine} /\ h # Engine
      /\ req \in [Procs -> Continuations] /\ pending \in Seq(Entries)
      /\ Stage(p, req[p]) /\ req[p] \in Continuations
  BY MarketConstants DEF Procs, MarketInv, RouterTypeOK, RequestsInv
<1>2. /\ req[p].pc = "write" /\ UNCHANGED task /\ pending' = Append(pending, e)
      /\ req' = [req EXCEPT ![p] = [req[p] EXCEPT !.pc = "sent"]]
  BY DEF Send, Continue
<1>3. p # h => req[p].op \notin Releases
  BY <1>1 DEF Stage, EngineOps, Releases
<1>4. e \in Entries /\ e.by = p /\ e.tx = req[p]
  BY <1>1 DEF Entries
<1> HIDE DEF e
<1>5. /\ Len(pending) \in Nat /\ Len(pending') = Len(pending) + 1
      /\ \A i \in 1 .. Len(pending) : pending'[i] = pending[i]
      /\ pending'[Len(pending) + 1] = e
  BY <1>1, <1>2, <1>4, AppendProperties, LenProperties
<1>6. \A k \in 1 .. Len(pending') : k \in 1 .. Len(pending) \/ k = Len(pending) + 1
  BY <1>5
<1>7. ReleaseQueued' => ReleaseQueued \/ (p = h /\ req[h].op \in Releases)
  BY <1>3, <1>4, <1>5, <1>6 DEF ReleaseQueued
<1>8. CASE p = h
  <2>1. req'[h].pc = "sent" /\ req'[h].op = req[h].op
    BY <1>1, <1>2, <1>8 DEF Continuations
  <2>2. Youngest(h)'
    <3>1. /\ Len(pending) + 1 \in 1 .. Len(pending') /\ pending'[Len(pending) + 1].by = h
          /\ \A j \in 1 .. Len(pending') : j <= Len(pending) + 1
      BY <1>4, <1>5, <1>8
    <3> QED
      BY <3>1 DEF Youngest
  <2> QED
    BY <1>2, <1>7, <1>8, <2>1, <2>2
<1>9. CASE p # h
  <2>1. req'[h] = req[h]
    BY <1>1, <1>2, <1>9
  <2>2. Youngest(h) => Youngest(h)'
    <3>1. SUFFICES ASSUME NEW i \in 1 .. Len(pending), pending[i].by = h,
                          \A j \in 1 .. Len(pending) : pending[j].tx.op \in Releases => j <= i
                   PROVE  Youngest(h)'
      BY DEF Youngest
    <3>2. i \in 1 .. Len(pending') /\ pending'[i].by = h
      BY <1>5, <3>1
    <3>3. \A j \in 1 .. Len(pending') : pending'[j].tx.op \in Releases => j <= i
      BY <1>3, <1>4, <1>5, <1>6, <1>9, <3>1
    <3> QED
      BY <3>2, <3>3 DEF Youngest
  <2> QED
    BY <1>2, <1>7, <1>9, <2>1, <2>2
<1> QED
  BY <1>8, <1>9

\* The wallet's transactions are mined in their order: with the handler's own
\* mined, none of the creator's settlements and refunds is left.
LEMMA MineRemoves ==
  ASSUME NEW h, Handlers = {h}, MarketInv, Mine
  PROVE  /\ UNCHANGED task
         /\ ReleaseQueued' => ReleaseQueued
         /\ \/ /\ req[h].pc = "sent" /\ req'[h].pc = "mined" /\ req'[h].op = req[h].op
               /\ Youngest(h) => ~ReleaseQueued'
            \/ req'[h] = req[h] /\ (Youngest(h) => Youngest(h)')
<1> DEFINE p == Head(pending).by
           c == [req[p] EXCEPT !.pc = "mined"]
<1>1. /\ h \in Procs /\ req \in [Procs -> Continuations] /\ pending # <<>>
      /\ RouterTypeOK /\ RequestsInv /\ QueueInv /\ UNCHANGED task
  BY DEF Procs, MarketInv, RouterTypeOK, Mine
<1>2. /\ 1 \in 1 .. Len(pending) /\ Head(pending) = pending[1]
      /\ Len(Tail(pending)) = Len(pending) - 1 /\ Len(pending) \in Nat
      /\ \A i \in 1 .. Len(Tail(pending)) :
           Tail(pending)[i] = pending[i + 1] /\ i + 1 \in 1 .. Len(pending) /\ i + 1 # 1
  BY <1>1, OldestPending
<1>3. /\ pending' = Tail(pending)
      /\ p \notin Procs => req' = req
      /\ p \in Procs => req[p].pc = "sent" /\ req' = [req EXCEPT ![p] = c]
  BY <1>1, MineMoves
<1> HIDE DEF c
<1>4. ReleaseQueued' => ReleaseQueued
  BY <1>2, <1>3 DEF ReleaseQueued
<1>5. CASE p = h
  <2>1. req[h].pc = "sent" /\ req'[h] = c
    BY <1>1, <1>3, <1>5
  <2>2. c.pc = "mined" /\ c.op = req[h].op
    BY <1>1, <1>5 DEF c, Continuations
  <2>3. Youngest(h) => ~ReleaseQueued'
    <3>1. SUFFICES ASSUME NEW i \in 1 .. Len(pending), pending[i].by = h,
                          \A j \in 1 .. Len(pending) : pending[j].tx.op \in Releases => j <= i
                   PROVE  ~ReleaseQueued'
      BY DEF Youngest
    <3>2. i = 1
      BY <1>1, <1>2, <1>5, <3>1 DEF QueueInv
    <3>3. \A j \in 1 .. Len(pending) : pending[j].tx.op \in Releases => j = 1
      BY <3>1, <3>2
    <3> QED
      BY <1>2, <1>3, <3>3 DEF ReleaseQueued
  <2> QED
    BY <1>1, <1>4, <2>1, <2>2, <2>3
<1>6. CASE p # h
  <2>1. req'[h] = req[h]
    BY <1>1, <1>3, <1>6
  <2>2. Youngest(h) => Youngest(h)'
    <3>1. SUFFICES ASSUME NEW i \in 1 .. Len(pending), pending[i].by = h,
                          \A j \in 1 .. Len(pending) : pending[j].tx.op \in Releases => j <= i
                   PROVE  Youngest(h)'
      BY DEF Youngest
    <3>2. i # 1
      BY <1>2, <1>6, <3>1
    <3>3. /\ i - 1 \in 1 .. Len(pending') /\ pending'[i - 1] = pending[i]
      BY <1>2, <1>3, <3>2
    <3>4. \A j \in 1 .. Len(pending') : pending'[j].tx.op \in Releases => j <= i - 1
      <4>1. SUFFICES ASSUME NEW j \in 1 .. Len(pending'), pending'[j].tx.op \in Releases
                     PROVE  j <= i - 1
        OBVIOUS
      <4>2. j + 1 \in 1 .. Len(pending) /\ pending[j + 1].tx.op \in Releases
        BY <1>2, <1>3, <4>1
      <4>3. j + 1 <= i
        BY <3>1, <4>2
      <4> QED
        BY <1>2, <4>1, <4>2, <4>3
    <3> QED
      BY <3>1, <3>3, <3>4 DEF Youngest
  <2> QED
    BY <1>1, <1>4, <2>1, <2>2
<1> QED
  BY <1>5, <1>6

\* A timeout and a restart forget who waits, and leave the queue as it was.
LEMMA ForgetKeeps ==
  ASSUME NEW h, Handlers = {h}, MarketInv, Restart \/ \E p \in Procs : GiveUp(p)
  PROVE  /\ ReleaseQueued' => ReleaseQueued
         /\ \/ req'[h] = Idle
            \/ req'[h] = req[h] /\ (Youngest(h) => Youngest(h)')
<1>1. /\ h \in Procs /\ req \in [Procs -> Continuations] /\ RouterTypeOK /\ QueueInv
      /\ DOMAIN pending = 1 .. Len(pending)
  BY LenProperties DEF Procs, MarketInv, RouterTypeOK
<1>2. ASSUME pending' = [i \in DOMAIN pending |-> pending'[i]],
             \A i \in DOMAIN pending :
               \/ pending'[i] = pending[i]
               \/ pending'[i] = [pending[i] EXCEPT !.by = "nobody"]
      PROVE  /\ Len(pending') = Len(pending) /\ ReleaseQueued' => ReleaseQueued
  <2>1. /\ Len(pending') = Len(pending)
        /\ \A i \in 1 .. Len(pending) : pending'[i].tx = pending[i].tx
    BY <1>1, <1>2, DisownKeeps
  <2> QED
    BY <2>1 DEF ReleaseQueued
<1>3. CASE Restart
  <2>1. /\ pending' = [i \in DOMAIN pending |-> [pending[i] EXCEPT !.by = "nobody"]]
        /\ req' = [p \in Procs |-> Idle]
    BY <1>3 DEF Restart
  <2> QED
    BY <1>1, <1>2, <2>1
<1>4. ASSUME NEW p \in Procs, GiveUp(p)
      PROVE  /\ ReleaseQueued' => ReleaseQueued
             /\ \/ req'[h] = Idle
                \/ req'[h] = req[h] /\ (Youngest(h) => Youngest(h)')
  <2>1. /\ pending' = [i \in DOMAIN pending |->
                         IF pending[i].by = p THEN [pending[i] EXCEPT !.by = "nobody"]
                         ELSE pending[i]]
        /\ req' = [req EXCEPT ![p] = Idle]
    BY <1>4 DEF GiveUp, Finish, Continue
  <2>2. Len(pending') = Len(pending) /\ (ReleaseQueued' => ReleaseQueued)
    BY <1>1, <1>2, <2>1
  <2>3. CASE p = h
    BY <1>1, <2>1, <2>2, <2>3
  <2>4. CASE p # h
    <3>1. \A i \in 1 .. Len(pending) :
            /\ pending[i].by = h => pending'[i] = pending[i]
            /\ pending'[i].tx = pending[i].tx
      <4>1. pending' = [i \in DOMAIN pending |-> pending'[i]]
            /\ \A i \in DOMAIN pending :
                 \/ pending'[i] = pending[i]
                 \/ pending'[i] = [pending[i] EXCEPT !.by = "nobody"]
        BY <2>1
      <4> QED
        BY <1>1, <2>1, <2>4, <4>1, DisownKeeps
    <3>2. Youngest(h) => Youngest(h)'
      BY <2>2, <3>1 DEF Youngest
    <3> QED
      BY <1>1, <2>1, <2>2, <2>4, <3>2
  <2> QED
    BY <2>3, <2>4
<1> QED
  BY <1>3, <1>4

\* No step, not even of a process that forgets, opens a dispute over a settlement
\* or a refund that is under way, nor lets one pass over a dispute.
LEMMA DisputeStep ==
  ASSUME NEW h, Handlers = {h}, MarketInv, SnapshotOK, DisputedInv(h),
         [RestartNext]_restartVars
  PROVE  DisputedInv(h)'
<1> DEFINE c == req[h]
           SavedOpen == saved.task.dispute = "open"
<1>1. /\ h \in Procs /\ task \in TaskRecords({Submission}) /\ TerminalIn(task) \in Nat
  BY ReceiptCount DEF Procs, MarketInv, RouterTypeOK
<1>2. CASE [Next]_vars /\ UNCHANGED saved
  <2>1. CASE Complete(h)
    <3>1. /\ c.pc = "mined" /\ ~ReleaseQueued /\ ~ReleaseQueued' /\ Harmless(req'[h])
          /\ TerminalIn(task') >= TerminalIn(task)
          /\ task.dispute = "open" => task'.dispute = "open" \/ TerminalIn(task') > 0
      BY <1>1, <2>1, CompleteMoves DEF DisputedInv, ReleaseQueued
    <3>2. MarketInv'
      BY <1>2, MarketStep
    <3>3. TerminalIn(task') \in Nat
      BY <3>2, ReceiptCount DEF MarketInv, RouterTypeOK
    <3>4. SavedOpen => task'.dispute = "open" \/ TerminalIn(task') > 0
      BY <1>1, <3>1, <3>3 DEF DisputedInv
    <3> QED
      BY <1>2, <3>1, <3>4 DEF DisputedInv, DisputeExcludes, Harmless
  <2>2. CASE SameRecord /\ ~Complete(h)
    <3>1. task'.dispute = task.dispute /\ TerminalIn(task') = TerminalIn(task)
      BY <2>2 DEF SameRecord, TerminalIn, PaidIn, RefundedIn
    <3>2. NoReleaseYet => task.dispute # "open" /\ ~SavedOpen
      BY <1>1 DEF NoReleaseYet, DisputedInv
    <3>3. CASE Mine
      BY <1>2, <3>1, <3>3, MineRemoves DEF DisputedInv, DisputeExcludes
    <3>4. ASSUME NEW p \in Procs, Send(p)
          PROVE  DisputedInv(h)'
      BY <1>2, <3>1, <3>4, SendAdds DEF DisputedInv, DisputeExcludes
    <3>5. CASE /\ UNCHANGED pending
               /\ \/ req'[h] = req[h]
                  \/ Harmless(req'[h])
                  \/ req'[h].pc = "write" /\ NoReleaseYet
      BY <1>2, <3>1, <3>2, <3>5
         DEF DisputedInv, DisputeExcludes, Harmless, Youngest, ReleaseQueued
    <3> QED
      BY <1>2, <2>2, <3>3, <3>4, <3>5, HandlerStep
  <2> QED
    BY <1>2, <2>1, <2>2, HandlerStep
<1>3. CASE \E p \in Procs : GiveUp(p)
  <2>1. UNCHANGED <<task, saved>>
    BY <1>3 DEF GiveUp
  <2> QED
    BY <1>3, <2>1, ForgetKeeps DEF DisputedInv, DisputeExcludes, Idle, TerminalIn, PaidIn,
       RefundedIn
<1>4. CASE Persist
  <2>1. UNCHANGED <<task, req, pending>> /\ saved'.task = task
    BY <1>4 DEF Persist, vars, Stored
  <2> QED
    BY <2>1 DEF DisputedInv, DisputeExcludes, Youngest, ReleaseQueued
<1>5. CASE Restart
  <2>1. task' = saved.task /\ UNCHANGED saved /\ req'[h] = Idle
    BY <1>1, <1>5 DEF Restart
  <2> QED
    BY <1>5, <2>1, ForgetKeeps DEF DisputedInv, DisputeExcludes, Idle
<1>6. CASE UNCHANGED restartVars
  BY <1>2, <1>6 DEF restartVars
<1> QED
  BY <1>2, <1>3, <1>4, <1>5, <1>6 DEF RestartNext, TimeoutNext

\* The same at the start.
LEMMA InitiallyUndisputed ==
  ASSUME NEW h, Handlers = {h}
  PROVE  RestartInit => DisputedInv(h)
<1>1. SUFFICES ASSUME RestartInit PROVE DisputedInv(h)
  OBVIOUS
<1>2. /\ req[h].pc = "idle" /\ pending = <<>>
      /\ task.dispute = "none" /\ saved.task = task
  BY <1>1 DEF RestartInit, Init, Procs, Idle, Stored, buildTaskDetail
<1>3. Len(pending) = 0
  BY <1>2
<1>4. ~ReleaseQueued
  BY <1>3 DEF ReleaseQueued
<1> QED
  BY <1>2, <1>4 DEF DisputedInv, DisputeExcludes

LEMMA DisputesHold ==
  ASSUME NEW h, Handlers = {h}
  PROVE  RestartSpec => [](MarketInv /\ SnapshotOK /\ DisputedInv(h))
<1>1. MarketInv /\ SnapshotOK /\ DisputedInv(h) /\ [RestartNext]_restartVars => DisputedInv(h)'
  BY DisputeStep
<1> QED
  BY <1>1, InitiallyUndisputed, RestartInvariant, PTL DEF RestartSpec

\* Money leaves by the oldest transaction of the queue, which no dispute waits for.
LEMMA MoneyIsQueued ==
  ASSUME MarketInv, [RestartNext]_restartVars,
         <<toAgent, toCreator>>' # <<toAgent, toCreator>>
  PROVE  pending # <<>> /\ Head(pending) = pending[1] /\ 1 \in 1 .. Len(pending)
<1>1. Persist \/ Restart \/ (\E p \in Procs : GiveUp(p)) \/ UNCHANGED restartVars =>
        UNCHANGED <<toAgent, toCreator>>
  BY DEF Persist, Restart, GiveUp, restartVars, vars, chain, arcVars
<1>2. [Next]_vars
  BY <1>1 DEF RestartNext, TimeoutNext
<1>3. UNCHANGED chain \/ BrowserWrite => UNCHANGED <<toAgent, toCreator>>
  BY DEF chain, arcVars, BrowserWrite, Arc!create_task, Arc!fund_task, Arc!assign_task,
         Arc!money
<1>4. Mine
  BY <1>2, <1>3, ChainStep
<1> QED
  BY <1>4, OldestPending DEF Mine, MarketInv

\* One handler, whatever it is asked and however often it times out, dies and
\* restarts: no settlement pays the agent while a dispute is open.
THEOREM NoPayoutAcrossRestarts ==
  ASSUME NEW h, Handlers = {h}
  PROVE  RestartSpec => NoPayoutInDispute
<1>1. ASSUME MarketInv, DisputedInv(h), [RestartNext]_restartVars
      PROVE  [toAgent' # toAgent /\ Head(pending).tx.op = "settle" => task.dispute # "open"]_vars
  BY <1>1, MoneyIsQueued DEF DisputedInv, DisputeExcludes, ReleaseQueued, Releases
<1> QED
  BY <1>1, DisputesHold, PTL DEF RestartSpec, NoPayoutInDispute

\* The same of the creator's refunds.
THEOREM NoRefundAcrossRestarts ==
  ASSUME NEW h, Handlers = {h}
  PROVE  RestartSpec => NoRefundInDispute
<1>1. ASSUME MarketInv, DisputedInv(h), [RestartNext]_restartVars
      PROVE  [toCreator' # toCreator /\ Head(pending).tx.op = "refund" => task.dispute # "open"]_vars
  BY <1>1, MoneyIsQueued DEF DisputedInv, DisputeExcludes, ReleaseQueued, Releases
<1> QED
  BY <1>1, DisputesHold, PTL DEF RestartSpec, NoRefundInDispute

-----------------------------------------------------------------------------

\* A handler works on what was requested of it.
LEMMA OpsRequested ==
  ASSUME NEW h, Handlers = {h}, MarketInv, [RestartNext]_restartVars
  PROVE  req'[h].op \in {req[h].op, "none", "auto"} \cup Requests
<1> DEFINE Fits == req'[h].op \in {req[h].op, "none", "auto"} \cup Requests
<1>1. /\ h \in Procs /\ Procs = {h, Engine} /\ h # Engine
      /\ req \in [Procs -> Continuations] /\ req[h] \in Continuations
  BY MarketConstants DEF Procs, MarketInv, RouterTypeOK
<1>2. ASSUME NEW p \in Procs, NEW d, Continue(p, d),
             p = h => d.op \in {req[h].op, "none", "auto"} \cup Requests
      PROVE  Fits
  BY <1>1, <1>2 DEF Continue
<1>3. Idle.op = "none"
  BY DEF Idle
<1>4. ASSUME NEW p \in Procs, Finish(p)
      PROVE  Fits
  BY <1>2, <1>3, <1>4 DEF Finish
<1>5. ASSUME NEW p \in Procs, NEW d, Continue(p, d), d.op = req[p].op
      PROVE  Fits
  BY <1>2, <1>5
<1>6. UNCHANGED req => Fits
  OBVIOUS
<1> HIDE DEF Fits
<1>7. ASSUME NEW p \in Procs, Send(p) \/ Throw(p) \/ Complete(p) \/ Evaluate(p)
      PROVE  Fits
  <2> DEFINE c == req[p]
  <2>1. c \in Continuations
    BY <1>1
  <2>2. \/ Finish(p)
        \/ Continue(p, [c EXCEPT !.pc = "sent"])
        \/ Continue(p, [c EXCEPT !.pc = "evaluate", !.call = NoCall])
        \/ \E call : Continue(p, [c EXCEPT !.pc = "write", !.call = call])
        \/ \E outcome : Continue(p, [c EXCEPT !.pc = "write", !.call = "finalize_review",
                                              !.outcome = outcome])
    BY <1>7 DEF Send, Throw, Complete, Evaluate, Answer
  <2>3. /\ [c EXCEPT !.pc = "sent"].op = c.op
        /\ [c EXCEPT !.pc = "evaluate", !.call = NoCall].op = c.op
        /\ \A call : [c EXCEPT !.pc = "write", !.call = call].op = c.op
        /\ \A outcome : [c EXCEPT !.pc = "write", !.call = "finalize_review",
                                  !.outcome = outcome].op = c.op
    BY <2>1 DEF Continuations
  <2> QED
    BY <1>4, <1>5, <2>2, <2>3
<1>8. ASSUME Resume(h)
      PROVE  Fits
  <2> DEFINE op == req[h].op
             c == [Idle EXCEPT !.op = op, !.submission = Refreshed(h).submission]
             call == FirstCall(op, Refreshed(h))
  <2>1. \/ Finish(h)
        \/ Continue(h, [c EXCEPT !.pc = "write", !.call = call])
        \/ Continue(h, [c EXCEPT !.pc = "evaluate"])
    BY <1>8 DEF Resume
  <2>2. /\ [c EXCEPT !.pc = "write", !.call = call].op = op
        /\ [c EXCEPT !.pc = "evaluate"].op = op
    BY DEF Idle
  <2> HIDE DEF c, call
  <2> QED
    BY <1>1, <1>4, <1>5, <2>1, <2>2
<1>9. ASSUME NEW op \in Requests, Begin(h, op)
      PROVE  Fits
  <2>1. PICK seen : Continue(h, [Idle EXCEPT !.pc = "refresh", !.op = op, !.seen = seen])
    BY <1>9 DEF Begin
  <2>2. [Idle EXCEPT !.pc = "refresh", !.op = op, !.seen = seen].op = op
    BY DEF Idle
  <2> QED
    BY <1>1, <1>2, <2>1, <2>2
<1>10. ASSUME NEW funding, NEW assignment, syncTaskWithChain(h, funding, assignment)
       PROVE  Fits
  <2> DEFINE d == [[Idle EXCEPT !.op = "auto"] EXCEPT !.pc = "write", !.call = "assign_task"]
  <2>1. UNCHANGED req \/ Finish(h) \/ Continue(h, d)
    BY <1>10 DEF syncTaskWithChain, Answer
  <2>2. d.op = "auto"
    BY DEF Idle
  <2> HIDE DEF d
  <2> QED
    BY <1>1, <1>2, <1>4, <1>6, <2>1, <2>2
<1>11. ASSUME EngineStart \/ EngineSubmit
       PROVE  Fits
  <2>1. UNCHANGED req \/ \E d : Continue(Engine, d)
    BY <1>11 DEF EngineStart, EngineSubmit
  <2> QED
    BY <1>1, <1>2, <1>6, <2>1
<1>12. ASSUME Mine
       PROVE  Fits
  <2> DEFINE p == Head(pending).by
             d == [req[p] EXCEPT !.pc = "mined"]
  <2>1. req' = req \/ (p \in Procs /\ d.op = req[p].op /\ req' = [req EXCEPT ![p] = d])
    <3>1. p \in Procs => req[p] \in Continuations
      <4> HIDE DEF p
      <4> QED
        BY <1>1
    <3>2. req' = req \/ (p \in Procs /\ req' = [req EXCEPT ![p] = d])
      BY <1>12, MineMoves DEF MarketInv
    <3> HIDE DEF p
    <3> QED
      BY <3>1, <3>2 DEF Continuations
  <2> HIDE DEF p, d
  <2> QED
    BY <1>5, <1>6, <2>1 DEF Continue
<1>13. ASSUME NEW p \in Procs, GiveUp(p)
       PROVE  Fits
  BY <1>4, <1>13 DEF GiveUp
<1>14. Restart => Fits
  BY <1>1, <1>3 DEF Restart, Fits
<1>15. EngineFail \/ BrowserWrite \/ pauseTask \/ Persist \/ UNCHANGED restartVars => Fits
  BY <1>6 DEF EngineFail, BrowserWrite, pauseTask, Persist, restartVars, vars
<1>16. ASSUME NEW p \in Procs, Advance(p)
       PROVE  Fits
  BY <1>7, <1>8, <1>16 DEF Advance
<1> QED
  BY <1>9, <1>10, <1>11, <1>12, <1>13, <1>14, <1>15, <1>16
     DEF RestartNext, TimeoutNext, Next, Fits

\* A settlement or refund under way has found no terminal receipt, and none has
\* been added since.
ReceiptedInv(h) ==
  /\ req[h].op \notin {"resolve_paid", "resolve_refund"}
  /\ TerminalIn(task) <= 1 /\ TerminalIn(saved.task) <= 1
  /\ req[h].pc \in {"write", "sent", "mined"} /\ req[h].op \in Releases =>
       TerminalIn(task) = 0

LEMMA ReceiptStep ==
  ASSUME NEW h, Handlers = {h}, Requests \cap {"resolve_paid", "resolve_refund"} = {},
         MarketInv, SnapshotOK, ReceiptedInv(h), [RestartNext]_restartVars
  PROVE  ReceiptedInv(h)'
<1>1. /\ h \in Procs /\ TerminalIn(task) \in Nat /\ TerminalIn(saved.task) \in Nat
  BY ReceiptCount DEF Procs, MarketInv, RouterTypeOK, SnapshotOK
<1>2. req'[h].op \notin {"resolve_paid", "resolve_refund"}
  BY OpsRequested DEF ReceiptedInv
<1>3. CASE [Next]_vars /\ UNCHANGED saved
  <2>1. CASE Complete(h)
    <3>1. /\ req[h].pc = "mined" /\ Harmless(req'[h])
          /\ req[h].op \in Releases => TerminalIn(task') <= TerminalIn(task) + 1
          /\ req[h].op \notin Releases => TerminalIn(task') = TerminalIn(task)
      BY <1>1, <2>1, CompleteMoves DEF ReceiptedInv
    <3>2. MarketInv'
      BY <1>3, MarketStep
    <3>3. TerminalIn(task') \in Nat
      BY <3>2, ReceiptCount DEF MarketInv, RouterTypeOK
    <3>4. TerminalIn(task') <= 1
      BY <1>1, <3>1, <3>3 DEF ReceiptedInv
    <3> QED
      BY <1>2, <1>3, <3>1, <3>4 DEF ReceiptedInv, Harmless
  <2>2. CASE SameRecord /\ ~Complete(h)
    <3>1. TerminalIn(task') = TerminalIn(task)
      BY <2>2 DEF SameRecord, TerminalIn, PaidIn, RefundedIn
    <3>2. CASE Mine
      BY <1>2, <1>3, <3>1, <3>2, MineRemoves DEF ReceiptedInv
    <3>3. ASSUME NEW p \in Procs, Send(p)
          PROVE  ReceiptedInv(h)'
      BY <1>2, <1>3, <3>1, <3>3, SendAdds DEF ReceiptedInv
    <3>4. CASE /\ UNCHANGED pending
               /\ \/ req'[h] = req[h]
                  \/ Harmless(req'[h])
                  \/ req'[h].pc = "write" /\ NoReleaseYet
      BY <1>2, <1>3, <3>1, <3>4 DEF ReceiptedInv, Harmless, NoReleaseYet
    <3> QED
      BY <1>3, <2>2, <3>2, <3>3, <3>4, HandlerStep
  <2> QED
    BY <1>3, <2>1, <2>2, HandlerStep
<1>4. CASE \E p \in Procs : GiveUp(p)
  <2>1. UNCHANGED <<task, saved>>
    BY <1>4 DEF GiveUp
  <2> QED
    BY <1>2, <1>4, <2>1, ForgetKeeps DEF ReceiptedInv, Idle
<1>5. CASE Persist
  <2>1. UNCHANGED <<task, req>> /\ saved'.task = task
    BY <1>5 DEF Persist, vars, Stored
  <2> QED
    BY <2>1 DEF ReceiptedInv
<1>6. CASE Restart
  <2>1. task' = saved.task /\ UNCHANGED saved /\ req'[h] = Idle
    BY <1>1, <1>6 DEF Restart
  <2> QED
    BY <2>1 DEF ReceiptedInv, Idle
<1>7. CASE UNCHANGED restartVars
  BY <1>3, <1>7 DEF restartVars
<1> QED
  BY <1>3, <1>4, <1>5, <1>6, <1>7 DEF RestartNext, TimeoutNext

\* One handler, no resolution by an administrator: however often it times out,
\* dies and restarts, the history it has holds one terminal receipt at most.
THEOREM ReceiptedOnceAcrossRestarts ==
  ASSUME NEW h, Handlers = {h}, Requests \cap {"resolve_paid", "resolve_refund"} = {}
  PROVE  RestartSpec => []OneTerminalReceipt
<1>1. RestartInit => ReceiptedInv(h)
  <2>1. SUFFICES ASSUME RestartInit PROVE ReceiptedInv(h)
    OBVIOUS
  <2>2. /\ req[h].pc = "idle" /\ req[h].op = "none" /\ saved.task = task
        /\ task.history = NoReceipts
    BY <2>1 DEF RestartInit, Init, Procs, Idle, Stored, buildTaskDetail
  <2>3. TerminalIn(task) = 0
    BY <2>2 DEF NoReceipts, Receipts, TerminalIn, PaidIn, RefundedIn
  <2> QED
    BY <2>2, <2>3 DEF ReceiptedInv
<1>2. MarketInv /\ SnapshotOK /\ ReceiptedInv(h) /\ [RestartNext]_restartVars => ReceiptedInv(h)'
  BY ReceiptStep
<1>3. ReceiptedInv(h) => OneTerminalReceipt
  BY SameReceipts DEF ReceiptedInv, OneTerminalReceipt, TerminalIn
<1> QED
  BY <1>1, <1>2, <1>3, RestartInvariant, PTL DEF RestartSpec
-----------------------------------------------------------------------------
(* Two handlers that do not appeal: the payout and the dispute.            *)

\* From here no settlement is executed without a new approval, and no status
\* leads back to a decision.
BarredStates == {"REJECTED", "DISPUTED", "APPEALED", "UNRESOLVED", "SETTLED", "REFUNDED"}
Barred == Anchored = Submission /\ Onchain \in BarredStates

\* A submission is anchored as long as there is something to decide.
SubmissionInv ==
  /\ operator = Server
  /\ Anchored = Submission =>
       Onchain \in {"SUBMITTED", "UNDER_REVIEW", "APPROVED"} \cup BarredStates
  /\ Onchain \in {"SUBMITTED", "UNDER_REVIEW", "APPROVED", "REJECTED"} =>
       Anchored = Submission

\* What a request that is under way has found on the contract.
Found(c) ==
  /\ c.op # "appeal"
  /\ c.op \in {"approve", "reject"} /\ c.pc \in {"write", "sent"} =>
       c.submission # NoSubmission
  /\ c.op = "dispute" /\ c.pc \in {"sent", "mined"} => Anchored = Submission
  /\ c.op = "start" /\ c.pc \in {"sent", "mined"} => Anchored = NoSubmission

FoundInv == \A p \in Procs : Found(req[p])

\* A handler that decides nothing: what it has read is barred, and what it
\* writes is a resolution.
Calm(c) ==
  /\ c.pc = "refresh" /\ c.seen # Unread => c.seen.state \in BarredStates
  /\ c.pc \in {"write", "sent", "mined", "evaluate"} =>
       c.op \in {"resolve_paid", "resolve_refund"}

Settling(c) == c.op = "settle" /\ c.pc \in {"write", "sent"}

\* While one handler settles, the other one opens no dispute unless the
\* contract has left APPROVED for good.
PayoutInv(g, h) ==
  Settling(req[g]) =>
    /\ req[h].op = "dispute" /\ req[h].pc = "mined" => task.status = "APPROVED" \/ Barred
    /\ task.dispute = "open" => Barred /\ task.status \in BarredStates /\ Calm(req[h])

PairInv(g, h) == SubmissionInv /\ FoundInv /\ PayoutInv(g, h) /\ PayoutInv(h, g)

-----------------------------------------------------------------------------

\* The browser's transactions come before any submission.
LEMMA BrowserComesFirst ==
  ASSUME MarketInv, SubmissionInv, BrowserWrite
  PROVE  /\ UNCHANGED <<operator, latestSubmissionId, task, req, pending>>
         /\ Anchored = NoSubmission /\ Onchain' \in {"CREATED", "OPEN", "ASSIGNED"}
<1>1. /\ state \in [{Task} -> Arc!TaskState] /\ Anchored \in {Submission, NoSubmission}
      /\ deposited[Task] > 0 => creator[Task] # NoAccount
      /\ Anchored # NoSubmission => assignedAgentId[Task] # NoAgent
      /\ assignedAgentId[Task] # NoAgent => deposited[Task] > 0
  BY DEF MarketInv, Arc!TypeOK, Arc!SubmissionIds, Arc!EscrowInv, Arc!TaskEscrowInv, Anchored
<1>2. ASSUME NEW s, Arc!SetState(Task, s)
      PROVE  Onchain' = s
  BY <1>1, <1>2 DEF Arc!SetState, Onchain
<1>3. Onchain \in {"CREATED", "OPEN"} => Anchored = NoSubmission
  BY <1>1 DEF SubmissionInv, BarredStates
<1>4. UNCHANGED <<task, req, pending>>
  BY DEF BrowserWrite
<1>5. CASE Arc!create_task(Creator, Task, Reward)
  BY <1>1, <1>2, <1>4, <1>5 DEF Arc!create_task, Arc!work
<1>6. CASE Arc!fund_task(Creator, Task)
  BY <1>2, <1>3, <1>4, <1>6 DEF Arc!fund_task, Arc!work, Onchain
<1>7. CASE Arc!assign_task(Creator, Task, Agent)
  BY <1>2, <1>3, <1>4, <1>7 DEF Arc!assign_task, Arc!CanAssign, Onchain
<1> QED
  BY <1>5, <1>6, <1>7 DEF BrowserWrite

\* Only the engine's result anchors a submission, and a barred contract is
\* opened by an approval only.
LEMMA SubmissionStep ==
  ASSUME MarketInv, Owned, SubmissionInv, FoundInv, [Next]_vars
  PROVE  /\ SubmissionInv'
         /\ \/ Anchored' = Anchored
            \/ /\ Anchored' = Submission /\ Mine /\ Head(pending).by = Engine
               /\ req[Engine].op = "submit"
         /\ Barred => Barred' \/ (Mine /\ req[Head(pending).by].op = "approve")
<1>1. Anchored \in {Submission, NoSubmission} /\ Submission # NoSubmission
  BY MarketConstants DEF MarketInv, Arc!TypeOK, Arc!SubmissionIds, Anchored
<1>2. CASE UNCHANGED chain
  BY <1>2 DEF chain, arcVars, SubmissionInv, Barred, Onchain, Anchored
<1>3. CASE BrowserWrite
  <2>1. Anchored' = Anchored /\ Anchored = NoSubmission /\ operator' = operator
        /\ Onchain' \in {"CREATED", "OPEN", "ASSIGNED"}
    BY <1>3, BrowserComesFirst DEF Anchored
  <2> QED
    BY <1>1, <2>1 DEF SubmissionInv, Barred
<1>4. CASE Mine
  <2> DEFINE p == Head(pending).by
             c == Head(pending).tx
  <2>1. p \in Procs
    BY <1>4, OldestPending DEF Mine, MarketInv, Owned
  <2>2. /\ c \in Continuations /\ c.op = req[p].op /\ c.submission = req[p].submission
        /\ c.call \in CallsOf[c.op] /\ Stage(p, req[p])
        /\ Call(c) \/ (Reverts(c) /\ UNCHANGED chain)
    BY <1>4, <2>1, MinedCall
  <2>3. req[p].pc = "sent" /\ Found(req[p])
    BY <1>4, <2>1, MineMoves DEF MarketInv, FoundInv
  <2>4. p # Engine => c.op \notin {"start", "submit"}
    BY <2>2 DEF Stage
  <2> HIDE DEF p, c
  <2>5. /\ c.call \in {"approve_submission", "reject_submission"} => c.submission # NoSubmission
        /\ c.call # "finalize_review" /\ c.call # "appeal_task" /\ c.call \in ContractCalls
        /\ c.call = "approve_submission" => c.op = "approve"
        /\ c.call = "submit_task" => c.op = "submit"
    BY <2>2, <2>3 DEF Found, CallsOf, Continuations, ApiRequests, ContractCalls
  <2>6. CASE Call(c)
    <3>1. Arc!TypeOK
      BY DEF MarketInv
    <3>2. CASE c.call \in {"assign_task", "start_execution", "cancel_task"}
      BY <1>1, <2>6, <3>1, <3>2, CallEffect DEF SubmissionInv, BarredStates, Barred
    <3>3. CASE c.call = "submit_task"
      BY <1>1, <1>4, <2>2, <2>4, <2>5, <2>6, <3>1, <3>3, CallEffect
         DEF SubmissionInv, BarredStates, Barred, p
    <3>4. CASE c.call \in {"approve_submission", "reject_submission"}
      BY <1>1, <1>4, <2>2, <2>5, <2>6, <3>1, <3>4, CallEffect
         DEF SubmissionInv, BarredStates, Barred, p
    <3>5. CASE c.call \in {"dispute_task", "settle_task", "refund_task"}
      BY <1>1, <2>6, <3>1, <3>5, CallEffect DEF SubmissionInv, BarredStates, Barred
    <3> QED
      BY <2>5, <3>2, <3>3, <3>4, <3>5 DEF ContractCalls
  <2> QED
    BY <1>2, <2>2, <2>6
<1> QED
  BY <1>2, <1>3, <1>4, ChainStep

\* A dispute that is mined leaves the contract barred, whether it is executed or
\* reverts.
LEMMA DisputeBars ==
  ASSUME MarketInv, Owned, SubmissionInv, FoundInv, Mine,
         req[Head(pending).by].op = "dispute"
  PROVE  Barred'
<1> DEFINE p == Head(pending).by
           c == Head(pending).tx
<1>1. p \in Procs
  BY OldestPending DEF Mine, MarketInv, Owned
<1>2. /\ c.call \in CallsOf[c.op] /\ c.op = "dispute" /\ c \in Continuations
      /\ Call(c) \/ (Reverts(c) /\ UNCHANGED chain)
  BY <1>1, MinedCall
<1>3. req[p].pc = "sent" /\ Found(req[p])
  BY <1>1, MineMoves DEF MarketInv, FoundInv
<1>4. Anchored = Submission
  BY <1>3 DEF Found
<1> HIDE DEF p, c
<1>5. c.call = "dispute_task"
  BY <1>2 DEF CallsOf
<1>6. CASE Call(c)
  BY <1>4, <1>5, <1>6, CallEffect DEF MarketInv, Barred, BarredStates
<1>7. CASE Reverts(c) /\ UNCHANGED chain
  <2>1. Onchain \notin {"SUBMITTED", "UNDER_REVIEW", "APPROVED", "REJECTED"}
    BY <1>5, <1>7
       DEF Reverts, Accepts, Arc!CanDispute, Arc!onlyCreatorOrOperator, SubmissionInv, Onchain
  <2>2. Anchored' = Anchored /\ Onchain' = Onchain
    BY <1>7 DEF chain, arcVars, Onchain, Anchored
  <2> QED
    BY <1>4, <2>1, <2>2 DEF SubmissionInv, Barred
<1> QED
  BY <1>2, <1>6, <1>7
-----------------------------------------------------------------------------
(* What a handler's own step does to the other one.                        *)

\* A handler comes to settle with no dispute open, and it opens one only from a
\* status that is not APPROVED.
Heeds(p) ==
  /\ UNCHANGED chain
  /\ \A q \in Procs \ {p} : req'[q] = req[q]
  /\ req'[p].pc # "mined" /\ Found(req'[p])
  /\ Settling(req'[p]) =>
       \/ Settling(req[p]) /\ UNCHANGED task
       \/ task'.dispute # "open" /\ task'.status = "APPROVED"
  /\ task.dispute = "open" /\ Barred /\ task.status \in BarredStates /\ Calm(req[p]) =>
       task'.status \in BarredStates /\ Calm(req'[p])
  /\ task'.dispute = "open" =>
       \/ task.dispute = "open"
       \/ /\ req[p].op = "dispute" /\ req[p].pc = "mined" /\ req'[p] = Idle
          /\ task.status # "APPROVED" /\ task'.status = "DISPUTED"

\* A request that has been answered.
LEMMA IdleIsCalm ==
  Found(Idle) /\ Calm(Idle) /\ ~Settling(Idle) /\ Idle.pc = "idle" /\ Idle \in Continuations
BY FreshStage DEF Found, Calm, Settling, Idle

\* One request moves, the others stay.
LEMMA OneMoves ==
  ASSUME MarketInv, NEW p \in Procs, NEW d, Continue(p, d)
  PROVE  req'[p] = d /\ \A q \in Procs \ {p} : req'[q] = req[q]
BY DEF Continue, MarketInv, RouterTypeOK

LEMMA BeginHeeds ==
  ASSUME MarketInv, NEW p \in Handlers, NEW op \in Requests \cap ApiRequests,
         op # "appeal", Begin(p, op)
  PROVE  Heeds(p)
<1>1. p \in Procs /\ UNCHANGED <<task, chain>>
  BY DEF Procs, Begin
<1>2. PICK seen \in {readTask, Unread} :
        Continue(p, [Idle EXCEPT !.pc = "refresh", !.op = op, !.seen = seen])
  BY DEF Begin
<1> DEFINE d == [Idle EXCEPT !.pc = "refresh", !.op = op, !.seen = seen]
<1>3. d.pc = "refresh" /\ d.op = op /\ d.seen = seen
  BY DEF Idle
<1> HIDE DEF d
<1>4. req'[p] = d /\ \A q \in Procs \ {p} : req'[q] = req[q]
  BY <1>1, <1>2, OneMoves DEF d
<1>5. Found(d) /\ ~Settling(d)
  BY <1>3 DEF Found, Settling
<1>6. Barred => Calm(d)
  BY <1>2, <1>3 DEF Calm, Barred, readTask, Onchain
<1> QED
  BY <1>1, <1>3, <1>4, <1>5, <1>6 DEF Heeds

LEMMA SendHeeds ==
  ASSUME MarketInv, SubmissionInv, NEW p \in Procs, Found(req[p]), Send(p)
  PROVE  Heeds(p)
<1> DEFINE c == req[p]
           d == [c EXCEPT !.pc = "sent"]
<1>1. c \in Continuations /\ Stage(p, c) /\ Anchored \in {Submission, NoSubmission}
  BY DEF MarketInv, RouterTypeOK, RequestsInv, Arc!TypeOK, Arc!SubmissionIds, Anchored
<1>2. UNCHANGED <<task, chain>> /\ c.pc = "write" /\ Accepts(c) /\ Continue(p, d)
  BY DEF Send, Reverts
<1>3. d.pc = "sent" /\ d.op = c.op /\ d.submission = c.submission
  BY <1>1 DEF Continuations
<1>4. req'[p] = d /\ \A q \in Procs \ {p} : req'[q] = req[q]
  BY <1>2, OneMoves
<1>5. c.op = "dispute" => Anchored = Submission
  <2>1. c.op = "dispute" => c.call = "dispute_task"
    BY <1>1, <1>2 DEF Stage, CallsOf
  <2> QED
    BY <1>2, <2>1 DEF Accepts, Arc!CanDispute, SubmissionInv, Onchain
<1>6. c.op = "start" => Anchored = NoSubmission
  <2>1. c.op = "start" => c.call = "start_execution"
    BY <1>1, <1>2 DEF Stage, CallsOf
  <2> QED
    BY <1>1, <1>2, <2>1 DEF Accepts, Arc!CanStart, SubmissionInv, BarredStates, Onchain
<1> HIDE DEF c, d
<1>7. Found(c) => Found(d)
  BY <1>2, <1>3, <1>5, <1>6 DEF Found
<1>8. (Settling(d) => Settling(c)) /\ (Calm(c) => Calm(d))
  BY <1>2, <1>3 DEF Settling, Calm
<1> QED
  BY <1>2, <1>3, <1>4, <1>7, <1>8 DEF Heeds, c

\* A handler that gives up.
LEMMA ThrowHeeds ==
  ASSUME MarketInv, NEW p \in Procs, Throw(p)
  PROVE  Heeds(p)
<1>1. UNCHANGED <<task, chain>> /\ req'[p] = Idle /\ \A q \in Procs \ {p} : req'[q] = req[q]
  BY OneMoves DEF Throw, Finish
<1> QED
  BY <1>1, IdleIsCalm DEF Heeds

\* A handler whose guard finds an open dispute can only be about to resolve it,
\* and one whose guard finds a barred task about to settle nothing.
LEMMA ResumeHeeds ==
  ASSUME MarketInv, NEW p \in Handlers, Found(req[p]), Resume(p)
  PROVE  Heeds(p)
<1> DEFINE r == Refreshed(p)
           op == req[p].op
           c == [Idle EXCEPT !.op = op, !.submission = r.submission]
           call == FirstCall(op, r)
           w == [c EXCEPT !.pc = "write", !.call = call]
           v == [c EXCEPT !.pc = "evaluate"]
<1>1. p \in Procs /\ RouterTypeOK /\ task \in TaskRecords({Submission})
  BY DEF Procs, MarketInv, RouterTypeOK
<1>2. req[p].pc = "refresh" /\ op \in ApiRequests /\ UNCHANGED chain /\ op # "appeal"
  BY <1>1 DEF Resume, RequestsInv, Stage, MarketInv, Found
<1>3. /\ r \in TaskRecords({Submission}) /\ r.dispute = task.dispute
      /\ req[p].seen = Unread => r = task
      /\ req[p].seen # Unread =>
           r.status = IF req[p].seen.state = "ESCROW_FUNDED" THEN "OPEN" ELSE req[p].seen.state
  BY <1>1, RefreshedEffect
<1>4. \/ task' = r /\ Finish(p)
      \/ Guard(op, r) /\ task' = Prepared(op, r) /\ Continue(p, w)
      \/ Guard(op, r) /\ op = "advise" /\ task' = r /\ Continue(p, v)
      \/ Guard(op, r) /\ op = "accept" /\ task' = Accepted(Picked(r), r.status = "OPEN") /\ Finish(p)
  BY DEF Resume
<1>5. /\ w.pc = "write" /\ w.op = op /\ w.submission = r.submission
      /\ v.pc = "evaluate" /\ v.op = op
  BY DEF Idle
<1>6. task.status \in BarredStates /\ Calm(req[p]) => r.status \in BarredStates
  BY <1>2, <1>3 DEF Calm, BarredStates
<1>7. ASSUME Guard(op, r), r.status \in BarredStates, r.dispute = "open"
      PROVE  op \in {"resolve_paid", "resolve_refund"}
  BY <1>2, <1>7 DEF Guard, ApiRequests, BarredStates, MayAccept, MayDecide, IsReviewable,
     MayCancel, MaySettle, MayRefund, MayDispute
<1>8. ASSUME NEW d, Continue(p, d)
      PROVE  req'[p] = d /\ \A q \in Procs \ {p} : req'[q] = req[q]
  BY <1>1, <1>8, OneMoves
<1> HIDE DEF r, op, w, v
<1>9. CASE task' = r /\ Finish(p)
  <2>1. req'[p] = Idle /\ \A q \in Procs \ {p} : req'[q] = req[q]
    BY <1>8, <1>9 DEF Finish
  <2> QED
    BY <1>2, <1>3, <1>6, <1>9, <2>1, IdleIsCalm DEF Heeds
<1>10. CASE Guard(op, r) /\ task' = Prepared(op, r) /\ Continue(p, w)
  <2>1. req'[p] = w /\ \A q \in Procs \ {p} : req'[q] = req[q]
    BY <1>8, <1>10
  <2>2. /\ task'.dispute = r.dispute /\ task'.status = r.status
    <3>1. task' = r \/ task' = Picked(r)
      BY <1>2, <1>10 DEF Prepared
    <3> QED
      BY <1>3, <3>1 DEF Picked, Joined, TaskRecords
  <2>3. Found(w)
    BY <1>2, <1>5, <1>10 DEF Found, Guard, MayDecide, ApiRequests
  <2>4. Settling(w) => r.dispute # "open" /\ r.status = "APPROVED"
    BY <1>5, <1>10 DEF Settling, Guard, MaySettle
  <2>5. r.status \in BarredStates /\ r.dispute = "open" => Calm(w)
    BY <1>5, <1>7, <1>10 DEF Calm
  <2> QED
    BY <1>2, <1>3, <1>5, <1>6, <2>1, <2>2, <2>3, <2>4, <2>5 DEF Heeds
<1>11. CASE Guard(op, r) /\ op = "advise" /\ task' = r /\ Continue(p, v)
  <2>1. req'[p] = v /\ \A q \in Procs \ {p} : req'[q] = req[q]
    BY <1>8, <1>11
  <2>2. Found(v) /\ ~Settling(v)
    BY <1>5, <1>11 DEF Found, Settling
  <2> QED
    BY <1>2, <1>3, <1>5, <1>6, <1>7, <1>11, <2>1, <2>2 DEF Heeds
<1>12. CASE /\ Guard(op, r) /\ op = "accept"
            /\ task' = Accepted(Picked(r), r.status = "OPEN") /\ Finish(p)
  <2> DEFINE k == Picked(r)
             wasOpen == r.status = "OPEN"
  <2>1. req'[p] = Idle /\ \A q \in Procs \ {p} : req'[q] = req[q]
    BY <1>8, <1>12 DEF Finish
  <2>2. /\ k \in TaskRecords({Submission}) /\ k.dispute = r.dispute
        /\ wasOpen \in BOOLEAN /\ task' = Accepted(k, wasOpen)
    BY <1>3, <1>12 DEF Picked, Joined, TaskRecords
  <2> HIDE DEF k, wasOpen
  <2>3. task'.dispute = r.dispute
    <3>1. SameStanding(Accepted(k, wasOpen), k)
      BY <2>2, AcceptEffect
    <3> QED
      BY <2>2, <3>1 DEF SameStanding
  <2> QED
    BY <1>2, <1>3, <1>6, <1>7, <1>12, <2>1, <2>3, IdleIsCalm DEF Heeds
<1> QED
  BY <1>4, <1>9, <1>10, <1>11, <1>12

\* Only the answer to a dispute opens one, and only from a status that may
\* become DISPUTED.
LEMMA CompleteHeeds ==
  ASSUME MarketInv, NEW p \in Handlers, Found(req[p]), Complete(p)
  PROVE  Heeds(p)
<1> DEFINE c == req[p]
           r == task
           m == Effect(c, r)
<1>1. p \in Procs /\ p # Engine
  BY MarketConstants DEF Procs
<1>2. c \in Continuations /\ Stage(p, c) /\ r \in TaskRecords({Submission})
  BY <1>1 DEF MarketInv, RouterTypeOK, RequestsInv
<1>3. c.pc = "mined" /\ UNCHANGED chain /\ c.op # "appeal"
  BY DEF Complete, Found
<1>4. c.call \in CallsOf[c.op] /\ c.op \notin {"submit", "start", "none"}
  BY <1>1, <1>2, <1>3 DEF Stage, CallsOf
<1>5. c.op \in {"accept", "auto", "approve", "reject", "cancel", "settle", "resolve_paid",
                 "refund", "resolve_refund", "dispute"}
  BY <1>2, <1>3, <1>4 DEF Continuations, ApiRequests, CallsOf
<1>6. c.call # "appeal_task" /\ c.call # "finalize_review"
  BY <1>4, <1>5 DEF CallsOf
<1>7. Answer(p, c, task)
  BY <1>6 DEF Complete, NextCall, NoCall
<1>8. task' = m /\ req'[p] = Idle /\ \A q \in Procs \ {p} : req'[q] = req[q]
  BY <1>1, <1>7, OneMoves DEF Answer, Finish
<1> HIDE DEF c, r, m
<1>9. ASSUME m.dispute # "open" \/ r.dispute = "open",
             r.status \in BarredStates /\ Calm(c) => m.status \in BarredStates
      PROVE  Heeds(p)
  BY <1>3, <1>8, <1>9, IdleIsCalm DEF Heeds, c, r
<1>10. Calm(c) => c.op \in {"resolve_paid", "resolve_refund"}
  BY <1>3 DEF Calm
<1>11. CASE c.op \in {"accept", "auto", "approve", "reject", "cancel"}
  <2>1. m \in {Accepted(r, TRUE), AutoAssigned(r), Approved(r), Rejected(r), Cancelled(r)}
    BY <1>11 DEF m, Effect
  <2>2. SameStanding(Accepted(r, TRUE), r) /\ SameStanding(AutoAssigned(r), r)
    BY <1>2, AcceptEffect, AutoEffect
  <2>3. /\ SameStanding(Approved(r), r) /\ SameStanding(Rejected(r), r)
        /\ SameStanding(Cancelled(r), r)
    BY <1>2, DecisionEffect
  <2>4. m.dispute = r.dispute
    BY <2>1, <2>2, <2>3 DEF SameStanding
  <2> QED
    BY <1>9, <1>10, <1>11, <2>4
<1>12. CASE c.op \in {"settle", "refund"}
  <2>1. m = Settled(r) \/ m = Refunded(r)
    BY <1>12 DEF m, Effect
  <2>2. m.dispute = r.dispute
    BY <1>2, <2>1, SettlementEffect
  <2> QED
    BY <1>9, <1>10, <1>12, <2>2
<1>13. CASE c.op \in {"resolve_paid", "resolve_refund"}
  <2>1. m = AdminResolved(r, TRUE) \/ m = AdminResolved(r, FALSE)
    BY <1>13 DEF m, Effect
  <2>2. m.dispute \in {"resolved", r.dispute} /\ m.status \in {"SETTLED", "REFUNDED", r.status}
    <3>1. ASSUME NEW paid \in BOOLEAN, m = AdminResolved(r, paid)
          PROVE  /\ m.dispute \in {"resolved", r.dispute}
                 /\ m.status \in {"SETTLED", "REFUNDED", r.status}
      BY <1>2, <3>1, ResolutionEffect
    <3> QED
      BY <2>1, <3>1
  <2> QED
    BY <1>9, <2>2 DEF BarredStates
<1>14. CASE c.op = "dispute"
  <2>1. m = DisputeOpened(r)
    BY <1>14 DEF m, Effect
  <2>2. /\ m.dispute = IF Passes(r.status, "DISPUTED") THEN "open" ELSE r.dispute
        /\ m.status = IF Passes(r.status, "DISPUTED") THEN "DISPUTED" ELSE r.status
    BY <1>2, <2>1, SettlementEffect
  <2>3. ~Passes("APPROVED", "DISPUTED")
    BY DEF Passes, canTransitionTaskStatus, taskStatusTransitions
  <2> QED
    BY <1>3, <1>8, <1>10, <1>14, <2>2, <2>3, IdleIsCalm DEF Heeds, c, r
<1> QED
  BY <1>5, <1>11, <1>12, <1>13, <1>14

\* An advisory verdict.
LEMMA EvaluateHeeds ==
  ASSUME MarketInv, NEW p \in Handlers, Found(req[p]), Evaluate(p)
  PROVE  Heeds(p)
<1>1. p \in Procs /\ task \in TaskRecords({Submission})
  BY DEF Procs, MarketInv, RouterTypeOK
<1>2. /\ req[p].pc = "evaluate" /\ req[p].op = "advise" /\ UNCHANGED chain
      /\ task' = Advised(task) /\ Finish(p)
  BY DEF Evaluate, Found, Answer, Effect
<1>3. task'.dispute = task.dispute
  BY <1>1, <1>2, ReviewEffect DEF SameStanding
<1>4. req'[p] = Idle /\ \A q \in Procs \ {p} : req'[q] = req[q]
  BY <1>1, <1>2, OneMoves DEF Finish
<1>5. ~Calm(req[p])
  BY <1>2 DEF Calm
<1> QED
  BY <1>2, <1>3, <1>4, <1>5, IdleIsCalm DEF Heeds

\* A report of the browser's changes the status of a draft only, and dispatches
\* an open or assigned task only.
LEMMA SyncHeeds ==
  ASSUME MarketInv, NEW p \in Handlers, Found(req[p]),
         NEW funding \in BOOLEAN, NEW assignment \in BOOLEAN,
         syncTaskWithChain(p, funding, assignment)
  PROVE  Heeds(p)
<1> DEFINE r == Synced(task, funding, assignment)
           c == [Idle EXCEPT !.op = "auto"]
           w == [c EXCEPT !.pc = "write", !.call = "assign_task"]
<1>1. p \in Procs /\ task \in TaskRecords({Submission})
  BY DEF Procs, MarketInv, RouterTypeOK
<1>2. UNCHANGED chain /\ req[p].pc = "idle"
  BY DEF syncTaskWithChain
<1>3. /\ r \in TaskRecords({Submission}) /\ r.dispute = task.dispute
      /\ task.status # "CREATED" => r.status = task.status
  BY <1>1, SyncEffect
<1>4. \/ task' = r /\ UNCHANGED req
      \/ MayAutoDispatch(r) /\ task' = Picked(r) /\ Continue(p, w)
      \/ MayAutoDispatch(r) /\ Answer(p, c, r)
  BY DEF syncTaskWithChain
<1>5. w.pc = "write" /\ w.op = "auto" /\ c.op = "auto"
  BY DEF Idle
<1>6. task.status \in BarredStates => r.status = task.status /\ ~MayAutoDispatch(r)
  BY <1>3 DEF BarredStates, MayAutoDispatch
<1> HIDE DEF r, c, w
<1>7. CASE task' = r /\ UNCHANGED req
  BY <1>2, <1>3, <1>6, <1>7 DEF Heeds, Settling
<1>8. CASE MayAutoDispatch(r) /\ task' = Picked(r) /\ Continue(p, w)
  <2>1. req'[p] = w /\ \A q \in Procs \ {p} : req'[q] = req[q]
    BY <1>1, <1>8, OneMoves
  <2>2. Picked(r).dispute = r.dispute
    BY <1>3 DEF Picked, Joined, TaskRecords
  <2>3. Found(w) /\ ~Settling(w)
    BY <1>5 DEF Found, Settling
  <2> QED
    BY <1>2, <1>3, <1>5, <1>6, <1>8, <2>1, <2>2, <2>3 DEF Heeds
<1>9. CASE MayAutoDispatch(r) /\ Answer(p, c, r)
  <2>1. task' = AutoAssigned(r) /\ Finish(p)
    BY <1>5, <1>9 DEF Answer, Effect
  <2>2. req'[p] = Idle /\ \A q \in Procs \ {p} : req'[q] = req[q]
    BY <1>1, <2>1, OneMoves DEF Finish
  <2>3. task'.dispute = task.dispute
    BY <1>3, <2>1, AutoEffect DEF SameStanding
  <2> QED
    BY <1>2, <1>6, <1>9, <2>2, <2>3, IdleIsCalm DEF Heeds
<1> QED
  BY <1>4, <1>7, <1>8, <1>9

-----------------------------------------------------------------------------

\* A step beside the handlers leaves a decided task decided.
Beside ==
  /\ UNCHANGED chain
  /\ \A q \in Handlers : req'[q] = req[q]
  /\ Found(req'[Engine])
  /\ task'.dispute = task.dispute
  /\ task.status = "APPROVED" => task'.status = "APPROVED"
  /\ Barred /\ task.status \in BarredStates => task'.status \in BarredStates

\* A start that is under way has found no submission, and a result or a failure
\* moves no task that is decided.
LEMMA EngineIsBeside ==
  ASSUME MarketInv, SubmissionInv, FoundInv,
         Send(Engine) \/ Throw(Engine) \/ Complete(Engine)
         \/ EngineStart \/ EngineSubmit \/ EngineFail
  PROVE  Beside
<1> DEFINE c == req[Engine]
           r == task
<1>1. Engine \in Procs /\ \A q \in Handlers : q \in Procs \ {Engine}
  BY MarketConstants DEF Procs
<1>2. c \in Continuations /\ Stage(Engine, c) /\ r \in TaskRecords({Submission}) /\ Found(c)
  BY <1>1 DEF MarketInv, RouterTypeOK, RequestsInv, FoundInv
<1>3. UNCHANGED chain
  BY DEF Send, Throw, Complete, EngineStart, EngineSubmit, EngineFail
<1>4. ASSUME NEW d, Continue(Engine, d), Found(d), UNCHANGED task
      PROVE  Beside
  BY <1>1, <1>3, <1>4, OneMoves DEF Beside
<1>5. CASE Send(Engine)
  BY <1>1, <1>2, <1>3, <1>5, SendHeeds DEF Heeds, Send, Beside
<1>6. CASE Throw(Engine)
  BY <1>4, <1>6, IdleIsCalm DEF Throw, Finish
<1>7. CASE Complete(Engine)
  <2>1. c.pc = "mined"
    BY <1>7 DEF Complete
  <2>2. c.op \in {"start", "submit"} /\ c.call \in {"start_execution", "submit_task", NoCall}
    BY <1>2, <2>1 DEF Stage, EngineOps, CallsOf
  <2>3. task' = Effect(c, r) /\ Continue(Engine, Idle)
    BY <1>7, <2>2 DEF Complete, NextCall, Answer, Finish, NoCall
  <2>4. Found(req'[Engine]) /\ \A q \in Handlers : req'[q] = req[q]
    BY <1>1, <2>3, OneMoves, IdleIsCalm
  <2> DEFINE anchored == IF c.call = "submit_task" THEN Submission ELSE NoSubmission
  <2>5. anchored \in {Submission} \cup {NoSubmission}
    OBVIOUS
  <2>6. \/ c.op = "start" /\ task' = ExecutionStarted(r)
        \/ c.op = "submit" /\ task' = SubmissionReceived(r, anchored)
    BY <2>2, <2>3 DEF Effect
  <2>7. r.status \in TaskStatuses
    BY <1>2 DEF TaskRecords
  <2>8. Barred => Anchored # NoSubmission
    BY MarketConstants DEF Barred
  <2> HIDE DEF c, r, anchored
  <2>9. CASE c.op = "start" /\ task' = ExecutionStarted(r)
    <3>1. task'.dispute = r.dispute
      BY <1>2, <2>5, <2>9, EngineEffect DEF SameStanding
    <3>2. task'.status \in {r.status, "EXECUTING"}
          /\ (r.status = "APPROVED" => task'.status = "APPROVED")
      BY <1>2, <2>5, <2>9, EngineStatus
         DEF Passes, canTransitionTaskStatus, taskStatusTransitions
    <3>3. ~Barred
      BY <1>2, <2>1, <2>8, <2>9 DEF Found
    <3> QED
      BY <1>3, <2>4, <3>1, <3>2, <3>3 DEF Beside, r
  <2>10. CASE c.op = "submit" /\ task' = SubmissionReceived(r, anchored)
    <3>1. SameStanding(task', r)
      BY <1>2, <2>5, <2>10, EngineEffect
    <3>2. task'.status = IF Passes(r.status, "SUBMITTED") THEN "SUBMITTED" ELSE r.status
      BY <1>2, <2>5, <2>10, EngineStatus
    <3>3. Passes(r.status, "SUBMITTED") => r.status \in {"ASSIGNED", "EXECUTING", "SUBMITTED"}
      BY <2>7 DEF Passes, canTransitionTaskStatus, taskStatusTransitions, TaskStatuses
    <3> QED
      BY <1>3, <2>4, <3>1, <3>2, <3>3 DEF Beside, SameStanding, BarredStates, r
  <2> QED
    BY <2>6, <2>9, <2>10
<1>8. CASE EngineStart
  <2> DEFINE d == [Idle EXCEPT !.pc = "write", !.op = "start", !.call = "start_execution"]
  <2>1. UNCHANGED <<task, req>> \/ (Continue(Engine, d) /\ UNCHANGED task)
    BY <1>8 DEF EngineStart
  <2>2. Found(d)
    BY DEF Found, Idle
  <2> HIDE DEF d
  <2> QED
    BY <1>2, <1>3, <1>4, <2>1, <2>2 DEF Beside
<1>9. CASE EngineSubmit
  <2> DEFINE k == [Idle EXCEPT !.op = "submit"]
             d == IF state[Task] \in {"ASSIGNED", "EXECUTING"}
                  THEN [k EXCEPT !.pc = "write", !.call = "submit_task"]
                  ELSE [k EXCEPT !.pc = "mined"]
  <2>1. Continue(Engine, d) /\ UNCHANGED task
    BY <1>9 DEF EngineSubmit
  <2>2. Found(d)
    BY DEF Found, Idle
  <2> HIDE DEF d
  <2> QED
    BY <1>4, <2>1, <2>2
<1>10. CASE EngineFail
  <2>1. task' = ExecutionFailed(r) /\ UNCHANGED req
    BY <1>10 DEF EngineFail
  <2>2. NoSubmission \in {Submission} \cup {NoSubmission}
    OBVIOUS
  <2> HIDE DEF r
  <2>3. SameStanding(task', r)
    BY <1>2, <2>1, <2>2, EngineEffect
  <2>4. \/ task'.status = r.status
        \/ r.status \in {"ASSIGNED", "EXECUTING"} /\ task'.status \in {"OPEN", "ASSIGNED"}
    BY <1>2, <2>1, <2>2, EngineStatus
  <2> QED
    BY <1>2, <1>3, <2>1, <2>3, <2>4 DEF Beside, SameStanding, BarredStates, r
<1> QED
  BY <1>5, <1>6, <1>7, <1>8, <1>9, <1>10

\* What keeps the settlement and the dispute apart, when one of the two handlers
\* moves.
LEMMA PayoutHeeded ==
  ASSUME NEW g \in Procs, NEW h \in Procs, g # h, NEW p \in {g, h},
         PayoutInv(g, h), Heeds(p)
  PROVE  PayoutInv(g, h)'
<1>1. (Barred' <=> Barred)
  BY DEF Heeds, chain, arcVars, Barred, Onchain, Anchored
<1>2. CASE p = g
  <2>1. req'[h] = req[h]
    BY <1>2 DEF Heeds
  <2>2. Settling(req'[g]) =>
          \/ Settling(req[g]) /\ UNCHANGED task
          \/ task'.dispute # "open" /\ task'.status = "APPROVED"
    BY <1>2 DEF Heeds
  <2> QED
    BY <1>1, <2>1, <2>2 DEF PayoutInv
<1>3. CASE p = h
  <2>1. req'[g] = req[g] /\ req'[h].pc # "mined"
    BY <1>3 DEF Heeds
  <2>2. ASSUME Settling(req[g]), task'.dispute = "open"
        PROVE  Barred /\ task'.status \in BarredStates /\ Calm(req'[h])
    <3>1. CASE task.dispute = "open"
      BY <1>3, <2>2, <3>1 DEF Heeds, PayoutInv
    <3>2. CASE /\ req[h].op = "dispute" /\ req[h].pc = "mined" /\ req'[h] = Idle
               /\ task.status # "APPROVED" /\ task'.status = "DISPUTED"
      BY <2>2, <3>2, IdleIsCalm DEF PayoutInv, BarredStates
    <3> QED
      BY <1>3, <2>2, <3>1, <3>2 DEF Heeds
  <2> QED
    BY <1>1, <2>1, <2>2 DEF PayoutInv
<1> QED
  BY <1>2, <1>3

\* A transaction is mined.
LEMMA PayoutMined ==
  ASSUME NEW g, NEW h, g # h, Handlers = {g, h}, MarketInv, Owned,
         SubmissionInv, FoundInv, PayoutInv(g, h), Mine, [Next]_vars
  PROVE  PayoutInv(g, h)'
<1> DEFINE p == Head(pending).by
           d == [req[p] EXCEPT !.pc = "mined"]
<1>1. p \in Procs /\ g \in Procs /\ h \in Procs /\ req \in [Procs -> Continuations]
  BY OldestPending DEF Mine, MarketInv, Owned, Procs, RouterTypeOK
<1>2. /\ req[p].pc = "sent" /\ d \in Continuations /\ req' = [req EXCEPT ![p] = d]
      /\ UNCHANGED task
  BY <1>1, MineMoves DEF MarketInv, Mine
<1>3. d.pc = "mined" /\ d.op = req[p].op
  <2>1. req[p] \in Continuations
    BY <1>1
  <2> QED
    BY <2>1 DEF Continuations
<1>4. Barred => Barred' \/ req[p].op = "approve"
  BY SubmissionStep
<1>5. req[p].op = "dispute" => Barred'
  BY DisputeBars
<1>6. p = Engine => req[p].op # "approve"
  BY <1>1 DEF MarketInv, RequestsInv, Stage, EngineOps
<1> HIDE DEF p, d
<1>7. req'[p] = d /\ \A q \in Procs \ {p} : req'[q] = req[q]
  BY <1>1, <1>2
<1>8. CASE p = g
  BY <1>3, <1>7, <1>8 DEF PayoutInv, Settling
<1>9. CASE p = h
  <2>1. req'[g] = req[g]
    BY <1>1, <1>7, <1>9
  <2>2. Calm(req[h]) => req[h].op # "approve" /\ Calm(d)
    BY <1>2, <1>3, <1>9 DEF Calm
  <2> QED
    BY <1>2, <1>3, <1>4, <1>5, <1>7, <1>9, <2>1, <2>2 DEF PayoutInv
<1>10. CASE p = Engine
  <2>1. req'[g] = req[g] /\ req'[h] = req[h]
    BY <1>1, <1>7, <1>10, MarketConstants
  <2> QED
    BY <1>2, <1>4, <1>6, <1>10, <2>1 DEF PayoutInv
<1> QED
  BY <1>1, <1>8, <1>9, <1>10 DEF Procs

\* What the requests found stays true while transactions are mined.
LEMMA FoundStep ==
  ASSUME MarketInv, Owned, SubmissionInv, FoundInv, Mine \/ BrowserWrite, [Next]_vars
  PROVE  FoundInv'
<1>1. Anchored \in {Submission, NoSubmission} /\ Submission # NoSubmission
      /\ req \in [Procs -> Continuations]
  BY MarketConstants
     DEF MarketInv, RouterTypeOK, Arc!TypeOK, Arc!SubmissionIds, Anchored
<1>2. CASE BrowserWrite
  <2>1. Anchored' = Anchored /\ req' = req
    BY <1>2, BrowserComesFirst DEF Anchored
  <2> QED
    BY <2>1 DEF FoundInv, Found
<1>3. CASE Mine
  <2> DEFINE p == Head(pending).by
             d == [req[p] EXCEPT !.pc = "mined"]
  <2>1. p \in Procs
    BY <1>3, OldestPending DEF Mine, MarketInv, Owned
  <2>2. req[p].pc = "sent" /\ d \in Continuations /\ req' = [req EXCEPT ![p] = d]
    BY <1>3, <2>1, MineMoves DEF MarketInv
  <2>3. d.pc = "mined" /\ d.op = req[p].op /\ d.submission = req[p].submission
    <3>1. req[p] \in Continuations
      BY <1>1, <2>1
    <3> QED
      BY <3>1 DEF Continuations
  <2>4. \/ Anchored' = Anchored
        \/ Anchored' = Submission /\ p = Engine /\ req[Engine].op = "submit"
    BY SubmissionStep
  <2> HIDE DEF p, d
  <2>5. req'[p] = d /\ \A q \in Procs \ {p} : req'[q] = req[q]
    BY <1>1, <2>1, <2>2
  <2>6. ASSUME NEW q \in Procs
        PROVE  Found(req[q])'
    <3>1. /\ req'[q].op = req[q].op /\ req'[q].submission = req[q].submission
          /\ req'[q].pc \in {"sent", "mined"} => req'[q].pc = req[q].pc \/ req[q].pc = "sent"
          /\ req'[q].pc = req[q].pc \/ req'[q].pc = "mined"
      BY <2>2, <2>3, <2>5
    <3>2. Found(req[q]) /\ (req[q].op = "start" => q = Engine)
      BY DEF FoundInv, MarketInv, RequestsInv, Stage
    <3> QED
      BY <1>1, <2>4, <3>1, <3>2 DEF Found
  <2> QED
    BY <2>6 DEF FoundInv
<1> QED
  BY <1>2, <1>3

\* The invariant of the two handlers is inductive: each step is a handler's, a
\* step beside them, or the chain's.
LEMMA PairStep ==
  ASSUME NEW g, NEW h, g # h, Handlers = {g, h}, "appeal" \notin Requests,
         MarketInv, Owned, PairInv(g, h), [Next]_vars
  PROVE  PairInv(g, h)'
<1>1. /\ g \in Procs /\ h \in Procs /\ Engine \in Procs /\ g # Engine /\ h # Engine
      /\ Procs = {g, h, Engine} /\ req \in [Procs -> Continuations]
  BY MarketConstants DEF Procs, MarketInv, RouterTypeOK
<1>2. SubmissionInv /\ FoundInv /\ PayoutInv(g, h) /\ PayoutInv(h, g)
      /\ \A q \in Procs : Found(req[q])
  BY DEF PairInv, FoundInv
<1>3. SubmissionInv'
  BY <1>2, SubmissionStep
<1>4. ASSUME NEW p \in Handlers, Heeds(p)
      PROVE  PairInv(g, h)'
  <2>1. PayoutInv(g, h)' /\ PayoutInv(h, g)'
    BY <1>1, <1>2, <1>4, PayoutHeeded
  <2>2. Anchored' = Anchored
    BY <1>4 DEF Heeds, chain, arcVars, Anchored
  <2>3. \A q \in Procs : Found(req'[q])
    BY <1>1, <1>2, <1>4 DEF Heeds
  <2> QED
    BY <1>3, <2>1, <2>2, <2>3 DEF PairInv, FoundInv, Found
<1>5. ASSUME Beside
      PROVE  PairInv(g, h)'
  <2>1. req'[g] = req[g] /\ req'[h] = req[h] /\ Found(req'[Engine])
    BY <1>5 DEF Beside
  <2>2. Anchored' = Anchored /\ Onchain' = Onchain
    BY <1>5 DEF Beside, chain, arcVars, Anchored, Onchain
  <2>3. PayoutInv(g, h)' /\ PayoutInv(h, g)'
    BY <1>2, <1>5, <2>1, <2>2 DEF Beside, PayoutInv, Barred
  <2>4. \A q \in Procs : Found(req'[q])
    BY <1>1, <1>2, <2>1
  <2> QED
    BY <1>3, <2>2, <2>3, <2>4 DEF PairInv, FoundInv, Found
<1>6. ASSUME NEW p \in Procs, Advance(p)
      PROVE  PairInv(g, h)'
  <2>1. CASE p = Engine
    <3>1. Send(Engine) \/ Throw(Engine) \/ Complete(Engine)
      BY <1>6, <2>1, MarketConstants DEF Advance
    <3> QED
      BY <1>2, <1>5, <3>1, EngineIsBeside
  <2>2. CASE p \in Handlers
    <3>1. Found(req[p])
      BY <1>2
    <3>2. Heeds(p)
      BY <1>2, <1>6, <2>2, <3>1, SendHeeds, ThrowHeeds, CompleteHeeds, ResumeHeeds,
         EvaluateHeeds DEF Advance
    <3> QED
      BY <1>4, <2>2, <3>2
  <2> QED
    BY <2>1, <2>2 DEF Procs
<1>7. ASSUME NEW p \in Handlers, NEW op \in Requests \cap ApiRequests, Begin(p, op)
      PROVE  PairInv(g, h)'
  BY <1>4, <1>7, BeginHeeds
<1>8. ASSUME NEW p \in Handlers, NEW funding \in BOOLEAN, NEW assignment \in BOOLEAN,
             syncTaskWithChain(p, funding, assignment)
      PROVE  PairInv(g, h)'
  <2>1. Found(req[p])
    BY <1>2 DEF Procs
  <2> QED
    BY <1>4, <1>8, <2>1, SyncHeeds
<1>9. CASE EngineStart \/ EngineSubmit \/ EngineFail
  BY <1>2, <1>5, <1>9, EngineIsBeside
<1>10. CASE pauseTask \/ UNCHANGED vars
  <2>1. UNCHANGED <<task, req, chain>>
    BY <1>10 DEF pauseTask, vars
  <2> QED
    BY <1>1, <1>2, <1>5, <2>1 DEF Beside
<1>11. CASE Mine
  <2>1. PayoutInv(g, h)' /\ PayoutInv(h, g)'
    BY <1>2, <1>11, PayoutMined
  <2> QED
    BY <1>2, <1>3, <1>11, <2>1, FoundStep DEF PairInv
<1>12. CASE BrowserWrite
  <2>1. UNCHANGED <<task, req>> /\ ~Barred
    BY <1>2, <1>12, BrowserComesFirst, MarketConstants DEF Barred
  <2>2. PayoutInv(g, h)' /\ PayoutInv(h, g)'
    BY <1>2, <2>1 DEF PayoutInv
  <2> QED
    BY <1>2, <1>3, <1>12, <2>2, FoundStep DEF PairInv
<1> QED
  BY <1>6, <1>7, <1>8, <1>9, <1>10, <1>11, <1>12 DEF Next

\* At the start nobody waits and a submission is anchored or none.
LEMMA InitiallyPaired ==
  ASSUME NEW g, NEW h, Handlers = {g, h}, Init
  PROVE  PairInv(g, h)
<1>1. g \in Procs /\ h \in Procs /\ req = [p \in Procs |-> Idle]
  BY DEF Procs, Init
<1>2. \A p \in Procs : req[p] = Idle
  BY <1>1
<1>3. FoundInv
  BY <1>2, IdleIsCalm DEF FoundInv
<1>4. PayoutInv(g, h) /\ PayoutInv(h, g)
  BY <1>1, <1>2, IdleIsCalm DEF PayoutInv
<1>5. /\ Onchain = (IF Submitted THEN "SUBMITTED" ELSE "NONE")
      /\ Anchored = (IF Submitted THEN Submission ELSE NoSubmission) /\ operator = Server
  BY DEF Init, On, Onchain, Anchored
<1>6. SubmissionInv
  BY <1>5, MarketConstants DEF SubmissionInv, BarredStates
<1> QED
  BY <1>3, <1>4, <1>6 DEF PairInv

\* Two handlers, no appeal: no settlement pays the agent while a dispute is open,
\* however their decisions, settlements and disputes overlap.
THEOREM NoPayoutAmongTwo ==
  ASSUME NEW g, NEW h, g # h, Handlers = {g, h}, "appeal" \notin Requests
  PROVE  Spec => NoPayoutInDispute
<1>1. Init => PairInv(g, h)
  BY InitiallyPaired
<1>2. MarketInv /\ Owned /\ PairInv(g, h) /\ [Next]_vars => PairInv(g, h)'
  BY PairStep
<1>3. ASSUME MarketInv, Owned, PairInv(g, h), [Next]_vars,
             toAgent' # toAgent, Head(pending).tx.op = "settle"
      PROVE  task.dispute # "open"
  <2> DEFINE p == Head(pending).by
             c == Head(pending).tx
  <2>1. UNCHANGED chain \/ BrowserWrite => UNCHANGED toAgent
    BY DEF chain, arcVars, BrowserWrite, Arc!create_task, Arc!fund_task, Arc!assign_task,
           Arc!money
  <2>2. Mine
    BY <1>3, <2>1, ChainStep
  <2>3. p \in Procs
    BY <1>3, <2>2, OldestPending DEF Mine, MarketInv, Owned
  <2>4. /\ c.op = req[p].op /\ c.call \in CallsOf[c.op] /\ Stage(p, req[p])
        /\ Call(c) \/ UNCHANGED chain
    BY <1>3, <2>2, <2>3, MinedCall
  <2>5. req[p].pc = "sent"
    BY <1>3, <2>2, <2>3, MineMoves DEF MarketInv
  <2> HIDE DEF p
  <2>6. p \in {g, h} /\ Settling(req[p])
    BY <1>3, <2>3, <2>4, <2>5 DEF Procs, Stage, EngineOps, Settling
  <2>7. Onchain = "APPROVED"
    BY <1>3, <2>1, <2>4, CallEffect DEF MarketInv, CallsOf
  <2> QED
    BY <1>3, <2>6, <2>7 DEF PairInv, PayoutInv, Barred, BarredStates
<1>4. MarketInv /\ Owned /\ PairInv(g, h) /\ [Next]_vars =>
        [toAgent' # toAgent /\ Head(pending).tx.op = "settle" => task.dispute # "open"]_vars
  BY <1>3
<1> QED
  BY <1>1, <1>2, <1>4, MarketInvariant, PTL DEF Spec, NoPayoutInDispute
=============================================================================
