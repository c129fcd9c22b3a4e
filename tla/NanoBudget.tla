----------------------------- MODULE NanoBudget -----------------------------
(***************************************************************************)
(* The ledger of Dispatch Nano (nanoBudgetService.ts): budgets, the spend  *)
(* intents drawn on them, and the receipts of what was paid elsewhere.     *)
(* The ledger moves no money.  Its handlers run to their end without an    *)
(* await, except verify-arc-proof, which reads the intent, asks the chain  *)
(* for the receipt of a transaction and only then records the payment      *)
(* (nanoRoutes.ts, nanoArcProofService.ts).                                *)
(*                                                                         *)
(* Amounts are JSON numbers with any number of decimals, compared as they  *)
(* are and rounded to the token's six decimals where they are summed.  The *)
(* model counts in fractions of the token's unit: Unit of them make one.   *)
(* The error of binary floating point is left out, and so are goals,       *)
(* labels, times and the owner's wallet, which every handler compares.     *)
(***************************************************************************)
EXTENDS Integers, FiniteSetsExt

CONSTANTS
  Budgets, Intents, Txs,
  NoBudget,       \* the budget of an intent that does not exist
  BudgetAmounts,  \* amounts of a budget, in fractions
  SpendAmounts,   \* amounts of a spend, and limits of a policy, in fractions
  Unit,           \* fractions that make the smallest unit of the token
  MaxReceipts     \* bound on the receipts of one intent

ASSUME NanoConstants ==
  /\ Unit \in Nat \ {0}
  /\ MaxReceipts \in Nat
  /\ BudgetAmounts \subseteq Nat \ {0}
  /\ SpendAmounts \subseteq Nat \ {0}
  /\ NoBudget \notin Budgets

VARIABLES
  budgetStatus, budgetAmount, maxSpendAmount, fundingProof,
  intentStatus, intentBudget, intentAmount,
  receipts,     \* how many receipts each intent has
  counted,      \* how many of them the metrics count: arc_tx and recorded
  verifying,    \* verify-arc-proof requests that wait for the chain
  transferred   \* on the chain: what each transaction moved between two wallets

budgets == <<budgetStatus, budgetAmount, maxSpendAmount, fundingProof>>
intents == <<intentStatus, intentBudget, intentAmount>>
ledger == <<receipts, counted>>
vars == <<budgets, intents, ledger, verifying, transferred>>

BudgetStatuses == {"none", "draft", "funding_proof_recorded", "spending"}
IntentStatuses == {"none", "proposed", "approved", "payment_recorded", "failed"}
Reserved == {"approved", "payment_recorded"}
PaymentStates == {"recorded", "failed", "unavailable"}
ProofTypes == {"arc_tx", "local"}

Init ==
  /\ budgetStatus = [b \in Budgets |-> "none"]
  /\ budgetAmount = [b \in Budgets |-> 0]
  /\ maxSpendAmount = [b \in Budgets |-> 0]
  /\ fundingProof = [b \in Budgets |-> FALSE]
  /\ intentStatus = [i \in Intents |-> "none"]
  /\ intentBudget = [i \in Intents |-> NoBudget]
  /\ intentAmount = [i \in Intents |-> 0]
  /\ receipts = [i \in Intents |-> 0]
  /\ counted = [i \in Intents |-> 0]
  /\ verifying = {}
  /\ transferred = [tx \in Txs |-> 0]

-----------------------------------------------------------------------------
(* Amounts. *)

\* toFixed(6): the nearest multiple of the unit, the larger of two.
Rounded(x) == ((x + Unit \div 2) \div Unit) * Unit

SumOf(s) == MapThenSumSet(LAMBDA i : intentAmount[i], s)
Drawn(b, statuses) == {i \in Intents : intentBudget[i] = b /\ intentStatus[i] \in statuses}

\* What is left when so much of an amount is reserved.
Remaining(amount, reserved) ==
  LET rest == Rounded(amount - Rounded(reserved))
  IN  IF rest > 0 THEN rest ELSE 0

\* Faulty variant of calculateAvailableBudget: what was paid is free again.
AvailableUntilPaid(b) ==
  IF fundingProof[b] THEN Remaining(budgetAmount[b], SumOf(Drawn(b, {"approved"}))) ELSE 0

calculateAvailableBudget(b) ==
  IF fundingProof[b] THEN Remaining(budgetAmount[b], SumOf(Drawn(b, Reserved))) ELSE 0

\* Two of calculateMetrics' totals for one budget.
totalApprovedIntentValue(b) == SumOf(Drawn(b, Reserved))
totalRecordedPaymentValue(b) ==
  MapThenSumSet(LAMBDA i : counted[i] * intentAmount[i], {i \in Intents : intentBudget[i] = b})

-----------------------------------------------------------------------------
(* Budgets. *)

\* defaultPolicy also takes a limit on the budget, which only has to be above
\* both amounts; the limit on a spend may be above the budget.
createBudgetDraft(b, amount, limit) ==
  /\ budgetStatus[b] = "none"
  /\ budgetStatus' = [budgetStatus EXCEPT ![b] = "draft"]
  /\ budgetAmount' = [budgetAmount EXCEPT ![b] = amount]
  /\ maxSpendAmount' = [maxSpendAmount EXCEPT ![b] = limit]
  /\ UNCHANGED <<fundingProof, intents, ledger, verifying, transferred>>

\* A budget that is being spent goes back to funding_proof_recorded.
recordBudgetFundingProof(b) ==
  /\ budgetStatus[b] # "none"
  /\ budgetStatus' = [budgetStatus EXCEPT ![b] = "funding_proof_recorded"]
  /\ fundingProof' = [fundingProof EXCEPT ![b] = TRUE]
  /\ UNCHANGED <<budgetAmount, maxSpendAmount, intents, ledger, verifying, transferred>>

StartsSpending(b) ==
  budgetStatus' = [budgetStatus EXCEPT ![b] =
                     IF @ = "funding_proof_recorded" THEN "spending" ELSE @]

-----------------------------------------------------------------------------
(* Spend intents. *)

\* allowedPayeeTypes, a list of the policy that the payee's type must be on, is
\* left out: it refuses more.
createSpendIntent(i, b, amount) ==
  /\ intentStatus[i] = "none"
  /\ budgetStatus[b] # "none"
  /\ amount <= maxSpendAmount[b]
  /\ amount <= budgetAmount[b]
  /\ intentStatus' = [intentStatus EXCEPT ![i] = "proposed"]
  /\ intentBudget' = [intentBudget EXCEPT ![i] = b]
  /\ intentAmount' = [intentAmount EXCEPT ![i] = amount]
  /\ UNCHANGED <<budgets, ledger, verifying, transferred>>

approveSpendIntent(i) ==
  LET b == intentBudget[i]
  IN  /\ intentStatus[i] = "proposed"
      /\ fundingProof[b]
      /\ intentAmount[i] <= calculateAvailableBudget(b)
      /\ intentStatus' = [intentStatus EXCEPT ![i] = "approved"]
      /\ StartsSpending(b)
      /\ UNCHANGED <<budgetAmount, maxSpendAmount, fundingProof, intentBudget, intentAmount,
                     ledger, verifying, transferred>>

\* Appends the receipt; at most MaxReceipts of one intent.
Receives(i, proofType, paymentState) ==
  /\ receipts[i] < MaxReceipts
  /\ receipts' = [receipts EXCEPT ![i] = @ + 1]
  /\ counted' = [counted EXCEPT ![i] =
                   IF proofType = "arc_tx" /\ paymentState = "recorded" THEN @ + 1 ELSE @]

\* Faulty variants of RecordsPayment: the status of the specification document
\* is written; a proposed intent will do; the status is not read again.
RecordsAsPaid(i, proofType, paymentState) ==
  /\ intentStatus[i] \in Reserved
  /\ Receives(i, proofType, paymentState)
  /\ intentStatus' = [intentStatus EXCEPT ![i] = "paid"]
  /\ StartsSpending(intentBudget[i])

RecordsProposed(i, proofType, paymentState) ==
  /\ intentStatus[i] \in {"proposed"} \cup Reserved
  /\ Receives(i, proofType, paymentState)
  /\ intentStatus' = [intentStatus EXCEPT ![i] = "payment_recorded"]
  /\ UNCHANGED budgetStatus

RecordsUnchecked(i, proofType, paymentState) ==
  /\ intentStatus[i] \in {"failed"} \cup Reserved
  /\ Receives(i, proofType, paymentState)
  /\ intentStatus' = [intentStatus EXCEPT ![i] =
                        IF paymentState = "failed" THEN "failed" ELSE "payment_recorded"]
  /\ StartsSpending(intentBudget[i])

\* A receipt is appended each time; one failed proof after others fails the
\* intent.
RecordsPayment(i, proofType, paymentState) ==
  /\ intentStatus[i] \in Reserved
  /\ Receives(i, proofType, paymentState)
  /\ intentStatus' = [intentStatus EXCEPT ![i] =
                        IF paymentState = "failed" THEN "failed" ELSE "payment_recorded"]
  /\ StartsSpending(intentBudget[i])

recordPaymentProof(i, proofType, paymentState) ==
  /\ RecordsPayment(i, proofType, paymentState)
  /\ UNCHANGED <<budgetAmount, maxSpendAmount, fundingProof, intentBudget, intentAmount,
                 verifying, transferred>>

-----------------------------------------------------------------------------
(* verify-arc-proof. *)

\* Any existing intent will do; its status is not asked for yet.
VerifyRequested(i, tx) ==
  /\ intentStatus[i] # "none"
  /\ verifying' = verifying \cup {<<i, tx>>}
  /\ UNCHANGED <<budgets, intents, ledger, transferred>>

\* The transfer the receipt shows is the amount of the intent, in units.  Payer
\* and payee must be those the request names, whoever they are; the intent's
\* payee stands in where it names none.
verify(i, tx) == transferred[tx] = Rounded(intentAmount[i]) /\ transferred[tx] > 0

VerifyAnswered(i, tx) ==
  /\ <<i, tx>> \in verifying
  /\ verifying' = verifying \ {<<i, tx>>}
  /\ \/ /\ verify(i, tx)
        /\ RecordsPayment(i, "arc_tx", "recorded")
        /\ UNCHANGED intentBudget
     \/ /\ UNCHANGED <<budgetStatus, intentStatus, intentBudget, ledger>>
  /\ UNCHANGED <<budgetAmount, maxSpendAmount, fundingProof, intentAmount, transferred>>

\* The wallet pays, in whole units; a transaction is mined once.
Transfer(tx, amount) ==
  /\ transferred[tx] = 0
  /\ transferred' = [transferred EXCEPT ![tx] = Rounded(amount)]
  /\ UNCHANGED <<budgets, intents, ledger, verifying>>

Next ==
  \/ \E b \in Budgets :
       \/ \E amount \in BudgetAmounts, limit \in SpendAmounts : createBudgetDraft(b, amount, limit)
       \/ recordBudgetFundingProof(b)
  \/ \E i \in Intents :
       \/ \E b \in Budgets, amount \in SpendAmounts : createSpendIntent(i, b, amount)
       \/ approveSpendIntent(i)
       \/ \E p \in ProofTypes, s \in PaymentStates : recordPaymentProof(i, p, s)
       \/ \E tx \in Txs : VerifyRequested(i, tx) \/ VerifyAnswered(i, tx)
  \/ \E tx \in Txs, amount \in SpendAmounts : Transfer(tx, amount)

Spec == Init /\ [][Next]_vars

-----------------------------------------------------------------------------
(* Properties. *)

\* Every variable has its type.
TypeOK ==
  /\ budgetStatus \in [Budgets -> BudgetStatuses]
  /\ budgetAmount \in [Budgets -> Nat]
  /\ maxSpendAmount \in [Budgets -> Nat]
  /\ fundingProof \in [Budgets -> BOOLEAN]
  /\ intentStatus \in [Intents -> IntentStatuses]
  /\ intentBudget \in [Intents -> Budgets \cup {NoBudget}]
  /\ intentAmount \in [Intents -> Nat]
  /\ receipts \in [Intents -> Nat]
  /\ counted \in [Intents -> Nat]
  /\ verifying \subseteq Intents \X Txs
  /\ transferred \in [Txs -> Nat]

\* What is approved or paid from a budget exceeds it by less than one unit of
\* the token, however many spends were rounded, recorded or failed before.
WithinBudget ==
  \A b \in Budgets : totalApprovedIntentValue(b) > 0 =>
    totalApprovedIntentValue(b) < budgetAmount[b] + Unit

\* Nothing is spent from a budget without a proof of its funding, and nothing
\* is recorded as paid, or as failed, that was never approved: neither a
\* repeated proof nor a late verification gets around approveSpendIntent.
SpendsAreApproved ==
  \A i \in Intents :
    /\ intentStatus[i] \in Reserved \cup {"failed"} => fundingProof[intentBudget[i]]
    /\ receipts[i] > 0 => intentStatus[i] \in {"payment_recorded", "failed"}

\* A failed intent stays failed: no verification that was under way revives it
\* and reserves the budget again.
FailedStays ==
  [][\A i \in Intents : intentStatus[i] = "failed" => intentStatus'[i] = "failed"]_intentStatus

\* The metrics do not count more as paid than was approved.
CountedIsApproved ==
  \A b \in Budgets : totalRecordedPaymentValue(b) <= totalApprovedIntentValue(b)
=============================================================================
