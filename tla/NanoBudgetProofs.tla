-------------------------- MODULE NanoBudgetProofs --------------------------
(***************************************************************************)
(* Proofs about NanoBudget for every number of budgets, intents,           *)
(* transactions and receipts, every amount and every unit.                 *)
(***************************************************************************)
EXTENDS NanoBudget, FiniteSetTheorems, TLAPS

\* Rounding moves an amount by half a unit at most, upwards included.
LEMMA RoundingError ==
  ASSUME NEW x \in Int
  PROVE  /\ Rounded(x) \in Int
         /\ Rounded(x) <= x + Unit \div 2
         /\ x + Unit \div 2 < Rounded(x) + Unit
<1> DEFINE half == Unit \div 2
           q == (x + half) \div Unit
<1>1. Unit \in Nat /\ Unit > 0
  BY NanoConstants
<1>2. half \in Int
  BY <1>1
<1>3. x + half \in Int
  BY <1>2
<1>4. \A y \in Int : /\ y \div Unit \in Int
                     /\ (y \div Unit) * Unit <= y
                     /\ y < (y \div Unit) * Unit + Unit
  BY <1>1, Z3
<1>5. Rounded(x) = q * Unit
  BY DEF Rounded
<1>6. q \in Int /\ q * Unit <= x + half /\ x + half < q * Unit + Unit
  BY <1>3, <1>4
<1>7. q * Unit \in Int
  BY <1>1, <1>6
<1> QED
  BY <1>5, <1>6, <1>7

\* Whatever is reserved already, a spend that is not above what remains takes
\* the reserved amount to less than one unit above the budget: the error of a
\* rounded sum and the error of a rounded difference do not add up to more,
\* and a budget that is overdrawn by a fraction has nothing left.
THEOREM ApprovalOvershoot ==
  ASSUME NEW amount \in Nat, NEW reserved \in Nat, NEW spend \in Nat \ {0},
         spend <= Remaining(amount, reserved)
  PROVE  reserved + spend < amount + Unit
<1> DEFINE half == Unit \div 2
           r == Rounded(reserved)
           rest == Rounded(amount - r)
<1>1. Unit \in Nat /\ half \in Int
  BY NanoConstants
<1>2. r \in Int /\ reserved + half < r + Unit
  BY RoundingError
<1>3. amount - r \in Int
  BY <1>2
<1>4. rest \in Int /\ rest <= (amount - r) + half
  BY <1>3, RoundingError
<1>5. spend <= rest
  BY <1>4 DEF Remaining
<1> HIDE DEF half, r, rest
<1> QED
  BY <1>1, <1>2, <1>4, <1>5

\* Recording a payment touches an intent that was approved, and no other.
LEMMA PaymentEffect ==
  ASSUME TypeOK, NEW i \in Intents, NEW p \in ProofTypes, NEW s \in PaymentStates,
         RecordsPayment(i, p, s)
  PROVE  /\ intentStatus[i] \in Reserved
         /\ \E status \in {"payment_recorded", "failed"} :
              intentStatus' = [intentStatus EXCEPT ![i] = status]
         /\ budgetStatus' \in [Budgets -> BudgetStatuses]
         /\ receipts' = [receipts EXCEPT ![i] = receipts[i] + 1]
         /\ receipts' \in [Intents -> Nat]
         /\ counted' \in [Intents -> Nat]
<1>1. budgetStatus' \in [Budgets -> BudgetStatuses]
  BY DEF RecordsPayment, StartsSpending, TypeOK, BudgetStatuses
<1>2. receipts' \in [Intents -> Nat] /\ counted' \in [Intents -> Nat]
  BY DEF RecordsPayment, Receives, TypeOK
<1> QED
  BY <1>1, <1>2 DEF RecordsPayment, Receives

\* The inductive invariant: an intent that exists belongs to a budget that
\* does, and what was approved or paid stands on what came before.
NanoInv ==
  /\ TypeOK
  /\ SpendsAreApproved
  /\ \A i \in Intents :
       /\ intentStatus[i] = "none" => receipts[i] = 0
       /\ intentStatus[i] # "none" => intentBudget[i] \in Budgets

LEMMA NanoInit == Init => NanoInv
<1> SUFFICES ASSUME Init PROVE NanoInv
  OBVIOUS
<1>1. TypeOK
  BY DEF Init, TypeOK, BudgetStatuses, IntentStatuses
<1> QED
  BY <1>1 DEF Init, NanoInv, SpendsAreApproved, Reserved

\* A budget is created or funded: no intent changes, no funding proof is lost.
LEMMA NanoBudgetStep ==
  ASSUME NanoInv, NEW b \in Budgets,
         \/ \E amount \in BudgetAmounts, limit \in SpendAmounts : createBudgetDraft(b, amount, limit)
         \/ recordBudgetFundingProof(b)
  PROVE  NanoInv'
<1>1. /\ UNCHANGED <<intentStatus, intentBudget, intentAmount, receipts, counted, verifying,
                     transferred>>
      /\ fundingProof' \in [Budgets -> BOOLEAN]
      /\ \A c \in Budgets : fundingProof[c] => fundingProof'[c]
  BY DEF createBudgetDraft, recordBudgetFundingProof, intents, ledger, NanoInv, TypeOK
<1>2. budgetStatus' \in [Budgets -> BudgetStatuses]
  BY DEF createBudgetDraft, recordBudgetFundingProof, NanoInv, TypeOK, BudgetStatuses
<1>3. budgetAmount' \in [Budgets -> Nat] /\ maxSpendAmount' \in [Budgets -> Nat]
  BY NanoConstants DEF createBudgetDraft, recordBudgetFundingProof, NanoInv, TypeOK
<1>4. TypeOK'
  BY <1>1, <1>2, <1>3 DEF NanoInv, TypeOK
<1>5. \A i \in Intents : intentStatus[i] \in Reserved \cup {"failed"} => intentBudget[i] \in Budgets
  BY DEF NanoInv, Reserved
<1>6. SpendsAreApproved'
  BY <1>1, <1>5 DEF NanoInv, SpendsAreApproved
<1> QED
  BY <1>1, <1>4, <1>6 DEF NanoInv

\* An intent is created: it has no receipt.
LEMMA NanoCreateStep ==
  ASSUME NanoInv, NEW i \in Intents, NEW b \in Budgets, NEW amount \in SpendAmounts,
         createSpendIntent(i, b, amount)
  PROVE  NanoInv'
<1>1. /\ intentStatus[i] = "none"
      /\ intentStatus' = [intentStatus EXCEPT ![i] = "proposed"]
      /\ intentBudget' = [intentBudget EXCEPT ![i] = b]
      /\ intentAmount' = [intentAmount EXCEPT ![i] = amount]
      /\ UNCHANGED <<budgetStatus, budgetAmount, maxSpendAmount, fundingProof, receipts, counted,
                     verifying, transferred>>
  BY DEF createSpendIntent, budgets, ledger
<1>2. TypeOK'
  BY <1>1, NanoConstants DEF NanoInv, TypeOK, IntentStatuses
<1>3. SpendsAreApproved'
  BY <1>1 DEF NanoInv, TypeOK, SpendsAreApproved, Reserved
<1> QED
  BY <1>1, <1>2, <1>3 DEF NanoInv, TypeOK

\* An approval finds the funding proof.
LEMMA NanoApproveStep ==
  ASSUME NanoInv, NEW i \in Intents, approveSpendIntent(i)
  PROVE  NanoInv'
<1>1. /\ intentStatus[i] = "proposed" /\ fundingProof[intentBudget[i]]
      /\ intentStatus' = [intentStatus EXCEPT ![i] = "approved"]
      /\ UNCHANGED <<budgetAmount, maxSpendAmount, fundingProof, intentBudget, intentAmount,
                     receipts, counted, verifying, transferred>>
  BY DEF approveSpendIntent, ledger
<1>2. budgetStatus' \in [Budgets -> BudgetStatuses]
  BY DEF approveSpendIntent, StartsSpending, NanoInv, TypeOK, BudgetStatuses
<1>3. TypeOK'
  BY <1>1, <1>2 DEF NanoInv, TypeOK, IntentStatuses
<1>4. SpendsAreApproved'
  BY <1>1 DEF NanoInv, TypeOK, SpendsAreApproved
<1> QED
  BY <1>1, <1>3, <1>4 DEF NanoInv, TypeOK

\* A payment is recorded, by the wallet or by the verifier.
LEMMA NanoPaymentStep ==
  ASSUME NanoInv, NEW i \in Intents, NEW p \in ProofTypes, NEW s \in PaymentStates,
         RecordsPayment(i, p, s),
         UNCHANGED <<budgetAmount, maxSpendAmount, fundingProof, intentBudget, intentAmount,
                     transferred>>,
         verifying' \in SUBSET (Intents \X Txs)
  PROVE  NanoInv'
<1> TypeOK
  BY DEF NanoInv
<1>1. PICK status \in {"payment_recorded", "failed"} :
        intentStatus' = [intentStatus EXCEPT ![i] = status]
  BY PaymentEffect
<1>2. /\ intentStatus[i] \in Reserved
      /\ budgetStatus' \in [Budgets -> BudgetStatuses]
      /\ receipts' = [receipts EXCEPT ![i] = receipts[i] + 1]
      /\ receipts' \in [Intents -> Nat] /\ counted' \in [Intents -> Nat]
  BY PaymentEffect
<1>3. TypeOK'
  <2>1. intentStatus' \in [Intents -> IntentStatuses]
    BY <1>1 DEF TypeOK, IntentStatuses
  <2> QED
    BY <1>2, <2>1 DEF TypeOK
<1>4. SpendsAreApproved'
  <2> SUFFICES ASSUME NEW j \in Intents
               PROVE /\ intentStatus'[j] \in Reserved \cup {"failed"} => fundingProof[intentBudget[j]]
                     /\ receipts'[j] > 0 => intentStatus'[j] \in {"payment_recorded", "failed"}
    BY DEF SpendsAreApproved
  <2>1. CASE j = i
    BY <1>1, <1>2, <2>1 DEF NanoInv, SpendsAreApproved, TypeOK
  <2>2. CASE j # i
    BY <1>1, <1>2, <2>2 DEF NanoInv, SpendsAreApproved, TypeOK
  <2> QED
    BY <2>1, <2>2
<1>5. \A j \in Intents :
        /\ intentStatus'[j] = "none" => receipts'[j] = 0
        /\ intentStatus'[j] # "none" => intentBudget'[j] \in Budgets
  <2> TAKE j \in Intents
  <2>1. CASE j = i
    BY <1>1, <1>2, <2>1 DEF NanoInv, TypeOK, Reserved
  <2>2. CASE j # i
    BY <1>1, <1>2, <2>2 DEF NanoInv, TypeOK
  <2> QED
    BY <2>1, <2>2
<1> QED
  BY <1>3, <1>4, <1>5 DEF NanoInv

\* A transfer changes nothing in the ledger.
LEMMA NanoTransferStep ==
  ASSUME NanoInv, NEW tx \in Txs, NEW amount \in SpendAmounts, Transfer(tx, amount)
  PROVE  NanoInv'
<1>1. /\ transferred[tx] = 0
      /\ transferred' = [transferred EXCEPT ![tx] = Rounded(amount)]
      /\ UNCHANGED <<budgetStatus, budgetAmount, maxSpendAmount, fundingProof, intentStatus,
                     intentBudget, intentAmount, receipts, counted, verifying>>
  BY DEF Transfer, budgets, intents, ledger
<1>2. Rounded(amount) \in Nat
  <2>1. amount \in Nat /\ Unit \in Nat \ {0}
    BY NanoConstants
  <2>2. Unit \div 2 \in Nat
    BY <2>1
  <2>3. amount + Unit \div 2 \in Nat
    BY <2>1, <2>2
  <2>4. \A x \in Nat : x \div Unit \in Nat
    BY <2>1
  <2>5. \A x, y \in Nat : x * y \in Nat
    OBVIOUS
  <2> QED
    BY <2>1, <2>3, <2>4, <2>5 DEF Rounded
<1>3. TypeOK'
  BY <1>1, <1>2 DEF NanoInv, TypeOK
<1>4. SpendsAreApproved'
  BY <1>1 DEF NanoInv, SpendsAreApproved
<1> QED
  BY <1>1, <1>3, <1>4 DEF NanoInv

\* The inductive invariant holds in every reachable state.
THEOREM NanoInvariant == Spec => []NanoInv
<1>1. NanoInv /\ [Next]_vars => NanoInv'
  <2>1. ASSUME NanoInv, UNCHANGED vars PROVE NanoInv'
    BY <2>1 DEF vars, budgets, intents, ledger, NanoInv, TypeOK, SpendsAreApproved
  <2>2. ASSUME NanoInv, Next PROVE NanoInv'
    <3> USE <2>2
    <3>1. ASSUME NEW b \in Budgets,
                 \/ \E amount \in BudgetAmounts, limit \in SpendAmounts :
                      createBudgetDraft(b, amount, limit)
                 \/ recordBudgetFundingProof(b)
          PROVE NanoInv'
      BY <3>1, NanoBudgetStep
    <3>2. ASSUME NEW i \in Intents, NEW b \in Budgets, NEW amount \in SpendAmounts,
                 createSpendIntent(i, b, amount)
          PROVE NanoInv'
      BY <3>2, NanoCreateStep
    <3>3. ASSUME NEW i \in Intents, approveSpendIntent(i) PROVE NanoInv'
      BY <3>3, NanoApproveStep
    <3>4. ASSUME NEW i \in Intents, NEW p \in ProofTypes, NEW s \in PaymentStates,
                 recordPaymentProof(i, p, s)
          PROVE NanoInv'
      BY <3>4, NanoPaymentStep DEF recordPaymentProof, NanoInv, TypeOK
    <3>5. ASSUME NEW i \in Intents, NEW tx \in Txs, VerifyAnswered(i, tx) PROVE NanoInv'
      <4>1. /\ UNCHANGED <<budgetAmount, maxSpendAmount, fundingProof, intentBudget, intentAmount,
                           transferred>>
            /\ verifying' \in SUBSET (Intents \X Txs)
        BY <3>5 DEF VerifyAnswered, NanoInv, TypeOK
      <4>2. CASE verify(i, tx) /\ RecordsPayment(i, "arc_tx", "recorded")
        BY <4>1, <4>2, NanoPaymentStep DEF ProofTypes, PaymentStates
      <4>3. CASE UNCHANGED <<budgetStatus, intentStatus, intentBudget, ledger>>
        BY <4>1, <4>3 DEF ledger, NanoInv, TypeOK, SpendsAreApproved
      <4> QED
        BY <3>5, <4>2, <4>3 DEF VerifyAnswered
    <3>6. ASSUME NEW i \in Intents, NEW tx \in Txs, VerifyRequested(i, tx) PROVE NanoInv'
      BY <3>6 DEF VerifyRequested, budgets, intents, ledger, NanoInv, TypeOK, SpendsAreApproved
    <3>7. ASSUME NEW tx \in Txs, NEW amount \in SpendAmounts, Transfer(tx, amount) PROVE NanoInv'
      BY <3>7, NanoTransferStep
    <3> QED
      BY <3>1, <3>2, <3>3, <3>4, <3>5, <3>6, <3>7 DEF Next
  <2> QED
    BY <2>1, <2>2
<1> QED
  BY NanoInit, <1>1, PTL DEF Spec

\* Every reachable state of the ledger has its types.
THEOREM NanoTypeCorrect == Spec => []TypeOK
BY NanoInvariant, PTL DEF NanoInv

\* Nothing is spent from an unfunded budget and nothing recorded that was never
\* approved, for any number of intents, receipts and concurrent verifications.
THEOREM SpendSafety == Spec => []SpendsAreApproved
BY NanoInvariant, PTL DEF NanoInv

\* No step takes a failed intent back.
THEOREM FailedForGood == Spec => FailedStays
<1> DEFINE Stays == \A i \in Intents : intentStatus[i] = "failed" => intentStatus'[i] = "failed"
<1>1. NanoInv /\ [Next]_vars => [Stays]_intentStatus
  <2> SUFFICES ASSUME NanoInv, Next, intentStatus' # intentStatus, NEW j \in Intents,
                      intentStatus[j] = "failed"
               PROVE intentStatus'[j] = "failed"
    BY DEF vars, intents
  <2> TypeOK
    BY DEF NanoInv
  <2>1. PICK i \in Intents :
          \/ \E b \in Budgets, amount \in SpendAmounts : createSpendIntent(i, b, amount)
          \/ approveSpendIntent(i)
          \/ \E p \in ProofTypes, s \in PaymentStates : RecordsPayment(i, p, s)
    BY DEF Next, createBudgetDraft, recordBudgetFundingProof, recordPaymentProof, VerifyRequested,
       VerifyAnswered, Transfer, intents, ProofTypes, PaymentStates
  <2>2. intentStatus[i] # "failed" /\ \E s : intentStatus' = [intentStatus EXCEPT ![i] = s]
    BY <2>1, PaymentEffect DEF createSpendIntent, approveSpendIntent, Reserved
  <2> QED
    BY <2>2 DEF TypeOK
<1> QED
  BY NanoInvariant, <1>1, PTL DEF Spec, FailedStays

-----------------------------------------------------------------------------
(* Sums.  The library's induction over finite sets takes a predicate as its  *)
(* parameter; a minimal element of the set of counterexamples does without.  *)

\* The sum of f over S, and the function its definition recurses by.
Total(f, S) == MapThenSumSet(LAMBDA i : f[i], S)
Pick(s) == CHOOSE x \in s : TRUE
IsSum(g, f, S) == g = [s \in SUBSET S |-> IF s = {} THEN 0 ELSE f[Pick(s)] + g[s \ {Pick(s)}]]

\* Induction, as a minimal element of the counterexamples.
LEMMA LeastNumber ==
  ASSUME NEW T \in SUBSET Nat, T # {}
  PROVE  \E n \in T : \A m \in T : n <= m
<1> DEFINE Below == {p \in Nat \X Nat : p[1] < p[2]}
<1>1. IsWellFoundedOn(Below, Nat)
  BY NatLessThanWellFounded DEF OpToRel
<1>2. PICK n \in T : \A m \in T : ~ (<<m, n>> \in Below)
  <2> HIDE DEF Below
  <2> QED
    BY <1>1, WFMin
<1>3. \A m \in T : n <= m
  <2> TAKE m \in T
  <2>1. m \in Nat /\ n \in Nat /\ <<m, n>> \notin Below
    BY <1>2
  <2>2. ~ (m < n)
    BY <2>1
  <2> QED
    BY <2>1, <2>2
<1> QED
  BY <1>3

\* The same for subsets of a finite set.
LEMMA SmallestSubset ==
  ASSUME NEW U, IsFiniteSet(U), NEW T \in SUBSET (SUBSET U), T # {}
  PROVE  \E V \in T : \A W \in T : W \subseteq V => W = V
<1>1. T \subseteq FiniteSubsetsOf(U)
  BY FS_FiniteSubsetsOfFinite
<1>2. PICK V \in T : \A W \in T : ~ (<<W, V>> \in StrictSubsetOrdering(U))
  BY <1>1, FS_StrictSubsetOrderingWellFounded, WFMin
<1> QED
  BY <1>2 DEF StrictSubsetOrdering

\* The recursion takes out an element of the set.
LEMMA PickIn ==
  ASSUME NEW s, s # {}
  PROVE  Pick(s) \in s
BY DEF Pick

\* The recursion has a solution, built up by the size of the sets.
LEMMA SumExists ==
  ASSUME NEW S, IsFiniteSet(S), NEW f, \A x \in S : f[x] \in Nat
  PROVE  \E g \in [SUBSET S -> Nat] : IsSum(g, f, S)
<1> DEFINE Small(n) == {s \in SUBSET S : Cardinality(s) <= n}
           Solves(g, n) == g = [s \in Small(n) |->
                                  IF s = {} THEN 0 ELSE f[Pick(s)] + g[s \ {Pick(s)}]]
           T == {n \in Nat : ~ \E g \in [Small(n) -> Nat] : Solves(g, n)}
<1>1. \A s \in SUBSET S : IsFiniteSet(s) /\ Cardinality(s) \in Nat /\ Cardinality(s) <= Cardinality(S)
  BY FS_Subset, FS_CardinalityType
<1>2. \A s \in SUBSET S : s # {} => /\ Pick(s) \in S /\ f[Pick(s)] \in Nat
                                    /\ s \ {Pick(s)} \in SUBSET S
                                    /\ Cardinality(s \ {Pick(s)}) = Cardinality(s) - 1
  BY <1>1, PickIn, FS_RemoveElement
<1>3. T = {}
  <2> SUFFICES ASSUME T # {} PROVE FALSE
    OBVIOUS
  <2>1. PICK n \in T : \A m \in T : n <= m
    BY LeastNumber
  <2>2. CASE n = 0
    <3>1. \A s \in Small(0) : s = {}
      BY <1>1, FS_EmptySet
    <3> DEFINE g == [s \in Small(0) |-> 0]
    <3>2. g \in [Small(0) -> Nat] /\ Solves(g, 0)
      BY <3>1
    <3> QED
      BY <2>1, <2>2, <3>2
  <2>3. CASE n # 0
    <3>1. n - 1 \in Nat /\ n - 1 \notin T
      <4>1. n \in Nat /\ T \subseteq Nat
        BY <2>1
      <4> HIDE DEF T
      <4> QED
        BY <2>1, <2>3, <4>1
    <3>2. PICK g \in [Small(n-1) -> Nat] : Solves(g, n-1)
      BY <3>1
    <3> DEFINE h == [s \in Small(n) |-> IF s = {} THEN 0 ELSE f[Pick(s)] + g[s \ {Pick(s)}]]
    <3>3. ASSUME NEW s \in Small(n), s # {}
          PROVE s \ {Pick(s)} \in Small(n-1)
      BY <1>1, <1>2, <2>1, <3>3
    <3>4. \A s \in Small(n) : IF s = {} THEN TRUE ELSE f[Pick(s)] + g[s \ {Pick(s)}] \in Nat
      BY <1>2, <3>3
    <3>5. h \in [Small(n) -> Nat]
      BY <3>4
    <3>6. \A s \in Small(n-1) : s \in Small(n)
      BY <1>1, <2>1
    <3>7. \A s \in Small(n-1) : h[s] = g[s]
      BY <3>2, <3>6
    <3>8. \A s \in Small(n) : s # {} => h[s \ {Pick(s)}] = g[s \ {Pick(s)}]
      BY <3>3, <3>7
    <3>9. Solves(h, n)
      <4> HIDE DEF Small
      <4>1. h = [s \in Small(n) |-> IF s = {} THEN 0 ELSE f[Pick(s)] + h[s \ {Pick(s)}]]
        BY <3>8
      <4> QED BY <4>1
    <3> QED
      BY <2>1, <3>5, <3>9
  <2> QED
    BY <2>2, <2>3
<1>4. Small(Cardinality(S)) = SUBSET S /\ Cardinality(S) \in Nat
  BY <1>1
<1>5. \E g \in [Small(Cardinality(S)) -> Nat] : Solves(g, Cardinality(S))
  <2> HIDE DEF Small, Solves
  <2> QED
    BY <1>3, <1>4
<1> QED
  BY <1>4, <1>5, Zenon DEF IsSum

\* Solutions agree wherever their summands do.
LEMMA SumsAgree ==
  ASSUME NEW f, NEW g, NEW S, IsSum(g, f, S),
         NEW e, NEW h, NEW R, IsSum(h, e, R),
         NEW U \in SUBSET S, U \in SUBSET R, IsFiniteSet(U), \A x \in U : f[x] = e[x]
  PROVE  g[U] = h[U]
<1> DEFINE T == {V \in SUBSET U : g[V] # h[V]}
<1> SUFFICES ASSUME T # {} PROVE FALSE
  OBVIOUS
<1>1. PICK V \in T : \A W \in T : W \subseteq V => W = V
  <2>1. T \in SUBSET (SUBSET U)
    OBVIOUS
  <2> HIDE DEF T
  <2> QED
    BY <2>1, SmallestSubset
<1>2. V \in SUBSET S /\ V \in SUBSET R
  OBVIOUS
<1>3. /\ g[V] = IF V = {} THEN 0 ELSE f[Pick(V)] + g[V \ {Pick(V)}]
      /\ h[V] = IF V = {} THEN 0 ELSE e[Pick(V)] + h[V \ {Pick(V)}]
  <2>1. \A s \in SUBSET S : g[s] = IF s = {} THEN 0 ELSE f[Pick(s)] + g[s \ {Pick(s)}]
    BY DEF IsSum
  <2>2. \A s \in SUBSET R : h[s] = IF s = {} THEN 0 ELSE e[Pick(s)] + h[s \ {Pick(s)}]
    BY DEF IsSum
  <2> QED
    BY <1>2, <2>1, <2>2
<1>4. V # {}
  BY <1>3
<1>5. Pick(V) \in V
  BY <1>4, PickIn
<1>6. V \ {Pick(V)} \in SUBSET U /\ V \ {Pick(V)} \notin T
  BY <1>1, <1>5
<1>7. g[V \ {Pick(V)}] = h[V \ {Pick(V)}]
  BY <1>6
<1>8. f[Pick(V)] = e[Pick(V)]
  BY <1>5
<1> QED
  BY <1>3, <1>4, <1>7, <1>8

\* The community module's sum is the value of any solution.
LEMMA TotalIsSum ==
  ASSUME NEW S, IsFiniteSet(S), NEW f, \A x \in S : f[x] \in Nat, NEW g, IsSum(g, f, S),
         NEW U \in SUBSET S
  PROVE  Total(f, U) = g[U]
<1>1. Total(f, U) = (CHOOSE h : IsSum(h, f, U))[U]
  BY DEF Total, MapThenSumSet, MapThenFoldSet, IsSum, Pick
<1>2. IsFiniteSet(U)
  BY FS_Subset
<1>3. \E h : IsSum(h, f, U)
  BY <1>2, SumExists
<1>4. IsSum(CHOOSE h : IsSum(h, f, U), f, U)
  BY <1>3
<1> HIDE DEF IsSum
<1> QED
  BY <1>1, <1>2, <1>4, SumsAgree

\* A sum of naturals is one.
LEMMA TotalIsNatural ==
  ASSUME NEW S, IsFiniteSet(S), NEW f, \A x \in S : f[x] \in Nat
  PROVE  Total(f, S) \in Nat
<1>1. PICK g \in [SUBSET S -> Nat] : IsSum(g, f, S)
  BY SumExists
<1>2. Total(f, S) = g[S]
  BY <1>1, TotalIsSum
<1> QED
  BY <1>2

\* A sum depends on the summands of its set only.
LEMMA TotalOfSame ==
  ASSUME NEW S, IsFiniteSet(S), NEW f, \A x \in S : f[x] \in Nat,
         NEW e, \A x \in S : e[x] = f[x]
  PROVE  Total(e, S) = Total(f, S)
<1>1. PICK g : IsSum(g, f, S)
  BY SumExists
<1>2. PICK h : IsSum(h, e, S)
  BY SumExists
<1> QED
  BY <1>1, <1>2, SumsAgree, TotalIsSum

\* Any element can be counted last.
LEMMA TotalWithout ==
  ASSUME NEW S, IsFiniteSet(S), NEW f, \A x \in S : f[x] \in Nat, NEW x \in S
  PROVE  Total(f, S) = f[x] + Total(f, S \ {x})
<1>1. PICK g \in [SUBSET S -> Nat] : IsSum(g, f, S)
  BY SumExists
<1> DEFINE T == {V \in SUBSET S : \E y \in V : g[V] # f[y] + g[V \ {y}]}
<1>2. T = {}
  <2> SUFFICES ASSUME T # {} PROVE FALSE
    OBVIOUS
  <2>1. PICK V \in T : \A W \in T : W \subseteq V => W = V
    <3>1. T \in SUBSET (SUBSET S)
      OBVIOUS
    <3> HIDE DEF T
    <3> QED
      BY <3>1, SmallestSubset
  <2>2. PICK y \in V : g[V] # f[y] + g[V \ {y}]
    BY <2>1
  <2> DEFINE c == Pick(V)
  <2>3. c \in V /\ V \in SUBSET S
    BY <2>1, <2>2, PickIn
  <2>4. g[V] = f[c] + g[V \ {c}]
    <3>1. \A s \in SUBSET S : g[s] = IF s = {} THEN 0 ELSE f[Pick(s)] + g[s \ {Pick(s)}]
      BY <1>1 DEF IsSum
    <3> QED
      BY <2>3, <3>1
  <2>5. ASSUME NEW W \in SUBSET S, W \subseteq V, W # V, NEW z \in W
        PROVE  g[W] = f[z] + g[W \ {z}]
    BY <2>1, <2>5
  <2> HIDE DEF c, T
  <2> y # c
    BY <2>2, <2>4
  <2>6. g[V \ {c}] = f[y] + g[(V \ {c}) \ {y}]
    <3>1. V \ {c} \in SUBSET S /\ V \ {c} # V /\ y \in V \ {c}
      BY <2>3, <2>2
    <3> QED
      BY <2>5, <3>1
  <2>7. g[V \ {y}] = f[c] + g[(V \ {y}) \ {c}]
    <3>1. V \ {y} \in SUBSET S /\ V \ {y} # V /\ c \in V \ {y}
      BY <2>3, <2>2
    <3> QED
      BY <2>5, <3>1
  <2>8. (V \ {c}) \ {y} = (V \ {y}) \ {c}
    OBVIOUS
  <2>9. /\ f[c] \in Nat /\ f[y] \in Nat
        /\ g[(V \ {c}) \ {y}] \in Nat
    <3>1. (V \ {c}) \ {y} \in SUBSET S
      BY <2>3
    <3> QED
      BY <1>1, <2>2, <2>3, <3>1
  <2>10. g[V] = f[c] + (f[y] + g[(V \ {c}) \ {y}])
    BY <2>4, <2>6
  <2>11. f[y] + g[V \ {y}] = f[y] + (f[c] + g[(V \ {c}) \ {y}])
    BY <2>7, <2>8
  <2>12. \A k, l, m \in Nat : k + (l + m) = l + (k + m)
    OBVIOUS
  <2> QED
    BY <2>2, <2>9, <2>10, <2>11, <2>12
<1>3. g[S] = f[x] + g[S \ {x}]
  BY <1>2
<1>4. Total(f, S) = g[S] /\ Total(f, S \ {x}) = g[S \ {x}]
  BY <1>1, TotalIsSum
<1> QED
  BY <1>3, <1>4

\* What the sum of a set is when it is empty.
LEMMA TotalOfNothing ==
  ASSUME NEW f
  PROVE  Total(f, {}) = 0
<1>1. IsFiniteSet({})
  BY FS_EmptySet
<1>2. PICK g : IsSum(g, f, {})
  BY <1>1, SumExists
<1>3. Total(f, {}) = g[{}]
  BY <1>1, <1>2, TotalIsSum
<1> QED
  BY <1>2, <1>3 DEF IsSum

-----------------------------------------------------------------------------
(* The budget.                                                             *)

\* What WithinBudget needs: at any time finitely many intents are reserved, and
\* an intent belongs to a budget whose amount does not change any more.
BudgetInv ==
  /\ \A b \in Budgets : IsFiniteSet(Drawn(b, Reserved))
  /\ \A i \in Intents : intentStatus[i] # "none" =>
       budgetStatus[intentBudget[i]] # "none" /\ intentAmount[i] > 0
  /\ WithinBudget

\* The total of a budget, now and after a step.
LEMMA ApprovedTotal ==
  ASSUME NEW b
  PROVE  totalApprovedIntentValue(b) = Total(intentAmount, Drawn(b, Reserved))
BY DEF totalApprovedIntentValue, SumOf, Total

LEMMA ApprovedTotalNext ==
  ASSUME NEW CONSTANT b
  PROVE  totalApprovedIntentValue(b)' = Total(intentAmount', Drawn(b, Reserved)')
BY DEF totalApprovedIntentValue, SumOf, Total, MapThenSumSet, MapThenFoldSet, Drawn

\* Nothing new is reserved of a budget: its total does not grow.
LEMMA TotalShrinks ==
  ASSUME NEW S, IsFiniteSet(S), NEW f, \A x \in S : f[x] \in Nat, NEW i,
         NEW e, \A x \in S \ {i} : e[x] = f[x], NEW U, U = S \/ U = S \ {i}, i \in U => e[i] = f[i]
  PROVE  Total(e, U) \in Nat /\ Total(e, U) <= Total(f, S)
<1>1. \A x \in U : e[x] = f[x] /\ f[x] \in Nat
  OBVIOUS
<1>2. IsFiniteSet(U)
  BY FS_Subset
<1>3. Total(e, U) = Total(f, U) /\ Total(f, U) \in Nat
  BY <1>1, <1>2, TotalOfSame, TotalIsNatural
<1>4. CASE U = S
  BY <1>3, <1>4
<1>5. CASE i \in S /\ U = S \ {i}
  <2>1. Total(f, S) = f[i] + Total(f, U) /\ f[i] \in Nat
    BY <1>5, TotalWithout
  <2> QED
    BY <1>3, <2>1
<1>6. CASE i \notin S /\ U = S \ {i}
  <2>1. U = S
    BY <1>6
  <2> QED
    BY <1>3, <2>1
<1> QED
  BY <1>4, <1>5, <1>6

\* A step that reserves nothing of a budget and leaves its amount alone.
LEMMA BudgetNotDrawn ==
  ASSUME NanoInv, BudgetInv, NEW b \in Budgets, budgetAmount'[b] = budgetAmount[b],
         NEW i, \/ Drawn(b, Reserved)' = Drawn(b, Reserved)
                \/ Drawn(b, Reserved)' = Drawn(b, Reserved) \ {i},
         \A j \in Drawn(b, Reserved) : intentAmount'[j] = intentAmount[j]
  PROVE  /\ IsFiniteSet(Drawn(b, Reserved)')
         /\ totalApprovedIntentValue(b)' > 0 =>
              totalApprovedIntentValue(b)' < budgetAmount'[b] + Unit
<1> DEFINE S == Drawn(b, Reserved)
           U == Drawn(b, Reserved)'
<1>1. IsFiniteSet(S) /\ \A j \in S : intentAmount[j] \in Nat
  BY DEF BudgetInv, Drawn, NanoInv, TypeOK
<1>2. IsFiniteSet(U)
  BY <1>1, FS_Subset
<1>3. totalApprovedIntentValue(b)' = Total(intentAmount', U)
  BY ApprovedTotalNext
<1>4. totalApprovedIntentValue(b) = Total(intentAmount, S)
  BY ApprovedTotal
<1>5. Total(intentAmount', U) \in Nat /\ Total(intentAmount', U) <= Total(intentAmount, S)
  <2> HIDE DEF S, U
  <2>1. U = S \/ U = S \ {i}
    BY DEF S, U
  <2>2. \A j \in S : intentAmount'[j] = intentAmount[j]
    BY DEF S
  <2>3. CASE i \in S
    BY <1>1, <2>1, <2>2, <2>3, TotalShrinks
  <2>4. CASE i \notin S
    <3>1. U = S /\ i \notin U
      BY <2>1, <2>4
    <3> QED
      BY <1>1, <2>2, <3>1, TotalShrinks
  <2> QED
    BY <2>3, <2>4
<1>6. Total(intentAmount, S) \in Nat
  BY <1>1, TotalIsNatural
<1>7. totalApprovedIntentValue(b) > 0 => totalApprovedIntentValue(b) < budgetAmount[b] + Unit
  BY DEF BudgetInv, WithinBudget
<1>8. budgetAmount[b] \in Nat /\ Unit \in Nat
  BY NanoConstants DEF NanoInv, TypeOK
<1> HIDE DEF S, U
<1>9. ASSUME NEW t \in Nat, NEW u \in Nat, u <= t, t > 0 => t < budgetAmount[b] + Unit
      PROVE  u > 0 => u < budgetAmount[b] + Unit
  BY <1>8, <1>9
<1>10. Total(intentAmount', U) > 0 => Total(intentAmount', U) < budgetAmount[b] + Unit
  BY <1>4, <1>5, <1>6, <1>7, <1>9
<1> QED
  BY <1>2, <1>3, <1>10 DEF U

\* A budget is created without an intent of its own.
LEMMA BudgetCreateStep ==
  ASSUME NanoInv, BudgetInv, NEW c \in Budgets,
         \/ \E amount \in BudgetAmounts, limit \in SpendAmounts : createBudgetDraft(c, amount, limit)
         \/ recordBudgetFundingProof(c)
  PROVE  BudgetInv'
<1>1. /\ UNCHANGED <<intentStatus, intentBudget, intentAmount>>
      /\ \E status \in {"draft", "funding_proof_recorded"} :
           budgetStatus' = [budgetStatus EXCEPT ![c] = status]
      /\ budgetStatus[c] # "none" => UNCHANGED budgetAmount
      /\ \A b \in Budgets : b # c => budgetAmount'[b] = budgetAmount[b]
  BY DEF createBudgetDraft, recordBudgetFundingProof, intents, NanoInv, TypeOK
<1>2. \A b : Drawn(b, Reserved)' = Drawn(b, Reserved)
  BY <1>1 DEF Drawn, Reserved
<1>3. \A i \in Intents : intentStatus'[i] # "none" =>
        budgetStatus'[intentBudget'[i]] # "none" /\ intentAmount'[i] > 0
  <2> TAKE i \in Intents
  <2> HAVE intentStatus'[i] # "none"
  <2>1. intentBudget[i] \in Budgets /\ budgetStatus[intentBudget[i]] # "none"
    BY <1>1 DEF NanoInv, BudgetInv
  <2>2. budgetStatus'[intentBudget[i]] # "none"
    BY <1>1, <2>1 DEF NanoInv, TypeOK
  <2> QED
    BY <1>1, <2>2 DEF BudgetInv
<1>4. ASSUME NEW b \in Budgets
      PROVE  /\ IsFiniteSet(Drawn(b, Reserved)')
             /\ totalApprovedIntentValue(b)' > 0 =>
                  totalApprovedIntentValue(b)' < budgetAmount'[b] + Unit
  <2>1. CASE budgetAmount'[b] = budgetAmount[b]
    BY <1>1, <1>2, <2>1, BudgetNotDrawn
  <2>2. CASE b = c /\ budgetStatus[c] = "none"
    <3>1. Drawn(b, Reserved)' = {}
      BY <1>2, <2>2 DEF Drawn, Reserved, BudgetInv
    <3>2. totalApprovedIntentValue(b)' = Total(intentAmount', Drawn(b, Reserved)')
      BY ApprovedTotalNext
    <3>3. totalApprovedIntentValue(b)' = 0
      BY <3>1, <3>2, TotalOfNothing
    <3> QED
      BY <3>1, <3>3, FS_EmptySet
  <2> QED
    BY <1>1, <2>1, <2>2
<1> QED
  BY <1>3, <1>4 DEF BudgetInv, WithinBudget

\* A spend that is proposed is not reserved yet.
LEMMA BudgetProposeStep ==
  ASSUME NanoInv, BudgetInv, NEW i \in Intents, NEW c \in Budgets, NEW amount \in SpendAmounts,
         createSpendIntent(i, c, amount)
  PROVE  BudgetInv'
<1>1. /\ intentStatus[i] = "none" /\ budgetStatus[c] # "none"
      /\ intentStatus' = [intentStatus EXCEPT ![i] = "proposed"]
      /\ intentBudget' = [intentBudget EXCEPT ![i] = c]
      /\ intentAmount' = [intentAmount EXCEPT ![i] = amount]
      /\ UNCHANGED <<budgetStatus, budgetAmount>>
  BY DEF createSpendIntent, budgets
<1>2. \A j \in Intents :
        /\ j = i => intentStatus'[j] = "proposed" /\ intentBudget'[j] = c /\ intentAmount'[j] = amount
        /\ j # i => /\ intentStatus'[j] = intentStatus[j] /\ intentBudget'[j] = intentBudget[j]
                    /\ intentAmount'[j] = intentAmount[j]
  BY <1>1 DEF NanoInv, TypeOK
<1>3. \A b \in Budgets : Drawn(b, Reserved)' = Drawn(b, Reserved)
  BY <1>1, <1>2 DEF Drawn, Reserved
<1>4. \A b \in Budgets : \A j \in Drawn(b, Reserved) : intentAmount'[j] = intentAmount[j]
  BY <1>1, <1>2 DEF Drawn, Reserved
<1>5. amount > 0
  BY NanoConstants
<1>6. \A j \in Intents : intentStatus'[j] # "none" =>
        budgetStatus'[intentBudget'[j]] # "none" /\ intentAmount'[j] > 0
  BY <1>1, <1>2, <1>5 DEF BudgetInv
<1>7. \A b \in Budgets : /\ IsFiniteSet(Drawn(b, Reserved)')
                         /\ totalApprovedIntentValue(b)' > 0 =>
                              totalApprovedIntentValue(b)' < budgetAmount'[b] + Unit
  BY <1>1, <1>3, <1>4, BudgetNotDrawn
<1> QED
  BY <1>6, <1>7 DEF BudgetInv, WithinBudget

\* StartsSpending does not forget a budget.
LEMMA SpendingKeepsBudget ==
  ASSUME NanoInv, NEW c, StartsSpending(c), NEW b \in Budgets, budgetStatus[b] # "none"
  PROVE  budgetStatus'[b] # "none"
BY DEF NanoInv, TypeOK, StartsSpending

\* An approval reserves what the budget had left, up to the two roundings.
LEMMA BudgetApproveStep ==
  ASSUME NanoInv, BudgetInv, NEW i \in Intents, approveSpendIntent(i)
  PROVE  BudgetInv'
<1> DEFINE c == intentBudget[i]
           S == Drawn(c, Reserved)
<1>1. /\ intentStatus[i] = "proposed" /\ fundingProof[c]
      /\ intentAmount[i] <= calculateAvailableBudget(c)
      /\ intentStatus' = [intentStatus EXCEPT ![i] = "approved"]
      /\ StartsSpending(c)
      /\ UNCHANGED <<budgetAmount, intentBudget, intentAmount>>
  BY DEF approveSpendIntent
<1>2. c \in Budgets /\ intentAmount[i] \in Nat \ {0} /\ budgetAmount[c] \in Nat
  BY <1>1 DEF NanoInv, TypeOK, BudgetInv
<1>3. \A j \in Intents : intentStatus'[j] = IF j = i THEN "approved" ELSE intentStatus[j]
  BY <1>1 DEF NanoInv, TypeOK
<1>4. \A j \in Intents : intentStatus'[j] # "none" =>
        budgetStatus'[intentBudget'[j]] # "none" /\ intentAmount'[j] > 0
  <2> TAKE j \in Intents
  <2> HAVE intentStatus'[j] # "none"
  <2>1. intentStatus[j] # "none"
    BY <1>1, <1>3
  <2>2. intentBudget[j] \in Budgets /\ budgetStatus[intentBudget[j]] # "none" /\ intentAmount[j] > 0
    BY <2>1 DEF NanoInv, BudgetInv
  <2> QED
    BY <1>1, <2>2, SpendingKeepsBudget
<1>5. ASSUME NEW b \in Budgets
      PROVE  /\ IsFiniteSet(Drawn(b, Reserved)')
             /\ totalApprovedIntentValue(b)' > 0 =>
                  totalApprovedIntentValue(b)' < budgetAmount'[b] + Unit
  <2>1. CASE b # c
    <3>1. Drawn(b, Reserved)' = Drawn(b, Reserved)
      BY <1>1, <1>3, <2>1 DEF Drawn
    <3> QED
      BY <1>1, <3>1, BudgetNotDrawn
  <2>2. CASE b = c
    <3>1. i \notin S /\ Drawn(b, Reserved)' = S \cup {i}
      BY <1>1, <1>3, <2>2 DEF Drawn, Reserved
    <3>2. IsFiniteSet(S) /\ IsFiniteSet(S \cup {i})
      BY <1>2, FS_AddElement DEF BudgetInv
    <3>3. \A j \in S \cup {i} : intentAmount[j] \in Nat
      BY DEF NanoInv, TypeOK, Drawn
    <3>4. Total(intentAmount, S) \in Nat
      BY <3>2, <3>3, TotalIsNatural
    <3>5. calculateAvailableBudget(c) = Remaining(budgetAmount[c], Total(intentAmount, S))
      BY <1>1 DEF calculateAvailableBudget, SumOf, Total
    <3>6. Total(intentAmount, S) + intentAmount[i] < budgetAmount[c] + Unit
      BY <1>1, <1>2, <3>4, <3>5, ApprovalOvershoot
    <3>7. (S \cup {i}) \ {i} = S
      BY <3>1
    <3>8. Total(intentAmount, S \cup {i}) = intentAmount[i] + Total(intentAmount, S)
      <4> HIDE DEF S
      <4>1. i \in S \cup {i}
        OBVIOUS
      <4>2. Total(intentAmount, S \cup {i})
              = intentAmount[i] + Total(intentAmount, (S \cup {i}) \ {i})
        BY <3>2, <3>3, <4>1, TotalWithout
      <4> QED
        BY <3>7, <4>2
    <3>9. totalApprovedIntentValue(b)' = Total(intentAmount, S \cup {i})
      <4>1. totalApprovedIntentValue(b)' = Total(intentAmount', Drawn(b, Reserved)')
        BY ApprovedTotalNext
      <4> QED
        BY <1>1, <3>1, <4>1
    <3>10. totalApprovedIntentValue(b)' < budgetAmount[c] + Unit
      BY <1>2, <3>4, <3>6, <3>8, <3>9
    <3> QED
      BY <1>1, <2>2, <3>1, <3>2, <3>10
  <2> QED
    BY <2>1, <2>2
<1> QED
  BY <1>4, <1>5 DEF BudgetInv, WithinBudget

\* A receipt keeps what is reserved, or frees it when the payment has failed.
LEMMA BudgetPaymentStep ==
  ASSUME NanoInv, BudgetInv, NEW i \in Intents, NEW p \in ProofTypes, NEW s \in PaymentStates,
         RecordsPayment(i, p, s), UNCHANGED <<budgetAmount, intentBudget, intentAmount>>
  PROVE  BudgetInv'
<1>1. PICK status \in {"payment_recorded", "failed"} :
        intentStatus' = [intentStatus EXCEPT ![i] = status]
  BY PaymentEffect DEF NanoInv
<1>2. intentStatus[i] \in Reserved /\ StartsSpending(intentBudget[i])
  BY DEF RecordsPayment
<1>3. \A j \in Intents : intentStatus'[j] = IF j = i THEN status ELSE intentStatus[j]
  BY <1>1 DEF NanoInv, TypeOK
<1>4. \A j \in Intents : intentStatus'[j] # "none" =>
        budgetStatus'[intentBudget'[j]] # "none" /\ intentAmount'[j] > 0
  <2> TAKE j \in Intents
  <2> HAVE intentStatus'[j] # "none"
  <2>1. intentStatus[j] # "none"
    BY <1>2, <1>3 DEF Reserved
  <2>2. intentBudget[j] \in Budgets /\ budgetStatus[intentBudget[j]] # "none" /\ intentAmount[j] > 0
    BY <2>1 DEF NanoInv, BudgetInv
  <2> QED
    BY <1>2, <2>2, SpendingKeepsBudget
<1>5. ASSUME NEW b \in Budgets
      PROVE  /\ IsFiniteSet(Drawn(b, Reserved)')
             /\ totalApprovedIntentValue(b)' > 0 =>
                  totalApprovedIntentValue(b)' < budgetAmount'[b] + Unit
  <2>1. Drawn(b, Reserved)' = Drawn(b, Reserved) \/ Drawn(b, Reserved)' = Drawn(b, Reserved) \ {i}
    <3>1. CASE status = "payment_recorded"
      BY <1>2, <1>3, <3>1 DEF Drawn, Reserved
    <3>2. CASE status = "failed"
      BY <1>2, <1>3, <3>2 DEF Drawn, Reserved
    <3> QED
      BY <3>1, <3>2
  <2> QED
    BY <2>1, BudgetNotDrawn
<1> QED
  BY <1>4, <1>5 DEF BudgetInv, WithinBudget

\* A step that touches neither a budget nor an intent.
LEMMA BudgetIdleStep ==
  ASSUME NanoInv, BudgetInv,
         UNCHANGED <<budgetStatus, budgetAmount, intentStatus, intentBudget, intentAmount>>
  PROVE  BudgetInv'
<1>1. \A b : Drawn(b, Reserved)' = Drawn(b, Reserved)
  BY DEF Drawn
<1>2. \A b \in Budgets : /\ IsFiniteSet(Drawn(b, Reserved)')
                         /\ totalApprovedIntentValue(b)' > 0 =>
                              totalApprovedIntentValue(b)' < budgetAmount'[b] + Unit
  BY <1>1, BudgetNotDrawn
<1> QED
  BY <1>2 DEF BudgetInv, WithinBudget

\* Approvals exceed no budget by a unit, for any budgets, intents and amounts, in
\* whatever order spends are proposed, approved, recorded and failed.
THEOREM BudgetSafety == Spec => []WithinBudget
<1>1. Init => BudgetInv
  <2> SUFFICES ASSUME Init PROVE BudgetInv
    OBVIOUS
  <2>1. \A i \in Intents : intentStatus[i] = "none"
    BY DEF Init
  <2>2. \A b : Drawn(b, Reserved) = {}
    BY <2>1 DEF Drawn, Reserved
  <2>3. \A b : totalApprovedIntentValue(b) = 0
    BY <2>2, ApprovedTotal, TotalOfNothing
  <2> QED
    BY <2>1, <2>2, <2>3, FS_EmptySet DEF BudgetInv, WithinBudget
<1>2. NanoInv /\ BudgetInv /\ [Next]_vars => BudgetInv'
  <2> SUFFICES ASSUME NanoInv, BudgetInv, [Next]_vars PROVE BudgetInv'
    OBVIOUS
  <2>1. CASE UNCHANGED vars
    BY <2>1, BudgetIdleStep DEF vars, budgets, intents
  <2>2. ASSUME NEW b \in Budgets,
               \/ \E amount \in BudgetAmounts, limit \in SpendAmounts :
                    createBudgetDraft(b, amount, limit)
               \/ recordBudgetFundingProof(b)
        PROVE BudgetInv'
    BY <2>2, BudgetCreateStep
  <2>3. ASSUME NEW i \in Intents, NEW b \in Budgets, NEW amount \in SpendAmounts,
               createSpendIntent(i, b, amount)
        PROVE BudgetInv'
    BY <2>3, BudgetProposeStep
  <2>4. ASSUME NEW i \in Intents, approveSpendIntent(i) PROVE BudgetInv'
    BY <2>4, BudgetApproveStep
  <2>5. ASSUME NEW i \in Intents, NEW p \in ProofTypes, NEW s \in PaymentStates,
               recordPaymentProof(i, p, s)
        PROVE BudgetInv'
    BY <2>5, BudgetPaymentStep DEF recordPaymentProof
  <2>6. ASSUME NEW i \in Intents, NEW tx \in Txs, VerifyAnswered(i, tx) PROVE BudgetInv'
    <3>1. CASE RecordsPayment(i, "arc_tx", "recorded") /\ UNCHANGED intentBudget
      BY <2>6, <3>1, BudgetPaymentStep DEF VerifyAnswered, ProofTypes, PaymentStates
    <3>2. CASE UNCHANGED <<budgetStatus, intentStatus, intentBudget, ledger>>
      BY <2>6, <3>2, BudgetIdleStep DEF VerifyAnswered
    <3> QED
      BY <2>6, <3>1, <3>2 DEF VerifyAnswered
  <2>7. ASSUME NEW i \in Intents, NEW tx \in Txs, VerifyRequested(i, tx) PROVE BudgetInv'
    BY <2>7, BudgetIdleStep DEF VerifyRequested, budgets, intents
  <2>8. ASSUME NEW tx \in Txs, NEW amount \in SpendAmounts, Transfer(tx, amount) PROVE BudgetInv'
    BY <2>8, BudgetIdleStep DEF Transfer, budgets, intents
  <2> QED
    BY <2>1, <2>2, <2>3, <2>4, <2>5, <2>6, <2>7, <2>8 DEF Next
<1>3. BudgetInv => WithinBudget
  BY DEF BudgetInv
<1> QED
  BY <1>1, <1>2, <1>3, NanoInvariant, PTL DEF Spec
=============================================================================
