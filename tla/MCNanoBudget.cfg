SPECIFICATION Spec
CONSTANTS
  b1 = b1  i1 = i1  i2 = i2  i3 = i3  tx1 = tx1
  Budgets = {b1}
  Intents = {i1, i2, i3}
  Txs = {tx1}
  NoBudget = NoBudget
  BudgetAmounts <- SomeBudgets
  SpendAmounts <- SomeSpends
  Unit = 4
  MaxReceipts = 2
SYMMETRY Symmetry
INVARIANTS
  TypeOK
  WithinBudget
  SpendsAreApproved
PROPERTIES
  FailedStays
