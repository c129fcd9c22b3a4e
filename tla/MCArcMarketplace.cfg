SPECIFICATION Spec
CONSTANTS
  t1 = t1  g1 = g1  g2 = g2  a1 = a1  a2 = a2  n1 = n1  n2 = n2
  Tasks = {t1}
  Agents = {g1, g2}
  Accounts = {a1, a2}
  Nonces = {n1, n2}
  NoAccount = NoAccount
  NoAgent = NoAgent
  NoSubmission = NoSubmission
  Rewards <- OddRewards
  PlatformFeeBps = 3333
INVARIANTS
  TypeOK
  Conservation
  PayeeOwnsAssignedAgent
  EscrowInv
PROPERTIES
  SubmissionIsFixed
  ReleaseIsFinal
  ImplementsPromise
