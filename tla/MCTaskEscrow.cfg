SPECIFICATION Spec
CONSTANTS
  t1 = t1  t2 = t2  g1 = g1  g2 = g2  a1 = a1  a2 = a2  s1 = s1  s2 = s2
  Tasks = {t1, t2}
  Agents = {g1}
  Accounts = {a1, a2}
  SubmissionIds = {s1, s2}
  NoAccount = NoAccount
  NoAgent = NoAgent
  NoTask = NoTask
  NoSubmission = NoSubmission
  NoEvidence = NoEvidence
  Rewards <- TenOnly
  Evidence <- Scores
  ProtocolFeeBps = 3333
SYMMETRY Interchangeable
INVARIANTS
  TypeOK
  PaidIsEquivalent
PROPERTIES
  ImplementsPromise
