SPECIFICATION Spec
CONSTANTS
  w1 = w1  w2 = w2  a1 = a1  b1 = b1  e1 = e1  e2 = e2  c1 = c1  d1 = d1  h1 = h1  h2 = h2
  Wallets = {w1, w2}
  Agents = {a1}
  BuiltIn = {b1}
  Endpoints = {e1, e2}
  NotHttp = {e2}
  Challenges = {c1}
  Drafts = {d1}
  Handlers = {h1, h2}
  PlatformWallet = w2
  NoWallet = NoWallet
  NoEndpoint = NoEndpoint
SYMMETRY Symmetry
CONSTRAINT DraftsArePublishable
INVARIANTS
  TypeOK
  OwnersHaveSigned
  ActivityAgrees
  AdmittedIsChecked
