SPECIFICATION TimeoutSpec
CONSTANTS
  h1 = h1  h2 = h2
  Handlers = {h1}
  Engine = Engine
  Requests <- RetryRequests
  InitialStatus = "SUBMITTED"
  HiringMode = "open_market"
  MaxParticipants = 2
  PlatformAgent = FALSE
  MaxPending = 2
  Task = Task  Agent = Agent  Creator = Creator  Server = Server
  Submission = Submission  NoSubmission = NoSubmission  LocalSubmission = LocalSubmission
  NoAccount = NoAccount  NoAgent = NoAgent
  Reward = 10  Fee = 250
INVARIANTS
  MoneyIsRecorded
