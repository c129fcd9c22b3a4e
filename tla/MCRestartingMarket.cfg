SPECIFICATION RestartSpec
CONSTANTS
  h1 = h1  h2 = h2
  Handlers = {h1}
  Engine = Engine
  Requests <- DeliveryRequests
  InitialStatus = "CREATED"
  HiringMode = "direct_hire"
  MaxParticipants = 2
  PlatformAgent = TRUE
  MaxPending = 2
  Task = Task  Agent = Agent  Creator = Creator  Server = Server
  Submission = Submission  NoSubmission = NoSubmission  LocalSubmission = LocalSubmission
  NoAccount = NoAccount  NoAgent = NoAgent
  Reward = 10  Fee = 250
INVARIANTS
  OneTerminalReceipt
  DispatchIsAssigned
