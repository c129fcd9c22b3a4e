SPECIFICATION Spec
CONSTANTS
  a1 = a1  p1 = p1  p2 = p2
  HiringMode = "open_market"
  MaxParticipants = 2
  NoSubmission = NoSubmission  LocalSubmission = LocalSubmission
  MaxRuns = 1
  MaxRetries = 2
  MaxAttempts = 3
  Acceptors = {a1}
  Pollers = {p1}
  Callbacks = TRUE
  Cancels = FALSE
CHECK_DEADLOCK FALSE
INVARIANTS
  NoStrandedTask
  PostedIsReceived
PROPERTIES
  UnauthorizedStops
