SPECIFICATION IpcSpec
CONSTANTS
  Clients = {c1, c2}
  NoTag = NoTag
  NoFrame = NoFrame
  TxLen = 1
  Destinations = {"device", "broadcast"}
  Responders = 2
  MaxFrames = 2
  MaxSessions = 2
  MaxCopies = 2
  PollTimeouts = {"finite"}
  CleanClients = FALSE
  MaxTimers = 2
SYMMETRY ClientSymmetry
INVARIANTS NoAnswerOverlooked TimerIdsValid
CHECK_DEADLOCK FALSE
