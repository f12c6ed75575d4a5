SPECIFICATION IpcSpec
CONSTANTS
  Clients = {c1}
  NoTag = NoTag
  NoFrame = NoFrame
  TxLen = 1
  Destinations = {"device"}
  Responders = 1
  MaxFrames = 2
  MaxSessions = 2
  MaxCopies = 1
  PollTimeouts = {"finite"}
  CleanClients = FALSE
  MaxTimers = 1
PROPERTIES TimeoutDequeuesOwnFrames
CHECK_DEADLOCK FALSE
