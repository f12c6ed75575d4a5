SPECIFICATION IpcFairSpec
CONSTANTS
  Clients = {c1, c2}
  NoTag = NoTag
  NoFrame = NoFrame
  TxLen = 2
  Destinations = {"device"}
  Responders = 1
  MaxFrames = 3
  MaxSessions = 2
  MaxCopies = 1
  PollTimeouts = {"zero", "finite", "never"}
  CleanClients = TRUE
  MaxTimers = 1
INVARIANTS IpcTypeOK RepliesInStep PollsAreServed TimersTracked TxRxCorresponds NeverAborts
PROPERTIES CallServiceSpec PollReturns CorrespondingRx WholeFrames
CHECK_DEADLOCK FALSE
