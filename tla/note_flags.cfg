SPECIFICATION Spec
CONSTANTS
  Clients = {c1}
  Addresses = {2, 3}
  Present = {2}
  NumFlags = 1
  FlagWords = {{}, {0}}
  PollTimeouts = {"finite"}
  MaxLive <- MCMaxLive
  MaxNotes = 2
  MaxSessions = 2
  MaxTimers = 1
INVARIANTS FlagsOnDevice
CHECK_DEADLOCK FALSE
