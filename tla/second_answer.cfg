SPECIFICATION TimelySpec
CONSTANTS
  Clients = {c1}
  NoTag = NoTag
  NoFrame = NoFrame
  TxLen = 1
  Destinations = {"device", "broadcast"}
  Responders = 2
  MaxFrames = 2
  MaxSessions = 1
  MaxCopies = 2
PROPERTIES CorrespondingRx
CHECK_DEADLOCK FALSE
