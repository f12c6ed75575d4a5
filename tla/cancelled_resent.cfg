SPECIFICATION Spec
CONSTANTS
  Clients = {c1}
  NoTag = NoTag
  NoFrame = NoFrame
  TxLen = 1
  Destinations = {"device"}
  Responders = 1
  MaxFrames = 2
  MaxSessions = 1
  MaxCopies = 1
PROPERTIES CancelledNotRetransmitted
CHECK_DEADLOCK FALSE
