SPECIFICATION FairSpec
CONSTANTS
  Clients = {c1, c2}
  NoTag = NoTag
  NoFrame = NoFrame
  TxLen = 2
  Destinations = {"device", "broadcast"}
  Responders = 2
  MaxFrames = 3
  MaxSessions = 2
  MaxCopies = 2
INVARIANTS TypeOK NoLostWakeup RetransmitTimerArmed NoDanglingTag FramesOwnedOnce
PROPERTIES ServiceSpec EveryFrameFinishes
CHECK_DEADLOCK FALSE
