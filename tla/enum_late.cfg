SPECIFICATION EnumSpec
CONSTANTS
  NumDevices = 2
  HighAddress = 6
  NoAddr = NoAddr
  NoData = NoData
  NoCommand = NoCommand
  LateAnswers = TRUE
  MaxLostFrames = 0
  MaxLostAnswers = 0
  MaxWire = 3
INVARIANTS CaughtAllAcks
CHECK_DEADLOCK FALSE
