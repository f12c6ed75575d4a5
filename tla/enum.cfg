SPECIFICATION EnumFairSpec
CONSTANTS
  NumDevices = 3
  HighAddress = 7
  NoAddr = NoAddr
  NoData = NoData
  NoCommand = NoCommand
  LateAnswers = FALSE
  MaxLostFrames = 4
  MaxLostAnswers = 2
  MaxWire = 1
INVARIANTS EnumTypeOK UniqueAddresses CaughtAllAcks BusKnown EveryoneAddressed QuietWhenEnumerated
PROPERTIES EnumerationFinishes
CHECK_DEADLOCK FALSE
