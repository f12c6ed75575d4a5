SPECIFICATION LineSpec
CONSTANTS
  PayloadMax = 4
  PtyBufSize = 11
  LenModulus = 4
  BufSize = 3
  ErrorBits = {0, 5}
  MaxErrors = 1
  MaxWire = 3
  Payloads <- MCPayloads
  Noises <- MCNoises
  NumFrames = 2
  Relayed <- MCRelayed
INVARIANTS FramingTypeOK FramesInOrder NothingHeldBack OstricHears AlwaysRoomToRead NoByteForgotten EscapeFits
CHECK_DEADLOCK FALSE
