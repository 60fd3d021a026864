SPECIFICATION LSpec
CONSTANTS
  Payload <- TwoRequests
  MAX_PAYLOAD = 5
  PACKET = 7
  QUEUE = 2
  Bursts <- LineNoise
  MaxWire = 12
  MaxBursts = 1
  MaxBreaks = 1
INVARIANT BufferHasRoom
PROPERTIES GenuineInOrder FramesFoundOrHeld RequestsAnswered
CHECK_DEADLOCK FALSE
