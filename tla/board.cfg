SPECIFICATION BFairSpec
CONSTANTS
  Blob <- Blobs
  SEQ_STEPS = 2
  ARM_N = 1
  CONFIRM_N = 2
  MISS_PENALTY = 1
  DefaultBlob = "plain"
  CTR_STRIDE = 2
  Boundaries <- DwordBytes
  ResetBleeds = TRUE
  Masters <- AllMasters
INVARIANTS BoardTypeOK ServoOffHotRail IdleIsOff DrivenByItsStep StatusIsLive NoncesNeverRepeat ReadPerAcceptance
PROPERTIES EarlyOffNeedsEdge WritesServiced CyclesEnd
CHECK_DEADLOCK FALSE
