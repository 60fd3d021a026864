SPECIFICATION BSpec
CONSTANTS
  Blob <- Blobs
  SEQ_STEPS = 2
  ARM_N = 1
  CONFIRM_N = 2
  MISS_PENALTY = 1
  DefaultBlob = "plain"
  CTR_STRIDE = 2
  Boundaries <- DwordBytes
  ResetBleeds = TRUE
  Masters <- JustHasty
PROPERTY AcceptsOnce
CHECK_DEADLOCK FALSE
