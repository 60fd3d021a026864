SPECIFICATION ESetSpec
CONSTANTS
  kA = kA
  kB = kB
  kDecoy = kDecoy
  kVeto = kVeto
  NoKey = NoKey
  Keys = {kA}
  PERIOD_S = 2
  Word = 1048576
  SlotTable <- DeadManTable
  Decoy <- NoDecoys
  GateKinds = {}
  HasConfirm = FALSE
  MaxReceipts = 2
  FiredMax = 65535
  StartTime = 4
  MaxTime = 12
  MaxSeq = 0
  ClockSteps = TRUE
  MaxStep = 4
INVARIANT SustainMatchesBolt
