SPECIFICATION ESpec
CONSTANTS
  kA = kA
  kB = kB
  kDecoy = kDecoy
  kVeto = kVeto
  NoKey = NoKey
  Keys = {kA, kB}
  PERIOD_S = 2
  Word = 1048576
  SlotTable <- TwinVetoTable
  Decoy <- NoDecoys
  GateKinds = {}
  HasConfirm = TRUE
  MaxReceipts = 3
  FiredMax = 65535
  StartTime = 4
  MaxTime = 11
  MaxSeq = 0
  ClockSteps = FALSE
  MaxStep = 4
PROPERTY ReceiptsKept
