SPECIFICATION ESpec
CONSTANTS
  kA = kA
  kB = kB
  kDecoy = kDecoy
  kVeto = kVeto
  NoKey = NoKey
  Keys = {kA, kB, kDecoy, kVeto}
  PERIOD_S = 2
  Word = 1048576
  SlotTable <- MixedTable
  Decoy <- DecoyOfA
  GateKinds = {}
  HasConfirm = TRUE
  MaxReceipts = 3
  FiredMax = 2
  StartTime = 4
  MaxTime = 9
  MaxSeq = 1
  ClockSteps = FALSE
  MaxStep = 4
INVARIANTS TypeOK SustainMatchesBolt ReceiptsDistinct
PROPERTIES SustainEndsWithRelock ReceiptsKept DrainsInOrder
