SPECIFICATION MCSpec
CONSTANTS
  kA = kA
  kB = kB
  kC = kC
  kRhythm = kRhythm
  kFenced = kFenced
  kDecoy = kDecoy
  kCourier = kCourier
  kVeto = kVeto
  NoKey = NoKey
  Keys = {kA, kB, kC, kRhythm, kFenced, kDecoy, kCourier, kVeto}
  PERIOD_S = 2
  Word = 1048576
  SlotTable <- RoundsTable
  Decoy <- DecoyOfFenced
  GateKinds = {"Fence"}
  HasConfirm = FALSE
  MaxReceipts = 2
  FiredMax = 65535
  StartTime = 8
  MaxTime = 18
  MaxSeq = 0
  ClockSteps = TRUE
INVARIANTS RoundCoherent RoundJustified BudgetKept
PROPERTIES CodesServeOnce VetoHonoured ImplementsContract
