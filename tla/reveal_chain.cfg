SPECIFICATION RSpec
CONSTANTS
  Mode = "Sequence"
  PERIOD_S = 2
  LookAhead = 2
  MaxAge = 2
  GenKeys <- TwoKeys
  Actions = {"Unlock", "Lock"}
  ChainAction = "Lock"
  UnlockWindow = 2
  Word = 1000
  MaxTime = 3
  MaxSeq = 3
INVARIANTS DuressPoisons GatedNeedsRitual DuressLooksUnlocked ChainWitnessed
