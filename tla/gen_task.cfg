SPECIFICATION TSpec
CONSTANTS
  Mode = "Sequence"
  PERIOD_S = 2
  LookAhead = 2
  MaxAge = 2
  GenKeys <- DialKeys
  Actions = {"Unlock", "Lock"}
  ChainAction = "Lock"
  UnlockWindow = 1
  Word = 1000
  MaxTime = 4
  MaxSeq = 0
  KeyRing <- Ring
  HOLD = 3
  DOUBLE = 2
  MAX_DIAL = 1
  RevealS = 2
  Staleness = 1
  Epoch = 2
  Rituals = {TRUE, FALSE}
  MaxGap = 1
  MaxCorrections = 1
INVARIANTS TaskTypeOK EmitsOnFreshFix EmitsInWindow
PROPERTIES TaskKeepsGate WindowCloses
