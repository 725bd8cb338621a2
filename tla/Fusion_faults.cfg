\* Two workers share the store; late events, a crash, an analyst.
CONSTANTS
  Workers = {w1, w2}
  Signals <- TwoStrong
  Contacts <- HostAndPair
  MaxTime = 3
  DedupWindow = 1
  Correlation = 2
  IdleLimit = 2
  Bonus = 8
  MaxConfidence = 99
  MinConfidence = 50
  Capacity = 1
  Listed = 4
  Late = TRUE
  MaxEvents = 2
  MaxCrashes = 1
  MaxVerdicts = 1
  None = None
SPECIFICATION Spec
SYMMETRY Symmetry
INVARIANTS IncidentsBacked
PROPERTY LedgerKept
CHECK_DEADLOCK FALSE
