\* Contradicts streaming.py:4-5: two events inside one emit interval, one crash.
CONSTANTS
  Workers = {w1}
  N = 2
  Kind <- KindEvents
  BatchSize = 2
  ClaimCount = 2
  MaxDeliveries = 1
  MaxLen = 2
  Bounded = FALSE
  MaxCrashes = 1
  MaxFaults = 0
  MaxDeletes = 0
  NoEntry = NoEntry
SPECIFICATION Spec
INVARIANT ClaimedEventsSurviveCrash
