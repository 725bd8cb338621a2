\* Two workers share the group; every class of payload, trimming, a deleted stream,
\* a failed reclaim, a crash, and workers that leave.
CONSTANTS
  Workers = {w1, w2}
  N = 3
  Kind <- KindMixed
  BatchSize = 2
  ClaimCount = 3
  MaxDeliveries = 1
  MaxLen = 2
  Bounded = TRUE
  MaxCrashes = 1
  MaxFaults = 1
  MaxDeletes = 1
  NoEntry = NoEntry
SPECIFICATION Spec
SYMMETRY Symmetry
INVARIANTS TypeOK Accounting
PROPERTY PromiseKept
