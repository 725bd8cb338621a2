\* Two workers that steal from each other, an event that kills both of them, a
\* crash, and a producer that never ends.
CONSTANTS
  Workers = {w1, w2}
  N = 2
  Kind <- KindKillerFirst
  BatchSize = 2
  ClaimCount = 2
  MaxDeliveries = 1
  MaxLen = 2
  Bounded = FALSE
  MaxCrashes = 1
  MaxFaults = 0
  MaxDeletes = 0
  NoEntry = NoEntry
  Flagged <- Alarming
  AlertOf <- OneAlert
SPECIFICATION FairSpecE2E
INVARIANTS DeliveryBound StoredIsReported
PROPERTIES SettledIfPauses WindowsCloseIfPauses
