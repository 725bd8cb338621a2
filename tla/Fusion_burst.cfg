\* One worker, events in time order, no fault.
CONSTANTS
  Workers = {w1}
  Signals <- TwoClasses
  Contacts <- HostAndPair
  MaxTime = 5
  DedupWindow = 2
  Correlation = 2
  IdleLimit = 3
  Bonus = 8
  MaxConfidence = 99
  MinConfidence = 50
  Capacity = 4
  Listed = 12
  Late = FALSE
  MaxEvents = 4
  MaxCrashes = 0
  MaxVerdicts = 0
  None = None
SPECIFICATION Spec
INVARIANTS TypeOK CountsFollowAudit IncidentLinksBack
PROPERTY OneAlertPerBurst
CHECK_DEADLOCK FALSE
