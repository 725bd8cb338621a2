\* Two requests and a command on small captures, three long ones and three
\* scenarios, one crash and two failures.  Replays are bounded, so the system stops.
CONSTANTS
  Captures <- AllCaptures
  Scenarios <- AllScenarios
  Requests = {q1, q2}
  Commands = {k1}
  DedupCapacity = 4
  PersistEvery = 2
  MaxCrashes = 1
  MaxFailures = 2
SPECIFICATION Spec
INVARIANTS TypeOK CompletedIsStored EventsInOrderOnce
PROPERTIES ReplayIsIdempotent ReplaysEnd
CHECK_DEADLOCK FALSE
