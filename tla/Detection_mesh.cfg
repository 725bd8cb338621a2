\* Late events, a map too small for the entities, a detector that raises.
\* From a stream and from a capture.  The events are bounded, so the system stops.
CONSTANTS
  Templates <- Traffic
  Times <- Clock
  MaxLate = 1
  MaxEvents = 4
  EmitInterval = 2
  Short = 2
  Long = 4
  Capacity = 4
  TrackerSize = 3
  Internal = {"in1", "in2"}
  Champion = "good"
  Challenger = "good"
  Broken = {"exfiltration"}
  FloodFlows = 2
  ScanHosts = 2
  BeaconIntervals = 2
  PlausibleInterval = 2
  TunnelQueries = 2
  ExfilUploads = 2
  RareContacts = 1
SPECIFICATION Spec
INVARIANTS TypeOK VectorsBracketTruth QuietMeansJudged
  QuietMeansReported ReportedFloodIsReal
CHECK_DEADLOCK FALSE
