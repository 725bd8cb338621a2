\* Contradicts engine.py:513-518 and schemas.py:440-441.
\* The events are bounded, so the system stops.
CONSTANTS
  Templates <- Uploading
  Times <- Clock
  MaxLate = 0
  MaxEvents = 3
  EmitInterval = 2
  Short = 2
  Long = 4
  Capacity = 4
  TrackerSize = 3
  Internal = {"in1", "in2"}
  Champion = "good"
  Challenger = "good"
  Broken = {}
  FloodFlows = 2
  ScanHosts = 2
  BeaconIntervals = 2
  PlausibleInterval = 2
  TunnelQueries = 2
  ExfilUploads = 2
  RareContacts = 1
SPECIFICATION Spec
INVARIANT ExfiltrationReported
CHECK_DEADLOCK FALSE
