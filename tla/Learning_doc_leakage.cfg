\* Contradicts the leakage control of dataset.py:15-20.
CONSTANTS
  Builders = {b1, b2}
  Alerts <- AllAlerts
  Detector <- DetectorOf
  Time <- TimeOf
  Observed = {"a1", "a2", "a3", "a4", "x"}
  FeedbackIds = {"f1", "f2", "f3", "f4", "f5", "f6"}
  Reviewed <- Verdicts
  Posts <- Submitted
  LabRuns <- Labs
  Families = {"hex", "dictionary"}
  Holdout = "dictionary"
  Minimum = 4
  MaxSubmissions = 1
  MaxCrashes = 1
  None = None
SPECIFICATION Spec
SYMMETRY Symmetry
INVARIANT NoNameOnBothSides
