\* Three alerts, a list of two, a broken session, an analyst.
\* Nothing is left to do once the user has gone.
CONSTANTS
  NAlerts = 3
  Batch = 2
  Limit = 2
  Buffer = 1
  MaxBreaks = 1
  MaxTriaged = 1
  Leaves = TRUE
SPECIFICATION LiveSpec
INVARIANTS TypeOK SentInSequence OnScreenIsStoredOnce
PROPERTIES ScreenConverges BackToLive
CHECK_DEADLOCK FALSE
