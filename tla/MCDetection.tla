---------------------------- MODULE MCDetection ----------------------------
EXTENDS Detection

Event(src, dst, kind, up, failed) ==
  [src |-> src, dst |-> dst, kind |-> kind, up |-> up, failed |-> failed, ts |-> 0]

\* An upload, a failed probe of a neighbour, an inbound flow, a suspicious query.
Traffic ==
  {Event("in1", "out", "flow", 1, FALSE), Event("in1", "in2", "flow", 0, TRUE),
   Event("out", "in2", "flow", 0, FALSE), Event("in1", "out", "dns", 0, TRUE)}

Uploading == {Event("in1", "out", "flow", 1, FALSE)}

Clock == 2..6
=============================================================================
