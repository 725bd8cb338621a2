--------------------------- MODULE MCStreamWorker ---------------------------
EXTENDS StreamWorker, TLC

KindEvents == [m \in Entries |-> "event"]

\* One of each class of payload, then harmless events.
KindMixed ==
  [m \in Entries |->
     CASE m = 1 -> "undecodable" [] m = 2 -> "flaky" [] m = 3 -> "invalid"
       [] OTHER -> "event"]

Symmetry == Permutations(Workers)
=============================================================================
