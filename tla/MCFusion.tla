------------------------------ MODULE MCFusion ------------------------------
EXTENDS Fusion, TLC

Signal(detector, class, entity, confidence) ==
  [detector |-> detector, class |-> class, entity |-> entity,
   subject |-> "host", confidence |-> confidence]

\* Two detectors see two classes on one host; the second needs the first's
\* corroboration to reach the alert threshold.
TwoClasses == {Signal("ddos", "DDOS", "host", 60), Signal("c2", "C2", "pair", 45)}

TwoStrong == {Signal("ddos", "DDOS", "host", 60), Signal("c2", "C2", "pair", 60)}

\* An event of the pair is one of its host, which has others too.
HostAndPair == {<<"host">>, <<"host", "pair">>}

Symmetry == Permutations(Workers)
=============================================================================
