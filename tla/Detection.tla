----------------------------- MODULE Detection -----------------------------
(***************************************************************************)
(* The feature engine and the detector mesh behind it, as                   *)
(* Pipeline.process_event, flush_open_windows and handle_events run them     *)
(* (sih_ntd/pipeline.py:106-220, sih_ntd/detectors/): every vector goes to   *)
(* every ready detector that accepts it.                                    *)
(*                                                                         *)
(* The operators of the detectors are used in steps: events' is the history  *)
(* up to and with the event at hand.                                        *)
(*                                                                         *)
(* A detector is the condition under which it returns a result, reduced to   *)
(* one trigger of each kind (flows for a flood, hosts for a scan): the other *)
(* triggers, entropies, strengths, confidence and severity are left out, and *)
(* thresholds count events.                                                 *)
(***************************************************************************)
EXTENDS Engine

CONSTANTS
  Internal,                \* addresses inside sensor.home_networks
  Champion, Challenger,    \* DGA artefacts on disk: "none", "good" or "bad"
  Broken,                  \* detectors that raise
  FloodFlows,              \* flows of a destination in the short window: a flood
  ScanHosts,               \* destinations of a host in the long window: a scan
  BeaconIntervals,         \* intervals needed to judge a beacon
  PlausibleInterval,       \* shortest interval of a beacon
  TunnelQueries,           \* queries of a host in the long window: a tunnel
  ExfilUploads,            \* uploads of a host in the long window
  RareContacts             \* a pair with fewer contacts is rare

ASSUME DetectionAssumption ==
  /\ Champion \in {"none", "good", "bad"} /\ Challenger \in {"none", "good", "bad"}
  /\ {FloodFlows, ScanHosts, BeaconIntervals, PlausibleInterval, TunnelQueries,
      ExfilUploads, RareContacts} \subseteq Nat

VARIABLE results   \* every DetectorResult so far

vars == <<engineVars, results>>

Kind(v) == v.key[1]
Flows(v, kind) == {i \in Members(v.long) : events'[i].kind = kind}
-----------------------------------------------------------------------------
(* Features of a vector.  A flushed vector has no event: is_internal_source  *)
(* and is_internal_destination are missing, so they read 0, and its rarity   *)
(* is 0.                                                                     *)

Flushed(v) == v.trigger = NoEvent
FromInside(v) == ~Flushed(v) /\ events'[v.trigger].src \in Internal
ToInside(v) == ~Flushed(v) /\ events'[v.trigger].dst \in Internal

\* destination_rarity: contacts are noted after the vectors are built.
Contacts(i) == Cardinality({j \in 1..(i - 1) : Pair(events'[j]) = Pair(events'[i])})
Rare(v) == ~Flushed(v) /\ Contacts(v.trigger) < RareContacts

Intervals(v) == {v.times[i + 1] - v.times[i] : i \in 1..(Len(v.times) - 1)}

\* byte_samples are of the last 64 events, however old.
SameSize(v) == \A i, j \in v.observed : events'[i].up = events'[j].up
-----------------------------------------------------------------------------
(* The detectors.                                                           *)

Ddos(v) == Kind(v) = "DESTINATION" /\ Len(v.short) >= FloodFlows

Recon(v) ==
  /\ Kind(v) = "HOST"
  /\ Cardinality({events'[i].dst : i \in Members(v.long)}) >= ScanHosts
  /\ 2 * Cardinality({i \in Members(v.long) : events'[i].failed}) >= Len(v.long)

\* Regular intervals, and two of: rare, stable size, external.
C2Beacon(v) ==
  /\ Kind(v) = "PAIR"
  /\ Len(v.times) - 1 >= BeaconIntervals
  /\ Cardinality(Intervals(v)) = 1 /\ \A d \in Intervals(v) : d >= PlausibleInterval
  /\ \/ Rare(v) /\ SameSize(v)
     \/ Rare(v) /\ ~ToInside(v)
     \/ SameSize(v) /\ ~ToInside(v)

Uploads(v) == Cardinality({i \in Members(v.long) : events'[i].up = 1})

\* Volume, from inside to outside, and an upload or a rare destination.
Exfiltration(v) ==
  /\ Kind(v) = "HOST" /\ FromInside(v) /\ ~ToInside(v)
  /\ Uploads(v) >= ExfilUploads
  /\ 2 * Uploads(v) > Len(v.long) \/ Rare(v)

\* A suspicious name, and a host that asks many of them.
DnsTunnel(v) ==
  events'[v.trigger].failed /\ Cardinality(Flows(v, "dns")) >= TunnelQueries

Dga(v) == events'[v.trigger].failed

TlsMalware(v) == events'[v.trigger].failed

Detectors == {"ddos", "recon", "c2_beacon", "exfiltration", "dns_tunnel", "dga",
              "tls_malware"}

\* DgaDetector._load: champion, then challenger; whichever cannot be loaded
\* leaves the detector without its champion.  No TLS model exists.
DgaReady == Champion = "good" /\ Challenger # "bad"
Ready == Detectors \ ({"tls_malware"} \cup IF DgaReady THEN {} ELSE {"dga"})

\* accepts: by entity kind, and by kind of vector.
Accepts(d, v) ==
  IF v.perEvent
  THEN \/ d \in {"dga", "dns_tunnel"} /\ events'[v.trigger].kind = "dns"
       \/ d = "tls_malware" /\ events'[v.trigger].kind = "tls"
  ELSE d \in {"ddos", "recon", "c2_beacon", "exfiltration"}

Fires(d, v) ==
  CASE d = "ddos" -> Ddos(v) [] d = "recon" -> Recon(v)
    [] d = "c2_beacon" -> C2Beacon(v) [] d = "exfiltration" -> Exfiltration(v)
    [] d = "dns_tunnel" -> DnsTunnel(v) [] d = "dga" -> Dga(v)
    [] d = "tls_malware" -> TlsMalware(v)

Result(d, v, shadow) ==
  [detector |-> d, key |-> v.key, ts |-> v.ts, shadow |-> shadow]

\* Mutant: a detector that raises takes the others with it.
EvaluateUnguarded(v) ==
  IF \E d \in Ready \cap Broken : Accepts(d, v) THEN {}
  ELSE {Result(d, v, FALSE) : d \in {x \in Ready : Accepts(x, v) /\ Fires(x, v)}}

\* DetectorRegistry.evaluate and safe_evaluate: one that raises has no result.
Evaluate(v) ==
  {Result(d, v, FALSE) :
     d \in {x \in Ready \ Broken : Accepts(x, v) /\ Fires(x, v)}}

\* Pipeline._shadow: the challenger judges what the champion judges.
Shadow(v) ==
  IF Challenger = "good" /\ Champion = "good" /\ Accepts("dga", v)
  THEN {Result("dga", v, TRUE)} ELSE {}

\* process_event: detectors and challengers judge every vector.
ProcessEvent(template, ts) ==
  /\ Process(template, ts)
  /\ results' = results \cup UNION {Evaluate(v) \cup Shadow(v) : v \in out'}

\* flush_open_windows: detectors only.
FlushOpenWindows ==
  /\ Flush
  /\ results' = results \cup UNION {Evaluate(v) : v \in out'}

\* The end of handle_events: detectors only.
FinishCapture ==
  /\ Finish
  /\ results' = results \cup UNION {Evaluate(v) : v \in out'}

Init == EngineInit /\ results = {}

Next ==
  \/ \E template \in Templates, ts \in Times : ProcessEvent(template, ts)
  \/ FlushOpenWindows
  \/ FinishCapture

Spec == Init /\ [][Next]_vars
-----------------------------------------------------------------------------
(* Properties.                                                              *)

Reported(d, k, ts) == [detector |-> d, key |-> k, ts |-> ts, shadow |-> FALSE] \in results

InOrder(k) == Late(k) = {}

\* What a window held at the last event of its entity.
Seen(k, size) == Truth(k, size, st[k].lastSeen)

\* When a tracked entity was last judged, once nothing is pending.
Final(k) == IF source = "over" THEN Newest ELSE st[k].lastSeen

Scanned(k, now) ==
  LET seen == Truth(k, Long, now) IN
  /\ Cardinality({events[i].dst : i \in seen}) >= ScanHosts
  /\ 2 * Cardinality({i \in seen : events[i].failed}) >= Cardinality(seen)

\* "a burst that ends just before the next emit tick" is evaluated too
\* (pipeline.py:151-155): once the stream is quiet or the capture over, a flood or
\* a scan in the windows of a tracked entity is reported, although another
\* detector raises.
QuietMeansReported ==
  ~pending => \A k \in DOMAIN st : InOrder(k) =>
    /\ k[1] = "DESTINATION" /\ Cardinality(Truth(k, Short, Final(k))) >= FloodFlows
         => Reported("ddos", k, Final(k))
    /\ k[1] = "HOST" /\ Scanned(k, Final(k)) => Reported("recon", k, Final(k))

\* docs/ARCHITECTURE.md:140-142, engine.py:515-517: "a 1-second flood" of a capture
\* reaches a detector: the last burst of each destination is reported, as it is
\* when a worker reads the same events from the stream.
BurstsReachDetectors ==
  ~pending => \A k \in DOMAIN st :
    k[1] = "DESTINATION" /\ InOrder(k) /\ Cardinality(Seen(k, Short)) >= FloodFlows
      => \E r \in results : r.detector = "ddos" /\ r.key = k

Inbound(k) == {i \in 1..Len(events) : Destination(events[i]) = k}

\* A flood is never invented: what is reported of a destination whose events came
\* in order did arrive within one short window (engine.py:242-244, ddos.py:48-50).
ReportedFloodIsReal ==
  \A r \in results :
    /\ r.detector = "ddos"
    /\ \A i, j \in Inbound(r.key) : i < j => events[i].ts <= events[j].ts
    => Cardinality({i \in Inbound(r.key) : events[i].ts > r.ts - Short
                                           /\ events[i].ts <= r.ts}) >= FloodFlows

\* engine.py:513-518: without a flush "the burst it contains would never reach a
\* detector"; schemas.py:440-441: "Silently defaulting a missing feature to 0.0 is
\* how a broken feature pipeline turns into "no alerts"".  Once the stream is
\* quiet, a host inside that has only uploaded to the outside is reported.
ExfiltrationReported ==
  ~pending => \A k \in DOMAIN st :
    /\ k[1] = "HOST" /\ k[2] \in Internal /\ InOrder(k)
    /\ Cardinality(Seen(k, Long)) >= ExfilUploads
    /\ \A i \in Seen(k, Long) : events[i].up = 1 /\ events[i].dst \notin Internal
    => \E r \in results : r.detector = "exfiltration" /\ r.key = k
=============================================================================
