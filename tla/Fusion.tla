------------------------------- MODULE Fusion -------------------------------
(***************************************************************************)
(* ThreatFusion (sih_ntd/fusion.py) inside the pipeline workers, with the   *)
(* tables of the store that it writes (alerts, alert_events, incidents of   *)
(* sih_ntd/store.py) and the stream network.alerts.                         *)
(*                                                                         *)
(* A round of a worker is one event, or one vector of a flush when its       *)
(* stream is quiet: expire, fuse each detector result, then the store       *)
(* transactions of _apply_outcome (sih_ntd/pipeline.py:222-243) one by one. *)
(* A worker may crash between any two of them; its dedup entries, subjects  *)
(* and entities live in memory only.  Time stamps are event times, in units *)
(* in which the windows of FusionSettings are small.                        *)
(***************************************************************************)
EXTENDS Integers, Sequences, FiniteSets, Filter

CONSTANTS
  Workers,
  Signals,        \* findings a detector can make, see SignalsAssumption
  Contacts,       \* what an event names: see ContactsAssumption
  MaxTime,        \* bound: event times are 1..MaxTime
  DedupWindow,    \* fusion.dedup_window_seconds
  Correlation,    \* fusion.correlation_window_seconds
  IdleLimit,      \* fusion.incident_idle_seconds
  Bonus,          \* fusion.corroboration_bonus, in hundredths
  MaxConfidence,  \* fusion.max_confidence, in hundredths
  MinConfidence,  \* fusion.min_alert_confidence, in hundredths
  Capacity,       \* windows.max_tracked_entities
  Listed,         \* alert ids an incident lists (512)
  Late,           \* events may be older than the ones before them
  MaxEvents,      \* bound: events fused
  MaxCrashes,     \* bound: worker crashes
  MaxVerdicts,    \* bound: status changes by analysts
  None

Times == 1..MaxTime

ASSUME WindowsAssumption ==
  /\ MaxTime \in Nat \ {0} /\ DedupWindow \in Nat \ {0}
  /\ Correlation \in Nat /\ IdleLimit \in Nat
  /\ Bonus \in Nat /\ MaxConfidence \in Nat /\ MinConfidence \in Nat
  /\ Capacity \in Nat \ {0} /\ Listed \in Nat \ {0}
  /\ MaxEvents \in Nat /\ MaxCrashes \in Nat /\ MaxVerdicts \in Nat
  /\ Late \in BOOLEAN

Key(s) == <<s.detector, s.class, s.entity>>

\* A non-shadow DetectorResult without its time stamp.  Its subject is what
\* subject_of (sih_ntd/evidence.py:26-36) returns, a function of its entity.
ASSUME SignalsAssumption ==
  /\ IsFiniteSet(Signals)
  /\ \A s \in Signals :
       /\ DOMAIN s = {"detector", "class", "entity", "subject", "confidence"}
       /\ s.confidence \in Nat
       /\ \A t \in Signals : Key(s) = Key(t) => s.subject = t.subject

Entities == {s.entity : s \in Signals}

\* The source, destination and pair of an event, as far as Signals tell of them, in
\* the order in which the engine touches them (features/engine.py:332-336).
ASSUME ContactsAssumption ==
  /\ Contacts \subseteq Seq(Entities)
  /\ \A q \in Contacts : q # <<>>

Keys == {Key(s) : s \in Signals}
Subjects == {s.subject : s \in Signals}
SubjectOfKey(k) == (CHOOSE s \in Signals : Key(s) = k).subject

\* _alert_id: the hash of the key and of the dedup-window-sized time bucket.
AlertId(s, t) == <<Key(s), t \div DedupWindow>>
AlertIds == Keys \X (0..(MaxTime \div DedupWindow))

Statuses == {"NEW", "VERDICT"}
Phases == {"idle", "fuse", "publish", "touch"}


AlertRow ==
  [first : Times, last : Times, count : Nat, incident : Nat \cup {None},
   status : Statuses]

\* None stands for no incident and for no alert.
ASSUME NoneAssumption == None \notin Nat /\ None \notin AlertRow

VARIABLES
  phase,      \* where each worker is
  at,         \* time of the round it is in, or was in last
  fired,      \* signals of this round already fused
  states,     \* engine._states: LruStateMap from entities to their last_seen
  pending,    \* _pending_flush
  flushing,   \* vectors of a flush that are not yet done, the current one first
  vectors,    \* entities that may have a vector in this round
  dedup,      \* _dedup: LruStateMap from keys, oldest first
  subjects,   \* _subjects: LruStateMap from subjects, oldest first
  outcome,    \* the FusionOutcome of this round
  acked,      \* time of the last event whose batch is acknowledged
  rows,       \* table alerts
  audit,      \* table alert_events, per alert in insertion order
  incidents,  \* table incidents
  feed,       \* alerts published on network.alerts
  minted,     \* incident ids handed out so far
  again,      \* history: alerts raised although the table had them
  events, crashes, verdicts

windows == <<states, pending, flushing, vectors>>
memory == <<dedup, subjects>>
tables == <<rows, audit, incidents>>
budget == <<events, crashes, verdicts>>
vars == <<phase, at, fired, windows, memory, outcome, acked, tables, feed, minted, again,
          budget>>
-----------------------------------------------------------------------------
(* LruStateMap (sih_ntd/windows.py:184-209): entries in the order of their   *)
(* last touch.  get does not touch.                                          *)

Has(m, k) == \E e \in Members(m) : e.key = k

Get(m, k) == CHOOSE e \in Members(m) : e.key = k

Without(m, k) == Only(m, {e \in Members(m) : e.key # k})

\* expire keeps what has been seen since t.
SeenSince(m, t) == Only(m, {e \in Members(m) : e.last >= t})

\* One touch adds one entry at most.
Newest(m) == IF Len(m) > Capacity THEN Tail(m) ELSE m

\* touch, then the assignment of e: e goes to the end, the oldest may go.
Touched(m, e) == Newest(Append(Without(m, e.key), e))

\* The entities of q touched one after the other, at time t: what stays are the last
\* Capacity entries.
Observed(m, q, t) ==
  LET r == Only(m, {e \in Members(m) : e.key \notin Members(q)})
             \o [i \in 1..Len(q) |-> [key |-> q[i], last |-> t]]
  IN  IF Len(r) > Capacity THEN SubSeq(r, Len(r) - Capacity + 1, Len(r)) ELSE r

\* An entry is changed in place: its position does not change.
Updated(m, e) == [i \in 1..Len(m) |-> IF m[i].key = e.key THEN e ELSE m[i]]
-----------------------------------------------------------------------------
NoOutcome == [alerts |-> {}, touches |-> {}, incidents |-> <<>>]

Init ==
  /\ phase = [w \in Workers |-> "idle"]
  /\ at = [w \in Workers |-> 0] /\ acked = [w \in Workers |-> 0]
  /\ fired = [w \in Workers |-> {}]
  /\ states = [w \in Workers |-> <<>>] /\ pending = [w \in Workers |-> FALSE]
  /\ flushing = [w \in Workers |-> <<>>] /\ vectors = [w \in Workers |-> {}]
  /\ dedup = [w \in Workers |-> <<>>] /\ subjects = [w \in Workers |-> <<>>]
  /\ outcome = [w \in Workers |-> NoOutcome]
  /\ rows = [a \in AlertIds |-> None] /\ audit = [a \in AlertIds |-> <<>>]
  /\ incidents = <<>> /\ minted = 0 /\ feed = {} /\ again = {}
  /\ events = 0 /\ crashes = 0 /\ verdicts = 0

\* Mutant: the fusion state is never expired.
RoundUnexpired(w, t, E) ==
  /\ at' = [at EXCEPT ![w] = t]
  /\ vectors' = [vectors EXCEPT ![w] = E]
  /\ phase' = [phase EXCEPT ![w] = "fuse"]
  /\ UNCHANGED memory

\* expire(t), before the results of the vectors of E are fused.
Round(w, t, E) ==
  /\ at' = [at EXCEPT ![w] = t]
  /\ vectors' = [vectors EXCEPT ![w] = E]
  /\ phase' = [phase EXCEPT ![w] = "fuse"]
  /\ dedup' = [dedup EXCEPT ![w] = SeenSince(@, t - DedupWindow)]
  /\ subjects' = [subjects EXCEPT ![w] = SeenSince(@, t - IdleLimit)]

\* process_event: the engine observes the event, then comes a round at its time.
Begin(w, t, q) ==
  /\ phase[w] = "idle" /\ flushing[w] = <<>> /\ events < MaxEvents
  /\ Late \/ (t >= at[w] /\ t >= acked[w])
  /\ events' = events + 1
  /\ states' = [states EXCEPT ![w] = Observed(@, q, t)]
  /\ pending' = [pending EXCEPT ![w] = TRUE]
  /\ Round(w, t, Members(q))
  /\ UNCHANGED <<fired, flushing, outcome, acked, tables, feed, minted, again, crashes,
                 verdicts>>

\* Nothing to read and nothing to reclaim: engine.flush builds a vector of every
\* entity it tracks, each as of the time the entity was last seen.
FlushOpenWindows(w) ==
  /\ phase[w] = "idle" /\ flushing[w] = <<>>
  /\ pending[w] /\ acked[w] = at[w]
  /\ flushing' = [flushing EXCEPT ![w] = states[w]]
  /\ UNCHANGED <<phase, at, fired, states, pending, vectors, memory, outcome, acked, tables,
                 feed, minted, again, budget>>

\* The next vector of the flush is a round at the vector's own time, which may be long
\* past.
FlushNext(w) ==
  /\ phase[w] = "idle" /\ flushing[w] # <<>>
  /\ Round(w, Head(flushing[w]).last, {Head(flushing[w]).key})
  /\ UNCHANGED <<fired, states, pending, flushing, outcome, acked, tables, feed, minted,
                 again, budget>>
-----------------------------------------------------------------------------
(* _fuse_one of signal s at time at[w].                                      *)

\* The subject with its old results pruned, reset after an idle gap.
Subject(w, s) ==
  LET t == at[w]
      old == IF Has(subjects[w], s.subject) THEN Get(subjects[w], s.subject)
             ELSE [key |-> s.subject, results |-> {}, incident |-> None,
                   alerts |-> <<>>, last |-> 0]
      recent == {r \in old.results : r.time >= t - Correlation}
  IN  IF old.last # 0 /\ t - old.last > IdleLimit
      THEN [old EXCEPT !.results = recent, !.incident = None, !.alerts = <<>>]
      ELSE [old EXCEPT !.results = recent]

\* Detectors of another class that agree: each is counted once.
Corroborators(w, s) ==
  {r.detector : r \in {r \in Subject(w, s).results :
                         r.class # s.class /\ r.detector # s.detector}}

Confidence(w, s) ==
  LET c == s.confidence + Bonus * Cardinality(Corroborators(w, s))
  IN  IF c < MaxConfidence THEN c ELSE MaxConfidence

\* The subject once s has been appended to its results.
Noted(w, s) ==
  [Subject(w, s) EXCEPT
     !.results = @ \cup {[detector |-> s.detector, class |-> s.class, time |-> at[w]]},
     !.last = at[w]]

\* Inside the dedup window of an alert with the same key.
Duplicate(w, s) ==
  /\ Has(dedup[w], Key(s))
  /\ at[w] - Get(dedup[w], Key(s)).last <= DedupWindow

\* A detector accepts one vector of an entity per event (detectors/base.py:78-85),
\* so a round gives at most one result of a key, of an entity it has a vector of.
FuseNext(w, s) ==
  /\ phase[w] = "fuse" /\ s.entity \in vectors[w]
  /\ \A f \in fired[w] : Key(f) # Key(s)
  /\ fired' = [fired EXCEPT ![w] = @ \cup {s}]

\* Too weak to alert on; it still corroborates later results.
Weak(w, s) ==
  /\ FuseNext(w, s)
  /\ Confidence(w, s) < MinConfidence
  /\ subjects' = [subjects EXCEPT ![w] = Touched(@, Noted(w, s))]
  /\ UNCHANGED <<phase, at, windows, dedup, outcome, acked, tables, feed, minted, again,
                 budget>>

\* A duplicate bumps its alert.  The entry is found by get: it keeps its age.
Suppress(w, s) ==
  /\ FuseNext(w, s)
  /\ Confidence(w, s) >= MinConfidence
  /\ Duplicate(w, s)
  /\ subjects' = [subjects EXCEPT ![w] = Touched(@, Noted(w, s))]
  /\ LET old == Get(dedup[w], Key(s))
         new == [old EXCEPT !.last = at[w], !.count = @ + 1]
     IN  /\ dedup' = [dedup EXCEPT ![w] = Updated(@, new)]
         /\ outcome' = [outcome EXCEPT ![w].touches =
                          @ \cup {[id |-> old.id, last |-> at[w], count |-> new.count]}]
  /\ UNCHANGED <<phase, at, windows, acked, tables, feed, minted, again, budget>>

\* Mutant: a new entry does not count the alert itself.
RememberFromZero(w, s) ==
  dedup' = [dedup EXCEPT ![w] =
              Touched(@, IF Has(@, Key(s)) THEN Get(@, Key(s))
                         ELSE [key |-> Key(s), id |-> AlertId(s, at[w]),
                               last |-> at[w], count |-> 0])]

\* touch returns an entry that exists, stale or not.
Remember(w, s) ==
  dedup' = [dedup EXCEPT ![w] =
              Touched(@, IF Has(@, Key(s)) THEN Get(@, Key(s))
                         ELSE [key |-> Key(s), id |-> AlertId(s, at[w]),
                               last |-> at[w], count |-> 1])]

\* The oldest alert ids beyond Listed are cut off.
LastListed(q) == IF Len(q) > Listed THEN SubSeq(q, Len(q) - Listed + 1, Len(q)) ELSE q

\* Mutant: an incident as soon as a subject shows one class.
CorrelatedAtOnce(subject) == TRUE

\* _update_incident: two classes on one subject make an incident.
Correlated(subject) == Cardinality({r.class : r \in subject.results}) >= 2

\* Mutant: the incident is built before the alert joins its subject.
WithIncidentTooEarly(m, id, x) ==
  [i \in DOMAIN m \cup {id} |->
     IF i = id THEN [subject |-> x.key, alerts |-> SubSeq(x.alerts, 1, Len(x.alerts) - 1),
                     count |-> Len(x.alerts), classes |-> {r.class : r \in x.results},
                     last |-> x.last]
     ELSE m[i]]

\* The incident of subject x with the given id, OR REPLACEd into table m.
WithIncident(m, id, x) ==
  [i \in DOMAIN m \cup {id} |->
     IF i = id THEN [subject |-> x.key, alerts |-> LastListed(x.alerts),
                     count |-> Len(x.alerts), classes |-> {r.class : r \in x.results},
                     last |-> x.last]
     ELSE m[i]]

\* A new alert, and the incident it belongs to.
Raise(w, s) ==
  /\ FuseNext(w, s)
  /\ Confidence(w, s) >= MinConfidence
  /\ ~Duplicate(w, s)
  /\ Remember(w, s)
  /\ LET id == AlertId(s, at[w])
         x == [Noted(w, s) EXCEPT !.alerts = Append(@, id)]
         incident == IF ~Correlated(x) THEN None
                     ELSE IF x.incident = None THEN minted + 1 ELSE x.incident
     IN  /\ minted' = IF incident = minted + 1 THEN minted + 1 ELSE minted
         /\ again' = IF rows[id] = None THEN again ELSE again \cup {id}
         /\ subjects' = [subjects EXCEPT ![w] =
              Touched(@, IF Correlated(x) THEN [x EXCEPT !.incident = incident] ELSE x)]
         /\ outcome' = [outcome EXCEPT
              ![w].alerts = @ \cup {[id |-> id, time |-> at[w], incident |-> incident]},
              ![w].incidents = IF Correlated(x) THEN WithIncident(@, incident, x) ELSE @]
  /\ UNCHANGED <<phase, at, windows, acked, tables, feed, budget>>

-----------------------------------------------------------------------------
(* _apply_outcome: one store transaction or one publication per step.        *)

\* Mutant: last_seen is only set by a touch.
RowUnseen(a) == [first |-> a.time, last |-> 0, count |-> 1, incident |-> a.incident,
                 status |-> "NEW"]

Row(a) == [first |-> a.time, last |-> a.time, count |-> 1, incident |-> a.incident,
           status |-> "NEW"]

AlertOf(w, id) == CHOOSE a \in outcome[w].alerts : a.id = id

\* Mutant: INSERT OR REPLACE instead of INSERT OR IGNORE.
StoreAlertsReplacing(w) ==
  /\ phase[w] = "fuse"
  /\ LET new == {a.id : a \in outcome[w].alerts}
     IN  /\ rows' = [i \in AlertIds |-> IF i \in new THEN Row(AlertOf(w, i)) ELSE rows[i]]
         /\ audit' = [i \in AlertIds |->
              IF i \in new
              THEN Append(audit[i], [kind |-> "CREATED", time |-> AlertOf(w, i).time])
              ELSE audit[i]]
  /\ phase' = [phase EXCEPT ![w] = "publish"]
  /\ UNCHANGED <<at, fired, windows, memory, outcome, acked, incidents, feed, minted, again,
                 budget>>

\* insert_alerts: rows that exist are ignored and get no CREATED entry.
StoreAlerts(w) ==
  /\ phase[w] = "fuse"
  /\ LET new == {a.id : a \in {a \in outcome[w].alerts : rows[a.id] = None}}
     IN  /\ rows' = [i \in AlertIds |-> IF i \in new THEN Row(AlertOf(w, i)) ELSE rows[i]]
         /\ audit' = [i \in AlertIds |->
              IF i \in new
              THEN Append(audit[i], [kind |-> "CREATED", time |-> AlertOf(w, i).time])
              ELSE audit[i]]
  /\ phase' = [phase EXCEPT ![w] = "publish"]
  /\ UNCHANGED <<at, fired, windows, memory, outcome, acked, incidents, feed, minted, again,
                 budget>>

\* Mutant: publication does not wait for insert_alerts.
PublishAlertsUnstored(w) ==
  /\ phase[w] \in {"fuse", "publish"}
  /\ feed' = feed \cup {a.id : a \in outcome[w].alerts}
  /\ phase' = [phase EXCEPT ![w] = "touch"]
  /\ UNCHANGED <<at, fired, windows, memory, outcome, acked, tables, minted, again, budget>>

PublishAlerts(w) ==
  /\ phase[w] = "publish"
  /\ feed' = feed \cup {a.id : a \in outcome[w].alerts}
  /\ phase' = [phase EXCEPT ![w] = "touch"]
  /\ UNCHANGED <<at, fired, windows, memory, outcome, acked, tables, minted, again, budget>>

\* touch_alert overwrites the counters and appends to the audit trail, in one
\* transaction; the audit row does not ask whether there was a row to update.
TouchAlert(w) ==
  /\ phase[w] = "touch"
  /\ \E t \in outcome[w].touches :
        /\ rows' = [rows EXCEPT ![t.id] =
             IF @ = None THEN None ELSE [@ EXCEPT !.last = t.last, !.count = t.count]]
        /\ audit' = [audit EXCEPT ![t.id] =
             Append(@, [kind |-> "DEDUPED", time |-> t.last])]
        /\ outcome' = [outcome EXCEPT ![w].touches = @ \ {t}]
  /\ UNCHANGED <<phase, at, fired, windows, memory, acked, incidents, feed, minted, again,
                 budget>>

\* upsert_incidents, and the event, or the vector of the flush, is done.
StoreIncidents(w) ==
  /\ phase[w] = "touch"
  /\ outcome[w].touches = {}
  /\ LET new == outcome[w].incidents
     IN  incidents' = [i \in DOMAIN incidents \cup DOMAIN new |->
                         IF i \in DOMAIN new THEN new[i] ELSE incidents[i]]
  /\ outcome' = [outcome EXCEPT ![w] = NoOutcome]
  /\ fired' = [fired EXCEPT ![w] = {}]
  /\ vectors' = [vectors EXCEPT ![w] = {}]
  /\ flushing' = [flushing EXCEPT ![w] = IF @ = <<>> THEN @ ELSE Tail(@)]
  /\ pending' = [pending EXCEPT ![w] = @ /\ Len(flushing[w]) # 1]
  /\ phase' = [phase EXCEPT ![w] = "idle"]
  /\ UNCHANGED <<at, states, memory, acked, rows, audit, feed, minted, again, budget>>

\* The batch that ends with this event is acknowledged.
Acknowledge(w) ==
  /\ phase[w] = "idle" /\ flushing[w] = <<>>
  /\ pending[w] /\ acked[w] # at[w]
  /\ acked' = [acked EXCEPT ![w] = at[w]]
  /\ UNCHANGED <<phase, at, fired, windows, memory, outcome, tables, feed, minted, again,
                 budget>>

\* The worker dies; the restarted one is given the unacknowledged events again.
Crash(w) ==
  /\ crashes < MaxCrashes
  /\ crashes' = crashes + 1
  /\ phase' = [phase EXCEPT ![w] = "idle"]
  /\ at' = [at EXCEPT ![w] = acked[w]]
  /\ fired' = [fired EXCEPT ![w] = {}]
  /\ states' = [states EXCEPT ![w] = <<>>]
  /\ pending' = [pending EXCEPT ![w] = FALSE]
  /\ flushing' = [flushing EXCEPT ![w] = <<>>]
  /\ vectors' = [vectors EXCEPT ![w] = {}]
  /\ dedup' = [dedup EXCEPT ![w] = <<>>]
  /\ subjects' = [subjects EXCEPT ![w] = <<>>]
  /\ outcome' = [outcome EXCEPT ![w] = NoOutcome]
  /\ UNCHANGED <<acked, tables, feed, minted, again, events, verdicts>>

\* An analyst sets the status of an alert: set_alert_status stamps 0.0.
SetStatus(id) ==
  /\ verdicts < MaxVerdicts
  /\ rows[id] # None
  /\ verdicts' = verdicts + 1
  /\ rows' = [rows EXCEPT ![id].status = "VERDICT"]
  /\ audit' = [audit EXCEPT ![id] = Append(@, [kind |-> "STATUS", time |-> 0])]
  /\ UNCHANGED <<phase, at, fired, windows, memory, outcome, acked, incidents, feed, minted,
                 again, events, crashes>>
-----------------------------------------------------------------------------
Next ==
  \/ \E w \in Workers :
       \/ \E t \in Times, q \in Contacts : Begin(w, t, q)
       \/ FlushOpenWindows(w) \/ FlushNext(w)
       \/ \E s \in Signals : Weak(w, s) \/ Suppress(w, s) \/ Raise(w, s)
       \/ StoreAlerts(w) \/ PublishAlerts(w) \/ TouchAlert(w)
       \/ StoreIncidents(w) \/ Acknowledge(w) \/ Crash(w)
  \/ \E id \in AlertIds : SetStatus(id)

Spec == Init /\ [][Next]_vars
-----------------------------------------------------------------------------
(* Properties.                                                              *)

Touch == [id : AlertIds, last : Times, count : Nat]
Span == [key : Entities, last : Times]
Entry == [key : Keys, id : AlertIds, last : Times, count : Nat]
Result ==
  [detector : {s.detector : s \in Signals}, class : {s.class : s \in Signals},
   time : Times]
SubjectEntry ==
  [key : Subjects, results : SUBSET Result, incident : 1..minted \cup {None},
   alerts : Seq(AlertIds), last : Times]
IncidentRow ==
  [subject : Subjects, alerts : Seq(AlertIds), count : Nat,
   classes : SUBSET {s.class : s \in Signals}, last : Times]
AuditRow == [kind : {"CREATED", "DEDUPED", "STATUS"}, time : 0..MaxTime]

\* A table of incidents: its keys are ids handed out so far.
IncidentTable(m) == DOMAIN m \subseteq 1..minted /\ m \in [DOMAIN m -> IncidentRow]

NewAlert == [id : AlertIds, time : Times, incident : Nat \cup {None}]

TypeOK ==
  /\ phase \in [Workers -> Phases]
  /\ at \in [Workers -> 0..MaxTime] /\ acked \in [Workers -> 0..MaxTime]
  /\ fired \in [Workers -> SUBSET Signals]
  /\ states \in [Workers -> Seq(Span)] /\ flushing \in [Workers -> Seq(Span)]
  /\ pending \in [Workers -> BOOLEAN] /\ vectors \in [Workers -> SUBSET Entities]
  /\ dedup \in [Workers -> Seq(Entry)] /\ subjects \in [Workers -> Seq(SubjectEntry)]
  /\ outcome \in [Workers -> [alerts : SUBSET NewAlert, touches : SUBSET Touch,
                             incidents : {outcome[w].incidents : w \in Workers}]]
  /\ \A w \in Workers : IncidentTable(outcome[w].incidents)
  /\ rows \in [AlertIds -> AlertRow \cup {None}]
  /\ audit \in [AlertIds -> Seq(AuditRow)]
  /\ IncidentTable(incidents) /\ minted \in Nat
  /\ feed \in SUBSET AlertIds /\ again \in SUBSET AlertIds
  /\ events \in 0..MaxEvents /\ crashes \in 0..MaxCrashes
  /\ verdicts \in 0..MaxVerdicts

Stored == {id \in AlertIds : rows[id] # None}

Entries(id, kind) == {i \in 1..Len(audit[id]) : audit[id][i].kind = kind}

\* The tables as a ledger: what each alert's row and audit trail say.
LedgerFirst == [id \in AlertIds |-> IF rows[id] = None THEN None ELSE rows[id].first]
LedgerCounters ==
  [id \in AlertIds |-> IF rows[id] = None THEN None ELSE <<rows[id].last, rows[id].count>>]
LedgerStatus == [id \in AlertIds |-> IF rows[id] = None THEN None ELSE rows[id].status]
LedgerHistory == [id \in AlertIds |-> [i \in 1..Len(audit[id]) |-> audit[id][i].kind]]

\* The alert tables keep their promise through redelivery, restarts and races: an
\* alert is opened once, with its first_seen for good, nothing changes it but
\* what its history shows, an analyst's status survives redelivery, and only
\* alerts in the table are published.
Ledger == INSTANCE AlertLedger WITH
  Ids <- AlertIds, first <- LedgerFirst, counters <- LedgerCounters,
  status <- LedgerStatus, history <- LedgerHistory, told <- feed

LedgerKept == Ledger!Spec

\* An incident lists alerts of its own subject that are in the table, and tells
\* of two classes at least (fusion.py:248-286, pipeline.py:240-243).
IncidentsBacked ==
  \A i \in DOMAIN incidents :
    /\ \A k \in 1..Len(incidents[i].alerts) :
         LET id == incidents[i].alerts[k]
         IN  id \in Stored /\ SubjectOfKey(id[1]) = incidents[i].subject
    /\ Cardinality(incidents[i].classes) >= 2

\* fusion.py:9-11: "the first becomes an alert; the rest bump" it: an alert that an
\* event raises starts more than a dedup window after every alert of its key.
OneAlertPerBurst ==
  [][\A w \in Workers : flushing[w] = <<>> =>
       \A a \in outcome'[w].alerts \ outcome[w].alerts, id \in Stored :
         id[1] = a.id[1] => a.time - rows[id].first > DedupWindow]_vars

\* The same of every alert, also of one that a flush raises.
OneAlertPerBurstAlways ==
  \A a, b \in Stored :
    a[1] = b[1] /\ a # b =>
      \/ rows[a].first - rows[b].first > DedupWindow
      \/ rows[b].first - rows[a].first > DedupWindow

\* The counter of a row is that of its audit trail, one per entry, unless the alert was
\* raised a second time; and it was last seen when the latest entry says
\* (store.py:311-321).
CountsFollowAudit ==
  \A id \in Stored :
    /\ id \notin again => rows[id].count = 1 + Cardinality(Entries(id, "DEDUPED"))
    /\ \A i \in Entries(id, "DEDUPED") : audit[id][i].time <= rows[id].last

\* store.py:315-317: the counter of every row is that of its audit trail.
CountsFollowAuditAlways ==
  \A id \in Stored : rows[id].count = 1 + Cardinality(Entries(id, "DEDUPED"))

\* An alert that names an incident is listed by it once its worker is through
\* with the event (fusion.py:234-238, pipeline.py:222-243).
IncidentLinksBack ==
  (\A w \in Workers : phase[w] = "idle") =>
    \A id \in Stored :
      rows[id].incident # None =>
        /\ rows[id].incident \in DOMAIN incidents
        /\ LET listed == incidents[rows[id].incident].alerts
           IN  \E k \in 1..Len(listed) : listed[k] = id

\* docs/ALERT_SCHEMA.md:118: "`last_seen` advances as duplicates are suppressed".
LastSeenAdvances ==
  [][\A id \in Stored : rows'[id].last >= rows[id].last]_vars

\* tests/integration/test_pipeline.py:43-44: the history of an alert, read ORDER
\* BY ts, starts with its CREATED entry.
HistoryStartsWithCreated ==
  \A id \in Stored : \A i \in Entries(id, "CREATED"), k \in 1..Len(audit[id]) :
    audit[id][i].time <= audit[id][k].time

\* docs/ALERT_SCHEMA.md:126: incident_id is "set when >= 2 distinct threat classes
\* correlate on one subject": on every alert the incident is made of.
IncidentIdSet ==
  \A i \in DOMAIN incidents : \A k \in 1..Len(incidents[i].alerts) :
    LET id == incidents[i].alerts[k]
    IN  id \in Stored => rows[id].incident # None

\* docs/ARCHITECTURE.md:136: LruStateMap "evicts least-recently-seen entities": an
\* evicted dedup entry is not seen more recently than one that stays.
EvictsLeastRecent ==
  [][\A w \in Workers :
       phase[w] = "fuse" /\ phase'[w] = "fuse" =>
         \A i \in 1..Len(dedup[w]), j \in 1..Len(dedup'[w]) :
           ~Has(dedup'[w], dedup[w][i].key) => dedup[w][i].last <= dedup'[w][j].last]_vars
=============================================================================
