---------------------------- MODULE FusionProofs ----------------------------
(***************************************************************************)
(* Proofs about Fusion, for any workers, signals, windows and bounds: the  *)
(* types, the incidents that only tell of stored alerts, that the alert    *)
(* tables implement AlertLedger through crashes, redelivery and races, and *)
(* that alerts and incidents name each other when no worker crashes; for a *)
(* worker alone that never crashes, that a burst of events raises one alert and *)
(* that rows count what their audit trail tells.                           *)
(***************************************************************************)
EXTENDS Fusion, DataProofs

(* What LruStateMap keeps.                                                  *)

\* A sequence is one of its own elements.
LEMMA SeqOfMembers ==
  ASSUME NEW V, NEW m \in Seq(V)
  PROVE  m \in Seq(Members(m)) /\ Members(m) \subseteq V
BY DEF Members

\* An entry that is there is found, under its own key.
LEMMA GetFinds ==
  ASSUME NEW m, NEW k, Has(m, k)
  PROVE  Get(m, k) \in Members(m) /\ Get(m, k).key = k
BY DEF Has, Get

\* expire only removes.
LEMMA SeenSinceMembers ==
  ASSUME NEW V, NEW m \in Seq(V), NEW t
  PROVE  /\ SeenSince(m, t) \in Seq(V)
         /\ Members(SeenSince(m, t)) \subseteq Members(m)
<1> DEFINE S == {e \in Members(m) : e.last >= t}
<1>1. m \in Seq(Members(m)) /\ Members(m) \subseteq V
  BY SeqOfMembers
<1>2. Only(m, S) \in Seq(Members(m) \cap S)
  BY <1>1, OnlyMembers
<1>3. SeenSince(m, t) \in Seq(Members(m))
  BY <1>2 DEF SeenSince
<1> QED BY <1>1, <1>3, SeqOfMembers

\* touch adds the entry it is given and nothing else.
LEMMA TouchedMembers ==
  ASSUME NEW V, NEW m \in Seq(V), NEW e \in V
  PROVE  /\ Touched(m, e) \in Seq(V)
         /\ Members(Touched(m, e)) \subseteq Members(m) \cup {e}
<1> DEFINE S == {x \in Members(m) : x.key # e.key}
           W == Members(m) \cup {e}
           q == Append(Without(m, e.key), e)
<1>1. m \in Seq(Members(m)) /\ W \subseteq V
  BY SeqOfMembers
<1>2. Only(m, S) \in Seq(Members(m) \cap S)
  BY <1>1, OnlyMembers
<1>3. Without(m, e.key) \in Seq(W)
  BY <1>2 DEF Without
<1>4. q \in Seq(W) /\ q # <<>>
  BY <1>3
<1>5. Newest(q) \in Seq(W)
  <2>1. Tail(q) \in Seq(W)
    BY <1>4
  <2> HIDE DEF q
  <2> QED BY <1>4, <2>1 DEF Newest
<1>6. Touched(m, e) \in Seq(W)
  BY <1>5 DEF Touched
<1> QED BY <1>1, <1>6, SeqOfMembers

\* An update in place replaces by the entry it is given and nothing else.
LEMMA UpdatedMembers ==
  ASSUME NEW V, NEW m \in Seq(V), NEW e \in V
  PROVE  /\ Updated(m, e) \in Seq(V)
         /\ Members(Updated(m, e)) \subseteq Members(m) \cup {e}
<1>1. Updated(m, e) \in Seq(V) /\ Len(Updated(m, e)) = Len(m)
  BY DEF Updated
<1>2. ASSUME NEW i \in 1..Len(m)
      PROVE  Updated(m, e)[i] \in Members(m) \cup {e}
  BY DEF Updated, Members
<1> QED BY <1>1, <1>2 DEF Members
-----------------------------------------------------------------------------
(* What one signal is made of.                                              *)

\* The id of an alert is its key and the number of its time bucket.
LEMMA AlertIdType ==
  ASSUME NEW s \in Signals, NEW t \in Times
  PROVE  AlertId(s, t) \in AlertIds /\ AlertId(s, t)[1] = Key(s)
<1>1. MaxTime \in Nat /\ DedupWindow \in Nat \ {0} /\ t \in 1..MaxTime
  BY WindowsAssumption DEF Times
<1>2. t \div DedupWindow \in 0..(MaxTime \div DedupWindow)
  BY <1>1
<1>3. Key(s) \in Keys
  BY DEF Keys
<1> QED BY <1>2, <1>3 DEF AlertId, AlertIds

\* The subject of a key is that of every signal with the key.
LEMMA SubjectOfItsKey ==
  ASSUME NEW s \in Signals
  PROVE  SubjectOfKey(Key(s)) = s.subject
<1> DEFINE c == CHOOSE x \in Signals : Key(x) = Key(s)
<1>1. c \in Signals /\ Key(c) = Key(s)
  OBVIOUS
<1>2. \A x, y \in Signals : Key(x) = Key(y) => x.subject = y.subject
  BY SignalsAssumption, Zenon
<1>3. c.subject = s.subject
  <2> HIDE DEF c
  <2> QED BY <1>1, <1>2, Zenon
<1> QED BY <1>3 DEF SubjectOfKey

\* The subject that _fuse_one works on is the one it has of this signal's subject,
\* or a new one; a reset forgets its alerts.
LEMMA SubjectFacts ==
  ASSUME TypeOK, NEW w \in Workers, NEW s \in Signals
  PROVE  /\ Subject(w, s) \in [key : Subjects, results : SUBSET Result,
                               incident : 1..minted \cup {None},
                               alerts : Seq(AlertIds), last : 0..MaxTime]
         /\ Subject(w, s).key = s.subject
         /\ \/ Subject(w, s).alerts = <<>>
            \/ \E y \in Members(subjects[w]) :
                 y.key = s.subject /\ y.alerts = Subject(w, s).alerts
<1> DEFINE Kind == [key : Subjects, results : SUBSET Result,
                    incident : 1..minted \cup {None},
                    alerts : Seq(AlertIds), last : 0..MaxTime]
           old == IF Has(subjects[w], s.subject) THEN Get(subjects[w], s.subject)
                  ELSE [key |-> s.subject, results |-> {}, incident |-> None,
                        alerts |-> <<>>, last |-> 0]
           recent == {r \in old.results : r.time >= at[w] - Correlation}
<1>1. subjects[w] \in Seq(SubjectEntry) /\ MaxTime \in Nat
  <2>1. subjects \in [Workers -> Seq(SubjectEntry)]
    BY DEF TypeOK
  <2> QED BY <2>1, WindowsAssumption
<1>2. s.subject \in Subjects
  BY DEF Subjects
<1>3. SubjectEntry \subseteq Kind
  BY <1>1 DEF SubjectEntry, Times
<1>4. old \in Kind /\ old.key = s.subject
  <2>1. CASE Has(subjects[w], s.subject)
    <3>1. old \in Members(subjects[w]) /\ old.key = s.subject
      BY <2>1, GetFinds
    <3> QED BY <1>1, <1>3, <3>1, SeqOfMembers
  <2>2. CASE ~Has(subjects[w], s.subject)
    BY <1>1, <1>2, <2>2
  <2> QED BY <2>1, <2>2
<1>5. \/ old.alerts = <<>>
      \/ \E y \in Members(subjects[w]) : y.key = s.subject /\ y.alerts = old.alerts
  BY GetFinds
<1> HIDE DEF old
<1>6. recent \in SUBSET Result
  BY <1>4
<1>7. Subject(w, s) = IF old.last # 0 /\ at[w] - old.last > IdleLimit
                      THEN [old EXCEPT !.results = recent, !.incident = None,
                                       !.alerts = <<>>]
                      ELSE [old EXCEPT !.results = recent]
  BY DEF Subject, old
<1> HIDE DEF recent
<1>8. CASE old.last # 0 /\ at[w] - old.last > IdleLimit
  <2>1. Subject(w, s) = [old EXCEPT !.results = recent, !.incident = None,
                                    !.alerts = <<>>]
    BY <1>7, <1>8
  <2>2. <<>> \in Seq(AlertIds) /\ None \in 1..minted \cup {None}
    OBVIOUS
  <2> QED BY <1>4, <1>6, <2>1, <2>2
<1>9. CASE ~(old.last # 0 /\ at[w] - old.last > IdleLimit)
  BY <1>4, <1>5, <1>6, <1>7, <1>9
<1> QED BY <1>8, <1>9

\* Noting a signal leaves the subject's key, incident and alerts alone.
LEMMA NotedFacts ==
  ASSUME TypeOK, NEW w \in Workers, at[w] \in Times, NEW s \in Signals
  PROVE  /\ Noted(w, s) \in SubjectEntry
         /\ Noted(w, s).key = s.subject
         /\ \/ Noted(w, s).alerts = <<>>
            \/ \E y \in Members(subjects[w]) :
                 y.key = s.subject /\ y.alerts = Noted(w, s).alerts
<1> DEFINE new == [detector |-> s.detector, class |-> s.class, time |-> at[w]]
<1>1. new \in Result
  BY DEF Result
<1>2. Noted(w, s) = [Subject(w, s) EXCEPT !.results = @ \cup {new}, !.last = at[w]]
  BY DEF Noted
<1> HIDE DEF new
<1> DEFINE x == Subject(w, s)
<1>3. /\ x \in [key : Subjects, results : SUBSET Result,
                incident : 1..minted \cup {None},
                alerts : Seq(AlertIds), last : 0..MaxTime]
      /\ x.key = s.subject
      /\ \/ x.alerts = <<>>
         \/ \E y \in Members(subjects[w]) : y.key = s.subject /\ y.alerts = x.alerts
  BY SubjectFacts
<1>4. Noted(w, s) = [x EXCEPT !.results = @ \cup {new}, !.last = at[w]]
  BY <1>2
<1> HIDE DEF x
<1>5. Noted(w, s) \in SubjectEntry
  BY <1>1, <1>3, <1>4 DEF SubjectEntry
<1>6. Noted(w, s).key = x.key /\ Noted(w, s).alerts = x.alerts
  BY <1>3, <1>4
<1> QED BY <1>3, <1>5, <1>6
-----------------------------------------------------------------------------
(* The inductive invariant.                                                 *)

\* Alerts of the event that worker w is fusing.
Owned(w) == {a.id : a \in outcome[w].alerts}

\* The alerts that worker w may speak of: stored ones, and those it will store
\* before it says anything of this event.
Known(w) == Stored \cup Owned(w)

\* Every alert of list q is of subject x.
OwnSubject(q, x) == \A id \in Members(q) : SubjectOfKey(id[1]) = x

\* The incidents of table m tell of alerts in S, of their own subject, and of two
\* classes at least.
Backed(m, S) ==
  \A i \in DOMAIN m :
    /\ Members(m[i].alerts) \subseteq S
    /\ OwnSubject(m[i].alerts, m[i].subject)
    /\ Cardinality(m[i].classes) >= 2

\* An alert has an audit trail from its first row on, and is published after that.
Ledgered ==
  /\ feed \subseteq Stored
  /\ \A id \in AlertIds : rows[id] = None <=> audit[id] = <<>>

\* Whatever worker w remembers or is about to write is of alerts it may speak of.
Remembers(w) ==
  /\ \A e \in Members(dedup[w]) : e.id \in Known(w)
  /\ \A t \in outcome[w].touches : t.id \in Known(w)
  /\ \A x \in Members(subjects[w]) :
       Members(x.alerts) \subseteq Known(w) /\ OwnSubject(x.alerts, x.key)
  /\ Backed(outcome[w].incidents, Known(w))

\* Nothing of an event is left when it is done; once insert_alerts is through, its
\* alerts are stored.
InOrder(w) ==
  /\ phase[w] = "idle" => outcome[w] = NoOutcome
  /\ phase[w] \in {"publish", "touch"} => Owned(w) \subseteq Stored
  /\ phase[w] # "idle" => at[w] \in Times

\* The tables agree with each other, and every worker with the tables.
Kept ==
  /\ Ledgered /\ Backed(incidents, Stored)
  /\ \A w \in Workers : Remembers(w) /\ InOrder(w)

IInv == TypeOK /\ Kept
-----------------------------------------------------------------------------
(* Types.                                                                   *)

\* The types hold at the start.
LEMMA InitType == Init => TypeOK
<1> SUFFICES ASSUME Init PROVE TypeOK
  OBVIOUS
<1> USE DEF Init
<1>1. phase \in [Workers -> Phases] /\ fired \in [Workers -> SUBSET Signals]
  BY DEF Phases
<1>2. at \in [Workers -> 0..MaxTime] /\ acked \in [Workers -> 0..MaxTime]
  BY WindowsAssumption
<1>3. dedup \in [Workers -> Seq(Entry)] /\ subjects \in [Workers -> Seq(SubjectEntry)]
  OBVIOUS
<1>4. outcome \in [Workers -> [alerts : SUBSET NewAlert, touches : SUBSET Touch,
                              incidents : {outcome[w].incidents : w \in Workers}]]
  BY DEF NoOutcome
<1>5. IncidentTable(<<>>)
  BY DEF IncidentTable
<1>6. \A w \in Workers : IncidentTable(outcome[w].incidents)
  BY <1>5 DEF NoOutcome
<1>7. rows \in [AlertIds -> AlertRow \cup {None}] /\ audit \in [AlertIds -> Seq(AuditRow)]
  OBVIOUS
<1>8. /\ IncidentTable(incidents) /\ minted \in Nat /\ feed \in SUBSET AlertIds
      /\ events \in 0..MaxEvents /\ crashes \in 0..MaxCrashes
      /\ verdicts \in 0..MaxVerdicts
  BY <1>5, WindowsAssumption
<1>9. /\ states \in [Workers -> Seq(Span)] /\ flushing \in [Workers -> Seq(Span)]
      /\ pending \in [Workers -> BOOLEAN] /\ vectors \in [Workers -> SUBSET Entities]
      /\ again \in SUBSET AlertIds
  OBVIOUS
<1> QED BY <1>1, <1>2, <1>3, <1>4, <1>6, <1>7, <1>8, <1>9 DEF TypeOK

\* What the engine tracks after an event is what it tracked before and the entities of
\* the event, at its time.
LEMMA ObservedMembers ==
  ASSUME NEW m \in Seq(Span), NEW q \in Contacts, NEW t \in Times
  PROVE  /\ Observed(m, q, t) \in Seq(Span)
         /\ Observed(m, q, t) # <<>>
         /\ \A x \in Members(Observed(m, q, t)) :
              \/ x \in Members(m) /\ x.key \notin Members(q)
              \/ x \in Span /\ x.key \in Members(q) /\ x.last = t
<1> DEFINE S == {e \in Members(m) : e.key \notin Members(q)}
           old == Only(m, S)
           new == [i \in 1..Len(q) |-> [key |-> q[i], last |-> t]]
           r == old \o new
           N == {x \in Span : x.last = t /\ x.key \in Members(q)}
           V == S \cup N
<1>1. q \in Seq(Entities) /\ q # <<>>
  BY ContactsAssumption
<1>2. old \in Seq(V)
  <2>1. m \in Seq(Members(m))
    BY SeqOfMembers
  <2>2. old \in Seq(Members(m) \cap S)
    BY <2>1, OnlyMembers
  <2> HIDE DEF old
  <2> QED BY <2>2
<1>3. new \in Seq(V) /\ Len(new) = Len(q) /\ Len(q) \in Nat \ {0}
  <2>1. \A i \in 1..Len(q) : [key |-> q[i], last |-> t] \in N
    BY <1>1 DEF Span, Members
  <2>2. Len(q) \in Nat \ {0}
    BY <1>1
  <2> QED BY <2>1, <2>2
<1> HIDE DEF old, new
<1>4. r \in Seq(V) /\ Len(r) \in Nat \ {0}
  BY <1>2, <1>3
<1>5. Observed(m, q, t) =
        IF Len(r) > Capacity THEN SubSeq(r, Len(r) - Capacity + 1, Len(r)) ELSE r
  BY DEF Observed, r, old, new, S
<1> HIDE DEF r
<1>6. Observed(m, q, t) \in Seq(V) /\ Observed(m, q, t) # <<>>
  <2>1. Capacity \in Nat \ {0}
    BY WindowsAssumption
  <2>2. CASE Len(r) > Capacity
    <3> DEFINE o == SubSeq(r, Len(r) - Capacity + 1, Len(r))
    <3>1. Len(r) - Capacity + 1 \in 1..Len(r)
      BY <1>4, <2>1, <2>2
    <3>2. o \in Seq(V) /\ Len(o) = Capacity
      BY <1>4, <2>1, <3>1
    <3>3. Observed(m, q, t) = o
      BY <1>5, <2>2
    <3> HIDE DEF o
    <3>4. o # <<>>
      BY <2>1, <3>2
    <3> QED BY <3>2, <3>3, <3>4
  <2>3. CASE ~(Len(r) > Capacity)
    BY <1>4, <1>5, <2>3
  <2> QED BY <2>2, <2>3
<1>7. V \subseteq Span
  BY SeqOfMembers
<1>8. Members(Observed(m, q, t)) \subseteq V
  BY <1>6, SeqOfMembers
<1> HIDE DEF V
<1>9. Observed(m, q, t) \in Seq(Span)
  BY <1>6, <1>7
<1> QED BY <1>6, <1>8, <1>9 DEF V, N, S

\* expire at the start of a round keeps the types.
LEMMA RoundType ==
  ASSUME TypeOK, NEW w \in Workers, NEW t \in Times, NEW E \in SUBSET Entities, Round(w, t, E)
  PROVE  /\ phase' \in [Workers -> Phases] /\ at' \in [Workers -> 0..MaxTime]
         /\ vectors' \in [Workers -> SUBSET Entities]
         /\ dedup' \in [Workers -> Seq(Entry)] /\ subjects' \in [Workers -> Seq(SubjectEntry)]
<1>1. /\ phase' \in [Workers -> Phases] /\ at' \in [Workers -> 0..MaxTime]
      /\ vectors' \in [Workers -> SUBSET Entities]
  <2>1. t \in 0..MaxTime /\ "fuse" \in Phases
    BY WindowsAssumption DEF Times, Phases
  <2> QED BY <2>1 DEF Round, TypeOK
<1>2. dedup' \in [Workers -> Seq(Entry)]
  <2>1. SeenSince(dedup[w], t - DedupWindow) \in Seq(Entry)
    BY SeenSinceMembers DEF TypeOK
  <2> QED BY <2>1 DEF Round, TypeOK
<1>3. subjects' \in [Workers -> Seq(SubjectEntry)]
  <2>1. SeenSince(subjects[w], t - IdleLimit) \in Seq(SubjectEntry)
    BY SeenSinceMembers DEF TypeOK
  <2> QED BY <2>1 DEF Round, TypeOK
<1> QED BY <1>1, <1>2, <1>3

\* An event keeps the types.
LEMMA BeginType ==
  ASSUME TypeOK, NEW w \in Workers, NEW t \in Times, NEW q \in Contacts, Begin(w, t, q)
  PROVE  TypeOK'
<1>1. events' \in 0..MaxEvents
  <2>1. events \in 0..MaxEvents /\ events < MaxEvents /\ events' = events + 1
    BY DEF TypeOK, Begin
  <2> QED BY <2>1, WindowsAssumption
<1>2. Members(q) \in SUBSET Entities
  BY ContactsAssumption, SeqOfMembers
<1>3. states' \in [Workers -> Seq(Span)] /\ pending' \in [Workers -> BOOLEAN]
  <2>1. Observed(states[w], q, t) \in Seq(Span)
    BY ObservedMembers DEF TypeOK
  <2> QED BY <2>1 DEF Begin, TypeOK
<1>4. SubjectEntry' = SubjectEntry
  BY DEF SubjectEntry, Begin
<1>5. UNCHANGED <<fired, flushing, outcome, acked, rows, audit, incidents, feed, minted,
                  again, crashes, verdicts>>
  BY DEF Begin, tables
<1>6. /\ phase' \in [Workers -> Phases] /\ at' \in [Workers -> 0..MaxTime]
      /\ vectors' \in [Workers -> SUBSET Entities]
      /\ dedup' \in [Workers -> Seq(Entry)] /\ subjects' \in [Workers -> Seq(SubjectEntry)]
  BY <1>2, RoundType DEF Begin
<1> QED BY <1>1, <1>3, <1>4, <1>5, <1>6 DEF TypeOK, IncidentTable

\* The start of a flush keeps the types.
LEMMA FlushOpenWindowsType ==
  ASSUME TypeOK, NEW w \in Workers, FlushOpenWindows(w)
  PROVE  TypeOK'
<1>1. flushing' \in [Workers -> Seq(Span)]
  BY DEF FlushOpenWindows, TypeOK
<1>2. SubjectEntry' = SubjectEntry
  BY DEF SubjectEntry, FlushOpenWindows
<1>3. UNCHANGED <<phase, at, fired, states, pending, vectors, dedup, subjects, outcome,
                  acked, rows, audit, incidents, feed, minted, again, events, crashes,
                  verdicts>>
  BY DEF FlushOpenWindows, memory, tables, budget
<1> QED BY <1>1, <1>2, <1>3 DEF TypeOK, IncidentTable

\* The vector that a flush takes next.
LEMMA HeadOfFlush ==
  ASSUME TypeOK, NEW w \in Workers, flushing[w] # <<>>
  PROVE  /\ Head(flushing[w]) \in Members(flushing[w])
         /\ Head(flushing[w]) \in Span
         /\ Head(flushing[w]).last \in Times /\ Head(flushing[w]).key \in Entities
         /\ Tail(flushing[w]) \in Seq(Span)
         /\ Members(Tail(flushing[w])) \subseteq Members(flushing[w])
<1> DEFINE m == flushing[w]
<1>1. m \in Seq(Span)
  BY DEF TypeOK
<1> HIDE DEF m
<1>2. m # <<>>
  BY DEF m
<1>3. /\ Head(m) = m[1] /\ 1 \in 1..Len(m) /\ Head(m) \in Span /\ Tail(m) \in Seq(Span)
      /\ Len(Tail(m)) = Len(m) - 1 /\ Len(m) \in Nat
      /\ \A i \in 1..Len(Tail(m)) : Tail(m)[i] = m[i + 1]
  BY <1>1, <1>2
<1>4. Head(m) \in Members(m)
  BY <1>3 DEF Members
<1>5. Members(Tail(m)) \subseteq Members(m)
  <2>1. \A i \in 1..Len(Tail(m)) : i + 1 \in 1..Len(m)
    BY <1>3
  <2> QED BY <1>3, <2>1 DEF Members
<1>6. Head(m).last \in Times /\ Head(m).key \in Entities
  BY <1>3 DEF Span
<1> QED BY <1>3, <1>4, <1>5, <1>6 DEF m

\* A vector of a flush keeps the types.
LEMMA FlushNextType ==
  ASSUME TypeOK, NEW w \in Workers, FlushNext(w)
  PROVE  TypeOK'
<1>1. flushing[w] # <<>>
  BY DEF FlushNext
<1>2. SubjectEntry' = SubjectEntry
  BY DEF SubjectEntry, FlushNext
<1>3. UNCHANGED <<fired, states, pending, flushing, outcome, acked, rows, audit, incidents,
                  feed, minted, again, events, crashes, verdicts>>
  BY DEF FlushNext, tables, budget
<1>4. /\ phase' \in [Workers -> Phases] /\ at' \in [Workers -> 0..MaxTime]
      /\ vectors' \in [Workers -> SUBSET Entities]
      /\ dedup' \in [Workers -> Seq(Entry)] /\ subjects' \in [Workers -> Seq(SubjectEntry)]
  BY <1>1, HeadOfFlush, RoundType DEF FlushNext
<1> QED BY <1>2, <1>3, <1>4 DEF TypeOK, IncidentTable

\* Appending a result to its subject keeps the type of the subjects.
LEMMA SubjectsType ==
  ASSUME TypeOK, NEW w \in Workers, NEW y \in SubjectEntry
  PROVE  [subjects EXCEPT ![w] = Touched(@, y)] \in [Workers -> Seq(SubjectEntry)]
<1>1. subjects \in [Workers -> Seq(SubjectEntry)]
  BY DEF TypeOK
<1>2. Touched(subjects[w], y) \in Seq(SubjectEntry)
  BY <1>1, TouchedMembers
<1> QED BY <1>1, <1>2

\* A weak result keeps the types.
LEMMA WeakType ==
  ASSUME TypeOK, NEW w \in Workers, InOrder(w), NEW s \in Signals, Weak(w, s)
  PROVE  TypeOK'
<1>1. at[w] \in Times
  BY DEF Weak, FuseNext, InOrder
<1>2. subjects' \in [Workers -> Seq(SubjectEntry)]
  BY <1>1, NotedFacts, SubjectsType DEF Weak
<1>3. fired' \in [Workers -> SUBSET Signals]
  BY DEF Weak, FuseNext, TypeOK
<1>4. SubjectEntry' = SubjectEntry
  BY DEF SubjectEntry, Weak
<1>5. UNCHANGED <<states, pending, flushing, vectors, again, phase, at, dedup, outcome,
                  acked, rows, audit, incidents, feed, minted, events, crashes, verdicts>>
  BY DEF Weak, tables, budget, windows
<1> QED BY <1>2, <1>3, <1>4, <1>5 DEF TypeOK, IncidentTable

\* The entry of a duplicate, and the touch it asks for.
LEMMA SuppressFacts ==
  ASSUME TypeOK, NEW w \in Workers, InOrder(w), NEW s \in Signals, Suppress(w, s)
  PROVE  \E old \in Members(dedup[w]), touch \in Touch :
           /\ old.id = touch.id
           /\ outcome' = [outcome EXCEPT ![w].touches = @ \cup {touch}]
           /\ dedup' \in [Workers -> Seq(Entry)]
           /\ \A v \in Workers \ {w} : dedup'[v] = dedup[v]
           /\ \A e \in Members(dedup'[w]) : e \in Members(dedup[w]) \/ e.id = old.id
<1> DEFINE old == Get(dedup[w], Key(s))
           new == [old EXCEPT !.last = at[w], !.count = @ + 1]
           touch == [id |-> old.id, last |-> at[w], count |-> new.count]
<1>1. dedup \in [Workers -> Seq(Entry)] /\ at[w] \in Times
  BY DEF TypeOK, Suppress, FuseNext, InOrder
<1>2. old \in Members(dedup[w]) /\ old \in Entry
  <2>1. old \in Members(dedup[w])
    BY GetFinds DEF Suppress, Duplicate
  <2> QED BY <1>1, <2>1, SeqOfMembers
<1>3. /\ dedup' = [dedup EXCEPT ![w] = Updated(@, new)]
      /\ outcome' = [outcome EXCEPT ![w].touches = @ \cup {touch}]
  BY DEF Suppress
<1> HIDE DEF old
<1>4. new \in Entry /\ new.id = old.id /\ touch \in Touch /\ touch.id = old.id
  <2>1. new \in Entry /\ new.id = old.id
    <3>1. old.count \in Nat /\ old.count + 1 \in Nat
      BY <1>2 DEF Entry
    <3>2. new = [old EXCEPT !.last = at[w], !.count = old.count + 1]
      BY <1>2 DEF Entry
    <3> HIDE DEF new
    <3> QED BY <1>1, <1>2, <3>1, <3>2 DEF Entry
  <2> HIDE DEF new
  <2> QED BY <1>1, <2>1 DEF Entry, Touch
<1> HIDE DEF new, touch
<1>5. /\ Updated(dedup[w], new) \in Seq(Entry)
      /\ Members(Updated(dedup[w], new)) \subseteq Members(dedup[w]) \cup {new}
  BY <1>1, <1>4, UpdatedMembers
<1>6. dedup' \in [Workers -> Seq(Entry)] /\ dedup'[w] = Updated(dedup[w], new)
  BY <1>1, <1>3, <1>5
<1>7. \A v \in Workers \ {w} : dedup'[v] = dedup[v]
  BY <1>1, <1>3
<1>8. \A e \in Members(dedup'[w]) : e \in Members(dedup[w]) \/ e.id = old.id
  BY <1>4, <1>5, <1>6
<1> QED BY <1>2, <1>3, <1>4, <1>6, <1>7, <1>8

\* A duplicate keeps the types.
LEMMA SuppressType ==
  ASSUME TypeOK, NEW w \in Workers, InOrder(w), NEW s \in Signals, Suppress(w, s)
  PROVE  TypeOK'
<1>1. at[w] \in Times
  BY DEF Suppress, FuseNext, InOrder
<1>2. subjects' \in [Workers -> Seq(SubjectEntry)]
  BY <1>1, NotedFacts, SubjectsType DEF Suppress
<1>3. fired' \in [Workers -> SUBSET Signals]
  BY DEF Suppress, FuseNext, TypeOK
<1>4. PICK touch \in Touch : /\ outcome' = [outcome EXCEPT ![w].touches = @ \cup {touch}]
                             /\ dedup' \in [Workers -> Seq(Entry)]
  BY SuppressFacts
<1>5. /\ outcome' \in [Workers -> [alerts : SUBSET NewAlert, touches : SUBSET Touch,
                                   incidents : {outcome'[v].incidents : v \in Workers}]]
      /\ \A v \in Workers : outcome'[v].incidents = outcome[v].incidents
  BY <1>4 DEF TypeOK
<1>6. SubjectEntry' = SubjectEntry
  BY DEF SubjectEntry, Suppress
<1>7. UNCHANGED <<states, pending, flushing, vectors, again, phase, at, acked, rows,
                  audit, incidents, feed, minted, events, crashes, verdicts>>
  BY DEF Suppress, tables, budget, windows
<1> QED BY <1>2, <1>3, <1>4, <1>5, <1>6, <1>7 DEF TypeOK, IncidentTable

\* What touch leaves in the dedup map when an alert is raised: an entry of an alert it
\* knew, or of the new one.
LEMMA RememberFacts ==
  ASSUME TypeOK, NEW w \in Workers, at[w] \in Times, NEW s \in Signals, Remember(w, s)
  PROVE  /\ dedup' \in [Workers -> Seq(Entry)]
         /\ \A v \in Workers \ {w} : dedup'[v] = dedup[v]
         /\ \A e \in Members(dedup'[w]) :
              e \in Members(dedup[w]) \/ e.id = AlertId(s, at[w])
<1> DEFINE e == IF Has(dedup[w], Key(s)) THEN Get(dedup[w], Key(s))
                ELSE [key |-> Key(s), id |-> AlertId(s, at[w]), last |-> at[w], count |-> 1]
<1>1. dedup \in [Workers -> Seq(Entry)]
  BY DEF TypeOK
<1>2. e \in Entry /\ (e \in Members(dedup[w]) \/ e.id = AlertId(s, at[w]))
  <2>1. CASE Has(dedup[w], Key(s))
    <3>1. e \in Members(dedup[w])
      BY <2>1, GetFinds
    <3> QED BY <1>1, <3>1, SeqOfMembers
  <2>2. CASE ~Has(dedup[w], Key(s))
    <3>1. Key(s) \in Keys /\ AlertId(s, at[w]) \in AlertIds
      BY AlertIdType DEF Keys
    <3> QED BY <2>2, <3>1 DEF Entry
  <2> QED BY <2>1, <2>2
<1>3. dedup' = [dedup EXCEPT ![w] = Touched(@, e)]
  BY DEF Remember
<1> HIDE DEF e
<1>4. /\ Touched(dedup[w], e) \in Seq(Entry)
      /\ Members(Touched(dedup[w], e)) \subseteq Members(dedup[w]) \cup {e}
  BY <1>1, <1>2, TouchedMembers
<1>5. dedup'[w] = Touched(dedup[w], e) /\ dedup' \in [Workers -> Seq(Entry)]
  BY <1>1, <1>3, <1>4
<1>6. \A v \in Workers \ {w} : dedup'[v] = dedup[v]
  BY <1>1, <1>3
<1> QED BY <1>2, <1>4, <1>5, <1>6

\* An incident lists alerts of its subject.
LEMMA ListedMembers ==
  ASSUME NEW V, NEW q \in Seq(V)
  PROVE  LastListed(q) \in Seq(V) /\ Members(LastListed(q)) \subseteq Members(q)
<1>1. q \in Seq(Members(q)) /\ Members(q) \subseteq V
  BY SeqOfMembers
<1>2. LastListed(q) \in Seq(Members(q))
  <2>1. CASE Len(q) > Listed
    <3>1. Len(q) \in Nat /\ Listed \in Nat \ {0}
      BY WindowsAssumption
    <3>2. Len(q) - Listed + 1 \in 1..Len(q)
      BY <2>1, <3>1
    <3>3. SubSeq(q, Len(q) - Listed + 1, Len(q)) \in Seq(Members(q))
      BY <1>1, <3>1, <3>2
    <3> QED BY <2>1, <3>3 DEF LastListed
  <2>2. CASE ~(Len(q) > Listed)
    BY <1>1, <2>2 DEF LastListed
  <2> QED BY <2>1, <2>2
<1> QED BY <1>1, <1>2, SeqOfMembers

\* A new alert, its subject, and the incident that its subject is in by now.
LEMMA RaiseFacts ==
  ASSUME TypeOK, NEW w \in Workers, InOrder(w), NEW s \in Signals, Raise(w, s)
  PROVE  \E x, z, a, m :
           /\ x \in SubjectEntry /\ z \in SubjectEntry' /\ a \in NewAlert
           /\ a.id = AlertId(s, at[w])
           /\ x.key = s.subject
           /\ Members(x.alerts) \subseteq Members(Noted(w, s).alerts) \cup {a.id}
           /\ z.key = x.key /\ z.alerts = x.alerts
           /\ subjects' = [subjects EXCEPT ![w] = Touched(@, z)]
           /\ minted' \in Nat /\ minted <= minted'
           /\ \/ m = outcome[w].incidents
              \/ /\ Correlated(x)
                 /\ \E i \in 1..minted' : m = WithIncident(outcome[w].incidents, i, x)
           /\ outcome' = [outcome EXCEPT ![w].alerts = @ \cup {a}, ![w].incidents = m]
<1> DEFINE id == AlertId(s, at[w])
           x == [Noted(w, s) EXCEPT !.alerts = Append(@, id)]
           incident == IF ~Correlated(x) THEN None
                       ELSE IF x.incident = None THEN minted + 1 ELSE x.incident
           z == IF Correlated(x) THEN [x EXCEPT !.incident = incident] ELSE x
           a == [id |-> id, time |-> at[w], incident |-> incident]
           m == IF Correlated(x) THEN WithIncident(outcome[w].incidents, incident, x)
                ELSE outcome[w].incidents
<1>1. at[w] \in Times /\ id \in AlertIds /\ minted \in Nat
  BY AlertIdType DEF Raise, FuseNext, InOrder, TypeOK
<1>2. Noted(w, s) \in SubjectEntry /\ Noted(w, s).key = s.subject
  BY <1>1, NotedFacts
<1>3. /\ minted' = IF incident = minted + 1 THEN minted + 1 ELSE minted
      /\ subjects' = [subjects EXCEPT ![w] = Touched(@, z)]
      /\ outcome' = [outcome EXCEPT ![w].alerts = @ \cup {a}, ![w].incidents = m]
  BY DEF Raise, TypeOK
<1> HIDE DEF id
<1>4. x \in SubjectEntry /\ x.key = s.subject
  <2> DEFINE n == Noted(w, s)
             q == Append(n.alerts, id)
  <2>1. q \in Seq(AlertIds) /\ n \in SubjectEntry /\ n.key = s.subject
    BY <1>1, <1>2 DEF SubjectEntry
  <2>2. x = [n EXCEPT !.alerts = q]
    OBVIOUS
  <2> HIDE DEF n, q, x
  <2> QED BY <2>1, <2>2 DEF SubjectEntry
<1>5. Members(x.alerts) \subseteq Members(Noted(w, s).alerts) \cup {id}
  <2> DEFINE q == Noted(w, s).alerts
  <2>1. q \in Seq(AlertIds) /\ x.alerts = Append(q, id)
    BY <1>2 DEF SubjectEntry
  <2> HIDE DEF q
  <2>2. Append(q, id) \in Seq(Members(q) \cup {id})
    BY <2>1, SeqOfMembers
  <2>3. Members(Append(q, id)) \subseteq Members(q) \cup {id}
    BY <2>2, SeqOfMembers
  <2> QED BY <2>1, <2>3 DEF q
<1> HIDE DEF x
<1>6. /\ incident \in Nat \cup {None}
      /\ minted' \in Nat /\ minted <= minted'
      /\ Correlated(x) => incident \in 1..minted'
  <2>1. x.incident \in 1..minted \cup {None} /\ None \notin Nat
    BY <1>4, NoneAssumption DEF SubjectEntry
  <2> QED BY <1>1, <1>3, <2>1
<1> HIDE DEF incident
<1>7. z \in SubjectEntry' /\ z.key = x.key /\ z.alerts = x.alerts
  <2>1. x \in SubjectEntry'
    BY <1>1, <1>4, <1>6 DEF SubjectEntry
  <2> QED BY <1>6, <2>1 DEF SubjectEntry
<1>8. a \in NewAlert /\ a.id = id
  BY <1>1, <1>6 DEF NewAlert
<1>9. \/ m = outcome[w].incidents
      \/ Correlated(x) /\ \E i \in 1..minted' : m = WithIncident(outcome[w].incidents, i, x)
  BY <1>6
<1> HIDE DEF z, a, m
<1> QED BY <1>3, <1>4, <1>5, <1>6, <1>7, <1>8, <1>9 DEF id

\* The incident of a subject is a row of the table.
LEMMA WithIncidentType ==
  ASSUME NEW D, NEW m \in [D -> IncidentRow], NEW i, NEW x \in SubjectEntry
  PROVE  /\ WithIncident(m, i, x) \in [D \cup {i} -> IncidentRow]
         /\ \A j \in D \ {i} : WithIncident(m, i, x)[j] = m[j]
         /\ WithIncident(m, i, x)[i].subject = x.key
         /\ WithIncident(m, i, x)[i].alerts = LastListed(x.alerts)
         /\ Correlated(x) => Cardinality(WithIncident(m, i, x)[i].classes) >= 2
<1> DEFINE row == [subject |-> x.key, alerts |-> LastListed(x.alerts),
                   count |-> Len(x.alerts), classes |-> {r.class : r \in x.results},
                   last |-> x.last]
<1>1. x.key \in Subjects /\ x.alerts \in Seq(AlertIds) /\ x.last \in Times
      /\ x.results \in SUBSET Result
  BY DEF SubjectEntry
<1>2. LastListed(x.alerts) \in Seq(AlertIds) /\ Len(x.alerts) \in Nat
  BY <1>1, ListedMembers
<1>3. {r.class : r \in x.results} \subseteq {t.class : t \in Signals}
  BY <1>1 DEF Result
<1>4. row \in IncidentRow
  BY <1>1, <1>2, <1>3 DEF IncidentRow
<1>5. WithIncident(m, i, x) = [j \in D \cup {i} |-> IF j = i THEN row ELSE m[j]]
  <2>1. DOMAIN m = D
    OBVIOUS
  <2> QED BY <2>1 DEF WithIncident
<1> HIDE DEF row
<1>6. WithIncident(m, i, x)[i] = row
  BY <1>5
<1>7. \A j \in D \ {i} : WithIncident(m, i, x)[j] = m[j]
  BY <1>5
<1>8. WithIncident(m, i, x) \in [D \cup {i} -> IncidentRow]
  BY <1>4, <1>5
<1>9. /\ row.subject = x.key /\ row.alerts = LastListed(x.alerts)
      /\ Correlated(x) => Cardinality(row.classes) >= 2
  BY DEF row, Correlated
<1> QED BY <1>6, <1>7, <1>8, <1>9

\* A table stays one when more incidents are handed out.
LEMMA TableStays ==
  ASSUME NEW m, IncidentTable(m), minted \in Nat, minted' \in Nat, minted <= minted'
  PROVE  DOMAIN m \subseteq 1..minted' /\ m \in [DOMAIN m -> IncidentRow]
BY DEF IncidentTable

\* A new alert keeps the types.
LEMMA RaiseType ==
  ASSUME TypeOK, NEW w \in Workers, InOrder(w), NEW s \in Signals, Raise(w, s)
  PROVE  TypeOK'
<1>1. PICK x, z, a, m :
           /\ x \in SubjectEntry /\ z \in SubjectEntry' /\ a \in NewAlert
           /\ a.id = AlertId(s, at[w])
           /\ x.key = s.subject
           /\ Members(x.alerts) \subseteq Members(Noted(w, s).alerts) \cup {a.id}
           /\ z.key = x.key /\ z.alerts = x.alerts
           /\ subjects' = [subjects EXCEPT ![w] = Touched(@, z)]
           /\ minted' \in Nat /\ minted <= minted'
           /\ \/ m = outcome[w].incidents
              \/ /\ Correlated(x)
                 /\ \E i \in 1..minted' : m = WithIncident(outcome[w].incidents, i, x)
           /\ outcome' = [outcome EXCEPT ![w].alerts = @ \cup {a}, ![w].incidents = m]
  BY RaiseFacts
<1>2. minted \in Nat /\ at[w] \in Times
  BY DEF TypeOK, Raise, FuseNext, InOrder
<1>3. subjects' \in [Workers -> Seq(SubjectEntry')]
  <2>1. SubjectEntry \subseteq SubjectEntry'
    BY <1>1, <1>2 DEF SubjectEntry
  <2>2. subjects \in [Workers -> Seq(SubjectEntry')]
    BY <2>1 DEF TypeOK
  <2>3. Touched(subjects[w], z) \in Seq(SubjectEntry')
    BY <1>1, <2>2, TouchedMembers
  <2> QED BY <1>1, <2>2, <2>3
<1>4. dedup' \in [Workers -> Seq(Entry)]
  BY <1>2, RememberFacts DEF Raise
<1>5. DOMAIN m \subseteq 1..minted' /\ m \in [DOMAIN m -> IncidentRow]
  <2> DEFINE old == outcome[w].incidents
  <2>1. IncidentTable(old)
    BY DEF TypeOK
  <2>2. DOMAIN old \subseteq 1..minted' /\ old \in [DOMAIN old -> IncidentRow]
    BY <1>1, <1>2, <2>1, TableStays
  <2> HIDE DEF old
  <2>3. CASE m = old
    BY <2>2, <2>3
  <2>4. ASSUME NEW i \in 1..minted', m = WithIncident(old, i, x)
        PROVE  DOMAIN m \subseteq 1..minted' /\ m \in [DOMAIN m -> IncidentRow]
    <3>1. m \in [DOMAIN old \cup {i} -> IncidentRow]
      BY <1>1, <2>2, <2>4, WithIncidentType
    <3> QED BY <2>2, <3>1
  <2> QED BY <1>1, <2>3, <2>4 DEF old
<1>6. /\ outcome' \in [Workers -> [alerts : SUBSET NewAlert, touches : SUBSET Touch,
                                   incidents : {outcome'[v].incidents : v \in Workers}]]
      /\ outcome'[w].incidents = m
      /\ \A v \in Workers \ {w} : outcome'[v].incidents = outcome[v].incidents
  BY <1>1 DEF TypeOK
<1>7. \A v \in Workers : IncidentTable(outcome[v].incidents)'
  <2>1. \A v \in Workers : /\ DOMAIN outcome[v].incidents \subseteq 1..minted'
                           /\ outcome[v].incidents \in
                                [DOMAIN outcome[v].incidents -> IncidentRow]
    BY <1>1, <1>2, TableStays DEF TypeOK
  <2> QED BY <1>5, <1>6, <2>1 DEF IncidentTable
<1>8. IncidentTable(incidents)'
  BY <1>1, <1>2, TableStays DEF TypeOK, IncidentTable, Raise, tables
<1>9. fired' \in [Workers -> SUBSET Signals] /\ again' \in SUBSET AlertIds
  <2>1. AlertId(s, at[w]) \in AlertIds
    BY <1>2, AlertIdType
  <2> QED BY <2>1 DEF Raise, FuseNext, TypeOK
<1>10. UNCHANGED <<states, pending, flushing, vectors, phase, at, acked, rows, audit,
                   feed, events, crashes, verdicts>>
  BY DEF Raise, tables, budget, windows
<1> QED BY <1>1, <1>3, <1>4, <1>6, <1>7, <1>8, <1>9, <1>10 DEF TypeOK

\* insert_alerts keeps the types: it makes rows and CREATED entries of new alerts.
LEMMA StoreAlertsType ==
  ASSUME TypeOK, NEW w \in Workers, StoreAlerts(w)
  PROVE  TypeOK'
<1> DEFINE new == {a.id : a \in {a \in outcome[w].alerts : rows[a.id] = None}}
<1>1. ASSUME NEW i \in new
      PROVE  /\ AlertOf(w, i) \in NewAlert /\ Row(AlertOf(w, i)) \in AlertRow
             /\ AlertOf(w, i).time \in 0..MaxTime
  <2>1. AlertOf(w, i) \in NewAlert
    BY DEF AlertOf, TypeOK
  <2> QED BY <2>1, WindowsAssumption DEF NewAlert, Row, AlertRow, Statuses, Times
<1>2. rows' \in [AlertIds -> AlertRow \cup {None}]
  BY <1>1 DEF StoreAlerts, TypeOK
<1>3. audit' \in [AlertIds -> Seq(AuditRow)]
  <2>1. ASSUME NEW i \in new
        PROVE  [kind |-> "CREATED", time |-> AlertOf(w, i).time] \in AuditRow
    BY <1>1 DEF AuditRow
  <2>2. audit' = [i \in AlertIds |->
                   IF i \in new
                   THEN Append(audit[i], [kind |-> "CREATED", time |-> AlertOf(w, i).time])
                   ELSE audit[i]]
    BY DEF StoreAlerts
  <2> DEFINE row(i) == [kind |-> "CREATED", time |-> AlertOf(w, i).time]
  <2>3. \A i \in AlertIds : audit[i] \in Seq(AuditRow)
    BY DEF TypeOK
  <2>4. \A i \in new : row(i) \in AuditRow
    BY <2>1
  <2>5. audit' = [i \in AlertIds |-> IF i \in new THEN Append(audit[i], row(i)) ELSE audit[i]]
    BY <2>2
  <2> HIDE DEF new, row
  <2> QED BY <2>3, <2>4, <2>5
<1>4. phase' \in [Workers -> Phases]
  BY DEF StoreAlerts, TypeOK, Phases
<1>5. SubjectEntry' = SubjectEntry
  BY DEF SubjectEntry, StoreAlerts
<1>6. UNCHANGED <<states, pending, flushing, vectors, again, at, fired, dedup, subjects,
                  outcome, acked, incidents, feed, minted, events, crashes, verdicts>>
  BY DEF StoreAlerts, memory, budget, windows
<1> QED BY <1>2, <1>3, <1>4, <1>5, <1>6 DEF TypeOK, IncidentTable

\* The publication of alerts keeps the types.
LEMMA PublishAlertsType ==
  ASSUME TypeOK, NEW w \in Workers, PublishAlerts(w)
  PROVE  TypeOK'
<1>1. feed' \in SUBSET AlertIds
  BY DEF PublishAlerts, TypeOK, NewAlert
<1>2. phase' \in [Workers -> Phases]
  BY DEF PublishAlerts, TypeOK, Phases
<1>3. SubjectEntry' = SubjectEntry
  BY DEF SubjectEntry, PublishAlerts
<1>4. UNCHANGED <<states, pending, flushing, vectors, again, at, fired, dedup, subjects,
                  outcome, acked, rows, audit, incidents, minted, events, crashes,
                  verdicts>>
  BY DEF PublishAlerts, memory, tables, budget, windows
<1> QED BY <1>1, <1>2, <1>3, <1>4 DEF TypeOK, IncidentTable

\* touch_alert keeps the types.
LEMMA TouchAlertType ==
  ASSUME TypeOK, NEW w \in Workers, TouchAlert(w)
  PROVE  TypeOK'
<1>1. PICK t \in outcome[w].touches :
        /\ rows' = [rows EXCEPT ![t.id] =
             IF @ = None THEN None ELSE [@ EXCEPT !.last = t.last, !.count = t.count]]
        /\ audit' = [audit EXCEPT ![t.id] =
             Append(@, [kind |-> "DEDUPED", time |-> t.last])]
        /\ outcome' = [outcome EXCEPT ![w].touches = @ \ {t}]
  BY DEF TouchAlert
<1>2. t \in Touch
  BY DEF TypeOK
<1>3. rows' \in [AlertIds -> AlertRow \cup {None}]
  BY <1>1, <1>2 DEF TypeOK, Touch, AlertRow
<1>4. audit' \in [AlertIds -> Seq(AuditRow)]
  <2> DEFINE row == [kind |-> "DEDUPED", time |-> t.last]
  <2>1. row \in AuditRow
    BY <1>2, WindowsAssumption DEF Touch, AuditRow, Times
  <2>2. audit' = [audit EXCEPT ![t.id] = Append(@, row)] /\ audit \in [AlertIds -> Seq(AuditRow)]
    BY <1>1 DEF TypeOK
  <2>3. t.id \in AlertIds
    BY <1>2 DEF Touch
  <2> HIDE DEF row
  <2>4. Append(audit[t.id], row) \in Seq(AuditRow)
    BY <2>1, <2>2, <2>3
  <2> QED BY <2>2, <2>4
<1>5. /\ outcome' \in [Workers -> [alerts : SUBSET NewAlert, touches : SUBSET Touch,
                                   incidents : {outcome'[v].incidents : v \in Workers}]]
      /\ \A v \in Workers : outcome'[v].incidents = outcome[v].incidents
  BY <1>1 DEF TypeOK
<1>6. SubjectEntry' = SubjectEntry
  BY DEF SubjectEntry, TouchAlert
<1>7. UNCHANGED <<states, pending, flushing, vectors, again, phase, at, fired, dedup,
                  subjects, acked, incidents, feed, minted, events, crashes, verdicts>>
  BY DEF TouchAlert, memory, budget, windows
<1> QED BY <1>3, <1>4, <1>5, <1>6, <1>7 DEF TypeOK, IncidentTable

\* upsert_incidents keeps the types.
LEMMA StoreIncidentsType ==
  ASSUME TypeOK, NEW w \in Workers, StoreIncidents(w)
  PROVE  TypeOK'
<1> DEFINE new == outcome[w].incidents
<1>1. IncidentTable(new) /\ IncidentTable(incidents)
  BY DEF TypeOK
<1>2. incidents' = [i \in DOMAIN incidents \cup DOMAIN new |->
                      IF i \in DOMAIN new THEN new[i] ELSE incidents[i]]
  BY DEF StoreIncidents
<1>3. minted' = minted
  BY DEF StoreIncidents
<1>4. IncidentTable(incidents)'
  <2> HIDE DEF new
  <2> QED BY <1>1, <1>2, <1>3 DEF IncidentTable
<1>5. /\ outcome' \in [Workers -> [alerts : SUBSET NewAlert, touches : SUBSET Touch,
                                   incidents : {outcome'[v].incidents : v \in Workers}]]
      /\ \A v \in Workers : IncidentTable(outcome'[v].incidents)
  <2>1. outcome' = [outcome EXCEPT ![w] = NoOutcome]
    BY DEF StoreIncidents
  <2>2. IncidentTable(<<>>)
    BY DEF IncidentTable
  <2> QED BY <2>1, <2>2 DEF TypeOK, NoOutcome
<1>6. phase' \in [Workers -> Phases] /\ fired' \in [Workers -> SUBSET Signals]
  BY DEF StoreIncidents, TypeOK, Phases
<1>7. SubjectEntry' = SubjectEntry
  BY <1>3 DEF SubjectEntry
<1>8. UNCHANGED <<at, states, dedup, subjects, acked, rows, audit, feed, minted, again,
                  events, crashes, verdicts>>
  BY DEF StoreIncidents, memory, budget
<1>9. /\ flushing' \in [Workers -> Seq(Span)]
      /\ pending' \in [Workers -> BOOLEAN] /\ vectors' \in [Workers -> SUBSET Entities]
  <2>1. flushing[w] # <<>> => Tail(flushing[w]) \in Seq(Span)
    BY HeadOfFlush
  <2> QED BY <2>1 DEF StoreIncidents, TypeOK
<1> QED BY <1>3, <1>4, <1>5, <1>6, <1>7, <1>8, <1>9 DEF TypeOK, IncidentTable

\* An acknowledgement keeps the types.
LEMMA AcknowledgeType ==
  ASSUME TypeOK, NEW w \in Workers, Acknowledge(w)
  PROVE  TypeOK'
<1>1. acked' \in [Workers -> 0..MaxTime]
  BY DEF Acknowledge, TypeOK
<1>2. SubjectEntry' = SubjectEntry
  BY DEF SubjectEntry, Acknowledge
<1>3. UNCHANGED <<states, pending, flushing, vectors, again, phase, at, fired, dedup,
                  subjects, outcome, rows, audit, incidents, feed, minted, events,
                  crashes, verdicts>>
  BY DEF Acknowledge, memory, tables, budget, windows
<1> QED BY <1>1, <1>2, <1>3 DEF TypeOK, IncidentTable

\* A crash keeps the types.
LEMMA CrashType ==
  ASSUME TypeOK, NEW w \in Workers, Crash(w)
  PROVE  TypeOK'
<1>1. /\ phase' \in [Workers -> Phases] /\ at' \in [Workers -> 0..MaxTime]
      /\ fired' \in [Workers -> SUBSET Signals]
  BY DEF Crash, TypeOK, Phases
<1>2. crashes' \in 0..MaxCrashes
  <2>1. crashes \in 0..MaxCrashes /\ crashes < MaxCrashes /\ crashes' = crashes + 1
    BY DEF Crash, TypeOK
  <2> QED BY <2>1, WindowsAssumption
<1>3. dedup' \in [Workers -> Seq(Entry)] /\ subjects' \in [Workers -> Seq(SubjectEntry)]
  <2>1. dedup \in [Workers -> Seq(Entry)] /\ subjects \in [Workers -> Seq(SubjectEntry)]
    BY DEF TypeOK
  <2>2. dedup' = [dedup EXCEPT ![w] = <<>>] /\ subjects' = [subjects EXCEPT ![w] = <<>>]
    BY DEF Crash
  <2>3. <<>> \in Seq(Entry) /\ <<>> \in Seq(SubjectEntry)
    OBVIOUS
  <2> QED BY <2>1, <2>2, <2>3
<1>4. /\ outcome' \in [Workers -> [alerts : SUBSET NewAlert, touches : SUBSET Touch,
                                   incidents : {outcome'[v].incidents : v \in Workers}]]
      /\ \A v \in Workers : IncidentTable(outcome'[v].incidents)
  <2>1. outcome' = [outcome EXCEPT ![w] = NoOutcome]
    BY DEF Crash
  <2>2. IncidentTable(<<>>)
    BY DEF IncidentTable
  <2> QED BY <2>1, <2>2 DEF TypeOK, NoOutcome
<1>5. SubjectEntry' = SubjectEntry
  BY DEF SubjectEntry, Crash
<1>6. UNCHANGED <<acked, rows, audit, incidents, feed, minted, again, events, verdicts>>
  BY DEF Crash, tables
<1>7. /\ states' \in [Workers -> Seq(Span)] /\ flushing' \in [Workers -> Seq(Span)]
      /\ pending' \in [Workers -> BOOLEAN] /\ vectors' \in [Workers -> SUBSET Entities]
  <2>1. <<>> \in Seq(Span)
    OBVIOUS
  <2> QED BY <2>1 DEF Crash, TypeOK
<1> QED BY <1>1, <1>2, <1>3, <1>4, <1>5, <1>6, <1>7 DEF TypeOK, IncidentTable

\* An analyst's decision keeps the types.
LEMMA SetStatusType ==
  ASSUME TypeOK, NEW id \in AlertIds, SetStatus(id)
  PROVE  TypeOK'
<1> DEFINE row == [kind |-> "STATUS", time |-> 0]
<1>1. verdicts' \in 0..MaxVerdicts
  <2>1. verdicts \in 0..MaxVerdicts /\ verdicts < MaxVerdicts /\ verdicts' = verdicts + 1
    BY DEF SetStatus, TypeOK
  <2> QED BY <2>1, WindowsAssumption
<1>2. rows' \in [AlertIds -> AlertRow \cup {None}]
  <2>1. rows[id] \in AlertRow
    BY DEF SetStatus, TypeOK
  <2>2. [rows[id] EXCEPT !.status = "VERDICT"] \in AlertRow
    BY <2>1 DEF AlertRow, Statuses
  <2> QED BY <2>2 DEF SetStatus, TypeOK
<1>3. audit' \in [AlertIds -> Seq(AuditRow)]
  <2>1. row \in AuditRow
    BY WindowsAssumption DEF AuditRow
  <2>2. audit' = [audit EXCEPT ![id] = Append(@, row)] /\ audit \in [AlertIds -> Seq(AuditRow)]
    BY DEF SetStatus, TypeOK
  <2> HIDE DEF row
  <2>3. Append(audit[id], row) \in Seq(AuditRow)
    BY <2>1, <2>2
  <2> QED BY <2>2, <2>3
<1>4. SubjectEntry' = SubjectEntry
  BY DEF SubjectEntry, SetStatus
<1>5. UNCHANGED <<states, pending, flushing, vectors, again, phase, at, fired, dedup,
                  subjects, outcome, acked, incidents, feed, minted, events, crashes>>
  BY DEF SetStatus, memory, windows
<1> QED BY <1>1, <1>2, <1>3, <1>4, <1>5 DEF TypeOK, IncidentTable

\* Every step keeps the types.
LEMMA TypeStep ==
  ASSUME TypeOK, \A w \in Workers : InOrder(w), [Next]_vars
  PROVE  TypeOK'
<1>1. ASSUME NEW w \in Workers, NEW t \in Times, NEW q \in Contacts, Begin(w, t, q)
      PROVE  TypeOK'
  BY <1>1, BeginType
<1>2. ASSUME NEW w \in Workers, NEW s \in Signals, Weak(w, s) PROVE TypeOK'
  BY <1>2, WeakType
<1>3. ASSUME NEW w \in Workers, NEW s \in Signals, Suppress(w, s) PROVE TypeOK'
  BY <1>3, SuppressType
<1>4. ASSUME NEW w \in Workers, NEW s \in Signals, Raise(w, s) PROVE TypeOK'
  BY <1>4, RaiseType
<1>5. ASSUME NEW w \in Workers, StoreAlerts(w) PROVE TypeOK'
  BY <1>5, StoreAlertsType
<1>6. ASSUME NEW w \in Workers, PublishAlerts(w) PROVE TypeOK'
  BY <1>6, PublishAlertsType
<1>7. ASSUME NEW w \in Workers, TouchAlert(w) PROVE TypeOK'
  BY <1>7, TouchAlertType
<1>8. ASSUME NEW w \in Workers, StoreIncidents(w) PROVE TypeOK'
  BY <1>8, StoreIncidentsType
<1>9. ASSUME NEW w \in Workers, Acknowledge(w) PROVE TypeOK'
  BY <1>9, AcknowledgeType
<1>10. ASSUME NEW w \in Workers, Crash(w) PROVE TypeOK'
  BY <1>10, CrashType
<1>11. ASSUME NEW id \in AlertIds, SetStatus(id) PROVE TypeOK'
  BY <1>11, SetStatusType
<1>12. ASSUME UNCHANGED vars PROVE TypeOK'
  <2>1. UNCHANGED <<states, pending, flushing, vectors, again, phase, at, fired, dedup,
                    subjects, outcome, acked, rows, audit, incidents, feed, minted,
                    events, crashes, verdicts>>
    BY <1>12 DEF vars, memory, tables, budget, windows
  <2>2. SubjectEntry' = SubjectEntry
    BY <2>1 DEF SubjectEntry
  <2> QED BY <2>1, <2>2 DEF TypeOK, IncidentTable
<1>13. ASSUME NEW w \in Workers, FlushOpenWindows(w) PROVE TypeOK'
  BY <1>13, FlushOpenWindowsType
<1>14. ASSUME NEW w \in Workers, FlushNext(w) PROVE TypeOK'
  BY <1>14, FlushNextType
<1> QED BY <1>1, <1>2, <1>3, <1>4, <1>5, <1>6, <1>7, <1>8, <1>9, <1>10, <1>11, <1>12,
           <1>13, <1>14 DEF Next
-----------------------------------------------------------------------------
(* The invariant of the alerts.                                             *)

\* What the incidents of a table may tell of only grows.
LEMMA BackedGrows ==
  ASSUME NEW m, NEW S, NEW T, S \subseteq T, Backed(m, S)
  PROVE  Backed(m, T)
BY DEF Backed

\* An incident of a subject with two classes, listing alerts that may be told of,
\* joins a table of such incidents.
LEMMA WithIncidentBacked ==
  ASSUME NEW S, NEW m, m \in [DOMAIN m -> IncidentRow], Backed(m, S), NEW i,
         NEW x \in SubjectEntry, Members(x.alerts) \subseteq S,
         OwnSubject(x.alerts, x.key), Correlated(x)
  PROVE  Backed(WithIncident(m, i, x), S)
<1> DEFINE n == WithIncident(m, i, x)
<1>1. /\ n \in [DOMAIN m \cup {i} -> IncidentRow]
      /\ \A j \in DOMAIN m \ {i} : n[j] = m[j]
      /\ n[i].subject = x.key /\ n[i].alerts = LastListed(x.alerts)
      /\ Cardinality(n[i].classes) >= 2
  BY WithIncidentType
<1>2. Members(LastListed(x.alerts)) \subseteq Members(x.alerts)
  BY ListedMembers DEF SubjectEntry
<1> HIDE DEF n
<1>3. /\ Members(n[i].alerts) \subseteq S
      /\ OwnSubject(n[i].alerts, n[i].subject)
      /\ Cardinality(n[i].classes) >= 2
  BY <1>1, <1>2 DEF OwnSubject
<1>4. Backed(n, S)
  BY <1>1, <1>3 DEF Backed
<1> QED BY <1>4 DEF n

\* A step that leaves the tables and the feed alone leaves their agreement alone.
LEMMA TablesStay ==
  ASSUME Ledgered, Backed(incidents, Stored), UNCHANGED <<tables, feed>>
  PROVE  Stored' = Stored /\ Ledgered' /\ Backed(incidents, Stored)'
<1>1. UNCHANGED <<rows, audit, incidents, feed>>
  BY DEF tables
<1>2. Stored' = Stored
  BY <1>1 DEF Stored
<1>3. Ledgered'
  BY <1>1, <1>2 DEF Ledgered
<1>4. Backed(incidents, Stored)'
  BY <1>1, <1>2 DEF Backed, OwnSubject
<1> QED BY <1>2, <1>3, <1>4

\* A step of another worker leaves worker v with what it may speak of.
LEMMA OtherWorker ==
  ASSUME NEW v, Remembers(v), InOrder(v), Stored \subseteq Stored',
         UNCHANGED <<dedup[v], subjects[v], outcome[v], phase[v], at[v]>>
  PROVE  Remembers(v)' /\ InOrder(v)'
<1>1. Owned(v)' = Owned(v) /\ Known(v) \subseteq Known(v)'
  BY DEF Owned, Known
<1>2. Backed(outcome[v].incidents, Known(v)')
  BY <1>1, BackedGrows DEF Remembers
<1>3. Remembers(v)'
  BY <1>1, <1>2 DEF Remembers, Backed, OwnSubject
<1> QED BY <1>1, <1>3 DEF InOrder

\* The subjects of a worker stay of alerts it may speak of when one is touched.
LEMMA SubjectTouched ==
  ASSUME TypeOK, NEW w \in Workers, Remembers(w), Known(w) \subseteq Known(w)',
         NEW T, subjects[w] \in Seq(T), NEW y \in T,
         Members(y.alerts) \subseteq Known(w)', OwnSubject(y.alerts, y.key),
         subjects' = [subjects EXCEPT ![w] = Touched(@, y)]
  PROVE  \A x \in Members(subjects'[w]) :
           Members(x.alerts) \subseteq Known(w)' /\ OwnSubject(x.alerts, x.key)
<1>1. subjects'[w] = Touched(subjects[w], y)
  BY DEF TypeOK
<1>2. Members(subjects'[w]) \subseteq Members(subjects[w]) \cup {y}
  BY <1>1, TouchedMembers
<1> QED BY <1>2 DEF Remembers

\* What is noted of a signal tells of known alerts of its subject.
LEMMA NotedKnown ==
  ASSUME TypeOK, NEW w \in Workers, Remembers(w), at[w] \in Times, NEW s \in Signals
  PROVE  /\ Members(Noted(w, s).alerts) \subseteq Known(w)
         /\ OwnSubject(Noted(w, s).alerts, s.subject)
<1>1. CASE Noted(w, s).alerts = <<>>
  BY <1>1 DEF OwnSubject, Members
<1>2. CASE \E y \in Members(subjects[w]) :
             y.key = s.subject /\ y.alerts = Noted(w, s).alerts
  BY <1>2 DEF Remembers
<1> QED BY <1>1, <1>2, NotedFacts

\* The start of a round keeps them: expire only forgets.
LEMMA RoundKept ==
  ASSUME IInv, NEW w \in Workers, NEW t \in Times, NEW E, Round(w, t, E),
         UNCHANGED <<outcome, tables, feed>>
  PROVE  Kept'
<1>1. Stored' = Stored /\ Ledgered' /\ Backed(incidents, Stored)'
  BY TablesStay DEF IInv, Kept
<1>2. ASSUME NEW v \in Workers, v # w PROVE (Remembers(v) /\ InOrder(v))'
  <2>1. UNCHANGED <<dedup[v], subjects[v], outcome[v], phase[v], at[v]>>
    BY <1>2 DEF Round, IInv, TypeOK
  <2> QED BY <1>1, <2>1, OtherWorker DEF IInv, Kept
<1>3. /\ dedup'[w] = SeenSince(dedup[w], t - DedupWindow)
      /\ subjects'[w] = SeenSince(subjects[w], t - IdleLimit)
      /\ outcome'[w] = outcome[w] /\ phase'[w] = "fuse" /\ at'[w] = t
  BY DEF Round, IInv, TypeOK
<1>4. /\ Members(dedup'[w]) \subseteq Members(dedup[w])
      /\ Members(subjects'[w]) \subseteq Members(subjects[w])
  BY <1>3, SeenSinceMembers DEF IInv, TypeOK
<1>5. Owned(w)' = Owned(w) /\ Known(w)' = Known(w)
  BY <1>1, <1>3 DEF Owned, Known
<1>6. Remembers(w)'
  BY <1>3, <1>4, <1>5 DEF IInv, Kept, Remembers, Backed, OwnSubject
<1>7. InOrder(w)'
  BY <1>3 DEF InOrder
<1> QED BY <1>1, <1>2, <1>6, <1>7 DEF Kept

\* An event keeps them.
LEMMA BeginKept ==
  ASSUME IInv, NEW w \in Workers, NEW t \in Times, NEW q \in Contacts, Begin(w, t, q)
  PROVE  Kept'
BY RoundKept DEF Begin

\* So does the start of a flush, which is about the engine.
LEMMA FlushOpenWindowsKept ==
  ASSUME IInv, NEW w \in Workers, FlushOpenWindows(w)
  PROVE  Kept'
<1>1. UNCHANGED <<dedup, subjects, outcome, phase, at>> /\ UNCHANGED <<tables, feed>>
  BY DEF FlushOpenWindows, memory
<1>2. Stored' = Stored /\ Ledgered' /\ Backed(incidents, Stored)'
  BY <1>1, TablesStay DEF IInv, Kept
<1>3. ASSUME NEW v \in Workers PROVE (Remembers(v) /\ InOrder(v))'
  BY <1>1, <1>2, OtherWorker DEF IInv, Kept
<1> QED BY <1>2, <1>3 DEF Kept

\* And a vector of a flush.
LEMMA FlushNextKept ==
  ASSUME IInv, NEW w \in Workers, FlushNext(w)
  PROVE  Kept'
<1>1. Head(flushing[w]).last \in Times
  BY HeadOfFlush DEF FlushNext, IInv
<1> QED BY <1>1, RoundKept DEF FlushNext

\* A weak result keeps them: it is only noted.
LEMMA WeakKept ==
  ASSUME IInv, NEW w \in Workers, NEW s \in Signals, Weak(w, s)
  PROVE  Kept'
<1>1. Stored' = Stored /\ Ledgered' /\ Backed(incidents, Stored)'
  BY TablesStay DEF IInv, Kept, Weak
<1>2. ASSUME NEW v \in Workers, v # w PROVE (Remembers(v) /\ InOrder(v))'
  <2>1. UNCHANGED <<dedup[v], subjects[v], outcome[v], phase[v], at[v]>>
    BY <1>2 DEF Weak, IInv, TypeOK
  <2> QED BY <1>1, <2>1, OtherWorker DEF IInv, Kept
<1>3. UNCHANGED <<dedup, outcome, phase, at>> /\ at[w] \in Times
  BY DEF Weak, FuseNext, IInv, Kept, InOrder
<1>4. Owned(w)' = Owned(w) /\ Known(w)' = Known(w)
  BY <1>1, <1>3 DEF Owned, Known
<1>5. /\ Noted(w, s) \in SubjectEntry /\ Noted(w, s).key = s.subject
      /\ Members(Noted(w, s).alerts) \subseteq Known(w)
      /\ OwnSubject(Noted(w, s).alerts, s.subject)
  BY <1>3, NotedFacts, NotedKnown DEF IInv, Kept
<1>6. \A x \in Members(subjects'[w]) :
        Members(x.alerts) \subseteq Known(w)' /\ OwnSubject(x.alerts, x.key)
  <2>1. subjects' = [subjects EXCEPT ![w] = Touched(@, Noted(w, s))]
    BY DEF Weak
  <2>2. subjects[w] \in Seq(SubjectEntry) /\ TypeOK /\ Remembers(w)
    BY DEF IInv, Kept, TypeOK
  <2>3. Known(w) \subseteq Known(w)' /\ Members(Noted(w, s).alerts) \subseteq Known(w)'
    BY <1>4, <1>5
  <2>4. OwnSubject(Noted(w, s).alerts, Noted(w, s).key)
    BY <1>5
  <2>5. Noted(w, s) \in SubjectEntry
    BY <1>5
  <2> QED BY <2>1, <2>2, <2>3, <2>4, <2>5, SubjectTouched
<1>7. Remembers(w)'
  BY <1>3, <1>4, <1>6 DEF IInv, Kept, Remembers, Backed, OwnSubject
<1>8. InOrder(w)'
  BY <1>1, <1>3, <1>4 DEF IInv, Kept, InOrder
<1> QED BY <1>1, <1>2, <1>7, <1>8 DEF Kept

\* A duplicate keeps them: it speaks of the alert its entry was made for.
LEMMA SuppressKept ==
  ASSUME IInv, NEW w \in Workers, NEW s \in Signals, Suppress(w, s)
  PROVE  Kept'
<1>1. Stored' = Stored /\ Ledgered' /\ Backed(incidents, Stored)'
  BY TablesStay DEF IInv, Kept, Suppress
<1>2. PICK old \in Members(dedup[w]), touch \in Touch :
           /\ old.id = touch.id
           /\ outcome' = [outcome EXCEPT ![w].touches = @ \cup {touch}]
           /\ dedup' \in [Workers -> Seq(Entry)]
           /\ \A v \in Workers \ {w} : dedup'[v] = dedup[v]
           /\ \A e \in Members(dedup'[w]) : e \in Members(dedup[w]) \/ e.id = old.id
  BY SuppressFacts DEF IInv, Kept
<1>3. ASSUME NEW v \in Workers, v # w PROVE (Remembers(v) /\ InOrder(v))'
  <2>1. UNCHANGED <<dedup[v], subjects[v], outcome[v], phase[v], at[v]>>
    BY <1>2, <1>3 DEF Suppress, IInv, TypeOK
  <2> QED BY <1>1, <2>1, OtherWorker DEF IInv, Kept
<1>4. UNCHANGED <<phase, at>> /\ at[w] \in Times /\ phase[w] = "fuse"
  BY DEF Suppress, FuseNext, IInv, Kept, InOrder
<1>5. /\ outcome'[w].alerts = outcome[w].alerts
      /\ outcome'[w].touches = outcome[w].touches \cup {touch}
      /\ outcome'[w].incidents = outcome[w].incidents
  BY <1>2 DEF IInv, TypeOK
<1>6. Owned(w)' = Owned(w) /\ Known(w)' = Known(w)
  BY <1>1, <1>5 DEF Owned, Known
<1>7. /\ Noted(w, s) \in SubjectEntry /\ Noted(w, s).key = s.subject
      /\ Members(Noted(w, s).alerts) \subseteq Known(w)
      /\ OwnSubject(Noted(w, s).alerts, s.subject)
  BY <1>4, NotedFacts, NotedKnown DEF IInv, Kept
<1>8. \A x \in Members(subjects'[w]) :
        Members(x.alerts) \subseteq Known(w)' /\ OwnSubject(x.alerts, x.key)
  <2>1. subjects' = [subjects EXCEPT ![w] = Touched(@, Noted(w, s))]
    BY DEF Suppress
  <2>2. subjects[w] \in Seq(SubjectEntry) /\ TypeOK /\ Remembers(w)
    BY DEF IInv, Kept, TypeOK
  <2>3. Known(w) \subseteq Known(w)' /\ Members(Noted(w, s).alerts) \subseteq Known(w)'
    BY <1>6, <1>7
  <2>4. OwnSubject(Noted(w, s).alerts, Noted(w, s).key)
    BY <1>7
  <2>5. Noted(w, s) \in SubjectEntry
    BY <1>7
  <2> QED BY <2>1, <2>2, <2>3, <2>4, <2>5, SubjectTouched
<1>9. old.id \in Known(w)
  BY <1>2 DEF IInv, Kept, Remembers
<1>10. Remembers(w)'
  BY <1>2, <1>5, <1>6, <1>8, <1>9 DEF IInv, Kept, Remembers, Backed, OwnSubject
<1>11. InOrder(w)'
  BY <1>4 DEF InOrder
<1> QED BY <1>1, <1>3, <1>10, <1>11 DEF Kept

\* A new alert keeps them: its own worker is the first to know of it, and its
\* incident lists it among known alerts of its subject.
LEMMA RaiseKept ==
  ASSUME IInv, NEW w \in Workers, NEW s \in Signals, Raise(w, s)
  PROVE  Kept'
<1>1. Stored' = Stored /\ Ledgered' /\ Backed(incidents, Stored)'
  BY TablesStay DEF IInv, Kept, Raise
<1>2. PICK x, z, a, m :
           /\ x \in SubjectEntry /\ z \in SubjectEntry' /\ a \in NewAlert
           /\ a.id = AlertId(s, at[w])
           /\ x.key = s.subject
           /\ Members(x.alerts) \subseteq Members(Noted(w, s).alerts) \cup {a.id}
           /\ z.key = x.key /\ z.alerts = x.alerts
           /\ subjects' = [subjects EXCEPT ![w] = Touched(@, z)]
           /\ minted' \in Nat /\ minted <= minted'
           /\ \/ m = outcome[w].incidents
              \/ /\ Correlated(x)
                 /\ \E i \in 1..minted' : m = WithIncident(outcome[w].incidents, i, x)
           /\ outcome' = [outcome EXCEPT ![w].alerts = @ \cup {a}, ![w].incidents = m]
  BY RaiseFacts DEF IInv, Kept
<1>3. UNCHANGED <<phase, at>> /\ at[w] \in Times /\ phase[w] = "fuse"
  BY DEF Raise, FuseNext, IInv, Kept, InOrder
<1>4. /\ \A v \in Workers \ {w} : dedup'[v] = dedup[v]
      /\ \A e \in Members(dedup'[w]) : e \in Members(dedup[w]) \/ e.id = a.id
  BY <1>2, <1>3, RememberFacts DEF Raise, IInv
<1>5. ASSUME NEW v \in Workers, v # w PROVE (Remembers(v) /\ InOrder(v))'
  <2>1. UNCHANGED <<dedup[v], subjects[v], outcome[v], phase[v], at[v]>>
    BY <1>2, <1>3, <1>4, <1>5 DEF IInv, TypeOK
  <2> QED BY <1>1, <2>1, OtherWorker DEF IInv, Kept
<1>6. /\ outcome'[w].alerts = outcome[w].alerts \cup {a}
      /\ outcome'[w].touches = outcome[w].touches
      /\ outcome'[w].incidents = m
  BY <1>2 DEF IInv, TypeOK
<1>7. Owned(w)' = Owned(w) \cup {a.id} /\ Known(w)' = Known(w) \cup {a.id}
  BY <1>1, <1>6 DEF Owned, Known
<1>8. Members(x.alerts) \subseteq Known(w)' /\ OwnSubject(x.alerts, s.subject)
  <2>1. /\ Members(Noted(w, s).alerts) \subseteq Known(w)
        /\ OwnSubject(Noted(w, s).alerts, s.subject)
    BY <1>3, NotedKnown DEF IInv, Kept
  <2>2. SubjectOfKey(a.id[1]) = s.subject
    BY <1>2, <1>3, AlertIdType, SubjectOfItsKey
  <2> QED BY <1>2, <1>7, <2>1, <2>2 DEF OwnSubject
<1>9. \A y \in Members(subjects'[w]) :
        Members(y.alerts) \subseteq Known(w)' /\ OwnSubject(y.alerts, y.key)
  <2>1. SubjectEntry \subseteq SubjectEntry'
    <3>1. minted \in Nat
      BY DEF IInv, TypeOK
    <3> QED BY <1>2, <3>1 DEF SubjectEntry
  <2>2. subjects[w] \in Seq(SubjectEntry') /\ TypeOK /\ Remembers(w)
    <3>1. subjects[w] \in Seq(SubjectEntry) /\ TypeOK /\ Remembers(w)
      BY DEF IInv, Kept, TypeOK
    <3> QED BY <2>1, <3>1
  <2>3. Known(w) \subseteq Known(w)' /\ Members(z.alerts) \subseteq Known(w)'
    BY <1>2, <1>7, <1>8
  <2>4. OwnSubject(z.alerts, z.key)
    BY <1>2, <1>8
  <2>5. z \in SubjectEntry' /\ subjects' = [subjects EXCEPT ![w] = Touched(@, z)]
    BY <1>2
  <2> QED BY <2>2, <2>3, <2>4, <2>5, SubjectTouched
<1>10. Backed(m, Known(w)')
  <2> DEFINE old == outcome[w].incidents
  <2>1. Backed(old, Known(w)') /\ old \in [DOMAIN old -> IncidentRow]
    BY <1>7, BackedGrows DEF IInv, Kept, Remembers, TypeOK, IncidentTable
  <2> HIDE DEF old
  <2>2. ASSUME NEW i \in 1..minted', m = WithIncident(old, i, x), Correlated(x)
        PROVE  Backed(m, Known(w)')
    <3>1. /\ Members(x.alerts) \subseteq Known(w)' /\ OwnSubject(x.alerts, x.key)
      BY <1>2, <1>8
    <3>2. Backed(WithIncident(old, i, x), Known(w)')
      BY <1>2, <2>1, <2>2, <3>1, WithIncidentBacked
    <3> QED BY <2>2, <3>2
  <2> QED BY <1>2, <2>1, <2>2 DEF old
<1>11. Remembers(w)'
  <2>1. Backed(outcome[w].incidents, Known(w))'
    BY <1>6, <1>10 DEF Backed, OwnSubject
  <2>2. /\ \A e \in Members(dedup'[w]) : e.id \in Known(w)'
        /\ \A t \in outcome'[w].touches : t.id \in Known(w)'
    BY <1>4, <1>6, <1>7 DEF IInv, Kept, Remembers
  <2> QED BY <1>9, <2>1, <2>2 DEF Remembers, OwnSubject
<1>12. InOrder(w)'
  BY <1>3 DEF InOrder
<1> QED BY <1>1, <1>5, <1>11, <1>12 DEF Kept

\* insert_alerts keeps them: rows that exist stay, and what the worker owned is stored.
LEMMA StoreAlertsKept ==
  ASSUME IInv, NEW w \in Workers, StoreAlerts(w)
  PROVE  /\ Kept'
         /\ \A id \in Stored : rows'[id] = rows[id] /\ audit'[id] = audit[id]
         /\ \A id \in AlertIds \ Stored :
              \/ rows'[id] = rows[id] /\ audit'[id] = audit[id]
              \/ \E a \in NewAlert :
                   /\ rows'[id] = Row(a)
                   /\ audit'[id] = <<[kind |-> "CREATED", time |-> a.time]>>
<1> DEFINE new == {a.id : a \in {a \in outcome[w].alerts : rows[a.id] = None}}
<1>1. /\ rows' = [i \in AlertIds |-> IF i \in new THEN Row(AlertOf(w, i)) ELSE rows[i]]
      /\ audit' = [i \in AlertIds |->
              IF i \in new
              THEN Append(audit[i], [kind |-> "CREATED", time |-> AlertOf(w, i).time])
              ELSE audit[i]]
  BY DEF StoreAlerts
<1>2. Owned(w) \subseteq AlertIds /\ new = Owned(w) \ Stored
  <2>1. \A a \in outcome[w].alerts : a.id \in AlertIds
    <3>1. outcome[w].alerts \subseteq NewAlert
      BY DEF IInv, TypeOK
    <3> QED BY <3>1 DEF NewAlert
  <2>2. Owned(w) \subseteq AlertIds
    BY <2>1 DEF Owned
  <2>3. \A i \in new : i \in Owned(w) /\ rows[i] = None
    BY DEF Owned
  <2>4. \A i \in Owned(w) : rows[i] = None => i \in new
    BY DEF Owned
  <2> HIDE DEF new
  <2> QED BY <2>2, <2>3, <2>4 DEF Stored
<1>3. ASSUME NEW i \in new
      PROVE  /\ AlertOf(w, i) \in NewAlert /\ Row(AlertOf(w, i)) \in AlertRow
             /\ Row(AlertOf(w, i)) # None
  <2>1. AlertOf(w, i) \in NewAlert
    BY DEF AlertOf, IInv, TypeOK
  <2>2. Row(AlertOf(w, i)) \in AlertRow
    BY <2>1 DEF NewAlert, Row, AlertRow, Statuses
  <2> QED BY <2>1, <2>2, NoneAssumption
<1> HIDE DEF new
<1>4. \A i \in new : i \in AlertIds /\ rows[i] = None /\ audit[i] = <<>>
  BY <1>2 DEF Stored, IInv, Kept, Ledgered
<1>5. \A i \in new : audit'[i] = <<[kind |-> "CREATED", time |-> AlertOf(w, i).time]>>
  <2>1. \A r : Append(<<>>, r) = <<r>>
    OBVIOUS
  <2> QED BY <1>1, <1>4, <2>1
<1>6. \A i \in AlertIds \ new : rows'[i] = rows[i] /\ audit'[i] = audit[i]
  BY <1>1
<1>7. Stored' = Stored \cup Owned(w)
  BY <1>1, <1>2, <1>3, <1>6 DEF Stored
<1>8. Ledgered'
  <2>1. feed' = feed
    BY DEF StoreAlerts
  <2>2. \A i \in new : rows'[i] # None /\ audit'[i] # <<>>
    BY <1>1, <1>3, <1>4, <1>5
  <2>3. \A i \in AlertIds : rows'[i] = None <=> audit'[i] = <<>>
    BY <1>6, <2>2 DEF IInv, Kept, Ledgered
  <2> QED BY <1>7, <2>1, <2>3 DEF IInv, Kept, Ledgered
<1>9. Backed(incidents, Stored)'
  <2>1. Backed(incidents, Stored') /\ incidents' = incidents
    BY <1>7, BackedGrows DEF IInv, Kept, StoreAlerts
  <2> QED BY <2>1 DEF Backed, OwnSubject
<1>10. ASSUME NEW v \in Workers, v # w PROVE (Remembers(v) /\ InOrder(v))'
  <2>1. UNCHANGED <<dedup[v], subjects[v], outcome[v], phase[v], at[v]>>
    BY <1>10 DEF StoreAlerts, memory, IInv, TypeOK
  <2> QED BY <1>7, <2>1, OtherWorker DEF IInv, Kept
<1>11. /\ UNCHANGED <<dedup, subjects, outcome, at>>
       /\ phase[w] = "fuse" /\ phase'[w] = "publish"
  BY DEF StoreAlerts, memory, IInv, TypeOK
<1>12. Owned(w)' = Owned(w) /\ Known(w)' = Known(w)
  BY <1>7, <1>11 DEF Owned, Known
<1>13. Remembers(w)' /\ InOrder(w)'
  <2>1. Remembers(w)'
    BY <1>11, <1>12 DEF IInv, Kept, Remembers, Backed, OwnSubject
  <2>2. at'[w] \in Times
    BY <1>11 DEF IInv, Kept, InOrder
  <2> QED BY <1>7, <1>11, <1>12, <2>1, <2>2 DEF InOrder
<1>14. Kept'
  BY <1>8, <1>9, <1>10, <1>13 DEF Kept
<1>15. \A id \in Stored : id \notin new /\ id \in AlertIds
  BY <1>2 DEF Stored
<1> QED BY <1>1, <1>3, <1>4, <1>5, <1>6, <1>14, <1>15

\* The publication keeps them: it follows insert_alerts.
LEMMA PublishAlertsKept ==
  ASSUME IInv, NEW w \in Workers, PublishAlerts(w)
  PROVE  Kept' /\ feed' = feed \cup Owned(w) /\ Owned(w) \subseteq Stored
<1>1. /\ UNCHANGED <<rows, audit, incidents, dedup, subjects, outcome, at>>
      /\ phase[w] = "publish" /\ phase' = [phase EXCEPT ![w] = "touch"]
      /\ feed' = feed \cup Owned(w)
  BY DEF PublishAlerts, memory, tables, Owned
<1>2. Stored' = Stored /\ Owned(w) \subseteq Stored
  BY <1>1 DEF Stored, IInv, Kept, InOrder
<1>3. Ledgered' /\ Backed(incidents, Stored)'
  BY <1>1, <1>2 DEF IInv, Kept, Ledgered, Backed, OwnSubject
<1>4. \A v \in Workers : Owned(v)' = Owned(v) /\ Known(v)' = Known(v)
  BY <1>1, <1>2 DEF Owned, Known
<1>5. ASSUME NEW v \in Workers PROVE Remembers(v)'
  BY <1>1, <1>4 DEF IInv, Kept, Remembers, Backed, OwnSubject
<1>6. ASSUME NEW v \in Workers PROVE InOrder(v)'
  <2>1. CASE v = w
    <3>1. phase'[v] = "touch" /\ at'[v] \in Times
      BY <1>1, <2>1 DEF IInv, Kept, InOrder, TypeOK
    <3> QED BY <1>2, <1>4, <2>1, <3>1 DEF InOrder
  <2>2. CASE v # w
    <3>1. phase'[v] = phase[v]
      BY <1>1, <2>2 DEF IInv, TypeOK
    <3> QED BY <1>1, <1>2, <1>4, <3>1 DEF IInv, Kept, InOrder
  <2> QED BY <2>1, <2>2
<1> QED BY <1>1, <1>2, <1>3, <1>5, <1>6 DEF Kept

\* touch_alert keeps them: by then the alert it bumps is stored.
LEMMA TouchAlertKept ==
  ASSUME IInv, NEW w \in Workers, TouchAlert(w)
  PROVE  /\ Kept'
         /\ \E t \in Touch :
              /\ t.id \in Stored
              /\ rows' = [rows EXCEPT ![t.id] = [@ EXCEPT !.last = t.last, !.count = t.count]]
              /\ audit' = [audit EXCEPT ![t.id] =
                              Append(@, [kind |-> "DEDUPED", time |-> t.last])]
<1>1. PICK t \in outcome[w].touches :
        /\ rows' = [rows EXCEPT ![t.id] =
             IF @ = None THEN None ELSE [@ EXCEPT !.last = t.last, !.count = t.count]]
        /\ audit' = [audit EXCEPT ![t.id] =
             Append(@, [kind |-> "DEDUPED", time |-> t.last])]
        /\ outcome' = [outcome EXCEPT ![w].touches = @ \ {t}]
  BY DEF TouchAlert
<1>2. phase[w] = "touch" /\ UNCHANGED <<phase, at, dedup, subjects, incidents, feed>>
  BY DEF TouchAlert, memory
<1>3. t \in Touch /\ t.id \in Stored
  BY <1>1, <1>2 DEF IInv, TypeOK, Kept, Remembers, InOrder, Known
<1>4. rows' = [rows EXCEPT ![t.id] = [@ EXCEPT !.last = t.last, !.count = t.count]]
  BY <1>1, <1>3 DEF Stored, IInv, TypeOK
<1>5. rows[t.id] \in AlertRow /\ [rows[t.id] EXCEPT !.last = t.last, !.count = t.count] # None
  <2>1. rows[t.id] \in AlertRow
    BY <1>3 DEF Stored, IInv, TypeOK
  <2>2. [rows[t.id] EXCEPT !.last = t.last, !.count = t.count] \in AlertRow
    BY <1>3, <2>1 DEF Touch, AlertRow
  <2> QED BY <2>1, <2>2, NoneAssumption
<1>6. Stored' = Stored
  BY <1>3, <1>4, <1>5 DEF Stored, IInv, TypeOK
<1>7. Ledgered'
  <2> DEFINE row == [kind |-> "DEDUPED", time |-> t.last]
  <2>1. row \in AuditRow
    BY <1>3, WindowsAssumption DEF AuditRow, Touch, Times
  <2>2. audit' = [audit EXCEPT ![t.id] = Append(@, row)]
    BY <1>1
  <2> HIDE DEF row
  <2>3. audit \in [AlertIds -> Seq(AuditRow)] /\ t.id \in AlertIds
    BY <1>3 DEF IInv, TypeOK, Touch
  <2>4. Append(audit[t.id], row) # <<>>
    BY <2>1, <2>3
  <2>5. /\ audit'[t.id] # <<>>
        /\ \A i \in AlertIds \ {t.id} : audit'[i] = audit[i] /\ rows'[i] = rows[i]
    BY <1>4, <2>2, <2>3, <2>4 DEF IInv, TypeOK
  <2>6. rows'[t.id] # None
    BY <1>3, <1>6 DEF Stored
  <2>7. \A i \in AlertIds : rows'[i] = None <=> audit'[i] = <<>>
    BY <2>5, <2>6 DEF IInv, Kept, Ledgered
  <2> QED BY <1>2, <1>6, <2>7 DEF IInv, Kept, Ledgered
<1>8. Backed(incidents, Stored)'
  BY <1>2, <1>6 DEF IInv, Kept, Backed, OwnSubject
<1>9. /\ outcome'[w].alerts = outcome[w].alerts
      /\ outcome'[w].touches \subseteq outcome[w].touches
      /\ outcome'[w].incidents = outcome[w].incidents
      /\ \A v \in Workers \ {w} : outcome'[v] = outcome[v]
  BY <1>1 DEF IInv, TypeOK
<1>10. ASSUME NEW v \in Workers, v # w PROVE (Remembers(v) /\ InOrder(v))'
  BY <1>2, <1>6, <1>9, <1>10, OtherWorker DEF IInv, Kept
<1>11. Owned(w)' = Owned(w) /\ Known(w)' = Known(w)
  BY <1>6, <1>9 DEF Owned, Known
<1>12. Remembers(w)'
  BY <1>2, <1>9, <1>11 DEF IInv, Kept, Remembers, Backed, OwnSubject
<1>13. InOrder(w)'
  BY <1>2, <1>6, <1>11 DEF IInv, Kept, InOrder
<1> QED BY <1>1, <1>3, <1>4, <1>7, <1>8, <1>10, <1>12, <1>13 DEF Kept

\* upsert_incidents keeps them: by then all that its incidents list is stored.
LEMMA StoreIncidentsKept ==
  ASSUME IInv, NEW w \in Workers, StoreIncidents(w)
  PROVE  Kept'
<1> DEFINE new == outcome[w].incidents
<1>1. /\ UNCHANGED <<rows, audit, feed, dedup, subjects, at>> /\ phase[w] = "touch"
      /\ phase' = [phase EXCEPT ![w] = "idle"]
      /\ outcome' = [outcome EXCEPT ![w] = NoOutcome]
      /\ incidents' = [i \in DOMAIN incidents \cup DOMAIN new |->
                         IF i \in DOMAIN new THEN new[i] ELSE incidents[i]]
  BY DEF StoreIncidents, memory
<1>2. Stored' = Stored /\ Known(w) = Stored
  BY <1>1 DEF Stored, Known, IInv, Kept, InOrder
<1>3. Ledgered'
  BY <1>1, <1>2 DEF IInv, Kept, Ledgered
<1>4. Backed(incidents, Stored)'
  <2>1. Backed(new, Stored) /\ Backed(incidents, Stored)
    BY <1>2 DEF IInv, Kept, Remembers
  <2> HIDE DEF new
  <2>2. Backed(incidents', Stored)
    BY <1>1, <2>1 DEF Backed
  <2> QED BY <1>2, <2>2 DEF Backed, OwnSubject
<1>5. /\ outcome'[w] = NoOutcome /\ phase'[w] = "idle"
      /\ \A v \in Workers \ {w} : outcome'[v] = outcome[v] /\ phase'[v] = phase[v]
  BY <1>1 DEF IInv, TypeOK
<1>6. ASSUME NEW v \in Workers, v # w PROVE (Remembers(v) /\ InOrder(v))'
  BY <1>1, <1>2, <1>5, <1>6, OtherWorker DEF IInv, Kept
<1>7. Known(w)' = Stored /\ Owned(w)' = {}
  BY <1>2, <1>5 DEF Owned, Known, NoOutcome
<1>8. Remembers(w)'
  BY <1>1, <1>2, <1>5, <1>7 DEF IInv, Kept, Remembers, Backed, OwnSubject, NoOutcome
<1>9. InOrder(w)'
  BY <1>5 DEF InOrder
<1> QED BY <1>3, <1>4, <1>6, <1>8, <1>9 DEF Kept

\* An acknowledgement keeps them: it touches none of them.
LEMMA AcknowledgeKept ==
  ASSUME IInv, NEW w \in Workers, Acknowledge(w)
  PROVE  Kept'
<1>1. UNCHANGED <<dedup, subjects, outcome, phase, at>> /\ UNCHANGED <<tables, feed>>
  BY DEF Acknowledge, memory
<1>2. Stored' = Stored /\ Ledgered' /\ Backed(incidents, Stored)'
  BY <1>1, TablesStay DEF IInv, Kept
<1>3. ASSUME NEW v \in Workers PROVE (Remembers(v) /\ InOrder(v))'
  BY <1>1, <1>2, OtherWorker DEF IInv, Kept
<1> QED BY <1>2, <1>3 DEF Kept

\* A crash keeps them: the worker forgets all of its own, the store nothing.
LEMMA CrashKept ==
  ASSUME IInv, NEW w \in Workers, Crash(w)
  PROVE  Kept'
<1>1. /\ dedup' = [dedup EXCEPT ![w] = <<>>] /\ subjects' = [subjects EXCEPT ![w] = <<>>]
      /\ outcome' = [outcome EXCEPT ![w] = NoOutcome]
      /\ phase' = [phase EXCEPT ![w] = "idle"] /\ at' = [at EXCEPT ![w] = acked[w]]
      /\ UNCHANGED <<tables, feed>>
  BY DEF Crash
<1>2. Stored' = Stored /\ Ledgered' /\ Backed(incidents, Stored)'
  BY <1>1, TablesStay DEF IInv, Kept
<1>3. ASSUME NEW v \in Workers, v # w PROVE (Remembers(v) /\ InOrder(v))'
  <2>1. UNCHANGED <<dedup[v], subjects[v], outcome[v], phase[v], at[v]>>
    BY <1>1, <1>3 DEF IInv, TypeOK
  <2> QED BY <1>2, <2>1, OtherWorker DEF IInv, Kept
<1>4. /\ dedup'[w] = <<>> /\ subjects'[w] = <<>> /\ outcome'[w] = NoOutcome
      /\ phase'[w] = "idle"
  BY <1>1 DEF IInv, TypeOK
<1>5. Remembers(w)' /\ InOrder(w)'
  <2>1. Members(<<>>) = {}
    BY DEF Members
  <2> QED BY <1>4, <2>1 DEF Remembers, InOrder, Backed, NoOutcome
<1> QED BY <1>2, <1>3, <1>5 DEF Kept

\* An analyst's decision keeps them: it is about an alert that is stored.
LEMMA SetStatusKept ==
  ASSUME IInv, NEW id \in AlertIds, SetStatus(id)
  PROVE  Kept'
<1> DEFINE row == [kind |-> "STATUS", time |-> 0]
<1>1. /\ UNCHANGED <<dedup, subjects, outcome, phase, at, incidents, feed>>
      /\ rows[id] # None /\ rows' = [rows EXCEPT ![id].status = "VERDICT"]
      /\ audit' = [audit EXCEPT ![id] = Append(@, row)]
  BY DEF SetStatus, memory
<1>2. rows[id] \in AlertRow /\ [rows[id] EXCEPT !.status = "VERDICT"] # None
  <2>1. rows[id] \in AlertRow
    BY <1>1 DEF IInv, TypeOK
  <2>2. [rows[id] EXCEPT !.status = "VERDICT"] \in AlertRow
    BY <2>1 DEF AlertRow, Statuses
  <2> QED BY <2>1, <2>2, NoneAssumption
<1>3. rows'[id] # None /\ \A i \in AlertIds \ {id} : rows'[i] = rows[i]
  BY <1>1, <1>2 DEF IInv, TypeOK
<1>4. audit'[id] # <<>> /\ \A i \in AlertIds \ {id} : audit'[i] = audit[i]
  <2>1. row \in AuditRow
    BY WindowsAssumption DEF AuditRow
  <2>2. audit \in [AlertIds -> Seq(AuditRow)]
    BY DEF IInv, TypeOK
  <2> HIDE DEF row
  <2>3. Append(audit[id], row) # <<>>
    BY <2>1, <2>2
  <2> QED BY <1>1, <2>2, <2>3
<1>5. Stored' = Stored
  BY <1>1, <1>3 DEF Stored
<1>6. Ledgered'
  <2>1. \A i \in AlertIds : rows'[i] = None <=> audit'[i] = <<>>
    BY <1>3, <1>4 DEF IInv, Kept, Ledgered
  <2> QED BY <1>1, <1>5, <2>1 DEF IInv, Kept, Ledgered
<1>7. Backed(incidents, Stored)'
  BY <1>1, <1>5 DEF IInv, Kept, Backed, OwnSubject
<1>8. ASSUME NEW v \in Workers PROVE (Remembers(v) /\ InOrder(v))'
  BY <1>1, <1>5, OtherWorker DEF IInv, Kept
<1> QED BY <1>6, <1>7, <1>8 DEF Kept

\* Every step keeps the agreement of tables and workers.
LEMMA KeptStep ==
  ASSUME IInv, [Next]_vars
  PROVE  Kept'
<1>1. ASSUME NEW w \in Workers, NEW t \in Times, NEW q \in Contacts, Begin(w, t, q)
      PROVE  Kept'
  BY <1>1, BeginKept
<1>2. ASSUME NEW w \in Workers, NEW s \in Signals, Weak(w, s) PROVE Kept'
  BY <1>2, WeakKept
<1>3. ASSUME NEW w \in Workers, NEW s \in Signals, Suppress(w, s) PROVE Kept'
  BY <1>3, SuppressKept
<1>4. ASSUME NEW w \in Workers, NEW s \in Signals, Raise(w, s) PROVE Kept'
  BY <1>4, RaiseKept
<1>5. ASSUME NEW w \in Workers, StoreAlerts(w) PROVE Kept'
  BY <1>5, StoreAlertsKept
<1>6. ASSUME NEW w \in Workers, PublishAlerts(w) PROVE Kept'
  BY <1>6, PublishAlertsKept
<1>7. ASSUME NEW w \in Workers, TouchAlert(w) PROVE Kept'
  BY <1>7, TouchAlertKept
<1>8. ASSUME NEW w \in Workers, StoreIncidents(w) PROVE Kept'
  BY <1>8, StoreIncidentsKept
<1>9. ASSUME NEW w \in Workers, Acknowledge(w) PROVE Kept'
  BY <1>9, AcknowledgeKept
<1>10. ASSUME NEW w \in Workers, Crash(w) PROVE Kept'
  BY <1>10, CrashKept
<1>11. ASSUME NEW id \in AlertIds, SetStatus(id) PROVE Kept'
  BY <1>11, SetStatusKept
<1>12. ASSUME UNCHANGED vars PROVE Kept'
  <2>1. UNCHANGED <<dedup, subjects, outcome, phase, at>> /\ UNCHANGED <<tables, feed>>
    BY <1>12 DEF vars, memory
  <2>2. Stored' = Stored /\ Ledgered' /\ Backed(incidents, Stored)'
    BY <2>1, TablesStay DEF IInv, Kept
  <2>3. ASSUME NEW v \in Workers PROVE (Remembers(v) /\ InOrder(v))'
    BY <2>1, <2>2, OtherWorker DEF IInv, Kept
  <2> QED BY <2>2, <2>3 DEF Kept
<1>13. ASSUME NEW w \in Workers, FlushOpenWindows(w) PROVE Kept'
  BY <1>13, FlushOpenWindowsKept
<1>14. ASSUME NEW w \in Workers, FlushNext(w) PROVE Kept'
  BY <1>14, FlushNextKept
<1> QED BY <1>1, <1>2, <1>3, <1>4, <1>5, <1>6, <1>7, <1>8, <1>9, <1>10, <1>11, <1>12,
           <1>13, <1>14 DEF Next

\* At the start nothing is stored and nobody speaks of anything.
LEMMA InitKept == Init => Kept
<1> SUFFICES ASSUME Init PROVE Kept
  OBVIOUS
<1>1. Members(<<>>) = {}
  BY DEF Members
<1>2. Ledgered /\ Backed(incidents, Stored)
  BY DEF Init, Ledgered, Backed
<1>3. ASSUME NEW w \in Workers PROVE Remembers(w) /\ InOrder(w)
  <2>1. /\ dedup[w] = <<>> /\ subjects[w] = <<>> /\ outcome[w] = NoOutcome
        /\ phase[w] = "idle"
    BY DEF Init
  <2> QED BY <1>1, <2>1 DEF Remembers, InOrder, Backed, NoOutcome
<1> QED BY <1>2, <1>3 DEF Kept

\* IInv is an invariant: of every event, alerts, feed, counters and incidents are
\* written in the order that makes each one speak of what is there already.
THEOREM Invariant == Spec => []IInv
<1>1. Init => IInv
  BY InitType, InitKept DEF IInv
<1>2. IInv /\ [Next]_vars => IInv'
  BY TypeStep, KeptStep DEF IInv, Kept
<1> QED BY <1>1, <1>2, PTL DEF Spec

\* The type invariant of the fusion state and of the tables it writes.
THEOREM TypeCorrect == Spec => []TypeOK
<1>1. IInv => TypeOK
  BY DEF IInv
<1> QED BY <1>1, Invariant, PTL

\* Whatever crashes, late events and other workers come between the transactions of
\* an event, an incident in the store lists only alerts of its own subject that are
\* in the alerts table, and tells of two classes at least.
THEOREM IncidentsAreBacked == Spec => []IncidentsBacked
<1>1. IInv => IncidentsBacked
  BY DEF IInv, Kept, Backed, OwnSubject, Members, IncidentsBacked
<1> QED BY <1>1, Invariant, PTL
-----------------------------------------------------------------------------
(* The tables implement AlertLedger, step by step.                          *)

\* A step that leaves rows, audit trail and feed alone is no step of the ledger.
LEMMA LedgerStutters ==
  ASSUME UNCHANGED <<rows, audit, feed>>
  PROVE  UNCHANGED Ledger!vars
BY DEF Ledger!vars, LedgerFirst, LedgerCounters, LedgerStatus, LedgerHistory

\* An entry appended to an audit trail is one appended to its history.
LEMMA HistoryGrows ==
  ASSUME TypeOK, NEW id \in AlertIds, NEW row \in AuditRow,
         audit' = [audit EXCEPT ![id] = Append(@, row)]
  PROVE  LedgerHistory' = [LedgerHistory EXCEPT ![id] = Append(@, row.kind)]
<1> DEFINE Kinds(q) == [i \in 1..Len(q) |-> q[i].kind]
<1>1. audit \in [AlertIds -> Seq(AuditRow)]
  BY DEF TypeOK
<1>2. ASSUME NEW q \in Seq(AuditRow)
      PROVE  Kinds(Append(q, row)) = Append(Kinds(q), row.kind)
  <2>1. /\ Append(q, row) \in Seq(AuditRow) /\ Len(Append(q, row)) = Len(q) + 1
        /\ Len(q) \in Nat
    OBVIOUS
  <2>2. ASSUME NEW i \in 1..(Len(q) + 1)
        PROVE  Kinds(Append(q, row))[i] = Append(Kinds(q), row.kind)[i]
    <3>1. CASE i = Len(q) + 1
      BY <2>1, <3>1
    <3>2. CASE i # Len(q) + 1
      BY <2>1, <3>2
    <3> QED BY <3>1, <3>2
  <2>3. /\ Kinds(Append(q, row)) = [i \in 1..(Len(q) + 1) |-> Kinds(Append(q, row))[i]]
        /\ Append(Kinds(q), row.kind) =
             [i \in 1..(Len(q) + 1) |-> Append(Kinds(q), row.kind)[i]]
    BY <2>1
  <2> QED BY <2>2, <2>3
<1>3. LedgerHistory = [i \in AlertIds |-> Kinds(audit[i])]
  BY DEF LedgerHistory
<1>4. LedgerHistory' = [i \in AlertIds |-> Kinds(audit'[i])]
  BY DEF LedgerHistory
<1> HIDE DEF Kinds
<1>5. Kinds(audit'[id]) = Append(Kinds(audit[id]), row.kind)
  BY <1>1, <1>2
<1>6. \A i \in AlertIds \ {id} : audit'[i] = audit[i]
  BY <1>1
<1> QED BY <1>3, <1>4, <1>5, <1>6

\* insert_alerts opens alerts.
LEMMA StoreOpens ==
  ASSUME IInv, NEW w \in Workers, StoreAlerts(w)
  PROVE  Ledger!Open
<1>1. feed' = feed
  BY DEF StoreAlerts
<1>2. ASSUME NEW id \in AlertIds, id \in Stored
      PROVE  /\ LedgerFirst'[id] = LedgerFirst[id] /\ LedgerStatus'[id] = LedgerStatus[id]
             /\ LedgerCounters'[id] = LedgerCounters[id]
             /\ LedgerHistory'[id] = LedgerHistory[id]
  <2>1. rows'[id] = rows[id] /\ audit'[id] = audit[id]
    BY <1>2, StoreAlertsKept
  <2> QED BY <2>1 DEF LedgerFirst, LedgerCounters, LedgerStatus, LedgerHistory
<1>3. ASSUME NEW id \in AlertIds, id \notin Stored
      PROVE  \/ /\ id \notin Ledger!Opened
                /\ LedgerFirst'[id] # None /\ LedgerStatus'[id] = "NEW"
                /\ LedgerHistory'[id] = <<"CREATED">>
             \/ /\ LedgerFirst'[id] = LedgerFirst[id] /\ LedgerStatus'[id] = LedgerStatus[id]
                /\ LedgerCounters'[id] = LedgerCounters[id]
                /\ LedgerHistory'[id] = LedgerHistory[id]
  <2>1. CASE rows'[id] = rows[id] /\ audit'[id] = audit[id]
    BY <2>1 DEF LedgerFirst, LedgerCounters, LedgerStatus, LedgerHistory
  <2>2. ASSUME NEW a \in NewAlert, rows'[id] = Row(a),
               audit'[id] = <<[kind |-> "CREATED", time |-> a.time]>>
        PROVE  /\ id \notin Ledger!Opened
               /\ LedgerFirst'[id] # None /\ LedgerStatus'[id] = "NEW"
               /\ LedgerHistory'[id] = <<"CREATED">>
    <3>1. Row(a) \in AlertRow
      BY DEF NewAlert, Row, AlertRow, Statuses
    <3>2. Row(a) # None /\ Row(a).first # None /\ Row(a).status = "NEW"
      BY <3>1, NoneAssumption, WindowsAssumption DEF NewAlert, Row, Times
    <3>3. LedgerFirst[id] = None
      BY <1>3 DEF LedgerFirst, Stored
    <3>4. LedgerHistory'[id] = <<"CREATED">>
      <4>1. LedgerHistory'[id] = [i \in 1..Len(audit'[id]) |-> audit'[id][i].kind]
        BY DEF LedgerHistory
      <4>2. Len(audit'[id]) = 1 /\ audit'[id][1].kind = "CREATED"
        BY <2>2
      <4>3. LedgerHistory'[id] = [i \in 1..1 |-> "CREATED"]
        BY <4>1, <4>2
      <4> QED BY <4>3
    <3> QED BY <2>2, <3>2, <3>3, <3>4 DEF LedgerFirst, LedgerStatus, Ledger!Opened
  <2> QED BY <1>3, <2>1, <2>2, StoreAlertsKept
<1> QED BY <1>1, <1>2, <1>3 DEF Ledger!Open

\* A publication tells of open alerts.
LEMMA PublishTells ==
  ASSUME IInv, NEW w \in Workers, PublishAlerts(w)
  PROVE  Ledger!Tell
<1>1. UNCHANGED <<rows, audit>> /\ feed' = feed \cup Owned(w) /\ Owned(w) \subseteq Stored
  BY PublishAlertsKept DEF PublishAlerts, tables
<1>2. Stored \subseteq Ledger!Opened
  <2>1. \A id \in Stored : rows[id].first \in Nat
    <3>1. \A id \in Stored : rows[id] \in AlertRow
      BY DEF Stored, IInv, TypeOK
    <3> QED BY <3>1, WindowsAssumption DEF AlertRow, Times
  <2> QED BY <2>1, NoneAssumption DEF Ledger!Opened, Stored, LedgerFirst
<1>3. UNCHANGED <<LedgerFirst, LedgerCounters, LedgerStatus, LedgerHistory>>
  BY <1>1 DEF LedgerFirst, LedgerCounters, LedgerStatus, LedgerHistory
<1> QED BY <1>1, <1>2, <1>3 DEF Ledger!Tell

\* touch_alert bumps an open alert.
LEMMA TouchBumps ==
  ASSUME IInv, NEW w \in Workers, TouchAlert(w)
  PROVE  Ledger!Bump
<1>1. PICK t \in Touch :
        /\ t.id \in Stored
        /\ rows' = [rows EXCEPT ![t.id] = [@ EXCEPT !.last = t.last, !.count = t.count]]
        /\ audit' = [audit EXCEPT ![t.id] = Append(@, [kind |-> "DEDUPED", time |-> t.last])]
  BY TouchAlertKept
<1> DEFINE new == [rows[t.id] EXCEPT !.last = t.last, !.count = t.count]
<1>2. feed' = feed /\ TypeOK /\ t.id \in AlertIds
  BY <1>1 DEF TouchAlert, IInv, Touch
<1>3. /\ new \in AlertRow /\ new.first = rows[t.id].first
      /\ new.status = rows[t.id].status /\ rows[t.id] \in AlertRow
  <2>1. rows[t.id] \in AlertRow
    BY <1>1, <1>2 DEF TypeOK, Stored
  <2> QED BY <2>1 DEF AlertRow, Touch
<1>4. rows' = [rows EXCEPT ![t.id] = new]
  BY <1>1
<1> HIDE DEF new
<1>5. new # None /\ rows[t.id] # None /\ rows[t.id].first # None
  BY <1>3, NoneAssumption, WindowsAssumption DEF AlertRow, Times
<1>6. rows'[t.id] = new /\ \A i \in AlertIds \ {t.id} : rows'[i] = rows[i]
  BY <1>2, <1>4 DEF TypeOK
<1>7. UNCHANGED <<LedgerFirst, LedgerStatus>>
  BY <1>3, <1>5, <1>6 DEF LedgerFirst, LedgerStatus
<1>8. \A i \in AlertIds \ {t.id} : LedgerCounters'[i] = LedgerCounters[i]
  BY <1>6 DEF LedgerCounters
<1>9. LedgerHistory' = [LedgerHistory EXCEPT ![t.id] = Append(@, "DEDUPED")]
  <2> DEFINE row == [kind |-> "DEDUPED", time |-> t.last]
  <2>1. row \in AuditRow /\ row.kind = "DEDUPED"
    BY WindowsAssumption DEF AuditRow, Touch, Times
  <2>2. audit' = [audit EXCEPT ![t.id] = Append(@, row)]
    BY <1>1
  <2> HIDE DEF row
  <2>3. LedgerHistory' = [LedgerHistory EXCEPT ![t.id] = Append(@, row.kind)]
    BY <1>2, <2>1, <2>2, HistoryGrows
  <2> QED BY <2>1, <2>3
<1>10. t.id \in Ledger!Opened
  BY <1>2, <1>5 DEF Ledger!Opened, LedgerFirst
<1> QED BY <1>2, <1>7, <1>8, <1>9, <1>10 DEF Ledger!Bump

\* set_alert_status judges an open alert.
LEMMA SetStatusJudges ==
  ASSUME IInv, NEW id \in AlertIds, SetStatus(id)
  PROVE  Ledger!Judge
<1> DEFINE new == [rows[id] EXCEPT !.status = "VERDICT"]
<1>1. /\ feed' = feed /\ rows[id] # None /\ rows' = [rows EXCEPT ![id] = new]
      /\ audit' = [audit EXCEPT ![id] = Append(@, [kind |-> "STATUS", time |-> 0])]
      /\ TypeOK
  BY DEF SetStatus, IInv
<1>2. /\ rows[id] \in AlertRow /\ new \in AlertRow /\ new.first = rows[id].first
      /\ new.last = rows[id].last /\ new.count = rows[id].count /\ new.status = "VERDICT"
  <2>1. rows[id] \in AlertRow
    BY <1>1 DEF TypeOK
  <2> QED BY <2>1 DEF AlertRow, Statuses
<1> HIDE DEF new
<1>3. new # None /\ rows[id].first # None
  BY <1>2, NoneAssumption, WindowsAssumption DEF AlertRow, Times
<1>4. rows'[id] = new /\ \A i \in AlertIds \ {id} : rows'[i] = rows[i]
  BY <1>1 DEF TypeOK
<1>5. UNCHANGED <<LedgerFirst, LedgerCounters>>
  BY <1>1, <1>2, <1>3, <1>4 DEF LedgerFirst, LedgerCounters
<1>6. LedgerStatus' = [LedgerStatus EXCEPT ![id] = "VERDICT"]
  <2>1. LedgerStatus'[id] = "VERDICT"
    BY <1>2, <1>3, <1>4 DEF LedgerStatus
  <2>2. \A i \in AlertIds \ {id} : LedgerStatus'[i] = LedgerStatus[i]
    BY <1>4 DEF LedgerStatus
  <2> DEFINE L == LedgerStatus
  <2>3. L = [i \in AlertIds |-> L[i]] /\ L' = [i \in AlertIds |-> L'[i]]
    BY DEF LedgerStatus
  <2> HIDE DEF L
  <2>4. L' = [L EXCEPT ![id] = "VERDICT"]
    BY <2>1, <2>2, <2>3 DEF L
  <2> QED BY <2>4 DEF L
<1>7. LedgerHistory' = [LedgerHistory EXCEPT ![id] = Append(@, "STATUS")]
  <2> DEFINE row == [kind |-> "STATUS", time |-> 0]
  <2>1. row \in AuditRow /\ row.kind = "STATUS"
    BY WindowsAssumption DEF AuditRow
  <2>2. audit' = [audit EXCEPT ![id] = Append(@, row)]
    BY <1>1
  <2> HIDE DEF row
  <2>3. LedgerHistory' = [LedgerHistory EXCEPT ![id] = Append(@, row.kind)]
    BY <1>1, <2>1, <2>2, HistoryGrows
  <2> QED BY <2>1, <2>3
<1>8. id \in Ledger!Opened
  BY <1>1, <1>3 DEF Ledger!Opened, LedgerFirst
<1> QED BY <1>1, <1>5, <1>6, <1>7, <1>8 DEF Ledger!Judge

\* The alert tables keep what AlertLedger promises, through redelivery, restarts,
\* late events and races of workers and analysts: an alert is opened once and for
\* good, every change of it is in its history, a verdict survives redelivery, and
\* only stored alerts are published.
THEOREM LedgerIsKept == Spec => LedgerKept
<1>1. Init => Ledger!Init
  BY DEF Init, Ledger!Init, LedgerFirst, LedgerCounters, LedgerStatus, LedgerHistory
<1>2. IInv /\ [Next]_vars => [Ledger!Next]_(Ledger!vars)
  <2> SUFFICES ASSUME IInv, [Next]_vars PROVE Ledger!Next \/ UNCHANGED Ledger!vars
    OBVIOUS
  <2>1. ASSUME NEW w \in Workers,
               \/ \E t \in Times, q \in Contacts : Begin(w, t, q)
               \/ FlushOpenWindows(w) \/ FlushNext(w)
        PROVE  UNCHANGED Ledger!vars
    BY <2>1, LedgerStutters DEF Begin, FlushOpenWindows, FlushNext, tables
  <2>2. ASSUME NEW w \in Workers, NEW s \in Signals, Weak(w, s) \/ Suppress(w, s) \/ Raise(w, s)
        PROVE  UNCHANGED Ledger!vars
    BY <2>2, LedgerStutters DEF Weak, Suppress, Raise, tables
  <2>3. ASSUME NEW w \in Workers, StoreAlerts(w) PROVE Ledger!Next
    BY <2>3, StoreOpens DEF Ledger!Next
  <2>4. ASSUME NEW w \in Workers, PublishAlerts(w) PROVE Ledger!Next
    BY <2>4, PublishTells DEF Ledger!Next
  <2>5. ASSUME NEW w \in Workers, TouchAlert(w) PROVE Ledger!Next
    BY <2>5, TouchBumps DEF Ledger!Next
  <2>6. ASSUME NEW w \in Workers, StoreIncidents(w) \/ Acknowledge(w) \/ Crash(w)
        PROVE  UNCHANGED Ledger!vars
    BY <2>6, LedgerStutters DEF StoreIncidents, Acknowledge, Crash, tables
  <2>7. ASSUME NEW id \in AlertIds, SetStatus(id) PROVE Ledger!Next
    BY <2>7, SetStatusJudges DEF Ledger!Next
  <2>8. ASSUME UNCHANGED vars PROVE UNCHANGED Ledger!vars
    BY <2>8, LedgerStutters DEF vars, tables
  <2> QED BY <2>1, <2>2, <2>3, <2>4, <2>5, <2>6, <2>7, <2>8 DEF Next
<1> QED BY <1>1, <1>2, Invariant, PTL DEF Spec, LedgerKept, Ledger!Spec
-----------------------------------------------------------------------------
(* Alerts and incidents that name each other.                               *)

\* Incident i of table m lists alert id.
Names(m, i, id) == i \in DOMAIN m /\ id \in Members(m[i].alerts)

\* Incident i of table m, if there is one, lists no alert but those in S.
Within(m, i, S) == i \in DOMAIN m => Members(m[i].alerts) \subseteq S

\* The incidents that worker w may still write.
Incidents(w) ==
  DOMAIN outcome[w].incidents
    \cup ({x.incident : x \in Members(subjects[w])} \ {None})

\* No two subjects of a worker are in one incident.
OwnIncident(w) ==
  \A x, y \in Members(subjects[w]) :
    x.incident = y.incident /\ x.incident # None => x = y

\* A new alert is listed by the incident it names, and what a worker will write of
\* an incident lists all that is listed before (fusion.py:231-286).
Linked(w) ==
  /\ \A a \in outcome[w].alerts :
       a.incident # None => Names(outcome[w].incidents, a.incident, a.id)
  /\ \A x \in Members(subjects[w]) : x.incident # None =>
       /\ Within(incidents, x.incident, Members(x.alerts))
       /\ Within(outcome[w].incidents, x.incident, Members(x.alerts))
  /\ \A i \in DOMAIN outcome[w].incidents :
       Within(incidents, i, Members(outcome[w].incidents[i].alerts))
  /\ OwnIncident(w)

\* The incident that a stored alert names lists it, in the table or in what a worker
\* is about to write there.
RowsLinked ==
  \A id \in Stored : rows[id].incident # None =>
    \/ Names(incidents, rows[id].incident, id)
    \/ \E w \in Workers : Names(outcome[w].incidents, rows[id].incident, id)

\* Workers do not write each other's incidents.
Apart == \A v, w \in Workers : v # w => Incidents(v) \cap Incidents(w) = {}

LinkInv == RowsLinked /\ Apart /\ \A w \in Workers : Linked(w)

\* No incident has more alerts than it lists.
Uncut ==
  \A w \in Workers : \A i \in DOMAIN outcome[w].incidents :
    outcome[w].incidents[i].count <= Listed

\* What touch leaves of the other entries.
LEMMA TouchedOthers ==
  ASSUME NEW V, NEW m \in Seq(V), NEW e \in V
  PROVE  Members(Touched(m, e)) \subseteq {x \in Members(m) : x.key # e.key} \cup {e}
<1> DEFINE S == {x \in Members(m) : x.key # e.key}
           W == S \cup {e}
           q == Append(Without(m, e.key), e)
<1>1. m \in Seq(Members(m))
  BY SeqOfMembers
<1>2. Only(m, S) \in Seq(Members(m) \cap S)
  BY <1>1, OnlyMembers
<1>3. Without(m, e.key) \in Seq(W)
  BY <1>2 DEF Without
<1>4. q \in Seq(W) /\ q # <<>>
  BY <1>3
<1>5. Newest(q) \in Seq(W)
  <2>1. Tail(q) \in Seq(W)
    BY <1>4
  <2> HIDE DEF q
  <2> QED BY <1>4, <2>1 DEF Newest
<1>6. Touched(m, e) \in Seq(W)
  BY <1>5 DEF Touched
<1> HIDE DEF W
<1>7. Members(Touched(m, e)) \subseteq W
  BY <1>6, SeqOfMembers
<1> QED BY <1>7 DEF W

\* Only incidents that were handed out are written.
LEMMA IncidentsMinted ==
  ASSUME TypeOK, NEW w \in Workers
  PROVE  Incidents(w) \subseteq 1..minted
<1>1. DOMAIN outcome[w].incidents \subseteq 1..minted
  BY DEF TypeOK, IncidentTable
<1>2. \A x \in Members(subjects[w]) : x.incident \in 1..minted \cup {None}
  <2>1. subjects[w] \in Seq(SubjectEntry)
    BY DEF TypeOK
  <2>2. \A x \in Members(subjects[w]) : x \in SubjectEntry
    BY <2>1, SeqOfMembers
  <2> QED BY <2>2 DEF SubjectEntry
<1> QED BY <1>1, <1>2 DEF Incidents

\* The subject that is noted is in the incident that its old entry was in, or in none.
LEMMA NotedIncident ==
  ASSUME TypeOK, NEW w \in Workers, NEW s \in Signals
  PROVE  Noted(w, s).incident # None =>
           \E y \in Members(subjects[w]) :
             y.key = s.subject /\ y.alerts = Noted(w, s).alerts
             /\ y.incident = Noted(w, s).incident
<1> DEFINE old == IF Has(subjects[w], s.subject) THEN Get(subjects[w], s.subject)
                  ELSE [key |-> s.subject, results |-> {}, incident |-> None,
                        alerts |-> <<>>, last |-> 0]
           recent == {r \in old.results : r.time >= at[w] - Correlation}
           new == [detector |-> s.detector, class |-> s.class, time |-> at[w]]
<1>1. old.incident # None => old \in Members(subjects[w]) /\ old.key = s.subject
  BY GetFinds
<1>2. Subject(w, s) = IF old.last # 0 /\ at[w] - old.last > IdleLimit
                      THEN [old EXCEPT !.results = recent, !.incident = None,
                                       !.alerts = <<>>]
                      ELSE [old EXCEPT !.results = recent]
  BY DEF Subject
<1>3. old \in [key : Subjects, results : SUBSET Result,
               incident : 1..minted \cup {None},
               alerts : Seq(AlertIds), last : 0..MaxTime]
  <2>1. subjects[w] \in Seq(SubjectEntry) /\ MaxTime \in Nat
    <3>1. subjects \in [Workers -> Seq(SubjectEntry)]
      BY DEF TypeOK
    <3> QED BY <3>1, WindowsAssumption
  <2>2. s.subject \in Subjects
    BY DEF Subjects
  <2>3. CASE Has(subjects[w], s.subject)
    <3>1. old \in Members(subjects[w])
      BY <2>3, GetFinds
    <3>2. old \in SubjectEntry
      <4> HIDE DEF old
      <4> QED BY <2>1, <3>1, SeqOfMembers
    <3> QED BY <2>1, <3>2 DEF SubjectEntry, Times
  <2>4. CASE ~Has(subjects[w], s.subject)
    BY <2>1, <2>2, <2>4
  <2> QED BY <2>3, <2>4
<1> HIDE DEF old
<1>4. \/ /\ Subject(w, s).incident = old.incident /\ Subject(w, s).alerts = old.alerts
      \/ Subject(w, s).incident = None
  BY <1>2, <1>3
<1> DEFINE x == Subject(w, s)
<1>5. Noted(w, s).incident = x.incident /\ Noted(w, s).alerts = x.alerts
  <2>1. x \in [key : Subjects, results : SUBSET Result,
               incident : 1..minted \cup {None},
               alerts : Seq(AlertIds), last : 0..MaxTime]
    BY SubjectFacts
  <2>2. Noted(w, s) = [x EXCEPT !.results = @ \cup {new}, !.last = at[w]]
    BY DEF Noted
  <2> HIDE DEF x, new
  <2> QED BY <2>1, <2>2
<1> QED BY <1>1, <1>4, <1>5

\* A touched subject in an incident of its own, or that was its own before, leaves
\* the subjects of a worker apart.
LEMMA TouchedApart ==
  ASSUME NEW w \in Workers, OwnIncident(w), NEW T, subjects[w] \in Seq(T), NEW z \in T,
         subjects'[w] = Touched(subjects[w], z),
         z.incident # None =>
           \/ \E y \in Members(subjects[w]) : y.key = z.key /\ y.incident = z.incident
           \/ \A y \in Members(subjects[w]) : y.incident # z.incident
  PROVE  /\ OwnIncident(w)'
         /\ \A x \in Members(subjects'[w]) : x = z \/ x \in Members(subjects[w])
         /\ \A x \in Members(subjects'[w]) : x # z => x.key # z.key
         /\ z.incident # None =>
              \A x \in Members(subjects'[w]) : x # z => x.incident # z.incident
<1>1. Members(subjects'[w]) \subseteq {x \in Members(subjects[w]) : x.key # z.key} \cup {z}
  BY TouchedOthers
<1>2. ASSUME NEW x \in Members(subjects'[w]), x # z, z.incident # None,
             x.incident = z.incident
      PROVE  FALSE
  <2>1. x \in Members(subjects[w]) /\ x.key # z.key
    BY <1>1, <1>2
  <2>2. PICK y \in Members(subjects[w]) : y.key = z.key /\ y.incident = z.incident
    BY <1>2, <2>1
  <2>3. x = y
    BY <1>2, <2>1, <2>2 DEF OwnIncident
  <2> QED BY <2>1, <2>2, <2>3
<1>3. OwnIncident(w)'
  BY <1>1, <1>2 DEF OwnIncident
<1> QED BY <1>1, <1>2, <1>3

\* A step that changes nothing but bookkeeping keeps the links.
LEMMA QuietLinks ==
  ASSUME LinkInv, incidents' = incidents,
         \A v \in Workers : /\ outcome'[v].alerts = outcome[v].alerts
                            /\ outcome'[v].incidents = outcome[v].incidents
                            /\ Members(subjects'[v]) \subseteq Members(subjects[v]),
         \A id \in Stored' : id \in Stored /\ rows'[id].incident = rows[id].incident
  PROVE  LinkInv'
<1>1. RowsLinked'
  <2> SUFFICES ASSUME NEW id \in Stored', rows'[id].incident # None
               PROVE  \/ Names(incidents', rows'[id].incident, id)
                      \/ \E w \in Workers :
                           Names(outcome'[w].incidents, rows'[id].incident, id)
    BY DEF RowsLinked, Names
  <2>1. \/ Names(incidents, rows[id].incident, id)
        \/ \E w \in Workers : Names(outcome[w].incidents, rows[id].incident, id)
    BY DEF LinkInv, RowsLinked
  <2> QED BY <2>1
<1>2. \A v \in Workers : Incidents(v)' \subseteq Incidents(v)
  BY DEF Incidents
<1>3. Apart'
  BY <1>2 DEF LinkInv, Apart
<1>4. ASSUME NEW v \in Workers PROVE Linked(v)'
  BY DEF LinkInv, Linked, OwnIncident, Names, Within
<1> QED BY <1>1, <1>3, <1>4 DEF LinkInv

\* A worker's links are its own, as long as the incidents that it may write stay.
LEMMA OtherLinks ==
  ASSUME NEW v \in Workers, Linked(v),
         UNCHANGED <<subjects[v], outcome[v]>>,
         \A i \in Incidents(v) : \A S : Within(incidents, i, S) => Within(incidents', i, S)
  PROVE  Linked(v)' /\ Incidents(v)' = Incidents(v)
<1>1. Incidents(v)' = Incidents(v)
  BY DEF Incidents
<1>2. \A x \in Members(subjects[v]) : x.incident # None => x.incident \in Incidents(v)
  BY DEF Incidents
<1>3. \A i \in DOMAIN outcome[v].incidents : i \in Incidents(v)
  BY DEF Incidents
<1>4. \A x \in Members(subjects[v]) : x.incident # None =>
        /\ Within(incidents', x.incident, Members(x.alerts))
        /\ Within(outcome[v].incidents, x.incident, Members(x.alerts))
  BY <1>2 DEF Linked
<1>5. \A i \in DOMAIN outcome[v].incidents :
        Within(incidents', i, Members(outcome[v].incidents[i].alerts))
  BY <1>3 DEF Linked
<1>6. /\ OwnIncident(v)'
      /\ \A a \in outcome'[v].alerts :
           a.incident # None => Names(outcome'[v].incidents, a.incident, a.id)
  BY DEF Linked, OwnIncident, Names
<1> QED BY <1>1, <1>4, <1>5, <1>6 DEF Linked, Names, Within

\* A result that is only noted keeps the links.
LEMMA NoteLinks ==
  ASSUME IInv, LinkInv, NEW w \in Workers, NEW s \in Signals, at[w] \in Times,
         subjects' = [subjects EXCEPT ![w] = Touched(@, Noted(w, s))],
         UNCHANGED <<rows, incidents>>,
         \A v \in Workers : /\ outcome'[v].alerts = outcome[v].alerts
                            /\ outcome'[v].incidents = outcome[v].incidents
  PROVE  LinkInv'
<1> DEFINE z == Noted(w, s)
<1>1. /\ z \in SubjectEntry /\ z.key = s.subject
      /\ z.incident # None => \E y \in Members(subjects[w]) :
            y.key = z.key /\ y.alerts = z.alerts /\ y.incident = z.incident
  BY NotedFacts, NotedIncident DEF IInv
<1>2. /\ subjects \in [Workers -> Seq(SubjectEntry)]
      /\ subjects'[w] = Touched(subjects[w], z)
      /\ \A v \in Workers \ {w} : subjects'[v] = subjects[v]
  BY DEF IInv, TypeOK
<1> HIDE DEF z
<1>3. OwnIncident(w) /\ Linked(w)
  BY DEF LinkInv, Linked
<1>4. /\ OwnIncident(w)'
      /\ \A x \in Members(subjects'[w]) : x = z \/ x \in Members(subjects[w])
  BY <1>1, <1>2, <1>3, TouchedApart
<1>5. Incidents(w)' \subseteq Incidents(w)
  BY <1>1, <1>4 DEF Incidents
<1>6. \A x \in Members(subjects'[w]) : x.incident # None =>
        /\ Within(incidents, x.incident, Members(x.alerts))
        /\ Within(outcome[w].incidents, x.incident, Members(x.alerts))
  BY <1>1, <1>3, <1>4 DEF Linked
<1>7. Linked(w)'
  BY <1>3, <1>4, <1>6 DEF Linked, Names, Within
<1>8. ASSUME NEW v \in Workers, v # w PROVE Linked(v)' /\ Incidents(v)' = Incidents(v)
  BY <1>2, <1>8 DEF LinkInv, Linked, OwnIncident, Names, Within, Incidents
<1>9. Apart'
  BY <1>5, <1>8 DEF LinkInv, Apart
<1>10. RowsLinked'
  <2> SUFFICES ASSUME NEW id \in Stored', rows'[id].incident # None
               PROVE  \/ Names(incidents', rows'[id].incident, id)
                      \/ \E v \in Workers :
                           Names(outcome'[v].incidents, rows'[id].incident, id)
    BY DEF RowsLinked, Names
  <2>1. \/ Names(incidents, rows[id].incident, id)
        \/ \E v \in Workers : Names(outcome[v].incidents, rows[id].incident, id)
    BY DEF LinkInv, RowsLinked, Stored
  <2> QED BY <2>1
<1> QED BY <1>7, <1>8, <1>9, <1>10 DEF LinkInv

\* A new alert names the incident its subject is in by now, or none.
LEMMA RaiseLinks ==
  ASSUME TypeOK, NEW w \in Workers, InOrder(w), NEW s \in Signals, Raise(w, s)
  PROVE  \E x, z, a, m :
           /\ x \in SubjectEntry /\ z.key = s.subject /\ z \in SubjectEntry'
           /\ Members(z.alerts) = Members(Noted(w, s).alerts) \cup {a.id}
           /\ x.alerts = z.alerts
           /\ subjects' = [subjects EXCEPT ![w] = Touched(@, z)]
           /\ outcome' = [outcome EXCEPT ![w].alerts = @ \cup {a}, ![w].incidents = m]
           /\ z.incident # None =>
                z.incident = minted + 1 \/ z.incident = Noted(w, s).incident
           /\ \/ a.incident = None /\ m = outcome[w].incidents
              \/ /\ a.incident # None /\ z.incident = a.incident
                 /\ m = WithIncident(outcome[w].incidents, a.incident, x)
<1> DEFINE id == AlertId(s, at[w])
           n == Noted(w, s)
           x == [n EXCEPT !.alerts = Append(@, id)]
           incident == IF ~Correlated(x) THEN None
                       ELSE IF x.incident = None THEN minted + 1 ELSE x.incident
           z == IF Correlated(x) THEN [x EXCEPT !.incident = incident] ELSE x
           a == [id |-> id, time |-> at[w], incident |-> incident]
           m == IF Correlated(x) THEN WithIncident(outcome[w].incidents, incident, x)
                ELSE outcome[w].incidents
<1>1. at[w] \in Times /\ id \in AlertIds /\ minted \in Nat
  BY AlertIdType DEF Raise, FuseNext, InOrder, TypeOK
<1>2. n \in SubjectEntry /\ n.key = s.subject
  BY <1>1, NotedFacts
<1>3. /\ minted' = IF incident = minted + 1 THEN minted + 1 ELSE minted
      /\ subjects' = [subjects EXCEPT ![w] = Touched(@, z)]
      /\ outcome' = [outcome EXCEPT ![w].alerts = @ \cup {a}, ![w].incidents = m]
  BY DEF Raise, TypeOK
<1> HIDE DEF id, n
<1>4. /\ x \in SubjectEntry /\ x.key = s.subject
      /\ x.incident = n.incident /\ x.alerts = Append(n.alerts, id)
  <2> DEFINE q == Append(n.alerts, id)
  <2>1. q \in Seq(AlertIds)
    BY <1>1, <1>2 DEF SubjectEntry
  <2>2. x = [n EXCEPT !.alerts = q]
    OBVIOUS
  <2> HIDE DEF q, x
  <2>3. x \in SubjectEntry /\ x.key = n.key /\ x.incident = n.incident /\ x.alerts = q
    BY <1>2, <2>1, <2>2 DEF SubjectEntry
  <2> QED BY <1>2, <2>3 DEF q
<1>5. Members(x.alerts) = Members(n.alerts) \cup {id}
  <2> DEFINE q == n.alerts
  <2>1. q \in Seq(AlertIds) /\ x.alerts = Append(q, id)
    BY <1>2, <1>4 DEF SubjectEntry
  <2> HIDE DEF q
  <2>2. /\ Len(q) \in Nat /\ Len(Append(q, id)) = Len(q) + 1
        /\ \A i \in 1..Len(q) : Append(q, id)[i] = q[i]
        /\ Append(q, id)[Len(q) + 1] = id
    BY <1>1, <2>1
  <2> DEFINE p == Append(q, id)
  <2> HIDE DEF p
  <2>3. /\ Len(p) = Len(q) + 1 /\ p[Len(q) + 1] = id
        /\ \A i \in 1..Len(q) : p[i] = q[i] /\ i \in 1..Len(p)
        /\ \A i \in 1..Len(p) : i \in 1..Len(q) \/ i = Len(q) + 1
        /\ Len(q) + 1 \in 1..Len(p)
    BY <2>2 DEF p
  <2>4. Members(p) = Members(q) \cup {id}
    BY <2>3 DEF Members
  <2> QED BY <2>1, <2>4 DEF p, q
<1> HIDE DEF x
<1>6. /\ incident = None \/ incident \in 1..minted'
      /\ minted <= minted' /\ minted' \in Nat
      /\ Correlated(x) => /\ incident # None
                          /\ incident = minted + 1 \/ incident = x.incident
      /\ ~Correlated(x) => incident = None
  <2>1. x.incident \in 1..minted \cup {None} /\ None \notin Nat
    BY <1>4, NoneAssumption DEF SubjectEntry
  <2> QED BY <1>1, <1>3, <2>1
<1> HIDE DEF incident
<1>7. /\ z \in SubjectEntry' /\ z.key = x.key /\ z.alerts = x.alerts
      /\ z.incident = IF Correlated(x) THEN incident ELSE x.incident
  <2>1. x \in SubjectEntry'
    BY <1>1, <1>4, <1>6 DEF SubjectEntry
  <2> QED BY <1>6, <2>1 DEF SubjectEntry
<1>8. a.id = id /\ a.incident = incident
  OBVIOUS
<1>9. /\ z.key = s.subject
      /\ Members(z.alerts) = Members(Noted(w, s).alerts) \cup {a.id}
      /\ z.incident # None =>
           z.incident = minted + 1 \/ z.incident = Noted(w, s).incident
  BY <1>4, <1>5, <1>6, <1>7, <1>8 DEF n
<1>10. \/ a.incident = None /\ m = outcome[w].incidents
       \/ /\ a.incident # None /\ z.incident = a.incident
          /\ m = WithIncident(outcome[w].incidents, a.incident, x)
  BY <1>6, <1>7, <1>8
<1> HIDE DEF z, a, m
<1> QED BY <1>3, <1>4, <1>7, <1>9, <1>10

\* What the rewritten table lists.
LEMMA RewrittenLists ==
  ASSUME NEW m, m \in [DOMAIN m -> IncidentRow], NEW i, NEW x \in SubjectEntry,
         WithIncident(m, i, x)[i].count <= Listed
  PROVE  /\ DOMAIN WithIncident(m, i, x) = DOMAIN m \cup {i}
         /\ WithIncident(m, i, x)[i].alerts = x.alerts
         /\ \A j \in DOMAIN m \ {i} : WithIncident(m, i, x)[j] = m[j]
<1> DEFINE row == [subject |-> x.key, alerts |-> LastListed(x.alerts),
                   count |-> Len(x.alerts), classes |-> {r.class : r \in x.results},
                   last |-> x.last]
           n == WithIncident(m, i, x)
<1>1. n = [j \in DOMAIN m \cup {i} |-> IF j = i THEN row ELSE m[j]]
  BY DEF WithIncident
<1>2. row.count = Len(x.alerts) /\ row.alerts = LastListed(x.alerts)
  OBVIOUS
<1> HIDE DEF row
<1>3. /\ DOMAIN n = DOMAIN m \cup {i} /\ n[i] = row
      /\ \A j \in DOMAIN m \ {i} : n[j] = m[j]
  BY <1>1
<1>4. Len(x.alerts) \in Nat /\ Listed \in Nat
  BY WindowsAssumption DEF SubjectEntry
<1> QED BY <1>2, <1>3, <1>4 DEF LastListed

\* A new alert keeps the links: its incident is rewritten with all that it listed
\* and with the alert.
LEMMA RaiseKeepsLinks ==
  ASSUME IInv, LinkInv, NEW w \in Workers, NEW s \in Signals, Raise(w, s), Uncut'
  PROVE  LinkInv'
<1>1. PICK x, z, a, m :
           /\ x \in SubjectEntry /\ z.key = s.subject /\ z \in SubjectEntry'
           /\ Members(z.alerts) = Members(Noted(w, s).alerts) \cup {a.id}
           /\ x.alerts = z.alerts
           /\ subjects' = [subjects EXCEPT ![w] = Touched(@, z)]
           /\ outcome' = [outcome EXCEPT ![w].alerts = @ \cup {a}, ![w].incidents = m]
           /\ z.incident # None =>
                z.incident = minted + 1 \/ z.incident = Noted(w, s).incident
           /\ \/ a.incident = None /\ m = outcome[w].incidents
              \/ /\ a.incident # None /\ z.incident = a.incident
                 /\ m = WithIncident(outcome[w].incidents, a.incident, x)
  BY RaiseLinks DEF IInv, Kept
<1> DEFINE old == outcome[w].incidents
<1>2. /\ UNCHANGED <<rows, incidents>>
      /\ outcome'[w].alerts = outcome[w].alerts \cup {a} /\ outcome'[w].incidents = m
      /\ \A v \in Workers \ {w} : outcome'[v] = outcome[v] /\ subjects'[v] = subjects[v]
      /\ subjects'[w] = Touched(subjects[w], z)
  <2>1. UNCHANGED <<rows, incidents>>
    BY DEF Raise, tables
  <2>2. /\ outcome'[w].alerts = outcome[w].alerts \cup {a} /\ outcome'[w].incidents = m
        /\ \A v \in Workers \ {w} : outcome'[v] = outcome[v]
    BY <1>1 DEF IInv, TypeOK
  <2>3. /\ \A v \in Workers \ {w} : subjects'[v] = subjects[v]
        /\ subjects'[w] = Touched(subjects[w], z)
    BY <1>1 DEF IInv, TypeOK
  <2> QED BY <2>1, <2>2, <2>3
<1>3. /\ minted \in Nat /\ minted + 1 \notin Incidents(w) /\ None \notin Nat
      /\ minted + 1 \notin DOMAIN incidents /\ minted + 1 # None
      /\ \A v \in Workers : Incidents(v) \subseteq 1..minted
      /\ DOMAIN incidents \subseteq 1..minted
  <2>1. minted \in Nat /\ DOMAIN incidents \subseteq 1..minted
    BY DEF IInv, TypeOK, IncidentTable
  <2>2. \A v \in Workers : Incidents(v) \subseteq 1..minted
    BY IncidentsMinted DEF IInv
  <2>3. minted + 1 \notin 1..minted /\ minted + 1 \in Nat
    BY <2>1
  <2> QED BY <2>1, <2>2, <2>3, NoneAssumption
<1>4. /\ subjects[w] \in Seq(SubjectEntry') /\ old \in [DOMAIN old -> IncidentRow]
  <2>1. minted <= minted' /\ minted' \in Nat
    BY <1>3 DEF Raise
  <2>2. SubjectEntry \subseteq SubjectEntry'
    BY <1>3, <2>1 DEF SubjectEntry
  <2>3. subjects[w] \in Seq(SubjectEntry) /\ IncidentTable(old)
    BY DEF IInv, TypeOK
  <2> QED BY <2>2, <2>3 DEF IncidentTable
<1>5. z.incident # None /\ z.incident # minted + 1 =>
        \E y \in Members(subjects[w]) :
          /\ y.key = z.key /\ y.incident = z.incident
          /\ Members(y.alerts) \subseteq Members(z.alerts)
  BY <1>1, NotedIncident DEF IInv
<1>6. /\ OwnIncident(w) /\ Linked(w)
      /\ \A y \in Members(subjects[w]) : y.incident # None => y.incident \in Incidents(w)
  BY DEF LinkInv, Linked, Incidents
<1>7. /\ OwnIncident(w)'
      /\ \A y \in Members(subjects'[w]) : y = z \/ y \in Members(subjects[w])
      /\ z.incident # None =>
           \A y \in Members(subjects'[w]) : y # z => y.incident # z.incident
  <2>1. z.incident # None =>
           \/ \E y \in Members(subjects[w]) : y.key = z.key /\ y.incident = z.incident
           \/ \A y \in Members(subjects[w]) : y.incident # z.incident
    BY <1>3, <1>5, <1>6
  <2>2. z \in SubjectEntry' /\ subjects'[w] = Touched(subjects[w], z)
    BY <1>1, <1>2
  <2> QED BY <1>4, <1>6, <2>1, <2>2, TouchedApart
\* The incident that z is in listed no more than z does.
<1>8. z.incident # None => /\ Within(incidents, z.incident, Members(z.alerts))
                           /\ Within(old, z.incident, Members(z.alerts))
  <2>1. CASE z.incident = minted + 1
    BY <1>3, <2>1 DEF Within, Incidents
  <2>2. CASE z.incident # minted + 1 /\ z.incident # None
    <3>1. PICK y \in Members(subjects[w]) :
            /\ y.key = z.key /\ y.incident = z.incident
            /\ Members(y.alerts) \subseteq Members(z.alerts)
      BY <1>5, <2>2
    <3>2. /\ Within(incidents, y.incident, Members(y.alerts))
          /\ Within(old, y.incident, Members(y.alerts))
      BY <1>6, <2>2, <3>1 DEF Linked
    <3> QED BY <3>1, <3>2 DEF Within
  <2> QED BY <2>1, <2>2
\* What the new table lists.
<1>9. /\ DOMAIN old \subseteq DOMAIN m
      /\ \A i \in DOMAIN m : i \in DOMAIN old \/ (i = z.incident /\ z.incident # None)
      /\ \A i \in DOMAIN m : i # z.incident => m[i] = old[i]
      /\ z.incident # None => Within(m, z.incident, Members(z.alerts))
      /\ a.incident # None => /\ a.incident = z.incident
                              /\ z.incident \in DOMAIN m
                              /\ Members(m[z.incident].alerts) = Members(z.alerts)
      /\ a.incident = None => m = old
  <2>1. CASE a.incident = None /\ m = old
    <3> HIDE DEF old
    <3>1. a.incident = None /\ m = old
      BY <2>1
    <3>2. z.incident # None => Within(m, z.incident, Members(z.alerts))
      BY <1>8, <3>1
    <3>3. /\ DOMAIN old \subseteq DOMAIN m
          /\ \A i \in DOMAIN m : i \in DOMAIN old
          /\ \A i \in DOMAIN m : m[i] = old[i]
      BY <3>1
    <3> QED BY <3>1, <3>2, <3>3
  <2>2. CASE /\ a.incident # None /\ z.incident = a.incident
             /\ m = WithIncident(old, a.incident, x)
    <3>1. a.incident \in DOMAIN m
      BY <2>2 DEF WithIncident
    <3>2. m[a.incident].count <= Listed
      BY <1>2, <3>1 DEF Uncut
    <3> HIDE DEF old
    <3>3. /\ DOMAIN m = DOMAIN old \cup {a.incident} /\ m[a.incident].alerts = x.alerts
          /\ \A j \in DOMAIN old \ {a.incident} : m[j] = old[j]
      <4> DEFINE i == a.incident
      <4>1. WithIncident(old, i, x)[i].count <= Listed /\ x \in SubjectEntry
        BY <1>1, <2>2, <3>2
      <4> HIDE DEF i
      <4>2. /\ DOMAIN WithIncident(old, i, x) = DOMAIN old \cup {i}
            /\ WithIncident(old, i, x)[i].alerts = x.alerts
            /\ \A j \in DOMAIN old \ {i} : WithIncident(old, i, x)[j] = old[j]
        BY <1>4, <4>1, RewrittenLists
      <4> QED BY <2>2, <4>2 DEF i
    <3> QED BY <1>1, <2>2, <3>3 DEF Within
  <2> QED BY <1>1, <2>1, <2>2
<1>10. \A i, id : Names(old, i, id) => Names(m, i, id)
  <2> HIDE DEF old
  <2> QED BY <1>8, <1>9 DEF Names, Within
<1>11. RowsLinked'
  <2> SUFFICES ASSUME NEW id \in Stored', rows'[id].incident # None
               PROVE  \/ Names(incidents', rows'[id].incident, id)
                      \/ \E v \in Workers :
                           Names(outcome'[v].incidents, rows'[id].incident, id)
    BY DEF RowsLinked, Names
  <2>1. rows' = rows /\ incidents' = incidents /\ id \in Stored
    BY <1>2 DEF Stored
  <2>2. \/ Names(incidents, rows[id].incident, id)
        \/ \E v \in Workers : Names(outcome[v].incidents, rows[id].incident, id)
    BY <2>1 DEF LinkInv, RowsLinked
  <2>3. ASSUME NEW v \in Workers, Names(outcome[v].incidents, rows[id].incident, id)
        PROVE  Names(outcome'[v].incidents, rows[id].incident, id)
    BY <1>2, <1>10, <2>3
  <2> QED BY <2>1, <2>2, <2>3
<1>12. Incidents(w)' \subseteq Incidents(w) \cup {minted + 1}
  <2>1. z.incident # None => z.incident \in Incidents(w) \cup {minted + 1}
    BY <1>5, <1>6
  <2>2. \A i \in DOMAIN m : i \in Incidents(w) \cup {minted + 1}
    BY <1>9, <2>1 DEF Incidents
  <2>3. \A y \in Members(subjects'[w]) :
          y.incident # None => y.incident \in Incidents(w) \cup {minted + 1}
    BY <1>6, <1>7, <2>1
  <2> QED BY <1>2, <2>2, <2>3 DEF Incidents
<1>13. ASSUME NEW v \in Workers, v # w PROVE Linked(v)' /\ Incidents(v)' = Incidents(v)
  <2>1. /\ UNCHANGED <<subjects[v], outcome[v]>>
        /\ \A i \in Incidents(v) : \A S : Within(incidents, i, S) => Within(incidents', i, S)
    BY <1>2, <1>13
  <2> QED BY <2>1, OtherLinks DEF LinkInv
<1>14. Apart'
  BY <1>3, <1>12, <1>13 DEF LinkInv, Apart
<1>15. Linked(w)'
  <2>1. ASSUME NEW b \in outcome'[w].alerts, b.incident # None
        PROVE  Names(m, b.incident, b.id)
    <3>1. CASE b = a
      BY <1>1, <1>9, <2>1, <3>1 DEF Names
    <3>2. CASE b \in outcome[w].alerts
      BY <1>6, <1>10, <2>1, <3>2 DEF Linked
    <3> QED BY <1>2, <3>1, <3>2
  <2>2. ASSUME NEW y \in Members(subjects'[w]), y.incident # None
        PROVE  /\ Within(incidents, y.incident, Members(y.alerts))
               /\ Within(m, y.incident, Members(y.alerts))
    <3>1. CASE y = z
      BY <1>8, <1>9, <2>2, <3>1
    <3>2. CASE y # z
      <4>1. y \in Members(subjects[w]) /\ (z.incident # None => y.incident # z.incident)
        BY <1>7, <3>2
      <4>2. /\ Within(incidents, y.incident, Members(y.alerts))
            /\ Within(old, y.incident, Members(y.alerts))
        BY <1>6, <2>2, <4>1 DEF Linked
      <4> HIDE DEF old
      <4> QED BY <1>9, <2>2, <4>1, <4>2 DEF Within
    <3> QED BY <3>1, <3>2
  <2>3. ASSUME NEW i \in DOMAIN m PROVE Within(incidents, i, Members(m[i].alerts))
    <3>1. CASE m = old
      BY <1>6, <2>3, <3>1 DEF Linked
    <3>2. CASE a.incident # None /\ i = z.incident
      BY <1>8, <1>9, <3>2
    <3>3. CASE a.incident # None /\ i # z.incident
      BY <1>6, <1>9, <2>3, <3>3 DEF Linked
    <3> QED BY <1>9, <3>1, <3>2, <3>3
  <2> QED BY <1>2, <1>7, <2>1, <2>2, <2>3 DEF Linked, Names, Within
<1> QED BY <1>11, <1>13, <1>14, <1>15 DEF LinkInv

\* insert_alerts keeps the links: a new row is a copy of an alert that is listed.
LEMMA StoreAlertsLinks ==
  ASSUME IInv, LinkInv, NEW w \in Workers, StoreAlerts(w)
  PROVE  LinkInv'
<1>1. UNCHANGED <<subjects, outcome, incidents>>
  BY DEF StoreAlerts, memory
<1>2. ASSUME NEW id \in Stored', id \notin Stored
      PROVE  \E a \in outcome[w].alerts : a.id = id /\ rows'[id].incident = a.incident
  <2>1. /\ id \in AlertIds /\ rows[id] = None /\ rows'[id] # None
    BY <1>2 DEF Stored
  <2>2. id \in {a.id : a \in {a \in outcome[w].alerts : rows[a.id] = None}}
        /\ rows'[id] = Row(AlertOf(w, id))
    BY <2>1 DEF StoreAlerts
  <2>3. AlertOf(w, id) \in outcome[w].alerts /\ AlertOf(w, id).id = id
    BY <2>2 DEF AlertOf
  <2> QED BY <2>2, <2>3 DEF Row
<1>3. RowsLinked'
  <2> SUFFICES ASSUME NEW id \in Stored', rows'[id].incident # None
               PROVE  \/ Names(incidents, rows'[id].incident, id)
                      \/ \E v \in Workers :
                           Names(outcome[v].incidents, rows'[id].incident, id)
    BY <1>1 DEF RowsLinked, Names
  <2>1. CASE id \in Stored
    BY <2>1, StoreAlertsKept DEF LinkInv, RowsLinked
  <2>2. CASE id \notin Stored
    BY <1>2, <2>2 DEF LinkInv, Linked
  <2> QED BY <2>1, <2>2
<1>4. \A v \in Workers : Linked(v)' /\ Incidents(v)' = Incidents(v)
  BY <1>1 DEF LinkInv, Linked, OwnIncident, Names, Within, Incidents
<1> QED BY <1>3, <1>4 DEF LinkInv, Apart

\* upsert_incidents keeps the links: what it writes lists all that was listed.
LEMMA StoreIncidentsLinks ==
  ASSUME IInv, LinkInv, NEW w \in Workers, StoreIncidents(w)
  PROVE  LinkInv'
<1> DEFINE new == outcome[w].incidents
<1>1. /\ UNCHANGED <<rows, subjects>>
      /\ outcome' = [outcome EXCEPT ![w] = NoOutcome]
      /\ incidents' = [i \in DOMAIN incidents \cup DOMAIN new |->
                         IF i \in DOMAIN new THEN new[i] ELSE incidents[i]]
  BY DEF StoreIncidents, memory
<1>2. /\ outcome'[w].alerts = {} /\ DOMAIN outcome'[w].incidents = {}
      /\ \A v \in Workers \ {w} : outcome'[v] = outcome[v]
  BY <1>1 DEF IInv, TypeOK, NoOutcome
<1>3. Linked(w)
  BY DEF LinkInv
<1>4. \A i, id : Names(incidents, i, id) \/ Names(new, i, id) => Names(incidents', i, id)
  <2>1. \A i \in DOMAIN new : Within(incidents, i, Members(new[i].alerts))
    BY <1>3 DEF Linked
  <2> HIDE DEF new
  <2> QED BY <1>1, <2>1 DEF Names, Within
<1>5. RowsLinked'
  <2> SUFFICES ASSUME NEW id \in Stored', rows'[id].incident # None
               PROVE  \/ Names(incidents', rows'[id].incident, id)
                      \/ \E v \in Workers :
                           Names(outcome'[v].incidents, rows'[id].incident, id)
    BY DEF RowsLinked, Names
  <2>1. rows' = rows /\ id \in Stored
    BY <1>1 DEF Stored
  <2>2. \/ Names(incidents, rows[id].incident, id)
        \/ \E v \in Workers : Names(outcome[v].incidents, rows[id].incident, id)
    BY <2>1 DEF LinkInv, RowsLinked
  <2> QED BY <1>2, <1>4, <2>1, <2>2
<1>6. ASSUME NEW v \in Workers, v # w PROVE Linked(v)' /\ Incidents(v)' = Incidents(v)
  <2>1. Incidents(v) \cap Incidents(w) = {} /\ DOMAIN new \subseteq Incidents(w)
    BY <1>6 DEF LinkInv, Apart, Incidents
  <2>2. \A i \in Incidents(v) : \A S : Within(incidents, i, S) => Within(incidents', i, S)
    <3> HIDE DEF new
    <3> QED BY <1>1, <2>1 DEF Within
  <2>3. UNCHANGED <<subjects[v], outcome[v]>>
    BY <1>1, <1>2, <1>6
  <2> QED BY <2>2, <2>3, OtherLinks DEF LinkInv
<1>7. Linked(w)'
  <2>1. OwnIncident(w)'
    BY <1>1, <1>3 DEF Linked, OwnIncident
  <2>2. ASSUME NEW x \in Members(subjects[w]), x.incident # None
        PROVE  Within(incidents', x.incident, Members(x.alerts))
    <3>1. /\ Within(incidents, x.incident, Members(x.alerts))
          /\ Within(new, x.incident, Members(x.alerts))
      BY <1>3, <2>2 DEF Linked
    <3> HIDE DEF new
    <3> QED BY <1>1, <3>1 DEF Within
  <2> QED BY <1>1, <1>2, <2>1, <2>2 DEF Linked, Names, Within
<1>8. Incidents(w)' \subseteq Incidents(w)
  BY <1>1, <1>2 DEF Incidents
<1>9. Apart'
  BY <1>6, <1>8 DEF LinkInv, Apart
<1> QED BY <1>5, <1>6, <1>7, <1>9 DEF LinkInv

\* Every step but a crash keeps the links, as long as no list is cut.
LEMMA LinkStep ==
  ASSUME IInv, LinkInv, crashes' = 0, Uncut', [Next]_vars
  PROVE  LinkInv'
<1>1. ASSUME NEW w \in Workers, NEW t, NEW E, Round(w, t, E),
             UNCHANGED <<outcome, rows, incidents>>
      PROVE  LinkInv'
  <2>1. UNCHANGED <<outcome, rows, incidents>>
    BY <1>1
  <2>2. /\ subjects'[w] = SeenSince(subjects[w], t - IdleLimit)
        /\ \A v \in Workers \ {w} : subjects'[v] = subjects[v]
        /\ subjects[w] \in Seq(SubjectEntry)
    BY <1>1 DEF Round, IInv, TypeOK
  <2>3. Members(subjects'[w]) \subseteq Members(subjects[w])
    BY <2>2, SeenSinceMembers
  <2>4. \A id \in Stored' : id \in Stored /\ rows'[id].incident = rows[id].incident
    BY <2>1 DEF Stored
  <2> QED BY <2>1, <2>2, <2>3, <2>4, QuietLinks
<1>2. ASSUME NEW w \in Workers, NEW s \in Signals, Weak(w, s) \/ Suppress(w, s)
      PROVE  LinkInv'
  <2>1. /\ at[w] \in Times /\ UNCHANGED <<rows, incidents>>
        /\ subjects' = [subjects EXCEPT ![w] = Touched(@, Noted(w, s))]
    BY <1>2 DEF Weak, Suppress, FuseNext, IInv, Kept, InOrder, tables
  <2>2. \A v \in Workers : /\ outcome'[v].alerts = outcome[v].alerts
                           /\ outcome'[v].incidents = outcome[v].incidents
    <3>1. CASE Weak(w, s)
      BY <3>1 DEF Weak
    <3>2. CASE Suppress(w, s)
      <4>1. PICK touch : outcome' = [outcome EXCEPT ![w].touches = @ \cup {touch}]
        BY <3>2 DEF Suppress
      <4> QED BY <4>1 DEF IInv, TypeOK
    <3> QED BY <1>2, <3>1, <3>2
  <2> QED BY <2>1, <2>2, NoteLinks
<1>3. ASSUME NEW w \in Workers, NEW s \in Signals, Raise(w, s) PROVE LinkInv'
  BY <1>3, RaiseKeepsLinks
<1>4. ASSUME NEW w \in Workers, StoreAlerts(w) PROVE LinkInv'
  BY <1>4, StoreAlertsLinks
<1>5. ASSUME UNCHANGED <<subjects, outcome, rows, incidents>> PROVE LinkInv'
  <2>1. \A id \in Stored' : id \in Stored /\ rows'[id].incident = rows[id].incident
    BY <1>5 DEF Stored
  <2> QED BY <1>5, <2>1, QuietLinks
<1>6. ASSUME NEW w \in Workers, PublishAlerts(w) \/ Acknowledge(w) PROVE LinkInv'
  BY <1>5, <1>6 DEF PublishAlerts, Acknowledge, memory, tables
<1>7. ASSUME NEW w \in Workers, TouchAlert(w) PROVE LinkInv'
  <2>1. PICK t \in Touch :
          /\ t.id \in Stored
          /\ rows' = [rows EXCEPT ![t.id] = [@ EXCEPT !.last = t.last, !.count = t.count]]
    BY <1>7, TouchAlertKept
  <2>2. \A id \in Stored' : id \in Stored /\ rows'[id].incident = rows[id].incident
    BY <2>1 DEF IInv, TypeOK, Stored, AlertRow
  <2>3. UNCHANGED <<subjects, incidents>>
    BY <1>7 DEF TouchAlert, memory
  <2>4. \A v \in Workers : /\ outcome'[v].alerts = outcome[v].alerts
                           /\ outcome'[v].incidents = outcome[v].incidents
    <3>1. PICK u : outcome' = [outcome EXCEPT ![w].touches = @ \ {u}]
      BY <1>7 DEF TouchAlert
    <3> QED BY <3>1 DEF IInv, TypeOK
  <2> QED BY <2>2, <2>3, <2>4, QuietLinks
<1>8. ASSUME NEW w \in Workers, StoreIncidents(w) PROVE LinkInv'
  BY <1>8, StoreIncidentsLinks
<1>9. ASSUME NEW w \in Workers, Crash(w) PROVE FALSE
  BY <1>9 DEF Crash, IInv, TypeOK
<1>10. ASSUME NEW id \in AlertIds, SetStatus(id) PROVE LinkInv'
  <2>1. /\ rows[id] # None /\ rows' = [rows EXCEPT ![id].status = "VERDICT"]
        /\ UNCHANGED <<subjects, outcome, incidents>>
    BY <1>10 DEF SetStatus, memory
  <2>2. \A i \in Stored' : i \in Stored /\ rows'[i].incident = rows[i].incident
    BY <2>1 DEF IInv, TypeOK, Stored, AlertRow
  <2> QED BY <2>1, <2>2, QuietLinks
<1>11. ASSUME UNCHANGED vars PROVE LinkInv'
  BY <1>5, <1>11 DEF vars, memory, tables
<1>12. ASSUME NEW w \in Workers, NEW t \in Times, NEW q \in Contacts, Begin(w, t, q)
       PROVE  LinkInv'
  BY <1>1, <1>12 DEF Begin, tables
<1>13. ASSUME NEW w \in Workers, FlushNext(w) PROVE LinkInv'
  BY <1>1, <1>13 DEF FlushNext, tables
<1>14. ASSUME NEW w \in Workers, FlushOpenWindows(w) PROVE LinkInv'
  BY <1>5, <1>14 DEF FlushOpenWindows, memory, tables
<1> QED BY <1>2, <1>3, <1>4, <1>6, <1>7, <1>8, <1>9, <1>10, <1>11, <1>12, <1>13, <1>14
        DEF Next

\* At the start there is nothing to link.
LEMMA InitLinks == Init => LinkInv
<1> SUFFICES ASSUME Init PROVE LinkInv
  OBVIOUS
<1>1. Members(<<>>) = {}
  BY DEF Members
<1>2. RowsLinked
  BY DEF Init, RowsLinked, Stored
<1>3. \A w \in Workers : Incidents(w) = {} /\ Linked(w)
  BY <1>1 DEF Init, NoOutcome, Incidents, Linked, OwnIncident
<1> QED BY <1>2, <1>3 DEF LinkInv, Apart

\* With any number of workers, late events and evictions, as long as no worker dies
\* between two transactions and no incident has more alerts than it lists: once the
\* workers are through with their events, an alert that names an incident is listed
\* by that incident.
THEOREM IncidentsLinkBack ==
  Spec /\ [](crashes = 0 /\ Uncut) => []IncidentLinksBack
<1>1. ASSUME IInv, LinkInv PROVE IncidentLinksBack
  <2> SUFFICES ASSUME \A w \in Workers : phase[w] = "idle",
                      NEW id \in Stored, rows[id].incident # None
               PROVE  Names(incidents, rows[id].incident, id)
    BY DEF IncidentLinksBack, Names, Members
  <2>1. \A w \in Workers : DOMAIN outcome[w].incidents = {}
    BY <1>1 DEF IInv, Kept, InOrder, NoOutcome
  <2> QED BY <1>1, <2>1 DEF LinkInv, RowsLinked, Names
<1>2. IInv /\ LinkInv /\ (crashes = 0 /\ Uncut)' /\ [Next]_vars => LinkInv'
  BY LinkStep
<1> QED BY <1>1, <1>2, InitLinks, Invariant, PTL DEF Spec
-----------------------------------------------------------------------------
(* Bursts of one worker.                                                    *)

\* No dedup map is full, so that none forgets an entry before expire does.
Roomy == \A w \in Workers : Len(dedup[w]) < Capacity

\* No two entries of a map have one key.
OneEach(m) == \A e, f \in Members(m) : e.key = f.key => e = f

\* The time of the last event: a flush goes back to earlier ones.
Now(w) == IF flushing[w] = <<>> /\ pending[w] THEN at[w] ELSE acked[w]

\* A round is not later than what the engine last saw of its entities, and that is
\* not later than the last event; the signals of a round are about its entities.
Clocked(w) ==
  /\ OneEach(states[w]) /\ Members(flushing[w]) \subseteq Members(states[w])
  /\ phase[w] # "idle" \/ flushing[w] # <<>> => pending[w]
  /\ at[w] <= Now(w)
  /\ \A x \in Members(states[w]) :
       x.last <= Now(w) /\ (phase[w] # "idle" /\ x.key \in vectors[w] => at[w] <= x.last)
  /\ \A f \in fired[w] : phase[w] # "idle" /\ f.entity \in vectors[w]

\* The alerts raised so far, each with its time.
Raised(w) ==
  {<<id, rows[id].first>> : id \in Stored}
    \cup {<<a.id, a.time>> : a \in outcome[w].alerts}

\* What entries, alerts and rows say of when an entity was seen.
Sightings(w) ==
  {<<e.key[3], e.last>> : e \in Members(dedup[w])}
    \cup {<<p[1][1][3], p[2]>> : p \in Raised(w)}
    \cup {<<id[1][3], rows[id].last>> : id \in Stored}

\* No sighting is later than the last event, than what the engine last saw of its
\* entity, and than a round that is about the entity.
Timely(w) ==
  \A v \in Sightings(w) :
    /\ v[2] <= Now(w)
    /\ \A x \in Members(states[w]) : x.key = v[1] => v[2] <= x.last
    /\ phase[w] # "idle" /\ v[1] \in vectors[w] => v[2] <= at[w]

\* An entry is of an alert of its key, and while a round goes on none is older than
\* the dedup window: expire has just run.
Recent(w) ==
  \A e \in Members(dedup[w]) :
    e.id[1] = e.key /\ (phase[w] = "fuse" => at[w] - e.last <= DedupWindow)

\* An alert of the last dedup window is remembered by the entry of its key, which
\* has been seen since.
Remembered(w) ==
  \A p \in Raised(w) :
    /\ p[1] \in AlertIds /\ p[2] \in Times /\ p[1][2] = p[2] \div DedupWindow
    /\ \/ \E e \in Members(dedup[w]) : e.key = p[1][1] /\ p[2] <= e.last
       \/ Now(w) - p[2] > DedupWindow

Spaced(w) ==
  OneEach(dedup[w]) /\ Clocked(w) /\ Timely(w) /\ Recent(w) /\ Remembered(w)

\* Unless it makes the map full, touch forgets no other entry.
LEMMA TouchedExactly ==
  ASSUME NEW V, NEW m \in Seq(V), NEW e \in V, Len(Touched(m, e)) < Capacity
  PROVE  Members(Touched(m, e)) = {x \in Members(m) : x.key # e.key} \cup {e}
<1> DEFINE S == {x \in Members(m) : x.key # e.key}
           r == Without(m, e.key)
           q == Append(r, e)
<1>1. Members(r) = S
  BY OnlyExactly DEF Without
<1>2. r \in Seq(V)
  <2>1. Only(m, S) \in Seq(V \cap S)
    BY OnlyMembers
  <2> QED BY <2>1 DEF Without
<1>3. Touched(m, e) = Newest(q)
  BY DEF Touched
<1> HIDE DEF r, S
<1>4. /\ q \in Seq(V) /\ q # <<>> /\ Len(q) = Len(r) + 1 /\ Len(r) \in Nat
      /\ q[Len(r) + 1] = e /\ \A i \in 1..Len(r) : q[i] = r[i]
  BY <1>2
<1> HIDE DEF q
<1>5. Newest(q) = q
  <2>1. Len(Tail(q)) = Len(q) - 1 /\ Len(q) \in Nat /\ Capacity \in Nat
    BY <1>4, WindowsAssumption
  <2>2. ~(Len(q) > Capacity)
    BY <1>3, <2>1 DEF Newest
  <2> QED BY <2>2 DEF Newest
<1>6. /\ \A i \in 1..Len(q) : i \in 1..Len(r) \/ i = Len(r) + 1
      /\ \A i \in 1..Len(r) : i \in 1..Len(q)
      /\ Len(r) + 1 \in 1..Len(q)
  BY <1>4
<1>7. Members(q) = Members(r) \cup {e}
  BY <1>4, <1>6 DEF Members
<1> QED BY <1>1, <1>3, <1>5, <1>7 DEF S

\* An entry that is there is replaced, and the others stay.
LEMMA UpdatedExactly ==
  ASSUME NEW V, NEW m \in Seq(V), NEW e \in V, Has(m, e.key)
  PROVE  Members(Updated(m, e)) = {x \in Members(m) : x.key # e.key} \cup {e}
<1> DEFINE q == Updated(m, e)
<1>1. /\ q = [i \in 1..Len(m) |-> IF m[i].key = e.key THEN e ELSE m[i]]
      /\ Len(q) = Len(m) /\ Len(m) \in Nat
  BY DEF Updated
<1> HIDE DEF q
<1>2. \A i \in 1..Len(m) : q[i] = IF m[i].key = e.key THEN e ELSE m[i]
  BY <1>1
<1>3. \E i \in 1..Len(m) : m[i].key = e.key
  BY DEF Has, Members
<1> QED BY <1>1, <1>2, <1>3 DEF Members, q

\* expire keeps what has been seen since t.
LEMMA SeenSinceExactly ==
  ASSUME NEW V, NEW m \in Seq(V), NEW t
  PROVE  Members(SeenSince(m, t)) = {e \in Members(m) : e.last >= t}
BY OnlyExactly DEF SeenSince

\* Two times of one bucket are less than a window apart.
LEMMA SameBucket ==
  ASSUME NEW a \in Nat, NEW b \in Nat, a \div DedupWindow = b \div DedupWindow
  PROVE  a - b < DedupWindow
<1>1. DedupWindow \in Nat \ {0}
  BY WindowsAssumption
<1>2. /\ a \div DedupWindow \in Int
      /\ a = DedupWindow * (a \div DedupWindow) + (a % DedupWindow)
      /\ b = DedupWindow * (b \div DedupWindow) + (b % DedupWindow)
  BY <1>1
<1>3. a % DedupWindow \in 0..(DedupWindow - 1) /\ b % DedupWindow \in 0..(DedupWindow - 1)
  BY <1>1
<1> QED BY <1>1, <1>2, <1>3

\* Times are numbers.
LEMMA SightingType ==
  ASSUME TypeOK, NEW w \in Workers
  PROVE  /\ \A v \in Sightings(w) : v[2] \in Nat
         /\ \A e \in Members(dedup[w]) : e.last \in Nat /\ e.id \in AlertIds
         /\ at[w] \in Nat /\ acked[w] \in Nat /\ Now(w) \in Nat
         /\ \A x \in Members(states[w]) : x \in Span /\ x.last \in Nat
<1>1. \A t \in Times : t \in Nat
  BY WindowsAssumption DEF Times
<1>2. \A e \in Members(dedup[w]) : e.last \in Nat /\ e.id \in AlertIds
  <2>1. dedup[w] \in Seq(Entry)
    BY DEF TypeOK
  <2>2. \A e \in Members(dedup[w]) : e \in Entry
    BY <2>1, SeqOfMembers
  <2> QED BY <1>1, <2>2 DEF Entry
<1>3. \A id \in Stored : rows[id].first \in Nat /\ rows[id].last \in Nat
  <2>1. \A id \in Stored : rows[id] \in AlertRow
    BY DEF Stored, TypeOK
  <2> QED BY <1>1, <2>1 DEF AlertRow
<1>4. \A a \in outcome[w].alerts : a.time \in Nat
  <2>1. outcome[w].alerts \subseteq NewAlert
    BY DEF TypeOK
  <2> QED BY <1>1, <2>1 DEF NewAlert
<1>5. at[w] \in Nat /\ acked[w] \in Nat /\ Now(w) \in Nat
  BY WindowsAssumption DEF TypeOK, Now
<1>6. \A x \in Members(states[w]) : x \in Span /\ x.last \in Nat
  <2>1. states[w] \in Seq(Span)
    BY DEF TypeOK
  <2>2. \A x \in Members(states[w]) : x \in Span
    BY <2>1, SeqOfMembers
  <2> QED BY <1>1, <2>2 DEF Span
<1>7. \A v \in Sightings(w) : v[2] \in Nat
  BY <1>2, <1>3, <1>4 DEF Sightings, Raised
<1> QED BY <1>2, <1>5, <1>6, <1>7

\* A step inside a round, or between rounds, leaves the clocks as they are.
Still(w) == UNCHANGED <<at[w], acked[w], states[w], pending[w], flushing[w], vectors[w]>>

\* A step that leaves the clocks as they are, and sights nothing but entities of the
\* round, at its time, keeps the sightings timely.
LEMMA StillTimely ==
  ASSUME NEW w \in Workers, Clocked(w), Timely(w), Still(w),
         phase'[w] # "idle" => phase[w] # "idle",
         \A f \in fired'[w] : phase'[w] # "idle" /\ f.entity \in vectors[w],
         \A v \in Sightings(w)' :
           v \in Sightings(w) \/ (phase[w] # "idle" /\ v[1] \in vectors[w] /\ v[2] = at[w]),
         at[w] \in Nat
  PROVE  Clocked(w)' /\ Timely(w)' /\ Now(w)' = Now(w)
<1>1. Now(w)' = Now(w)
  BY DEF Still, Now
<1>2. Clocked(w)'
  BY <1>1 DEF Clocked, Still, OneEach
<1>3. Timely(w)'
  <2> SUFFICES ASSUME NEW v \in Sightings(w)'
               PROVE  /\ v[2] <= Now(w)
                      /\ \A x \in Members(states[w]) : x.key = v[1] => v[2] <= x.last
                      /\ phase[w] # "idle" /\ v[1] \in vectors[w] => v[2] <= at[w]
    BY <1>1 DEF Timely, Still
  <2>1. CASE v \in Sightings(w)
    BY <2>1 DEF Timely
  <2>2. CASE phase[w] # "idle" /\ v[1] \in vectors[w] /\ v[2] = at[w]
    BY <2>2 DEF Clocked
  <2> QED BY <2>1, <2>2
<1> QED BY <1>1, <1>2, <1>3

\* A step that remembers and raises nothing new keeps the alerts apart.
LEMMA QuietSpaced ==
  ASSUME NEW w \in Workers, Spaced(w), Still(w), dedup'[w] = dedup[w], at[w] \in Nat,
         phase'[w] = "fuse" => phase[w] = "fuse",
         phase'[w] # "idle" => phase[w] # "idle",
         \A f \in fired'[w] : phase'[w] # "idle" /\ f.entity \in vectors[w],
         Raised(w)' \subseteq Raised(w),
         \A v \in Sightings(w)' :
           v \in Sightings(w) \/ (phase[w] # "idle" /\ v[1] \in vectors[w] /\ v[2] = at[w])
  PROVE  Spaced(w)'
<1>1. Clocked(w)' /\ Timely(w)' /\ Now(w)' = Now(w)
  BY StillTimely DEF Spaced
<1>2. OneEach(dedup[w])' /\ Recent(w)'
  BY DEF Spaced, OneEach, Recent, Still
<1>3. Remembered(w)'
  BY <1>1 DEF Spaced, Remembered
<1> QED BY <1>1, <1>2, <1>3 DEF Spaced

\* What expire does at the start of a round keeps them: the round is not later than the
\* last event, so that what expire forgets is older than the dedup window.
LEMMA RoundSpaced ==
  ASSUME IInv, NEW w \in Workers, Spaced(w), NEW t \in Times, NEW E, Round(w, t, E),
         UNCHANGED <<rows, outcome>>, Now(w) <= Now(w)', Now(w)' \in Nat, t <= Now(w)'
  PROVE  /\ OneEach(dedup[w])' /\ Recent(w)' /\ Remembered(w)'
         /\ Sightings(w)' \subseteq Sightings(w)
<1>1. /\ at'[w] = t /\ phase'[w] = "fuse"
      /\ dedup'[w] = SeenSince(dedup[w], t - DedupWindow)
      /\ dedup[w] \in Seq(Entry) /\ t \in Nat /\ DedupWindow \in Nat
  BY WindowsAssumption DEF Round, IInv, TypeOK, Times
<1>2. Members(dedup'[w]) = {e \in Members(dedup[w]) : e.last >= t - DedupWindow}
  BY <1>1, SeenSinceExactly
<1>3. /\ \A e \in Members(dedup[w]) : e.last \in Nat
      /\ Now(w) \in Nat
  BY SightingType DEF IInv
<1>4. OneEach(dedup[w])'
  BY <1>2 DEF Spaced, OneEach
<1>5. Recent(w)'
  BY <1>1, <1>2, <1>3 DEF Spaced, Recent
<1>6. Raised(w)' = Raised(w)
  BY DEF Raised, Stored
<1>7. Sightings(w)' \subseteq Sightings(w)
  BY <1>2, <1>6 DEF Sightings, Stored
<1>8. ASSUME NEW p \in Raised(w)
      PROVE  /\ p[1] \in AlertIds /\ p[2] \in Times /\ p[1][2] = p[2] \div DedupWindow
             /\ \/ \E e \in Members(dedup'[w]) : e.key = p[1][1] /\ p[2] <= e.last
                \/ Now(w)' - p[2] > DedupWindow
  <2>1. /\ p[1] \in AlertIds /\ p[2] \in Times /\ p[1][2] = p[2] \div DedupWindow
        /\ \/ \E e \in Members(dedup[w]) : e.key = p[1][1] /\ p[2] <= e.last
           \/ Now(w) - p[2] > DedupWindow
    BY DEF Spaced, Remembered
  <2>2. p[2] \in Nat
    BY <2>1, WindowsAssumption DEF Times
  <2>3. CASE Now(w) - p[2] > DedupWindow
    BY <1>1, <1>3, <2>1, <2>2, <2>3
  <2>4. ASSUME NEW e \in Members(dedup[w]), e.key = p[1][1], p[2] <= e.last
        PROVE  \/ \E f \in Members(dedup'[w]) : f.key = p[1][1] /\ p[2] <= f.last
               \/ Now(w)' - p[2] > DedupWindow
    <3>1. CASE e.last >= t - DedupWindow
      BY <1>2, <2>4, <3>1
    <3>2. CASE ~(e.last >= t - DedupWindow)
      BY <1>1, <1>3, <2>2, <2>4, <3>2
    <3> QED BY <3>1, <3>2
  <2> QED BY <2>1, <2>3, <2>4
<1>9. Remembered(w)'
  BY <1>6, <1>8 DEF Remembered
<1> QED BY <1>4, <1>5, <1>7, <1>9

\* An event that comes in its turn keeps them.
LEMMA BeginSpaced ==
  ASSUME IInv, NEW w \in Workers, Spaced(w), NEW t \in Times, NEW q \in Contacts,
         Begin(w, t, q), ~Late
  PROVE  Spaced(w)'
<1>1. /\ t >= at[w] /\ t >= acked[w] /\ at'[w] = t /\ vectors'[w] = Members(q)
      /\ flushing[w] = <<>> /\ flushing'[w] = <<>> /\ pending'[w] = TRUE
      /\ UNCHANGED <<rows, outcome>> /\ phase'[w] = "fuse"
      /\ states'[w] = Observed(states[w], q, t)
      /\ t \in Nat /\ Round(w, t, Members(q))
  <2>1. Round(w, t, Members(q)) /\ t \in Nat /\ UNCHANGED <<rows, outcome>>
    BY WindowsAssumption DEF Begin, tables, Times
  <2>2. /\ t >= at[w] /\ t >= acked[w] /\ flushing[w] = <<>> /\ flushing'[w] = <<>>
        /\ pending'[w] = TRUE /\ states'[w] = Observed(states[w], q, t)
    BY DEF Begin, IInv, TypeOK
  <2>3. at'[w] = t /\ vectors'[w] = Members(q) /\ phase'[w] = "fuse"
    <3> HIDE DEF Members
    <3> QED BY <2>1 DEF Round, IInv, TypeOK
  <2> QED BY <2>1, <2>2, <2>3
<1>2. fired'[w] = {}
  BY DEF Begin, Spaced, Clocked
<1>3. Now(w)' = t /\ Now(w) <= t
  BY <1>1 DEF Now
<1>4. /\ OneEach(dedup[w])' /\ Recent(w)' /\ Remembered(w)'
      /\ Sightings(w)' \subseteq Sightings(w)
  BY <1>1, <1>3, RoundSpaced
<1>5. \A x \in Members(states'[w]) :
        \/ x \in Members(states[w]) /\ x.key \notin Members(q)
        \/ x \in Span /\ x.key \in Members(q) /\ x.last = t
  <2>1. states[w] \in Seq(Span)
    BY DEF IInv, TypeOK
  <2> QED BY <1>1, <2>1, ObservedMembers
<1>6. /\ Now(w) \in Nat /\ \A x \in Members(states[w]) : x.last \in Nat
      /\ \A v \in Sightings(w) : v[2] \in Nat
  BY SightingType DEF IInv
<1>7. OneEach(states[w])'
  <2>1. \A x, y \in Span : x.key = y.key /\ x.last = y.last => x = y
    BY DEF Span
  <2> QED BY <1>5, <2>1 DEF Spaced, Clocked, OneEach
<1>8. Members(<<>>) = {}
  BY DEF Members
<1>9. Clocked(w)'
  <2>1. ASSUME NEW x \in Members(states'[w])
        PROVE  x.last <= t /\ (x.key \in Members(q) => t <= x.last)
    <3>1. CASE x \in Members(states[w]) /\ x.key \notin Members(q)
      <4>1. x.last <= Now(w)
        BY <3>1 DEF Spaced, Clocked
      <4> QED BY <1>1, <1>3, <1>6, <3>1, <4>1
    <3>2. CASE x.last = t
      BY <1>1, <3>2
    <3> QED BY <1>5, <3>1, <3>2
  <2> QED BY <1>1, <1>2, <1>3, <1>7, <1>8, <2>1 DEF Clocked
<1>10. Timely(w)'
  <2> SUFFICES ASSUME NEW v \in Sightings(w)'
               PROVE  /\ v[2] <= t
                      /\ \A x \in Members(states'[w]) : x.key = v[1] => v[2] <= x.last
    BY <1>1, <1>3 DEF Timely
  <2>1. v \in Sightings(w) /\ v[2] <= Now(w) /\ v[2] \in Nat
    BY <1>4, <1>6 DEF Spaced, Timely
  <2>2. v[2] <= t
    BY <1>1, <1>3, <1>6, <2>1
  <2>3. \A x \in Members(states[w]) : x.key = v[1] => v[2] <= x.last
    BY <2>1 DEF Spaced, Timely
  <2> QED BY <1>5, <2>2, <2>3
<1> QED BY <1>4, <1>9, <1>10 DEF Spaced

\* The start of a flush keeps them: its vectors are of what the engine has seen.
LEMMA FlushOpenWindowsSpaced ==
  ASSUME IInv, NEW w \in Workers, Spaced(w), FlushOpenWindows(w)
  PROVE  Spaced(w)'
<1>1. /\ UNCHANGED <<dedup, rows, outcome, phase, at, acked, fired, states, pending, vectors>>
      /\ flushing'[w] = states[w] /\ phase[w] = "idle" /\ pending[w] /\ acked[w] = at[w]
  BY DEF FlushOpenWindows, memory, tables, IInv, TypeOK
<1>2. Now(w)' = Now(w)
  BY <1>1 DEF Now
<1>3. Raised(w)' = Raised(w) /\ Sightings(w)' = Sightings(w)
  BY <1>1 DEF Raised, Sightings, Stored
<1>4. Clocked(w)'
  BY <1>1, <1>2 DEF Spaced, Clocked
<1>5. Timely(w)'
  BY <1>1, <1>2, <1>3 DEF Spaced, Timely
<1>6. OneEach(dedup[w])' /\ Recent(w)' /\ Remembered(w)'
  BY <1>1, <1>2, <1>3 DEF Spaced, Recent, Remembered
<1> QED BY <1>4, <1>5, <1>6 DEF Spaced

\* A vector of a flush keeps them, old as it is.
LEMMA FlushNextSpaced ==
  ASSUME IInv, NEW w \in Workers, Spaced(w), FlushNext(w)
  PROVE  Spaced(w)'
<1> DEFINE x == Head(flushing[w])
<1>1. /\ flushing[w] # <<>> /\ phase[w] = "idle" /\ phase'[w] = "fuse"
      /\ UNCHANGED <<rows, outcome, fired, states, pending, flushing, acked>>
      /\ Round(w, x.last, {x.key}) /\ at'[w] = x.last /\ vectors'[w] = {x.key}
  BY DEF FlushNext, Round, tables, IInv, TypeOK
<1>2. x \in Members(states[w]) /\ x.last \in Times
  BY <1>1, HeadOfFlush DEF IInv, Spaced, Clocked
<1> HIDE DEF x
<1>3. Now(w)' = Now(w) /\ Now(w) \in Nat /\ x.last <= Now(w) /\ pending[w]
  <2>1. Now(w) \in Nat
    BY SightingType DEF IInv
  <2>2. Now(w)' = Now(w)
    BY <1>1 DEF Now
  <2> QED BY <1>1, <1>2, <2>1, <2>2 DEF Spaced, Clocked
<1>4. /\ OneEach(dedup[w])' /\ Recent(w)' /\ Remembered(w)'
      /\ Sightings(w)' \subseteq Sightings(w)
  BY <1>1, <1>2, <1>3, RoundSpaced
<1>5. \A y \in Members(states[w]) : y.key = x.key => y = x
  BY <1>2 DEF Spaced, Clocked, OneEach
<1>6. x.last \in Nat
  BY <1>2, WindowsAssumption DEF Times
<1>7. fired'[w] = {}
  BY <1>1 DEF Spaced, Clocked
<1>8. Clocked(w)'
  BY <1>1, <1>3, <1>5, <1>6, <1>7 DEF Spaced, Clocked
<1>9. Timely(w)'
  BY <1>1, <1>2, <1>3, <1>4 DEF Spaced, Timely
<1> QED BY <1>4, <1>8, <1>9 DEF Spaced

\* The entry of a duplicate, and what becomes of it.
LEMMA Suppressed ==
  ASSUME IInv, NEW w \in Workers, NEW s \in Signals, Suppress(w, s)
  PROVE  \E old \in Members(dedup[w]), new \in Entry :
           /\ old.key = Key(s) /\ old \in Entry
           /\ new.key = old.key /\ new.id = old.id
           /\ new.last = at[w] /\ new.count = old.count + 1
           /\ Members(dedup'[w]) = {e \in Members(dedup[w]) : e.key # Key(s)} \cup {new}
           /\ outcome' = [outcome EXCEPT ![w].touches =
                @ \cup {[id |-> old.id, last |-> at[w], count |-> new.count]}]
<1> DEFINE old == Get(dedup[w], Key(s))
           new == [old EXCEPT !.last = at[w], !.count = @ + 1]
<1>1. dedup \in [Workers -> Seq(Entry)] /\ at[w] \in Times
  BY DEF IInv, Kept, TypeOK, Suppress, FuseNext, InOrder
<1>2. old \in Members(dedup[w]) /\ old.key = Key(s)
  BY GetFinds DEF Suppress, Duplicate
<1>3. old \in Entry
  <2> HIDE DEF old
  <2> QED BY <1>1, <1>2, SeqOfMembers
<1>4. /\ dedup' = [dedup EXCEPT ![w] = Updated(@, new)]
      /\ outcome' = [outcome EXCEPT ![w].touches =
           @ \cup {[id |-> old.id, last |-> at[w], count |-> new.count]}]
  BY DEF Suppress
<1> HIDE DEF old
<1>5. /\ new \in Entry /\ new.id = old.id /\ new.key = old.key /\ new.last = at[w]
      /\ new.count = old.count + 1
  <2>1. old.count \in Nat /\ old.count + 1 \in Nat
    BY <1>3 DEF Entry
  <2>2. new = [old EXCEPT !.last = at[w], !.count = old.count + 1]
    BY <1>3 DEF Entry
  <2> HIDE DEF new
  <2> QED BY <1>1, <1>3, <2>1, <2>2 DEF Entry
<1> HIDE DEF new
<1>6. Has(dedup[w], new.key)
  BY <1>2, <1>5 DEF Has
<1>7. dedup'[w] = Updated(dedup[w], new)
  BY <1>1, <1>4
<1>8. Members(dedup'[w]) = {e \in Members(dedup[w]) : e.key # Key(s)} \cup {new}
  BY <1>1, <1>2, <1>5, <1>6, <1>7, UpdatedExactly
<1> QED BY <1>2, <1>3, <1>4, <1>5, <1>8

\* A duplicate keeps them: it is remembered in the place of its entry, as of the round.
LEMMA SuppressSpaced ==
  ASSUME IInv, NEW w \in Workers, Spaced(w), NEW s \in Signals, Suppress(w, s)
  PROVE  Spaced(w)'
<1>1. PICK old \in Members(dedup[w]), new \in Entry :
           /\ old.key = Key(s) /\ old \in Entry
           /\ new.key = old.key /\ new.id = old.id
           /\ new.last = at[w] /\ new.count = old.count + 1
           /\ Members(dedup'[w]) = {e \in Members(dedup[w]) : e.key # Key(s)} \cup {new}
           /\ outcome' = [outcome EXCEPT ![w].touches =
                @ \cup {[id |-> old.id, last |-> at[w], count |-> new.count]}]
  BY Suppressed
<1>2. /\ UNCHANGED <<rows, at, phase>> /\ Still(w) /\ outcome'[w].alerts = outcome[w].alerts
      /\ at[w] \in Nat /\ DedupWindow \in Nat /\ phase[w] = "fuse"
      /\ s.entity \in vectors[w] /\ fired'[w] = fired[w] \cup {s}
  <2>1. /\ UNCHANGED <<rows, at, phase>> /\ Still(w) /\ phase[w] = "fuse"
        /\ s.entity \in vectors[w]
    BY DEF Suppress, FuseNext, tables, windows, Still
  <2>2. outcome'[w].alerts = outcome[w].alerts
    BY <1>1 DEF IInv, TypeOK
  <2>3. at[w] \in Nat /\ DedupWindow \in Nat /\ fired'[w] = fired[w] \cup {s}
    BY WindowsAssumption DEF IInv, TypeOK, Suppress, FuseNext
  <2> QED BY <2>1, <2>2, <2>3
<1>3. Raised(w)' = Raised(w)
  BY <1>2 DEF Raised, Stored
<1>4. OneEach(dedup[w])'
  BY <1>1 DEF Spaced, OneEach
<1>5. Recent(w)'
  <2>1. at[w] - new.last <= DedupWindow /\ new.id[1] = new.key
    BY <1>1, <1>2 DEF Spaced, Recent
  <2> QED BY <1>1, <1>2, <2>1 DEF Spaced, Recent
<1>6. new.key[3] = s.entity
  BY <1>1 DEF Key
<1>7. Clocked(w)' /\ Timely(w)' /\ Now(w)' = Now(w)
  <2>1. ASSUME NEW v \in Sightings(w)'
        PROVE  v \in Sightings(w) \/ (phase[w] # "idle" /\ v[1] \in vectors[w] /\ v[2] = at[w])
    <3>1. CASE \E e \in Members(dedup'[w]) : v = <<e.key[3], e.last>>
      BY <1>1, <1>2, <1>6, <3>1 DEF Sightings
    <3>2. CASE ~(\E e \in Members(dedup'[w]) : v = <<e.key[3], e.last>>)
      BY <1>2, <1>3, <3>2 DEF Sightings, Stored
    <3> QED BY <3>1, <3>2
  <2>2. \A f \in fired'[w] : phase'[w] # "idle" /\ f.entity \in vectors[w]
    BY <1>2 DEF Spaced, Clocked
  <2> QED BY <1>2, <2>1, <2>2, StillTimely DEF Spaced
<1>8. ASSUME NEW p \in Raised(w), NEW e \in Members(dedup[w]),
             e.key = p[1][1], p[2] <= e.last
      PROVE  \E f \in Members(dedup'[w]) : f.key = p[1][1] /\ p[2] <= f.last
  <2>1. CASE e.key = Key(s)
    <3>1. <<p[1][1][3], p[2]>> \in Sightings(w)
      BY DEF Sightings
    <3>2. p[1][1][3] = s.entity
      BY <1>8, <2>1 DEF Key
    <3>3. p[2] <= at[w]
      BY <1>2, <3>1, <3>2 DEF Spaced, Timely
    <3> QED BY <1>1, <1>8, <2>1, <3>3
  <2>2. CASE e.key # Key(s)
    BY <1>1, <1>8, <2>2
  <2> QED BY <2>1, <2>2
<1>9. Remembered(w)'
  <2> SUFFICES ASSUME NEW p \in Raised(w)
               PROVE  /\ p[1] \in AlertIds /\ p[2] \in Times
                      /\ p[1][2] = p[2] \div DedupWindow
                      /\ \/ \E e \in Members(dedup'[w]) : e.key = p[1][1] /\ p[2] <= e.last
                         \/ Now(w) - p[2] > DedupWindow
    BY <1>3, <1>7 DEF Remembered
  <2> QED BY <1>8 DEF Spaced, Remembered
<1> QED BY <1>4, <1>5, <1>7, <1>9 DEF Spaced

\* A new alert, of a key that no entry remembers, and the entry made for it.
LEMMA RaisedFresh ==
  ASSUME IInv, Roomy', NEW w \in Workers, Recent(w), NEW s \in Signals, Raise(w, s)
  PROVE  \E new \in Entry, a \in NewAlert :
           /\ new.key = Key(s) /\ new.id = AlertId(s, at[w])
           /\ new.last = at[w] /\ new.count = 1
           /\ a.id = new.id /\ a.time = at[w]
           /\ \A e \in Members(dedup[w]) : e.key # Key(s)
           /\ Members(dedup'[w]) = Members(dedup[w]) \cup {new}
           /\ outcome'[w].alerts = outcome[w].alerts \cup {a}
           /\ outcome'[w].touches = outcome[w].touches
<1> DEFINE new == [key |-> Key(s), id |-> AlertId(s, at[w]), last |-> at[w], count |-> 1]
<1>1. /\ dedup \in [Workers -> Seq(Entry)] /\ at[w] \in Times /\ phase[w] = "fuse"
      /\ ~Duplicate(w, s) /\ Remember(w, s)
  BY DEF IInv, Kept, TypeOK, Raise, FuseNext, InOrder
<1>2. ~Has(dedup[w], Key(s))
  <2> SUFFICES ASSUME Has(dedup[w], Key(s)) PROVE FALSE
    OBVIOUS
  <2>1. at[w] - Get(dedup[w], Key(s)).last <= DedupWindow
    BY <1>1, GetFinds DEF Recent
  <2> QED BY <1>1, <2>1 DEF Duplicate
<1>3. \A e \in Members(dedup[w]) : e.key # Key(s)
  BY <1>2 DEF Has
<1>4. new \in Entry
  <2>1. Key(s) \in Keys /\ AlertId(s, at[w]) \in AlertIds
    BY <1>1, AlertIdType DEF Keys
  <2> QED BY <1>1, <2>1 DEF Entry
<1>5. /\ new.key = Key(s) /\ new.id = AlertId(s, at[w]) /\ new.last = at[w]
      /\ new.count = 1
  OBVIOUS
<1>6. dedup' = [dedup EXCEPT ![w] = Touched(@, new)]
  BY <1>1, <1>2 DEF Remember
<1> HIDE DEF new
<1>7. dedup'[w] = Touched(dedup[w], new) /\ Len(dedup'[w]) < Capacity
  BY <1>1, <1>6 DEF Roomy
<1>8. Members(dedup'[w]) = {x \in Members(dedup[w]) : x.key # new.key} \cup {new}
  BY <1>1, <1>4, <1>7, TouchedExactly
<1>9. Members(dedup'[w]) = Members(dedup[w]) \cup {new}
  BY <1>3, <1>5, <1>8
<1>10. \E a \in NewAlert : /\ a.id = AlertId(s, at[w]) /\ a.time = at[w]
                           /\ outcome'[w].alerts = outcome[w].alerts \cup {a}
                           /\ outcome'[w].touches = outcome[w].touches
  <2>1. PICK incident, m, id :
          /\ id = AlertId(s, at[w]) /\ incident \in Nat \cup {None}
          /\ outcome' = [outcome EXCEPT
                ![w].alerts = @ \cup {[id |-> id, time |-> at[w], incident |-> incident]},
                ![w].incidents = m]
    <3> DEFINE id == AlertId(s, at[w])
               n == Noted(w, s)
               x == [n EXCEPT !.alerts = Append(@, id)]
               incident == IF ~Correlated(x) THEN None
                           ELSE IF x.incident = None THEN minted + 1 ELSE x.incident
               m == IF Correlated(x) THEN WithIncident(outcome[w].incidents, incident, x)
                    ELSE outcome[w].incidents
    <3>1. outcome' = [outcome EXCEPT
                ![w].alerts = @ \cup {[id |-> id, time |-> at[w], incident |-> incident]},
                ![w].incidents = m]
      BY DEF Raise, IInv, TypeOK
    <3>2. n \in SubjectEntry
      BY <1>1, NotedFacts DEF IInv
    <3>3. x.incident = n.incident
      <4> HIDE DEF n, id
      <4> QED BY <3>2 DEF SubjectEntry
    <3> HIDE DEF x, n, id
    <3>4. incident \in Nat \cup {None}
      <4>1. n.incident \in 1..minted \cup {None} /\ minted \in Nat
        BY <3>2 DEF SubjectEntry, IInv, TypeOK
      <4> QED BY <3>3, <4>1
    <3> HIDE DEF incident, m
    <3> QED BY <3>1, <3>4 DEF id
  <2> DEFINE a == [id |-> id, time |-> at[w], incident |-> incident]
  <2>2. a.id = id /\ a.time = at[w] /\ a \in NewAlert
    BY <1>1, <2>1, AlertIdType DEF NewAlert
  <2>3. outcome' = [outcome EXCEPT ![w].alerts = @ \cup {a}, ![w].incidents = m]
    BY <2>1
  <2> HIDE DEF a
  <2>4. /\ outcome'[w].alerts = outcome[w].alerts \cup {a}
        /\ outcome'[w].touches = outcome[w].touches
    BY <2>3 DEF IInv, TypeOK
  <2> QED BY <2>1, <2>2, <2>4
<1> QED BY <1>3, <1>4, <1>5, <1>9, <1>10

\* A new alert keeps them, and one that an event raises is more than a window after the
\* last alert of its key.
LEMMA RaiseSpaced ==
  ASSUME IInv, Roomy', NEW w \in Workers, Spaced(w), NEW s \in Signals, Raise(w, s)
  PROVE  /\ Spaced(w)'
         /\ flushing[w] = <<>> =>
              \A a \in outcome'[w].alerts \ outcome[w].alerts, id \in Stored :
                id[1] = a.id[1] => a.time - rows[id].first > DedupWindow
<1>1. PICK new \in Entry, a \in NewAlert :
           /\ new.key = Key(s) /\ new.id = AlertId(s, at[w])
           /\ new.last = at[w] /\ new.count = 1
           /\ a.id = new.id /\ a.time = at[w]
           /\ \A e \in Members(dedup[w]) : e.key # Key(s)
           /\ Members(dedup'[w]) = Members(dedup[w]) \cup {new}
           /\ outcome'[w].alerts = outcome[w].alerts \cup {a}
           /\ outcome'[w].touches = outcome[w].touches
  BY RaisedFresh DEF Spaced
<1> DEFINE new1 == <<a.id, at[w]>>
<1>2. /\ UNCHANGED <<rows, at, phase>> /\ Still(w) /\ at[w] \in Times /\ at[w] \in Nat
      /\ phase[w] = "fuse" /\ s.entity \in vectors[w] /\ fired'[w] = fired[w] \cup {s}
      /\ DedupWindow \in Nat
  <2>1. /\ UNCHANGED <<rows, at, phase>> /\ Still(w) /\ phase[w] = "fuse"
        /\ s.entity \in vectors[w]
    BY DEF Raise, FuseNext, tables, windows, Still
  <2>2. at[w] \in Times /\ fired'[w] = fired[w] \cup {s}
    BY DEF Raise, FuseNext, IInv, TypeOK, Kept, InOrder
  <2> QED BY <2>1, <2>2, WindowsAssumption DEF Times
<1>3. /\ a.id \in AlertIds /\ a.id[1] = Key(s)
      /\ a.id[2] = at[w] \div DedupWindow /\ Key(s)[3] = s.entity
  BY <1>1, <1>2, AlertIdType DEF AlertId, Key
<1>4. Raised(w)' = Raised(w) \cup {new1}
  BY <1>1, <1>2 DEF Raised, Stored
<1>5. OneEach(dedup[w])'
  BY <1>1 DEF Spaced, OneEach
<1>6. Recent(w)'
  <2>1. at[w] - new.last <= DedupWindow /\ new.id[1] = new.key
    BY <1>1, <1>2, <1>3
  <2> QED BY <1>1, <1>2, <2>1 DEF Spaced, Recent
<1>7. Clocked(w)' /\ Timely(w)' /\ Now(w)' = Now(w)
  <2>1. ASSUME NEW v \in Sightings(w)'
        PROVE  v \in Sightings(w) \/ (phase[w] # "idle" /\ v[1] \in vectors[w] /\ v[2] = at[w])
    <3>1. CASE \E e \in Members(dedup'[w]) : v = <<e.key[3], e.last>>
      BY <1>1, <1>2, <1>3, <3>1 DEF Sightings
    <3>2. CASE \E p \in Raised(w)' : v = <<p[1][1][3], p[2]>>
      <4>1. PICK p \in Raised(w)' : v = <<p[1][1][3], p[2]>>
        BY <3>2
      <4>2. CASE p \in Raised(w)
        BY <4>1, <4>2 DEF Sightings
      <4>3. CASE p = new1
        <5>1. p[1] = a.id /\ p[2] = at[w]
          BY <4>3
        <5> QED BY <1>2, <1>3, <4>1, <5>1
      <4> QED BY <1>4, <4>2, <4>3
    <3>3. CASE \E id \in Stored' : v = <<id[1][3], rows'[id].last>>
      BY <1>2, <3>3 DEF Sightings, Stored
    <3> QED BY <3>1, <3>2, <3>3 DEF Sightings
  <2>2. \A f \in fired'[w] : phase'[w] # "idle" /\ f.entity \in vectors[w]
    BY <1>2 DEF Spaced, Clocked
  <2> QED BY <1>2, <2>1, <2>2, StillTimely DEF Spaced
<1>8. Remembered(w)'
  <2> SUFFICES ASSUME NEW p \in Raised(w)'
               PROVE  /\ p[1] \in AlertIds /\ p[2] \in Times
                      /\ p[1][2] = p[2] \div DedupWindow
                      /\ \/ \E e \in Members(dedup'[w]) : e.key = p[1][1] /\ p[2] <= e.last
                         \/ Now(w) - p[2] > DedupWindow
    BY <1>7 DEF Remembered
  <2>1. CASE p \in Raised(w)
    BY <1>1, <2>1 DEF Spaced, Remembered
  <2>2. CASE p = new1
    <3>1. p[1] = a.id /\ p[2] = at[w]
      BY <2>2
    <3> QED BY <1>1, <1>2, <1>3, <3>1
  <2> QED BY <1>4, <2>1, <2>2
<1>9. ASSUME flushing[w] = <<>>, NEW b \in outcome'[w].alerts \ outcome[w].alerts,
             NEW id \in Stored, id[1] = b.id[1]
      PROVE  b.time - rows[id].first > DedupWindow
  <2>1. b = a /\ id[1] = Key(s) /\ b.time = at[w]
    BY <1>1, <1>3, <1>9
  <2>2. Now(w) = at[w]
    BY <1>2, <1>9 DEF Now, Spaced, Clocked
  <2> DEFINE p == <<id, rows[id].first>>
  <2>3. p \in Raised(w) /\ p[1] = id /\ p[2] = rows[id].first
    BY DEF Raised
  <2> HIDE DEF p
  <2>4. Now(w) - p[2] > DedupWindow
    BY <1>1, <2>1, <2>3 DEF Spaced, Remembered
  <2> QED BY <2>1, <2>2, <2>3, <2>4
<1> QED BY <1>5, <1>6, <1>7, <1>8, <1>9 DEF Spaced

\* Storing, publishing and bumping keep them: rows keep the time of their alert, and a
\* bump is as of the round, about a signal of the round.
LEMMA TablesSpaced ==
  ASSUME IInv, NEW w \in Workers, Spaced(w),
         \A u \in outcome[w].touches :
           u.last = at[w] /\ \E f \in fired[w] : Key(f) = u.id[1],
         \/ StoreAlerts(w) \/ PublishAlerts(w) \/ TouchAlert(w)
         \/ \E id \in AlertIds : SetStatus(id)
  PROVE  Spaced(w)'
<1>1. /\ Still(w) /\ dedup'[w] = dedup[w] /\ at[w] \in Nat /\ fired' = fired
      /\ (phase'[w] = "fuse" => phase[w] = "fuse")
      /\ (phase'[w] # "idle" <=> phase[w] # "idle")
  <2>1. at[w] \in Nat
    BY SightingType DEF IInv
  <2>2. /\ UNCHANGED <<at, acked, states, pending, flushing, vectors, dedup, fired>>
        /\ (phase'[w] = "fuse" => phase[w] = "fuse")
        /\ (phase'[w] # "idle" <=> phase[w] # "idle")
    <3>1. CASE StoreAlerts(w)
      BY <3>1 DEF StoreAlerts, memory, windows, IInv, TypeOK
    <3>2. CASE PublishAlerts(w)
      BY <3>2 DEF PublishAlerts, memory, windows, IInv, TypeOK
    <3>3. CASE TouchAlert(w)
      BY <3>3 DEF TouchAlert, memory, windows
    <3>4. CASE \E id \in AlertIds : SetStatus(id)
      BY <3>4 DEF SetStatus, memory, windows
    <3> QED BY <3>1, <3>2, <3>3, <3>4
  <2> QED BY <2>1, <2>2 DEF Still
<1>2. \A f \in fired'[w] : phase'[w] # "idle" /\ f.entity \in vectors[w]
  BY <1>1 DEF Spaced, Clocked
<1>3. CASE StoreAlerts(w)
  <2>1. outcome' = outcome
    BY <1>3 DEF StoreAlerts
  <2>2. ASSUME NEW id \in Stored', id \notin Stored
        PROVE  <<id, rows'[id].first>> \in Raised(w) /\ rows'[id].last = rows'[id].first
    <3>1. id \in AlertIds /\ rows[id] = None /\ rows'[id] # None
      BY <2>2 DEF Stored
    <3>2. /\ id \in {a.id : a \in {a \in outcome[w].alerts : rows[a.id] = None}}
          /\ rows'[id] = Row(AlertOf(w, id))
      BY <1>3, <3>1 DEF StoreAlerts
    <3>3. AlertOf(w, id) \in outcome[w].alerts /\ AlertOf(w, id).id = id
      BY <3>2 DEF AlertOf
    <3>4. rows'[id].first = AlertOf(w, id).time /\ rows'[id].last = AlertOf(w, id).time
      BY <3>2 DEF Row
    <3> QED BY <3>3, <3>4 DEF Raised
  <2>3. ASSUME NEW id \in Stored', id \in Stored
        PROVE  <<id, rows'[id].first>> \in Raised(w) /\ rows'[id] = rows[id]
    <3>1. rows'[id] = rows[id]
      BY <1>3, <2>3, StoreAlertsKept DEF Stored
    <3> QED BY <2>3, <3>1 DEF Raised
  <2>4. Raised(w)' \subseteq Raised(w)
    BY <2>1, <2>2, <2>3 DEF Raised
  <2>5. \A id \in Stored' : <<id[1][3], rows'[id].last>> \in Sightings(w)
    <3> SUFFICES ASSUME NEW id \in Stored'
                 PROVE  <<id[1][3], rows'[id].last>> \in Sightings(w)
      OBVIOUS
    <3>1. CASE id \in Stored
      BY <2>3, <3>1 DEF Sightings
    <3>2. CASE id \notin Stored
      <4> DEFINE p == <<id, rows'[id].first>>
      <4>1. p \in Raised(w) /\ p[1] = id /\ p[2] = rows'[id].last
        BY <2>2, <3>2
      <4> HIDE DEF p
      <4> QED BY <4>1 DEF Sightings
    <3> QED BY <3>1, <3>2
  <2>6. Sightings(w)' \subseteq Sightings(w)
    BY <1>1, <2>4, <2>5 DEF Sightings
  <2> QED BY <1>1, <1>2, <2>4, <2>6, QuietSpaced
<1>4. CASE TouchAlert(w)
  <2>1. PICK t \in outcome[w].touches :
        /\ rows' = [rows EXCEPT ![t.id] =
             IF @ = None THEN None ELSE [@ EXCEPT !.last = t.last, !.count = t.count]]
        /\ outcome' = [outcome EXCEPT ![w].touches = @ \ {t}]
    BY <1>4 DEF TouchAlert
  <2>2. /\ phase[w] # "idle" /\ outcome'[w].alerts = outcome[w].alerts
        /\ outcome[w].touches \subseteq Touch
    <3>1. phase[w] # "idle"
      BY <1>4 DEF TouchAlert
    <3>2. outcome'[w].alerts = outcome[w].alerts /\ outcome[w].touches \subseteq Touch
      BY <2>1 DEF IInv, TypeOK
    <3> QED BY <3>1, <3>2
  <2>3. t.last = at[w] /\ t.id[1][3] \in vectors[w]
    <3>1. PICK f \in fired[w] : Key(f) = t.id[1]
      OBVIOUS
    <3> QED BY <3>1 DEF Key, Spaced, Clocked
  <2>4. \A id \in Stored' :
          /\ id \in Stored /\ rows'[id].first = rows[id].first
          /\ rows'[id].last = rows[id].last \/ (id = t.id /\ rows'[id].last = at[w])
    <3> SUFFICES ASSUME NEW id \in Stored'
                 PROVE  /\ id \in Stored /\ rows'[id].first = rows[id].first
                        /\ \/ rows'[id].last = rows[id].last
                           \/ id = t.id /\ rows'[id].last = at[w]
      OBVIOUS
    <3>1. id \in AlertIds /\ rows'[id] # None /\ t.id \in AlertIds
      BY <2>2 DEF Stored, Touch
    <3>2. CASE id # t.id
      BY <2>1, <3>1, <3>2 DEF Stored, IInv, TypeOK
    <3>3. CASE id = t.id
      <4>1. rows[id] # None
        BY <2>1, <3>1, <3>3 DEF IInv, TypeOK
      <4>2. rows[id] \in AlertRow
        BY <3>1, <4>1 DEF IInv, TypeOK
      <4>3. rows'[id] = [rows[id] EXCEPT !.last = t.last, !.count = t.count]
        BY <2>1, <3>1, <3>3, <4>1 DEF IInv, TypeOK
      <4>4. rows'[id].first = rows[id].first /\ rows'[id].last = t.last
        BY <4>2, <4>3 DEF AlertRow
      <4> QED BY <2>3, <3>1, <3>3, <4>1, <4>4 DEF Stored
    <3> QED BY <3>2, <3>3
  <2>5. Raised(w)' \subseteq Raised(w)
    BY <2>2, <2>4 DEF Raised
  <2>6. ASSUME NEW v \in Sightings(w)'
        PROVE  v \in Sightings(w) \/ (phase[w] # "idle" /\ v[1] \in vectors[w] /\ v[2] = at[w])
    <3>1. CASE \E id \in Stored' : v = <<id[1][3], rows'[id].last>>
      BY <2>2, <2>3, <2>4, <3>1 DEF Sightings
    <3>2. CASE ~(\E id \in Stored' : v = <<id[1][3], rows'[id].last>>)
      BY <1>1, <2>5, <3>2 DEF Sightings
    <3> QED BY <3>1, <3>2
  <2> QED BY <1>1, <1>2, <2>5, <2>6, QuietSpaced
<1>5. CASE PublishAlerts(w)
  <2>1. UNCHANGED <<rows, outcome>>
    BY <1>5 DEF PublishAlerts, tables
  <2>2. Raised(w)' = Raised(w) /\ Sightings(w)' = Sightings(w)
    BY <1>1, <2>1 DEF Raised, Sightings, Stored
  <2> QED BY <1>1, <1>2, <2>2, QuietSpaced
<1>6. CASE \E id \in AlertIds : SetStatus(id)
  <2>1. PICK id \in AlertIds : SetStatus(id)
    BY <1>6
  <2>2. /\ rows[id] # None /\ rows' = [rows EXCEPT ![id].status = "VERDICT"]
        /\ outcome' = outcome
    BY <2>1 DEF SetStatus
  <2>3. \A i \in Stored' : /\ i \in Stored /\ rows'[i].first = rows[i].first
                           /\ rows'[i].last = rows[i].last
    BY <2>2 DEF IInv, TypeOK, Stored, AlertRow
  <2>4. Raised(w)' \subseteq Raised(w)
    BY <2>2, <2>3 DEF Raised
  <2>5. Sightings(w)' \subseteq Sightings(w)
    BY <1>1, <2>3, <2>4 DEF Sightings
  <2> QED BY <1>1, <1>2, <2>4, <2>5, QuietSpaced
<1> QED BY <1>3, <1>4, <1>5, <1>6

\* The end of a round keeps them, and so does the end of a batch: the last event stays
\* the last one.
LEMMA DoneSpaced ==
  ASSUME IInv, NEW w \in Workers, Spaced(w), StoreIncidents(w) \/ Acknowledge(w)
  PROVE  Spaced(w)'
<1>1. /\ UNCHANGED <<dedup, at, rows, states>> /\ phase'[w] = "idle"
      /\ outcome'[w].alerts \subseteq outcome[w].alerts
  <2>1. CASE StoreIncidents(w)
    BY <2>1 DEF StoreIncidents, memory, NoOutcome, IInv, TypeOK
  <2>2. CASE Acknowledge(w)
    BY <2>2 DEF Acknowledge, memory, windows, tables
  <2> QED BY <2>1, <2>2
<1>2. /\ Now(w)' = Now(w) /\ fired'[w] = {}
      /\ Members(flushing'[w]) \subseteq Members(flushing[w])
      /\ flushing'[w] # <<>> => pending'[w]
  <2>1. CASE Acknowledge(w)
    <3>1. /\ flushing'[w] = <<>> /\ flushing[w] = <<>> /\ pending[w] /\ pending'[w]
          /\ phase[w] = "idle" /\ fired' = fired /\ at' = at
      BY <2>1 DEF Acknowledge, windows
    <3> QED BY <3>1 DEF Now, Spaced, Clocked
  <2>2. CASE StoreIncidents(w)
    <3>1. /\ fired'[w] = {} /\ acked' = acked /\ at' = at /\ phase[w] # "idle"
          /\ flushing'[w] = IF flushing[w] = <<>> THEN flushing[w] ELSE Tail(flushing[w])
          /\ pending'[w] = (pending[w] /\ Len(flushing[w]) # 1)
      BY <2>2 DEF StoreIncidents, IInv, TypeOK
    <3>2. pending[w]
      BY <3>1 DEF Spaced, Clocked
    <3>3. CASE flushing[w] = <<>>
      <4>1. Len(flushing[w]) # 1
        BY <3>3
      <4>2. flushing'[w] = <<>> /\ pending'[w]
        BY <3>1, <3>2, <3>3, <4>1
      <4> QED BY <3>1, <3>2, <3>3, <4>2 DEF Now
    <3>4. CASE flushing[w] # <<>>
      <4> DEFINE m == flushing[w]
      <4>1. m \in Seq(Span) /\ m # <<>>
        BY <3>4 DEF IInv, TypeOK
      <4> HIDE DEF m
      <4>2. Tail(m) = <<>> <=> Len(m) = 1
        <5> DEFINE r == Tail(m)
        <5>1. r \in Seq(Span) /\ Len(r) = Len(m) - 1 /\ Len(m) \in Nat
          BY <4>1
        <5> HIDE DEF r
        <5>2. Len(r) = 0 => r = <<>>
          BY <5>1
        <5>3. r = <<>> => Len(r) = 0
          OBVIOUS
        <5>4. r = <<>> <=> Len(m) = 1
          BY <5>1, <5>2, <5>3
        <5> QED BY <5>4 DEF r
      <4>3. flushing'[w] = Tail(flushing[w]) /\ (flushing'[w] = <<>> <=> ~pending'[w])
        BY <3>1, <3>2, <3>4, <4>2 DEF m
      <4>4. Now(w)' = Now(w)
        BY <3>1, <3>4, <4>3 DEF Now
      <4>5. Members(Tail(flushing[w])) \subseteq Members(flushing[w])
        BY <3>4, HeadOfFlush DEF IInv
      <4> QED BY <3>1, <4>3, <4>4, <4>5
    <3> QED BY <3>3, <3>4
  <2> QED BY <2>1, <2>2
<1>3. Raised(w)' \subseteq Raised(w) /\ Sightings(w)' \subseteq Sightings(w)
  <2>1. Raised(w)' \subseteq Raised(w)
    BY <1>1 DEF Raised, Stored
  <2> QED BY <1>1, <2>1 DEF Sightings, Stored
<1>4. Clocked(w)'
  BY <1>1, <1>2 DEF Spaced, Clocked
<1>5. Timely(w)'
  BY <1>1, <1>2, <1>3 DEF Spaced, Timely
<1>6. OneEach(dedup[w])' /\ Recent(w)' /\ Remembered(w)'
  BY <1>1, <1>2, <1>3 DEF Spaced, Recent, Remembered
<1> QED BY <1>4, <1>5, <1>6 DEF Spaced
-----------------------------------------------------------------------------
(* Counters of one worker.                                                  *)

\* How many duplicates the audit trail of an alert tells of.
Deduped(id) == Cardinality(Entries(id, "DEDUPED"))

\* A touch that waits is of this round, the only one of its alert, and counts the
\* alert, the duplicates in the trail and its own.
Touching(w) ==
  /\ \A u \in outcome[w].touches :
       /\ u.last = at[w]
       /\ u.id \notin again => u.count = 2 + Deduped(u.id)
       /\ \E f \in fired[w] : Key(f) = u.id[1]
  /\ \A u, v \in outcome[w].touches : u.id = v.id => u = v

\* An entry counts what the trail of its alert tells, and the touch that waits.
EntryCounts(w) ==
  \A e \in Members(dedup[w]) : e.id \notin again =>
    \/ /\ \E u \in outcome[w].touches : u.id = e.id
       /\ e.count = 2 + Deduped(e.id)
    \/ /\ \A u \in outcome[w].touches : u.id # e.id
       /\ e.count = 1 + Deduped(e.id)

\* A row counts what its trail tells, and was seen last when the trail says.
RowCounts ==
  \A id \in Stored :
    /\ id \notin again => rows[id].count = 1 + Deduped(id)
    /\ \A i \in Entries(id, "DEDUPED") : audit[id][i].time <= rows[id].last

Counted(w) == Touching(w) /\ EntryCounts(w) /\ RowCounts

\* A trail tells of a number of duplicates.
LEMMA DedupedNat ==
  ASSUME TypeOK, NEW id \in AlertIds
  PROVE  Deduped(id) \in Nat
<1>1. Len(audit[id]) \in Nat
  <2>1. audit[id] \in Seq(AuditRow)
    BY DEF TypeOK
  <2> QED BY <2>1
<1>2. IsFiniteSet(1..Len(audit[id]))
  BY <1>1, FS_Interval
<1>3. Entries(id, "DEDUPED") \subseteq 1..Len(audit[id])
  BY DEF Entries
<1> QED BY <1>2, <1>3, FS_Subset, FS_CardinalityType DEF Deduped

\* A row appended to an audit trail counts if it tells of a duplicate.
LEMMA TrailGrows ==
  ASSUME NEW id, audit[id] \in Seq(AuditRow), NEW row \in AuditRow,
         audit'[id] = Append(audit[id], row)
  PROVE  /\ Deduped(id) \in Nat
         /\ Deduped(id)' = IF row.kind = "DEDUPED" THEN Deduped(id) + 1 ELSE Deduped(id)
         /\ \A i \in Entries(id, "DEDUPED")' :
              \/ i \in Entries(id, "DEDUPED") /\ audit'[id][i] = audit[id][i]
              \/ row.kind = "DEDUPED" /\ audit'[id][i] = row
<1> DEFINE q == audit[id]
           r == Append(q, row)
           E == Entries(id, "DEDUPED")
<1>1. q \in Seq(AuditRow) /\ audit'[id] = r
  OBVIOUS
<1> HIDE DEF q
<1>2. /\ Len(q) \in Nat /\ Len(r) = Len(q) + 1 /\ r[Len(q) + 1] = row
      /\ \A i \in 1..Len(q) : r[i] = q[i]
  BY <1>1
<1> HIDE DEF r
<1>3. \A i \in 1..Len(r) : i \in 1..Len(q) \/ i = Len(q) + 1
  BY <1>2
<1>4. E = {i \in 1..Len(q) : q[i].kind = "DEDUPED"}
  BY DEF Entries, q
<1>5. Entries(id, "DEDUPED")' = {i \in 1..Len(r) : r[i].kind = "DEDUPED"}
  BY <1>1 DEF Entries
<1>6. IsFiniteSet(E) /\ Cardinality(E) \in Nat
  <2>1. IsFiniteSet(1..Len(q))
    BY <1>2, FS_Interval
  <2>2. E \subseteq 1..Len(q)
    BY <1>4
  <2> QED BY <2>1, <2>2, FS_Subset, FS_CardinalityType
<1>7. Len(q) + 1 \notin E /\ Len(q) + 1 \in 1..Len(r) /\ \A i \in 1..Len(q) : i \in 1..Len(r)
  BY <1>2, <1>4
<1> DEFINE G == Entries(id, "DEDUPED")'
<1>8. CASE row.kind = "DEDUPED"
  <2>1. G = E \cup {Len(q) + 1}
    BY <1>2, <1>3, <1>4, <1>5, <1>7, <1>8
  <2> HIDE DEF E, G
  <2>2. Cardinality(G) = Cardinality(E) + 1
    BY <1>6, <1>7, <2>1, FS_AddElement
  <2>3. \A i \in G : (i \in E /\ r[i] = q[i]) \/ r[i] = row
    BY <1>2, <1>4, <2>1
  <2> QED BY <1>1, <1>6, <1>8, <2>2, <2>3 DEF E, G, Deduped, q
<1>9. CASE row.kind # "DEDUPED"
  <2>1. G = E
    BY <1>2, <1>3, <1>4, <1>5, <1>7, <1>9
  <2> HIDE DEF E, G
  <2>2. \A i \in G : i \in E /\ r[i] = q[i]
    BY <1>2, <1>4, <2>1
  <2> QED BY <1>1, <1>6, <1>9, <2>1, <2>2 DEF E, G, Deduped, q
<1> QED BY <1>8, <1>9

\* An audit trail that stays counts what it counted.
LEMMA TrailStays ==
  ASSUME NEW id, audit'[id] = audit[id]
  PROVE  /\ Entries(id, "DEDUPED")' = Entries(id, "DEDUPED")
         /\ Deduped(id)' = Deduped(id)
BY DEF Entries, Deduped

\* An alert without a row has no duplicates in its trail.
LEMMA NothingDeduped ==
  ASSUME IInv, NEW id \in AlertIds, id \notin Stored
  PROVE  Deduped(id) = 0
<1>1. audit[id] = <<>>
  BY DEF IInv, Kept, Ledgered, Stored
<1>2. Entries(id, "DEDUPED") = {}
  BY <1>1 DEF Entries
<1> QED BY <1>2, FS_EmptySet DEF Deduped

\* A step that counts nothing keeps the counters.
LEMMA QuietCounted ==
  ASSUME NEW w \in Workers, Counted(w), UNCHANGED <<rows, audit, again>>,
         outcome'[w].touches = outcome[w].touches,
         outcome[w].touches # {} => at'[w] = at[w] /\ fired[w] \subseteq fired'[w],
         Members(dedup'[w]) \subseteq Members(dedup[w])
  PROVE  Counted(w)'
<1>1. \A id : /\ Entries(id, "DEDUPED")' = Entries(id, "DEDUPED")
              /\ Deduped(id)' = Deduped(id)
  BY DEF Entries, Deduped
<1>2. Touching(w)'
  BY <1>1 DEF Counted, Touching
<1>3. EntryCounts(w)'
  BY <1>1 DEF Counted, EntryCounts
<1>4. RowCounts'
  BY <1>1 DEF Counted, RowCounts, Stored
<1> QED BY <1>2, <1>3, <1>4 DEF Counted

\* Steps that count nothing.
LEMMA UncountedSteps ==
  ASSUME IInv, NEW w \in Workers, Counted(w),
         \/ \E t \in Times, q \in Contacts : Begin(w, t, q)
         \/ FlushOpenWindows(w) \/ FlushNext(w)
         \/ \E s \in Signals : Weak(w, s)
         \/ PublishAlerts(w) \/ StoreIncidents(w) \/ Acknowledge(w)
  PROVE  Counted(w)'
<1>1. phase[w] = "idle" => outcome[w].touches = {}
  BY DEF IInv, Kept, InOrder, NoOutcome
<1>2. ASSUME NEW t, NEW E, Round(w, t, E)
      PROVE  Members(dedup'[w]) \subseteq Members(dedup[w])
  <2>1. dedup'[w] = SeenSince(dedup[w], t - DedupWindow) /\ dedup[w] \in Seq(Entry)
    BY <1>2 DEF Round, IInv, TypeOK
  <2> QED BY <2>1, SeenSinceMembers
<1>3. ASSUME NEW t \in Times, NEW q \in Contacts, Begin(w, t, q) PROVE Counted(w)'
  <2>1. /\ UNCHANGED <<rows, audit, outcome, again>> /\ phase[w] = "idle"
        /\ Members(dedup'[w]) \subseteq Members(dedup[w])
    BY <1>2, <1>3 DEF Begin, tables
  <2> QED BY <1>1, <2>1, QuietCounted
<1>4. CASE FlushNext(w)
  <2>1. /\ UNCHANGED <<rows, audit, outcome, again>> /\ phase[w] = "idle"
        /\ Members(dedup'[w]) \subseteq Members(dedup[w])
    BY <1>2, <1>4 DEF FlushNext, tables
  <2> QED BY <1>1, <2>1, QuietCounted
<1>5. CASE FlushOpenWindows(w)
  <2>1. UNCHANGED <<rows, audit, outcome, again, dedup, at, fired>>
    BY <1>5 DEF FlushOpenWindows, tables, memory
  <2> QED BY <2>1, QuietCounted
<1>6. ASSUME NEW s \in Signals, Weak(w, s) PROVE Counted(w)'
  <2>1. /\ UNCHANGED <<rows, audit, outcome, again, dedup, at>>
        /\ fired[w] \subseteq fired'[w]
    BY <1>6 DEF Weak, FuseNext, tables, IInv, TypeOK
  <2> QED BY <2>1, QuietCounted
<1>7. CASE PublishAlerts(w) \/ Acknowledge(w)
  <2>1. UNCHANGED <<rows, audit, outcome, again, dedup, at, fired>>
    BY <1>7 DEF PublishAlerts, Acknowledge, tables, memory
  <2> QED BY <2>1, QuietCounted
<1>8. CASE StoreIncidents(w)
  <2>1. /\ UNCHANGED <<rows, audit, again, dedup>>
        /\ outcome[w].touches = {} /\ outcome'[w].touches = {}
    BY <1>8 DEF StoreIncidents, memory, NoOutcome, IInv, TypeOK
  <2> QED BY <2>1, QuietCounted
<1> QED BY <1>3, <1>4, <1>5, <1>6, <1>7, <1>8

\* A duplicate keeps the counters: its touch and its entry count one more.
LEMMA SuppressCounted ==
  ASSUME IInv, NEW w \in Workers, Recent(w), Counted(w),
         NEW s \in Signals, Suppress(w, s)
  PROVE  Counted(w)'
<1>1. PICK old \in Members(dedup[w]), new \in Entry :
           /\ old.key = Key(s) /\ old \in Entry
           /\ new.key = old.key /\ new.id = old.id
           /\ new.last = at[w] /\ new.count = old.count + 1
           /\ Members(dedup'[w]) = {e \in Members(dedup[w]) : e.key # Key(s)} \cup {new}
           /\ outcome' = [outcome EXCEPT ![w].touches =
                @ \cup {[id |-> old.id, last |-> at[w], count |-> new.count]}]
  BY Suppressed
<1> DEFINE u == [id |-> old.id, last |-> at[w], count |-> new.count]
<1>2. /\ UNCHANGED <<rows, audit, at, again>> /\ \A f \in fired[w] : Key(f) # Key(s)
      /\ fired'[w] = fired[w] \cup {s}
      /\ outcome'[w].touches = outcome[w].touches \cup {u}
  <2>1. UNCHANGED <<rows, audit, at, again>> /\ \A f \in fired[w] : Key(f) # Key(s)
    BY DEF Suppress, FuseNext, tables
  <2>2. fired'[w] = fired[w] \cup {s}
    BY DEF Suppress, FuseNext, IInv, TypeOK
  <2>3. outcome'[w].touches = outcome[w].touches \cup {u}
    BY <1>1 DEF IInv, TypeOK
  <2> QED BY <2>1, <2>2, <2>3
<1>3. u.id = old.id /\ u.last = at[w] /\ u.count = new.count
  OBVIOUS
<1> HIDE DEF u
<1>4. /\ \A id : Deduped(id)' = Deduped(id)
      /\ \A id : Entries(id, "DEDUPED")' = Entries(id, "DEDUPED")
  BY <1>2 DEF Entries, Deduped
<1>5. old.id[1] = Key(s) /\ \A v \in outcome[w].touches : v.id # old.id
  <2>1. old.id[1] = Key(s)
    BY <1>1 DEF Recent
  <2> QED BY <1>2, <2>1 DEF Counted, Touching
<1>6. old.id \notin again => /\ old.count = 1 + Deduped(old.id)
                             /\ new.count = 2 + Deduped(old.id)
  <2>1. old.id \notin again => old.count = 1 + Deduped(old.id)
    BY <1>5 DEF Counted, EntryCounts
  <2>2. old.count \in Nat /\ new.count = old.count + 1
    BY <1>1 DEF Entry
  <2>3. Deduped(old.id) \in Nat
    BY <1>1, DedupedNat DEF Entry, IInv
  <2> QED BY <2>1, <2>2, <2>3
<1>7. Touching(w)'
  <2>1. \A v \in outcome[w].touches :
          /\ v.last = at[w] /\ (v.id \notin again => v.count = 2 + Deduped(v.id))
          /\ \E f \in fired'[w] : Key(f) = v.id[1]
    BY <1>2 DEF Counted, Touching
  <2>2. /\ u.last = at[w] /\ (u.id \notin again => u.count = 2 + Deduped(u.id))
        /\ \E f \in fired'[w] : Key(f) = u.id[1]
    BY <1>2, <1>3, <1>5, <1>6
  <2>3. \A v, x \in outcome'[w].touches : v.id = x.id => v = x
    BY <1>2, <1>3, <1>5 DEF Counted, Touching
  <2> QED BY <1>2, <1>4, <2>1, <2>2, <2>3 DEF Touching
<1>8. EntryCounts(w)'
  <2>1. ASSUME NEW e \in Members(dedup[w]), e.key # Key(s), e.id \notin again
        PROVE  \/ /\ \E v \in outcome'[w].touches : v.id = e.id
                  /\ e.count = 2 + Deduped(e.id)
               \/ /\ \A v \in outcome'[w].touches : v.id # e.id
                  /\ e.count = 1 + Deduped(e.id)
    <3>1. e.id # u.id
      BY <1>3, <1>5, <2>1 DEF Recent
    <3> QED BY <1>2, <2>1, <3>1 DEF Counted, EntryCounts
  <2>2. /\ \E v \in outcome'[w].touches : v.id = new.id
        /\ new.id \notin again => new.count = 2 + Deduped(new.id)
    BY <1>1, <1>2, <1>3, <1>6
  <2> QED BY <1>1, <1>2, <1>4, <2>1, <2>2 DEF EntryCounts
<1>9. RowCounts'
  BY <1>2, <1>4 DEF Counted, RowCounts, Stored
<1> QED BY <1>7, <1>8, <1>9 DEF Counted

\* A new alert keeps the counters: nothing has counted its id yet, or it is raised again.
LEMMA RaiseCounted ==
  ASSUME IInv, Roomy', NEW w \in Workers, Recent(w), Counted(w),
         NEW s \in Signals, Raise(w, s)
  PROVE  Counted(w)'
<1>1. PICK new \in Entry :
           /\ new.id = AlertId(s, at[w]) /\ new.count = 1
           /\ Members(dedup'[w]) = Members(dedup[w]) \cup {new}
           /\ outcome'[w].touches = outcome[w].touches
  BY RaisedFresh
<1>2. /\ UNCHANGED <<rows, audit, at>> /\ \A f \in fired[w] : Key(f) # Key(s)
      /\ fired[w] \subseteq fired'[w] /\ at[w] \in Times /\ again \subseteq again'
      /\ rows[new.id] # None => new.id \in again'
  <2>1. /\ UNCHANGED <<rows, audit, at>> /\ \A f \in fired[w] : Key(f) # Key(s)
        /\ fired[w] \subseteq fired'[w] /\ at[w] \in Times
    BY DEF Raise, FuseNext, tables, IInv, TypeOK, Kept, InOrder
  <2>2. again' = IF rows[new.id] = None THEN again ELSE again \cup {new.id}
    BY <1>1 DEF Raise
  <2> QED BY <2>1, <2>2
<1>3. new.id \in AlertIds /\ new.id[1] = Key(s)
  BY <1>1, <1>2, AlertIdType
<1>4. new.id \notin again' => Deduped(new.id) = 0
  <2>1. new.id \notin again' => new.id \notin Stored
    BY <1>2 DEF Stored
  <2> QED BY <1>3, <2>1, NothingDeduped
<1>5. \A u \in outcome[w].touches : u.id # new.id
  BY <1>2, <1>3 DEF Counted, Touching
<1>6. /\ \A id : Deduped(id)' = Deduped(id)
      /\ \A id : Entries(id, "DEDUPED")' = Entries(id, "DEDUPED")
  BY <1>2 DEF Entries, Deduped
<1>7. Touching(w)'
  BY <1>1, <1>2, <1>6 DEF Counted, Touching
<1>8. EntryCounts(w)'
  <2>1. new.id \notin again' => new.count = 1 + Deduped(new.id)
    BY <1>1, <1>4
  <2> QED BY <1>1, <1>2, <1>5, <1>6, <2>1 DEF Counted, EntryCounts
<1>9. RowCounts'
  BY <1>2, <1>6 DEF Counted, RowCounts, Stored
<1> QED BY <1>7, <1>8, <1>9 DEF Counted

\* insert_alerts keeps the counters: a new row has count 1 and a trail of its own.
LEMMA StoreAlertsCounted ==
  ASSUME IInv, NEW w \in Workers, Counted(w), StoreAlerts(w)
  PROVE  Counted(w)'
<1>1. UNCHANGED <<outcome, dedup, at, fired, again>>
  BY DEF StoreAlerts, memory
<1>2. ASSUME NEW id \in AlertIds, id \in Stored
      PROVE  rows'[id] = rows[id] /\ audit'[id] = audit[id]
  BY <1>2, StoreAlertsKept
<1>3. ASSUME NEW id \in AlertIds, id \notin Stored, id \in Stored'
      PROVE  /\ Deduped(id)' = 0 /\ Entries(id, "DEDUPED")' = {}
             /\ rows'[id].count = 1
  <2>1. rows[id] = None /\ rows'[id] # None
    BY <1>3 DEF Stored
  <2>2. PICK a \in NewAlert :
          rows'[id] = Row(a) /\ audit'[id] = <<[kind |-> "CREATED", time |-> a.time]>>
    BY <1>3, <2>1, StoreAlertsKept
  <2>3. Len(audit'[id]) = 1 /\ audit'[id][1].kind = "CREATED"
    BY <2>2
  <2>4. Entries(id, "DEDUPED")' = {}
    BY <2>3 DEF Entries
  <2>5. rows'[id].count = 1
    BY <2>2 DEF Row
  <2> QED BY <2>4, <2>5, FS_EmptySet DEF Deduped
<1>4. ASSUME NEW id \in AlertIds PROVE Deduped(id)' = Deduped(id)
  <2>1. CASE id \in Stored
    BY <1>2, <2>1, TrailStays
  <2>2. CASE id \notin Stored /\ id \in Stored'
    BY <1>3, <2>2, NothingDeduped
  <2>3. CASE id \notin Stored /\ id \notin Stored'
    <3>1. audit[id] = <<>> /\ audit'[id] = <<>>
      BY <2>3, StoreAlertsKept DEF IInv, Kept, Ledgered, Stored
    <3> QED BY <3>1, TrailStays
  <2> QED BY <2>1, <2>2, <2>3
<1>5. /\ \A u \in outcome[w].touches : u.id \in AlertIds
      /\ \A e \in Members(dedup[w]) : e.id \in AlertIds
  <2>1. outcome[w].touches \subseteq Touch
    BY DEF IInv, TypeOK
  <2> QED BY <2>1, SightingType DEF IInv, Touch
<1>6. Touching(w)'
  BY <1>1, <1>4, <1>5 DEF Counted, Touching
<1>7. EntryCounts(w)'
  BY <1>1, <1>4, <1>5 DEF Counted, EntryCounts
<1>8. RowCounts'
  <2> SUFFICES ASSUME NEW id \in Stored'
               PROVE  /\ id \notin again => rows'[id].count = 1 + Deduped(id)'
                      /\ \A i \in Entries(id, "DEDUPED")' :
                           audit'[id][i].time <= rows'[id].last
    BY <1>1 DEF RowCounts
  <2>1. id \in AlertIds
    BY DEF Stored
  <2>2. CASE id \in Stored
    BY <1>2, <2>1, <2>2, TrailStays DEF Counted, RowCounts
  <2>3. CASE id \notin Stored
    BY <1>3, <2>1, <2>3
  <2> QED BY <2>2, <2>3
<1> QED BY <1>6, <1>7, <1>8 DEF Counted

\* touch_alert keeps the counters: the touch becomes an entry of the trail.
LEMMA TouchCounted ==
  ASSUME IInv, NEW w \in Workers, Spaced(w), Counted(w), TouchAlert(w)
  PROVE  Counted(w)'
<1>1. PICK t \in outcome[w].touches :
        /\ rows' = [rows EXCEPT ![t.id] =
             IF @ = None THEN None ELSE [@ EXCEPT !.last = t.last, !.count = t.count]]
        /\ audit' = [audit EXCEPT ![t.id] =
             Append(@, [kind |-> "DEDUPED", time |-> t.last])]
        /\ outcome' = [outcome EXCEPT ![w].touches = @ \ {t}]
  BY DEF TouchAlert
<1> DEFINE row == [kind |-> "DEDUPED", time |-> t.last]
<1>2. /\ UNCHANGED <<dedup, at, fired, again>> /\ phase[w] = "touch" /\ at[w] \in Nat
      /\ outcome'[w].touches = outcome[w].touches \ {t}
      /\ outcome[w].touches \subseteq Touch
  <2>1. UNCHANGED <<dedup, at, fired, again>> /\ phase[w] = "touch" /\ at[w] \in Nat
    BY WindowsAssumption DEF TouchAlert, memory, IInv, TypeOK
  <2>2. /\ outcome'[w].touches = outcome[w].touches \ {t}
        /\ outcome[w].touches \subseteq Touch
    BY <1>1 DEF IInv, TypeOK
  <2> QED BY <2>1, <2>2
<1>3. t \in Touch /\ t.id \in Stored /\ t.id \in AlertIds
  <2>1. t \in Touch /\ t.id \in Stored
    BY <1>1, <1>2 DEF IInv, Kept, Remembers, InOrder, Known
  <2> QED BY <2>1 DEF Stored
<1>4. t.last = at[w] /\ (t.id \notin again => t.count = 2 + Deduped(t.id))
  BY DEF Counted, Touching
<1>5. /\ rows[t.id] \in AlertRow
      /\ rows'[t.id] = [rows[t.id] EXCEPT !.last = t.last, !.count = t.count]
      /\ \A i \in AlertIds \ {t.id} : rows'[i] = rows[i] /\ audit'[i] = audit[i]
  BY <1>1, <1>3 DEF IInv, TypeOK, Stored
<1>6. rows'[t.id].last = t.last /\ rows'[t.id].count = t.count
  BY <1>5 DEF AlertRow
<1>7. /\ row \in AuditRow /\ row.kind = "DEDUPED" /\ row.time = t.last
      /\ audit[t.id] \in Seq(AuditRow) /\ audit'[t.id] = Append(audit[t.id], row)
  <2>1. row \in AuditRow
    BY <1>3, WindowsAssumption DEF AuditRow, Touch, Times
  <2>2. audit[t.id] \in Seq(AuditRow) /\ audit'[t.id] = Append(audit[t.id], row)
    BY <1>1, <1>3 DEF IInv, TypeOK
  <2> QED BY <2>1, <2>2
<1> HIDE DEF row
<1>8. /\ Deduped(t.id) \in Nat /\ Deduped(t.id)' = Deduped(t.id) + 1
      /\ \A i \in Entries(t.id, "DEDUPED")' :
           \/ i \in Entries(t.id, "DEDUPED") /\ audit'[t.id][i] = audit[t.id][i]
           \/ audit'[t.id][i] = row
  BY <1>7, TrailGrows
<1>9. ASSUME NEW id \in AlertIds, id # t.id
      PROVE  /\ Deduped(id)' = Deduped(id)
             /\ Entries(id, "DEDUPED")' = Entries(id, "DEDUPED")
  BY <1>5, <1>9, TrailStays
<1>10. \A u \in outcome[w].touches \ {t} : u.id \in AlertIds /\ u.id # t.id
  BY <1>2 DEF Touch, Counted, Touching
<1>11. Touching(w)'
  BY <1>2, <1>9, <1>10 DEF Counted, Touching
<1>12. EntryCounts(w)'
  <2> SUFFICES ASSUME NEW e \in Members(dedup[w]), e.id \notin again
               PROVE  \/ /\ \E u \in outcome'[w].touches : u.id = e.id
                         /\ e.count = 2 + Deduped(e.id)'
                      \/ /\ \A u \in outcome'[w].touches : u.id # e.id
                         /\ e.count = 1 + Deduped(e.id)'
    BY <1>2 DEF EntryCounts
  <2>1. e.id \in AlertIds
    BY SightingType DEF IInv
  <2>2. CASE e.id = t.id
    <3>1. e.count = 2 + Deduped(t.id)
      BY <2>2 DEF Counted, EntryCounts
    <3>2. \A u \in outcome'[w].touches : u.id # e.id
      BY <1>2, <1>10, <2>2
    <3>3. e.count = 1 + Deduped(t.id)'
      BY <1>8, <3>1
    <3> QED BY <2>2, <3>2, <3>3
  <2>3. CASE e.id # t.id
    BY <1>2, <1>9, <2>1, <2>3 DEF Counted, EntryCounts
  <2> QED BY <2>2, <2>3
<1>13. RowCounts'
  <2> SUFFICES ASSUME NEW id \in Stored'
               PROVE  /\ id \notin again => rows'[id].count = 1 + Deduped(id)'
                      /\ \A i \in Entries(id, "DEDUPED")' :
                           audit'[id][i].time <= rows'[id].last
    BY <1>2 DEF RowCounts
  <2>1. CASE id = t.id
    <3>1. id \notin again => rows'[id].count = 1 + Deduped(id)'
      BY <1>4, <1>6, <1>8, <2>1
    <3>2. rows[t.id].last <= at[w] /\ rows[t.id].last \in Nat
      <4> DEFINE v == <<t.id[1][3], rows[t.id].last>>
      <4>1. v \in Sightings(w) /\ v[1] = t.id[1][3] /\ v[2] = rows[t.id].last
        BY <1>3 DEF Sightings
      <4>2. t.id[1][3] \in vectors[w]
        <5>1. PICK f \in fired[w] : Key(f) = t.id[1]
          BY DEF Counted, Touching
        <5> QED BY <5>1 DEF Key, Spaced, Clocked
      <4> HIDE DEF v
      <4>3. v[2] <= at[w]
        BY <1>2, <4>1, <4>2 DEF Spaced, Timely
      <4>4. v[2] \in Nat
        BY <4>1, SightingType DEF IInv
      <4> QED BY <4>1, <4>3, <4>4
    <3>3. ASSUME NEW i \in Entries(t.id, "DEDUPED")' PROVE audit'[t.id][i].time <= at[w]
      <4>1. CASE audit'[t.id][i] = row
        BY <1>2, <1>4, <1>7, <4>1
      <4>2. CASE i \in Entries(t.id, "DEDUPED") /\ audit'[t.id][i] = audit[t.id][i]
        <5>1. audit[t.id][i].time <= rows[t.id].last
          BY <1>3, <4>2 DEF Counted, RowCounts
        <5>2. audit[t.id][i].time \in Nat
          <6>1. audit[t.id][i] \in AuditRow
            BY <1>7, <4>2 DEF Entries
          <6> QED BY <6>1, WindowsAssumption DEF AuditRow
        <5> QED BY <1>2, <3>2, <4>2, <5>1, <5>2
      <4> QED BY <1>8, <4>1, <4>2
    <3> QED BY <1>2, <1>4, <1>6, <2>1, <3>1, <3>3
  <2>2. CASE id # t.id
    <3>1. id \in AlertIds /\ id \in Stored /\ rows'[id] = rows[id] /\ audit'[id] = audit[id]
      BY <1>5, <2>2 DEF Stored
    <3> QED BY <1>9, <2>2, <3>1 DEF Counted, RowCounts
  <2> QED BY <2>1, <2>2
<1> QED BY <1>11, <1>12, <1>13 DEF Counted

\* A verdict keeps the counters.
LEMMA SetStatusCounted ==
  ASSUME IInv, NEW w \in Workers, Counted(w), NEW id \in AlertIds, SetStatus(id)
  PROVE  Counted(w)'
<1> DEFINE row == [kind |-> "STATUS", time |-> 0]
<1>1. /\ UNCHANGED <<dedup, at, fired, outcome, again>> /\ id \in Stored
      /\ rows' = [rows EXCEPT ![id].status = "VERDICT"]
      /\ audit' = [audit EXCEPT ![id] = Append(@, row)]
  BY DEF SetStatus, memory, Stored
<1>2. row \in AuditRow /\ row.kind # "DEDUPED"
  BY WindowsAssumption DEF AuditRow
<1> HIDE DEF row
<1>3. /\ audit[id] \in Seq(AuditRow) /\ audit'[id] = Append(audit[id], row)
      /\ \A i \in AlertIds \ {id} : rows'[i] = rows[i] /\ audit'[i] = audit[i]
  BY <1>1 DEF IInv, TypeOK
<1>4. /\ Deduped(id)' = Deduped(id)
      /\ \A i \in Entries(id, "DEDUPED")' :
           i \in Entries(id, "DEDUPED") /\ audit'[id][i] = audit[id][i]
  BY <1>2, <1>3, TrailGrows
<1>5. \A i \in AlertIds \ {id} : /\ Deduped(i)' = Deduped(i)
                                 /\ Entries(i, "DEDUPED")' = Entries(i, "DEDUPED")
  BY <1>3, TrailStays
<1>6. \A i \in Stored' : /\ i \in Stored /\ rows'[i].count = rows[i].count
                         /\ rows'[i].last = rows[i].last
  BY <1>1 DEF IInv, TypeOK, Stored, AlertRow
<1>7. \A i \in AlertIds : Deduped(i)' = Deduped(i)
  BY <1>4, <1>5
<1>8. /\ \A u \in outcome[w].touches : u.id \in AlertIds
      /\ \A e \in Members(dedup[w]) : e.id \in AlertIds
  <2>1. outcome[w].touches \subseteq Touch
    BY DEF IInv, TypeOK
  <2> QED BY <2>1, SightingType DEF IInv, Touch
<1>9. Touching(w)' /\ EntryCounts(w)'
  BY <1>1, <1>7, <1>8 DEF Counted, Touching, EntryCounts
<1>10. RowCounts'
  <2> SUFFICES ASSUME NEW i \in Stored'
               PROVE  /\ i \notin again => rows'[i].count = 1 + Deduped(i)'
                      /\ \A k \in Entries(i, "DEDUPED")' :
                           audit'[i][k].time <= rows'[i].last
    BY <1>1 DEF RowCounts
  <2>1. /\ i \in AlertIds /\ i \in Stored /\ rows'[i].count = rows[i].count
        /\ rows'[i].last = rows[i].last /\ Deduped(i)' = Deduped(i)
    BY <1>6, <1>7 DEF Stored
  <2>2. \A k \in Entries(i, "DEDUPED")' :
          k \in Entries(i, "DEDUPED") /\ audit'[i][k] = audit[i][k]
    BY <1>3, <1>4, <1>5, <2>1
  <2> QED BY <2>1, <2>2 DEF Counted, RowCounts
<1> QED BY <1>9, <1>10 DEF Counted

\* What a worker that is alone, never dies and never forgets keeps.
Bursts == \A w \in Workers : Spaced(w) /\ Counted(w)

\* At the start nothing is seen, raised or counted.
LEMMA InitBursts == Init => Bursts
<1> SUFFICES ASSUME Init, NEW w \in Workers PROVE Spaced(w) /\ Counted(w)
  BY DEF Bursts
<1>1. /\ Members(<<>>) = {} /\ Stored = {} /\ dedup[w] = <<>>
      /\ states[w] = <<>> /\ flushing[w] = <<>> /\ fired[w] = {}
      /\ phase[w] = "idle" /\ at[w] = 0 /\ acked[w] = 0
      /\ outcome[w].alerts = {} /\ outcome[w].touches = {}
  BY DEF Init, Members, Stored, NoOutcome
<1>2. Raised(w) = {} /\ Sightings(w) = {}
  BY <1>1 DEF Raised, Sightings
<1>3. Clocked(w)
  BY <1>1 DEF Clocked, Now, OneEach
<1>4. Spaced(w)
  BY <1>1, <1>2, <1>3 DEF Spaced, OneEach, Timely, Recent, Remembered
<1>5. Counted(w)
  BY <1>1 DEF Counted, Touching, EntryCounts, RowCounts
<1> QED BY <1>4, <1>5

\* Every step of a worker that is alone keeps it, but a crash or a full map; and an event
\* raises no alert within a dedup window of one of its key.
LEMMA BurstsStep ==
  ASSUME NEW one, Workers = {one}, ~Late, IInv, Bursts, crashes' = 0, Roomy',
         [Next]_vars
  PROVE  /\ Bursts'
         /\ \A w \in Workers : flushing[w] = <<>> =>
              \A a \in outcome'[w].alerts \ outcome[w].alerts, id \in Stored :
                id[1] = a.id[1] => a.time - rows[id].first > DedupWindow
<1> DEFINE Alone ==
             flushing[one] = <<>> =>
               \A a \in outcome'[one].alerts \ outcome[one].alerts, id \in Stored :
                 id[1] = a.id[1] => a.time - rows[id].first > DedupWindow
<1>1. /\ one \in Workers /\ Spaced(one) /\ Counted(one) /\ Recent(one)
      /\ \A u \in outcome[one].touches :
           u.last = at[one] /\ \E f \in fired[one] : Key(f) = u.id[1]
  BY DEF Bursts, Spaced, Counted, Touching
<1>2. Spaced(one)' /\ Counted(one)' => Bursts'
  BY DEF Bursts
<1>3. outcome'[one].alerts \subseteq outcome[one].alerts => Alone
  OBVIOUS
<1> SUFFICES Bursts' /\ Alone
  OBVIOUS
<1> HIDE DEF Alone
<1>4. ASSUME NEW t \in Times, NEW q \in Contacts, Begin(one, t, q) PROVE Bursts' /\ Alone
  <2>1. outcome' = outcome
    BY <1>4 DEF Begin
  <2> QED BY <1>1, <1>2, <1>3, <1>4, <2>1, BeginSpaced, UncountedSteps
<1>5. CASE FlushOpenWindows(one)
  <2>1. outcome' = outcome
    BY <1>5 DEF FlushOpenWindows
  <2> QED BY <1>1, <1>2, <1>3, <1>5, <2>1, FlushOpenWindowsSpaced, UncountedSteps
<1>6. CASE FlushNext(one)
  <2>1. outcome' = outcome
    BY <1>6 DEF FlushNext
  <2> QED BY <1>1, <1>2, <1>3, <1>6, <2>1, FlushNextSpaced, UncountedSteps
<1>7. ASSUME NEW s \in Signals, Weak(one, s) PROVE Bursts' /\ Alone
  <2>1. /\ UNCHANGED <<dedup, at, phase, rows, outcome>> /\ Still(one)
        /\ phase[one] = "fuse" /\ s.entity \in vectors[one]
        /\ fired'[one] = fired[one] \cup {s}
    BY <1>1, <1>7 DEF Weak, FuseNext, tables, windows, Still, IInv, TypeOK
  <2>2. Raised(one)' = Raised(one) /\ Sightings(one)' = Sightings(one)
    BY <2>1 DEF Raised, Sightings, Stored
  <2>3. /\ \A f \in fired'[one] : phase'[one] # "idle" /\ f.entity \in vectors[one]
        /\ at[one] \in Nat
    BY <1>1, <2>1, SightingType DEF Spaced, Clocked, IInv
  <2>4. Spaced(one)'
    BY <1>1, <2>1, <2>2, <2>3, QuietSpaced
  <2>5. Counted(one)'
    BY <1>1, <1>7, UncountedSteps
  <2> QED BY <1>2, <1>3, <2>1, <2>4, <2>5
<1>8. ASSUME NEW s \in Signals, Suppress(one, s) PROVE Bursts' /\ Alone
  <2>1. outcome'[one].alerts = outcome[one].alerts
    BY <1>1, <1>8, Suppressed DEF IInv, TypeOK
  <2> QED BY <1>1, <1>2, <1>3, <1>8, <2>1, SuppressSpaced, SuppressCounted
<1>9. ASSUME NEW s \in Signals, Raise(one, s) PROVE Bursts' /\ Alone
  <2>1. Alone
    BY <1>1, <1>9, RaiseSpaced DEF Alone
  <2> QED BY <1>1, <1>2, <1>9, <2>1, RaiseSpaced, RaiseCounted
<1>10. CASE StoreAlerts(one)
  <2>1. outcome' = outcome
    BY <1>10 DEF StoreAlerts
  <2> QED BY <1>1, <1>2, <1>3, <1>10, <2>1, TablesSpaced, StoreAlertsCounted
<1>11. CASE TouchAlert(one)
  <2>1. outcome'[one].alerts = outcome[one].alerts
    <3>1. PICK u : outcome' = [outcome EXCEPT ![one].touches = @ \ {u}]
      BY <1>11 DEF TouchAlert
    <3> QED BY <1>1, <3>1 DEF IInv, TypeOK
  <2> QED BY <1>1, <1>2, <1>3, <1>11, <2>1, TablesSpaced, TouchCounted
<1>12. CASE PublishAlerts(one)
  <2>1. outcome' = outcome
    BY <1>12 DEF PublishAlerts
  <2> QED BY <1>1, <1>2, <1>3, <1>12, <2>1, TablesSpaced, UncountedSteps
<1>13. CASE StoreIncidents(one) \/ Acknowledge(one)
  <2>1. outcome'[one].alerts \subseteq outcome[one].alerts
    BY <1>1, <1>13 DEF StoreIncidents, Acknowledge, NoOutcome, IInv, TypeOK
  <2> QED BY <1>1, <1>2, <1>3, <1>13, <2>1, DoneSpaced, UncountedSteps
<1>14. ASSUME Crash(one) PROVE FALSE
  BY <1>14 DEF Crash, IInv, TypeOK
<1>15. ASSUME NEW id \in AlertIds, SetStatus(id) PROVE Bursts' /\ Alone
  <2>1. outcome' = outcome
    BY <1>15 DEF SetStatus
  <2> QED BY <1>1, <1>2, <1>3, <1>15, <2>1, TablesSpaced, SetStatusCounted
<1>16. CASE UNCHANGED vars
  <2>1. /\ UNCHANGED <<dedup, at, phase, rows, audit, outcome, fired, again>>
        /\ Still(one)
    BY <1>16 DEF vars, memory, tables, windows, Still
  <2>2. Raised(one)' = Raised(one) /\ Sightings(one)' = Sightings(one)
    BY <2>1 DEF Raised, Sightings, Stored
  <2>3. Spaced(one)'
    <3>1. /\ \A f \in fired'[one] : phase'[one] # "idle" /\ f.entity \in vectors[one]
          /\ at[one] \in Nat
      BY <1>1, <2>1, SightingType DEF Spaced, Clocked, IInv
    <3> QED BY <1>1, <2>1, <2>2, <3>1, QuietSpaced
  <2>4. Counted(one)'
    BY <1>1, <2>1, QuietCounted
  <2> QED BY <1>2, <1>3, <2>1, <2>3, <2>4
<1>17. QED
  <2>1. CASE \E t \in Times, q \in Contacts : Begin(one, t, q)
    BY <1>4, <2>1
  <2>2. CASE \E s \in Signals : Weak(one, s) \/ Suppress(one, s) \/ Raise(one, s)
    BY <1>7, <1>8, <1>9, <2>2
  <2>3. CASE \E id \in AlertIds : SetStatus(id)
    BY <1>15, <2>3
  <2>4. \/ \E t \in Times, q \in Contacts : Begin(one, t, q)
        \/ FlushOpenWindows(one) \/ FlushNext(one)
        \/ \E s \in Signals : Weak(one, s) \/ Suppress(one, s) \/ Raise(one, s)
        \/ StoreAlerts(one) \/ PublishAlerts(one) \/ TouchAlert(one)
        \/ StoreIncidents(one) \/ Acknowledge(one) \/ Crash(one)
        \/ \E id \in AlertIds : SetStatus(id)
        \/ UNCHANGED vars
    <3>1. \A w \in Workers : w = one
      OBVIOUS
    <3> QED BY <3>1, Zenon DEF Next
  <2>5. CASE \/ StoreAlerts(one) \/ PublishAlerts(one) \/ TouchAlert(one)
             \/ StoreIncidents(one) \/ Acknowledge(one) \/ Crash(one)
    BY <1>10, <1>11, <1>12, <1>13, <1>14, <2>5
  <2>6. CASE FlushOpenWindows(one) \/ FlushNext(one) \/ UNCHANGED vars
    BY <1>5, <1>6, <1>16, <2>6
  <2> QED BY <2>1, <2>2, <2>3, <2>4, <2>5, <2>6

\* A single worker that fuses its events in the order of their times, never dies and
\* never has a full dedup map raises one alert per burst of events, whatever its flushes
\* did before: an alert that an event raises starts more than a dedup window after every
\* stored alert of its key.
THEOREM BurstsAreOneAlert ==
  ASSUME NEW one, Workers = {one}, ~Late
  PROVE  Spec /\ [](crashes = 0 /\ Roomy) => OneAlertPerBurst
<1>1. IInv /\ Bursts /\ (crashes = 0 /\ Roomy)' /\ [Next]_vars => Bursts'
  BY BurstsStep
<1>2. IInv /\ Bursts /\ (crashes = 0 /\ Roomy)' /\ [Next]_vars =>
        [\A w \in Workers : flushing[w] = <<>> =>
           \A a \in outcome'[w].alerts \ outcome[w].alerts, id \in Stored :
             id[1] = a.id[1] => a.time - rows[id].first > DedupWindow]_vars
  BY BurstsStep
<1> QED BY <1>1, <1>2, InitBursts, Invariant, PTL DEF Spec, OneAlertPerBurst

\* Such a worker's counters are those of the audit trail, flushes or not: an alert that
\* was not raised again counts one and the duplicates that its trail tells of, and every
\* alert was last seen no earlier than they were.
THEOREM CountersFollowAudit ==
  ASSUME NEW one, Workers = {one}, ~Late
  PROVE  Spec /\ [](crashes = 0 /\ Roomy) => []CountsFollowAudit
<1>1. Bursts => CountsFollowAudit
  BY DEF Bursts, Counted, RowCounts, Deduped, CountsFollowAudit
<1>2. IInv /\ Bursts /\ (crashes = 0 /\ Roomy)' /\ [Next]_vars => Bursts'
  BY BurstsStep
<1> QED BY <1>1, <1>2, InitBursts, Invariant, PTL DEF Spec
=============================================================================
