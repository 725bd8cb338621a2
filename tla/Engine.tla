------------------------------- MODULE Engine -------------------------------
(***************************************************************************)
(* The streaming feature engine (sih_ntd/features/engine.py) on top of the  *)
(* time windows and the bounded map of sih_ntd/windows.py.                  *)
(*                                                                         *)
(* Every event updates the windows of three entities: its source, its       *)
(* destination and the pair.  A vector of an entity is emitted at most once  *)
(* per interval, and by a flush when the stream goes quiet or the capture    *)
(* is over.                                                                *)
(*                                                                         *)
(* Two of the configured window sizes are modelled, the shortest and the    *)
(* longest.  A window holds the numbers of its events: its counts, sums and  *)
(* cardinalities are functions of them.                                     *)
(***************************************************************************)
EXTENDS Integers, Sequences, FiniteSets, FiniteSetsExt, Filter

CONSTANTS
  Templates,     \* what can happen: [src, dst, kind, up, failed, ts |-> 0]
  Times,         \* event times, whole half-intervals from the epoch
  MaxLate,       \* bound: how far behind the newest event one may be
  MaxEvents,     \* bound: events of a run
  EmitInterval,  \* windows.emit_interval_seconds
  Short, Long,   \* smallest and largest of windows.sizes
  Capacity,      \* windows.max_tracked_entities
  TrackerSize    \* maxlen of IntervalTracker

\* config.py:58-66; a real time stamp is later than the first interval after 0.
ASSUME EngineAssumption ==
  /\ EmitInterval \in Nat \ {0} /\ Short \in Nat \ {0} /\ Long \in Nat /\ Short <= Long
  /\ Times \subseteq Nat /\ \A t \in Times : t >= EmitInterval
  /\ MaxLate \in Nat /\ MaxEvents \in Nat
  /\ Capacity \in Nat /\ Capacity >= 3
  /\ TrackerSize \in Nat \ {0}

\* What of an event is modelled; its time is set when it happens.
ASSUME TemplatesAssumption ==
  \A t \in Templates :
    /\ t = [src |-> t.src, dst |-> t.dst, kind |-> t.kind, up |-> t.up,
            failed |-> t.failed, ts |-> 0]
    /\ t.up \in {0, 1} /\ t.failed \in BOOLEAN

VARIABLES
  events,   \* all events processed, in order of processing
  order,    \* keys of the tracked entities, the one to evict first
  st,       \* their EntityState
  pending,  \* Pipeline._pending_flush
  source,   \* of the events: a stream, a capture, or a capture that is over
  out       \* vectors of the last step

engineVars == <<events, order, st, pending, source, out>>

Host(e) == <<"HOST", e.src>>
Destination(e) == <<"DESTINATION", e.dst>>
Pair(e) == <<"PAIR", e.src, e.dst>>

-----------------------------------------------------------------------------
(* Windows.                                                                 *)

\* Mutant: the entry exactly one window old stays.
ExpireLater(history, entries, size, now) ==
  LET young == {i \in 1..Len(entries) : history[entries[i]].ts >= now - size}
  IN  IF young = {} THEN <<>> ELSE SubSeq(entries, Min(young), Len(entries))

\* Entries leave from the head, as long as the head is too old.
Expire(history, entries, size, now) ==
  LET young == {i \in 1..Len(entries) : history[entries[i]].ts > now - size}
  IN  IF young = {} THEN <<>> ELSE SubSeq(entries, Min(young), Len(entries))

\* Mutant: a deque without maxlen.
ArrivedUnbounded(times, ts) ==
  IF times # <<>> /\ ts <= times[Len(times)] THEN times ELSE Append(times, ts)

\* IntervalTracker.add: equal and older times are ignored.
Arrived(times, ts) ==
  IF times # <<>> /\ ts <= times[Len(times)] THEN times
  ELSE LET all == Append(times, ts)
       IN  IF Len(all) > TrackerSize THEN Tail(all) ELSE all

\* LruStateMap.touch: to the end; a full map drops its first key.
Touch(keys, k) ==
  LET all == Append(Only(keys, Members(keys) \ {k}), k)
  IN  IF Len(all) > Capacity THEN Tail(all) ELSE all
-----------------------------------------------------------------------------
(* Entities.  observed and judged are history: what the entity has seen      *)
(* since it is tracked, and what of it was in some vector.                   *)

Fresh == [short |-> <<>>, long |-> <<>>, times |-> <<>>,
          lastEmit |-> 0, lastSeen |-> 0, observed |-> {}, judged |-> {}]

\* EntityState.observe: each window is expired, then extended.
Observed(s, history) ==
  LET id == Len(history)
      ts == history[id].ts
  IN  [s EXCEPT !.short = Append(Expire(history, @, Short, ts), id),
                !.long = Append(Expire(history, @, Long, ts), id),
                !.times = Arrived(@, ts),
                !.lastSeen = ts,
                !.observed = @ \cup {id}]

\* Mutant: a late event is due too.
DueLate(s, ts) == ts - s.lastEmit >= EmitInterval \/ ts < s.lastEmit

Due(s, ts) == ts - s.lastEmit >= EmitInterval

Emitted(s, ts) ==
  [s EXCEPT !.lastEmit = ts, !.judged = @ \cup Members(s.long)]

NoEvent == 0

\* A vector with every window of its entity; the event it was built on, or
\* NoEvent.
Windowed(k, s, ts, trigger) ==
  [key |-> k, ts |-> ts, short |-> s.short, long |-> s.long, times |-> s.times,
   observed |-> s.observed, perEvent |-> FALSE, trigger |-> trigger]

\* A vector of one protocol event, with the windows of its entity.
PerEvent(k, s, ts, trigger) ==
  [Windowed(k, s, ts, trigger) EXCEPT !.perEvent = TRUE]

EngineInit ==
  /\ events = <<>> /\ order = <<>> /\ st = <<>> /\ pending = FALSE /\ out = {}
  /\ source \in {"stream", "capture"}

Newest == Max({events[i].ts : i \in 1..Len(events)} \cup {0})

\* Entities that get a vector for the protocol event itself, due or not.
Judged(e, due) ==
  CASE e.kind = "dns" -> {Host(e)} [] e.kind = "tls" -> {Pair(e)} [] OTHER -> {}

\* process: the three states are touched and extended, then the vectors that
\* are due are built, then the vector of a DNS query or a TLS handshake.
Process(template, ts) ==
  /\ source # "over"
  /\ Len(events) < MaxEvents
  /\ ts >= Newest - MaxLate
  /\ LET e == [template EXCEPT !.ts = ts]
         history == Append(events, e)
         keys == {Host(e), Destination(e), Pair(e)}
         touched == Touch(Touch(Touch(order, Host(e)), Destination(e)), Pair(e))
         old(k) == IF k \in DOMAIN st THEN st[k] ELSE Fresh
         new == [k \in keys |-> Observed(old(k), history)]
         due == {k \in keys : Due(new[k], ts)}
     IN  /\ events' = history
         /\ order' = touched
         /\ st' = [k \in Members(touched) |->
                     IF k \in due THEN Emitted(new[k], ts)
                     ELSE IF k \in keys THEN new[k] ELSE st[k]]
         /\ out' = {Windowed(k, new[k], ts, Len(history)) : k \in due}
                   \cup {PerEvent(k, new[k], ts, Len(history)) : k \in Judged(e, due)}
  /\ pending' = TRUE
  /\ UNCHANGED source

Closed(s, now) ==
  [s EXCEPT !.short = Expire(events, @, Short, now), !.long = Expire(events, @, Long, now)]

\* FeatureEngine.flush: a vector for every tracked entity, whether it has seen
\* anything since its last one or not, without the event that built it.
EmitAll(at) ==
  /\ pending
  /\ out' = {Windowed(k, Closed(st[k], at[k]), at[k], NoEvent) : k \in DOMAIN st}
  /\ st' = [k \in DOMAIN st |-> Emitted(Closed(st[k], at[k]), at[k])]
  /\ pending' = FALSE
  /\ UNCHANGED <<events, order>>

\* Mutant: an entity that has just emitted is left out.
FlushTheOthers ==
  /\ source = "stream"
  /\ pending
  /\ LET open == {k \in DOMAIN st : st[k].lastEmit + EmitInterval <= Newest}
         closed(k) == Closed(st[k], st[k].lastSeen)
     IN /\ out' = {Windowed(k, closed(k), st[k].lastSeen, NoEvent) : k \in open}
        /\ st' = [k \in DOMAIN st |->
                    IF k \in open THEN Emitted(closed(k), st[k].lastSeen) ELSE st[k]]
  /\ pending' = FALSE
  /\ UNCHANGED <<events, order, source>>

\* flush_open_windows: the stream is quiet, each entity at its own last event.
Flush ==
  /\ source = "stream"
  /\ EmitAll([k \in DOMAIN st |-> st[k].lastSeen])
  /\ UNCHANGED source

\* The end of handle_events: every entity at the last event of the capture.
Finish ==
  /\ source = "capture"
  /\ EmitAll([k \in DOMAIN st |-> Newest])
  /\ source' = "over"

EngineNext ==
  \/ \E template \in Templates, ts \in Times : Process(template, ts)
  \/ Flush
  \/ Finish
-----------------------------------------------------------------------------
(* Properties.                                                              *)

TypeOK ==
  /\ Len(events) <= MaxEvents
  /\ \A i \in 1..Len(events) : events[i].ts \in Times
  /\ pending \in BOOLEAN /\ source \in {"stream", "capture", "over"}
  /\ Len(order) <= Capacity /\ IsInjective(order) /\ DOMAIN st = Members(order)
  /\ \A k \in DOMAIN st :
       /\ Members(st[k].short) \cup Members(st[k].long) \subseteq st[k].observed
       /\ st[k].lastEmit \in Times \cup {0} /\ st[k].lastSeen \in Times
       /\ st[k].judged \subseteq st[k].observed /\ st[k].observed \subseteq 1..Len(events)
       /\ Len(st[k].times) <= TrackerSize

\* What a window of that size holds at that time, by definition.
Truth(k, size, now) ==
  {i \in st[k].observed : events[i].ts > now - size /\ events[i].ts <= now}

\* Events that came after a younger one of the same entity.
Late(k) ==
  {i \in st[k].observed : \E j \in st[k].observed : j < i /\ events[j].ts > events[i].ts}

Brackets(k, ids, size, now, tick) ==
  /\ (tick \/ Late(k) = {}) => Truth(k, size, now) \subseteq ids
  /\ ids \subseteq Truth(k, size, now)
        \cup {i \in st[k].observed : Late(k) # {} /\ (tick => i \in Late(k))}

\* A vector never undercounts at a tick and counts too much only by events that
\* came late (windows.py:9-10 assumes there are none; reclaimed batches are late):
\* ticks fall on a new maximum of the entity's time although expiry only looks at
\* the head and last_seen follows the last event, not the newest (engine.py:237,
\* 346).  It needs events to be late by less than one interval.
VectorsBracketTruth ==
  \A v \in out : ~v.perEvent =>
    /\ Brackets(v.key, Members(v.short), Short, v.ts, v.trigger # NoEvent)
    /\ Brackets(v.key, Members(v.long), Long, v.ts, v.trigger # NoEvent)

\* flush_open_windows (pipeline.py:148-155): once the stream is quiet or the capture
\* over, everything in any window of a tracked entity has been in a vector.
QuietMeansJudged ==
  ~pending => \A k \in DOMAIN st : Members(st[k].long) \subseteq st[k].judged
=============================================================================
