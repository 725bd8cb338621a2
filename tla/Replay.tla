------------------------------- MODULE Replay -------------------------------
(***************************************************************************)
(* Replays of one source.  A capture is read by Zeek, whose logs are         *)
(* correlated, sorted, normalized and deduplicated (sih_ntd/ingest.py); a     *)
(* scenario is generated from its seed (sih_ntd/sensor/synthetic.py).  The    *)
(* events run through a pipeline inside the API or are published for a worker *)
(* (sih_ntd/sensor/replay.py), by API requests and command lines (sih_ntd/    *)
(* api.py, cli.py) that may run at once, fail, die and be repeated.           *)
(*                                                                         *)
(* ssl.log is read as dns.log is, and is left out.  A line has a uid, a time,*)
(* a flow (addresses, ports, protocol), the name it asks for and whether name *)
(* and addresses validate.                                                  *)
(***************************************************************************)
EXTENDS Integers, Sequences, FiniteSets, FiniteSetsExt, Bags, Filter

CONSTANTS
  Captures,     \* [conn, dns: sequences of lines [uid, ts, flow, name, ok]]
  Scenarios,    \* [generated: sequence of lines without a uid]
  Requests,     \* replays started through the API
  Commands,     \* replays started with --stream
  DedupCapacity,\* DEDUP_CAPACITY
  PersistEvery, \* events persisted, or published, at a time: 500
  MaxCrashes,   \* bound: ends of the API process or of a command
  MaxFailures   \* bound: errors of the store or of Zeek

NoUid == ""
NoFlow == ""
NoRun == ""
NoName == "-"
NoTime == 0      \* no time stamp in the line
BadTime == -1    \* one that is not a number

ASSUME ReplayAssumption ==
  /\ Requests \cap Commands = {} /\ NoRun \notin Requests \cup Commands
  /\ IsFiniteSet(Requests \cup Commands)
  /\ DedupCapacity \in Nat /\ DedupCapacity >= 4
  /\ PersistEvery \in Nat \ {0} /\ MaxCrashes \in Nat /\ MaxFailures \in Nat

ASSUME CapturesAssumption ==
  \A c \in Captures : \A log \in {c.conn, c.dns} :
    log \in Seq(Members(log)) /\ \A line \in Members(log) : line.ts \in Nat \cup {BadTime}

ASSUME ScenariosAssumption ==
  /\ Scenarios \cap Captures = {}
  /\ \A s \in Scenarios :
       /\ s.generated \in Seq(Members(s.generated))
       /\ \A line \in Members(s.generated) : line.ts \in Nat \ {NoTime} /\ line.uid = NoUid

VARIABLES
  source,    \* the capture or scenario all replays are of
  phase,     \* of each replay
  todo,      \* its events that are not persisted or published yet
  status,    \* AppState.replay_status
  rows,      \* bag of the event ids of the rows in the store
  stream,    \* events published and not consumed
  crashes, failures

vars == <<source, phase, todo, status, rows, stream, crashes, failures>>

Runs == Requests \cup Commands
-----------------------------------------------------------------------------
(* ZeekLogReader.read.                                                      *)

Uids(lines) == {lines[i].uid : i \in 1..Len(lines)} \ {NoUid}

\* The lines of a uid that have a field, or all of them if none has it.
Having(lines, u, field, nothing) ==
  LET all == {i \in 1..Len(lines) : lines[i].uid = u}
      some == {i \in all : lines[i][field] # nothing}
  IN  IF some = {} THEN all ELSE some

\* by_uid: lines of one uid are merged, what a later one has wins; lines without a
\* uid are dropped.
ByUid(lines) ==
  [u \in Uids(lines) |->
     LET named == lines[Max(Having(lines, u, "name", NoName))]
         timed == lines[Max(Having(lines, u, "ts", NoTime))]
     IN  [uid |-> u, ts |-> timed.ts, flow |-> timed.flow, name |-> named.name, ok |-> named.ok]]

\* A dictionary keeps its keys in the order of their first insertion.
Inserted(lines) ==
  [u \in Uids(lines) |-> Min({i \in 1..Len(lines) : lines[i].uid = u})]

\* A connection takes everything but its time and uid from its dns line.
Correlate(line, byUid) ==
  IF line.uid \in DOMAIN byUid
  THEN [uid |-> line.uid, ts |-> line.ts, flow |-> byUid[line.uid].flow,
        name |-> byUid[line.uid].name, ok |-> byUid[line.uid].ok]
  ELSE line

\* Mutant: protocol lines without a connection are dropped.
RecordsOfConnections(c) ==
  [i \in 1..Len(c.conn) |-> Correlate(c.conn[i], ByUid(c.dns))]

\* The connections, then the protocol lines that have none.
Records(c) ==
  LET byUid == ByUid(c.dns)
      orphans == SortedBy(Uids(c.dns) \ Uids(c.conn), Inserted(c.dns))
  IN  [i \in 1..Len(c.conn) |-> Correlate(c.conn[i], byUid)]
      \o [i \in 1..Len(orphans) |-> byUid[orphans[i]]]

\* Sorting calls float on every time.
Raises(c) == \E i \in 1..Len(Records(c)) : Records(c)[i].ts = BadTime

\* Mutant: the order of the files.
SortedAsRead(records) == records

\* list.sort is stable: of records with one time the first stays the first.
Before(records, i) ==
  {j \in 1..Len(records) :
     \/ records[j].ts < records[i].ts
     \/ records[j].ts = records[i].ts /\ j < i}

Sorted(records) ==
  LET place == [i \in 1..Len(records) |-> Cardinality(Before(records, i))]
      order == SortedBy(1..Len(records), place)
  IN  [i \in 1..Len(records) |-> records[order[i]]]
-----------------------------------------------------------------------------
(* Normalizer.                                                              *)

Valid(r) == r.ts \notin {NoTime, BadTime} /\ r.ok

\* derive_event_id: of the time, of the uid or else of the flow, and of the name.
EventId(r) ==
  [ts |-> r.ts, run |-> NoRun, uid |-> r.uid,
   flow |-> IF r.uid = NoUid THEN r.flow ELSE NoFlow, name |-> r.name]

\* is_duplicate: over capacity, the oldest quarter goes.
Remembered(seen, id) ==
  LET all == Append(seen, id)
  IN  IF Len(all) > DedupCapacity
      THEN SubSeq(all, (DedupCapacity \div 4) + 1, Len(all)) ELSE all

\* normalize_many: rejects and duplicates are skipped.
Normalize(state, r) ==
  IF ~Valid(r) \/ EventId(r) \in Members(state.seen) THEN state
  ELSE [seen |-> Remembered(state.seen, EventId(r)),
        events |-> Append(state.events, EventId(r))]

Normalized(records) ==
  LET after[n \in 0..Len(records)] ==
        IF n = 0 THEN [seen |-> <<>>, events |-> <<>>]
        ELSE Normalize(after[n-1], records[n])
  IN  after[Len(records)].events

\* generate: the same events for the same seed, and no normalizer.
Generated(s) ==
  LET lines == Sorted(s.generated)
  IN  [i \in 1..Len(lines) |-> EventId(lines[i])]

Events(c) == IF c \in Scenarios THEN Generated(c) ELSE Normalized(Sorted(Records(c)))

\* What a replay reads, once for each source.
Reading ==
  [c \in Captures \cup Scenarios |-> [raises |-> c \in Captures /\ Raises(c), events |-> Events(c)]]

\* Mutant: the schema's default, an id drawn for each event.
DrawnAlways(r, id) == [id EXCEPT !.run = r]

\* Zeek runs again for each replay, and each of its runs draws other uids.
Drawn(r, id) == IF id.uid = NoUid THEN id ELSE [id EXCEPT !.run = r]

\* The events of one replay.
Script(r) ==
  [i \in 1..Len(Reading[source].events) |-> Drawn(r, Reading[source].events[i])]
-----------------------------------------------------------------------------
Init ==
  /\ source \in Captures \cup Scenarios
  /\ phase = [r \in Runs |-> "new"] /\ todo = [r \in Runs |-> <<>>]
  /\ status = "idle" /\ rows = EmptyBag /\ stream = {}
  /\ crashes = 0 /\ failures = 0

\* POST /replay/start: refused while one is running; the task starts later.
Request(r) ==
  /\ r \in Requests /\ phase[r] = "new"
  /\ status # "running"
  /\ phase' = [phase EXCEPT ![r] = "created"]
  /\ UNCHANGED <<source, todo, status, rows, stream, crashes, failures>>

\* run(): only now the status says so.
Begin(r) ==
  /\ phase[r] = "created"
  /\ phase' = [phase EXCEPT ![r] = "reading"]
  /\ status' = "running"
  /\ UNCHANGED <<source, todo, rows, stream, crashes, failures>>

\* sih-ntd replay --stream.
Command(r) ==
  /\ r \in Commands /\ phase[r] = "new"
  /\ phase' = [phase EXCEPT ![r] = "reading"]
  /\ UNCHANGED <<source, todo, status, rows, stream, crashes, failures>>

Read(r) ==
  /\ phase[r] = "reading" /\ ~Reading[source].raises
  /\ phase' = [phase EXCEPT ![r] = "handling"]
  /\ todo' = [todo EXCEPT ![r] = Script(r)]
  /\ UNCHANGED <<source, status, rows, stream, crashes, failures>>

\* Mutant: the error of a replay is not caught.
FailsSilently(r) ==
  /\ phase[r] \in {"reading", "handling"}
  /\ \/ phase[r] = "reading" /\ Reading[source].raises /\ UNCHANGED failures
     \/ failures < MaxFailures /\ failures' = failures + 1
  /\ phase' = [phase EXCEPT ![r] = "failed"]
  /\ todo' = [todo EXCEPT ![r] = <<>>]
  /\ UNCHANGED <<source, status, rows, stream, crashes>>

\* Mutant: the events outlive the replay that failed.
FailsWithEvents(r) ==
  /\ phase[r] \in {"reading", "handling"}
  /\ \/ phase[r] = "reading" /\ Reading[source].raises /\ UNCHANGED failures
     \/ failures < MaxFailures /\ failures' = failures + 1
  /\ phase' = [phase EXCEPT ![r] = "failed"]
  /\ status' = IF r \in Requests THEN "failed" ELSE status
  /\ UNCHANGED <<source, todo, rows, stream, crashes>>

\* A time that is no number, Zeek, the store or Redis ends the replay.
Fails(r) ==
  /\ phase[r] \in {"reading", "handling"}
  /\ \/ phase[r] = "reading" /\ Reading[source].raises /\ UNCHANGED failures
     \/ failures < MaxFailures /\ failures' = failures + 1
  /\ phase' = [phase EXCEPT ![r] = "failed"]
  /\ todo' = [todo EXCEPT ![r] = <<>>]
  /\ status' = IF r \in Requests THEN "failed" ELSE status
  /\ UNCHANGED <<source, rows, stream, crashes>>

Part(s) == SubSeq(s, 1, Min({PersistEvery, Len(s)}))
Rest(s) == SubSeq(s, Min({PersistEvery, Len(s)}) + 1, Len(s))

\* INSERT OR IGNORE.
Insert(table, ids) == table (+) SetToBag(ids \ DOMAIN table)

\* Mutant: what is left in the buffer at the end is not persisted.
PersistFull(r) ==
  /\ r \in Requests /\ phase[r] = "handling" /\ Len(todo[r]) > 0
  /\ rows' = IF Len(todo[r]) < PersistEvery THEN rows ELSE Insert(rows, Members(Part(todo[r])))
  /\ todo' = [todo EXCEPT ![r] = Rest(@)]
  /\ UNCHANGED <<source, phase, status, stream, crashes, failures>>

\* handle_events: whenever the buffer is full, and at the end.
Persist(r) ==
  /\ r \in Requests /\ phase[r] = "handling" /\ Len(todo[r]) > 0
  /\ rows' = Insert(rows, Members(Part(todo[r])))
  /\ todo' = [todo EXCEPT ![r] = Rest(@)]
  /\ UNCHANGED <<source, phase, status, stream, crashes, failures>>

\* publish_events: likewise.
Publish(r) ==
  /\ r \in Commands /\ phase[r] = "handling" /\ Len(todo[r]) > 0
  /\ stream' = stream \cup Members(Part(todo[r]))
  /\ todo' = [todo EXCEPT ![r] = Rest(@)]
  /\ UNCHANGED <<source, phase, status, rows, crashes, failures>>

\* A worker persists an event of the stream (StreamWorker.tla).
Consume(id) ==
  /\ id \in stream
  /\ rows' = Insert(rows, {id})
  /\ stream' = stream \ {id}
  /\ UNCHANGED <<source, phase, todo, status, crashes, failures>>

Complete(r) ==
  /\ phase[r] = "handling" /\ todo[r] = <<>>
  /\ phase' = [phase EXCEPT ![r] = "completed"]
  /\ status' = IF r \in Requests THEN "completed" ELSE status
  /\ UNCHANGED <<source, todo, rows, stream, crashes, failures>>

Over(r) == phase[r] \in {"completed", "failed", "dead"}

\* The API process ends with all its replays; its successor is idle.
ApiCrash ==
  /\ crashes < MaxCrashes
  /\ phase' = [r \in Runs |-> IF r \in Requests /\ phase[r] # "new" /\ ~Over(r)
                              THEN "dead" ELSE phase[r]]
  /\ todo' = [r \in Runs |-> IF r \in Requests THEN <<>> ELSE todo[r]]
  /\ status' = "idle"
  /\ crashes' = crashes + 1
  /\ UNCHANGED <<source, rows, stream, failures>>

CommandCrash(r) ==
  /\ r \in Commands /\ phase[r] # "new" /\ ~Over(r) /\ crashes < MaxCrashes
  /\ phase' = [phase EXCEPT ![r] = "dead"]
  /\ todo' = [todo EXCEPT ![r] = <<>>]
  /\ crashes' = crashes + 1
  /\ UNCHANGED <<source, status, rows, stream, failures>>

Step(r) == Begin(r) \/ Read(r) \/ Fails(r) \/ Persist(r) \/ Publish(r) \/ Complete(r)

Next ==
  \/ \E r \in Runs : Request(r) \/ Command(r) \/ Step(r) \/ CommandCrash(r)
  \/ \E id \in stream : Consume(id)
  \/ ApiCrash

\* A replay that the API has started goes on; nobody has to start one, and no
\* command, worker or crash is owed.
Fairness == \A r \in Requests : WF_vars(Step(r))

Spec == Init /\ [][Next]_vars /\ Fairness
-----------------------------------------------------------------------------
(* Properties.                                                              *)

TypeOK ==
  /\ source \in Captures \cup Scenarios
  /\ phase \in [Runs -> {"new", "created", "reading", "handling", "completed", "failed", "dead"}]
  /\ \A r \in Runs : todo[r] # <<>> => phase[r] = "handling"
  /\ status \in {"idle", "running", "completed", "failed"}
  /\ crashes \in 0..MaxCrashes /\ failures \in 0..MaxFailures

\* When a replay of the source is completed, another one inserts no event again, be it
\* at work at the same time, repeated, published and consumed late, or dead half-way:
\* "the same seed must produce byte-identical events so replays are idempotent"
\* (synthetic.py:49-51).  This is so of scenarios and of the lines of a capture that
\* have no uid; the ids of the others come from uids that each run of Zeek draws anew.
ReplayIsIdempotent ==
  [][(\E r \in Requests : phase[r] = "completed") =>
       \A id \in DOMAIN rows' :
         rows'[id] = 1 /\ (id \in DOMAIN rows \/ id.uid # NoUid)]_vars

\* A replay has stored a line: under an id of its own run, if that is made from a uid.
Stored(r, line) ==
  \E id \in DOMAIN rows :
    /\ id.ts = line.ts /\ id.uid = line.uid
    /\ IF line.uid = NoUid THEN id.flow = line.flow /\ id.run = NoRun ELSE id.run = r

\* A replay that says it is completed has stored every event of a scenario, every valid
\* connection, and every session that is only in a protocol log (ingest.py:362-363),
\* including the part of a buffer that was left at the end (pipeline.py:214-215).
CompletedIsStored ==
  \A r \in Requests : phase[r] = "completed" =>
    IF source \in Scenarios
    THEN \A line \in Members(source.generated) : Stored(r, line)
    ELSE /\ \A line \in Members(source.conn) :
              Valid(line) /\ line.uid \notin Uids(source.dns) => Stored(r, line)
         /\ \A u \in Uids(source.dns) \ Uids(source.conn) :
              (\A line \in Members(source.dns) : line.uid = u => Valid(line))
                => \E line \in Members(source.dns) : line.uid = u /\ Stored(r, line)

\* The pipeline gets events in the order of their times, as its windows assume
\* (windows.py:9-10), and of a capture no record again that is among the latest three
\* quarters of the dedup memory (ingest.py:160-168).
EventsInOrderOnce ==
  \A r \in Runs : \A i, j \in 1..Len(todo[r]) : i < j =>
    /\ todo[r][i].ts <= todo[r][j].ts
    /\ source \in Captures /\ todo[r][i] = todo[r][j]
         => j - i > DedupCapacity - (DedupCapacity \div 4)

\* A replay ends, and the status route says so: "running" for ever would refuse
\* every later replay (api.py:492, 514-516).
ReplaysEnd == <>[](status # "running")

\* "a replay is already running" (api.py:493): there is at most one.
OneReplayAtATime ==
  Cardinality({r \in Requests : phase[r] \in {"reading", "handling"}}) <= 1

\* "the same PCAP twice does not duplicate rows, because event_id is derived
\* deterministically" (store.py:234-236): when a replay is completed another one leaves
\* the rows as they are, whatever the source.
SamePcapTwice ==
  [][(\E r \in Requests : phase[r] = "completed") => rows' = rows]_vars

\* "A single DNS flow can carry many queries; include the name so each query is
\* its own event" (ingest.py:201-202).
EachQueryIsAnEvent ==
  \A r \in Requests : phase[r] = "completed" /\ source \in Captures =>
    \A line \in Members(source.dns) : Valid(line) /\ line.uid # NoUid =>
      \E id \in DOMAIN rows : id.uid = line.uid /\ id.name = line.name

\* "a record that fails is rejected and counted" (ingest.py:10-11): one bad record
\* does not end the replay of the others.
BadRecordsAreSkipped ==
  failures = 0 => \A r \in Runs : phase[r] # "failed"
=============================================================================
