# A verification project for wire-clone

TLA+ models of the passive network threat detector in `src/sih_ntd` (and of the
console's alert socket in `src/frontend`), checked with TLC and proved with
TLAPS.  Every definition is translated from the source; `PROJECT.json` names the
lines behind each one, and lists every component, hazard, run and theorem.

Contents: 1 the system, 2 the plan, 3 modules and code, 4 runs, 5 bounds,
6 fairness, 7 disagreements with the documents, 8 proofs, 9 what is left out.

## 1. The system

```
 sensors / replay ──> Normalizer ──> Redis stream network.normalized
                                          │ consumer group
                                          v
                     worker: FeatureEngine -> detectors -> ThreatFusion
                                          │                     │
                               SQLite store (events, alerts,    └─> stream network.alerts
                               incidents, audit rows, feedback)          │
                                          │                              v
                                   FastAPI: REST  ───────────────  WebSocket tail ──> console
                                          │
                              model registry + promotion gate (joblib, json)
```

| component | state it keeps | operations | what is hard | what makes it correct |
|---|---|---|---|---|
| event fabric (`streaming.py`) | stream, consumer group, pending list with delivery counts, `<stream>.dlq` | publish, read, reclaim, ack, dead_letter, ensure_group, delete | redelivery, poison entries, trimming, a vanished group, two workers | nothing is acknowledged that is not stored, parked or removed; deliveries are bounded; every entry is settled |
| worker loop (`pipeline.py`) | current batch, open windows, `_pending_flush` | run_worker, handle_events, flush_open_windows | crash between any two steps | acknowledged only after persisted; every window evaluated once the stream is quiet |
| fusion (`fusion.py`) | dedup entries, subjects with their recent results, incidents | ingest, expire | out-of-order time stamps, restart, eviction, bucketed ids | one alert per burst of events; no shadow result alerts; incidents list the alerts they are made of |
| store (`store.py`) | SQLite tables | insert_*, touch_alert, set_alert_status, upsert_incidents, prune | idempotence under redelivery, append-only history, several writers | redelivery adds no row and no CREATED entry, history agrees with the rows |
| windows, trackers, baselines (`windows.py`, `baselines.py`) | deques, bounded maps | add, expire, touch | out-of-order items, capacity, evict and return | a vector holds what its window holds; the most recent entities are tracked |
| feature engine (`features/engine.py`) | per-entity windows, last emission | process, flush | emission rate limit, flush, late events | no burst goes unevaluated |
| detectors (`detectors/`) | loaded model artefacts | evaluate, shadow_evaluate | a failing detector, a bad artefact, a feature the flush lacks | isolation; what is reported happened, what happened is reported |
| model serving (`detectors/dga.py`, `ml/shadow.py`) | champion and challenger in memory, recorded scores | load at start, evaluate, shadow_evaluate, compare | two reads with promotions between them, a damaged artefact, a registry that changes under running processes | only promoted models raise alerts; a restart serves what the log says |
| model registry (`ml/registry.py`, `ml/governance.py`) | metadata files, promotion log | register, promote, set_status, rollback, load | several file writes per transition, concurrent requests, crash | at most one champion; no worse champion unnoticed; rollback restores the predecessor |
| feedback, datasets, training (`ml/dataset.py`, `ml/training.py`) | feedback rows, consumed marks, dataset files | submit, build, save, register | which label wins, what is marked, two builders, crash half-way | no leakage between parts; a model's data are marked and on disk |
| ingestion (`ingest.py`, `sensor/`) | dedup ring | read, correlate, normalize, is_duplicate | capacity of the ring, bad records | every valid record is an event, once, in time order |
| replay (`sensor/replay.py`, `sensor/synthetic.py`, `api.py`, `cli.py`) | status, the events table | start, persist in parts, complete, fail | two at once, failure half-way, repetition | a repeated scenario adds nothing; the status ends |
| alerts socket (`api.py`) | sessions, `last_id` | accept, XREAD, send, keepalive | publications between two XREADs | a session skips and repeats nothing |
| console list (`use-alert-stream.ts`, `alerts-client.tsx`) | alert list, socket, label | connect, message, close, poll, merge | reconnections, an answer overtaken by a message | stored alerts, once each, converging to the store |
| REST reads, drift, reports, benchmarks, metrics, synthetic traffic, command line, other pages | none that outlives a call | queries and statistics | floating point, formatting | not modelled, section 9 |

Interactions: the sensor side and replays publish on the stream (or, in
process, call the pipeline); workers read through one consumer group, write the
store and publish alerts; API processes read the store and tail the alert
stream; the console talks to the API only; training reads feedback and writes
registry files, which the detectors of every process load when it starts and
never again.  The shared state is Redis,
one SQLite file and the registry directory.  Nothing spans two of these in a
transaction, and the registry has no lock: that is where the hazards are.

## 2. The plan

Ordered by what a failure costs: a lost event, a lost or wrong alert, a wrong
model, a wrong screen.

| step | module | composes | properties aimed at | state |
|---|---|---|---|---|
| 1 | `AtLeastOnce` | (abstract) | the promise of the fabric | done, its refinement proved |
| 2 | `StreamWorker` | fabric, worker loop, events table; refines `AtLeastOnce` | no loss, bounded deliveries | proved |
| 3 | `EndToEnd` (EXTENDS `StreamWorker`) | the above with detection, fusion memory, alerts table and alert stream under an endless producer | stored means reported, settlement, windows | safety proved |
| 4 | `AlertLedger` | (abstract) | the promise of the alert tables | done, its refinement proved |
| 5 | `Fusion` | fusion, alert tables, publication; refines `AlertLedger` | one alert per burst, audit trail, incidents | proved |
| 6 | `Registry` | registry, gate, rollback | champions, log, versions | proved |
| 7 | `Serving` (EXTENDS `Registry`) | registry with the processes that load and run its models | who raises alerts, restarts | proved |
| 8 | `Engine`, `Detection` (EXTENDS `Engine`) | windows, engine, mesh, both flushes | quiet or over means judged and reported | proved |
| 9 | `AlertFeed` | store, alert stream, socket, console | sequence, convergence | safety proved |
| 10 | `Replay` | ingestion, both replay paths, events table | idempotence, completeness, end | safety proved |
| 11 | `Learning` | feedback, datasets, training, registration | leakage, marks, files | proved |

The rest of the code has no state of its own that a property could be about
(section 9).

No module uses a RECURSIVE operator, so all of them can carry theorems; what is
still only model-checked, and why, is at the end of section 8.

## 3. Modules and code

**`AtLeastOnce`.**  Entries announced, owed, recorded, parked, gone.  It knows no
stream and no worker: nothing owed is crossed off unless it is recorded, parked
or gone.

**`StreamWorker`** (`streaming.py`, `pipeline.py:259-302`).  An entry is its
position in the stream.  `stream`, `group`, `cursor`, `pel`, `deliveries`,
`idle`, `dlq` are the Redis side, `stored` the events table, `pc`, `batch`,
`todo`, `dead`, `open`, `dirty`, `warm` the local state of each worker.  One action per
Redis command, store transaction or event: `ReadBatch`/`ReadNothing` (XREADGROUP),
`DecodeBad`, `ListPoison` (XPENDING), `DeadLetterPoison` and `AckDead` (the two
halves of `dead_letter`), `Claim` (XAUTOCLAIM), `Reject`, `Validated`,
`HandleEvent` (the first event of a process is always evaluated, as an entity without an
earlier emission emits; a later one may be inside the emit interval), `Die` (an event that kills its process), `Persist`, `Ack`,
`Flush`, `Leave`.  The environment: `Publish` with approximate trimming,
`DeleteStream`, `Age`, `Start`, `Crash`, `ReclaimFails`.

**`EndToEnd`** (`pipeline.py:106-124`, `187-243`).  `StreamWorker` with, for each
worker, the alerts it remembers (`known`) and those of its outcome still to be inserted
and published.  `ProcessEvent` is `HandleEvent` and what fusion makes of it,
`InsertAlerts` and `PublishAlerts` are the two remote calls of `_apply_outcome`, and
the worker's other steps wait for them.  Detection is reduced to "some events are
flagged"; windows are `StreamWorker`'s.  The producer has no end: `Renumber`
gives the number of the newest entry, once it is settled and evaluated, to the next
one, so N bounds the entries that still matter.

**`AlertLedger`.**  Alerts opened once, bumped, judged, told.  `Fusion!Ledger` maps
`rows`, `audit` and `feed` to it: a transaction of `Fusion` is one action of the
ledger or a stutter, and a crash is a stutter.

**`Fusion`** (`fusion.py`, `pipeline.py:160-167`, `222-243`, tables of `store.py`).  A
round is one event, at its time (`Begin`), or one vector of an idle flush
(`FlushOpenWindows`, then `FlushNext` for each entity), at the time the entity was last
seen, which may be older than any number of events.  It expires, then fuses each result
in any order, one of a key at most (a detector accepts one vector of an entity per event), as
`Weak`, `Suppress` or `Raise`; then come `StoreAlerts`, `PublishAlerts`, `TouchAlert`
and `StoreIncidents`, one transaction each.  `states` is the engine's map of entities
with their last times, as far as flushes need it; `Contacts` are the entities an event
touches.  `dedup` and `subjects` are the LRU maps as sequences in order of their last
touch; `rows`, `audit`, `incidents`, `feed` outlive a `Crash`.  `SetStatus` is the
analyst.  An alert id is its key and its time bucket, as in `_alert_id`.  The flush at
the end of `handle_events`, which only replays inside a process ask for, uses one time
for all entities and is left to `Detection`.

**`Registry`** (`ml/registry.py`, `ml/governance.py`, `api.py:362-403`,
`cli.py:142-171`).  A step reads the directory once, looks for an artefact
(`CheckArtifact`) or writes it (`Dump`), truncates a file, fills it, or appends a log line.  An operation is a `plan` of `set_status` calls; `from` and
`incumbent` are what was read at its start.  `overlapped` is a history variable:
whether two operations were ever under way at once.

**`Serving`** (`dga.py:55-176`, `registry.py:179-242`, `ml/shadow.py`).  A process
that starts reads the champion (`LoadChampion`), then the challenger
(`LoadChallenger`), each one listing of the directory; `Damaged` versions are those
`load` refuses.  `Score` records what `evaluate` and `shadow_evaluate` store.
`settled` is a history variable: no operation touched the registry since the
process started to read it.

**`Engine`, `Detection`** (`features/engine.py`, `windows.py`, `detectors/`,
`pipeline.py:106-220`).  Every event updates source, destination and pair; a
window is the sequence of the numbers of its events, so that every count is a
function of it.  `Process`, `Flush` (`flush_open_windows`) and `Finish` (the end of
`handle_events`) produce vectors (`out`), `Evaluate` and `Shadow` take them through
the ready detectors to `results`.  `source` tells a stream from a capture and a
capture that is over.  Detectors are the
conditions under which they return a result, with thresholds that count events.

**`AlertFeed`** (`pipeline.py:222-233`, `api.py` alerts socket and `GET /alerts`,
`use-alert-stream.ts`, `alerts-client.tsx`).  `Read` resolves the cursor,
`ReadReturns`/`ReadTimesOut` end an XREAD, `Send` puts one message on the wire;
`Receive` merges it into the list; `Ask`/`Answer`/`AnswerFails` poll.  `Break`,
`Closed`, `Reconnect`, `Leave` are the life of a socket.  An alert is published once at
most: a batch delivered again publishes its alerts again under the same ids
(`pipeline.py:228-233`), which the merge by id takes for the same row, and that second
entry would make the run too large.

**`Replay`** (`ingest.py`, `sensor/replay.py`, `sensor/synthetic.py`, `api.py:485-520`,
`cli.py`).  All replays are of one `source`, a capture or a scenario.  `Events(source)` is the
pure part, as operators.  Of a capture: lines of one uid merged (`ByUid`, in the
dictionary's order, `Inserted`), the stable sort (`Sorted`), normalization and the dedup
memory with its eviction (`Normalized`); of a scenario, which passes no normalizer, the
sorted events of its generators (`Generated`).  An event id is made of the time, the name
and the uid, or the flow where there is no uid (`EventId`).  Zeek runs anew for each replay and
draws other uids each time: `Drawn` marks an id that is made from a uid with its run.  The
actions are the requests, the reading, and the persisting in parts, through the API
(`Persist`, `Complete`, `Fails`, `ApiCrash`) or the stream (`Command`, `Publish`,
`Consume`, `CommandCrash`).

**`Learning`** (`store.py` and `api.py` feedback, `ml/dataset.py`,
`ml/training.py`).  `Submit`; `BuildLab`, `BuildFromFeedback` (query), `Mark`; `Open` and
`Fill` for each file of `save_dataset` (`open("w")` truncates in place, the rows follow);
`Register`, `Crash`.  `disk` says of each file whose content it has, or which builder cut
it last.  Two builders may have one file open: what they leave is the rows of one or a
torn file (`Shared`).  A dataset id is made of the same parts as in the code, which is
why two datasets may share one.  `begun` and `broken` are history: what was begun to be
saved, and under which ids a builder died with a file open.

**`Filter`** holds what the code does with lists everywhere: the comprehension
that selects (`Only`), `+=` (`Joined`) and `list.sort` by a key (`SortedBy`), as recursive
functions and a choice that the prover can expand, where the community modules' operators
cannot be.

`*Proofs` modules hold the theorems of section 8, `DataProofs` the lemmas about `Filter`
that they share.

`MC*` modules hold the values of the larger constants.  Definitions marked
*Mutant* are plausible bugs of the operator after them; a run that checks a
property must fail with the mutant in place.

## 4. Runs

| run | properties | what it shows | distinct states |
|---|---|---|---|
| `StreamWorker_group` | TypeOK, Accounting, PromiseKept | with two workers and every fault, the account of entries balances between any two commands, and `AtLeastOnce` is refined | 1 197 000 |
| `EndToEnd_live` | DeliveryBound, StoredIsReported, SettledIfPauses, WindowsCloseIfPauses | under an endless producer: an entry that kills its workers is delivered a bounded number of times; an event in the store has its alert in the table and on the stream; if the stream pauses now and then, every entry is settled and no live worker's window stays open | 240 000 |
| `StreamWorker_doc_windows` | ClaimedEventsSurviveCrash **violated** | the second of two events within one emit interval is stored and acknowledged without being evaluated, and forgotten by detection when its worker dies | |
| `Fusion_burst` | TypeOK, OneAlertPerBurst, CountsFollowAudit, IncidentLinksBack | one worker, ordered events, idle flushes between them: an alert raised by an event is more than a dedup window after every earlier one of its key, counters equal the history, alert and incident name each other | 4 876 000 |
| `Fusion_faults` | LedgerKept, IncidentsBacked | with two workers, late events, flushes, eviction, crash, redelivery and an analyst, `AlertLedger` is refined, and incidents agree with the alerts table | 621 000 |
| `Serving_registry` | TypeOKServing, OneChampionInTurn, LogLagsByCrashes, ChampionNeverWorse, SupersededIsNamed, NextVersionIsFree, ServedWasPromoted, RestartServesTheRecord | five operations at once or in turn, a death between any two file operations, a process that loads in between | 1 643 000 |
| `Detection_mesh` | TypeOK, VectorsBracketTruth, QuietMeansJudged, QuietMeansReported, ReportedFloodIsReal | a stream or a capture, late events, a full map, rate limit, both flushes, a detector that raises | 348 000 |
| `Detection_doc_exfil` | ExfiltrationReported **violated** | uploads that end between two ticks are never reported | |
| `AlertFeed_console` | TypeOK, SentInSequence, OnScreenIsStoredOnce, ScreenConverges, BackToLive | a feed that breaks and a poll that may fail or be overtaken | 968 000 |
| `Replay_idempotent` | TypeOK, ReplayIsIdempotent, CompletedIsStored, EventsInOrderOnce, ReplaysEnd | three replays of each of 25 captures and three scenarios at once, failing, dying, repeated: once one is completed, nothing is inserted again but what a new run of Zeek has given another uid | 413 000 |
| `Learning_factory` | TypeOK, NoLeakage, UsedIsMarked, RegisteredIsOnDisk | two builders, a submission while they run, older or newer, new or in the place of another, a death with a file open or not | 1 097 000 |
| `Learning_doc_leakage` | NoNameOnBothSides **violated** | a name of a DGA family is in the training and the test part | |

Every property is preceded by a comment that states it; every property of a
passing run has a mutant in `PROJECT.json` that breaks it.

## 5. Bounds

Every bound is a constant named "bound" where it is declared.

- `StreamWorker_group`: 3 entries, 2 workers, batches of 2.  Three entries let one
  be trimmed, one pending and one waiting; two workers are what stealing and the
  double acknowledgement need.  One crash, one Redis error, one deletion: two
  crashes add only repetitions of the same local state, as a crash clears it.
  The proofs of section 8 remove these bounds for the safety properties.
- `EndToEnd_live`: 2 entries, the first a killer, no bound on its kills: the
  delivery count bounds them.  The second stands for every later one, as its number
  is given back.  COUNT covers the pending list, as 64 does while no more entries
  are pending.
- `Fusion_burst`: times 1..5 with a window of 2 and an idle limit of 3 contain
  "exactly one window old", "just over", and three time buckets; four events let an
  entity's alert be bumped, expire under another entity's event and be met by a flush.
  The map of entities holds both, and a flush may follow every event.  `Fusion_faults`
  has times 1..3, two events and capacity 1, so that every new key evicts.
- `Serving_registry`: three versions are the fewest with a champion, its
  successor and a third that names one of them; five operations are three
  registrations and two transitions, or two and three with a rollback.  One
  process: processes do not see each other.
- `Detection_mesh`: events at five times, windows of one and two intervals, lateness of at most
  one half-interval (`VectorsBracketTruth` needs it below an interval); four
  entities of the map against up to seven that events touch.
- `AlertFeed_console`: three alerts, XREAD count 2, list limit 2: one batch and
  one row more than fit.
- `Replay_idempotent`: 20 combinations of two logs with every kind of bad line, lines
  without a uid, a flow with two queries, a session whose last line lacks what an earlier
  one has, three captures longer than the dedup memory, three scenarios with events of one
  time and of one id; parts of two events.
- `Learning_factory`: four alerts are the minimum with a non-empty part each; two
  lab runs share an id.  Eight submissions: a second verdict that is older or newer, one
  withdrawn, one moved to another alert, one of another detector.

Thresholds and windows are scaled: as in `FusionSettings`, the dedup window is not longer
than the correlation window, and that is not longer than the idle limit (the proofs assume
no order).

## 6. Fairness

Only liveness runs assume any.

- `EndToEnd` (`FairSpecE2E`): weak fairness of a worker's start
  (`docker-compose.yml:54`, `restart: unless-stopped`), of its next step, and of
  the clock (`Age`).  Producers, crashes and `Renumber` are never forced.  Nothing
  says that a producer pauses, so that is no fairness but a hypothesis of the
  properties (`Pauses`): every worker meets an empty read, or is down, again and again.
- `AlertFeed` (`LiveSpec`): weak fairness of the worker that stored an alert,
  of the two event loops and of the two timers (reconnection, polling); strong
  fairness of `Answer`, that is, requests do not fail for ever.  An alert may
  instead never be published (`LosePublication`).  Polling stops in a hidden
  tab, so "in the end" means in a visible one.
- `Replay`: weak fairness of the steps of replays started through the API, which
  run in a task of the API process.  Commands may stop for ever.
- `Serving` (`FairSpecServing`): only for `ProcessesComeUp` (section 7): weak fairness of
  a process that loads its models and of operations under way.

## 7. Disagreements with the documents

Three are runs (section 4), with a finding each: windows lost in a crash (an event within
the emit interval of another, acknowledged and not yet evaluated), uploads that a flush cannot report, and one name repeated on both sides of a split.

These are stated in the modules, violated by the models under the constants of
the run named (TLC finds the counterexample when the property is put into its
configuration), and are not runs of their own:

| property | document | what the code does | constants |
|---|---|---|---|
| CrashedWorkIsPickedUp | `streaming.py:12-14`: entries not acknowledged are reclaimed "after `claim_idle_ms`, so a crashed consumer's work is picked up" | only an empty read reclaims (`pipeline.py:272-274`): with a producer that never pauses, the entries of a dead worker stay pending for ever | `EndToEnd_live`, MaxCrashes 0 or 1 |
| DeliveryBound, with more entries pending than COUNT | `docs/ARCHITECTURE.md:135`, `streaming.py:14-15` | XPENDING (`streaming.py:178`) lists the oldest 64 of all pending entries, XAUTOCLAIM takes the oldest idle ones: a poison entry behind 64 young ones is claimed again and again | `EndToEnd_live`, ClaimCount 1, N 3 |
| DeliveredAtMostMaxDeliveries | `docs/ARCHITECTURE.md:135`: "after `max_deliveries` attempts" | `>` and a list computed before the claim (`streaming.py:190`): one delivery more, and one per further worker | `StreamWorker_group` |
| PoisonKillsConsumers | `streaming.py:172-173`: "something about it makes a consumer die" | what shares a batch with such an entry is counted and parked with it | `StreamWorker_group` |
| DeadLetteredIsUnprocessed | `streaming.py:222`: "unprocessable" | the poison list is stale: an entry another worker has just stored is parked | `StreamWorker_group` |
| OneAlertPerBurstAlways | `fusion.py:9-11` | an idle flush fuses each entity's vector at the entity's own last time (`pipeline.py:160-167`, `engine.py:523`): an alert at 1 bumped at 2, an event of another entity at 5 that expires the dedup entry, and the flush raises a second alert at 2 | `Fusion_burst` |
| CountsFollowAuditAlways | `store.py:315-317` | the alert of that flush may have the id of the one in the table: its row stays, and what bumps the new entry counts from one again | `Fusion_burst` |
| OneAlertPerBurst, across a restart or with late events | `fusion.py:9-11`, `docs/SECURITY_AUDIT.md:158` (ids that "extend idempotency across worker restarts") | the id holds a time bucket (`fusion.py:242`): the results redelivered after a crash may fall on another first result and another bucket | `Fusion_burst` with one crash |
| LastSeenAdvances | `docs/ALERT_SCHEMA.md:118` | a late result moves it back (`fusion.py:186`) | `Fusion_faults` |
| HistoryStartsWithCreated | `tests/integration/test_pipeline.py:44` | histories are ordered by time stamp, a status change is stamped 0.0 (`store.py:331`) | `Fusion_faults` |
| IncidentIdSet | `docs/ALERT_SCHEMA.md:126` | the first alert of an incident was stored before the incident existed (`fusion.py:236`) | `Fusion_burst` |
| EvictsLeastRecent | `docs/ARCHITECTURE.md:136` | a duplicate is found by `get`, which does not touch (`fusion.py:184`): the busiest burst may be evicted first | `Fusion_faults` |
| AtMostOneChampion | `docs/CONTINUOUS_LEARNING.md:144` | two promotions at once both read the incumbent, then both write (`registry.py:266`) | `Serving_registry` |
| RollbackUndoes | `registry.py:297`: "the champion that the current one replaced" | the log is searched for the last record that names a predecessor (`registry.py:303`), a rollback's own included: rolling back twice returns to the model rolled back from | `Serving_registry`, one operator, no process, 9 operations |
| BadChallengerSparesChampion | `pipeline.py:142`: "shadow must never affect production" | one except clause covers both loads (`dga.py:81-84`): a challenger that load refuses clears the champion | `Serving_registry`, Damaged {2}, 4 operations |
| ComparesTheNamed | `ml/shadow.py:3-5` | scores are selected by detector and shadow flag (`store.py:635-650`), not by version: those of former champions and challengers are compared | `Serving_registry`, Damaged {2} |
| ProcessesComeUp | `docs/ARCHITECTURE.md:132` | a metadata file a crash has truncated is an error that `_load` does not catch (`dga.py:83`): no worker and no API process starts until it is repaired | `Serving_registry`, `FairSpecServing`, 2 operations, no symmetry |
| BurstsReachDetectors | `docs/ARCHITECTURE.md:140-142`, `engine.py:515-517` | the end of `handle_events` closes every window at the time of the last event (`pipeline.py:207`): a burst of a capture that ended a window before is never judged, while a worker reading the same events judges it | `Detection_mesh`, MaxLate 0, Capacity 6 |
| FullFeed | `api.py:534-537`: "each get the full feed", "from now on" | `$` is resolved again at every XREAD before the first alert (`api.py:543`): what comes between two of them is not sent | `AlertFeed_console` |
| OneReplayAtATime | `api.py:493`: "a replay is already running" | the status is set when the task starts, after the request was admitted (`api.py:492`) | `Replay_idempotent` |
| SamePcapTwice | `store.py:234-236`: "the same PCAP twice does not duplicate rows, because event_id is derived deterministically" | each replay runs Zeek (`replay.py:123-130`), whose uids differ per run, and `derive_event_id` uses the uid (`ingest.py:191-198`): the same capture again adds a row for every connection | `Replay_idempotent` |
| EachQueryIsAnEvent | `ingest.py:201-202` | `by_uid` keeps one merged record per flow (`ingest.py:350`): of two queries of a flow the last remains | `Replay_idempotent` |
| BadRecordsAreSkipped | `ingest.py:10-11` | the sort calls `float` on the raw time stamp (`ingest.py:364`): one that is no number fails the whole replay | `Replay_idempotent` |
| RunIsReproducible | `dataset.py:445` | a dataset id is a seed or a time, and a size (`dataset.py:319`, `422`): another dataset overwrites the files, and a builder that dies in the same directory leaves one empty or cut (`dataset.py:453`) | `Learning_factory` |

Read in the code while modelling, without a property:

- `registry.py:115-117`: the check for an artefact and its writing are two steps, so of two
  trainers of one version the second may write over the artefact whose hash the first
  recorded; `load` then refuses it.  Which artefacts are refused is a constant of
  `Serving`, so the models do not show it.
- `api.py:377`: the gate report is computed before `set_status` and not again;
  `registry.py:282`: the log line follows the files, so a crash leaves a
  transition unlogged; `registry.py:269`: a crash after the retirement leaves no
  champion and nothing that names the retired one.  The runs bound both by the
  number of crashes.
- `registry.py:266`, `registry.py:282`: a promotion to challenger that read the status of a
  model before another operator made it champion writes CHALLENGER over it: the
  champion is lost, and the log says so of a status the model no longer had.
- `registry.py:269`: a worker that starts between the retirement of the old champion and
  the writing of the new one runs without a DGA model until it is restarted.
- `api.py`: `running_model_version` of the health route is the version the API process
  loaded, not the workers'; `docker-compose.yml` mounts the artefacts read-only
  where promotions would have to write.
- `dataset.py:394`: of several verdicts on an alert the oldest wins, because the
  query is newest first and the dictionary keeps the last.  `dataset.py:436`: all
  detectors' verdicts are marked as consumed, also those of samples not used; a verdict
  resubmitted between query and mark is marked unseen.
- `training.py:197` and `237` call the test part an unseen family; `build_dga_dataset`
  splits the training families, and the unseen family is a part of its own.
- `int(len * 0.7)` is one less than seven tenths for some sizes (90, 170, 180, ...).  Parts
  stay disjoint and complete.
- `pipeline.py:327`: `normalize_records` uses `Normalizer`, which the module does
  not import.  It has no caller.
- `pipeline.py:218-219`: `self.alerts` keeps every alert of the process, and each batch
  searches it for each of its alerts.
- Two workers share a group, so the events of one entity are divided between them,
  and each counts in its own windows what it happened to get.

## 8. Proofs

Each `*Proofs` module proves, for every value of the constants that its assumptions
admit, what the runs show on a small instance.  A proof starts from the inductive
invariant, has one lemma per action (what the action leaves of it), a step lemma
that splits `Next` into the actions, and ends with the temporal step.

**`EndToEndProofs`**, of `StreamWorker`: any number of entries, workers, crashes, faults and
deletions, any batch size, COUNT and payloads (`BoundsAssumption`,
`KindAssumption`, `WorkersAssumption`: constants are of their types, the workers
are finitely many).

- `TypeCorrect`; `AccountingInvariant`: `AccountedFor`, that every published entry
  is waiting, pending, stored, parked or gone, is not inductive: an XACK removes a
  pending entry and the formula does not say why that is safe.  `Accounting` adds
  that a worker about to acknowledge has stored its batch, that a half-done
  `dead_letter` has already parked its entry (or a deletion took it), that a
  pending entry outside the stream was trimmed, which is what lets XAUTOCLAIM drop
  it, and that the cursor is behind the publications.  `NothingDisappears` is its
  first conjunct.
- `PromiseRefinement`: `AtLeastOnce` is refined; each step is an Announce, Record,
  Park, Settle, Destroy or a stutter.
- `DeliveriesAreBounded`: `DeliveryBound` from `[]PendingListed`, that COUNT covers
  the pending list.  The bound alone is not inductive: `DeliveryAccount` says for
  every worker between listing the poison and claiming what may still be above the
  limit.  `DeliveriesAreBoundedByCount` needs no hypothesis on behaviours: `N <=
  ClaimCount` is enough.  Without either the bound is false (section 7).

The same module, of `EndToEnd`: `StoredEventsAreReported` from `Reporting`: an alert that a
worker would suppress, and the alert of an event that it has taken off its batch, is
in the table and on the stream, or in the outcome that the worker has still to
apply.  `DeliveriesAreBoundedByCountE2E` and `NothingDisappearsE2E` carry the
stream's theorems over to the whole, whose entries are renumbered.
Assumption: `FlaggedAssumption`.

**`FusionProofs`**: any signals, windows, LRU capacities, workers, crashes, late
events and verdicts (`WindowsAssumption`, `SignalsAssumption`, `NoneAssumption`).

- `TypeCorrect`, `IncidentsAreBacked`, `LedgerIsKept` (`AlertLedger` is refined)
  from `Kept`: all that a worker remembers or is about to write speaks of alerts that
  are stored or that it will store before it says anything else; the order of
  `_apply_outcome` is what keeps it.
- `IncidentsLinkBack`, for any workers, evictions and late events, as long as
  nobody crashes and no incident has more alerts than it lists (`Uncut`): otherwise
  the link is lost, by the code's design.  `LinkInv` says that what a worker will
  write of an incident lists all that was listed before, and that workers, and the
  subjects of a worker, do not share incidents.
- `BurstsAreOneAlert` and `CountersFollowAudit`, for one worker with events in the
  order of their times and idle flushes anywhere between them, as long as it does not
  crash and no dedup map is full (`Roomy`): a crash, a second worker, a late event or an
  eviction does break them, as dedup is a memory of one process.  A flush may raise an
  alert too many (section 7); what is proved is that it does not make an event do so.
  `Clocked` says that a round is not later than what the engine last saw of its
  entities, `Timely` that no alert, entry or row tells of a later time than that, which is
  what a round of the past needs.  `Remembered` relates the alerts raised to the entries: each
  alert of the last window is remembered by the entry of its key.  `Counted` relates
  the counters of rows, entries and waiting touches to the number of duplicates in the trail.

**`ServingProofs`**: any operators, processes, versions, qualities and deaths
(`RegistryAssumption`, `ServingAssumption`).  `TypeCorrect`, `NextVersionStaysFree`
(versions are registered one after the other, and an artefact without metadata has
an operator about to write them), `SupersededAreNamed`, `ServedWerePromoted` and
`LogLags` (each with a set of exceptions, one for every death at most: the two
files of a transition are not written at once), `OneChampion` and
`ChampionsNeverWorse` for operations in turn (`Turn` says what is true at each
program point of an operator that works alone), `RestartsServeTheRecord`
(`Settling`: what a process read is still the newest champion until an operation
begins).

**`AlertFeedProofs`** (`FeedAssumption`): `SessionsSkipNothing` and
`ScreenIsStoredOnce`, for any number of alerts, sessions and polls, from `FeedInv`:
an alert is anywhere only once it is stored (`Flow`), what an XREAD returned follows
the last entry sent (`Coroutine`), and only an open socket has an API at its other
end (`Connection`).

**`LearningProofs`** (`LearningAssumption`, `NoneAssumption`, `ReviewedAssumption`):
`NothingLeaks`, `UsedVerdictsAreMarked`, `RegisteredAreOnDisk`.  The last rests on
`Saved`: of a dataset under whose id nobody else saves and nobody died (`Undisturbed`), each
file is still in its builder's list or `Whole`, that is, the dataset's own or open in the
hands of the builder that cut it last.  The datasets are
functions of feedback through grouping, sorting and splitting, so most of the proof
is about sequences; the invariant says that every dataset in a builder's hands or
behind a model is sound, and that what is still to mark or to save is in the
builder's hands.

**`ReplayProofs`** (`ReplayAssumption`, `CapturesAssumption`, `ScenariosAssumption`):
`SecondReplayAddsNothing`, `CompletedReplaysAreStored`, `EventsComeInOrderOnce`, for
captures and scenarios of any length.  `EventsOfCapture` and `EventsOfScenario` are what
correlation, sort and normalization do to a source, with the dedup memory's eviction;
`Progress` says how far every replay has come, and `SameWithoutUid` that an id which holds
no uid is one of every run's.

**`DetectionProofs`** (`EngineAssumption`, `TemplatesAssumption`,
`DetectionAssumption`): any traffic, window and map sizes, thresholds and models.

- `TypeCorrect`, `QuietIsJudged`, and `VectorsAreRight` for events that are late by less
  than one interval.  None of them is inductive.  `EngineInv` says of each
  entity: its windows hold what it has observed, in order of arrival (`Rising`);
  only what its own younger events have outgrown is missing (`Whole`), which a late
  event cannot undo; `last_seen` is at most `MaxLate` behind (`Tracked`), so nothing is
  a whole interval younger than the last vector (`Punctual`), and a tick falls on a new
  maximum of the entity's time.  `VectorInv` says of the vectors of a step that each
  window begins with an event young enough (`Headed`): what is too old behind it came
  late.  That all three entities of an event stay in the map rests on `TouchKeeps`
  and on a capacity of three at least.
- `QuietIsReported`, if neither `ddos` nor `recon` is among the detectors that raise:
  when nothing is pending each entity has a vector of its last time (`Answered`), which
  the two have judged (`Heard`), and for events in order its windows are the truth, so
  that their lengths are the counts in question.
- `FloodsAreReal`: a window never counts more than what came in, and later events
  only add to that.

**`DataProofs`**: selection keeps the order and loses nothing, sorting permutes, a
set of naturals has a least element.  The prover has no induction over data, as the
library's theorems take an operator; a claim about every prefix of a sequence is
proved by looking at the least prefix for which it fails.  It cannot expand `SelectSeq`,
`SortSeq`, `:>` and `@@` either, which is why `Filter` has its own.

Only model-checked:

- liveness (`SettledIfPauses`, `WindowsCloseIfPauses`, `ScreenConverges`,
  `BackToLive`, `ReplaysEnd`): fairness and ENABLED are beyond the prover.  So is
  that the fair specifications imply progress of any kind;
- the properties that runs refute (section 7).

## 9. Not modelled

- Redis itself beyond the commands used, and SQLite beyond one atomic transaction:
  external, modelled from their use.  Between processes, each with a connection of
  its own, SQLite makes a transaction one step.  The threads of one API process
  share one connection without a lock (`store.py:189`, `204-211`), so there the
  commit or rollback of one request could cover the statements of another; that
  mixing needs a failing statement or a death between two statements to show,
  and is not modelled.
- `trim` and `consume` of the stream client: no code path calls them.
- Real-valued statistics (entropy, periodicity, EWMA baselines, drift, calibration
  and classifier metrics): TLC has integers.  The conditions of detectors are
  reduced to what counts can express; confidence is an integer where fusion
  compares it.
- Access control, argument parsing, schemas of single values, metrics, logging,
  report and evidence texts: stateless or never read back.
- Telemetry tables and retention (`prune`): single statements on rows nothing else
  depends on.
- Synthetic traffic generators, benchmarks, console pages other than the alerts page.
- Several consoles: their sessions share nothing but the store and the stream.
