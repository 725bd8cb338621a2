---------------------------- MODULE StreamWorker ----------------------------
(***************************************************************************)
(* The path of a normalized event from the Redis stream network.normalized *)
(* into the store: the stream, its consumer group and dead-letter stream    *)
(* (sih_ntd/streaming.py) and the workers that consume it (Pipeline.        *)
(* run_worker, sih_ntd/pipeline.py:259-302).                                *)
(*                                                                         *)
(* A step is one Redis command, one store transaction, or one event taken   *)
(* through the detectors: a worker can die, and another can run, between    *)
(* any two of them.  Entries are numbered in stream order.  The wall clock  *)
(* is abstracted to Age: a pending entry's idle time reaches claim_idle_ms. *)
(***************************************************************************)
EXTENDS Integers, FiniteSets

CONSTANTS
  Workers,        \* consumer names
  N,              \* number of entries ever published
  Kind,           \* what each entry's payload does, see KindAssumption
  BatchSize,      \* redis.batch_size: COUNT of XREADGROUP
  ClaimCount,     \* COUNT of XPENDING and XAUTOCLAIM (64 in reclaim)
  MaxDeliveries,  \* redis.max_deliveries
  MaxLen,         \* redis.stream_maxlen: MAXLEN ~ of XADD
  Bounded,        \* workers run with max_batches or idle_exit
  MaxCrashes,     \* bound: worker crashes
  MaxFaults,      \* bound: Redis errors inside reclaim
  MaxDeletes,     \* bound: deletions of the stream
  NoEntry

Entries == 1..N

ASSUME BoundsAssumption ==
  /\ N \in Nat /\ BatchSize \in Nat \ {0} /\ ClaimCount \in Nat \ {0}
  /\ MaxDeliveries \in Nat \ {0} /\ MaxLen \in Nat \ {0}
  /\ MaxCrashes \in Nat /\ MaxFaults \in Nat /\ MaxDeletes \in Nat
  /\ Bounded \in BOOLEAN /\ NoEntry \notin Entries

\* "undecodable": no payload field or not JSON; "invalid": not a
\* NormalizedEvent; "killer": a valid event that kills the process handling it,
\* "flaky": one that does so now and then.
ASSUME KindAssumption ==
  Kind \in [Entries -> {"event", "killer", "flaky", "invalid", "undecodable"}]

ASSUME WorkersAssumption == IsFiniteSet(Workers)

VARIABLES
  published,   \* number of entries published so far
  stream,      \* entries now in the stream
  group,       \* does the consumer group exist?
  cursor,      \* the group's last-delivered id
  pel,         \* the group's pending entries list
  deliveries,  \* times_delivered of each pending entry
  idle,        \* pending entries idle for claim_idle_ms or more
  dlq,         \* dead-letter stream: <<entry, reason>>
  lost,        \* entries removed by trimming or deletion while still owed
  stored,      \* entries whose event is in the events table
  evaluated,   \* entries whose windows some detector has evaluated
  pc,          \* where each worker is in run_worker
  batch,       \* its current batch
  todo,        \* what its current inner loop has still to visit
  dead,        \* the entry its dead_letter has added but not acknowledged
  open,        \* events in its windows that were never evaluated
  dirty,       \* its _pending_flush flag
  warm,        \* has it handled an event since it started?
  crashes, faults, deletes

redisVars  == <<stream, group, cursor, pel, deliveries, idle>>
pelVars    == <<pel, deliveries, idle>>
tableVars  == <<stored, evaluated>>
windowVars == <<open, dirty, warm>>
workerVars == <<pc, batch, todo, dead, open, dirty, warm>>
budgetVars == <<crashes, faults, deletes>>
vars == <<published, redisVars, dlq, lost, tableVars, workerVars, budgetVars>>

PC == {"down", "read", "decode", "reclaim", "claim", "decode_claimed",
       "validate", "handle", "ack", "flush"}

Reasons == {"undecodable", "invalid", "poison"}
-----------------------------------------------------------------------------
Waiting == {m \in stream : m > cursor}          \* never delivered by the group

DeadLettered == {m \in Entries : \E r \in Reasons : <<m, r>> \in dlq}

First(m, S) == m \in S /\ \A k \in S : m <= k

\* The n oldest members of S, all of S when it has fewer.
Oldest(S, n) ==
  {T \in SUBSET S :
     /\ \A t \in T, s \in S \ T : t < s
     /\ Cardinality(T) = IF Cardinality(S) < n THEN Cardinality(S) ELSE n}

\* XREADGROUP and XAUTOCLAIM: S is delivered once more, its idle time is reset.
Deliver(S) ==
  /\ pel' = pel \cup S
  /\ deliveries' = [m \in Entries |-> deliveries[m] + IF m \in S THEN 1 ELSE 0]
  /\ idle' = idle \ S

\* S leaves the pending entries list.
Forget(S) ==
  /\ pel' = pel \ S
  /\ deliveries' = [m \in Entries |-> IF m \in S THEN 0 ELSE deliveries[m]]
  /\ idle' = idle \ S

Goto(w, label) == pc' = [pc EXCEPT ![w] = label]

\* A worker between two statements: no dead_letter is half done.
At(w, label) == pc[w] = label /\ dead[w] = NoEntry

\* The first half of StreamClient.dead_letter: XADD to <stream>.dlq.
DeadLetter(w, m, reason) ==
  /\ dlq' = dlq \cup {<<m, reason>>}
  /\ dead' = [dead EXCEPT ![w] = m]

\* A process that ends takes its batch, its windows and its flags with it.
Stopped(w) ==
  /\ Goto(w, "down")
  /\ batch' = [batch EXCEPT ![w] = {}]
  /\ todo' = [todo EXCEPT ![w] = {}]
  /\ dead' = [dead EXCEPT ![w] = NoEntry]
  /\ open' = [open EXCEPT ![w] = {}]
  /\ dirty' = [dirty EXCEPT ![w] = FALSE]
  /\ warm' = [warm EXCEPT ![w] = FALSE]

Init ==
  /\ published = 0
  /\ stream = {} /\ group = FALSE /\ cursor = 0
  /\ pel = {} /\ deliveries = [m \in Entries |-> 0] /\ idle = {}
  /\ dlq = {} /\ lost = {}
  /\ stored = {} /\ evaluated = {}
  /\ pc = [w \in Workers |-> "down"]
  /\ batch = [w \in Workers |-> {}] /\ todo = [w \in Workers |-> {}]
  /\ dead = [w \in Workers |-> NoEntry]
  /\ open = [w \in Workers |-> {}] /\ dirty = [w \in Workers |-> FALSE]
  /\ warm = [w \in Workers |-> FALSE]
  /\ crashes = 0 /\ faults = 0 /\ deletes = 0
-----------------------------------------------------------------------------
(* The environment: producers, Redis, operators, time.                      *)

\* XADD with MAXLEN ~: trimming may drop the oldest entries, delivered or not,
\* and never leaves fewer than MaxLen.
Publish ==
  /\ published < N
  /\ published' = published + 1
  /\ \E cut \in 1..published' :
        LET kept == {m \in stream \cup {published'} : m >= cut} IN
        /\ cut = 1 \/ Cardinality(kept) >= MaxLen
        /\ stream' = kept
        /\ lost' = lost \cup {m \in Waiting \cup pel : m < cut /\ m \in stream}
  /\ UNCHANGED <<group, cursor, pelVars, dlq, tableVars, workerVars, budgetVars>>

\* delete_stream: the stream, its group and its dead-letter stream vanish.
DeleteStream ==
  /\ deletes < MaxDeletes
  /\ deletes' = deletes + 1
  /\ stream' = {} /\ group' = FALSE /\ cursor' = 0
  /\ Forget(pel)
  /\ dlq' = {}
  /\ lost' = lost \cup Waiting \cup pel \cup DeadLettered
  /\ UNCHANGED <<published, tableVars, workerVars, crashes, faults>>

Age(m) ==
  /\ m \in pel \ idle
  /\ idle' = idle \cup {m}
  /\ UNCHANGED <<published, stream, group, cursor, pel, deliveries, dlq, lost,
                 tableVars, workerVars, budgetVars>>

\* The process is killed, or an exception leaves run_worker.
Crash(w) ==
  /\ pc[w] # "down"
  /\ crashes < MaxCrashes
  /\ crashes' = crashes + 1
  /\ Stopped(w)
  /\ UNCHANGED <<published, redisVars, dlq, lost, tableVars, faults, deletes>>
-----------------------------------------------------------------------------
(* One iteration of run_worker.                                             *)

\* Mutant: the group is created at "$" instead of "0".
StartAtTail(w) ==
  /\ pc[w] = "down"
  /\ group' = TRUE
  /\ cursor' = IF group THEN cursor ELSE published
  /\ Goto(w, "read")
  /\ UNCHANGED <<published, stream, pelVars, dlq, lost, tableVars,
                 batch, todo, dead, windowVars, budgetVars>>

\* require() and ensure_group() before the loop.
Start(w) ==
  /\ pc[w] = "down"
  /\ group' = TRUE
  /\ Goto(w, "read")
  /\ UNCHANGED <<published, stream, cursor, pelVars, dlq, lost, tableVars,
                 batch, todo, dead, windowVars, budgetVars>>

\* XREADGROUP ">" delivers the oldest waiting entries.
ReadBatch(w) ==
  /\ At(w, "read")
  /\ group
  /\ Waiting # {}
  /\ \E new \in Oldest(Waiting, BatchSize) :
        /\ Deliver(new)
        /\ \E last \in new : (\A m \in new : m <= last) /\ cursor' = last
        /\ batch' = [batch EXCEPT ![w] = new]
  /\ Goto(w, "decode")
  /\ UNCHANGED <<published, stream, group, dlq, lost, tableVars, todo, dead,
                 windowVars, budgetVars>>

\* Mutant: an empty read never reclaims.
ReadNothingNoReclaim(w) ==
  /\ At(w, "read")
  /\ ~group \/ Waiting = {}
  /\ group' = TRUE
  /\ Goto(w, "flush")
  /\ UNCHANGED <<published, stream, cursor, pelVars, dlq, lost, tableVars,
                 batch, todo, dead, windowVars, budgetVars>>

\* Nothing new, or NOGROUP: the group is created again and read returns [].
ReadNothing(w) ==
  /\ At(w, "read")
  /\ ~group \/ Waiting = {}
  /\ group' = TRUE
  /\ Goto(w, "reclaim")
  /\ UNCHANGED <<published, stream, cursor, pelVars, dlq, lost, tableVars,
                 batch, todo, dead, windowVars, budgetVars>>

\* Mutant: _decode hands None on in place of an undecodable payload.
DecodeBadToNone(w) ==
  /\ At(w, "decode") \/ At(w, "decode_claimed")
  /\ \E m \in batch[w] :
        /\ First(m, {k \in batch[w] : Kind[k] = "undecodable"})
        /\ DeadLetter(w, m, "undecodable")
        /\ batch' = [batch EXCEPT ![w] = (@ \ {m}) \cup {NoEntry}]
  /\ UNCHANGED <<published, redisVars, lost, tableVars, pc, todo, windowVars,
                 budgetVars>>

\* _decode: an undecodable entry is dead-lettered on the spot.
DecodeBad(w) ==
  /\ At(w, "decode") \/ At(w, "decode_claimed")
  /\ \E m \in batch[w] :
        /\ First(m, {k \in batch[w] : Kind[k] = "undecodable"})
        /\ DeadLetter(w, m, "undecodable")
        /\ batch' = [batch EXCEPT ![w] = @ \ {m}]
  /\ UNCHANGED <<published, redisVars, lost, tableVars, pc, todo, windowVars,
                 budgetVars>>

\* An empty read falls through to reclaim, an empty reclaim to the flush.
DecodeDone(w) ==
  /\ At(w, "decode") \/ At(w, "decode_claimed")
  /\ \A m \in batch[w] : Kind[m] # "undecodable"
  /\ Goto(w, IF batch[w] # {} THEN "validate"
             ELSE IF pc[w] = "decode" THEN "reclaim" ELSE "flush")
  /\ UNCHANGED <<published, redisVars, dlq, lost, tableVars, batch, todo, dead,
                 windowVars, budgetVars>>

\* The second half of dead_letter: XACK.
AckDead(w) ==
  /\ dead[w] # NoEntry
  /\ Forget({dead[w]})
  /\ dead' = [dead EXCEPT ![w] = NoEntry]
  /\ UNCHANGED <<published, stream, group, cursor, dlq, lost, tableVars, pc,
                 batch, todo, windowVars, budgetVars>>

\* Mutant: no entry is ever poison.
ListNoPoison(w) ==
  /\ At(w, "reclaim")
  /\ group
  /\ Goto(w, "claim")
  /\ UNCHANGED <<published, redisVars, dlq, lost, tableVars, batch, todo, dead,
                 windowVars, budgetVars>>

\* XPENDING: the poison list is computed from the delivery counts of now.
ListPoison(w) ==
  /\ At(w, "reclaim")
  /\ group
  /\ \E P \in Oldest(pel, ClaimCount) :
        todo' = [todo EXCEPT ![w] = {m \in P : deliveries[m] > MaxDeliveries}]
  /\ Goto(w, "claim")
  /\ UNCHANGED <<published, redisVars, dlq, lost, tableVars, batch, dead,
                 windowVars, budgetVars>>

\* NOGROUP: at XPENDING the group is created again, at XAUTOCLAIM the error is
\* swallowed; reclaim returns [] either way.
ReclaimNoGroup(w) ==
  /\ ~group
  /\ \/ At(w, "reclaim") /\ group' = TRUE
     \/ At(w, "claim") /\ todo[w] = {} /\ group' = group
  /\ Goto(w, "flush")
  /\ UNCHANGED <<published, stream, cursor, pelVars, dlq, lost, tableVars,
                 batch, todo, dead, windowVars, budgetVars>>

\* The connection fails at XPENDING or at XAUTOCLAIM: reclaim returns [].
ReclaimFails(w) ==
  /\ At(w, "reclaim") \/ (At(w, "claim") /\ todo[w] = {})
  /\ faults < MaxFaults
  /\ faults' = faults + 1
  /\ Goto(w, "flush")
  /\ UNCHANGED <<published, redisVars, dlq, lost, tableVars, batch, todo, dead,
                 windowVars, crashes, deletes>>

DeadLetterPoison(w) ==
  /\ At(w, "claim")
  /\ \E m \in todo[w] :
        /\ First(m, todo[w])
        /\ DeadLetter(w, m, "poison")
        /\ todo' = [todo EXCEPT ![w] = @ \ {m}]
  /\ UNCHANGED <<published, redisVars, lost, tableVars, pc, batch, windowVars,
                 budgetVars>>

\* XAUTOCLAIM: idle entries are delivered again, whoever had them; pending
\* entries that left the stream are dropped from the list, idle or not.
Claim(w) ==
  /\ At(w, "claim")
  /\ todo[w] = {}
  /\ group
  /\ \E C \in Oldest(idle \cup (pel \ stream), ClaimCount) :
        LET claimed == C \cap stream IN
        /\ pel' = pel \ (C \ stream)
        /\ deliveries' = [m \in Entries |->
                            IF m \in C \ stream THEN 0
                            ELSE deliveries[m] + IF m \in claimed THEN 1 ELSE 0]
        /\ idle' = idle \ C
        /\ batch' = [batch EXCEPT ![w] = claimed]
  /\ Goto(w, "decode_claimed")
  /\ UNCHANGED <<published, stream, group, cursor, dlq, lost, tableVars, todo,
                 dead, windowVars, budgetVars>>

\* A payload that is not a NormalizedEvent is rejected and dead-lettered.
Reject(w) ==
  /\ At(w, "validate")
  /\ \E m \in batch[w] :
        /\ First(m, {k \in batch[w] : Kind[k] = "invalid"})
        /\ DeadLetter(w, m, "invalid")
        /\ batch' = [batch EXCEPT ![w] = @ \ {m}]
  /\ UNCHANGED <<published, redisVars, lost, tableVars, pc, todo, windowVars,
                 budgetVars>>

\* Mutant: the batch is acknowledged before it is handled.
ValidatedAckFirst(w) ==
  /\ At(w, "validate")
  /\ \A m \in batch[w] : Kind[m] # "invalid"
  /\ Forget(batch[w])
  /\ IF batch[w] = {}
     THEN Goto(w, "ack") /\ UNCHANGED <<todo, dirty>>
     ELSE /\ Goto(w, "handle")
          /\ todo' = [todo EXCEPT ![w] = batch[w]]
          /\ dirty' = [dirty EXCEPT ![w] = TRUE]
  /\ UNCHANGED <<published, stream, group, cursor, dlq, lost, tableVars, batch,
                 dead, open, warm, budgetVars>>

\* Mutant: _pending_flush is never set.
ValidatedNotDirty(w) ==
  /\ At(w, "validate")
  /\ \A m \in batch[w] : Kind[m] # "invalid"
  /\ IF batch[w] = {}
     THEN Goto(w, "ack") /\ UNCHANGED todo
     ELSE /\ Goto(w, "handle")
          /\ todo' = [todo EXCEPT ![w] = batch[w]]
  /\ UNCHANGED <<published, redisVars, dlq, lost, tableVars, batch, dead,
                 windowVars, budgetVars>>

\* handle_events starts, unless no event is left.
Validated(w) ==
  /\ At(w, "validate")
  /\ \A m \in batch[w] : Kind[m] # "invalid"
  /\ IF batch[w] = {}
     THEN Goto(w, "ack") /\ UNCHANGED <<todo, dirty>>
     ELSE /\ Goto(w, "handle")
          /\ todo' = [todo EXCEPT ![w] = batch[w]]
          /\ dirty' = [dirty EXCEPT ![w] = TRUE]
  /\ UNCHANGED <<published, redisVars, dlq, lost, tableVars, batch, dead, open,
                 warm, budgetVars>>

\* process_event: the event joins its windows; the entities whose emit
\* interval has passed are evaluated.  An entity that the worker does not track
\* has never emitted, so the first event of a process is always evaluated; a
\* later one may find that all its entities have just been.  Events are sorted
\* by epoch, which may be any order of the batch.
HandleEvent(w) ==
  /\ At(w, "handle")
  /\ \E m \in todo[w] :
        /\ Kind[m] \in {"event", "flaky"}
        /\ todo' = [todo EXCEPT ![w] = @ \ {m}]
        /\ \E seen \in SUBSET (open[w] \cup {m}) :
              /\ ~warm[w] => m \in seen
              /\ evaluated' = evaluated \cup seen
              /\ open' = [open EXCEPT ![w] = (@ \cup {m}) \ seen]
  /\ warm' = [warm EXCEPT ![w] = TRUE]
  /\ UNCHANGED <<published, redisVars, dlq, lost, stored, pc, batch, dead,
                 dirty, budgetVars>>

\* The event that makes a consumer die.
Die(w) ==
  /\ At(w, "handle")
  /\ \E m \in todo[w] : Kind[m] \in {"killer", "flaky"}
  /\ Stopped(w)
  /\ UNCHANGED <<published, redisVars, dlq, lost, tableVars, budgetVars>>

\* _persist at the end of handle_events: insert_events commits the batch.
Persist(w) ==
  /\ At(w, "handle")
  /\ todo[w] = {}
  /\ stored' = stored \cup batch[w]
  /\ Goto(w, "ack")
  /\ UNCHANGED <<published, redisVars, dlq, lost, evaluated, batch, todo, dead,
                 windowVars, budgetVars>>

\* XACK of the batch; without a group there is nothing to acknowledge.
Ack(w) ==
  /\ At(w, "ack")
  /\ Forget(batch[w])
  /\ batch' = [batch EXCEPT ![w] = {}]
  /\ Goto(w, "read")
  /\ UNCHANGED <<published, stream, group, cursor, dlq, lost, tableVars, todo,
                 dead, windowVars, budgetVars>>

\* flush_open_windows evaluates what is open, once per busy period.
FlushOpenWindows(w) ==
  /\ IF dirty[w]
     THEN evaluated' = evaluated \cup open[w]
     ELSE UNCHANGED evaluated
  /\ UNCHANGED <<published, redisVars, dlq, lost, stored, budgetVars>>

Flush(w) ==
  /\ At(w, "flush")
  /\ FlushOpenWindows(w)
  /\ open' = [open EXCEPT ![w] = IF dirty[w] THEN {} ELSE @]
  /\ dirty' = [dirty EXCEPT ![w] = FALSE]
  /\ Goto(w, "read")
  /\ UNCHANGED <<batch, todo, dead, warm>>

\* max_batches is reached, or idle_exit after two idle polls: the loop ends,
\* the windows are closed out and the process exits.
Leave(w) ==
  /\ Bounded
  /\ At(w, "read")
  /\ FlushOpenWindows(w)
  /\ Stopped(w)
-----------------------------------------------------------------------------
Step(w) ==
  \/ ReadBatch(w) \/ ReadNothing(w)
  \/ DecodeBad(w) \/ DecodeDone(w) \/ AckDead(w)
  \/ ListPoison(w) \/ ReclaimNoGroup(w) \/ DeadLetterPoison(w) \/ Claim(w)
  \/ Reject(w) \/ Validated(w) \/ HandleEvent(w) \/ Die(w)
  \/ Persist(w) \/ Ack(w) \/ Flush(w)

Next ==
  \/ Publish \/ DeleteStream
  \/ \E m \in Entries : Age(m)
  \/ \E w \in Workers : \/ Start(w) \/ Step(w)
                       \/ Leave(w) \/ Crash(w) \/ ReclaimFails(w)

Spec == Init /\ [][Next]_vars

\* The container restarts its worker (docker-compose.yml:54), a running worker
\* keeps running, and the clock advances.  Producers, crashes, deletions and
\* the end of a bounded run are never forced.
Fairness ==
  /\ \A w \in Workers : WF_vars(Start(w)) /\ WF_vars(Step(w))
  /\ \A m \in Entries : WF_vars(Age(m))

FairSpec == Spec /\ Fairness
-----------------------------------------------------------------------------
(* Properties.                                                              *)

TypeOK ==
  /\ published \in 0..N
  /\ stream \in SUBSET Entries /\ group \in BOOLEAN /\ cursor \in 0..N
  /\ pel \in SUBSET Entries /\ idle \in SUBSET pel
  /\ deliveries \in [Entries -> Nat]
  /\ dlq \in SUBSET (Entries \X Reasons)
  /\ lost \in SUBSET Entries
  /\ stored \in SUBSET Entries /\ evaluated \in SUBSET Entries
  /\ pc \in [Workers -> PC]
  /\ batch \in [Workers -> SUBSET Entries]
  /\ todo \in [Workers -> SUBSET Entries]
  /\ dead \in [Workers -> Entries \cup {NoEntry}]
  /\ open \in [Workers -> SUBSET Entries]
  /\ dirty \in [Workers -> BOOLEAN] /\ warm \in [Workers -> BOOLEAN]
  /\ crashes \in 0..MaxCrashes /\ faults \in 0..MaxFaults
  /\ deletes \in 0..MaxDeletes

\* "Events are acknowledged only after their batch has been persisted"
\* (pipeline.py:262): every published entry is waiting, pending, in the store,
\* in the dead-letter stream, or was removed by retention or by an operator.
AccountedFor ==
  1..published \subseteq Waiting \cup pel \cup stored \cup DeadLettered \cup lost

\* What makes that inductive: a worker about to acknowledge has stored its batch
\* (streaming.py:207, pipeline.py:298-299), a half-done dead_letter has already
\* parked its entry (streaming.py:224-237), and a pending entry that is no
\* longer in the stream was trimmed away (streaming.py:84-89).
Accounting ==
  /\ AccountedFor
  /\ cursor <= published
  /\ stream \cup pel \subseteq 1..published
  /\ pel \ stream \subseteq lost
  /\ \A w \in Workers :
        /\ pc[w] = "ack" => batch[w] \subseteq stored
        /\ dead[w] # NoEntry => dead[w] \in DeadLettered \cup lost

\* How often one entry can be delivered (streaming.py:187-202): the poison list
\* is computed before XAUTOCLAIM, so each worker may add one delivery.  It holds
\* while XPENDING's COUNT covers the whole pending list, and only then.
DeliveryBound ==
  \A m \in pel : deliveries[m] <= MaxDeliveries + Cardinality(Workers)

\* The fabric implements its promise.
Promise == INSTANCE AtLeastOnce WITH
  announced <- 1..published, owed <- Waiting \cup pel, recorded <- stored,
  parked <- DeadLettered, gone <- lost

PromiseKept == Promise!Spec

\* Every published entry is settled in the end, whatever it does to the workers.
EventuallySettled ==
  \A m \in Entries : (m <= published) ~> (m \notin Waiting \cup pel)

\* No window stays open for ever: what a worker has put into its windows is
\* evaluated once the stream is quiet (flush_open_windows, pipeline.py:151-155),
\* unless the worker dies with it.
WindowsClose ==
  \A w \in Workers, m \in {m \in Entries : Kind[m] = "event"} :
    (m \in open[w]) ~> (m \notin open[w])

\* docs/ARCHITECTURE.md:135: a poison entry is moved to the dead-letter stream
\* "after `max_deliveries` attempts".
DeliveredAtMostMaxDeliveries == \A m \in pel : deliveries[m] <= MaxDeliveries

\* streaming.py:172-173: an entry delivered too often is poison because
\* "something about it makes a consumer die".
PoisonKillsConsumers ==
  \A m \in Entries : <<m, "poison">> \in dlq => Kind[m] \in {"killer", "flaky"}

\* streaming.py:222: dead_letter parks an "unprocessable entry": not one whose
\* event is already in the store.
DeadLetteredIsUnprocessed ==
  [][\A m \in DeadLettered' \ DeadLettered : m \notin stored]_vars

\* streaming.py:4-5: "a worker that dies mid-window must not lose the events it
\* had claimed": a stored and acknowledged event is evaluated, or still open.  It
\* takes a second event within the emit interval of the first, and a crash.
ClaimedEventsSurviveCrash ==
  \A m \in stored : \/ m \in evaluated \cup pel \cup Waiting
                    \/ \E w \in Workers : m \in open[w] \cup batch[w]
=============================================================================
