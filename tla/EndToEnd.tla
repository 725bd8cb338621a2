------------------------------- MODULE EndToEnd -------------------------------
(***************************************************************************)
(* From the stream of normalized events to the alert an analyst can see:    *)
(* StreamWorker, with what process_event and _apply_outcome (sih_ntd/       *)
(* pipeline.py:106-124, 222-243) do with the event at hand.  A per-event    *)
(* detector flags some events; fusion raises an alert unless the worker     *)
(* remembers one like it; the alert goes into the alerts table and then on  *)
(* network.alerts, one remote call each, all of it before the batch is      *)
(* stored and acknowledged.  The memory dies with the worker.               *)
(*                                                                         *)
(* The producer never ends.  Entries are numbered afresh: the newest one,   *)
(* once settled, gives its number back (Renumber), so that 1..N are the     *)
(* entries that can still matter and not all there ever were.              *)
(***************************************************************************)
EXTENDS StreamWorker

CONSTANTS
  Flagged,   \* entries whose event a detector reports
  AlertOf    \* the alert that each of them is part of

Alerts == {AlertOf[m] : m \in Flagged}

ASSUME FlaggedAssumption ==
  /\ Flagged \subseteq {m \in Entries : Kind[m] = "event"}
  /\ DOMAIN AlertOf = Flagged

VARIABLES
  known,        \* alerts each worker remembers having raised (_dedup)
  uninserted,   \* alerts of its outcome still to be inserted
  unpublished,  \* alerts of its outcome still to be published
  alerts,       \* table alerts
  feed          \* alerts on network.alerts

outcomeVars == <<uninserted, unpublished>>
alertVars == <<known, outcomeVars, alerts, feed>>
allVars == <<vars, alertVars>>

InitE2E ==
  /\ Init
  /\ known = [w \in Workers |-> {}]
  /\ uninserted = [w \in Workers |-> {}] /\ unpublished = [w \in Workers |-> {}]
  /\ alerts = {} /\ feed = {}

\* _apply_outcome has returned: the worker may go on to its next statement.
Applied(w) == uninserted[w] = {} /\ unpublished[w] = {}

\* A process that ends forgets what it raised and what it had still to do.
Forgotten(w) ==
  /\ known' = [known EXCEPT ![w] = {}]
  /\ uninserted' = [uninserted EXCEPT ![w] = {}]
  /\ unpublished' = [unpublished EXCEPT ![w] = {}]
  /\ UNCHANGED <<alerts, feed>>
-----------------------------------------------------------------------------
\* The event that HandleEvent(w) takes off the batch.
Taken(w) == todo[w] \ todo'[w]

\* process_event: expire may drop alerts whose window has passed; a result whose
\* alert is remembered is suppressed, another one raises its alert.
ProcessEvent(w) ==
  /\ Applied(w)
  /\ HandleEvent(w)
  /\ \E remembered \in SUBSET known[w] :
       LET found == {AlertOf[m] : m \in Flagged \cap Taken(w)}
           new == found \ remembered
       IN  /\ known' = [known EXCEPT ![w] = remembered \cup found]
           /\ uninserted' = [uninserted EXCEPT ![w] = new]
           /\ unpublished' = [unpublished EXCEPT ![w] = new]
  /\ UNCHANGED <<alerts, feed>>

\* insert_alerts: INSERT OR IGNORE.
InsertAlerts(w) ==
  /\ uninserted[w] # {}
  /\ alerts' = alerts \cup uninserted[w]
  /\ uninserted' = [uninserted EXCEPT ![w] = {}]
  /\ UNCHANGED <<vars, known, unpublished, feed>>

\* Mutant: a publication that fails is logged and forgotten.
PublishAlertsOrGiveUp(w) ==
  /\ uninserted[w] = {} /\ unpublished[w] # {}
  /\ feed' \in {feed, feed \cup unpublished[w]}
  /\ unpublished' = [unpublished EXCEPT ![w] = {}]
  /\ UNCHANGED <<vars, known, uninserted, alerts>>

\* publish_many; StreamUnavailable leaves run_worker, which is Crash.
PublishAlerts(w) ==
  /\ uninserted[w] = {} /\ unpublished[w] # {}
  /\ feed' = feed \cup unpublished[w]
  /\ unpublished' = [unpublished EXCEPT ![w] = {}]
  /\ UNCHANGED <<vars, known, uninserted, alerts>>

\* The event that makes the process die.
DieHandling(w) == Applied(w) /\ Die(w) /\ Forgotten(w)

\* Any statement of the worker but those that handle an event.
OtherStep(w) ==
  /\ Applied(w)
  /\ pc[w] = "handle" => todo[w] = {}
  /\ Step(w)
  /\ UNCHANGED alertVars

WorkerStep(w) ==
  \/ ProcessEvent(w) \/ InsertAlerts(w) \/ PublishAlerts(w)
  \/ DieHandling(w) \/ OtherStep(w)

\* The newest entry is an event that is stored, acknowledged and evaluated:
\* nothing will look at it again, and its number is given to the next one.
Renumber ==
  LET m == published IN
  /\ m \in stored \ (pel \cup DeadLettered \cup lost)
  /\ m <= cursor
  /\ \A w \in Workers : m \notin batch[w] \cup todo[w] \cup open[w]
  /\ published' = m - 1 /\ cursor' = m - 1
  /\ stream' = stream \ {m}
  /\ stored' = stored \ {m} /\ evaluated' = evaluated \ {m}
  /\ UNCHANGED <<group, pelVars, dlq, lost, workerVars, budgetVars, alertVars>>

\* Workers here run without end, and nobody deletes the stream.
NextE2E ==
  \/ Publish /\ UNCHANGED alertVars
  \/ Renumber
  \/ \E m \in Entries : Age(m) /\ UNCHANGED alertVars
  \/ \E w \in Workers :
       \/ Start(w) /\ UNCHANGED alertVars
       \/ WorkerStep(w)
       \/ Crash(w) /\ Forgotten(w)

SpecE2E == InitE2E /\ [][NextE2E]_allVars

\* As in StreamWorker: started workers run, and the clock advances.
FairSpecE2E ==
  /\ SpecE2E
  /\ \A w \in Workers : /\ WF_allVars(Start(w) /\ UNCHANGED alertVars)
                        /\ WF_allVars(WorkerStep(w))
  /\ \A m \in Entries : WF_allVars(Age(m) /\ UNCHANGED alertVars)
-----------------------------------------------------------------------------
(* Properties.                                                              *)

\* _apply_outcome comes before _persist, and an event is not acknowledged before
\* (pipeline.py:199-216, 298-299): an event in the store that a detector flagged
\* has its alert in the table and on the stream, whichever worker raised it,
\* forgot it, or died over it.
StoredIsReported ==
  \A m \in stored \cap Flagged : AlertOf[m] \in alerts \cap feed

\* Every live worker finds the stream quiet again and again.
Pauses == \A w \in Workers : []<>(pc[w] \in {"flush", "down"})

\* reclaim runs on an empty read only (pipeline.py:272-274): if the producer
\* pauses now and then, every entry is settled in the end, whatever it does to
\* the workers.
SettledIfPauses == Pauses => EventuallySettled

\* flush_open_windows runs on an empty read only (pipeline.py:275-278): if the
\* producer pauses now and then, no window of a live worker stays open.
WindowsCloseIfPauses == Pauses => WindowsClose

\* streaming.py:12-14: unacknowledged entries are reclaimed "after `claim_idle_ms`,
\* so a crashed consumer's work is picked up": with no word of pauses.
CrashedWorkIsPickedUp == EventuallySettled
=============================================================================
