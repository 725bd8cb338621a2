----------------------------- MODULE AlertLedger -----------------------------
(***************************************************************************)
(* What the alert tables promise the rest of the system, with no word of    *)
(* detectors, dedup memories, batches or workers: alerts "are the one        *)
(* mutable row (status, dedup counters), and every change to them is also    *)
(* written to alert_events so the decision history stays intact" (sih_ntd/  *)
(* store.py:12-14).  An alert is opened once and for good; after that it is  *)
(* bumped or judged, which leaves an entry in its history; histories only   *)
(* grow; and nobody is told of an alert that is not in the ledger.           *)
(***************************************************************************)
EXTENDS Sequences

CONSTANTS Ids, None

VARIABLES
  first,    \* first_seen of each alert, None before it is opened
  counters, \* its dedup counters, likewise
  status,   \* its status, likewise
  history,  \* kinds of its entries in the audit table, oldest first
  told      \* alerts that subscribers have been told of

vars == <<first, counters, status, history, told>>

Opened == {id \in Ids : first[id] # None}

Init ==
  /\ first = [id \in Ids |-> None] /\ counters = [id \in Ids |-> None]
  /\ status = [id \in Ids |-> None] /\ history = [id \in Ids |-> <<>>]
  /\ told = {}

\* New alerts are opened; one that is open keeps everything it has.
Open ==
  /\ \A id \in Ids :
       \/ /\ id \notin Opened
          /\ first'[id] # None /\ status'[id] = "NEW" /\ history'[id] = <<"CREATED">>
       \/ /\ first'[id] = first[id] /\ status'[id] = status[id]
          /\ counters'[id] = counters[id] /\ history'[id] = history[id]
  /\ UNCHANGED told

\* Another finding like it: its counters may change, those of others may not.
Bump ==
  \E id \in Opened :
    /\ \A other \in Ids \ {id} : counters'[other] = counters[other]
    /\ history' = [history EXCEPT ![id] = Append(@, "DEDUPED")]
    /\ UNCHANGED <<first, status, told>>

\* An analyst's decision.
Judge ==
  \E id \in Opened :
    /\ status' = [status EXCEPT ![id] = "VERDICT"]
    /\ history' = [history EXCEPT ![id] = Append(@, "STATUS")]
    /\ UNCHANGED <<first, counters, told>>

Tell ==
  /\ told \subseteq told' /\ told' \subseteq told \cup Opened
  /\ UNCHANGED <<first, counters, status, history>>

Next == Open \/ Bump \/ Judge \/ Tell

Spec == Init /\ [][Next]_vars
=============================================================================
