----------------------------- MODULE AtLeastOnce -----------------------------
(***************************************************************************)
(* What the event fabric promises the rest of the system, with no word of  *)
(* streams, groups, pending lists or workers (streaming.py:1-20 and the     *)
(* failure policy of pipeline.py:11-20).  An entry that was announced is    *)
(* owed until it is settled; it is settled only when its event is in the    *)
(* store, or it is parked in the dead-letter stream, or retention or an     *)
(* operator removed it first; and what was settled is never owed again.     *)
(***************************************************************************)
CONSTANT Entries

VARIABLES
  announced,  \* entries ever added to the stream
  owed,       \* entries the fabric must still deliver (again)
  recorded,   \* entries whose event is in the events table
  parked,     \* entries in the dead-letter stream
  gone        \* entries removed by retention or by an operator

vars == <<announced, owed, recorded, parked, gone>>

Init ==
  /\ announced = {}
  /\ owed = {}
  /\ recorded = {}
  /\ parked = {}
  /\ gone = {}

\* A producer adds an entry; the stream's length cap may cost older ones.
Announce(m) ==
  /\ m \notin announced
  /\ announced' = announced \cup {m}
  /\ \E S \in SUBSET owed :
        /\ gone' = gone \cup S
        /\ owed' \in {(owed \ T) \cup {m} : T \in SUBSET S}
  /\ UNCHANGED <<recorded, parked>>

\* A batch of events is committed to the store; it stays owed until settled.
Record(S) ==
  /\ recorded' = recorded \cup S
  /\ UNCHANGED <<announced, owed, parked, gone>>

Park(m) ==
  /\ parked' = parked \cup {m}
  /\ UNCHANGED <<announced, owed, recorded, gone>>

\* The promise: nothing is crossed off that is not accounted for elsewhere.
Settle(S) ==
  /\ S \subseteq recorded \cup parked \cup gone
  /\ owed' = owed \ S
  /\ UNCHANGED <<announced, recorded, parked, gone>>

\* The stream and its dead-letter stream are deleted under the workers.
Destroy ==
  /\ gone' = gone \cup owed \cup parked
  /\ owed' = {}
  /\ parked' = {}
  /\ UNCHANGED <<announced, recorded>>

Next ==
  \/ \E m \in Entries : Announce(m) \/ Park(m)
  \/ \E S \in SUBSET Entries : Record(S) \/ Settle(S)
  \/ Destroy

Spec == Init /\ [][Next]_vars
=============================================================================
