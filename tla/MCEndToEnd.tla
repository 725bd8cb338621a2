------------------------------ MODULE MCEndToEnd ------------------------------
EXTENDS EndToEnd

\* The first entry kills its workers, the second is an alarming event.
KindKillerFirst == [m \in Entries |-> IF m = 1 THEN "killer" ELSE "event"]

Alarming == Entries \ {1}

OneAlert == [m \in Alarming |-> "alert"]
=============================================================================
