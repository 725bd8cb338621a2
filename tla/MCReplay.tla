------------------------------ MODULE MCReplay ------------------------------
EXTENDS Replay

Line(uid, ts, name, ok) == [uid |-> uid, ts |-> ts, flow |-> "f", name |-> name, ok |-> ok]
Conn(uid, ts) == Line(uid, ts, NoName, TRUE)

\* Nothing, out of order, twice the same, without a time, without a uid.
Connections ==
  {<<>>, <<Conn("c1", 2), Conn("c2", 1)>>, <<Conn("c1", 1), Conn("c1", 1)>>,
   <<Conn("c2", NoTime), Conn("c1", 2)>>, <<Conn(NoUid, 1), Conn("c1", 2)>>}

\* Nothing, a bad name of a connection, no connection and no uid, a time that is no
\* number.
Queries ==
  {<<>>, <<Line("c1", 1, "a", FALSE)>>,
   <<Line("d1", 2, "a", TRUE), Line(NoUid, 1, "b", TRUE)>>,
   <<Line("d1", BadTime, "b", TRUE)>>}

\* More ids than the dedup memory holds, and one again.
Long ==
  LET uid == <<"c1", "c2", "c3", "c4", "c5">>
  IN  {[conn |-> [i \in 1..6 |-> Conn(uid[IF i = 6 THEN again ELSE i], 1)],
        dns |-> <<>>] : again \in {1, 2, 3}}

\* A flow with two queries, and a session whose last line has neither name nor time.
TwoQueries ==
  {[conn |-> <<Conn("c1", 1)>>, dns |-> <<Line("c1", 1, "a", TRUE), Line("c1", 2, "b", TRUE)>>],
   [conn |-> <<Conn("c1", 1)>>, dns |-> <<Line("d1", 2, "a", TRUE), Line("d1", NoTime, NoName, TRUE)>>]}

AllCaptures ==
  {[conn |-> c, dns |-> d] : c \in Connections, d \in Queries} \cup Long \cup TwoQueries

\* What two generators overlaid give: events of one time, a flow and a name again.
Event(ts, flow, name) == [uid |-> NoUid, ts |-> ts, flow |-> flow, name |-> name, ok |-> TRUE]

AllScenarios ==
  {[generated |-> <<Event(1, "f", NoName), Event(3, "f", NoName), Event(1, "g", "a"), Event(2, "g", "a")>>],
   [generated |-> <<Event(2, "g", "a"), Event(1, "f", NoName), Event(2, "g", "b")>>],
   [generated |-> <<Event(1, "f", NoName), Event(2, "f", NoName), Event(1, "f", NoName)>>]}
=============================================================================
