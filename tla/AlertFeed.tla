------------------------------ MODULE AlertFeed ------------------------------
(***************************************************************************)
(* How an alert reaches a console: the worker stores it and publishes it on  *)
(* network.alerts (sih_ntd/pipeline.py), the API tails that stream for each   *)
(* web socket (sih_ntd/api.py, alerts_websocket), and the console merges the  *)
(* live feed into the list it polls over REST (frontend use-alert-stream.ts, *)
(* alerts-client.tsx).                                                       *)
(*                                                                         *)
(* One console and its sessions in turn: sessions of other consoles share    *)
(* nothing with it but the store and the stream.  Alerts are numbered in the *)
(* order of their event times, by which the API sorts them.  The stream is   *)
(* not trimmed here: maxlen is 100 000 entries.                              *)
(***************************************************************************)
EXTENDS Integers, Sequences, FiniteSets, FiniteSetsExt, Filter

CONSTANTS
  NAlerts,     \* bound: alerts raised
  Batch,       \* count of XREAD, 32
  Limit,       \* limit of the list the console asks for
  Buffer,      \* bound: messages between the API and the console
  MaxBreaks,   \* bound: broken sessions
  MaxTriaged,  \* bound: alerts whose status an analyst changes
  Leaves       \* whether the user may leave the page

ASSUME FeedAssumption ==
  /\ {NAlerts, MaxBreaks, MaxTriaged} \subseteq Nat
  /\ {Batch, Limit, Buffer} \subseteq Nat \ {0}
  /\ Leaves \in BOOLEAN

Alerts == 1..NAlerts
AtEnd == -1          \* "$": entries after the end of the stream, now
Keepalive == 0       \* the message that is not an alert
NoList == [rows |-> <<>>, known |-> FALSE]

VARIABLES
  stored, triaged,  \* the alerts table, and the alerts in it that are triaged
  unpublished,      \* stored by a worker that has not published them yet
  log,              \* network.alerts
  breaks,
  server,           \* the coroutine of the session: its phase, last_id, where
                    \* XREAD waits, the entries it has read
  net,              \* messages sent and not yet received
  socket, label,    \* the console's socket, and the state it shows
  list,             \* its cached list: rows [id, triaged]
  reply,            \* an answer of GET /alerts on its way, or NoList
  sent              \* history: the entries sent in this session

backend == <<stored, triaged, unpublished, log>>
session == <<server, net, socket, label, sent, breaks>>
vars == <<backend, session, list, reply>>

Gone == [phase |-> "gone", last |-> AtEnd, wait |-> AtEnd, read |-> <<>>]

Init ==
  /\ stored = {} /\ triaged = {} /\ unpublished = {} /\ log = <<>>
  /\ breaks = 0
  /\ server = Gone /\ net = <<>> /\ socket = "connecting" /\ label = "offline"
  /\ list = NoList /\ reply = NoList
  /\ sent = <<>>
-----------------------------------------------------------------------------
(* Workers and analysts.                                                    *)

\* Mutant: published before it is stored.
StoreAfterPublishing(a) ==
  /\ a \notin stored \cup unpublished
  /\ unpublished' = unpublished \cup {a}
  /\ UNCHANGED <<stored, triaged, log, session, list, reply>>

\* insert_alerts: workers raise alerts in any order of their event times.
Store(a) ==
  /\ a \notin stored
  /\ stored' = stored \cup {a}
  /\ unpublished' = unpublished \cup {a}
  /\ UNCHANGED <<triaged, log, session, list, reply>>

\* publish_many. An alert is published at most once: that a batch which comes again after a
\* crash publishes its alerts a second time, under the same ids, is left out.
Publish(a) ==
  /\ a \in unpublished
  /\ log' = Append(log, a)
  /\ unpublished' = unpublished \ {a}
  /\ UNCHANGED <<stored, triaged, session, list, reply>>

\* The worker dies, or Redis fails, between the two: the alert is in the store
\* and no worker publishes it again.
LosePublication(a) ==
  /\ a \in unpublished
  /\ unpublished' = unpublished \ {a}
  /\ UNCHANGED <<stored, triaged, log, session, list, reply>>

\* POST /alerts/{id}/status: the stream is not told.
Triage(a) ==
  /\ a \in stored \ triaged /\ Cardinality(triaged) < MaxTriaged
  /\ triaged' = triaged \cup {a}
  /\ UNCHANGED <<stored, unpublished, log, session, list, reply>>
-----------------------------------------------------------------------------
(* The API's side of a session.                                             *)

\* accept, and {"type": "connected"}; the console's attempt count restarts.
Accept ==
  /\ socket = "connecting"
  /\ socket' = "open"
  /\ server' = [Gone EXCEPT !.phase = "ready"]
  /\ net' = <<Keepalive>>
  /\ UNCHANGED <<backend, label, sent, breaks, list, reply>>

\* The call of XREAD: "$" is the end of the stream at this moment.
Read ==
  /\ server.phase = "ready"
  /\ server' = [server EXCEPT !.phase = "reading",
                   !.wait = IF server.last = AtEnd THEN Len(log) ELSE server.last]
  /\ UNCHANGED <<backend, net, socket, label, sent, breaks, list, reply>>

\* XREAD returns what there is, up to its count.
ReadReturns ==
  /\ server.phase = "reading" /\ Len(log) > server.wait
  /\ LET n == Min({Batch, Len(log) - server.wait}) IN
     server' = [server EXCEPT !.phase = "sending",
                              !.read = [i \in 1..n |-> server.wait + i]]
  /\ UNCHANGED <<backend, net, socket, label, sent, breaks, list, reply>>

\* Nothing for a second: a keepalive, and last_id stays what it was.
ReadTimesOut ==
  /\ server.phase = "reading" /\ Len(log) = server.wait
  /\ Len(net) < Buffer
  /\ server' = [server EXCEPT !.phase = "ready"]
  /\ net' = Append(net, Keepalive)
  /\ UNCHANGED <<backend, socket, label, sent, breaks, list, reply>>

\* Mutant: last_id does not follow what is sent.
SendFromTheStart ==
  /\ server.phase = "sending" /\ Len(net) < Buffer
  /\ LET p == Head(server.read) IN
     /\ server' = [server EXCEPT !.last = IF @ = AtEnd THEN p ELSE @, !.read = Tail(@),
                     !.phase = IF Len(server.read) = 1 THEN "ready" ELSE @]
     /\ net' = Append(net, log[p])
     /\ sent' = Append(sent, p)
  /\ UNCHANGED <<backend, socket, label, breaks, list, reply>>

Send ==
  /\ server.phase = "sending" /\ Len(net) < Buffer
  /\ LET p == Head(server.read) IN
     /\ server' = [server EXCEPT !.last = p, !.read = Tail(@),
                     !.phase = IF Len(server.read) = 1 THEN "ready" ELSE @]
     /\ net' = Append(net, log[p])
     /\ sent' = Append(sent, p)
  /\ UNCHANGED <<backend, socket, label, breaks, list, reply>>

\* Redis fails in XREAD: close(1011) after what was sent.
ServerFails ==
  /\ server.phase = "reading" /\ breaks < MaxBreaks
  /\ server' = Gone
  /\ breaks' = breaks + 1
  /\ sent' = <<>>
  /\ UNCHANGED <<backend, net, socket, label, list, reply>>
-----------------------------------------------------------------------------
(* The console's side of a session.                                         *)

Published(a) == [id |-> a, triaged |-> FALSE]
Without(rows, a) == Only(rows, {r \in Members(rows) : r.id # a})

\* Mutant: the alert is put in front although it is in the list.
MergeTwice(rows, a) == SubSeq(<<Published(a)>> \o rows, 1, Min({Limit, Len(rows) + 1}))

\* Mutant: the list grows with the feed.
MergeUnlimited(rows, a) == <<Published(a)>> \o Without(rows, a)

\* The alert as it was published, in front; its older row goes.
Merge(rows, a) ==
  LET all == <<Published(a)>> \o Without(rows, a)
  IN  SubSeq(all, 1, Min({Limit, Len(all)}))

\* onmessage: a list that was never loaded stays so.
Receive ==
  /\ socket = "open" /\ net # <<>>
  /\ net' = Tail(net)
  /\ label' = "live"
  /\ list' = IF Head(net) = Keepalive \/ ~list.known THEN list
             ELSE [list EXCEPT !.rows = Merge(@, Head(net))]
  /\ UNCHANGED <<backend, server, socket, sent, breaks, reply>>

\* onclose: a timer is set.
Closed ==
  /\ socket = "open" /\ server = Gone /\ net = <<>>
  /\ socket' = "waiting" /\ label' = "reconnecting"
  /\ UNCHANGED <<backend, server, net, sent, breaks, list, reply>>

\* The connection breaks or is refused, and what was under way is lost; the API
\* notices at its next message, which nobody receives.
Break ==
  /\ socket \in {"connecting", "open"} /\ breaks < MaxBreaks
  /\ socket' = "waiting" /\ label' = "reconnecting"
  /\ server' = Gone /\ net' = <<>>
  /\ breaks' = breaks + 1
  /\ sent' = <<>>
  /\ UNCHANGED <<backend, list, reply>>

\* Mutant: only a console that has nothing to show tries again.
ReconnectUntilLoaded ==
  /\ socket = "waiting" /\ ~list.known
  /\ socket' = "connecting"
  /\ UNCHANGED <<backend, server, net, label, sent, breaks, list, reply>>

\* The timer fires.
Reconnect ==
  /\ socket = "waiting"
  /\ socket' = "connecting"
  /\ UNCHANGED <<backend, server, net, label, sent, breaks, list, reply>>

\* The page is left: stopped, no timer, no polling.
Leave ==
  /\ Leaves /\ socket # "left"
  /\ socket' = "left" /\ server' = Gone /\ net' = <<>> /\ reply' = NoList
  /\ sent' = <<>>
  /\ UNCHANGED <<backend, label, breaks, list>>
-----------------------------------------------------------------------------
(* Polling.                                                                 *)

\* The i-th newest alert by event time.
Newest(i) == CHOOSE a \in stored : Cardinality({b \in stored : b > a}) = i - 1

\* query_alerts.
Wanted ==
  [rows |-> [i \in 1..Min({Limit, Cardinality(stored)}) |->
               [id |-> Newest(i), triaged |-> Newest(i) \in triaged]],
   known |-> TRUE]

\* Mutant: no polling once the list is there and the socket is up.
AskWhenOffline ==
  /\ socket # "left" /\ reply = NoList
  /\ ~list.known \/ socket # "open"
  /\ reply' = Wanted
  /\ UNCHANGED <<backend, session, list>>

\* The API answers a request; the answer is on its way.
Ask ==
  /\ socket # "left" /\ reply = NoList
  /\ reply' = Wanted
  /\ UNCHANGED <<backend, session, list>>

\* The answer replaces the list, whatever came over the socket since.
Answer ==
  /\ reply.known
  /\ list' = reply
  /\ reply' = NoList
  /\ UNCHANGED <<backend, session>>

\* A failed request keeps the list.
AnswerFails ==
  /\ reply.known
  /\ reply' = NoList
  /\ UNCHANGED <<backend, session, list>>
-----------------------------------------------------------------------------
Next ==
  \/ \E a \in Alerts : Store(a) \/ Publish(a) \/ LosePublication(a) \/ Triage(a)
  \/ Accept \/ Read \/ ReadReturns \/ ReadTimesOut \/ Send \/ ServerFails
  \/ Receive \/ Closed \/ Break \/ Reconnect \/ Leave
  \/ Ask \/ Answer \/ AnswerFails

\* Workers, the event loop of the API and of the browser go on; the timers of the
\* socket and of the query fire (use-alert-stream.ts:49, alerts-client.tsx:18).
\* Requests do not
\* fail for ever.  Nothing makes a user leave or an analyst act.
Fairness ==
  /\ \A a \in Alerts : WF_vars(Publish(a))
  /\ WF_vars(Accept) /\ WF_vars(Read) /\ WF_vars(ReadReturns)
  /\ WF_vars(ReadTimesOut) /\ WF_vars(Send)
  /\ WF_vars(Receive) /\ WF_vars(Closed) /\ WF_vars(Reconnect)
  /\ WF_vars(Ask) /\ SF_vars(Answer)

Spec == Init /\ [][Next]_vars

LiveSpec == Spec /\ Fairness
-----------------------------------------------------------------------------
(* Properties.                                                              *)

Rows == {<<r.id, r.triaged>> : r \in Members(list.rows)}

TypeOK ==
  /\ stored \subseteq Alerts /\ triaged \subseteq stored /\ unpublished \subseteq Alerts
  /\ Members(log) \subseteq Alerts
  /\ server.phase \in {"gone", "ready", "reading", "sending"}
  /\ (server.phase = "sending") = (server.read # <<>>)
  /\ server.last \in {AtEnd} \cup 1..Len(log) /\ server.wait \in {AtEnd} \cup 0..Len(log)
  /\ Len(net) <= Buffer /\ (socket # "open" => net = <<>> /\ server = Gone)
  /\ socket \in {"connecting", "open", "waiting", "left"}
  /\ label \in {"live", "reconnecting", "offline"}
  /\ Len(list.rows) <= Limit /\ Rows \subseteq Alerts \X BOOLEAN

\* A session skips nothing and repeats nothing from the first alert it sends: the
\* entries it sends are consecutive, however XREADs, timeouts and publications
\* interleave (api.py:537-555).
SentInSequence ==
  \A i \in 1..(Len(sent) - 1) : sent[i + 1] = sent[i] + 1

\* What is on the screen can be and is there once: an alert is stored
\* before it is published (pipeline.py:228-233), and polling and the live feed
\* merge by alert_id although either may be the later one
\* (use-alert-stream.ts:36).
OnScreenIsStoredOnce ==
  /\ \A r \in Members(list.rows) : r.id \in stored
  /\ \A i, j \in 1..Len(list.rows) : list.rows[i].id = list.rows[j].id => i = j

\* Polling repairs what the feed loses, reorders or shows with an old status: in
\* the end the screen shows what the store holds (alerts-client.tsx:18).
ScreenConverges == <>[](socket = "left" \/ list = Wanted)

\* The console finds its way back to a live feed after every broken session
\* (use-alert-stream.ts:44-50).
BackToLive == <>[](socket = "left" \/ (label = "live" /\ server.phase # "gone"))

\* "only alerts raised from now on" (api.py:537), "each get the full feed"
\* (api.py:534-535): an XREAD goes on where the one before it in the session ended.
\* "$" is resolved again at every XREAD before the first alert, so what comes
\* between two of them is not sent.
FullFeed ==
  [][server.phase = "ready" /\ server'.phase = "reading" /\ server.wait # AtEnd
       => server'.wait = Max({server.wait} \cup Members(sent))]_vars
=============================================================================
