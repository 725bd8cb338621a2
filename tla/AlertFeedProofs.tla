--------------------------- MODULE AlertFeedProofs ---------------------------
(***************************************************************************)
(* Theorems about AlertFeed: its type invariant, that a session sends the   *)
(* entries of the stream one after the other, and that what a console shows *)
(* is in the store and there once.                                          *)
(***************************************************************************)
EXTENDS AlertFeed, DataProofs, FiniteSetTheorems, SequenceTheorems

Phases == {"gone", "ready", "reading", "sending"}
Servers == [phase : Phases, last : Nat \cup {AtEnd}, wait : Nat \cup {AtEnd},
            read : Seq(Nat)]

\* No alert is in rows twice.
Once(rows) == \A i, j \in 1..Len(rows) : rows[i].id = rows[j].id => i = j

\* A list of rows about alerts in S.
Page(l, S) ==
  /\ l \in [rows : Seq([id : S, triaged : BOOLEAN]), known : BOOLEAN]
  /\ Len(l.rows) <= Limit
  /\ Once(l.rows)

\* An alert is anywhere in the system only once it is stored.
Flow ==
  /\ stored \in SUBSET Alerts /\ triaged \in SUBSET stored
  /\ unpublished \in SUBSET stored
  /\ log \in Seq(stored)
  /\ net \in Seq(stored \cup {Keepalive})
  /\ Page(list, stored) /\ Page(reply, stored)

\* Each entry of q is the one after the entry before it.
Consecutive(q) == \A i \in 1..(Len(q) - 1) : q[i + 1] = q[i] + 1

\* Coroutine s has sent the entries q of a stream of n: what an XREAD returned to it
\* follows the last one sent.
InOrder(s, q, n) ==
  /\ s \in Servers /\ q \in Seq(Nat)
  /\ s.last # AtEnd => s.last \in 1..n
  /\ s.wait # AtEnd => s.wait \in 0..n
  /\ (s.phase = "sending") = (s.read # <<>>)
  /\ s.phase = "reading" => s.wait # AtEnd /\ (s.last # AtEnd => s.wait = s.last)
  /\ \A i \in 1..Len(s.read) : s.read[i] \in 1..n /\ s.read[i] = s.read[1] + i - 1
  /\ s.read # <<>> /\ s.last # AtEnd => s.read[1] = s.last + 1
  /\ q = <<>> <=> s.last = AtEnd
  /\ q # <<>> => q[Len(q)] = s.last
  /\ Consecutive(q)

Coroutine == InOrder(server, sent, Len(log))

\* The connection: only an open socket has an API at its other end.
Connection ==
  /\ net \in Seq(Int) /\ Len(net) <= Buffer
  /\ socket \in {"connecting", "open", "waiting", "left"}
  /\ label \in {"live", "reconnecting", "offline"}
  /\ socket # "open" => net = <<>> /\ server = Gone

\* The smaller of two numbers.
LEMMA MinOfTwo ==
  ASSUME NEW a \in Int, NEW b \in Int
  PROVE  /\ Min({a, b}) \in {a, b} /\ Min({a, b}) <= a /\ Min({a, b}) <= b
<1>1. \E x \in {a, b} : \A y \in {a, b} : x <= y
  <2>1. CASE a <= b
    BY <2>1
  <2>2. CASE ~(a <= b)
    BY <2>2
  <2> QED BY <2>1, <2>2
<1> QED BY <1>1 DEF Min

\* A sequence over a set is one over every larger set.
LEMMA SeqGrows ==
  ASSUME NEW S, NEW T, S \subseteq T, NEW q \in Seq(S)
  PROVE  q \in Seq(T)
OBVIOUS

\* A page stays one when more alerts are stored.
LEMMA PageGrows ==
  ASSUME NEW S, NEW T, S \subseteq T, NEW l, Page(l, S)
  PROVE  Page(l, T)
<1>1. [id : S, triaged : BOOLEAN] \subseteq [id : T, triaged : BOOLEAN]
  OBVIOUS
<1>2. l.rows \in Seq([id : S, triaged : BOOLEAN]) /\ l.known \in BOOLEAN
  BY DEF Page
<1>3. l.rows \in Seq([id : T, triaged : BOOLEAN])
  BY <1>1, <1>2, SeqGrows
<1>4. l \in [rows : Seq([id : T, triaged : BOOLEAN]), known : BOOLEAN]
  BY <1>3 DEF Page
<1> QED BY <1>4 DEF Page

\* Some alert of a finite set is the i-th newest.
LEMMA RankTaken ==
  ASSUME NEW n \in Nat, NEW S \in SUBSET (1..n), NEW i \in 1..Cardinality(S)
  PROVE  \E a \in S : Cardinality({b \in S : b > a}) = i - 1
<1> DEFINE Above(a) == {b \in S : b > a}
           Bad == {k \in 0..(Cardinality(S) - 1) :
                     ~\E a \in S : Cardinality(Above(a)) = k}
<1>1. IsFiniteSet(S) /\ Cardinality(S) \in Nat
  <2>1. IsFiniteSet(1..n)
    BY FS_Interval
  <2>2. IsFiniteSet(S)
    BY <2>1, FS_Subset
  <2> QED BY <2>2, FS_CardinalityType
<1>2. S # {}
  BY FS_EmptySet
<1>7. \A a \in S : a \in Nat
  OBVIOUS
<1>3. \A a \in S : IsFiniteSet(Above(a))
  BY <1>1, FS_Subset
<1>4. ASSUME NEW k \in Bad, \A j \in Bad : k <= j PROVE FALSE
  <2>1. CASE k = 0
    <3>1. PICK a \in S : \A u \in S : u <= a
      BY <1>2, GreatestNat
    <3>2. \A b \in S : ~(b > a)
      BY <1>7, <3>1
    <3>3. Above(a) = {}
      BY <3>2
    <3>4. Cardinality(Above(a)) = 0
      BY <3>3, FS_EmptySet
    <3> QED BY <2>1, <3>4
  <2>2. CASE k # 0
    <3>1. k - 1 \in 0..(Cardinality(S) - 1) /\ k - 1 \notin Bad
      BY <1>1, <1>4, <2>2
    <3>2. PICK a \in S : Cardinality(Above(a)) = k - 1
      BY <3>1
    <3> DEFINE Below == {c \in S : c < a}
               More == Above(a) \cup {a}
    <3>3. a \notin Above(a) /\ a \in Nat
      OBVIOUS
    <3>4. Cardinality(More) = k
      <4>1. Cardinality(More) = Cardinality(Above(a)) + 1
        BY <1>3, <3>3, FS_AddElement
      <4> QED BY <3>1, <3>2, <4>1
    <3>5. Below # {}
      <4>1. ASSUME Below = {} PROVE FALSE
        <5>1. \A b \in S : b > a \/ b = a
          BY <1>7, <4>1
        <5>2. S = More
          BY <5>1
        <5>3. Cardinality(S) = k
          BY <3>4, <5>2, Zenon
        <5>4. k \in 0..(Cardinality(S) - 1)
          OBVIOUS
        <5> QED BY <1>1, <5>3, <5>4
      <4> QED BY <4>1
    <3>6. PICK g \in Below : \A u \in Below : u <= g
      <4>1. Below \in SUBSET (1..n)
        OBVIOUS
      <4> QED BY <3>5, <4>1, GreatestNat
    <3>7. Above(g) = More
      <4>1. ASSUME NEW b \in S PROVE b > g <=> b > a \/ b = a
        <5>1. b \in Nat /\ a \in Nat /\ g \in Nat /\ g < a
          OBVIOUS
        <5>2. b < a => b <= g
          BY <3>6
        <5> QED BY <5>1, <5>2
      <4> QED BY <4>1
    <3>8. g \in S /\ Cardinality(Above(g)) = k
      BY <3>4, <3>7
    <3> QED BY <3>8
  <2> QED BY <2>1, <2>2
<1>5. Bad = {}
  <2>1. Bad \in SUBSET Nat
    BY <1>1
  <2>2. ASSUME Bad # {} PROVE FALSE
    <3>1. PICK k \in Bad : \A j \in Bad : k <= j
      BY <2>1, <2>2, LeastNat
    <3> QED BY <1>4, <3>1
  <2> QED BY <2>2
<1>6. i - 1 \in 0..(Cardinality(S) - 1) /\ i - 1 \notin Bad
  BY <1>1, <1>5
<1> QED BY <1>6

\* An answer of GET /alerts is a page of stored alerts.
LEMMA AnswersArePages ==
  ASSUME stored \in SUBSET Alerts
  PROVE  Page(Wanted, stored)
<1> USE FeedAssumption DEF Alerts
<1> DEFINE n == Min({Limit, Cardinality(stored)})
           rows == [i \in 1..n |-> [id |-> Newest(i), triaged |-> Newest(i) \in triaged]]
<1>1. Cardinality(stored) \in Nat
  <2>1. IsFiniteSet(1..NAlerts)
    BY FS_Interval
  <2>2. IsFiniteSet(stored)
    BY <2>1, FS_Subset
  <2> QED BY <2>2, FS_CardinalityType
<1>2. n \in Nat /\ n <= Limit /\ n <= Cardinality(stored)
  <2>1. Limit \in Nat /\ Limit \in Int /\ Cardinality(stored) \in Int
    BY <1>1
  <2> QED BY <1>1, <2>1, MinOfTwo
<1>3. \A i \in 1..n : /\ Newest(i) \in stored
                      /\ Cardinality({b \in stored : b > Newest(i)}) = i - 1
  <2> SUFFICES ASSUME NEW i \in 1..n
               PROVE  /\ Newest(i) \in stored
                      /\ Cardinality({b \in stored : b > Newest(i)}) = i - 1
    OBVIOUS
  <2>1. i \in 1..Cardinality(stored)
    <3> HIDE DEF n
    <3> QED BY <1>1, <1>2
  <2>2. \E a \in stored : Cardinality({b \in stored : b > a}) = i - 1
    <3> HIDE FeedAssumption DEF n, rows
    <3>1. NAlerts \in Nat /\ stored \in SUBSET (1..NAlerts)
      BY FeedAssumption DEF Alerts
    <3> QED BY <2>1, <3>1, RankTaken
  <2> DEFINE Ranked(a) == Cardinality({b \in stored : b > a}) = i - 1
  <2>3. Newest(i) = CHOOSE a \in stored : Ranked(a)
    BY DEF Newest
  <2>4. \E a \in stored : Ranked(a)
    BY <2>2
  <2>5. Newest(i) \in stored /\ Ranked(Newest(i))
    <3> HIDE DEF Ranked
    <3> QED BY <2>3, <2>4
  <2> QED BY <2>5
<1>4. Wanted = [rows |-> rows, known |-> TRUE]
  BY DEF Wanted
<1> HIDE DEF n
<1>5. rows \in Seq([id : stored, triaged : BOOLEAN]) /\ Len(rows) = n
  <2> DEFINE R == [id : stored, triaged : BOOLEAN]
  <2>1. \A i \in 1..n : [id |-> Newest(i), triaged |-> Newest(i) \in triaged] \in R
    <3>1. \A i \in 1..n : (Newest(i) \in triaged) \in BOOLEAN
      OBVIOUS
    <3> QED BY <1>3, <3>1
  <2> HIDE DEF R
  <2>2. rows \in [1..n -> R]
    BY <2>1
  <2> HIDE DEF rows
  <2>3. rows \in Seq(R) /\ Len(rows) = n
    BY <1>2, <2>2
  <2> QED BY <2>3 DEF R
<1>6. \A i, j \in 1..n : rows[i].id = rows[j].id => i = j
  <2> SUFFICES ASSUME NEW i \in 1..n, NEW j \in 1..n, rows[i].id = rows[j].id
               PROVE  i = j
    OBVIOUS
  <2>1. Newest(i) = Newest(j)
    OBVIOUS
  <2>2. i - 1 = j - 1
    BY <1>3, <2>1
  <2> QED BY <1>2, <2>2
<1> HIDE DEF rows
<1> QED BY <1>2, <1>4, <1>5, <1>6 DEF Page, Once

\* Merging an alert into a page leaves a page: its older row goes.
LEMMA MergedIsPage ==
  ASSUME NEW S, NEW l, Page(l, S), NEW a \in S
  PROVE  Page([l EXCEPT !.rows = Merge(@, a)], S)
<1> DEFINE R == [id : S, triaged : BOOLEAN]
           old == l.rows
           rest == Without(old, a)
           all == <<Published(a)>> \o rest
           n == Min({Limit, Len(all)})
<1>1. /\ old \in Seq(R) /\ l.known \in BOOLEAN /\ Once(old)
      /\ l \in [rows : Seq(R), known : BOOLEAN]
  BY DEF Page
<1>2. Published(a) \in R /\ Published(a).id = a
  BY DEF Published
<1> DEFINE Other == {r \in Members(old) : r.id # a}
<1>3. rest = Only(old, Other)
  BY DEF Without
<1>4. rest \in Seq(R \cap Other)
  <2> HIDE DEF old, Other, R
  <2> QED BY <1>1, <1>3, OnlyMembers
<1>5. rest \in Seq(R) /\ \A i \in 1..Len(rest) : rest[i] \in R /\ rest[i].id # a
  <2> HIDE DEF rest, old, R
  <2>1. \A i \in 1..Len(rest) : rest[i] \in R \cap Other
    BY <1>4
  <2>2. rest \in Seq(R)
    <3> HIDE DEF Other
    <3> QED BY <1>4, SeqGrows
  <2> QED BY <2>1, <2>2
<1>6. Once(rest)
  <2>1. PICK p \in [1..Len(Only(old, Other)) -> 1..Len(old)] :
           /\ \A i \in 1..Len(Only(old, Other)) : Only(old, Other)[i] = old[p[i]]
           /\ \A i, j \in 1..Len(Only(old, Other)) : i < j => p[i] < p[j]
           /\ \A k \in 1..Len(old) : old[k] \in Other
                => \E i \in 1..Len(Only(old, Other)) : p[i] = k
    <3> HIDE DEF old, Other, R, rest, all, n
    <3>1. old \in Seq(R)
      BY <1>1
    <3> QED BY <3>1, OnlyInOrder, SMTT(20)
  <2> HIDE DEF rest, old, Other, R
  <2>2. /\ p \in [1..Len(rest) -> 1..Len(old)]
        /\ \A i \in 1..Len(rest) : rest[i] = old[p[i]]
        /\ \A i, j \in 1..Len(rest) : i < j => p[i] < p[j]
    BY <1>3, <2>1
  <2>3. Len(rest) \in Nat /\ Len(old) \in Nat
    BY <1>1, <1>5
  <2> SUFFICES ASSUME NEW i \in 1..Len(rest), NEW j \in 1..Len(rest),
                      rest[i].id = rest[j].id
               PROVE  i = j
    BY DEF Once
  <2>4. p[i] \in 1..Len(old) /\ p[j] \in 1..Len(old) /\ old[p[i]].id = old[p[j]].id
    BY <2>2
  <2>5. p[i] = p[j]
    BY <1>1, <2>4 DEF Once
  <2>6. ~(i < j) /\ ~(j < i)
    BY <2>2, <2>3, <2>4, <2>5
  <2> QED BY <2>3, <2>6
<1>7. /\ all \in Seq(R) /\ Len(all) = Len(rest) + 1 /\ Len(rest) \in Nat
      /\ all[1] = Published(a)
      /\ \A i \in 2..Len(all) : all[i] = rest[i - 1] /\ i - 1 \in 1..Len(rest)
  <2> DEFINE first == <<Published(a)>>
  <2>1. first \in Seq(R) /\ Len(first) = 1 /\ first[1] = Published(a)
    <3> HIDE DEF R
    <3> QED BY <1>2
  <2>2. all = first \o rest
    OBVIOUS
  <2> HIDE DEF first, rest, R
  <2>3. /\ all \in Seq(R) /\ Len(all) = 1 + Len(rest)
        /\ \A i \in 1..(1 + Len(rest)) : all[i] = IF i <= 1 THEN first[i] ELSE rest[i - 1]
    <3>1. /\ first \o rest \in Seq(R) /\ Len(first \o rest) = Len(first) + Len(rest)
          /\ \A i \in 1..(Len(first) + Len(rest)) : (first \o rest)[i] =
               IF i <= Len(first) THEN first[i] ELSE rest[i - Len(first)]
      BY <1>5, <2>1, ConcatProperties
    <3> HIDE DEF all
    <3> QED BY <2>1, <2>2, <3>1
  <2>4. Len(rest) \in Nat
    BY <1>5
  <2> HIDE DEF all
  <2> QED BY <2>1, <2>3, <2>4
<1>8. \A i, j \in 1..Len(all) : all[i].id = all[j].id => i = j
  <2> HIDE DEF rest, all, R
  <2> SUFFICES ASSUME NEW i \in 1..Len(all), NEW j \in 1..Len(all),
                      all[i].id = all[j].id
               PROVE  i = j
    OBVIOUS
  <2>0. i \in Nat /\ j \in Nat
    OBVIOUS
  <2>1. \A k \in 2..Len(all) : all[k].id # a
    BY <1>5, <1>7
  <2>2. CASE i = 1
    <3>1. all[j].id = a
      BY <1>2, <1>7, <2>2
    <3>2. j \notin 2..Len(all)
      BY <2>1, <3>1
    <3> QED BY <1>7, <2>2, <3>2
  <2>3. CASE j = 1
    <3>1. all[i].id = a
      BY <1>2, <1>7, <2>3
    <3>2. i \notin 2..Len(all)
      BY <2>1, <3>1
    <3> QED BY <1>7, <2>3, <3>2
  <2>4. CASE i # 1 /\ j # 1
    <3>1. i \in 2..Len(all) /\ j \in 2..Len(all)
      BY <1>7, <2>4
    <3>2. rest[i - 1].id = rest[j - 1].id /\ i - 1 \in 1..Len(rest) /\ j - 1 \in 1..Len(rest)
      BY <1>7, <3>1
    <3>3. i - 1 = j - 1
      BY <1>6, <3>2 DEF Once
    <3> QED BY <2>0, <3>3
  <2> QED BY <2>2, <2>3, <2>4
<1>9. n \in Nat /\ n <= Limit /\ n <= Len(all)
  <2>1. Len(all) \in Nat /\ Limit \in Nat /\ Len(all) \in Int /\ Limit \in Int
    <3> HIDE DEF all, rest
    <3> QED BY <1>7, FeedAssumption
  <2> HIDE DEF all
  <2> QED BY <2>1, MinOfTwo
<1> DEFINE new == SubSeq(all, 1, n)
<1>10. new \in Seq(R) /\ Len(new) = n /\ \A i \in 1..n : new[i] = all[i]
  <2> HIDE DEF all, n, R, rest
  <2> QED BY <1>7, <1>9
<1>11. Merge(old, a) = new
  BY DEF Merge
<1>12. Once(new)
  <2> HIDE DEF all, n, new, R, rest
  <2> SUFFICES ASSUME NEW i \in 1..n, NEW j \in 1..n, new[i].id = new[j].id
               PROVE  i = j
    BY <1>10 DEF Once
  <2>1. i \in 1..Len(all) /\ j \in 1..Len(all)
    BY <1>7, <1>9
  <2> QED BY <1>8, <1>10, <2>1
<1>13. [l EXCEPT !.rows = Merge(@, a)] = [rows |-> new, known |-> l.known]
  <2> HIDE DEF new, R
  <2> QED BY <1>1, <1>11
<1> HIDE DEF new, n
<1> QED BY <1>1, <1>9, <1>10, <1>12, <1>13 DEF Page
-----------------------------------------------------------------------------
(* The flow of alerts.                                                      *)

\* A list that was never loaded is an empty page.
LEMMA NoListIsPage == Page(NoList, {})
<1> DEFINE R == [id : {}, triaged : BOOLEAN]
<1>1. <<>> \in Seq(R) /\ Len(<<>>) = 0 /\ 0 <= Limit
  <2>1. Limit \in Nat
    BY FeedAssumption
  <2> HIDE DEF R
  <2> QED BY <2>1
<1>2. NoList \in [rows : Seq(R), known : BOOLEAN] /\ NoList.rows = <<>>
  <2> HIDE DEF R
  <2> QED BY <1>1 DEF NoList
<1>3. Once(NoList.rows)
  BY <1>1, <1>2 DEF Once
<1> QED BY <1>1, <1>2, <1>3 DEF Page

\* At the start there are no alerts.
LEMMA FlowStarts == Init => Flow
<1> SUFFICES ASSUME Init PROVE Flow
  OBVIOUS
<1>1. /\ stored = {} /\ triaged = {} /\ unpublished = {}
      /\ log = <<>> /\ net = <<>> /\ list = NoList /\ reply = NoList
  BY DEF Init
<1>2. log \in Seq(stored) /\ net \in Seq(stored \cup {Keepalive})
  BY <1>1, EmptySeq
<1>3. Page(list, stored) /\ Page(reply, stored)
  BY <1>1, NoListIsPage
<1> QED BY <1>1, <1>2, <1>3 DEF Flow

\* Every step keeps the flow in order: what is published was stored before.
LEMMA FlowKept ==
  ASSUME Flow, Coroutine, [Next]_vars
  PROVE  Flow'
<1> USE DEF backend, session
<1>f. /\ stored \in SUBSET Alerts /\ triaged \in SUBSET stored
      /\ unpublished \in SUBSET stored
      /\ log \in Seq(stored) /\ net \in Seq(stored \cup {Keepalive})
      /\ Page(list, stored) /\ Page(reply, stored)
  BY DEF Flow
<1>p. Page(NoList, stored)
  BY NoListIsPage, PageGrows
\* What the console and the coroutine do leaves the tables and the stream alone.
<1>q. ASSUME UNCHANGED backend, net' \in Seq(stored \cup {Keepalive}),
             Page(list', stored), Page(reply', stored)
      PROVE  Flow'
  BY <1>f, <1>q DEF Flow
<1>k. Keepalive \in stored \cup {Keepalive} /\ <<>> \in Seq(stored \cup {Keepalive})
  BY EmptySeq
<1>1. ASSUME NEW a \in Alerts, Store(a) PROVE Flow'
  <2>1. /\ stored' = stored \cup {a} /\ unpublished' = unpublished \cup {a}
        /\ UNCHANGED <<triaged, log, net, list, reply>>
    BY <1>1 DEF Store
  <2>2. log' \in Seq(stored') /\ net' \in Seq(stored' \cup {Keepalive})
    <3>1. stored \subseteq stored' /\ (stored \cup {Keepalive}) \subseteq (stored' \cup {Keepalive})
      BY <2>1
    <3> QED BY <1>f, <2>1, <3>1, SeqGrows
  <2>3. Page(list', stored') /\ Page(reply', stored')
    BY <1>f, <2>1, PageGrows
  <2>4. stored' \in SUBSET Alerts /\ triaged' \in SUBSET stored' /\ unpublished' \in SUBSET stored'
    BY <1>f, <2>1
  <2> QED BY <2>2, <2>3, <2>4 DEF Flow
<1>2. ASSUME NEW a \in Alerts, Publish(a) PROVE Flow'
  <2>1. /\ a \in unpublished /\ log' = Append(log, a) /\ unpublished' = unpublished \ {a}
        /\ UNCHANGED <<stored, triaged, net, list, reply>>
    BY <1>2 DEF Publish
  <2>2. log' \in Seq(stored)
    BY <1>f, <2>1
  <2> QED BY <1>f, <2>1, <2>2 DEF Flow
<1>3. ASSUME NEW a \in Alerts, LosePublication(a) PROVE Flow'
  BY <1>f, <1>3 DEF Flow, LosePublication
<1>4. ASSUME NEW a \in Alerts, Triage(a) PROVE Flow'
  <2>1. /\ a \in stored /\ triaged' = triaged \cup {a}
        /\ UNCHANGED <<stored, unpublished, log, net, list, reply>>
    BY <1>4 DEF Triage
  <2> QED BY <1>f, <2>1 DEF Flow
<1>5. CASE Accept
  <2>1. net' = <<Keepalive>> /\ UNCHANGED <<backend, list, reply>>
    BY <1>5 DEF Accept
  <2>2. <<Keepalive>> \in Seq(stored \cup {Keepalive})
    BY <1>k
  <2> QED BY <1>f, <1>q, <2>1, <2>2
<1>6. CASE Read
  BY <1>f, <1>q, <1>6 DEF Read
<1>7. CASE ReadReturns
  BY <1>f, <1>q, <1>7 DEF ReadReturns
<1>8. CASE ReadTimesOut
  <2>1. net' = Append(net, Keepalive) /\ UNCHANGED <<backend, list, reply>>
    BY <1>8 DEF ReadTimesOut
  <2>2. net' \in Seq(stored \cup {Keepalive})
    BY <1>f, <1>k, <2>1
  <2> QED BY <1>f, <1>q, <2>1, <2>2
<1>9. CASE Send
  <2>1. /\ server.phase = "sending" /\ net' = Append(net, log[Head(server.read)])
        /\ UNCHANGED <<backend, list, reply>>
    BY <1>9 DEF Send
  <2>2. Head(server.read) \in 1..Len(log)
    <3>1. server.read # <<>> /\ server.read \in Seq(Nat)
      BY <2>1 DEF Coroutine, InOrder, Servers
    <3>2. 1 \in 1..Len(server.read) /\ Head(server.read) = server.read[1]
      BY <3>1
    <3> QED BY <3>2 DEF Coroutine, InOrder
  <2>3. log[Head(server.read)] \in stored \cup {Keepalive}
    BY <1>f, <2>2
  <2>4. net' \in Seq(stored \cup {Keepalive})
    BY <1>f, <2>1, <2>3
  <2> QED BY <1>f, <1>q, <2>1, <2>4
<1>10. CASE ServerFails
  BY <1>f, <1>q, <1>10 DEF ServerFails
<1>11. CASE Receive
  <2>1. /\ net # <<>> /\ net' = Tail(net) /\ UNCHANGED <<backend, reply>>
        /\ list' = IF Head(net) = Keepalive \/ ~list.known THEN list
                   ELSE [list EXCEPT !.rows = Merge(@, Head(net))]
    BY <1>11 DEF Receive
  <2>2. net' \in Seq(stored \cup {Keepalive}) /\ Head(net) \in stored \cup {Keepalive}
    BY <1>f, <2>1, HeadTailProperties
  <2>3. Page(list', stored)
    <3>1. CASE Head(net) = Keepalive \/ ~list.known
      BY <1>f, <2>1, <3>1
    <3>2. CASE ~(Head(net) = Keepalive \/ ~list.known)
      <4>1. Head(net) \in stored /\ list' = [list EXCEPT !.rows = Merge(@, Head(net))]
        BY <2>1, <2>2, <3>2
      <4> QED BY <1>f, <4>1, MergedIsPage
    <3> QED BY <3>1, <3>2
  <2> QED BY <1>f, <1>q, <2>1, <2>2, <2>3
<1>12. CASE Closed
  BY <1>f, <1>q, <1>12 DEF Closed
<1>13. CASE Break
  BY <1>f, <1>k, <1>q, <1>13 DEF Break
<1>14. CASE Reconnect
  BY <1>f, <1>q, <1>14 DEF Reconnect
<1>15. CASE Leave
  BY <1>f, <1>k, <1>p, <1>q, <1>15 DEF Leave
<1>16. CASE Ask
  <2>1. Page(Wanted, stored)
    BY <1>f, AnswersArePages
  <2> QED BY <1>f, <1>q, <1>16, <2>1 DEF Ask
<1>17. CASE Answer
  BY <1>f, <1>p, <1>q, <1>17 DEF Answer
<1>18. CASE AnswerFails
  BY <1>f, <1>p, <1>q, <1>18 DEF AnswerFails
<1>19. CASE UNCHANGED vars
  BY <1>f, <1>q, <1>19 DEF vars
<1> QED
  BY <1>1, <1>2, <1>3, <1>4, <1>5, <1>6, <1>7, <1>8, <1>9, <1>10, <1>11, <1>12,
     <1>13, <1>14, <1>15, <1>16, <1>17, <1>18, <1>19 DEF Next
-----------------------------------------------------------------------------
(* Sessions.                                                                *)

\* A coroutine that has not read or sent anything is in order.
LEMMA FreshCoroutine ==
  ASSUME NEW p \in {"gone", "ready"}, NEW n
  PROVE  InOrder([Gone EXCEPT !.phase = p], <<>>, n)
<1> DEFINE s == [Gone EXCEPT !.phase = p]
<1>1. /\ s.phase = p /\ s.last = AtEnd /\ s.wait = AtEnd /\ s.read = <<>>
      /\ s = [phase |-> p, last |-> AtEnd, wait |-> AtEnd, read |-> <<>>]
  BY DEF Gone
<1>2. s \in Servers
  BY <1>1, EmptySeq DEF Servers, Phases
<1>3. <<>> \in Seq(Nat) /\ Len(<<>>) = 0
  BY EmptySeq
<1>4. InOrder(s, <<>>, n)
  <2> HIDE DEF s
  <2> QED BY <1>1, <1>2, <1>3 DEF InOrder, Consecutive
<1> QED BY <1>4

\* At the start there is no session.
LEMMA SessionStarts == Init => Coroutine /\ Connection
<1> SUFFICES ASSUME Init PROVE Coroutine /\ Connection
  OBVIOUS
<1>1. server = [Gone EXCEPT !.phase = "gone"] /\ sent = <<>>
  BY DEF Init, Gone
<1>2. Coroutine
  BY <1>1, FreshCoroutine DEF Coroutine
<1>3. <<>> \in Seq(Int) /\ Len(<<>>) = 0 /\ 0 <= Buffer
  BY FeedAssumption, EmptySeq
<1> QED BY <1>2, <1>3 DEF Init, Connection

\* The stream gets longer while a session reads it.
LEMMA StreamGrows ==
  ASSUME NEW m \in Nat, NEW n \in Nat, m <= n, NEW s, NEW q, InOrder(s, q, m)
  PROVE  InOrder(s, q, n)
<1>1. 1..m \subseteq 1..n /\ 0..m \subseteq 0..n
  OBVIOUS
<1>2. \A i \in 1..Len(s.read) : s.read[i] \in 1..n /\ s.read[i] = s.read[1] + i - 1
  BY <1>1 DEF InOrder
<1>3. (s.last # AtEnd => s.last \in 1..n) /\ (s.wait # AtEnd => s.wait \in 0..n)
  BY <1>1 DEF InOrder
<1> QED BY <1>2, <1>3 DEF InOrder

\* An XREAD that returns and an entry that is sent keep the coroutine in order.
LEMMA CoroutineKept ==
  ASSUME Flow, Coroutine, Connection, [Next]_vars
  PROVE  Coroutine'
<1> USE DEF backend, session
<1>f. /\ log \in Seq(stored) /\ Len(log) \in Nat
      /\ server \in Servers /\ sent \in Seq(Nat) /\ Len(sent) \in Nat
  BY DEF Flow, Coroutine, InOrder
<1>t. /\ server.phase \in Phases /\ server.last \in Nat \cup {AtEnd}
      /\ server.wait \in Nat \cup {AtEnd} /\ server.read \in Seq(Nat)
  BY <1>f DEF Servers
<1>s. ASSUME UNCHANGED <<server, sent, log>> PROVE Coroutine'
  BY <1>s DEF Coroutine
<1>g. ASSUME server' = Gone, sent' = <<>> PROVE Coroutine'
  <2>1. server' = [Gone EXCEPT !.phase = "gone"]
    BY <1>g DEF Gone
  <2>2. InOrder([Gone EXCEPT !.phase = "gone"], <<>>, Len(log'))
    BY FreshCoroutine
  <2> QED BY <1>g, <2>1, <2>2 DEF Coroutine
<1>1. ASSUME NEW a \in Alerts, Store(a) PROVE Coroutine'
  BY <1>s, <1>1 DEF Store
<1>2. ASSUME NEW a \in Alerts, Publish(a) PROVE Coroutine'
  <2>1. log' = Append(log, a) /\ UNCHANGED <<server, sent>> /\ a \in stored
    BY <1>2 DEF Publish, Flow
  <2>2. Len(log') = Len(log) + 1
    BY <1>f, <2>1
  <2>3. Len(log) <= Len(log') /\ Len(log') \in Nat
    BY <1>f, <2>2
  <2>4. InOrder(server, sent, Len(log'))
    BY <1>f, <2>3, StreamGrows DEF Coroutine
  <2> QED BY <2>1, <2>4 DEF Coroutine
<1>3. ASSUME NEW a \in Alerts, LosePublication(a) PROVE Coroutine'
  BY <1>s, <1>3 DEF LosePublication
<1>4. ASSUME NEW a \in Alerts, Triage(a) PROVE Coroutine'
  BY <1>s, <1>4 DEF Triage
<1>5. CASE Accept
  <2>1. server = Gone /\ server' = [Gone EXCEPT !.phase = "ready"] /\ sent' = sent
    BY <1>5 DEF Accept, Connection
  <2>2. sent = <<>>
    BY <2>1 DEF Coroutine, InOrder, Gone
  <2>3. InOrder([Gone EXCEPT !.phase = "ready"], <<>>, Len(log'))
    BY FreshCoroutine
  <2> QED BY <2>1, <2>2, <2>3 DEF Coroutine
<1>6. CASE Read
  <2>1. /\ server.phase = "ready" /\ UNCHANGED <<log, sent>>
        /\ server' = [server EXCEPT !.phase = "reading",
                        !.wait = IF server.last = AtEnd THEN Len(log) ELSE server.last]
    BY <1>6 DEF Read
  <2>2. /\ server'.phase = "reading" /\ server'.last = server.last
        /\ server'.wait = IF server.last = AtEnd THEN Len(log) ELSE server.last
        /\ server'.read = server.read
    BY <1>f, <2>1 DEF Servers
  <2>3. server'.wait \in 0..Len(log)
    BY <1>f, <2>2 DEF Coroutine, InOrder
  <2>4. server' \in Servers
    <3>1. server'.wait \in Nat \cup {AtEnd}
      BY <1>f, <2>3
    <3> QED BY <1>f, <2>1, <2>2, <3>1 DEF Servers, Phases
  <2>5. server.read = <<>> /\ AtEnd \notin Nat
    BY <2>1 DEF Coroutine, InOrder, AtEnd
  <2>6. (server.last # AtEnd => server'.wait = server'.last) /\ server'.wait # AtEnd
    BY <1>f, <2>2, <2>3, <2>5
  <2> QED BY <2>1, <2>2, <2>3, <2>4, <2>5, <2>6 DEF Coroutine, InOrder
<1>7. CASE ReadReturns
  <2> DEFINE n == Min({Batch, Len(log) - server.wait})
             q == [i \in 1..n |-> server.wait + i]
  <2>1. /\ server.phase = "reading" /\ Len(log) > server.wait /\ UNCHANGED <<log, sent>>
        /\ server' = [server EXCEPT !.phase = "sending", !.read = q]
    BY <1>7 DEF ReadReturns
  <2>2. /\ server.wait \in Nat /\ server.wait \in 0..Len(log)
        /\ server.last # AtEnd => server.wait = server.last
    BY <1>f, <2>1 DEF Coroutine, InOrder
  <2>3. n \in Nat /\ 1 <= n /\ server.wait + n <= Len(log)
    <3>1. Batch \in Int /\ 1 <= Batch
      BY FeedAssumption
    <3>2. Len(log) - server.wait \in Int /\ 1 <= Len(log) - server.wait
      BY <1>f, <2>1, <2>2
    <3>3. n \in {Batch, Len(log) - server.wait} /\ n <= Len(log) - server.wait
      BY <3>1, <3>2, MinOfTwo
    <3> HIDE DEF n
    <3> QED BY <1>f, <2>2, <3>1, <3>2, <3>3
  <2> HIDE DEF n
  <2>4. /\ q \in Seq(Nat) /\ Len(q) = n /\ q # <<>>
        /\ \A i \in 1..n : q[i] = server.wait + i
    <3>1. q \in [1..n -> Nat] /\ \A i \in 1..n : q[i] = server.wait + i
      BY <2>2, <2>3
    <3> HIDE DEF q
    <3>2. q \in Seq(Nat) /\ Len(q) = n
      BY <2>3, <3>1
    <3> QED BY <2>3, <3>1, <3>2, EmptySeq
  <2> HIDE DEF q
  <2>5. /\ server'.phase = "sending" /\ server'.last = server.last
        /\ server'.wait = server.wait /\ server'.read = q
    BY <1>f, <2>1 DEF Servers
  <2>6. server' \in Servers
    BY <1>f, <2>1, <2>4 DEF Servers, Phases
  <2>7. \A i \in 1..n : q[i] \in 1..Len(log) /\ q[i] = q[1] + i - 1
    <3> SUFFICES ASSUME NEW i \in 1..n
                 PROVE  q[i] \in 1..Len(log) /\ q[i] = q[1] + i - 1
      OBVIOUS
    <3>1. q[i] = server.wait + i /\ q[1] = server.wait + 1
      BY <2>3, <2>4
    <3>2. i \in Nat /\ 1 <= i /\ i <= n
      BY <2>3
    <3>3. Len(log) \in Nat /\ server.wait \in Nat
      BY <1>f, <2>2
    <3> QED BY <2>3, <3>1, <3>2, <3>3
  <2>8. server.last # AtEnd => q[1] = server.last + 1
    BY <2>2, <2>3, <2>4
  <2> QED BY <2>1, <2>4, <2>5, <2>6, <2>7, <2>8 DEF Coroutine, InOrder
<1>8. CASE ReadTimesOut
  <2>1. /\ server.phase = "reading" /\ UNCHANGED <<log, sent>>
        /\ server' = [server EXCEPT !.phase = "ready"]
    BY <1>8 DEF ReadTimesOut
  <2>2. /\ server'.phase = "ready" /\ server'.last = server.last
        /\ server'.wait = server.wait /\ server'.read = server.read
        /\ server' \in Servers
    BY <1>f, <2>1 DEF Servers, Phases
  <2> QED BY <2>1, <2>2 DEF Coroutine, InOrder
<1>9. CASE Send
  <2> DEFINE p == Head(server.read)
             rest == Tail(server.read)
  <2>1. /\ server.phase = "sending" /\ UNCHANGED log /\ sent' = Append(sent, p)
        /\ server' = [server EXCEPT !.last = p, !.read = rest,
                        !.phase = IF Len(server.read) = 1 THEN "ready" ELSE server.phase]
    BY <1>9, <1>f DEF Send, Servers
  <2>2. server.read # <<>> /\ server.read \in Seq(Nat)
    BY <1>t, <2>1 DEF Coroutine, InOrder
  <2>3. /\ p = server.read[1] /\ p \in Nat
        /\ rest \in Seq(Nat) /\ Len(rest) = Len(server.read) - 1 /\ Len(rest) \in Nat
        /\ \A i \in 1..Len(rest) : rest[i] = server.read[i + 1] /\ i + 1 \in 1..Len(server.read)
    <3>1. Len(server.read) \in Nat /\ Len(server.read) > 0
      BY <2>2, EmptySeq
    <3> QED BY <2>2, <3>1, HeadTailProperties
  <2> HIDE DEF p, rest
  <2>4. /\ server'.phase = IF Len(server.read) = 1 THEN "ready" ELSE "sending"
        /\ server'.last = p /\ server'.wait = server.wait /\ server'.read = rest
    BY <1>f, <2>1 DEF Servers
  <2>5. server' \in Servers
    BY <1>f, <2>1, <2>3, <2>4 DEF Servers, Phases
  <2>6. (server'.phase = "sending") = (server'.read # <<>>)
    <3>1. rest = <<>> <=> Len(rest) = 0
      BY <2>3, EmptySeq
    <3> QED BY <2>3, <2>4, <3>1
  <2>7. /\ 1 \in 1..Len(server.read)
        /\ p \in 1..Len(log)
        /\ \A i \in 1..Len(server.read) :
             server.read[i] \in 1..Len(log) /\ server.read[i] = p + i - 1
    <3>1. 1 \in 1..Len(server.read)
      BY <2>3
    <3> QED BY <2>3, <3>1 DEF Coroutine, InOrder
  <2>8. \A i \in 1..Len(rest) : rest[i] \in 1..Len(log) /\ rest[i] = p + i
    <3> SUFFICES ASSUME NEW i \in 1..Len(rest)
                 PROVE  rest[i] \in 1..Len(log) /\ rest[i] = p + i
      OBVIOUS
    <3>1. /\ rest[i] = server.read[i + 1]
          /\ server.read[i + 1] \in 1..Len(log)
          /\ server.read[i + 1] = p + (i + 1) - 1
      BY <2>3, <2>7
    <3> QED BY <2>3, <3>1
  <2>9. \A i \in 1..Len(rest) : rest[i] = rest[1] + i - 1
    <3> SUFFICES ASSUME NEW i \in 1..Len(rest) PROVE rest[i] = rest[1] + i - 1
      OBVIOUS
    <3>1. 1 \in 1..Len(rest) /\ i \in Int /\ p \in Int
      BY <2>3
    <3>2. rest[1] = p + 1 /\ rest[i] = p + i
      BY <2>8, <3>1
    <3> QED BY <3>1, <3>2
  <2>10. rest # <<>> => rest[1] = p + 1
    <3>1. rest # <<>> => 1 \in 1..Len(rest)
      BY <2>3, EmptySeq
    <3> QED BY <2>3, <2>8, <3>1
  <2>11. /\ sent' \in Seq(Nat) /\ Len(sent') = Len(sent) + 1 /\ sent'[Len(sent')] = p
         /\ \A i \in 1..Len(sent) : sent'[i] = sent[i]
    BY <1>f, <2>1, <2>3
  <2>12. sent' # <<>> /\ p # AtEnd
    BY <1>f, <2>3, <2>11, EmptySeq DEF AtEnd
  <2>13. Consecutive(sent')
    <3> SUFFICES ASSUME NEW i \in 1..(Len(sent') - 1)
                 PROVE  sent'[i + 1] = sent'[i] + 1
      BY DEF Consecutive
    <3>1. i \in 1..Len(sent) /\ sent'[i] = sent[i] /\ sent # <<>>
      BY <1>f, <2>11, EmptySeq
    <3>2. CASE i = Len(sent)
      <4>1. sent[i] = server.last /\ server.last # AtEnd
        BY <3>1, <3>2 DEF Coroutine, InOrder
      <4>2. p = server.last + 1
        BY <2>2, <2>3, <4>1 DEF Coroutine, InOrder
      <4> QED BY <1>f, <2>11, <3>1, <3>2, <4>1, <4>2
    <3>3. CASE i # Len(sent)
      <4>1. i \in 1..(Len(sent) - 1) /\ i + 1 \in 1..Len(sent)
        BY <1>f, <3>1, <3>3
      <4>2. sent[i + 1] = sent[i] + 1
        BY <4>1 DEF Coroutine, InOrder, Consecutive
      <4> QED BY <2>11, <3>1, <4>1, <4>2
    <3> QED BY <3>2, <3>3
  <2>14. server.wait # AtEnd => server.wait \in 0..Len(log)
    BY DEF Coroutine, InOrder
  <2> QED
    <3>1. server'.phase # "reading"
      BY <2>4
    <3> QED
      BY <2>1, <2>4, <2>5, <2>6, <2>7, <2>8, <2>9, <2>10, <2>11, <2>12, <2>13, <2>14, <3>1
      DEF Coroutine, InOrder
<1>10. CASE ServerFails
  BY <1>g, <1>10 DEF ServerFails
<1>11. CASE Receive
  BY <1>s, <1>11 DEF Receive
<1>12. CASE Closed
  BY <1>s, <1>12 DEF Closed
<1>13. CASE Break
  BY <1>g, <1>13 DEF Break
<1>14. CASE Reconnect
  BY <1>s, <1>14 DEF Reconnect
<1>15. CASE Leave
  BY <1>g, <1>15 DEF Leave
<1>16. CASE Ask
  BY <1>s, <1>16 DEF Ask
<1>17. CASE Answer
  BY <1>s, <1>17 DEF Answer
<1>18. CASE AnswerFails
  BY <1>s, <1>18 DEF AnswerFails
<1>19. CASE UNCHANGED vars
  BY <1>s, <1>19 DEF vars
<1> QED
  BY <1>1, <1>2, <1>3, <1>4, <1>5, <1>6, <1>7, <1>8, <1>9, <1>10, <1>11, <1>12,
     <1>13, <1>14, <1>15, <1>16, <1>17, <1>18, <1>19 DEF Next

\* No step overfills a connection, and one that ends leaves nothing behind.
LEMMA ConnectionKept ==
  ASSUME Coroutine, Connection, log \in Seq(Int), [Next]_vars
  PROVE  Connection'
<1> USE DEF backend, session
<1>f. /\ net \in Seq(Int) /\ Len(net) \in Nat /\ Len(net) <= Buffer
      /\ socket \in {"connecting", "open", "waiting", "left"}
      /\ label \in {"live", "reconnecting", "offline"}
      /\ socket # "open" => net = <<>> /\ server = Gone
      /\ Buffer \in Nat /\ 1 <= Buffer
  BY FeedAssumption DEF Connection
<1>e. <<>> \in Seq(Int) /\ Len(<<>>) = 0 /\ Gone.phase = "gone"
  BY EmptySeq DEF Gone
<1>s. ASSUME UNCHANGED <<net, socket, label, server>> PROVE Connection'
  BY <1>s DEF Connection
<1>1. ASSUME NEW a \in Alerts, Store(a) PROVE Connection'
  BY <1>s, <1>1 DEF Store
<1>2. ASSUME NEW a \in Alerts, Publish(a) PROVE Connection'
  BY <1>s, <1>2 DEF Publish
<1>3. ASSUME NEW a \in Alerts, LosePublication(a) PROVE Connection'
  BY <1>s, <1>3 DEF LosePublication
<1>4. ASSUME NEW a \in Alerts, Triage(a) PROVE Connection'
  BY <1>s, <1>4 DEF Triage
<1>5. CASE Accept
  <2>1. socket' = "open" /\ net' = <<Keepalive>> /\ label' = label
    BY <1>5 DEF Accept
  <2>2. net' \in Seq(Int) /\ Len(net') = 1
    BY <2>1 DEF Keepalive
  <2> QED BY <1>f, <2>1, <2>2 DEF Connection
<1>6. CASE Read
  BY <1>f, <1>e, <1>6 DEF Read, Connection
<1>7. CASE ReadReturns
  BY <1>f, <1>e, <1>7 DEF ReadReturns, Connection
<1>8. CASE ReadTimesOut
  <2>1. /\ server.phase = "reading" /\ Len(net) < Buffer /\ net' = Append(net, Keepalive)
        /\ UNCHANGED <<socket, label>>
    BY <1>8 DEF ReadTimesOut
  <2>2. net' \in Seq(Int) /\ Len(net') = Len(net) + 1
    BY <1>f, <2>1 DEF Keepalive
  <2> QED BY <1>f, <1>e, <2>1, <2>2 DEF Connection
<1>9. CASE Send
  <2>1. /\ server.phase = "sending" /\ Len(net) < Buffer
        /\ net' = Append(net, log[Head(server.read)]) /\ UNCHANGED <<socket, label>>
    BY <1>9 DEF Send
  <2>2. Head(server.read) \in 1..Len(log)
    <3>1. server.read # <<>> /\ server.read \in Seq(Nat)
      BY <2>1 DEF Coroutine, InOrder, Servers
    <3>2. 1 \in 1..Len(server.read) /\ Head(server.read) = server.read[1]
      BY <3>1
    <3> QED BY <3>2 DEF Coroutine, InOrder
  <2>3. log[Head(server.read)] \in Int
    BY <2>2
  <2>4. net' \in Seq(Int) /\ Len(net') = Len(net) + 1
    BY <1>f, <2>1, <2>3
  <2> QED BY <1>f, <1>e, <2>1, <2>4 DEF Connection
<1>10. CASE ServerFails
  BY <1>f, <1>e, <1>10 DEF ServerFails, Connection
<1>11. CASE Receive
  <2>1. socket = "open" /\ net # <<>> /\ net' = Tail(net) /\ label' = "live" /\ socket' = socket
    BY <1>11 DEF Receive
  <2>2. net' \in Seq(Int) /\ Len(net') = Len(net) - 1
    BY <1>f, <2>1, HeadTailProperties
  <2> QED BY <1>f, <2>1, <2>2 DEF Connection
<1>12. CASE Closed
  BY <1>f, <1>12 DEF Closed, Connection
<1>13. CASE Break
  BY <1>f, <1>e, <1>13 DEF Break, Connection
<1>14. CASE Reconnect
  BY <1>f, <1>14 DEF Reconnect, Connection
<1>15. CASE Leave
  BY <1>f, <1>e, <1>15 DEF Leave, Connection
<1>16. CASE Ask
  BY <1>s, <1>16 DEF Ask
<1>17. CASE Answer
  BY <1>s, <1>17 DEF Answer
<1>18. CASE AnswerFails
  BY <1>s, <1>18 DEF AnswerFails
<1>19. CASE UNCHANGED vars
  BY <1>s, <1>19 DEF vars
<1> QED
  BY <1>1, <1>2, <1>3, <1>4, <1>5, <1>6, <1>7, <1>8, <1>9, <1>10, <1>11, <1>12,
     <1>13, <1>14, <1>15, <1>16, <1>17, <1>18, <1>19 DEF Next
-----------------------------------------------------------------------------
(* Theorems.                                                                *)

\* Alerts flow from the store to the screen, and the two ends of a session fit.
FeedInv == Flow /\ Coroutine /\ Connection

\* The inductive invariant of the feed.
THEOREM FeedInvariant == Spec => []FeedInv
<1>1. Init => FeedInv
  BY FlowStarts, SessionStarts DEF FeedInv
<1>2. FeedInv /\ [Next]_vars => FeedInv'
  <2> SUFFICES ASSUME FeedInv, [Next]_vars PROVE FeedInv'
    OBVIOUS
  <2>1. Flow /\ Coroutine /\ Connection
    BY DEF FeedInv
  <2>2. log \in Seq(Int)
    <3>1. stored \subseteq Int /\ log \in Seq(stored)
      BY <2>1, FeedAssumption DEF Flow, Alerts
    <3> QED BY <3>1, SeqGrows
  <2>3. Flow' /\ Coroutine' /\ Connection'
    BY <2>1, <2>2, FlowKept, CoroutineKept, ConnectionKept
  <2> QED BY <2>3 DEF FeedInv
<1> QED BY <1>1, <1>2, PTL DEF Spec

\* The variables keep their types, and a list its limit (alerts-client.tsx,
\* use-alert-stream.ts:36): merging the live feed never makes it grow beyond.
THEOREM TypeCorrect == Spec => []TypeOK
<1>1. FeedInv => TypeOK
  <2> SUFFICES ASSUME FeedInv PROVE TypeOK
    OBVIOUS
  <2>1. Flow /\ Coroutine /\ Connection
    BY DEF FeedInv
  <2>2. Members(log) \subseteq Alerts
    <3>1. log \in Seq(stored) /\ stored \subseteq Alerts
      BY <2>1 DEF Flow
    <3> QED BY <3>1 DEF Members
  <2>3. Rows \subseteq Alerts \X BOOLEAN /\ Len(list.rows) <= Limit
    <3>1. /\ list.rows \in Seq([id : stored, triaged : BOOLEAN]) /\ stored \subseteq Alerts
          /\ Len(list.rows) <= Limit
      BY <2>1 DEF Flow, Page
    <3>2. \A i \in 1..Len(list.rows) : list.rows[i] \in [id : stored, triaged : BOOLEAN]
      BY <3>1, ElementOfSeq
    <3>3. \A r \in Members(list.rows) : r.id \in Alerts /\ r.triaged \in BOOLEAN
      BY <3>1, <3>2 DEF Members
    <3> QED BY <3>1, <3>3 DEF Rows
  <2>4. server.last \in {AtEnd} \cup 1..Len(log) /\ server.wait \in {AtEnd} \cup 0..Len(log)
    BY <2>1 DEF Coroutine, InOrder
  <2>5. /\ server.phase \in {"gone", "ready", "reading", "sending"}
        /\ (server.phase = "sending") = (server.read # <<>>)
    BY <2>1 DEF Coroutine, InOrder, Servers, Phases
  <2>6. stored \subseteq Alerts /\ triaged \subseteq stored /\ unpublished \subseteq Alerts
    BY <2>1 DEF Flow
  <2> QED BY <2>1, <2>2, <2>3, <2>4, <2>5, <2>6 DEF TypeOK, Connection
<1> QED BY <1>1, FeedInvariant, PTL

\* However XREADs, timeouts and publications interleave, the entries that a session
\* sends are consecutive entries of the stream (api.py:537-555).
THEOREM SessionsSkipNothing == Spec => []SentInSequence
<1>1. FeedInv => SentInSequence
  BY DEF FeedInv, Coroutine, InOrder, Consecutive, SentInSequence
<1> QED BY <1>1, FeedInvariant, PTL

\* What a console shows is in the store and there once (pipeline.py:228-233,
\* use-alert-stream.ts:36), whichever of the poll and the feed came last.
THEOREM ScreenIsStoredOnce == Spec => []OnScreenIsStoredOnce
<1>1. FeedInv => OnScreenIsStoredOnce
  <2> SUFFICES ASSUME FeedInv PROVE OnScreenIsStoredOnce
    OBVIOUS
  <2>1. list.rows \in Seq([id : stored, triaged : BOOLEAN]) /\ Once(list.rows)
    BY DEF FeedInv, Flow, Page
  <2>2. \A i \in 1..Len(list.rows) : list.rows[i] \in [id : stored, triaged : BOOLEAN]
    BY <2>1, ElementOfSeq
  <2>3. \A r \in Members(list.rows) : r.id \in stored
    BY <2>2 DEF Members
  <2> QED BY <2>1, <2>3 DEF OnScreenIsStoredOnce, Once
<1> QED BY <1>1, FeedInvariant, PTL
=============================================================================
