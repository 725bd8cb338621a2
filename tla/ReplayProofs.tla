---------------------------- MODULE ReplayProofs ----------------------------
(***************************************************************************)
(* Proofs about Replay: what a source is read as, then the rows it leaves in  *)
(* the store whatever replays of it run at once, fail, die and are repeated.  *)
(***************************************************************************)
EXTENDS Replay, DataProofs, SequenceTheorems

\* The smaller of two numbers.
LEMMA SmallerOfTwo ==
  ASSUME NEW a \in Int, NEW b \in Int
  PROVE  Min({a, b}) = IF a <= b THEN a ELSE b
<1>1. \E x \in {a, b} : \A y \in {a, b} : x <= y
  <2>1. CASE a <= b
    BY <2>1
  <2>2. CASE ~(a <= b)
    BY <2>2
  <2> QED BY <2>1, <2>2
<1>2. Min({a, b}) \in {a, b} /\ Min({a, b}) <= a /\ Min({a, b}) <= b
  BY <1>1 DEF Min
<1> QED BY <1>2

\* A function on 1..n is a sequence of length n.
LEMMA FunctionIsSeq ==
  ASSUME NEW n \in Nat, NEW V, NEW f \in [1..n -> V]
  PROVE  f \in Seq(V) /\ Len(f) = n
OBVIOUS

\* INSERT OR IGNORE, on a table that has no row twice.
LEMMA InsertOnce ==
  ASSUME NEW table, \A id \in DOMAIN table : table[id] = 1, NEW ids
  PROVE  /\ DOMAIN Insert(table, ids) = DOMAIN table \cup ids
         /\ \A id \in DOMAIN Insert(table, ids) : Insert(table, ids)[id] = 1
BY DEF Insert, SetToBag, (+)
-----------------------------------------------------------------------------
(* What is read of a capture.                                               *)

LinesOf(c) == Members(c.conn) \cup Members(c.dns)

\* The logs of a capture are sequences of lines, with times that are numbers or not.
LEMMA LogsOfLines ==
  ASSUME NEW c \in Captures
  PROVE  /\ c.conn \in Seq(LinesOf(c)) /\ c.dns \in Seq(LinesOf(c))
         /\ Len(c.conn) \in Nat /\ Len(c.dns) \in Nat
         /\ \A line \in LinesOf(c) : line.ts \in Nat \cup {BadTime}
<1>1. c.conn \in Seq(Members(c.conn)) /\ c.dns \in Seq(Members(c.dns))
  BY CapturesAssumption
<1> QED BY <1>1, SeqMonotonic, CapturesAssumption DEF LinesOf

\* The lines of a uid that are merged are lines of that uid.
LEMMA SomeHave ==
  ASSUME NEW V, NEW lines \in Seq(V), NEW u \in Uids(lines), NEW field, NEW nothing
  PROVE  LET S == Having(lines, u, field, nothing)
         IN  Max(S) \in 1..Len(lines) /\ lines[Max(S)].uid = u
<1> DEFINE all == {i \in 1..Len(lines) : lines[i].uid = u}
           some == {i \in all : lines[i][field] # nothing}
           S == Having(lines, u, field, nothing)
<1>1. Len(lines) \in Nat /\ all # {}
  BY DEF Uids
<1>2. S = IF some = {} THEN all ELSE some
  BY DEF Having
<1> HIDE DEF S
<1>3. S \in SUBSET all /\ S # {}
  BY <1>1, <1>2
<1>4. S \in SUBSET (1..Len(lines)) /\ S \in SUBSET Nat
  BY <1>1, <1>3
<1>5. \E v \in S : \A w \in S : w <= v
  BY <1>1, <1>3, <1>4, GreatestNat
<1>6. \E v \in S : \A w \in S : v >= w
  BY <1>4, <1>5
<1>7. Max(S) \in S
  BY <1>6 DEF Max
<1> QED BY <1>3, <1>7 DEF S

\* What the lines of a uid are merged to has the time of one and the validity of one,
\* and a place among the keys.
LEMMA MergedLines ==
  ASSUME NEW V, NEW lines \in Seq(V), NEW u \in Uids(lines)
  PROVE  /\ ByUid(lines)[u].uid = u
         /\ \E i \in 1..Len(lines) : lines[i].uid = u /\ ByUid(lines)[u].ts = lines[i].ts
         /\ \E i \in 1..Len(lines) : lines[i].uid = u /\ ByUid(lines)[u].ok = lines[i].ok
         /\ Inserted(lines)[u] \in Nat
<1> DEFINE n == Max(Having(lines, u, "name", NoName))
           t == Max(Having(lines, u, "ts", NoTime))
           S == {i \in 1..Len(lines) : lines[i].uid = u}
<1>1. n \in 1..Len(lines) /\ lines[n].uid = u
  BY SomeHave
<1>2. t \in 1..Len(lines) /\ lines[t].uid = u
  BY SomeHave
<1>3. ByUid(lines)[u] = [uid |-> u, ts |-> lines[t].ts, flow |-> lines[t].flow,
                        name |-> lines[n].name, ok |-> lines[n].ok]
  BY DEF ByUid
<1> HIDE DEF n, t
<1>4. Len(lines) \in Nat /\ S \in SUBSET (1..Len(lines)) /\ S \in SUBSET Nat /\ S # {}
  BY DEF Uids
<1>5. \E v \in S : \A w \in S : v <= w
  BY <1>4, LeastNat
<1>6. Min(S) \in S
  BY <1>5 DEF Min
<1>7. Inserted(lines)[u] = Min(S)
  BY DEF Inserted
<1> QED BY <1>1, <1>2, <1>3, <1>4, <1>6, <1>7

\* A log has finitely many uids.
LEMMA FinitelyManyUids ==
  ASSUME NEW V, NEW lines \in Seq(V)
  PROVE  IsFiniteSet(Uids(lines))
<1> DEFINE T == {lines[i].uid : i \in 1..Len(lines)}
           f == [i \in 1..Len(lines) |-> lines[i].uid]
<1>1. f \in Surjection(1..Len(lines), T)
  BY DEF Surjection
<1>2. IsFiniteSet(1..Len(lines))
  BY FS_Interval
<1>3. IsFiniteSet(T)
  BY <1>1, <1>2, FS_Surjection
<1> QED BY <1>3, FS_Subset DEF Uids

\* What correlation makes of a line has its uid and time.
LEMMA CorrelatesLine ==
  ASSUME NEW c \in Captures, NEW line \in Members(c.conn)
  PROVE  /\ Correlate(line, ByUid(c.dns)).ts = line.ts
         /\ line.uid \notin Uids(c.dns) => Correlate(line, ByUid(c.dns)) = line
BY DEF Correlate, ByUid

\* The records of a capture are its lines, correlated: every connection, and every
\* uid that only a protocol log has.
LEMMA RecordsOfLines ==
  ASSUME NEW c \in Captures
  PROVE  /\ Records(c) \in Seq(Members(Records(c)))
         /\ \A r \in Members(Records(c)) : r.ts \in Nat \cup {BadTime}
         /\ \A line \in Members(c.conn) :
              line.uid \notin Uids(c.dns) => line \in Members(Records(c))
         /\ \A u \in Uids(c.dns) \ Uids(c.conn) : ByUid(c.dns)[u] \in Members(Records(c))
<1> DEFINE byUid == ByUid(c.dns)
           U == Uids(c.dns) \ Uids(c.conn)
           orphans == SortedBy(U, Inserted(c.dns))
           p == [i \in 1..Len(c.conn) |-> Correlate(c.conn[i], byUid)]
           q == [i \in 1..Len(orphans) |-> byUid[orphans[i]]]
           R == Members(p) \cup Members(q)
<1>1. /\ Len(c.conn) \in Nat /\ IsFiniteSet(U) /\ \A u \in U : Inserted(c.dns)[u] \in Nat
  <2>1. IsFiniteSet(Uids(c.dns))
    BY LogsOfLines, FinitelyManyUids
  <2>2. IsFiniteSet(U)
    BY <2>1, FS_Subset
  <2> QED BY <2>2, LogsOfLines, MergedLines
<1> HIDE DEF U
<1>2. /\ orphans \in Seq(U) /\ Len(orphans) = Cardinality(U) /\ Cardinality(U) \in Nat
      /\ \A u \in U : \E i \in 1..Cardinality(U) : orphans[i] = u
  BY <1>1, Sorts, SortsAll
<1>3. Records(c) = p \o q
  BY DEF Records, U
<1> HIDE DEF orphans
<1>4. \A u \in U : byUid[u].ts \in Nat \cup {BadTime}
  <2> SUFFICES ASSUME NEW u \in U PROVE byUid[u].ts \in Nat \cup {BadTime}
    OBVIOUS
  <2>1. PICK i \in 1..Len(c.dns) : byUid[u].ts = c.dns[i].ts /\ c.dns[i].uid = u
    BY LogsOfLines, MergedLines DEF U
  <2>2. c.dns[i] \in LinesOf(c)
    BY DEF LinesOf, Members
  <2> QED BY <2>1, <2>2, LogsOfLines
<1>5. Len(p) = Len(c.conn) /\ Len(q) = Len(orphans) /\ p \in Seq(R) /\ q \in Seq(R)
  <2>1. /\ \A i \in 1..Len(c.conn) : p[i] \in Members(p)
        /\ \A i \in 1..Len(orphans) : q[i] \in Members(q)
    <3>1. Len(p) = Len(c.conn) /\ Len(q) = Len(orphans)
      BY <1>1, <1>2
    <3> QED BY <3>1 DEF Members
  <2>2. p \in [1..Len(c.conn) -> R] /\ q \in [1..Len(orphans) -> R]
    BY <2>1
  <2> HIDE DEF R, p, q
  <2>3. p \in Seq(R) /\ Len(p) = Len(c.conn)
    BY <1>1, <2>2, FunctionIsSeq
  <2>4. q \in Seq(R) /\ Len(q) = Len(orphans)
    BY <1>2, <2>2, FunctionIsSeq
  <2> QED BY <2>3, <2>4
<1> HIDE DEF p, q
<1>6. /\ p \o q \in Seq(R) /\ Len(p \o q) = Len(p) + Len(q)
      /\ \A i \in 1..(Len(p) + Len(q)) : (p \o q)[i] = IF i <= Len(p) THEN p[i] ELSE q[i - Len(p)]
  BY <1>5, ConcatProperties
<1>7. Members(Records(c)) = R
  <2> HIDE DEF R
  <2>1. Members(p \o q) \subseteq R
    BY <1>6 DEF Members
  <2>2. ASSUME NEW i \in 1..Len(p) PROVE p[i] \in Members(p \o q)
    <3>1. i \in 1..Len(p \o q) /\ (p \o q)[i] = p[i]
      BY <1>1, <1>2, <1>5, <1>6
    <3> QED BY <3>1 DEF Members
  <2>3. ASSUME NEW i \in 1..Len(q) PROVE q[i] \in Members(p \o q)
    <3>1. Len(p) + i \in 1..Len(p \o q) /\ (p \o q)[Len(p) + i] = q[i]
      <4>1. Len(p) + i \in 1..(Len(p) + Len(q)) /\ ~(Len(p) + i <= Len(p)) /\ (Len(p) + i) - Len(p) = i
        BY <1>1, <1>2, <1>5
      <4> QED BY <1>6, <4>1
    <3> QED BY <3>1 DEF Members
  <2>4. Members(p) \subseteq Members(p \o q)
    BY <2>2 DEF Members
  <2>5. Members(q) \subseteq Members(p \o q)
    BY <2>3 DEF Members
  <2> QED BY <1>3, <2>1, <2>4, <2>5 DEF R
<1>8. \A r \in R : r.ts \in Nat \cup {BadTime}
  <2>1. ASSUME NEW r \in Members(p)
        PROVE  r.ts \in Nat \cup {BadTime}
    <3>1. PICK i \in 1..Len(c.conn) : r = p[i]
      BY <1>5 DEF Members
    <3>2. r = Correlate(c.conn[i], byUid)
      BY <3>1 DEF p
    <3>3. c.conn[i] \in Members(c.conn)
      BY DEF Members
    <3> QED BY <3>2, <3>3, CorrelatesLine, LogsOfLines DEF LinesOf
  <2>2. ASSUME NEW r \in Members(q)
        PROVE  r.ts \in Nat \cup {BadTime}
    <3>1. PICK i \in 1..Len(orphans) : r = byUid[orphans[i]]
      BY <1>5 DEF Members, q
    <3> QED BY <1>2, <1>4, <3>1
  <2> QED BY <2>1, <2>2
<1>9. ASSUME NEW line \in Members(c.conn), line.uid \notin Uids(c.dns)
      PROVE  line \in R
  <2>1. PICK i \in 1..Len(c.conn) : line = c.conn[i]
    BY DEF Members
  <2>2. p[i] = line
    BY <1>9, <2>1, CorrelatesLine DEF p
  <2> QED BY <1>5, <2>1, <2>2 DEF Members
<1>10. ASSUME NEW u \in U PROVE byUid[u] \in R
  <2>1. PICK i \in 1..Cardinality(U) : orphans[i] = u
    BY <1>2
  <2>2. i \in 1..Len(q) /\ q[i] = byUid[u]
    BY <1>2, <1>5, <2>1 DEF q
  <2> QED BY <2>2 DEF Members
<1> QED BY <1>3, <1>6, <1>7, <1>8, <1>9, <1>10 DEF U
\* Sorting neither loses nor invents a record, and puts them in the order of time.
LEMMA SortedByTime ==
  ASSUME NEW V, NEW records \in Seq(V), \A i \in 1..Len(records) : records[i].ts \in Int
  PROVE  /\ Sorted(records) \in Seq(V) /\ Len(Sorted(records)) = Len(records)
         /\ Members(Sorted(records)) = Members(records)
         /\ \A i, j \in 1..Len(records) : i < j => Sorted(records)[i].ts <= Sorted(records)[j].ts
<1> DEFINE n == Len(records)
           All == 1..n
           place == [i \in All |-> Cardinality(Before(records, i))]
           order == SortedBy(All, place)
           s == [i \in All |-> records[order[i]]]
<1>1. n \in Nat /\ IsFiniteSet(All) /\ Cardinality(All) = n
  <2>1. n \in Nat
    OBVIOUS
  <2> HIDE DEF n
  <2>2. IsFiniteSet(1..n) /\ Cardinality(1..n) = n
    BY <2>1, FS_Interval
  <2> QED BY <2>1, <2>2
<1>2. \A i \in All : IsFiniteSet(Before(records, i)) /\ Cardinality(Before(records, i)) \in Nat
  <2> SUFFICES ASSUME NEW i \in All
               PROVE  IsFiniteSet(Before(records, i)) /\ Cardinality(Before(records, i)) \in Nat
    OBVIOUS
  <2>1. Before(records, i) \in SUBSET All
    BY DEF Before
  <2> QED BY <1>1, <2>1, FS_Subset, FS_CardinalityType
<1>3. \A i \in All : place[i] = Cardinality(Before(records, i)) /\ place[i] \in Nat
  BY <1>2
<1>4. ASSUME NEW a \in All, NEW b \in All, records[b].ts < records[a].ts
      PROVE  place[b] < place[a]
  <2> DEFINE A == Before(records, a)
             B == Before(records, b)
  <2>1. b \in A /\ b \notin B /\ B \subseteq A
    BY <1>1, <1>4 DEF Before
  <2> HIDE DEF A, B
  <2>2. IsFiniteSet(A) /\ Cardinality(A) \in Nat
    BY <1>2 DEF A
  <2>3. IsFiniteSet(A \ {b}) /\ Cardinality(A \ {b}) = Cardinality(A) - 1
    BY <2>1, <2>2, FS_RemoveElement
  <2>4. Cardinality(B) <= Cardinality(A \ {b})
    BY <2>1, <2>3, FS_Subset
  <2>5. Cardinality(B) \in Nat
    BY <1>2 DEF B
  <2>6. Cardinality(B) < Cardinality(A)
    BY <2>2, <2>3, <2>4, <2>5
  <2> QED BY <1>3, <2>6 DEF A, B
<1> HIDE DEF place
<1>5. /\ order \in Seq(All) /\ Len(order) = n
      /\ \A i, j \in 1..n : i < j => place[order[i]] <= place[order[j]]
      /\ \A x \in All : \E i \in 1..n : order[i] = x
  <2> HIDE DEF All
  <2> QED BY <1>1, <1>3, Sorts, SortsAll
<1> HIDE DEF order
<1>6. \A i \in All : order[i] \in All /\ records[order[i]] \in V
  BY <1>5
<1>7. s \in [1..n -> V] /\ \A i \in All : s[i] = records[order[i]]
  BY <1>6
<1>8. Sorted(records) = s
  BY DEF Sorted, place, order
<1> HIDE DEF s
<1>9. s \in Seq(V) /\ Len(s) = n
  BY <1>1, <1>7, FunctionIsSeq
<1>10. Members(s) = Members(records)
  <2>1. ASSUME NEW i \in 1..Len(s) PROVE s[i] \in Members(records)
    BY <1>6, <1>7, <1>9 DEF Members
  <2>2. ASSUME NEW i \in 1..Len(records) PROVE records[i] \in Members(s)
    <3>1. PICK k \in 1..n : order[k] = i
      BY <1>5
    <3>2. s[k] = records[i]
      BY <1>7, <3>1
    <3> QED BY <1>9, <3>2 DEF Members
  <2> QED BY <2>1, <2>2 DEF Members
<1>11. ASSUME NEW i \in 1..n, NEW j \in 1..n, i < j PROVE s[i].ts <= s[j].ts
  <2>1. order[i] \in All /\ order[j] \in All /\ place[order[i]] <= place[order[j]]
    BY <1>5, <1>6, <1>11
  <2>2. ~(place[order[j]] < place[order[i]])
    BY <1>3, <2>1
  <2>3. ~(records[order[j]].ts < records[order[i]].ts)
    BY <1>4, <2>1, <2>2
  <2> QED BY <1>7, <2>1, <2>3
<1> QED BY <1>8, <1>9, <1>10, <1>11
-----------------------------------------------------------------------------
(* Normalization: the events of the records read so far.                    *)

Quarter == DedupCapacity \div 4
Ids(records) == {EventId(records[i]) : i \in 1..Len(records)}

\* The ids remembered are the last ones, and at least three quarters of the memory's
\* size once any was forgotten.
Remembers(seen, events) ==
  /\ Len(seen) <= DedupCapacity
  /\ \E k \in Nat :
       /\ Len(events) = k + Len(seen)
       /\ \A i \in 1..Len(seen) : seen[i] = events[k + i]
       /\ k = 0 \/ Len(seen) > DedupCapacity - Quarter

InTime(events) ==
  \A i, j \in 1..Len(events) : i < j => events[i].ts <= events[j].ts

\* No event again among the latest.
Apart(events) ==
  \A i, j \in 1..Len(events) :
    i < j /\ events[i] = events[j] => j - i > DedupCapacity - Quarter

\* What the first n records leave.
Normal(state, records, n) ==
  /\ state \in [seen : Seq(Ids(records)), events : Seq(Ids(records))]
  /\ \A e \in Members(state.events) : \E i \in 1..n : Valid(records[i]) /\ e = EventId(records[i])
  /\ \A i \in 1..n : Valid(records[i]) => EventId(records[i]) \in Members(state.events)
  /\ Remembers(state.seen, state.events)
  /\ InTime(state.events)
  /\ Apart(state.events)

\* Three quarters of the dedup memory are left when it overflows.
LEMMA QuarterIsPart == Quarter \in Nat /\ 1 <= Quarter /\ Quarter <= DedupCapacity
BY ReplayAssumption DEF Quarter
\* A new id among the remembered ones: the oldest quarter may have to go.
LEMMA RemembersOneMore ==
  ASSUME NEW V, NEW seen \in Seq(V), NEW events \in Seq(V), Remembers(seen, events), NEW e \in V
  PROVE  /\ Remembered(seen, e) \in Seq(V)
         /\ Remembers(Remembered(seen, e), Append(events, e))
<1> DEFINE all == Append(seen, e)
           more == Append(events, e)
<1>1. /\ DedupCapacity \in Nat /\ Quarter \in Nat /\ 1 <= Quarter /\ Quarter <= DedupCapacity
  BY ReplayAssumption, QuarterIsPart
<1>2. PICK k \in Nat :
           /\ Len(events) = k + Len(seen)
           /\ \A i \in 1..Len(seen) : seen[i] = events[k + i]
           /\ k = 0 \/ Len(seen) > DedupCapacity - Quarter
  BY DEF Remembers
<1>3. /\ Len(seen) \in Nat /\ Len(events) \in Nat /\ Len(seen) <= DedupCapacity
      /\ all \in Seq(V) /\ Len(all) = Len(seen) + 1
      /\ more \in Seq(V) /\ Len(more) = Len(events) + 1
  BY DEF Remembers
<1>4. \A i \in 1..Len(all) : all[i] = more[k + i]
  <2> SUFFICES ASSUME NEW i \in 1..Len(all) PROVE all[i] = more[k + i]
    OBVIOUS
  <2>1. CASE i = Len(seen) + 1
    <3>1. all[i] = e /\ k + i = Len(events) + 1 /\ more[Len(events) + 1] = e
      BY <1>2, <1>3, <2>1
    <3> QED BY <3>1
  <2>2. CASE i # Len(seen) + 1
    <3>1. i \in 1..Len(seen) /\ k + i \in 1..Len(events)
      BY <1>2, <1>3, <2>2
    <3>2. all[i] = seen[i] /\ more[k + i] = events[k + i]
      BY <3>1
    <3> QED BY <1>2, <3>1, <3>2
  <2> QED BY <2>1, <2>2
<1> HIDE DEF all, more
<1>5. CASE Len(all) > DedupCapacity
  <2> DEFINE rest == SubSeq(all, Quarter + 1, Len(all))
  <2>1. Remembered(seen, e) = rest
    BY <1>5 DEF Remembered, Quarter, all
  <2>2. Quarter + 1 \in 1..Len(all) /\ Len(all) \in Int /\ Quarter + 1 \in Int
    BY <1>1, <1>3, <1>5
  <2>3. \A i \in (Quarter + 1)..Len(all) : all[i] \in V
    BY <1>1, <1>3
  <2>4. /\ rest \in Seq(V) /\ Len(rest) = Len(all) - Quarter
        /\ \A i \in 1..(Len(all) - Quarter) : rest[i] = all[Quarter + i]
    <3>1. /\ rest \in Seq(V)
          /\ Len(rest) = IF Quarter + 1 <= Len(all) THEN Len(all) - (Quarter + 1) + 1 ELSE 0
          /\ \A i \in 1..(Len(all) - (Quarter + 1) + 1) : rest[i] = all[(Quarter + 1) + i - 1]
      BY <2>2, <2>3, SubSeqProperties
    <3> HIDE DEF rest
    <3> QED BY <1>1, <1>3, <2>2, <3>1
  <2> HIDE DEF rest
  <2>5. \A i \in 1..Len(rest) : rest[i] = more[(k + Quarter) + i]
    <3> SUFFICES ASSUME NEW i \in 1..Len(rest) PROVE rest[i] = more[(k + Quarter) + i]
      OBVIOUS
    <3>1. Quarter + i \in 1..Len(all) /\ k + (Quarter + i) = (k + Quarter) + i
      BY <1>1, <1>3, <2>4
    <3> QED BY <1>4, <2>4, <3>1
  <2>6. /\ k + Quarter \in Nat /\ Len(more) = (k + Quarter) + Len(rest)
        /\ Len(rest) <= DedupCapacity /\ Len(rest) > DedupCapacity - Quarter
    BY <1>1, <1>2, <1>3, <1>5, <2>4
  <2>7. Remembers(rest, more)
    BY <2>5, <2>6 DEF Remembers
  <2> QED BY <2>1, <2>4, <2>7 DEF more
<1>6. CASE ~(Len(all) > DedupCapacity)
  <2>1. Remembered(seen, e) = all
    BY <1>6 DEF Remembered, all
  <2>2. /\ Len(more) = k + Len(all) /\ Len(all) <= DedupCapacity
        /\ k = 0 \/ Len(all) > DedupCapacity - Quarter
    BY <1>1, <1>2, <1>3, <1>6
  <2>3. Remembers(all, more)
    BY <1>4, <2>2 DEF Remembers
  <2> QED BY <1>3, <2>1, <2>3 DEF more
<1> QED BY <1>5, <1>6

\* Normalizing one more record keeps all of it.
LEMMA NormalStep ==
  ASSUME NEW V, NEW records \in Seq(V), \A i \in 1..Len(records) : records[i].ts \in Int,
         \A i, j \in 1..Len(records) : i < j => records[i].ts <= records[j].ts,
         NEW n \in 1..Len(records), NEW state, Normal(state, records, n - 1)
  PROVE  Normal(Normalize(state, records[n]), records, n)
<1> DEFINE r == records[n]
           e == EventId(r)
           seen == state.seen
           events == state.events
           more == Append(events, e)
           W == Ids(records)
<1>1. /\ seen \in Seq(W) /\ events \in Seq(W) /\ e \in W
      /\ state \in [seen : Seq(W), events : Seq(W)]
      /\ Len(records) \in Nat /\ Len(seen) \in Nat /\ Len(events) \in Nat
      /\ e.ts = r.ts
  BY DEF Normal, Ids, EventId
<1>2. /\ \A x \in Members(events) : \E i \in 1..(n-1) : Valid(records[i]) /\ x = EventId(records[i])
      /\ \A i \in 1..(n-1) : Valid(records[i]) => EventId(records[i]) \in Members(events)
      /\ Remembers(seen, events) /\ InTime(events) /\ Apart(events)
  BY DEF Normal
<1>3. PICK k \in Nat :
           /\ Len(events) = k + Len(seen)
           /\ \A i \in 1..Len(seen) : seen[i] = events[k + i]
           /\ k = 0 \/ Len(seen) > DedupCapacity - Quarter
  BY <1>2 DEF Remembers
<1> HIDE DEF W
<1>4. CASE ~Valid(r)
  <2>1. Normalize(state, r) = state
    BY <1>4 DEF Normalize
  <2>2. \A x \in Members(events) : \E i \in 1..n : Valid(records[i]) /\ x = EventId(records[i])
    BY <1>2
  <2>3. \A i \in 1..n : Valid(records[i]) => EventId(records[i]) \in Members(events)
    BY <1>2, <1>4
  <2> QED BY <1>1, <1>2, <2>1, <2>2, <2>3 DEF Normal, W
<1>5. CASE Valid(r) /\ e \in Members(seen)
  <2>1. Normalize(state, r) = state
    BY <1>5 DEF Normalize
  <2>2. \A x \in Members(events) : \E i \in 1..n : Valid(records[i]) /\ x = EventId(records[i])
    BY <1>2
  <2>3. e \in Members(events)
    <3>1. PICK i \in 1..Len(seen) : e = seen[i]
      BY <1>5 DEF Members
    <3>2. k + i \in 1..Len(events) /\ e = events[k + i]
      BY <1>1, <1>3, <3>1
    <3> QED BY <3>2 DEF Members
  <2>4. \A i \in 1..n : Valid(records[i]) => EventId(records[i]) \in Members(events)
    BY <1>2, <2>3
  <2> QED BY <1>1, <1>2, <2>1, <2>2, <2>4 DEF Normal, W
<1>6. CASE Valid(r) /\ e \notin Members(seen)
  <2> DEFINE kept == Remembered(seen, e)
             next == [seen |-> kept, events |-> more]
  <2>1. Normalize(state, r) = next
    BY <1>6 DEF Normalize
  <2>2. kept \in Seq(W) /\ Remembers(kept, more)
    BY <1>1, <1>2, RemembersOneMore
  <2> HIDE DEF kept, e
  <2>3. /\ more \in Seq(W) /\ Len(more) = Len(events) + 1 /\ more[Len(events) + 1] = e
        /\ \A i \in 1..Len(events) : more[i] = events[i]
    BY <1>1
  <2> HIDE DEF more, events
  <2>0. Len(events) \in Nat
    BY <1>1 DEF events
  <2>4. Members(more) = Members(events) \cup {e}
    <3>1. 1..Len(more) = 1..Len(events) \cup {Len(events) + 1}
      BY <2>0, <2>3
    <3> QED BY <2>3, <3>1 DEF Members
  <2>5. \A x \in Members(more) : \E i \in 1..n : Valid(records[i]) /\ x = EventId(records[i])
    <3> SUFFICES ASSUME NEW x \in Members(more)
                 PROVE  \E i \in 1..n : Valid(records[i]) /\ x = EventId(records[i])
      OBVIOUS
    <3>1. CASE x = e
      BY <1>6, <3>1 DEF e
    <3>2. CASE x \in Members(events)
      BY <1>2, <3>2
    <3> QED BY <2>4, <3>1, <3>2
  <2>6. \A i \in 1..n : Valid(records[i]) => EventId(records[i]) \in Members(more)
    <3> SUFFICES ASSUME NEW i \in 1..n, Valid(records[i])
                 PROVE  EventId(records[i]) \in Members(more)
      OBVIOUS
    <3>1. CASE i = n
      BY <2>4, <3>1 DEF e
    <3>2. CASE i # n
      <4>1. i \in 1..(n-1)
        BY <1>1, <3>2
      <4> QED BY <1>2, <2>4, <4>1
    <3> QED BY <3>1, <3>2
  <2>7. InTime(more)
    <3> SUFFICES ASSUME NEW i \in 1..Len(more), NEW j \in 1..Len(more), i < j
                 PROVE  more[i].ts <= more[j].ts
      BY DEF InTime
    <3>1. i \in 1..Len(events) /\ more[i] = events[i]
      BY <1>1, <2>3
    <3>2. CASE j = Len(events) + 1
      <4>1. events[i] \in Members(events)
        BY <3>1 DEF Members
      <4>2. PICK m \in 1..(n-1) : events[i] = EventId(records[m])
        BY <1>2, <4>1
      <4>3. m \in 1..Len(records) /\ m < n
        BY <1>1
      <4>4. records[m].ts <= r.ts
        BY <4>3
      <4>5. events[i].ts = records[m].ts
        BY <4>2 DEF EventId
      <4> QED BY <1>1, <2>3, <3>1, <3>2, <4>4, <4>5
    <3>3. CASE j # Len(events) + 1
      <4>1. j \in 1..Len(events)
        BY <2>0, <2>3, <3>3
      <4>2. more[j] = events[j]
        BY <2>3, <4>1
      <4> QED BY <1>2, <3>1, <4>1, <4>2 DEF InTime
    <3> QED BY <3>2, <3>3
  <2>8. Apart(more)
    <3> SUFFICES ASSUME NEW i \in 1..Len(more), NEW j \in 1..Len(more), i < j, more[i] = more[j]
                 PROVE  j - i > DedupCapacity - Quarter
      BY DEF Apart
    <3>1. i \in 1..Len(events) /\ more[i] = events[i]
      BY <1>1, <2>3
    <3>2. CASE j = Len(events) + 1
      <4>1. events[i] = e
        BY <2>3, <3>1, <3>2
      <4>2. ~(i > k)
        <5> SUFFICES ASSUME i > k PROVE FALSE
          OBVIOUS
        <5>1. i - k \in 1..Len(seen) /\ k + (i - k) = i
          BY <1>1, <1>3, <3>1 DEF events
        <5>2. seen[i - k] = e
          BY <1>3, <4>1, <5>1 DEF events
        <5> QED BY <1>6, <5>1, <5>2 DEF Members
      <4>3. k # 0 /\ Len(seen) > DedupCapacity - Quarter
        BY <1>3, <3>1, <4>2
      <4>4. j - i >= Len(seen) + 1
        BY <1>1, <1>3, <3>2, <4>2 DEF events
      <4>5. Quarter \in Nat /\ DedupCapacity \in Nat
        BY QuarterIsPart, ReplayAssumption
      <4> QED BY <1>1, <4>3, <4>4, <4>5
    <3>3. CASE j # Len(events) + 1
      <4>1. j \in 1..Len(events) /\ more[j] = events[j]
        BY <2>0, <2>3, <3>3
      <4> QED BY <1>2, <3>1, <4>1 DEF Apart
    <3> QED BY <3>2, <3>3
  <2>9. next \in [seen : Seq(W), events : Seq(W)] /\ next.seen = kept /\ next.events = more
    BY <2>2, <2>3
  <2> HIDE DEF next
  <2> QED BY <2>1, <2>2, <2>5, <2>6, <2>7, <2>8, <2>9 DEF Normal, W
<1> QED BY <1>4, <1>5, <1>6
\* Before the first record nothing is seen.
LEMMA NormalStart ==
  ASSUME NEW V, NEW records \in Seq(V)
  PROVE  Normal([seen |-> <<>>, events |-> <<>>], records, 0)
<1> DEFINE start == [seen |-> <<>>, events |-> <<>>]
           W == Ids(records)
<1>1. <<>> \in Seq(W) /\ Len(<<>>) = 0 /\ 1..0 = {}
  OBVIOUS
<1>2. start \in [seen : Seq(W), events : Seq(W)] /\ start.seen = <<>> /\ start.events = <<>>
  BY <1>1
<1>3. Members(<<>>) = {}
  BY <1>1 DEF Members
<1>4. Remembers(<<>>, <<>>)
  <2>1. 0 \in Nat /\ Len(<<>>) = 0 + Len(<<>>) /\ Len(<<>>) <= DedupCapacity
    BY <1>1, ReplayAssumption
  <2> QED BY <1>1, <2>1 DEF Remembers
<1>5. InTime(<<>>) /\ Apart(<<>>)
  BY <1>1 DEF InTime, Apart
<1> HIDE DEF start
<1>6. Normal(start, records, 0)
  BY <1>1, <1>2, <1>3, <1>4, <1>5 DEF Normal
<1> QED BY <1>6 DEF start

\* All of it holds of the events that sorted records are normalized to.
LEMMA NormalizedAll ==
  ASSUME NEW V, NEW records \in Seq(V), \A i \in 1..Len(records) : records[i].ts \in Int,
         \A i, j \in 1..Len(records) : i < j => records[i].ts <= records[j].ts
  PROVE  \E state : state.events = Normalized(records) /\ Normal(state, records, Len(records))
<1> DEFINE start == [seen |-> <<>>, events |-> <<>>]
           Entry(g, n) == IF n = 0 THEN start ELSE Normalize(g[n-1], records[n])
           Fits(g, k) == g = [n \in 0..k |-> Entry(g, n)]
           f == CHOOSE g : Fits(g, Len(records))
<1>1. Len(records) \in Nat
  OBVIOUS
<1>2. ASSUME NEW h, NEW k \in Nat \ {0}, Fits(h, k - 1)
      PROVE  \E g : Fits(g, k)
  <2> DEFINE g == [n \in 0..k |-> IF n = k THEN Entry(h, k) ELSE h[n]]
  <2>1. ASSUME NEW n \in 0..k PROVE g[n] = Entry(g, n)
    <3> HIDE DEF start
    <3>1. CASE n = k
      <4>1. k \in 0..k /\ k - 1 \in 0..k /\ k - 1 # k /\ k # 0
        OBVIOUS
      <4>2. g[k] = Normalize(h[k-1], records[k]) /\ g[k-1] = h[k-1]
        BY <4>1
      <4> QED BY <3>1, <4>1, <4>2
    <3>2. CASE n # k
      <4>1. n \in 0..(k-1) /\ (n # 0 => n - 1 \in 0..(k-1))
        BY <3>2
      <4>2. h[n] = Entry(h, n)
        BY <1>2, <4>1
      <4>3. g[n] = h[n] /\ (n # 0 => g[n-1] = h[n-1])
        BY <3>2, <4>1
      <4> QED BY <4>2, <4>3
    <3> QED BY <3>1, <3>2
  <2>2. Fits(g, k)
    BY <2>1
  <2> HIDE DEF g, Fits
  <2> QED BY <2>2
<1>3. \E g : Fits(g, 0)
  <2> HIDE DEF start
  <2> DEFINE g == [n \in 0..0 |-> start]
  <2>1. Fits(g, 0)
    OBVIOUS
  <2> HIDE DEF g, Fits
  <2> QED BY <2>1
<1>4. \E g : Fits(g, Len(records))
  <2> HIDE DEF Fits
  <2> DEFINE Bad == {k \in Nat : ~\E g : Fits(g, k)}
  <2>1. ASSUME Bad # {} PROVE FALSE
    <3>1. PICK k \in Bad : \A j \in Bad : k <= j
      BY <2>1, LeastNat
    <3>2. k \in Nat \ {0}
      BY <1>3
    <3>3. k - 1 \in Nat /\ k - 1 \notin Bad
      BY <3>1, <3>2
    <3> QED BY <1>2, <3>2, <3>3
  <2> QED BY <1>1, <2>1
<1>5. Fits(f, Len(records))
  <2> HIDE DEF Fits
  <2> QED BY <1>4
<1>6. \A k \in 0..Len(records) : f[k] = Entry(f, k)
  <2> HIDE DEF f, Entry
  <2> QED BY <1>5
<1>7. Normalized(records) = f[Len(records)].events
  BY DEF Normalized
<1> HIDE DEF f, Fits
<1> DEFINE Wrong == {k \in 0..Len(records) : ~Normal(f[k], records, k)}
<1>8. ASSUME Wrong # {} PROVE FALSE
  <2>1. PICK k \in Wrong : \A j \in Wrong : k <= j
    <3>1. Wrong \in SUBSET Nat
      OBVIOUS
    <3> HIDE DEF Wrong
    <3> QED BY <1>8, <3>1, LeastNat
  <2>2. k # 0
    <3>1. 0 \in 0..Len(records) /\ f[0] = start
      BY <1>1, <1>6
    <3> QED BY <3>1, NormalStart
  <2>3. k \in 1..Len(records) /\ k - 1 \in 0..Len(records) /\ k - 1 \notin Wrong
    BY <1>1, <2>1, <2>2
  <2>4. Normal(f[k-1], records, k - 1)
    BY <2>3
  <2>5. f[k] = Normalize(f[k-1], records[k])
    BY <1>6, <2>2
  <2>6. Normal(Normalize(f[k-1], records[k]), records, k)
    BY <2>3, <2>4, NormalStep
  <2> QED BY <2>5, <2>6
<1>9. Normal(f[Len(records)], records, Len(records))
  BY <1>1, <1>8
<1> QED BY <1>7, <1>9
-----------------------------------------------------------------------------
(* What the events of a capture are.                                        *)

\* The events of a capture come in the order of time, none of them again among the
\* latest, and every valid record is one.
LEMMA EventsOfCapture ==
  ASSUME NEW c \in Captures
  PROVE  /\ Events(c) \in Seq(Members(Events(c)))
         /\ InTime(Events(c)) /\ Apart(Events(c))
         /\ \A id \in Members(Events(c)) : \E x : id = EventId(x)
         /\ \A r \in Members(Records(c)) : Valid(r) => EventId(r) \in Members(Events(c))
<1> DEFINE R == Records(c)
           s == Sorted(R)
<1>1. /\ R \in Seq(Members(R))
      /\ \A r \in Members(R) : r.ts \in Nat \cup {BadTime}
  BY RecordsOfLines
<1> HIDE DEF R
<1>2. \A r \in Members(R) : r.ts \in Int
  BY <1>1 DEF BadTime
<1>3. \A i \in 1..Len(R) : R[i].ts \in Int
  BY <1>2 DEF Members
<1>4. /\ s \in Seq(Members(R)) /\ Len(s) = Len(R) /\ Members(s) = Members(R)
      /\ \A i, j \in 1..Len(R) : i < j => s[i].ts <= s[j].ts
  BY <1>1, <1>3, SortedByTime
<1> HIDE DEF s
<1>5. \A i \in 1..Len(s) : s[i] \in Members(R)
  BY <1>4
<1>6. PICK state : state.events = Normalized(s) /\ Normal(state, s, Len(s))
  BY <1>2, <1>4, <1>5, NormalizedAll
<1>7. Events(c) = state.events
  BY <1>6, ScenariosAssumption DEF Events, s, R
<1>8. Events(c) \in Seq(Members(Events(c)))
  <2> DEFINE e == state.events
  <2>1. e \in Seq(Ids(s))
    BY <1>6 DEF Normal
  <2> HIDE DEF e
  <2>2. e \in [1..Len(e) -> Members(e)] /\ Len(e) \in Nat
    BY <2>1 DEF Members
  <2>3. e \in Seq(Members(e))
    BY <2>2, FunctionIsSeq
  <2> QED BY <1>7, <2>3 DEF e
<1>9. ASSUME NEW r \in Members(R), Valid(r) PROVE EventId(r) \in Members(Events(c))
  <2>1. PICK i \in 1..Len(s) : r = s[i]
    BY <1>4 DEF Members
  <2> QED BY <1>6, <1>7, <1>9, <2>1 DEF Normal
<1>10. ASSUME NEW id \in Members(Events(c)) PROVE \E x : id = EventId(x)
  BY <1>6, <1>7 DEF Normal
<1> QED BY <1>6, <1>7, <1>8, <1>9, <1>10 DEF Normal, R
\* So do the events of a scenario, and every line of it is one.
LEMMA EventsOfScenario ==
  ASSUME NEW c \in Scenarios
  PROVE  /\ Events(c) \in Seq(Members(Events(c))) /\ InTime(Events(c))
         /\ \A id \in Members(Events(c)) : \E x : id = EventId(x)
         /\ \A line \in Members(c.generated) : EventId(line) \in Members(Events(c))
<1> DEFINE g == c.generated
           s == Sorted(g)
           e == [i \in 1..Len(s) |-> EventId(s[i])]
<1>1. g \in Seq(Members(g)) /\ \A line \in Members(g) : line.ts \in Nat
  BY ScenariosAssumption
<1> HIDE DEF g
<1>2. \A i \in 1..Len(g) : g[i].ts \in Int
  BY <1>1 DEF Members
<1>3. /\ s \in Seq(Members(g)) /\ Len(s) = Len(g) /\ Members(s) = Members(g)
      /\ \A i, j \in 1..Len(g) : i < j => s[i].ts <= s[j].ts
  BY <1>1, <1>2, SortedByTime
<1>4. Events(c) = e
  BY DEF Events, Generated, s, g
<1> HIDE DEF s
<1>5. Len(s) \in Nat /\ Len(e) = Len(s) /\ \A i \in 1..Len(s) : e[i] = EventId(s[i])
  BY <1>3
<1>6. e \in Seq(Members(e))
  <2>1. \A i \in 1..Len(s) : e[i] \in Members(e)
    BY <1>5 DEF Members
  <2>2. e \in [1..Len(s) -> Members(e)]
    BY <2>1
  <2> HIDE DEF e
  <2> QED BY <1>5, <2>2, FunctionIsSeq
<1> HIDE DEF e
<1>7. InTime(e)
  <2> SUFFICES ASSUME NEW i \in 1..Len(e), NEW j \in 1..Len(e), i < j
               PROVE  e[i].ts <= e[j].ts
    BY DEF InTime
  <2>1. e[i].ts = s[i].ts /\ e[j].ts = s[j].ts
    <3>1. e[i] = EventId(s[i]) /\ e[j] = EventId(s[j])
      BY <1>5
    <3> QED BY <3>1 DEF EventId
  <2>2. i \in 1..Len(g) /\ j \in 1..Len(g)
    BY <1>3, <1>5
  <2> QED BY <1>3, <2>1, <2>2
<1>8. ASSUME NEW id \in Members(e) PROVE \E x : id = EventId(x)
  BY <1>5 DEF Members
<1>9. ASSUME NEW line \in Members(g) PROVE EventId(line) \in Members(e)
  <2>1. PICK i \in 1..Len(s) : line = s[i]
    BY <1>3 DEF Members
  <2> QED BY <1>5, <2>1 DEF Members
<1> QED BY <1>4, <1>6, <1>7, <1>8, <1>9 DEF g
-----------------------------------------------------------------------------
(* The replays.                                                             *)

\* Sequence q is what is left of the script after its first k events.
Remaining(q, script, k) ==
  /\ q \in Seq(Members(script))
  /\ Len(q) = Len(script) - k
  /\ \A i \in 1..Len(q) : q[i] = script[k + i]

\* How far a replay has come: what a request no longer has to handle is in the store.
Progress(r) ==
  /\ phase[r] # "handling" => todo[r] = <<>>
  /\ phase[r] = "handling" =>
       \E k \in 0..Len(Script(r)) :
         /\ Remaining(todo[r], Script(r), k)
         /\ r \in Requests => \A i \in 1..k : Script(r)[i] \in DOMAIN rows
  /\ phase[r] = "completed" /\ r \in Requests => Members(Script(r)) \subseteq DOMAIN rows

Scalars ==
  /\ source \in Captures \cup Scenarios
  /\ phase \in [Runs -> {"new", "created", "reading", "handling", "completed", "failed", "dead"}]
  /\ DOMAIN todo = Runs
  /\ status \in {"idle", "running", "completed", "failed"}
  /\ crashes \in 0..MaxCrashes /\ failures \in 0..MaxFailures

\* The events of all replays.
Known == UNION {Members(Script(r)) : r \in Runs}

\* Every row is of a replay's script, once; what is on the stream is too.
Rows ==
  /\ stream \subseteq Known
  /\ \A id \in DOMAIN rows : rows[id] = 1 /\ id \in Known

ReplayInv == Scalars /\ Rows /\ \A r \in Runs : Progress(r)

\* A run draws other uids for other events, and leaves the rest of an id alone.
LEMMA DrawnApart ==
  ASSUME NEW r, NEW x, NEW y
  PROVE  /\ Drawn(r, EventId(x)).ts = EventId(x).ts
         /\ Drawn(r, EventId(x)).uid = EventId(x).uid
         /\ Drawn(r, EventId(x)).flow = EventId(x).flow
         /\ Drawn(r, EventId(x)).run = IF EventId(x).uid = NoUid THEN NoRun ELSE r
         /\ Drawn(r, EventId(x)) = Drawn(r, EventId(y)) => EventId(x) = EventId(y)
BY DEF Drawn, EventId

\* The script of a replay is a sequence, of the events of the source as this run draws
\* them, in the order of time and none of them again among the latest.
LEMMA ScriptOf ==
  ASSUME Scalars, NEW r \in Runs
  PROVE  /\ Script(r) \in Seq(Members(Script(r))) /\ Len(Script(r)) \in Nat
         /\ \A id \in Members(Script(r)) : \E e \in Members(Events(source)) : id = Drawn(r, e)
         /\ \A e \in Members(Events(source)) : Drawn(r, e) \in Members(Script(r))
         /\ InTime(Script(r))
         /\ source \in Captures => Apart(Script(r))
<1> DEFINE e == Events(source)
           s == Script(r)
<1>1. /\ e \in Seq(Members(e)) /\ InTime(e)
      /\ source \in Captures => Apart(e)
      /\ \A id \in Members(e) : \E x : id = EventId(x)
  BY EventsOfCapture, EventsOfScenario DEF Scalars
<1>2. Reading[source].events = e
  BY DEF Reading, Scalars
<1>3. s = [i \in 1..Len(e) |-> Drawn(r, e[i])]
  BY <1>2 DEF Script
<1> HIDE DEF e, s
<1>4. Len(e) \in Nat /\ Len(s) = Len(e) /\ \A i \in 1..Len(e) : s[i] = Drawn(r, e[i])
  BY <1>1, <1>3
<1>5. s \in Seq(Members(s))
  <2>1. \A i \in 1..Len(e) : s[i] \in Members(s)
    BY <1>4 DEF Members
  <2>2. s \in [1..Len(e) -> Members(s)]
    BY <1>3, <2>1
  <2> QED BY <1>4, <2>2, FunctionIsSeq
<1>6. \A i \in 1..Len(e) : \E x : e[i] = EventId(x)
  BY <1>1 DEF Members
<1>7. InTime(s)
  <2> SUFFICES ASSUME NEW i \in 1..Len(s), NEW j \in 1..Len(s), i < j
               PROVE  s[i].ts <= s[j].ts
    BY DEF InTime
  <2>1. s[i].ts = e[i].ts /\ s[j].ts = e[j].ts
    BY <1>4, <1>6, DrawnApart
  <2>2. i \in 1..Len(e) /\ j \in 1..Len(e)
    BY <1>4
  <2>3. e[i].ts <= e[j].ts
    BY <1>1, <2>2 DEF InTime
  <2> QED BY <2>1, <2>3
<1>8. ASSUME source \in Captures PROVE Apart(s)
  <2> SUFFICES ASSUME NEW i \in 1..Len(s), NEW j \in 1..Len(s), i < j, s[i] = s[j]
               PROVE  j - i > DedupCapacity - Quarter
    BY DEF Apart
  <2>1. e[i] = e[j]
    BY <1>4, <1>6, DrawnApart
  <2>2. i \in 1..Len(e) /\ j \in 1..Len(e)
    BY <1>4
  <2> QED BY <1>1, <1>8, <2>1, <2>2 DEF Apart
<1>9. /\ \A id \in Members(s) : \E f \in Members(e) : id = Drawn(r, f)
      /\ \A f \in Members(e) : Drawn(r, f) \in Members(s)
  BY <1>4 DEF Members
<1> QED BY <1>4, <1>5, <1>7, <1>8, <1>9 DEF e, s

\* An event without a uid is in the script of every replay if it is in one.
LEMMA SameWithoutUid ==
  ASSUME Scalars, NEW id \in Known, id.uid = NoUid, NEW r \in Runs
  PROVE  id \in Members(Script(r))
<1>1. PICK q \in Runs : id \in Members(Script(q))
  BY DEF Known
<1>2. PICK e \in Members(Events(source)) : id = Drawn(q, e)
  BY <1>1, ScriptOf
<1>3. \E x : e = EventId(x)
  BY EventsOfCapture, EventsOfScenario DEF Scalars
<1>4. e.uid = NoUid
  BY <1>2, <1>3, DrawnApart
<1>5. id = e /\ Drawn(r, e) = e
  BY <1>2, <1>4 DEF Drawn
<1> QED BY <1>5, ScriptOf

\* One part of what is left is handled, and the rest is left.
LEMMA OnePartLess ==
  ASSUME NEW script, script \in Seq(Members(script)), NEW k \in 0..Len(script),
         NEW q, Remaining(q, script, k), Len(q) > 0
  PROVE  /\ Members(Part(q)) \subseteq Members(script)
         /\ \E m \in 0..Len(script) :
              /\ Remaining(Rest(q), script, m)
              /\ \A i \in 1..m : i \in 1..k \/ script[i] \in Members(Part(q))
<1> DEFINE n == Min({PersistEvery, Len(q)})
           part == SubSeq(q, 1, n)
           rest == SubSeq(q, n + 1, Len(q))
<1>1. /\ q \in Seq(Members(script)) /\ Len(q) \in Nat /\ Len(script) \in Nat
      /\ Len(q) = Len(script) - k /\ \A i \in 1..Len(q) : q[i] = script[k + i]
  BY DEF Remaining
<1>2. n \in Int /\ 1 <= n /\ n <= Len(q)
  BY <1>1, ReplayAssumption, SmallerOfTwo
<1> HIDE DEF n
<1>3. \A i \in 1..Len(q) : q[i] \in Members(script)
  BY <1>1, ElementOfSeq
<1>4. /\ part \in Seq(Members(script)) /\ Len(part) = n
      /\ \A i \in 1..n : part[i] = q[i]
  <2>1. \A i \in 1..n : q[i] \in Members(script)
    BY <1>1, <1>2, <1>3
  <2>2. /\ part \in Seq(Members(script))
        /\ Len(part) = IF 1 <= n THEN n - 1 + 1 ELSE 0
        /\ \A i \in 1..(n - 1 + 1) : part[i] = q[1 + i - 1]
    BY <1>2, <2>1, SubSeqProperties
  <2> HIDE DEF part
  <2> QED BY <1>2, <2>2
<1>5. /\ rest \in Seq(Members(script)) /\ Len(rest) = Len(q) - n
      /\ \A i \in 1..(Len(q) - n) : rest[i] = q[n + i]
  <2>1. \A i \in (n + 1)..Len(q) : q[i] \in Members(script)
    BY <1>1, <1>2, <1>3
  <2>2. /\ rest \in Seq(Members(script))
        /\ Len(rest) = IF n + 1 <= Len(q) THEN Len(q) - (n + 1) + 1 ELSE 0
        /\ \A i \in 1..(Len(q) - (n + 1) + 1) : rest[i] = q[(n + 1) + i - 1]
    BY <1>1, <1>2, <2>1, SubSeqProperties
  <2> HIDE DEF rest
  <2>3. Len(rest) = Len(q) - n
    <3>1. Len(rest) = IF n + 1 <= Len(q) THEN Len(q) - (n + 1) + 1 ELSE 0
      BY <2>2
    <3>2. Len(q) \in Int
      BY <1>1
    <3> QED BY <1>2, <3>1, <3>2
  <2>4. ASSUME NEW i \in 1..(Len(q) - n) PROVE rest[i] = q[n + i]
    <3>1. i \in 1..(Len(q) - (n + 1) + 1) /\ (n + 1) + i - 1 = n + i
      BY <1>1, <1>2
    <3> QED BY <2>2, <3>1
  <2> QED BY <2>2, <2>3, <2>4
<1>6. Part(q) = part /\ Rest(q) = rest
  BY DEF Part, Rest, n
<1> HIDE DEF part, rest
<1>7. Members(part) \subseteq Members(script)
  BY <1>2, <1>4, ElementOfSeq DEF Members
<1>8. k + n \in 0..Len(script)
  BY <1>1, <1>2
<1>9. Remaining(rest, script, k + n)
  <2>1. Len(rest) = Len(script) - (k + n)
    BY <1>1, <1>2, <1>5
  <2>2. ASSUME NEW i \in 1..Len(rest) PROVE rest[i] = script[(k + n) + i]
    <3>1. n + i \in 1..Len(q) /\ i \in 1..(Len(q) - n) /\ k + (n + i) = (k + n) + i
      BY <1>1, <1>2, <1>5
    <3> QED BY <1>1, <1>5, <3>1
  <2> QED BY <1>5, <2>1, <2>2 DEF Remaining
<1>10. ASSUME NEW i \in 1..(k + n), i \notin 1..k PROVE script[i] \in Members(part)
  <2>1. i - k \in 1..n /\ k + (i - k) = i /\ i - k \in 1..Len(q)
    BY <1>1, <1>2, <1>10
  <2>2. part[i - k] = script[i]
    BY <1>1, <1>4, <2>1
  <2> QED BY <1>4, <2>1, <2>2 DEF Members
<1> QED BY <1>6, <1>7, <1>8, <1>9, <1>10

\* A replay that a step leaves alone keeps its progress, as rows only become more.
LEMMA OthersGoOn ==
  ASSUME NEW r \in Runs, Progress(r), source' = source, DOMAIN rows \subseteq DOMAIN rows',
         phase'[r] = phase[r], todo'[r] = todo[r]
  PROVE  Progress(r)'
<1>1. Script(r)' = Script(r)
  BY DEF Script
<1> QED BY <1>1 DEF Progress
\* In the beginning no replay has begun.
LEMMA ReplayStarts == Init => ReplayInv
<1> SUFFICES ASSUME Init PROVE ReplayInv
  OBVIOUS
<1>1. Scalars
  BY ReplayAssumption DEF Init, Scalars
<1>2. stream = {} /\ DOMAIN rows = {}
  BY DEF Init, EmptyBag, SetToBag
<1>3. \A r \in Runs : Progress(r)
  BY DEF Init, Progress
<1> QED BY <1>1, <1>2, <1>3 DEF ReplayInv, Rows

\* The step of one replay keeps the progress of all if it keeps its own.
LEMMA OneGoesOn ==
  ASSUME NEW r \in Runs, \A q \in Runs : Progress(q), source' = source,
         DOMAIN rows \subseteq DOMAIN rows', Progress(r)',
         \A q \in Runs \ {r} : phase'[q] = phase[q] /\ todo'[q] = todo[q]
  PROVE  \A q \in Runs : Progress(q)'
<1> SUFFICES ASSUME NEW q \in Runs PROVE Progress(q)'
  OBVIOUS
<1>1. CASE q = r
  BY <1>1
<1>2. CASE q # r
  BY <1>2, OthersGoOn
<1> QED BY <1>1, <1>2

\* A replay is requested, begins, reads, fails, completes or dies: no row changes.
LEMMA PhaseKept ==
  ASSUME ReplayInv, NEW r \in Runs,
         Request(r) \/ Command(r) \/ Begin(r) \/ Read(r) \/ Fails(r) \/ Complete(r) \/ CommandCrash(r)
  PROVE  ReplayInv'
<1>1. Scalars /\ Rows /\ \A q \in Runs : Progress(q)
  BY DEF ReplayInv
<1>2. UNCHANGED <<source, rows, stream>>
  BY DEF Request, Command, Begin, Read, Fails, Complete, CommandCrash
<1>3. Known' = Known /\ \A q \in Runs : Script(q)' = Script(q)
  BY <1>2 DEF Known, Script
<1>4. Rows'
  BY <1>1, <1>2, <1>3 DEF Rows
<1>5. Scalars'
  <2>1. CASE Request(r) \/ Command(r) \/ Begin(r) \/ Read(r)
    BY <1>1, <2>1 DEF Scalars, Request, Command, Begin, Read
  <2>2. CASE Fails(r)
    BY <1>1, <2>2, ReplayAssumption DEF Scalars, Fails
  <2>3. CASE Complete(r)
    BY <1>1, <2>3 DEF Scalars, Complete
  <2>4. CASE CommandCrash(r)
    BY <1>1, <2>4, ReplayAssumption DEF Scalars, CommandCrash
  <2> QED BY <2>1, <2>2, <2>3, <2>4
<1>6. \A q \in Runs \ {r} : phase'[q] = phase[q] /\ todo'[q] = todo[q]
  <2>1. CASE Request(r) \/ Command(r) \/ Begin(r) \/ Complete(r)
    BY <1>1, <2>1 DEF Scalars, Request, Command, Begin, Complete
  <2>2. CASE Read(r) \/ Fails(r) \/ CommandCrash(r)
    BY <1>1, <2>2 DEF Scalars, Read, Fails, CommandCrash
  <2> QED BY <2>1, <2>2
<1>7. Progress(r)'
  <2>1. CASE Request(r) \/ Command(r) \/ Begin(r)
    <3>1. phase'[r] \in {"created", "reading"} /\ todo'[r] = todo[r] /\ phase[r] # "handling"
      BY <1>1, <2>1 DEF Scalars, Request, Command, Begin
    <3> QED BY <1>1, <3>1 DEF Progress
  <2>2. CASE Read(r)
    <3>1. phase'[r] = "handling" /\ todo'[r] = Script(r)
      BY <1>1, <2>2 DEF Scalars, Read
    <3>2. Remaining(Script(r), Script(r), 0) /\ 0 \in 0..Len(Script(r)) /\ 1..0 = {}
      BY <1>1, ScriptOf DEF Remaining
    <3> QED BY <1>3, <3>1, <3>2 DEF Progress
  <2>3. CASE Fails(r) \/ CommandCrash(r)
    <3>1. phase'[r] \in {"failed", "dead"} /\ todo'[r] = <<>>
      BY <1>1, <2>3 DEF Scalars, Fails, CommandCrash
    <3> QED BY <3>1 DEF Progress
  <2>4. CASE Complete(r)
    <3>1. phase[r] = "handling" /\ todo[r] = <<>> /\ phase'[r] = "completed" /\ todo'[r] = <<>>
      BY <1>1, <2>4 DEF Scalars, Complete
    <3>2. PICK k \in 0..Len(Script(r)) :
            /\ Remaining(todo[r], Script(r), k)
            /\ r \in Requests => \A i \in 1..k : Script(r)[i] \in DOMAIN rows
      BY <1>1, <3>1 DEF Progress
    <3>3. k = Len(Script(r))
      <4>1. Len(<<>>) = 0 /\ Len(Script(r)) \in Nat
        BY <1>1, ScriptOf
      <4> QED BY <3>1, <3>2, <4>1 DEF Remaining
    <3>4. r \in Requests => Members(Script(r)) \subseteq DOMAIN rows
      BY <3>2, <3>3 DEF Members
    <3> QED BY <1>2, <1>3, <3>1, <3>4 DEF Progress
  <2> QED BY <2>1, <2>2, <2>3, <2>4
<1>8. \A q \in Runs : Progress(q)'
  BY <1>1, <1>2, <1>6, <1>7, OneGoesOn
<1> QED BY <1>4, <1>5, <1>8 DEF ReplayInv

\* A request persists a part of its events, a command publishes one.
LEMMA PartKept ==
  ASSUME ReplayInv, NEW r \in Runs, Persist(r) \/ Publish(r)
  PROVE  ReplayInv'
<1>1. Scalars /\ Rows /\ (\A q \in Runs : Progress(q)) /\ phase[r] = "handling" /\ Len(todo[r]) > 0
  BY DEF ReplayInv, Persist, Publish
<1>2. source' = source /\ phase' = phase
  BY DEF Persist, Publish
<1>3. Known' = Known /\ \A q \in Runs : Script(q)' = Script(q)
  BY <1>2 DEF Known, Script
<1>4. DOMAIN todo' = Runs /\ todo'[r] = Rest(todo[r]) /\ \A q \in Runs \ {r} : todo'[q] = todo[q]
  BY <1>1 DEF Persist, Publish, Scalars
<1>5. Scalars'
  BY <1>1, <1>4 DEF Scalars, Persist, Publish
<1>6. PICK k \in 0..Len(Script(r)) :
        /\ Remaining(todo[r], Script(r), k)
        /\ r \in Requests => \A i \in 1..k : Script(r)[i] \in DOMAIN rows
  BY <1>1 DEF Progress
<1>7. PICK m \in 0..Len(Script(r)) :
        /\ Members(Part(todo[r])) \subseteq Members(Script(r))
        /\ Remaining(Rest(todo[r]), Script(r), m)
        /\ \A i \in 1..m : i \in 1..k \/ Script(r)[i] \in Members(Part(todo[r]))
  BY <1>1, <1>6, ScriptOf, OnePartLess
<1>0. Members(Script(r)) \subseteq Known
  BY DEF Known
<1>8. /\ Rows' /\ DOMAIN rows \subseteq DOMAIN rows'
      /\ r \in Requests => \A i \in 1..m : Script(r)[i] \in DOMAIN rows'
  <2>1. CASE Persist(r)
    <3>1. rows' = Insert(rows, Members(Part(todo[r]))) /\ stream' = stream
      BY <2>1 DEF Persist
    <3>2. /\ DOMAIN rows' = DOMAIN rows \cup Members(Part(todo[r]))
          /\ \A id \in DOMAIN rows' : rows'[id] = 1
      <4>1. \A id \in DOMAIN rows : rows[id] = 1
        BY <1>1 DEF Rows
      <4>2. /\ DOMAIN Insert(rows, Members(Part(todo[r]))) = DOMAIN rows \cup Members(Part(todo[r]))
            /\ \A id \in DOMAIN Insert(rows, Members(Part(todo[r]))) :
                 Insert(rows, Members(Part(todo[r])))[id] = 1
        BY <4>1, InsertOnce
      <4> QED BY <3>1, <4>2
    <3>3. Rows'
      BY <1>0, <1>1, <1>3, <1>7, <3>1, <3>2 DEF Rows
    <3>4. \A i \in 1..m : Script(r)[i] \in DOMAIN rows' \/ r \notin Requests
      BY <1>6, <1>7, <3>2
    <3> QED BY <3>2, <3>3, <3>4
  <2>2. CASE Publish(r)
    <3>1. rows' = rows /\ stream' = stream \cup Members(Part(todo[r])) /\ r \notin Requests
      BY <2>2, ReplayAssumption DEF Publish
    <3> QED BY <1>0, <1>1, <1>3, <1>7, <3>1 DEF Rows
  <2> QED BY <2>1, <2>2
<1>9. Progress(r)'
  BY <1>1, <1>2, <1>3, <1>4, <1>7, <1>8 DEF Progress
<1>10. \A q \in Runs : Progress(q)'
  BY <1>1, <1>2, <1>4, <1>8, <1>9, OneGoesOn
<1> QED BY <1>5, <1>8, <1>10 DEF ReplayInv

\* A worker stores an event of the stream.
LEMMA ConsumeKept ==
  ASSUME ReplayInv, NEW id \in stream, Consume(id)
  PROVE  ReplayInv'
<1>1. Scalars /\ Rows /\ \A q \in Runs : Progress(q)
  BY DEF ReplayInv
<1>2. UNCHANGED <<source, phase, todo, status, crashes, failures>> /\ stream' = stream \ {id}
  BY DEF Consume
<1>3. rows' = Insert(rows, {id})
  BY DEF Consume
<1>4. DOMAIN rows' = DOMAIN rows \cup {id} /\ \A x \in DOMAIN rows' : rows'[x] = 1
  <2>1. \A x \in DOMAIN rows : rows[x] = 1
    BY <1>1 DEF Rows
  <2>2. /\ DOMAIN Insert(rows, {id}) = DOMAIN rows \cup {id}
        /\ \A x \in DOMAIN Insert(rows, {id}) : Insert(rows, {id})[x] = 1
    BY <2>1, InsertOnce
  <2> QED BY <1>3, <2>2
<1>5. Rows'
  <2>1. Known' = Known
    BY <1>2 DEF Known, Script
  <2> QED BY <1>1, <1>2, <1>4, <2>1 DEF Rows
<1>6. \A q \in Runs : Progress(q)'
  BY <1>1, <1>2, <1>4, OthersGoOn
<1> QED BY <1>1, <1>2, <1>5, <1>6 DEF ReplayInv, Scalars

\* The API process dies, and with it the replays it runs.
LEMMA ApiCrashKept ==
  ASSUME ReplayInv, ApiCrash
  PROVE  ReplayInv'
<1>1. Scalars /\ Rows /\ \A q \in Runs : Progress(q)
  BY DEF ReplayInv
<1>2. UNCHANGED <<source, rows, stream, failures>>
  BY DEF ApiCrash
<1>3. Known' = Known /\ \A q \in Runs : Script(q)' = Script(q)
  BY <1>2 DEF Known, Script
<1>4. Scalars'
  BY <1>1, ReplayAssumption DEF Scalars, ApiCrash
<1>5. ASSUME NEW q \in Runs PROVE Progress(q)'
  <2>1. CASE q \in Requests /\ phase[q] # "new" /\ ~Over(q)
    <3>1. phase'[q] = "dead" /\ todo'[q] = <<>>
      BY <2>1 DEF ApiCrash
    <3> QED BY <3>1 DEF Progress
  <2>2. CASE q \in Requests /\ ~(phase[q] # "new" /\ ~Over(q))
    <3>1. phase'[q] = phase[q] /\ todo'[q] = <<>> /\ phase[q] # "handling"
      BY <2>2 DEF ApiCrash, Over
    <3> QED BY <1>1, <1>2, <1>3, <3>1 DEF Progress
  <2>3. CASE q \notin Requests
    <3>1. phase'[q] = phase[q] /\ todo'[q] = todo[q]
      BY <2>3 DEF ApiCrash
    <3> QED BY <1>1, <1>2, <3>1, OthersGoOn
  <2> QED BY <2>1, <2>2, <2>3
<1> QED BY <1>1, <1>2, <1>3, <1>4, <1>5 DEF ReplayInv, Rows

\* The inductive invariant: rows are the script's and once each, and what a request no
\* longer has to handle is among them.
THEOREM ReplayInvariant == Spec => []ReplayInv
<1>1. ReplayInv /\ [Next]_vars => ReplayInv'
  <2> SUFFICES ASSUME ReplayInv, [Next]_vars PROVE ReplayInv'
    OBVIOUS
  <2>1. ASSUME NEW r \in Runs, Request(r) \/ Command(r) \/ Step(r) \/ CommandCrash(r)
        PROVE  ReplayInv'
    BY <2>1, PhaseKept, PartKept DEF Step
  <2>2. ASSUME NEW id \in stream, Consume(id) PROVE ReplayInv'
    BY <2>2, ConsumeKept
  <2>3. CASE ApiCrash
    BY <2>3, ApiCrashKept
  <2>4. CASE UNCHANGED vars
    <3>1. UNCHANGED <<source, phase, todo, status, rows, stream, crashes, failures>>
      BY <2>4 DEF vars
    <3>2. Known' = Known /\ \A q \in Runs : Script(q)' = Script(q)
      BY <3>1 DEF Known, Script
    <3>3. Scalars' /\ Rows'
      BY <3>1, <3>2 DEF ReplayInv, Scalars, Rows
    <3>4. \A q \in Runs : Progress(q)'
      BY <3>1, <3>2 DEF ReplayInv, Progress
    <3> QED BY <3>3, <3>4 DEF ReplayInv
  <2> QED BY <2>1, <2>2, <2>3, <2>4 DEF Next
<1> QED BY <1>1, ReplayStarts, PTL DEF Spec

\* Types: a replay has events to handle only while it handles them.
THEOREM TypeCorrect == Spec => []TypeOK
<1>1. ReplayInv => TypeOK
  BY DEF ReplayInv, Scalars, Progress, TypeOK
<1> QED BY <1>1, ReplayInvariant, PTL

\* When a replay of the source is completed another one inserts no event again that has no
\* uid, for any source, replays, failures and deaths: the first has stored all of them,
\* and they have one id in every replay.
THEOREM SecondReplayAddsNothing == Spec => ReplayIsIdempotent
<1> DEFINE Done == \E r \in Requests : phase[r] = "completed"
           Same == \A id \in DOMAIN rows' :
                     rows'[id] = 1 /\ (id \in DOMAIN rows \/ id.uid # NoUid)
<1>1. ReplayInv /\ ReplayInv' /\ [Next]_vars => [Done => Same]_vars
  <2> SUFFICES ASSUME ReplayInv, ReplayInv', [Next]_vars, NEW r \in Requests, phase[r] = "completed",
                      NEW id \in DOMAIN rows'
               PROVE  rows'[id] = 1 /\ (id \in DOMAIN rows \/ id.uid # NoUid)
    OBVIOUS
  <2>1. source' = source
    BY DEF Next, Request, Command, Step, Begin, Read, Fails, Persist, Publish, Complete,
           CommandCrash, Consume, ApiCrash, vars
  <2>2. Known' = Known
    BY <2>1 DEF Known, Script
  <2>3. rows'[id] = 1 /\ id \in Known
    BY <2>2 DEF ReplayInv, Rows
  <2>4. ASSUME id.uid = NoUid PROVE id \in DOMAIN rows
    <3>1. r \in Runs
      BY DEF Runs
    <3>2. id \in Members(Script(r))
      BY <2>3, <2>4, <3>1, SameWithoutUid DEF ReplayInv
    <3> QED BY <3>1, <3>2 DEF ReplayInv, Progress
  <2> QED BY <2>3, <2>4
<1>2. ReplayIsIdempotent <=> [][Done => Same]_vars
  BY DEF ReplayIsIdempotent
<1> QED BY <1>1, <1>2, ReplayInvariant, PTL DEF Spec

\* A replay that says it is completed has stored every event of a scenario, every valid
\* connection, and every session that only a protocol log has.
THEOREM CompletedReplaysAreStored == Spec => []CompletedIsStored
<1>1. ReplayInv => CompletedIsStored
  <2> SUFFICES ASSUME ReplayInv, NEW r \in Requests, phase[r] = "completed"
               PROVE  IF source \in Scenarios
                      THEN \A line \in Members(source.generated) : Stored(r, line)
                      ELSE /\ \A line \in Members(source.conn) :
                                Valid(line) /\ line.uid \notin Uids(source.dns) => Stored(r, line)
                           /\ \A u \in Uids(source.dns) \ Uids(source.conn) :
                                (\A line \in Members(source.dns) : line.uid = u => Valid(line))
                                  => \E line \in Members(source.dns) : line.uid = u /\ Stored(r, line)
    BY DEF CompletedIsStored
  <2>1. Scalars /\ r \in Runs /\ Members(Script(r)) \subseteq DOMAIN rows
    BY DEF ReplayInv, Progress, Runs
  <2>2. ASSUME NEW x, EventId(x) \in Members(Events(source)), NEW line, line.ts = x.ts,
               line.uid = x.uid, x.uid = NoUid => line.flow = x.flow
        PROVE  Stored(r, line)
    <3> DEFINE id == Drawn(r, EventId(x))
    <3>1. id \in DOMAIN rows
      BY <2>1, <2>2, ScriptOf
    <3>2. /\ EventId(x).ts = x.ts /\ EventId(x).uid = x.uid
          /\ x.uid = NoUid => EventId(x).flow = x.flow
      BY DEF EventId
    <3>3. /\ id.ts = x.ts /\ id.uid = x.uid
          /\ x.uid = NoUid => id.flow = x.flow
          /\ id.run = IF x.uid = NoUid THEN NoRun ELSE r
      BY <3>2, DrawnApart
    <3> HIDE DEF id
    <3>4. id.ts = line.ts /\ id.uid = line.uid
      BY <2>2, <3>3
    <3>5. IF line.uid = NoUid THEN id.flow = line.flow /\ id.run = NoRun ELSE id.run = r
      BY <2>2, <3>3
    <3> QED BY <3>1, <3>4, <3>5 DEF Stored
  <2>3. CASE source \in Scenarios
    BY <2>2, <2>3, EventsOfScenario
  <2>4. CASE source \notin Scenarios
    <3>1. /\ source \in Captures
          /\ \A x \in Members(Records(source)) : Valid(x) => EventId(x) \in Members(Events(source))
      BY <2>1, <2>4, EventsOfCapture DEF Scalars
    <3>2. ASSUME NEW line \in Members(source.conn), Valid(line), line.uid \notin Uids(source.dns)
          PROVE  Stored(r, line)
      BY <2>2, <3>1, <3>2, RecordsOfLines
    <3>3. ASSUME NEW u \in Uids(source.dns) \ Uids(source.conn),
                 \A line \in Members(source.dns) : line.uid = u => Valid(line)
          PROVE  \E line \in Members(source.dns) : line.uid = u /\ Stored(r, line)
      <4> DEFINE x == ByUid(source.dns)[u]
      <4>1. x.uid = u
        BY <3>1, LogsOfLines, MergedLines
      <4>2. PICK i \in 1..Len(source.dns) : source.dns[i].uid = u /\ x.ts = source.dns[i].ts
        BY <3>1, LogsOfLines, MergedLines
      <4>3. PICK j \in 1..Len(source.dns) : source.dns[j].uid = u /\ x.ok = source.dns[j].ok
        BY <3>1, LogsOfLines, MergedLines
      <4>4. source.dns[i] \in Members(source.dns) /\ source.dns[j] \in Members(source.dns)
        BY DEF Members
      <4>5. Valid(x)
        BY <3>3, <4>2, <4>3, <4>4 DEF Valid
      <4>6. x \in Members(Records(source))
        BY <3>1, <3>3, RecordsOfLines
      <4>7. u # NoUid
        BY DEF Uids
      <4> HIDE DEF x
      <4>8. Stored(r, source.dns[i])
        BY <2>2, <3>1, <4>1, <4>2, <4>5, <4>6, <4>7
      <4> QED BY <4>2, <4>4, <4>8
    <3> QED BY <2>4, <3>2, <3>3
  <2> QED BY <2>3, <2>4
<1> QED BY <1>1, ReplayInvariant, PTL

\* Whatever is left of a replay comes in the order of time, and of a capture nothing again
\* that is among the latest three quarters of the dedup memory, for every source and capacity.
THEOREM EventsComeInOrderOnce == Spec => []EventsInOrderOnce
<1>1. ReplayInv => EventsInOrderOnce
  <2> SUFFICES ASSUME ReplayInv, NEW r \in Runs, NEW i \in 1..Len(todo[r]),
                      NEW j \in 1..Len(todo[r]), i < j
               PROVE  /\ todo[r][i].ts <= todo[r][j].ts
                      /\ source \in Captures /\ todo[r][i] = todo[r][j]
                           => j - i > DedupCapacity - (DedupCapacity \div 4)
    BY DEF EventsInOrderOnce
  <2>1. /\ Progress(r) /\ InTime(Script(r)) /\ Len(Script(r)) \in Nat
        /\ source \in Captures => Apart(Script(r))
    BY ScriptOf DEF ReplayInv
  <2>2. phase[r] = "handling"
    <3>1. Len(<<>>) = 0
      OBVIOUS
    <3> QED BY <2>1, <3>1 DEF Progress
  <2>3. PICK k \in 0..Len(Script(r)) : Remaining(todo[r], Script(r), k)
    BY <2>1, <2>2 DEF Progress
  <2>4. /\ k + i \in 1..Len(Script(r)) /\ k + j \in 1..Len(Script(r)) /\ k + i < k + j
        /\ todo[r][i] = Script(r)[k + i] /\ todo[r][j] = Script(r)[k + j]
        /\ (k + j) - (k + i) = j - i
    BY <2>1, <2>3 DEF Remaining
  <2> QED BY <2>1, <2>4 DEF InTime, Apart, Quarter
<1> QED BY <1>1, ReplayInvariant, PTL
=============================================================================
