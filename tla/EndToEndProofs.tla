---------------------------- MODULE EndToEndProofs ----------------------------
(***************************************************************************)
(* Proofs about StreamWorker, and about EndToEnd, which extends it: for    *)
(* every number of workers and entries, every payload, every value of the  *)
(* limits and of the bounds, whatever the detectors flag and however alerts*)
(* and entries are related.                                                *)
(***************************************************************************)
EXTENDS EndToEnd, FiniteSetTheorems, TLAPS

-----------------------------------------------------------------------------
(* StreamWorker: no entry is lost, and none is delivered for ever.         *)

\* What the members of Oldest(S, n) are: an initial segment of S.
LEMMA OldestIsPrefix ==
  ASSUME NEW S, NEW n, NEW T \in Oldest(S, n)
  PROVE  T \subseteq S /\ \A t \in T, s \in S \ T : t < s
BY DEF Oldest

\* Forget keeps the group's state well typed.
LEMMA ForgetType ==
  ASSUME TypeOK, NEW S, Forget(S)
  PROVE  /\ pel' \in SUBSET Entries /\ idle' \in SUBSET pel'
         /\ deliveries' \in [Entries -> Nat]
BY DEF TypeOK, Forget

\* So does a delivery of entries.
LEMMA DeliverType ==
  ASSUME TypeOK, NEW S \in SUBSET Entries, Deliver(S)
  PROVE  /\ pel' \in SUBSET Entries /\ idle' \in SUBSET pel'
         /\ deliveries' \in [Entries -> Nat]
BY DEF TypeOK, Deliver

\* A process that ends leaves well-typed worker state.
LEMMA StoppedType ==
  ASSUME TypeOK, NEW w \in Workers, Stopped(w)
  PROVE  /\ pc' \in [Workers -> PC]
         /\ batch' \in [Workers -> SUBSET Entries]
         /\ todo' \in [Workers -> SUBSET Entries]
         /\ dead' \in [Workers -> Entries \cup {NoEntry}]
         /\ open' \in [Workers -> SUBSET Entries]
         /\ dirty' \in [Workers -> BOOLEAN] /\ warm' \in [Workers -> BOOLEAN]
BY DEF TypeOK, Stopped, Goto, PC

\* A dead-lettered entry is well typed.
LEMMA DeadLetterType ==
  ASSUME TypeOK, NEW w \in Workers, NEW m \in Entries, NEW r \in Reasons,
         DeadLetter(w, m, r)
  PROVE  /\ dlq' \in SUBSET (Entries \X Reasons)
         /\ dead' \in [Workers -> Entries \cup {NoEntry}]
         /\ DeadLettered' = DeadLettered \cup {m}
<1>1. dlq' \in SUBSET (Entries \X Reasons)
  BY DEF TypeOK, DeadLetter
<1>2. dead' \in [Workers -> Entries \cup {NoEntry}]
  BY DEF TypeOK, DeadLetter
<1>3. ASSUME NEW k \in Entries
      PROVE  (\E q \in Reasons : <<k, q>> \in dlq')
             <=> (k = m \/ \E q \in Reasons : <<k, q>> \in dlq)
  BY DEF DeadLetter
<1>4. DeadLettered' = DeadLettered \cup {m}
  BY <1>3 DEF DeadLettered
<1> QED BY <1>1, <1>2, <1>4

\* Every state the fabric and its workers reach is well typed, whatever steps
\* of streaming.py and run_worker led there.
LEMMA TypeStep ==
  ASSUME TypeOK, [Next]_vars
  PROVE  TypeOK'
<1> USE BoundsAssumption
<1> USE DEF redisVars, pelVars, tableVars, windowVars, workerVars, budgetVars
<1>1. CASE Publish
  <2>1. PICK cut \in 1..published' :
           /\ stream' = {m \in stream \cup {published'} : m >= cut}
           /\ lost' = lost \cup {m \in Waiting \cup pel : m < cut /\ m \in stream}
    BY <1>1 DEF Publish
  <2>2. published' \in 0..N /\ published' \in Entries
    BY <1>1 DEF Publish, TypeOK, Entries
  <2>3. stream' \in SUBSET Entries /\ lost' \in SUBSET Entries
    BY <2>1, <2>2 DEF TypeOK, Waiting
  <2> QED BY <1>1, <2>2, <2>3 DEF TypeOK, Publish
<1>2. CASE DeleteStream
  <2>1. DeadLettered \subseteq Entries
    BY DEF DeadLettered
  <2>2. /\ pel' \in SUBSET Entries /\ idle' \in SUBSET pel'
        /\ deliveries' \in [Entries -> Nat]
    BY <1>2, ForgetType DEF DeleteStream
  <2>3. lost' \in SUBSET Entries
    BY <1>2, <2>1 DEF DeleteStream, TypeOK, Waiting
  <2>4. deletes' \in 0..MaxDeletes /\ cursor' \in 0..N
    BY <1>2 DEF DeleteStream, TypeOK
  <2> QED BY <1>2, <2>2, <2>3, <2>4 DEF TypeOK, DeleteStream
<1>3. ASSUME NEW m \in Entries, Age(m) PROVE TypeOK'
  BY <1>3 DEF TypeOK, Age
<1>4. ASSUME NEW w \in Workers, Start(w) PROVE TypeOK'
  BY <1>4 DEF TypeOK, Start, Goto, PC
<1>5. ASSUME NEW w \in Workers, ReadBatch(w) PROVE TypeOK'
  <2>1. PICK new \in Oldest(Waiting, BatchSize) :
           /\ Deliver(new)
           /\ \E last \in new : cursor' = last
           /\ batch' = [batch EXCEPT ![w] = new]
    BY <1>5 DEF ReadBatch
  <2>2. new \subseteq Entries
    BY OldestIsPrefix DEF Waiting, TypeOK
  <2>3. cursor' \in 0..N
    BY <2>1, <2>2 DEF Entries
  <2> QED
    BY <1>5, <2>1, <2>2, <2>3, DeliverType DEF TypeOK, ReadBatch, Goto, PC
<1>6. ASSUME NEW w \in Workers, ReadNothing(w) PROVE TypeOK'
  BY <1>6 DEF TypeOK, ReadNothing, Goto, PC
<1>7. ASSUME NEW w \in Workers, DecodeBad(w) PROVE TypeOK'
  <2>1. PICK m \in batch[w] : /\ DeadLetter(w, m, "undecodable")
                              /\ batch' = [batch EXCEPT ![w] = @ \ {m}]
    BY <1>7 DEF DecodeBad
  <2> QED
    BY <1>7, <2>1, DeadLetterType DEF TypeOK, DecodeBad, Reasons
<1>8. ASSUME NEW w \in Workers, DecodeDone(w) PROVE TypeOK'
  BY <1>8 DEF TypeOK, DecodeDone, Goto, PC
<1>9. ASSUME NEW w \in Workers, AckDead(w) PROVE TypeOK'
  BY <1>9, ForgetType DEF TypeOK, AckDead
<1>10. ASSUME NEW w \in Workers, ListPoison(w) PROVE TypeOK'
  <2>1. PICK P \in Oldest(pel, ClaimCount) :
          todo' = [todo EXCEPT ![w] = {m \in P : deliveries[m] > MaxDeliveries}]
    BY <1>10 DEF ListPoison
  <2>2. P \subseteq Entries
    BY OldestIsPrefix DEF TypeOK
  <2> QED BY <1>10, <2>1, <2>2 DEF TypeOK, ListPoison, Goto, PC
<1>11. ASSUME NEW w \in Workers, ReclaimNoGroup(w) PROVE TypeOK'
  BY <1>11 DEF TypeOK, ReclaimNoGroup, Goto, PC
<1>12. ASSUME NEW w \in Workers, ReclaimFails(w) PROVE TypeOK'
  BY <1>12 DEF TypeOK, ReclaimFails, Goto, PC
<1>13. ASSUME NEW w \in Workers, DeadLetterPoison(w) PROVE TypeOK'
  <2>1. PICK m \in todo[w] : /\ DeadLetter(w, m, "poison")
                             /\ todo' = [todo EXCEPT ![w] = @ \ {m}]
    BY <1>13 DEF DeadLetterPoison
  <2> QED
    BY <1>13, <2>1, DeadLetterType DEF TypeOK, DeadLetterPoison, Reasons
<1>14. ASSUME NEW w \in Workers, Claim(w) PROVE TypeOK'
  <2>1. PICK C \in Oldest(idle \cup (pel \ stream), ClaimCount) :
          /\ pel' = pel \ (C \ stream)
          /\ deliveries' = [m \in Entries |->
                              IF m \in C \ stream THEN 0
                              ELSE deliveries[m]
                                   + IF m \in C \cap stream THEN 1 ELSE 0]
          /\ idle' = idle \ C
          /\ batch' = [batch EXCEPT ![w] = C \cap stream]
    BY <1>14 DEF Claim
  <2>2. deliveries' \in [Entries -> Nat]
    BY <2>1 DEF TypeOK
  <2> QED BY <1>14, <2>1, <2>2 DEF TypeOK, Claim, Goto, PC
<1>15. ASSUME NEW w \in Workers, Reject(w) PROVE TypeOK'
  <2>1. PICK m \in batch[w] : /\ DeadLetter(w, m, "invalid")
                              /\ batch' = [batch EXCEPT ![w] = @ \ {m}]
    BY <1>15 DEF Reject
  <2> QED
    BY <1>15, <2>1, DeadLetterType DEF TypeOK, Reject, Reasons
<1>16. ASSUME NEW w \in Workers, Validated(w) PROVE TypeOK'
  <2>1. pc' \in [Workers -> PC]
    BY <1>16 DEF TypeOK, Validated, Goto, PC
  <2>2. todo' \in [Workers -> SUBSET Entries]
    BY <1>16 DEF TypeOK, Validated
  <2>3. dirty' = dirty \/ dirty' = [dirty EXCEPT ![w] = TRUE]
    BY <1>16 DEF Validated
  <2>4. dirty' \in [Workers -> BOOLEAN]
    BY <2>3 DEF TypeOK
  <2> QED BY <1>16, <2>1, <2>2, <2>4 DEF TypeOK, Validated
<1>17. ASSUME NEW w \in Workers, HandleEvent(w) PROVE TypeOK'
  <2>1. PICK m \in todo[w] :
           /\ todo' = [todo EXCEPT ![w] = @ \ {m}]
           /\ \E seen \in SUBSET (open[w] \cup {m}) :
                 /\ evaluated' = evaluated \cup seen
                 /\ open' = [open EXCEPT ![w] = (@ \cup {m}) \ seen]
    BY <1>17 DEF HandleEvent
  <2>2. m \in Entries
    BY <2>1 DEF TypeOK
  <2>3. warm' \in [Workers -> BOOLEAN]
    BY <1>17 DEF TypeOK, HandleEvent
  <2>4. /\ todo' \in [Workers -> SUBSET Entries]
        /\ open' \in [Workers -> SUBSET Entries] /\ evaluated' \subseteq Entries
    BY <2>1, <2>2 DEF TypeOK
  <2> QED BY <1>17, <2>3, <2>4 DEF TypeOK, HandleEvent
<1>18. ASSUME NEW w \in Workers, Die(w) PROVE TypeOK'
  BY <1>18, StoppedType DEF TypeOK, Die
<1>19. ASSUME NEW w \in Workers, Persist(w) PROVE TypeOK'
  BY <1>19 DEF TypeOK, Persist, Goto, PC
<1>20. ASSUME NEW w \in Workers, Ack(w) PROVE TypeOK'
  BY <1>20, ForgetType DEF TypeOK, Ack, Goto, PC
<1>21. ASSUME NEW w \in Workers, Flush(w) PROVE TypeOK'
  BY <1>21 DEF TypeOK, Flush, FlushOpenWindows, Goto, PC
<1>22. ASSUME NEW w \in Workers, Leave(w) PROVE TypeOK'
  BY <1>22, StoppedType DEF TypeOK, Leave, FlushOpenWindows
<1>23. ASSUME NEW w \in Workers, Crash(w) PROVE TypeOK'
  BY <1>23, StoppedType DEF TypeOK, Crash
<1>24. CASE UNCHANGED vars
  BY <1>24 DEF TypeOK, vars
<1> QED
  BY <1>1, <1>2, <1>3, <1>4, <1>5, <1>6, <1>7, <1>8, <1>9, <1>10, <1>11,
     <1>12, <1>13, <1>14, <1>15, <1>16, <1>17, <1>18, <1>19, <1>20, <1>21,
     <1>22, <1>23, <1>24 DEF Next, Step

\* The fabric starts well typed.
LEMMA InitType ==
  ASSUME Init
  PROVE  TypeOK
<1>1. /\ published \in 0..N /\ cursor \in 0..N /\ crashes \in 0..MaxCrashes
      /\ faults \in 0..MaxFaults /\ deletes \in 0..MaxDeletes
      /\ deliveries \in [Entries -> Nat]
  BY BoundsAssumption DEF Init
<1>2. /\ pc \in [Workers -> PC] /\ dirty \in [Workers -> BOOLEAN]
      /\ dead \in [Workers -> Entries \cup {NoEntry}]
  BY DEF Init, PC
<1>3. /\ batch \in [Workers -> SUBSET Entries]
      /\ todo \in [Workers -> SUBSET Entries]
      /\ open \in [Workers -> SUBSET Entries]
  BY DEF Init
<1> QED BY <1>1, <1>2, <1>3 DEF Init, TypeOK

\* The fabric and its workers never leave the state space the code declares.
THEOREM TypeCorrect == Spec => []TypeOK
BY InitType, TypeStep, PTL DEF Spec
-----------------------------------------------------------------------------
\* Where an accounted-for entry can be; the invariant below says everywhere.
Covered == Waiting \cup pel \cup stored \cup DeadLettered \cup lost

\* A step that leaves Redis and the store alone only has to say what the worker
\* that takes it is about to acknowledge.
LEMMA QuietStep ==
  ASSUME TypeOK, Accounting, NEW w \in Workers,
         UNCHANGED <<published, stream, cursor, pel, dlq, lost>>,
         stored \subseteq stored',
         \A v \in Workers \ {w} : /\ pc'[v] = pc[v] /\ batch'[v] = batch[v]
                                  /\ dead'[v] = dead[v],
         pc'[w] = "ack" => batch'[w] \subseteq stored',
         dead'[w] \in {dead[w], NoEntry}
  PROVE  Accounting'
<1>1. Waiting' = Waiting /\ DeadLettered' = DeadLettered
  BY DEF Waiting, DeadLettered
<1>2. AccountedFor'
  BY <1>1 DEF Accounting, AccountedFor
<1>3. ASSUME NEW v \in Workers
      PROVE  /\ pc'[v] = "ack" => batch'[v] \subseteq stored'
             /\ dead'[v] # NoEntry => dead'[v] \in DeadLettered' \cup lost'
  <2>1. CASE v = w
    BY <1>1, <2>1 DEF Accounting
  <2>2. CASE v # w
    BY <1>1, <2>2 DEF Accounting
  <2> QED BY <2>1, <2>2
<1> QED BY <1>2, <1>3 DEF Accounting

\* The first half of dead_letter moves an entry into the dead-letter stream.
LEMMA ParkStep ==
  ASSUME TypeOK, Accounting, NEW w \in Workers, NEW m \in Entries,
         NEW r \in Reasons, DeadLetter(w, m, r),
         UNCHANGED <<published, stream, cursor, pel, lost, stored, pc>>,
         \A v \in Workers : batch'[v] \subseteq batch[v]
  PROVE  Accounting'
<1>1. DeadLettered' = DeadLettered \cup {m} /\ Waiting' = Waiting
  BY DeadLetterType DEF Waiting
<1>2. AccountedFor'
  BY <1>1 DEF Accounting, AccountedFor
<1>3. ASSUME NEW v \in Workers
      PROVE  /\ pc'[v] = "ack" => batch'[v] \subseteq stored'
             /\ dead'[v] # NoEntry => dead'[v] \in DeadLettered' \cup lost'
  BY <1>1 DEF Accounting, DeadLetter, TypeOK
<1> QED BY <1>2, <1>3 DEF Accounting

\* Crossing off entries that are stored, parked or lost keeps the account.
LEMMA ForgetStep ==
  ASSUME TypeOK, Accounting, NEW w \in Workers, NEW S, Forget(S),
         S \subseteq stored \cup DeadLettered \cup lost,
         UNCHANGED <<published, stream, cursor, dlq, lost, stored>>,
         \A v \in Workers \ {w} : /\ pc'[v] = pc[v] /\ batch'[v] = batch[v]
                                  /\ dead'[v] = dead[v],
         pc'[w] = "ack" => batch'[w] \subseteq stored',
         dead'[w] \in {dead[w], NoEntry}
  PROVE  Accounting'
<1>1. Waiting' = Waiting /\ DeadLettered' = DeadLettered /\ pel' = pel \ S
  BY DEF Waiting, DeadLettered, Forget
<1>2. AccountedFor'
  BY <1>1 DEF Accounting, AccountedFor
<1>3. ASSUME NEW v \in Workers
      PROVE  /\ pc'[v] = "ack" => batch'[v] \subseteq stored'
             /\ dead'[v] # NoEntry => dead'[v] \in DeadLettered' \cup lost'
  <2>1. CASE v = w
    BY <1>1, <2>1 DEF Accounting
  <2>2. CASE v # w
    BY <1>1, <2>2 DEF Accounting
  <2> QED BY <2>1, <2>2
<1> QED BY <1>1, <1>2, <1>3 DEF Accounting

\* A new entry is waiting; what trimming takes from the group is lost.
LEMMA PublishStep ==
  ASSUME TypeOK, Accounting, Publish
  PROVE  Accounting'
<1> USE BoundsAssumption DEF pelVars, tableVars, windowVars, workerVars
<1>1. PICK cut \in 1..published' :
        /\ stream' = {m \in stream \cup {published'} : m >= cut}
        /\ lost' = lost \cup {m \in Waiting \cup pel : m < cut /\ m \in stream}
  BY DEF Publish
<1>2. /\ published' = published + 1 /\ published \in Nat
      /\ cursor' = cursor /\ cursor \in Nat /\ pel' = pel /\ stored' = stored
      /\ stream \in SUBSET Int /\ pel \in SUBSET Int
  BY DEF Publish, TypeOK, Entries
<1>3. DeadLettered' = DeadLettered
  BY DEF Publish, DeadLettered
<1>4. published' \in Waiting'
  BY <1>1, <1>2 DEF Waiting, Accounting
<1>5. Waiting \subseteq Waiting' \cup lost'
  <2> SUFFICES ASSUME NEW m \in Waiting PROVE m \in Waiting' \cup lost'
    OBVIOUS
  <2>1. m \in stream /\ m > cursor /\ m \in Int /\ cut \in Int
    BY <1>1, <1>2 DEF Waiting
  <2>2. CASE m >= cut
    BY <1>1, <1>2, <2>1, <2>2 DEF Waiting
  <2>3. CASE m < cut
    BY <1>1, <2>1, <2>3
  <2> QED BY <2>1, <2>2, <2>3
<1>6. AccountedFor'
  <2>1. 1..published' = 1..published \cup {published'}
    BY <1>2
  <2> QED BY <1>1, <1>2, <1>3, <1>4, <1>5, <2>1 DEF Accounting, AccountedFor
<1>7. pel' \ stream' \subseteq lost'
  <2> SUFFICES ASSUME NEW m \in pel, m \notin stream' PROVE m \in lost'
    BY <1>2
  <2>1. m \in Int /\ cut \in Int
    BY <1>1, <1>2
  <2>2. CASE m \in stream
    BY <1>1, <2>1, <2>2
  <2>3. CASE m \notin stream
    BY <1>1, <2>3 DEF Accounting
  <2> QED BY <2>2, <2>3
<1>8. cursor' <= published' /\ stream' \cup pel' \subseteq 1..published'
  <2>1. stream' \subseteq stream \cup {published'}
    BY <1>1
  <2>2. /\ cursor <= published
        /\ stream \subseteq 1..published /\ pel \subseteq 1..published
    BY DEF Accounting
  <2>3. 1..published \subseteq 1..published' /\ published' \in 1..published'
    BY <1>2
  <2> QED BY <1>2, <2>1, <2>2, <2>3
<1>9. \A w \in Workers :
        /\ pc'[w] = "ack" => batch'[w] \subseteq stored'
        /\ dead'[w] # NoEntry => dead'[w] \in DeadLettered' \cup lost'
  BY <1>1, <1>3 DEF Publish, Accounting
<1> QED BY <1>6, <1>7, <1>8, <1>9 DEF Accounting

\* XREADGROUP moves a prefix of the waiting entries to the pending list.
LEMMA ReadStep ==
  ASSUME TypeOK, Accounting, NEW w \in Workers, ReadBatch(w)
  PROVE  Accounting' /\ (Waiting \cup pel)' = Waiting \cup pel
<1> USE BoundsAssumption DEF tableVars, windowVars
<1>1. PICK new \in Oldest(Waiting, BatchSize) :
        /\ pel' = pel \cup new
        /\ \E last \in new : (\A m \in new : m <= last) /\ cursor' = last
        /\ batch' = [batch EXCEPT ![w] = new]
  BY DEF ReadBatch, Deliver
<1>2. new \subseteq Waiting /\ \A t \in new, s \in Waiting \ new : t < s
  BY OldestIsPrefix
<1>3. PICK last \in new : (\A m \in new : m <= last) /\ cursor' = last
  BY <1>1
<1>4. stream' = stream /\ stream \in SUBSET Int /\ cursor \in Int
      /\ cursor < last /\ last \in Int
  BY <1>2, <1>3 DEF ReadBatch, TypeOK, Entries, Waiting
<1>5. Waiting' = Waiting \ new
  <2>1. ASSUME NEW m \in stream
        PROVE  m > last <=> (m > cursor /\ m \notin new)
    BY <1>2, <1>3, <1>4 DEF Waiting
  <2> QED BY <1>3, <1>4, <2>1 DEF Waiting
<1>6. DeadLettered' = DeadLettered /\ lost' = lost /\ stored' = stored
      /\ published' = published /\ dead' = dead
  BY DEF ReadBatch, DeadLettered
<1>7. (Waiting \cup pel)' = Waiting \cup pel
  BY <1>1, <1>2, <1>5
<1>8. AccountedFor'
  BY <1>6, <1>7 DEF Accounting, AccountedFor
<1>9. cursor' <= published' /\ stream' \cup pel' \subseteq 1..published'
  <2>1. last \in stream /\ new \subseteq stream
    BY <1>2, <1>3 DEF Waiting
  <2>2. stream \subseteq 1..published /\ pel \subseteq 1..published
    BY DEF Accounting
  <2>3. published \in Int
    BY DEF TypeOK
  <2> QED BY <1>1, <1>3, <1>4, <1>6, <2>1, <2>2, <2>3
<1>10. pel' \ stream' \subseteq lost'
  BY <1>1, <1>2, <1>4, <1>6 DEF Accounting, Waiting
<1>11. \A v \in Workers :
        /\ pc'[v] = "ack" => batch'[v] \subseteq stored'
        /\ dead'[v] # NoEntry => dead'[v] \in DeadLettered' \cup lost'
  BY <1>1, <1>6 DEF Accounting, ReadBatch, Goto, TypeOK
<1> QED BY <1>7, <1>8, <1>9, <1>10, <1>11 DEF Accounting

\* XAUTOCLAIM only drops pending entries that trimming had already taken.
LEMMA ClaimStep ==
  ASSUME TypeOK, Accounting, NEW w \in Workers, Claim(w)
  PROVE  /\ Accounting' /\ Waiting' = Waiting
         /\ \E S \in SUBSET lost : pel' = pel \ S
<1> USE DEF tableVars, windowVars
<1>1. PICK C \in Oldest(idle \cup (pel \ stream), ClaimCount) :
        /\ pel' = pel \ (C \ stream)
        /\ batch' = [batch EXCEPT ![w] = C \cap stream]
  BY DEF Claim
<1>2. C \subseteq pel
  BY OldestIsPrefix DEF TypeOK
<1>3. C \ stream \subseteq lost
  BY <1>2 DEF Accounting
<1>4. Waiting' = Waiting /\ DeadLettered' = DeadLettered /\ lost' = lost
      /\ stored' = stored /\ published' = published /\ dead' = dead
      /\ stream' = stream /\ cursor' = cursor
  BY DEF Claim, Waiting, DeadLettered
<1>5. AccountedFor'
  BY <1>1, <1>3, <1>4 DEF Accounting, AccountedFor
<1>6. \A v \in Workers :
        /\ pc'[v] = "ack" => batch'[v] \subseteq stored'
        /\ dead'[v] # NoEntry => dead'[v] \in DeadLettered' \cup lost'
  BY <1>1, <1>4 DEF Accounting, Claim, Goto, TypeOK
<1> QED BY <1>1, <1>3, <1>4, <1>5, <1>6 DEF Accounting

\* Deleting the stream turns everything still owed or parked into lost entries.
LEMMA DeleteStep ==
  ASSUME TypeOK, Accounting, DeleteStream
  PROVE  /\ Accounting' /\ Waiting' = {} /\ pel' = {} /\ DeadLettered' = {}
         /\ lost' = lost \cup (Waiting \cup pel) \cup DeadLettered
<1> USE DEF tableVars, workerVars, windowVars
<1>1. /\ Waiting' = {} /\ pel' = {} /\ DeadLettered' = {} /\ stream' = {}
      /\ lost' = lost \cup (Waiting \cup pel) \cup DeadLettered
      /\ cursor' = 0 /\ published' = published /\ published \in Nat
      /\ stored' = stored
  BY DEF DeleteStream, Forget, Waiting, DeadLettered, TypeOK
<1>2. AccountedFor'
  BY <1>1 DEF Accounting, AccountedFor
<1>3. \A v \in Workers :
        /\ pc'[v] = "ack" => batch'[v] \subseteq stored'
        /\ dead'[v] # NoEntry => dead'[v] \in DeadLettered' \cup lost'
  BY <1>1 DEF Accounting, DeleteStream
<1>4. cursor' <= published' /\ stream' \cup pel' \subseteq 1..published'
  BY <1>1
<1> QED BY <1>1, <1>2, <1>3, <1>4 DEF Accounting

\* Every step of the fabric and of a worker keeps the account.
LEMMA AccountingStep ==
  ASSUME TypeOK, Accounting, [Next]_vars
  PROVE  Accounting'
<1> USE DEF redisVars, pelVars, tableVars, windowVars, workerVars, budgetVars
<1>1. CASE Publish
  BY <1>1, PublishStep
<1>2. CASE DeleteStream
  BY <1>2, DeleteStep
<1>3. ASSUME NEW m \in Entries, Age(m) PROVE Accounting'
  BY <1>3 DEF Age, Accounting, AccountedFor, Waiting, DeadLettered
<1>4. ASSUME NEW w \in Workers, Start(w) PROVE Accounting'
  BY <1>4, QuietStep DEF Start, Goto, TypeOK
<1>5. ASSUME NEW w \in Workers, ReadBatch(w) PROVE Accounting'
  BY <1>5, ReadStep
<1>6. ASSUME NEW w \in Workers, ReadNothing(w) PROVE Accounting'
  BY <1>6, QuietStep DEF ReadNothing, Goto, TypeOK
<1>7. ASSUME NEW w \in Workers, DecodeBad(w) PROVE Accounting'
  <2>1. PICK m \in batch[w] : /\ DeadLetter(w, m, "undecodable")
                              /\ batch' = [batch EXCEPT ![w] = @ \ {m}]
    BY <1>7 DEF DecodeBad
  <2> QED BY <1>7, <2>1, ParkStep DEF DecodeBad, TypeOK, Reasons
<1>8. ASSUME NEW w \in Workers, DecodeDone(w) PROVE Accounting'
  BY <1>8, QuietStep DEF DecodeDone, Goto, TypeOK
<1>9. ASSUME NEW w \in Workers, AckDead(w) PROVE Accounting'
  <2>1. {dead[w]} \subseteq stored \cup DeadLettered \cup lost
    BY <1>9 DEF AckDead, Accounting
  <2>2. pc'[w] = "ack" => batch'[w] \subseteq stored'
    BY <1>9 DEF AckDead, Accounting
  <2> QED BY <1>9, <2>1, <2>2, ForgetStep DEF AckDead, TypeOK
<1>10. ASSUME NEW w \in Workers, ListPoison(w) PROVE Accounting'
  BY <1>10, QuietStep DEF ListPoison, Goto, TypeOK
<1>11. ASSUME NEW w \in Workers, ReclaimNoGroup(w) PROVE Accounting'
  BY <1>11, QuietStep DEF ReclaimNoGroup, Goto, TypeOK
<1>12. ASSUME NEW w \in Workers, ReclaimFails(w) PROVE Accounting'
  BY <1>12, QuietStep DEF ReclaimFails, Goto, TypeOK
<1>13. ASSUME NEW w \in Workers, DeadLetterPoison(w) PROVE Accounting'
  <2>1. PICK m \in todo[w] : DeadLetter(w, m, "poison")
    BY <1>13 DEF DeadLetterPoison
  <2> QED BY <1>13, <2>1, ParkStep DEF DeadLetterPoison, TypeOK, Reasons
<1>14. ASSUME NEW w \in Workers, Claim(w) PROVE Accounting'
  BY <1>14, ClaimStep
<1>15. ASSUME NEW w \in Workers, Reject(w) PROVE Accounting'
  <2>1. PICK m \in batch[w] : /\ DeadLetter(w, m, "invalid")
                              /\ batch' = [batch EXCEPT ![w] = @ \ {m}]
    BY <1>15 DEF Reject
  <2> QED BY <1>15, <2>1, ParkStep DEF Reject, TypeOK, Reasons
<1>16. ASSUME NEW w \in Workers, Validated(w) PROVE Accounting'
  BY <1>16, QuietStep DEF Validated, Goto, TypeOK
<1>17. ASSUME NEW w \in Workers, HandleEvent(w) PROVE Accounting'
  BY <1>17, QuietStep DEF HandleEvent, TypeOK, At
<1>18. ASSUME NEW w \in Workers, Die(w) PROVE Accounting'
  BY <1>18, QuietStep DEF Die, Stopped, Goto, TypeOK
<1>19. ASSUME NEW w \in Workers, Persist(w) PROVE Accounting'
  BY <1>19, QuietStep DEF Persist, Goto, TypeOK
<1>20. ASSUME NEW w \in Workers, Ack(w) PROVE Accounting'
  <2>1. batch[w] \subseteq stored
    BY <1>20 DEF Ack, At, Accounting
  <2> QED BY <1>20, <2>1, ForgetStep DEF Ack, Goto, TypeOK
<1>21. ASSUME NEW w \in Workers, Flush(w) PROVE Accounting'
  BY <1>21, QuietStep DEF Flush, FlushOpenWindows, Goto, TypeOK
<1>22. ASSUME NEW w \in Workers, Leave(w) PROVE Accounting'
  BY <1>22, QuietStep DEF Leave, FlushOpenWindows, Stopped, Goto, TypeOK
<1>23. ASSUME NEW w \in Workers, Crash(w) PROVE Accounting'
  BY <1>23, QuietStep DEF Crash, Stopped, Goto, TypeOK
<1>24. CASE UNCHANGED vars
  BY <1>24 DEF vars, Accounting, AccountedFor, Waiting, DeadLettered
<1> QED
  BY <1>1, <1>2, <1>3, <1>4, <1>5, <1>6, <1>7, <1>8, <1>9, <1>10, <1>11,
     <1>12, <1>13, <1>14, <1>15, <1>16, <1>17, <1>18, <1>19, <1>20, <1>21,
     <1>22, <1>23, <1>24 DEF Next, Step

\* Nothing is published at first, so nothing is owed.
LEMMA InitAccounting ==
  ASSUME Init
  PROVE  Accounting
BY DEF Init, Accounting, AccountedFor

\* The accounting of entries is an invariant.
THEOREM AccountingInvariant == Spec => []Accounting
BY InitAccounting, TypeCorrect, AccountingStep, PTL DEF Spec

\* No published event disappears: it is waiting, pending, in the store, in the
\* dead-letter stream, or was removed by retention or an operator.
THEOREM NothingDisappears == Spec => []AccountedFor
<1>1. Accounting => AccountedFor
  BY DEF Accounting
<1> QED BY <1>1, AccountingInvariant, PTL
-----------------------------------------------------------------------------
\* A step that moves no entry is a stutter of the promise.
LEMMA QuietPromise ==
  ASSUME UNCHANGED <<published, stream, cursor, pel, dlq, lost, stored>>
  PROVE  UNCHANGED Promise!vars
BY DEF Promise!vars, Waiting, DeadLettered

\* Dead-lettering an entry is the promise's Park.
LEMMA ParkPromise ==
  ASSUME TypeOK, NEW w \in Workers, NEW m \in Entries, NEW r \in Reasons,
         DeadLetter(w, m, r),
         UNCHANGED <<published, stream, cursor, pel, lost, stored>>
  PROVE  Promise!Park(m)
BY DeadLetterType DEF Promise!Park, Waiting

\* Acknowledging accounted-for entries is the promise's Settle.
LEMMA ForgetPromise ==
  ASSUME TypeOK, NEW S, Forget(S),
         S \subseteq stored \cup DeadLettered \cup lost,
         UNCHANGED <<published, stream, cursor, dlq, lost, stored>>
  PROVE  \E T \in SUBSET Entries : Promise!Settle(T)
<1> DEFINE T == (S \cap pel) \ Waiting
<1>1. Waiting' = Waiting /\ DeadLettered' = DeadLettered
  BY DEF Waiting, DeadLettered
<1>2. (Waiting \cup pel)' = (Waiting \cup pel) \ T
  BY <1>1 DEF Forget
<1>3. Promise!Settle(T)
  BY <1>1, <1>2 DEF Promise!Settle
<1>4. T \in SUBSET Entries
  BY DEF TypeOK
<1> QED BY <1>3, <1>4

\* Publishing is the promise's Announce; what is trimmed while owed is gone.
LEMMA PublishPromise ==
  ASSUME TypeOK, Accounting, Publish
  PROVE  Promise!Announce(published + 1) /\ published + 1 \in Entries
<1> USE BoundsAssumption DEF pelVars, tableVars
<1> DEFINE owed == Waiting \cup pel
<1>1. PICK cut \in 1..published' :
        /\ stream' = {m \in stream \cup {published'} : m >= cut}
        /\ lost' = lost \cup {m \in Waiting \cup pel : m < cut /\ m \in stream}
  BY DEF Publish
<1>2. /\ published' = published + 1 /\ published \in Nat
      /\ cursor' = cursor /\ cursor \in Nat /\ cursor <= published
      /\ pel' = pel /\ stored' = stored /\ published + 1 \in Entries
      /\ stream \in SUBSET Int
  BY DEF Publish, TypeOK, Entries, Accounting
<1>3. DeadLettered' = DeadLettered
  BY DEF Publish, DeadLettered
<1> DEFINE S == {m \in owed : m < cut /\ m \in stream}
           T == {m \in Waiting : m < cut} \ pel
<1>4. S \in SUBSET owed /\ lost' = lost \cup S
  BY <1>1
<1>5. T \in SUBSET S
  BY DEF Waiting
<1>6. owed' = (owed \ T) \cup {published + 1}
  <2>1. cut \in Int /\ cut <= published + 1
    BY <1>1, <1>2
  <2>2. Waiting' = {m \in Waiting : m >= cut} \cup {published + 1}
    BY <1>1, <1>2, <2>1 DEF Waiting
  <2>3. \A m \in Waiting : m >= cut <=> ~(m < cut)
    BY <1>2, <2>1 DEF Waiting
  <2> QED BY <1>2, <2>2, <2>3
<1>7. (1..published)' = 1..published \cup {published + 1}
      /\ published + 1 \notin 1..published
  BY <1>2
<1>8. Promise!Announce(published + 1)
  <2> HIDE DEF S, T, owed
  <2>1. \E R \in SUBSET owed :
          /\ lost' = lost \cup R
          /\ owed' \in {(owed \ Q) \cup {published + 1} : Q \in SUBSET R}
    BY <1>4, <1>5, <1>6
  <2> QED
    BY <1>2, <1>3, <1>7, <2>1 DEF Promise!Announce, owed
<1> QED BY <1>2, <1>8

\* Every step is a step of the promise or leaves it unchanged.
LEMMA PromiseStep ==
  ASSUME TypeOK, Accounting, [Next]_vars
  PROVE  [Promise!Next]_(Promise!vars)
<1> USE DEF redisVars, pelVars, tableVars, windowVars, workerVars, budgetVars
<1>1. CASE Publish
  BY <1>1, PublishPromise DEF Promise!Next
<1>2. CASE DeleteStream
  <2>1. stored' = stored /\ published' = published
    BY <1>2 DEF DeleteStream
  <2>2. Promise!Destroy
    BY <1>2, <2>1, DeleteStep DEF Promise!Destroy
  <2> QED BY <2>2 DEF Promise!Next
<1>3. ASSUME NEW m \in Entries, Age(m) PROVE UNCHANGED Promise!vars
  BY <1>3, QuietPromise DEF Age
<1>4. ASSUME NEW w \in Workers, Start(w) PROVE UNCHANGED Promise!vars
  BY <1>4, QuietPromise DEF Start
<1>5. ASSUME NEW w \in Workers, ReadBatch(w) PROVE UNCHANGED Promise!vars
  <2>1. UNCHANGED <<published, dlq, lost, stored>>
    BY <1>5 DEF ReadBatch
  <2> QED BY <1>5, <2>1, ReadStep DEF Promise!vars, DeadLettered
<1>6. ASSUME NEW w \in Workers, ReadNothing(w) PROVE UNCHANGED Promise!vars
  BY <1>6, QuietPromise DEF ReadNothing
<1>7. ASSUME NEW w \in Workers, DecodeBad(w)
      PROVE  \E m \in Entries : Promise!Park(m)
  BY <1>7, ParkPromise DEF DecodeBad, TypeOK, Reasons
<1>8. ASSUME NEW w \in Workers, DecodeDone(w) PROVE UNCHANGED Promise!vars
  BY <1>8, QuietPromise DEF DecodeDone
<1>9. ASSUME NEW w \in Workers, AckDead(w)
      PROVE  \E S \in SUBSET Entries : Promise!Settle(S)
  BY <1>9, ForgetPromise DEF AckDead, Accounting
<1>10. ASSUME NEW w \in Workers, ListPoison(w) PROVE UNCHANGED Promise!vars
  BY <1>10, QuietPromise DEF ListPoison
<1>11. ASSUME NEW w \in Workers, ReclaimNoGroup(w) PROVE UNCHANGED Promise!vars
  BY <1>11, QuietPromise DEF ReclaimNoGroup
<1>12. ASSUME NEW w \in Workers, ReclaimFails(w) PROVE UNCHANGED Promise!vars
  BY <1>12, QuietPromise DEF ReclaimFails
<1>13. ASSUME NEW w \in Workers, DeadLetterPoison(w)
       PROVE  \E m \in Entries : Promise!Park(m)
  BY <1>13, ParkPromise DEF DeadLetterPoison, TypeOK, Reasons
<1>14. ASSUME NEW w \in Workers, Claim(w)
       PROVE  \E S \in SUBSET Entries : Promise!Settle(S)
  <2>1. PICK S \in SUBSET lost : pel' = pel \ S
    BY <1>14, ClaimStep
  <2>2. UNCHANGED <<published, stream, cursor, dlq, lost, stored>>
    BY <1>14 DEF Claim
  <2>3. Waiting' = Waiting /\ DeadLettered' = DeadLettered
    BY <2>2 DEF Waiting, DeadLettered
  <2> DEFINE T == (S \cap pel) \ Waiting
  <2>4. (Waiting \cup pel)' = (Waiting \cup pel) \ T /\ T \in SUBSET Entries
    BY <2>1, <2>3 DEF TypeOK
  <2>5. Promise!Settle(T)
    BY <2>2, <2>3, <2>4 DEF Promise!Settle
  <2> QED BY <2>4, <2>5
<1>15. ASSUME NEW w \in Workers, Reject(w)
       PROVE  \E m \in Entries : Promise!Park(m)
  BY <1>15, ParkPromise DEF Reject, TypeOK, Reasons
<1>16. ASSUME NEW w \in Workers, Validated(w) PROVE UNCHANGED Promise!vars
  BY <1>16, QuietPromise DEF Validated
<1>17. ASSUME NEW w \in Workers, HandleEvent(w) PROVE UNCHANGED Promise!vars
  BY <1>17, QuietPromise DEF HandleEvent
<1>18. ASSUME NEW w \in Workers, Die(w) PROVE UNCHANGED Promise!vars
  BY <1>18, QuietPromise DEF Die
<1>19. ASSUME NEW w \in Workers, Persist(w)
       PROVE  \E S \in SUBSET Entries : Promise!Record(S)
  <2>1. UNCHANGED <<published, Waiting, pel, DeadLettered, lost>>
    BY <1>19 DEF Persist, Waiting, DeadLettered
  <2>2. batch[w] \in SUBSET Entries /\ stored' = stored \cup batch[w]
    BY <1>19 DEF Persist, TypeOK
  <2>3. Promise!Record(batch[w])
    BY <2>1, <2>2 DEF Promise!Record
  <2> QED BY <2>2, <2>3
<1>20. ASSUME NEW w \in Workers, Ack(w)
       PROVE  \E S \in SUBSET Entries : Promise!Settle(S)
  BY <1>20, ForgetPromise DEF Ack, At, Accounting
<1>21. ASSUME NEW w \in Workers, Flush(w) PROVE UNCHANGED Promise!vars
  BY <1>21, QuietPromise DEF Flush, FlushOpenWindows
<1>22. ASSUME NEW w \in Workers, Leave(w) PROVE UNCHANGED Promise!vars
  BY <1>22, QuietPromise DEF Leave, FlushOpenWindows
<1>23. ASSUME NEW w \in Workers, Crash(w) PROVE UNCHANGED Promise!vars
  BY <1>23, QuietPromise DEF Crash
<1>24. CASE UNCHANGED vars
  BY <1>24, QuietPromise DEF vars
<1> QED
  BY <1>1, <1>2, <1>3, <1>4, <1>5, <1>6, <1>7, <1>8, <1>9, <1>10, <1>11,
     <1>12, <1>13, <1>14, <1>15, <1>16, <1>17, <1>18, <1>19, <1>20, <1>21,
     <1>22, <1>23, <1>24 DEF Next, Step, Promise!Next

\* The stream, its group and the workers implement at-least-once delivery: what
\* is acknowledged is stored, parked or was removed, and is never owed again.
THEOREM PromiseRefinement == Spec => PromiseKept
<1>1. Init => Promise!Init
  BY BoundsAssumption DEF Init, Promise!Init, Waiting, DeadLettered
<1> QED
  BY <1>1, TypeCorrect, AccountingInvariant, PromiseStep, PTL
  DEF Spec, PromiseKept, Promise!Spec
-----------------------------------------------------------------------------
\* The workers whose next XAUTOCLAIM may deliver m whatever its count: they have
\* computed their poison list, and m is not on it.
Raisers(m) == {w \in Workers : pc[w] = "claim" /\ m \notin todo[w] /\ dead[w] # m}

\* XPENDING lists the whole pending list.
PendingListed == Cardinality(pel) <= ClaimCount

\* Why DeliveryBound cannot break: the group delivers an entry for the first time
\* before its cursor passes it (streaming.py:138-152); a worker that lists it above
\* the limit parks it before it claims (streaming.py:187-202), so each worker that
\* may still raise its count has listed it below the limit.
DeliveryAccount ==
  /\ pel \subseteq 1..cursor
  /\ \A m \in Entries \ pel : deliveries[m] = 0
  /\ \A m \in Entries :
       deliveries[m] + Cardinality(Raisers(m)) <= MaxDeliveries + Cardinality(Workers)

\* There are at most as many raisers as workers.
LEMMA RaisersAreWorkers ==
  ASSUME NEW m
  PROVE  /\ IsFiniteSet(Raisers(m)) /\ Cardinality(Raisers(m)) \in Nat
         /\ Cardinality(Workers) \in Nat
         /\ Cardinality(Raisers(m)) <= Cardinality(Workers)
<1>1. Raisers(m) \in SUBSET Workers
  BY DEF Raisers
<1> QED BY <1>1, WorkersAssumption, FS_Subset, FS_CardinalityType

\* The same of the next state.
LEMMA RaisersAreWorkersNext ==
  ASSUME NEW m
  PROVE  /\ IsFiniteSet(Raisers(m)') /\ Cardinality(Raisers(m)') \in Nat
         /\ Cardinality(Workers) \in Nat
         /\ Cardinality(Raisers(m)') <= Cardinality(Workers)
<1>1. Raisers(m)' \in SUBSET Workers
  BY DEF Raisers
<1> QED BY <1>1, WorkersAssumption, FS_Subset, FS_CardinalityType

\* An entry that is delivered no more often than the limit, or no more often than
\* before and with no new raiser, keeps its bound.
LEMMA BoundKept ==
  ASSUME TypeOK, DeliveryAccount, NEW m \in Entries, deliveries'[m] \in Nat,
         \/ deliveries'[m] <= MaxDeliveries
         \/ deliveries'[m] <= deliveries[m] /\ Raisers(m)' \subseteq Raisers(m)
  PROVE  deliveries'[m] + Cardinality(Raisers(m)')
           <= MaxDeliveries + Cardinality(Workers)
<1> USE BoundsAssumption
<1>1. deliveries[m] \in Nat
  BY DEF TypeOK
<1>2. CASE deliveries'[m] <= MaxDeliveries
  BY <1>2, RaisersAreWorkersNext
<1>3. CASE deliveries'[m] <= deliveries[m] /\ Raisers(m)' \subseteq Raisers(m)
  <2>1. Cardinality(Raisers(m)') <= Cardinality(Raisers(m))
    BY <1>3, RaisersAreWorkers, FS_Subset
  <2>2. deliveries[m] + Cardinality(Raisers(m)) <= MaxDeliveries + Cardinality(Workers)
    BY DEF DeliveryAccount
  <2> QED BY <1>1, <1>3, <2>1, <2>2, RaisersAreWorkers, RaisersAreWorkersNext
<1> QED BY <1>2, <1>3

\* A step that delivers nothing, after which its worker is not newly a raiser.
LEMMA QuietDelivery ==
  ASSUME TypeOK, DeliveryAccount, NEW w \in Workers,
         UNCHANGED <<cursor, pel, deliveries>>,
         \A v \in Workers \ {w} : /\ pc'[v] = pc[v] /\ todo'[v] = todo[v]
                                  /\ dead'[v] = dead[v],
         pc'[w] = "claim" =>
           /\ pc[w] = "claim"
           /\ \A m \in Entries : m \in todo[w] \/ dead[w] = m
                                   => m \in todo'[w] \/ dead'[w] = m
  PROVE  DeliveryAccount'
<1>1. ASSUME NEW m \in Entries
      PROVE  deliveries'[m] + Cardinality(Raisers(m)')
               <= MaxDeliveries + Cardinality(Workers)
  <2>1. Raisers(m)' \subseteq Raisers(m)
    <3> SUFFICES ASSUME NEW v \in Workers, pc'[v] = "claim",
                        m \notin todo'[v], dead'[v] # m
                 PROVE  pc[v] = "claim" /\ m \notin todo[v] /\ dead[v] # m
      BY DEF Raisers
    <3>1. CASE v = w
      BY <3>1
    <3>2. CASE v # w
      BY <3>2
    <3> QED BY <3>1, <3>2
  <2>2. deliveries'[m] \in Nat /\ deliveries'[m] <= deliveries[m]
    BY DEF TypeOK
  <2> QED BY <2>1, <2>2, BoundKept
<1> QED BY <1>1 DEF DeliveryAccount

\* Acknowledging resets a count; who can still raise it does not matter.
LEMMA ForgetDelivery ==
  ASSUME TypeOK, DeliveryAccount, NEW S, Forget(S),
         cursor' = cursor \/ S = pel,
         \A m \in Entries \ S : Raisers(m)' \subseteq Raisers(m)
  PROVE  DeliveryAccount'
<1> USE BoundsAssumption
<1>1. /\ pel' = pel \ S
      /\ \A m \in Entries : deliveries'[m] = IF m \in S THEN 0 ELSE deliveries[m]
  BY DEF Forget
<1>2. pel' \subseteq 1..cursor'
  BY <1>1 DEF DeliveryAccount
<1>3. ASSUME NEW m \in Entries
      PROVE  deliveries'[m] + Cardinality(Raisers(m)')
               <= MaxDeliveries + Cardinality(Workers)
  <2>1. deliveries'[m] \in Nat
    BY <1>1 DEF TypeOK
  <2>2. CASE m \in S
    BY <1>1, <2>1, <2>2, BoundKept
  <2>3. CASE m \notin S
    <3>1. deliveries'[m] <= deliveries[m]
      BY <1>1, <2>3 DEF TypeOK
    <3> QED BY <2>1, <2>3, <3>1, BoundKept
  <2> QED BY <2>2, <2>3
<1>4. \A m \in Entries \ pel' : deliveries'[m] = 0
  BY <1>1 DEF DeliveryAccount
<1> QED BY <1>2, <1>3, <1>4 DEF DeliveryAccount

\* A first delivery: the entry was behind the cursor, so it was not pending.
LEMMA ReadDelivery ==
  ASSUME TypeOK, DeliveryAccount, NEW w \in Workers, ReadBatch(w)
  PROVE  DeliveryAccount'
<1> USE BoundsAssumption DEF tableVars, windowVars
<1>1. PICK new \in Oldest(Waiting, BatchSize) :
        /\ Deliver(new)
        /\ \E last \in new : (\A m \in new : m <= last) /\ cursor' = last
  BY DEF ReadBatch
<1>2. PICK last \in new : (\A m \in new : m <= last) /\ cursor' = last
  BY <1>1
<1>3. new \subseteq Waiting
  BY OldestIsPrefix
<1>4. new \subseteq Entries /\ cursor \in Int /\ last \in Int /\ last > cursor
  BY <1>2, <1>3 DEF Waiting, TypeOK, Entries
<1>5. \A m \in new : m \notin pel /\ m \in 1..last
  BY <1>2, <1>3, <1>4 DEF Waiting, DeliveryAccount, Entries
<1>6. pel' = pel \cup new /\ cursor' = last
  BY <1>1, <1>2 DEF Deliver
<1>7. pel' \subseteq 1..cursor'
  BY <1>4, <1>5, <1>6 DEF DeliveryAccount
<1>8. \A m \in Entries : deliveries'[m] = deliveries[m] + IF m \in new THEN 1 ELSE 0
  BY <1>1 DEF Deliver
<1>9. ASSUME NEW m \in Entries
      PROVE  deliveries'[m] + Cardinality(Raisers(m)')
               <= MaxDeliveries + Cardinality(Workers)
  <2>1. deliveries'[m] \in Nat
    BY <1>8 DEF TypeOK
  <2>2. CASE m \in new
    <3>1. deliveries[m] = 0
      BY <1>5, <2>2 DEF DeliveryAccount
    <3>2. deliveries'[m] <= MaxDeliveries
      BY <1>8, <2>2, <3>1
    <3> QED BY <2>1, <3>2, BoundKept
  <2>3. CASE m \notin new
    <3>1. deliveries'[m] <= deliveries[m]
      BY <1>8, <2>3 DEF TypeOK
    <3>2. Raisers(m)' \subseteq Raisers(m)
      BY DEF ReadBatch, Goto, TypeOK, Raisers
    <3> QED BY <2>1, <3>1, <3>2, BoundKept
  <2> QED BY <2>2, <2>3
<1>10. \A m \in Entries \ pel' : deliveries'[m] = 0
  BY <1>6, <1>8 DEF DeliveryAccount, TypeOK
<1> QED BY <1>7, <1>9, <1>10 DEF DeliveryAccount

\* XPENDING: an entry above the limit gets no new raiser, as the list holds it.
LEMMA ListDelivery ==
  ASSUME TypeOK, DeliveryAccount, PendingListed, NEW w \in Workers, ListPoison(w)
  PROVE  DeliveryAccount'
<1> USE BoundsAssumption DEF redisVars, pelVars
<1>1. PICK P \in Oldest(pel, ClaimCount) :
        todo' = [todo EXCEPT ![w] = {m \in P : deliveries[m] > MaxDeliveries}]
  BY DEF ListPoison
<1>2. P = pel
  <2>1. IsFiniteSet(pel)
    <3>1. pel \in SUBSET (1..N)
      BY DEF TypeOK, Entries
    <3>2. IsFiniteSet(1..N)
      BY FS_Interval
    <3> QED BY <3>1, <3>2, FS_Subset
  <2>2. Cardinality(pel) \in Nat
    BY <2>1, FS_CardinalityType
  <2>3. P \in SUBSET pel /\ Cardinality(P) = Cardinality(pel)
    BY <2>2 DEF Oldest, PendingListed
  <2> QED BY <2>1, <2>3, FS_Subset
<1>3. UNCHANGED <<cursor, pel, deliveries, dead>> /\ pc' = [pc EXCEPT ![w] = "claim"]
  BY DEF ListPoison, Goto
<1>4. ASSUME NEW m \in Entries
      PROVE  deliveries'[m] + Cardinality(Raisers(m)')
               <= MaxDeliveries + Cardinality(Workers)
  <2>1. deliveries'[m] = deliveries[m] /\ deliveries[m] \in Nat
    BY <1>3 DEF TypeOK
  <2>2. CASE deliveries[m] > MaxDeliveries
    <3>1. m \in pel
      BY <2>2 DEF DeliveryAccount
    <3>2. m \in todo'[w]
      BY <1>1, <1>2, <2>2, <3>1 DEF TypeOK
    <3>3. \A v \in Workers \ {w} : pc'[v] = pc[v] /\ todo'[v] = todo[v]
      BY <1>1, <1>3 DEF TypeOK
    <3>4. Raisers(m)' \subseteq Raisers(m)
      BY <1>3, <3>2, <3>3 DEF Raisers
    <3> QED BY <2>1, <3>4, BoundKept
  <2>3. CASE deliveries[m] <= MaxDeliveries
    BY <2>1, <2>3, BoundKept
  <2> QED BY <2>1, <2>2, <2>3
<1> QED BY <1>3, <1>4 DEF DeliveryAccount

\* XAUTOCLAIM: the worker raises what it may raise by one, and is no raiser then.
LEMMA ClaimDelivery ==
  ASSUME TypeOK, DeliveryAccount, NEW w \in Workers, Claim(w)
  PROVE  DeliveryAccount'
<1> USE BoundsAssumption DEF tableVars, windowVars
<1>1. PICK C \in Oldest(idle \cup (pel \ stream), ClaimCount) :
        /\ pel' = pel \ (C \ stream)
        /\ deliveries' = [m \in Entries |->
                            IF m \in C \ stream THEN 0
                            ELSE deliveries[m] + IF m \in C \cap stream THEN 1 ELSE 0]
  BY DEF Claim
<1>2. C \subseteq pel
  BY OldestIsPrefix DEF TypeOK
<1>3. UNCHANGED <<cursor, todo, dead>> /\ pc' = [pc EXCEPT ![w] = "decode_claimed"]
      /\ pc[w] = "claim" /\ todo[w] = {} /\ dead[w] = NoEntry
  BY DEF Claim, Goto, At
<1>4. ASSUME NEW m \in Entries
      PROVE  deliveries'[m] + Cardinality(Raisers(m)')
               <= MaxDeliveries + Cardinality(Workers)
  <2>1. w \in Raisers(m) /\ Raisers(m)' = Raisers(m) \ {w}
    BY <1>3 DEF Raisers, TypeOK
  <2>2. Cardinality(Raisers(m)') = Cardinality(Raisers(m)) - 1
    BY <2>1, RaisersAreWorkers, FS_RemoveElement
  <2>3. deliveries'[m] \in Nat /\ deliveries'[m] <= deliveries[m] + 1
        /\ deliveries[m] \in Nat
    BY <1>1 DEF TypeOK
  <2>4. deliveries[m] + Cardinality(Raisers(m)) <= MaxDeliveries + Cardinality(Workers)
    BY DEF DeliveryAccount
  <2> QED BY <2>2, <2>3, <2>4, RaisersAreWorkers
<1>5. \A m \in Entries \ pel' : deliveries'[m] = 0
  BY <1>1, <1>2 DEF DeliveryAccount, TypeOK
<1>6. pel' \subseteq 1..cursor'
  BY <1>1, <1>3 DEF DeliveryAccount
<1> QED BY <1>4, <1>5, <1>6 DEF DeliveryAccount

\* Every step keeps the account of deliveries while XPENDING sees all of the list.
LEMMA DeliveryStep ==
  ASSUME TypeOK, DeliveryAccount, PendingListed, [Next]_vars
  PROVE  DeliveryAccount'
<1> USE DEF redisVars, pelVars, tableVars, windowVars, workerVars, budgetVars
<1>1. CASE Publish
  BY <1>1 DEF Publish, DeliveryAccount, Raisers
<1>2. CASE DeleteStream
  BY <1>2, ForgetDelivery DEF DeleteStream, Raisers
<1>3. ASSUME NEW m \in Entries, Age(m) PROVE DeliveryAccount'
  BY <1>3 DEF Age, DeliveryAccount, Raisers
<1>4. ASSUME NEW w \in Workers, Start(w) PROVE DeliveryAccount'
  BY <1>4, QuietDelivery DEF Start, Goto, TypeOK
<1>5. ASSUME NEW w \in Workers, ReadBatch(w) PROVE DeliveryAccount'
  BY <1>5, ReadDelivery
<1>6. ASSUME NEW w \in Workers, ReadNothing(w) PROVE DeliveryAccount'
  BY <1>6, QuietDelivery DEF ReadNothing, Goto, TypeOK
<1>7. ASSUME NEW w \in Workers, DecodeBad(w) PROVE DeliveryAccount'
  BY <1>7, QuietDelivery DEF DecodeBad, DeadLetter, At, TypeOK
<1>8. ASSUME NEW w \in Workers, DecodeDone(w) PROVE DeliveryAccount'
  BY <1>8, QuietDelivery DEF DecodeDone, Goto, TypeOK
<1>9. ASSUME NEW w \in Workers, AckDead(w) PROVE DeliveryAccount'
  <2>1. \A m \in Entries \ {dead[w]} : Raisers(m)' \subseteq Raisers(m)
    BY <1>9 DEF AckDead, Raisers, TypeOK
  <2> QED BY <1>9, <2>1, ForgetDelivery DEF AckDead
<1>10. ASSUME NEW w \in Workers, ListPoison(w) PROVE DeliveryAccount'
  BY <1>10, ListDelivery
<1>11. ASSUME NEW w \in Workers, ReclaimNoGroup(w) PROVE DeliveryAccount'
  BY <1>11, QuietDelivery DEF ReclaimNoGroup, Goto, TypeOK
<1>12. ASSUME NEW w \in Workers, ReclaimFails(w) PROVE DeliveryAccount'
  BY <1>12, QuietDelivery DEF ReclaimFails, Goto, TypeOK
<1>13. ASSUME NEW w \in Workers, DeadLetterPoison(w) PROVE DeliveryAccount'
  <2>1. PICK m \in todo[w] : /\ dead' = [dead EXCEPT ![w] = m]
                             /\ todo' = [todo EXCEPT ![w] = @ \ {m}]
    BY <1>13 DEF DeadLetterPoison, DeadLetter
  <2>2. dead[w] = NoEntry /\ NoEntry \notin Entries
    BY <1>13, BoundsAssumption DEF DeadLetterPoison, At
  <2>3. UNCHANGED <<cursor, pel, deliveries, pc>>
    BY <1>13 DEF DeadLetterPoison
  <2>4. /\ todo'[w] = todo[w] \ {m} /\ dead'[w] = m
        /\ \A v \in Workers \ {w} : todo'[v] = todo[v] /\ dead'[v] = dead[v]
    BY <2>1 DEF TypeOK
  <2> QED BY <2>2, <2>3, <2>4, QuietDelivery
<1>14. ASSUME NEW w \in Workers, Claim(w) PROVE DeliveryAccount'
  BY <1>14, ClaimDelivery
<1>15. ASSUME NEW w \in Workers, Reject(w) PROVE DeliveryAccount'
  BY <1>15, QuietDelivery DEF Reject, DeadLetter, At, TypeOK
<1>16. ASSUME NEW w \in Workers, Validated(w) PROVE DeliveryAccount'
  BY <1>16, QuietDelivery DEF Validated, Goto, TypeOK
<1>17. ASSUME NEW w \in Workers, HandleEvent(w) PROVE DeliveryAccount'
  BY <1>17, QuietDelivery DEF HandleEvent, TypeOK, At
<1>18. ASSUME NEW w \in Workers, Die(w) PROVE DeliveryAccount'
  BY <1>18, QuietDelivery DEF Die, Stopped, Goto, TypeOK
<1>19. ASSUME NEW w \in Workers, Persist(w) PROVE DeliveryAccount'
  BY <1>19, QuietDelivery DEF Persist, Goto, TypeOK
<1>20. ASSUME NEW w \in Workers, Ack(w) PROVE DeliveryAccount'
  <2>1. \A m \in Entries : Raisers(m)' \subseteq Raisers(m)
    BY <1>20 DEF Ack, Goto, Raisers, TypeOK
  <2> QED BY <1>20, <2>1, ForgetDelivery DEF Ack
<1>21. ASSUME NEW w \in Workers, Flush(w) PROVE DeliveryAccount'
  BY <1>21, QuietDelivery DEF Flush, FlushOpenWindows, Goto, TypeOK
<1>22. ASSUME NEW w \in Workers, Leave(w) PROVE DeliveryAccount'
  BY <1>22, QuietDelivery DEF Leave, FlushOpenWindows, Stopped, Goto, TypeOK
<1>23. ASSUME NEW w \in Workers, Crash(w) PROVE DeliveryAccount'
  BY <1>23, QuietDelivery DEF Crash, Stopped, Goto, TypeOK
<1>24. CASE UNCHANGED vars
  BY <1>24 DEF vars, DeliveryAccount, Raisers
<1> QED
  BY <1>1, <1>2, <1>3, <1>4, <1>5, <1>6, <1>7, <1>8, <1>9, <1>10, <1>11,
     <1>12, <1>13, <1>14, <1>15, <1>16, <1>17, <1>18, <1>19, <1>20, <1>21,
     <1>22, <1>23, <1>24 DEF Next, Step

\* No entry has been delivered at first.
LEMMA InitDelivery ==
  ASSUME Init
  PROVE  DeliveryAccount
<1>1. \A m \in Entries : deliveries[m] = 0 /\ Raisers(m) = {}
  BY DEF Init, Raisers
<1>2. pel = {}
  BY DEF Init
<1>3. Cardinality({}) = 0 /\ Cardinality(Workers) \in Nat
  BY WorkersAssumption, FS_EmptySet, FS_CardinalityType
<1> QED BY <1>1, <1>2, <1>3, BoundsAssumption DEF DeliveryAccount

\* The account of deliveries bounds them.
LEMMA AccountBoundsDeliveries ==
  ASSUME TypeOK, DeliveryAccount
  PROVE  DeliveryBound
<1> SUFFICES ASSUME NEW m \in pel
             PROVE  deliveries[m] <= MaxDeliveries + Cardinality(Workers)
  BY DEF DeliveryBound
<1>1. m \in Entries /\ deliveries[m] \in Nat
  BY DEF TypeOK
<1>2. deliveries[m] + Cardinality(Raisers(m)) <= MaxDeliveries + Cardinality(Workers)
  BY <1>1 DEF DeliveryAccount
<1> QED BY <1>1, <1>2, RaisersAreWorkers, BoundsAssumption

\* While XPENDING's COUNT covers the pending list, no entry is delivered more often
\* than max_deliveries and once for each worker, however the workers interleave,
\* die and steal from each other.
THEOREM DeliveriesAreBounded == Spec /\ []PendingListed => []DeliveryBound
BY InitDelivery, TypeCorrect, DeliveryStep, AccountBoundsDeliveries, PTL DEF Spec

\* A pending list of at most N entries is listed whole by a COUNT of N or more.
LEMMA ListedWhole ==
  ASSUME N <= ClaimCount, TypeOK
  PROVE  PendingListed
<1>1. IsFiniteSet(1..N) /\ Cardinality(1..N) = N
  <2>1. N \in Nat /\ 1 \in Int
    BY BoundsAssumption
  <2>2. 1 <= N => Cardinality(1..N) = N - 1 + 1
    BY <2>1, FS_Interval
  <2> QED BY <2>1, <2>2, FS_Interval, FS_EmptySet
<1>2. pel \in SUBSET (1..N)
  BY DEF TypeOK, Entries
<1>3. Cardinality(pel) <= N /\ Cardinality(pel) \in Nat
  BY <1>1, <1>2, FS_Subset, FS_CardinalityType
<1> QED BY <1>3, BoundsAssumption DEF PendingListed

\* So it is without a condition on the run, if COUNT covers the stream.
THEOREM DeliveriesAreBoundedByCount ==
  ASSUME N <= ClaimCount
  PROVE  Spec => []DeliveryBound
<1>1. TypeOK => PendingListed
  BY ListedWhole
<1> QED BY <1>1, TypeCorrect, DeliveriesAreBounded, PTL
-----------------------------------------------------------------------------
(* EndToEnd: an event in the store has its alert in the table and on the   *)
(* stream.                                                                 *)

\* The alerts of a worker that its outcome has put, or will put, into the table;
\* and those that it has published, or will publish.
Inserted(w) == alerts \cup uninserted[w]
Published(w) == feed \cup unpublished[w]

TypeOKAlerts ==
  /\ known \in [Workers -> SUBSET Alerts]
  /\ uninserted \in [Workers -> SUBSET Alerts]
  /\ unpublished \in [Workers -> SUBSET Alerts]
  /\ alerts \in SUBSET Alerts /\ feed \in SUBSET Alerts

\* Why StoredIsReported cannot break: an alert that a worker would suppress was
\* raised before (pipeline.py:106-124, fusion.py:199-203), and so was the alert of
\* an event that it has taken off its batch; what was raised is reported or is in
\* the outcome that the worker has still to apply.
Reporting ==
  /\ StoredIsReported
  /\ \A w \in Workers :
       /\ known[w] \subseteq Inserted(w) \cap Published(w)
       /\ pc[w] = "handle" =>
            \A m \in Flagged \cap (batch[w] \ todo[w]) :
              AlertOf[m] \in Inserted(w) \cap Published(w)

IInvE2E == TypeOK /\ Accounting /\ TypeOKAlerts /\ Reporting
-----------------------------------------------------------------------------
\* A step of the whole is one of the stream and its workers, but for the steps
\* that only touch alerts and for renumbering.
LEMMA StepOfTheStream ==
  ASSUME NextE2E
  PROVE  Renumber \/ [Next]_vars
BY DEF NextE2E, Next, WorkerStep, ProcessEvent, DieHandling, OtherStep, Step,
       InsertAlerts, PublishAlerts

\* An entry that gives its number back was neither pending nor owed.
LEMMA RenumberStep ==
  ASSUME TypeOK, Accounting, Renumber
  PROVE  TypeOK' /\ Accounting'
<1> USE DEF redisVars, pelVars, tableVars, windowVars, workerVars, budgetVars
<1>1. /\ published \in stored /\ published \in 1..N /\ published \notin pel
      /\ published <= cursor
      /\ (\A w \in Workers : published \notin batch[w])
  BY DEF Renumber, TypeOK, Entries
<1>2. /\ published' = published - 1 /\ cursor' = published - 1
      /\ stream' = stream \ {published} /\ stored' = stored \ {published}
      /\ evaluated' = evaluated \ {published}
      /\ UNCHANGED <<group, pel, deliveries, idle, dlq, lost, pc, batch, todo,
                     dead, open, dirty, warm, crashes, faults, deletes>>
  BY DEF Renumber
<1>3. published - 1 \in 0..N
  BY <1>1, BoundsAssumption
<1>4. TypeOK'
  BY <1>2, <1>3 DEF TypeOK
<1>5. DeadLettered' = DeadLettered
  BY <1>2 DEF DeadLettered
<1>6. 1..(published - 1) = (1..published) \ {published}
  BY <1>1, BoundsAssumption
<1>7. Waiting = {}
  <2> SUFFICES ASSUME NEW k \in stream, k > cursor PROVE FALSE
    BY DEF Waiting
  <2>1. k \in 1..published
    BY DEF Accounting
  <2>2. published \in Int /\ cursor \in Int
    BY <1>1, BoundsAssumption DEF TypeOK
  <2> QED BY <1>1, <2>1, <2>2
<1>8. AccountedFor'
  BY <1>2, <1>5, <1>6, <1>7 DEF Accounting, AccountedFor
<1>9. cursor' <= published' /\ stream' \cup pel' \subseteq 1..published'
  BY <1>1, <1>2, <1>3, <1>6 DEF Accounting
<1>10. pel' \ stream' \subseteq lost'
  BY <1>1, <1>2 DEF Accounting
<1>11. \A w \in Workers :
         /\ pc'[w] = "ack" => batch'[w] \subseteq stored'
         /\ dead'[w] # NoEntry => dead'[w] \in DeadLettered' \cup lost'
  BY <1>1, <1>2, <1>5 DEF Accounting
<1> QED BY <1>4, <1>8, <1>9, <1>10, <1>11 DEF Accounting

\* The stream and its workers keep their account while entries are renumbered and
\* the alerts of a batch are applied before it is stored.
LEMMA StreamStep ==
  ASSUME TypeOK, Accounting, [NextE2E]_allVars
  PROVE  TypeOK' /\ Accounting'
<1>1. CASE Renumber
  BY <1>1, RenumberStep
<1>2. CASE [Next]_vars
  BY <1>2, TypeStep, AccountingStep
<1>3. UNCHANGED allVars => UNCHANGED vars
  BY DEF allVars
<1> QED BY <1>1, <1>2, <1>3, StepOfTheStream
-----------------------------------------------------------------------------
\* A step that does not touch alerts, and of workers only lets them forget what
\* they are at.
LEMMA QuietReport ==
  ASSUME IInvE2E, UNCHANGED alertVars, stored' \subseteq stored,
         \A v \in Workers : pc'[v] = "handle" =>
           \/ pc[v] = "handle" /\ batch'[v] = batch[v] /\ todo'[v] = todo[v]
           \/ batch'[v] = todo'[v]
  PROVE  TypeOKAlerts' /\ Reporting'
<1> USE DEF alertVars, outcomeVars
<1>1. TypeOKAlerts'
  BY DEF IInvE2E, TypeOKAlerts
<1>2. StoredIsReported'
  BY DEF IInvE2E, Reporting, StoredIsReported
<1>3. ASSUME NEW v \in Workers
      PROVE  /\ known'[v] \subseteq (Inserted(v) \cap Published(v))'
             /\ pc'[v] = "handle" =>
                  \A m \in Flagged \cap (batch'[v] \ todo'[v]) :
                    AlertOf[m] \in (Inserted(v) \cap Published(v))'
  <2>1. (Inserted(v) \cap Published(v))' = Inserted(v) \cap Published(v)
    BY DEF Inserted, Published
  <2> QED BY <2>1 DEF IInvE2E, Reporting
<1> QED BY <1>1, <1>2, <1>3 DEF Reporting

\* A step of worker w whose memory and outcome change: the others are as they were
\* before, and nothing that was reported is withdrawn.
LEMMA WorkerReport ==
  ASSUME IInvE2E, NEW w \in Workers,
         stored' = stored, alerts \subseteq alerts', feed \subseteq feed',
         \A v \in Workers \ {w} :
           /\ known'[v] = known[v] /\ uninserted'[v] = uninserted[v]
           /\ unpublished'[v] = unpublished[v]
           /\ pc'[v] = pc[v] /\ batch'[v] = batch[v] /\ todo'[v] = todo[v],
         known'[w] \subseteq (Inserted(w) \cap Published(w))',
         pc'[w] = "handle" =>
           \A m \in Flagged \cap (batch'[w] \ todo'[w]) :
             AlertOf[m] \in (Inserted(w) \cap Published(w))'
  PROVE  Reporting'
<1>1. StoredIsReported'
  BY DEF IInvE2E, Reporting, StoredIsReported
<1>2. ASSUME NEW v \in Workers \ {w}
      PROVE  /\ known'[v] \subseteq (Inserted(v) \cap Published(v))'
             /\ pc'[v] = "handle" =>
                  \A m \in Flagged \cap (batch'[v] \ todo'[v]) :
                    AlertOf[m] \in (Inserted(v) \cap Published(v))'
  <2>1. Inserted(v) \cap Published(v) \subseteq (Inserted(v) \cap Published(v))'
    BY DEF Inserted, Published
  <2> QED BY <2>1 DEF IInvE2E, Reporting
<1> QED BY <1>1, <1>2 DEF Reporting

\* process_event: what is suppressed was reported, what is new is in the outcome.
LEMMA ProcessReport ==
  ASSUME IInvE2E, NEW w \in Workers, ProcessEvent(w)
  PROVE  TypeOKAlerts' /\ Reporting'
<1> USE DEF pelVars, tableVars, windowVars
<1>1. PICK m \in todo[w] : todo' = [todo EXCEPT ![w] = @ \ {m}]
  BY DEF ProcessEvent, HandleEvent
<1>2. /\ UNCHANGED <<stored, pc, batch, alerts, feed>>
      /\ pc[w] = "handle" /\ uninserted[w] = {} /\ unpublished[w] = {}
  BY DEF ProcessEvent, HandleEvent, Applied, At
<1> DEFINE found == {AlertOf[k] : k \in Flagged \cap Taken(w)}
<1>3. Taken(w) = {m}
  BY <1>1 DEF Taken, IInvE2E, TypeOK
<1>4. PICK remembered \in SUBSET known[w] :
        /\ known' = [known EXCEPT ![w] = remembered \cup found]
        /\ uninserted' = [uninserted EXCEPT ![w] = found \ remembered]
        /\ unpublished' = [unpublished EXCEPT ![w] = found \ remembered]
  BY DEF ProcessEvent
<1>5. found \subseteq Alerts
  BY DEF Alerts
<1> HIDE DEF found
<1>6. TypeOKAlerts'
  BY <1>2, <1>4, <1>5 DEF IInvE2E, TypeOKAlerts
<1>7. /\ known'[w] = remembered \cup found
      /\ uninserted'[w] = found \ remembered
      /\ unpublished'[w] = found \ remembered
  BY <1>4 DEF IInvE2E, TypeOKAlerts
<1>8. remembered \subseteq alerts \cap feed
  BY <1>2, <1>4 DEF IInvE2E, Reporting, Inserted, Published
<1>9. remembered \cup found \subseteq (Inserted(w) \cap Published(w))'
  BY <1>2, <1>7, <1>8 DEF Inserted, Published
<1>10. ASSUME NEW k \in Flagged \cap (batch'[w] \ todo'[w])
       PROVE  AlertOf[k] \in (Inserted(w) \cap Published(w))'
  <2>1. CASE k = m
    BY <1>3, <1>9, <2>1 DEF found
  <2>2. CASE k # m
    <3>1. k \in batch[w] \ todo[w]
      BY <1>1, <1>2, <2>2 DEF IInvE2E, TypeOK
    <3>2. AlertOf[k] \in alerts \cap feed
      BY <1>2, <3>1 DEF IInvE2E, Reporting, Inserted, Published
    <3> QED BY <1>2, <3>2 DEF Inserted, Published
  <2> QED BY <2>1, <2>2
<1>11. \A v \in Workers \ {w} :
         /\ known'[v] = known[v] /\ uninserted'[v] = uninserted[v]
         /\ unpublished'[v] = unpublished[v] /\ todo'[v] = todo[v]
  BY <1>1, <1>4 DEF IInvE2E, TypeOK, TypeOKAlerts
<1>12. Reporting'
  BY <1>2, <1>7, <1>9, <1>10, <1>11, WorkerReport
<1> QED BY <1>6, <1>12

\* insert_alerts and publish_many turn what is to be reported into what is.
LEMMA ApplyReport ==
  ASSUME IInvE2E, NEW w \in Workers, InsertAlerts(w) \/ PublishAlerts(w)
  PROVE  TypeOKAlerts' /\ Reporting'
<1> USE DEF vars, redisVars, pelVars, tableVars, windowVars, workerVars
<1>1. TypeOKAlerts'
  BY DEF IInvE2E, TypeOKAlerts, InsertAlerts, PublishAlerts
<1>2. UNCHANGED <<stored, pc, batch, todo, known>>
  BY DEF InsertAlerts, PublishAlerts
<1>3. /\ alerts \subseteq alerts' /\ feed \subseteq feed'
      /\ Inserted(w)' = Inserted(w) /\ Published(w)' = Published(w)
      /\ \A v \in Workers \ {w} : /\ uninserted'[v] = uninserted[v]
                                  /\ unpublished'[v] = unpublished[v]
  BY DEF IInvE2E, TypeOKAlerts, InsertAlerts, PublishAlerts, Inserted, Published
<1>4. /\ known'[w] \subseteq (Inserted(w) \cap Published(w))'
      /\ pc'[w] = "handle" =>
           \A m \in Flagged \cap (batch'[w] \ todo'[w]) :
             AlertOf[m] \in (Inserted(w) \cap Published(w))'
  BY <1>2, <1>3 DEF IInvE2E, Reporting
<1>5. Reporting'
  BY <1>2, <1>3, <1>4, WorkerReport
<1> QED BY <1>1, <1>5

\* A process that ends remembers nothing and is at nothing.
LEMMA ForgetReport ==
  ASSUME IInvE2E, NEW w \in Workers, Stopped(w), Forgotten(w), stored' = stored
  PROVE  TypeOKAlerts' /\ Reporting'
<1>1. TypeOKAlerts'
  BY DEF IInvE2E, TypeOKAlerts, Forgotten
<1>2. /\ known'[w] = {} /\ pc'[w] = "down" /\ UNCHANGED <<alerts, feed>>
      /\ \A v \in Workers \ {w} :
           /\ known'[v] = known[v] /\ uninserted'[v] = uninserted[v]
           /\ unpublished'[v] = unpublished[v]
           /\ pc'[v] = pc[v] /\ batch'[v] = batch[v] /\ todo'[v] = todo[v]
  BY DEF IInvE2E, TypeOK, TypeOKAlerts, Forgotten, Stopped, Goto
<1>3. Reporting'
  BY <1>2, WorkerReport
<1> QED BY <1>1, <1>3

\* insert_events stores a batch of which every alert is reported.
LEMMA PersistReport ==
  ASSUME IInvE2E, NEW w \in Workers, OtherStep(w), Persist(w)
  PROVE  TypeOKAlerts' /\ Reporting'
<1> USE DEF alertVars, outcomeVars, tableVars, windowVars
<1>1. /\ pc[w] = "handle" /\ todo[w] = {} /\ Applied(w)
      /\ UNCHANGED <<known, uninserted, unpublished, alerts, feed, batch, todo>>
      /\ stored' = stored \cup batch[w] /\ pc' = [pc EXCEPT ![w] = "ack"]
  BY DEF OtherStep, Persist, At, Goto
<1>2. \A m \in Flagged \cap batch[w] : AlertOf[m] \in alerts \cap feed
  BY <1>1 DEF IInvE2E, Reporting, Inserted, Published, Applied
<1>3. StoredIsReported'
  BY <1>1, <1>2 DEF IInvE2E, Reporting, StoredIsReported
<1>4. TypeOKAlerts'
  BY <1>1 DEF IInvE2E, TypeOKAlerts
<1>5. \A v \in Workers : pc'[v] = "handle" => pc[v] = "handle"
  BY <1>1 DEF IInvE2E, TypeOK
<1>6. \A v \in Workers : (Inserted(v) \cap Published(v))' = Inserted(v) \cap Published(v)
  BY <1>1 DEF Inserted, Published
<1> QED BY <1>1, <1>3, <1>4, <1>5, <1>6 DEF IInvE2E, Reporting

\* Any other statement of a worker: it is at "handle" afterwards only if it has
\* just begun with its batch or stays there with it.
LEMMA OtherReport ==
  ASSUME IInvE2E, NEW w \in Workers, OtherStep(w)
  PROVE  TypeOKAlerts' /\ Reporting'
<1> USE DEF pelVars, tableVars, windowVars
<1>1. CASE Persist(w)
  BY <1>1, PersistReport
<1>2. UNCHANGED alertVars
  BY DEF OtherStep
<1>3. ASSUME ~Persist(w)
      PROVE  /\ stored' = stored
             /\ \A v \in Workers : pc'[v] = "handle" =>
                  \/ pc[v] = "handle" /\ batch'[v] = batch[v] /\ todo'[v] = todo[v]
                  \/ batch'[v] = todo'[v]
  <2> DEFINE Goal ==
        /\ stored' = stored
        /\ \A v \in Workers : pc'[v] = "handle" =>
             \/ pc[v] = "handle" /\ batch'[v] = batch[v] /\ todo'[v] = todo[v]
             \/ batch'[v] = todo'[v]
  <2> TypeOK
    BY DEF IInvE2E
  <2>1. CASE ReadBatch(w)
    BY <2>1 DEF ReadBatch, Goto, TypeOK
  <2>2. CASE ReadNothing(w)
    BY <2>2 DEF ReadNothing, Goto, TypeOK
  <2>3. CASE DecodeBad(w)
    BY <2>3 DEF DecodeBad, At, TypeOK
  <2>4. CASE DecodeDone(w)
    BY <2>4 DEF DecodeDone, Goto, TypeOK
  <2>5. CASE AckDead(w)
    BY <2>5 DEF AckDead
  <2>6. CASE ListPoison(w)
    BY <2>6 DEF ListPoison, Goto, TypeOK
  <2>7. CASE ReclaimNoGroup(w)
    BY <2>7 DEF ReclaimNoGroup, Goto, TypeOK
  <2>8. CASE DeadLetterPoison(w)
    BY <2>8 DEF DeadLetterPoison, At, TypeOK
  <2>9. CASE Claim(w)
    BY <2>9 DEF Claim, Goto, TypeOK
  <2>10. CASE Reject(w)
    BY <2>10 DEF Reject, At, TypeOK
  <2>11. CASE Validated(w)
    BY <2>11 DEF Validated, Goto, TypeOK
  <2>12. ~HandleEvent(w) /\ ~Die(w)
    BY DEF OtherStep, HandleEvent, Die, At
  <2>13. CASE Ack(w)
    BY <2>13 DEF Ack, Goto, TypeOK
  <2>14. CASE Flush(w)
    BY <2>14 DEF Flush, FlushOpenWindows, Goto, TypeOK
  <2> HIDE DEF Goal
  <2> QED
    BY <1>3, <2>1, <2>2, <2>3, <2>4, <2>5, <2>6, <2>7, <2>8, <2>9, <2>10,
       <2>11, <2>12, <2>13, <2>14 DEF OtherStep, Step
<1> QED BY <1>1, <1>2, <1>3, QuietReport

\* Every step of the whole keeps what StoredIsReported rests on.
LEMMA ReportStep ==
  ASSUME IInvE2E, [NextE2E]_allVars
  PROVE  IInvE2E'
<1> USE DEF redisVars, pelVars, tableVars, windowVars, workerVars
<1> USE DEF alertVars, outcomeVars
<1> SUFFICES TypeOKAlerts' /\ Reporting'
  BY StreamStep DEF IInvE2E
<1>1. CASE Publish /\ UNCHANGED alertVars
  <2>1. UNCHANGED <<stored, pc, batch, todo>>
    BY <1>1 DEF Publish
  <2> QED BY <1>1, <2>1, QuietReport
<1>2. CASE Renumber
  <2>1. stored' \subseteq stored /\ UNCHANGED <<pc, batch, todo>>
    BY <1>2 DEF Renumber
  <2>2. UNCHANGED alertVars
    BY <1>2 DEF Renumber
  <2> QED BY <2>1, <2>2, QuietReport
<1>3. ASSUME NEW m \in Entries, Age(m), UNCHANGED alertVars
      PROVE  TypeOKAlerts' /\ Reporting'
  BY <1>3, QuietReport DEF Age
<1>4. ASSUME NEW w \in Workers, Start(w), UNCHANGED alertVars
      PROVE  TypeOKAlerts' /\ Reporting'
  BY <1>4, QuietReport DEF Start, Goto, IInvE2E, TypeOK
<1>5. ASSUME NEW w \in Workers, WorkerStep(w)
      PROVE  TypeOKAlerts' /\ Reporting'
  BY <1>5, ProcessReport, ApplyReport, ForgetReport, OtherReport
     DEF WorkerStep, DieHandling, Die
<1>6. ASSUME NEW w \in Workers, Crash(w), Forgotten(w)
      PROVE  TypeOKAlerts' /\ Reporting'
  BY <1>6, ForgetReport DEF Crash
<1>7. CASE UNCHANGED allVars
  BY <1>7, QuietReport DEF allVars, vars
<1> QED BY <1>1, <1>2, <1>3, <1>4, <1>5, <1>6, <1>7 DEF NextE2E

\* What the proofs of EndToEnd rest on is an invariant.
THEOREM ReportingInvariant == SpecE2E => []IInvE2E
<1>1. Init => TypeOK /\ Accounting
  BY InitType, InitAccounting
<1>2. InitE2E => TypeOKAlerts /\ Reporting
  BY DEF InitE2E, Init, TypeOKAlerts, Reporting, StoredIsReported, Inserted, Published
<1>3. InitE2E => IInvE2E
  BY <1>1, <1>2 DEF InitE2E, IInvE2E
<1> QED BY <1>3, ReportStep, PTL DEF SpecE2E

\* An event in the store that a detector flagged has its alert in the table and on
\* network.alerts, however many workers raise it, forget it or die over it.
THEOREM StoredEventsAreReported == SpecE2E => []StoredIsReported
<1>1. IInvE2E => StoredIsReported
  BY DEF IInvE2E, Reporting
<1> QED BY <1>1, ReportingInvariant, PTL
-----------------------------------------------------------------------------
\* An entry that gives its number back was not pending: nothing pending is newer.
LEMMA RenumberDelivery ==
  ASSUME TypeOK, Accounting, DeliveryAccount, Renumber
  PROVE  DeliveryAccount'
<1> USE DEF pelVars, workerVars
<1>1. /\ published \in 1..N /\ published \notin pel /\ cursor' = published - 1
      /\ UNCHANGED <<pel, deliveries, pc, todo, dead>>
  BY DEF Renumber, TypeOK, Entries
<1>2. pel \subseteq 1..published
  BY DEF Accounting
<1>3. pel' \subseteq 1..cursor'
  BY <1>1, <1>2, BoundsAssumption
<1> QED BY <1>1, <1>3 DEF DeliveryAccount, Raisers

\* Every step of the whole keeps the account of deliveries.
LEMMA DeliveryStepE2E ==
  ASSUME IInvE2E, DeliveryAccount, PendingListed, [NextE2E]_allVars
  PROVE  DeliveryAccount'
<1>1. CASE Renumber
  BY <1>1, RenumberDelivery DEF IInvE2E
<1>2. CASE [Next]_vars
  BY <1>2, DeliveryStep DEF IInvE2E
<1>3. UNCHANGED allVars => UNCHANGED vars
  BY DEF allVars
<1> QED BY <1>1, <1>2, <1>3, StepOfTheStream

\* The bound on deliveries holds of a stream that never ends, too.
THEOREM DeliveriesAreBoundedE2E == SpecE2E /\ []PendingListed => []DeliveryBound
<1>1. InitE2E => DeliveryAccount
  BY InitDelivery DEF InitE2E
<1>2. IInvE2E /\ DeliveryAccount => DeliveryBound
  BY AccountBoundsDeliveries DEF IInvE2E
<1> QED BY <1>1, <1>2, ReportingInvariant, DeliveryStepE2E, PTL DEF SpecE2E

\* Without a condition on the run, if COUNT covers the entries that still matter.
THEOREM DeliveriesAreBoundedByCountE2E ==
  ASSUME N <= ClaimCount
  PROVE  SpecE2E => []DeliveryBound
<1>1. IInvE2E => PendingListed
  BY ListedWhole DEF IInvE2E
<1> QED BY <1>1, ReportingInvariant, DeliveriesAreBoundedE2E, PTL

\* With alerts applied in between, and however long the stream runs, no published
\* event disappears either.
THEOREM NothingDisappearsE2E == SpecE2E => []AccountedFor
<1>1. IInvE2E => AccountedFor
  BY DEF IInvE2E, Accounting
<1> QED BY <1>1, ReportingInvariant, PTL
=============================================================================
