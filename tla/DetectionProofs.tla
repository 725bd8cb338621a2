--------------------------- MODULE DetectionProofs ---------------------------
(***************************************************************************)
(* Proofs about Engine and Detection: for any traffic, sizes of windows and*)
(* maps, thresholds and models, the vectors say of their entities what the *)
(* events say, and what a quiet stream or a finished capture leaves in a   *)
(* window has been judged and reported.                                    *)
(***************************************************************************)
EXTENDS Detection, DataProofs

Event == {[t EXCEPT !.ts = ts] : t \in Templates, ts \in Times}

\* The entities that an event updates.
KeysOf(e) == {Host(e), Destination(e), Pair(e)}

Entities == UNION {KeysOf(e) : e \in Event}

\* An event has a time.
LEMMA EventTime ==
  ASSUME NEW e \in Event
  PROVE  e.ts \in Times /\ e.ts \in Nat /\ e.ts >= EmitInterval
<1>1. PICK t \in Templates, ts \in Times : e = [t EXCEPT !.ts = ts]
  BY DEF Event
<1>2. e.ts = ts
  BY <1>1, TemplatesAssumption
<1> QED BY <1>2, EngineAssumption

\* An event has three entities, of three kinds.
LEMMA ThreeKeys ==
  ASSUME NEW e
  PROVE  /\ Host(e) # Destination(e) /\ Host(e) # Pair(e) /\ Destination(e) # Pair(e)
         /\ Host(e)[1] = "HOST" /\ Destination(e)[1] = "DESTINATION" /\ Pair(e)[1] = "PAIR"
<1>1. Host(e)[1] = "HOST" /\ Destination(e)[1] = "DESTINATION" /\ Pair(e)[1] = "PAIR"
  BY DEF Host, Destination, Pair
<1>2. "HOST" # "DESTINATION" /\ "HOST" # "PAIR" /\ "DESTINATION" # "PAIR"
  OBVIOUS
<1> QED BY <1>1, <1>2
-----------------------------------------------------------------------------
(* The bounded map.                                                        *)

\* Map t is map keys after k is touched: the keys are apart and within the capacity,
\* k is at the end, and the last two others are before it.
Refreshed(t, keys, k, V) ==
  LET n == Len(t)
      m == Len(keys)
  IN  /\ t \in Seq(V) /\ IsInjective(t) /\ n <= Capacity
      /\ n >= 1 /\ t[n] = k
      /\ Members(t) \subseteq Members(keys) \cup {k}
      /\ (m >= 1 /\ keys[m] # k) => (n >= 2 /\ t[n - 1] = keys[m])
      /\ (m >= 2 /\ keys[m] # k /\ keys[m - 1] # k)
           => (n >= 3 /\ t[n - 2] = keys[m - 1])

\* Touching does that.
LEMMA TouchKeeps ==
  ASSUME NEW V, NEW keys \in Seq(V), NEW k \in V,
         IsInjective(keys), Len(keys) <= Capacity
  PROVE  Refreshed(Touch(keys, k), keys, k, V)
<1> DEFINE T == Members(keys) \ {k}
           s == Only(keys, T)
           all == Append(s, k)
           m == Len(keys)
           l == Len(s)
<1>1. m \in Nat /\ Capacity \in Nat /\ Capacity >= 3 /\ \A i \in 1..m : keys[i] \in V
  BY EngineAssumption
<1> HIDE DEF T
<1>2. s \in Seq(V \cap T)
  BY OnlyMembers
<1>3. PICK p \in [1..l -> 1..m] :
           /\ \A i \in 1..l : s[i] = keys[p[i]]
           /\ \A i, j \in 1..l : i < j => p[i] < p[j]
           /\ \A i \in 1..m : keys[i] \in T => \E j \in 1..l : p[j] = i
  BY OnlyInOrder
<1>4. \A i \in 1..m : keys[i] # k => keys[i] \in T
  BY DEF Members, T
<1> HIDE DEF s
<1>5. s \in Seq(V) /\ l \in Nat /\ \A i \in 1..l : s[i] \in V /\ s[i] # k
  <2>1. s \in Seq(V)
    BY <1>2
  <2>2. ASSUME NEW i \in 1..l PROVE s[i] \in V \cap T
    BY <1>2
  <2>3. \A x \in V \cap T : x # k
    BY DEF T
  <2> QED BY <2>1, <2>2, <2>3
<1>6. \A i, j \in 1..m : keys[i] = keys[j] => i = j
  BY DEF IsInjective
<1>7. \A i, j \in 1..l : s[i] = s[j] => i = j
  <2> SUFFICES ASSUME NEW i \in 1..l, NEW j \in 1..l, s[i] = s[j], i < j PROVE FALSE
    BY <1>5
  <2>1. p[i] \in 1..m /\ p[j] \in 1..m /\ p[i] < p[j] /\ keys[p[i]] = keys[p[j]]
    BY <1>3
  <2> QED BY <1>1, <1>6, <2>1
<1>8. l <= m
  <2>1. \A i, j \in 1..l : p[i] = p[j] => i = j
    <3> SUFFICES ASSUME NEW i \in 1..l, NEW j \in 1..l, p[i] = p[j], i < j PROVE FALSE
      BY <1>5
    <3> QED BY <1>1, <1>3
  <2>2. p \in Injection(1..l, 1..m)
    BY <2>1 DEF Injection, IsInjective
  <2>3. IsFiniteSet(1..m) /\ Cardinality(1..m) = m /\ Cardinality(1..l) = l
    <3>1. m \in Nat /\ l \in Nat
      BY <1>1, <1>5
    <3> HIDE DEF m, l
    <3> QED BY <3>1, FS_Interval
  <2> QED BY <2>2, <2>3, FS_Injection
<1>9. /\ all \in Seq(V) /\ Len(all) = l + 1 /\ all[l + 1] = k
      /\ \A i \in 1..l : all[i] = s[i]
  BY <1>5
<1> DEFINE c == IF l + 1 > Capacity THEN 1 ELSE 0
           t == Touch(keys, k)
<1> HIDE DEF all
<1>10. t = IF l + 1 > Capacity THEN Tail(all) ELSE all
  BY <1>9 DEF Touch, all, s, T
<1>11. /\ t \in Seq(V) /\ Len(t) = l + 1 - c
       /\ \A i \in 1..(l + 1 - c) : t[i] = all[i + c]
  <2>1. CASE l + 1 > Capacity
    <3>1. all # <<>> /\ t = Tail(all) /\ c = 1
      BY <1>5, <1>9, <1>10, <2>1
    <3> HIDE DEF t
    <3>2. t \in Seq(V) /\ Len(t) = Len(all) - 1
      BY <1>9, <3>1
    <3>3. \A i \in 1..(Len(all) - 1) : t[i] = all[i + 1]
      BY <1>9, <3>1
    <3> QED BY <1>5, <1>9, <3>1, <3>2, <3>3
  <2>2. CASE ~(l + 1 > Capacity)
    BY <1>5, <1>9, <1>10, <2>2
  <2> QED BY <2>1, <2>2
<1> HIDE DEF t
<1> DEFINE n == Len(t)
<1>12. c \in 0..1 /\ n \in Nat /\ n >= 1 /\ n <= Capacity /\ (c = 1 => n = Capacity)
  BY <1>1, <1>5, <1>8, <1>11
<1>13. t[n] = k
  BY <1>5, <1>9, <1>11, <1>12
<1>14. \A i, j \in 1..(l + 1) : all[i] = all[j] => i = j
  <2> SUFFICES ASSUME NEW i \in 1..(l + 1), NEW j \in 1..(l + 1), all[i] = all[j]
               PROVE  i = j
    OBVIOUS
  <2>1. CASE i \in 1..l /\ j \in 1..l
    BY <1>7, <1>9, <2>1
  <2>2. CASE i = l + 1 /\ j \in 1..l
    BY <1>5, <1>9, <2>2
  <2>3. CASE i \in 1..l /\ j = l + 1
    BY <1>5, <1>9, <2>3
  <2>4. CASE i = l + 1 /\ j = l + 1
    BY <2>4
  <2> QED BY <1>5, <2>1, <2>2, <2>3, <2>4
<1>15. IsInjective(t)
  <2> SUFFICES ASSUME NEW i \in 1..n, NEW j \in 1..n, t[i] = t[j] PROVE i = j
    BY <1>11 DEF IsInjective
  <2>1. i + c \in 1..(l + 1) /\ j + c \in 1..(l + 1) /\ all[i + c] = all[j + c]
    BY <1>5, <1>11, <1>12
  <2> QED BY <1>12, <1>14, <2>1
<1>16. Members(t) \subseteq Members(keys) \cup {k}
  <2> SUFFICES ASSUME NEW i \in 1..n PROVE t[i] \in Members(keys) \cup {k}
    BY DEF Members
  <2>1. i + c \in 1..(l + 1) /\ t[i] = all[i + c]
    BY <1>5, <1>11, <1>12
  <2>2. CASE i + c = l + 1
    BY <1>9, <2>1, <2>2
  <2>3. CASE i + c # l + 1
    <3>1. i + c \in 1..l /\ t[i] = s[i + c]
      BY <1>5, <1>9, <2>1, <2>3
    <3>2. t[i] = keys[p[i + c]] /\ p[i + c] \in 1..m
      BY <1>3, <3>1
    <3> QED BY <3>2 DEF Members
  <2> QED BY <2>2, <2>3
<1>17. ASSUME m >= 1, keys[m] # k
       PROVE  l >= 1 /\ p[l] = m /\ n >= 2 /\ t[n - 1] = keys[m]
  <2>1. m \in 1..m
    BY <1>1, <1>17
  <2>2. PICK j \in 1..l : p[j] = m
    BY <1>3, <1>4, <1>17, <2>1
  <2>3. j = l
    <3>1. ASSUME j < l PROVE FALSE
      <4>1. l \in 1..l /\ p[l] \in 1..m /\ p[j] < p[l]
        BY <1>3, <1>5, <3>1
      <4> QED BY <1>1, <2>2, <4>1
    <3> QED BY <1>5, <3>1
  <2>4. l >= 1 /\ l \in 1..l /\ p[l] = m /\ s[l] = keys[m]
    BY <1>3, <2>2, <2>3
  <2>5. n >= 2
    BY <1>1, <1>5, <1>11, <1>12, <2>4
  <2>6. n - 1 \in 1..(l + 1 - c) /\ n - 1 + c = l
    BY <1>5, <1>11, <1>12, <2>5
  <2>7. t[n - 1] = all[l]
    BY <1>11, <2>6
  <2> QED BY <1>9, <2>4, <2>5, <2>7
<1>18. ASSUME m >= 2, keys[m] # k, keys[m - 1] # k
       PROVE  n >= 3 /\ t[n - 2] = keys[m - 1]
  <2>1. l >= 1 /\ p[l] = m /\ l \in 1..l
    BY <1>1, <1>5, <1>17, <1>18
  <2>2. m - 1 \in 1..m
    BY <1>1, <1>18
  <2>3. PICK j \in 1..l : p[j] = m - 1
    BY <1>3, <1>4, <1>18, <2>2
  <2>4. j # l
    BY <1>1, <2>1, <2>3
  <2>5. j = l - 1
    <3>1. ASSUME j < l - 1 PROVE FALSE
      <4>1. l - 1 \in 1..l /\ p[l - 1] \in 1..m /\ p[j] < p[l - 1] /\ p[l - 1] < p[l]
        BY <1>3, <1>5, <2>1, <3>1
      <4> QED BY <1>1, <2>1, <2>3, <4>1
    <3> QED BY <1>5, <2>4, <3>1
  <2>6. l >= 2 /\ s[l - 1] = keys[m - 1] /\ l - 1 \in 1..l
    BY <1>3, <1>5, <2>3, <2>5
  <2>7. n >= 3
    BY <1>1, <1>5, <1>11, <1>12, <2>6
  <2>8. n - 2 \in 1..(l + 1 - c) /\ n - 2 + c = l - 1
    BY <1>5, <1>11, <1>12, <2>7
  <2>9. t[n - 2] = all[l - 1]
    BY <1>11, <2>8
  <2> QED BY <1>9, <2>6, <2>7, <2>9
<1>19. (m >= 1 /\ keys[m] # k) => (n >= 2 /\ t[n - 1] = keys[m])
  BY <1>17
<1>20. (m >= 2 /\ keys[m] # k /\ keys[m - 1] # k) => (n >= 3 /\ t[n - 2] = keys[m - 1])
  BY <1>18
<1> HIDE DEF c
<1> QED BY <1>11, <1>12, <1>13, <1>15, <1>16, <1>19, <1>20 DEF Refreshed, t
-----------------------------------------------------------------------------
(* Windows.                                                                *)

Rising(w) == \A i, j \in 1..Len(w) : i < j => w[i] < w[j]

\* Nothing in a window is before an event that is young enough to be there.
Headed(w, h, size, now) ==
  \A i \in Members(w) : \E j \in Members(w) : j <= i /\ h[j].ts > now - size

\* What a window has lost is a window older than something its entity has seen.
Outgrown(w, observed, h, size) ==
  \A i \in observed \ Members(w) : \E j \in observed : h[i].ts + size <= h[j].ts

\* A nonempty set of places has a first one.
LEMMA MinPlace ==
  ASSUME NEW n \in Nat, NEW S \in SUBSET (1..n), S # {}
  PROVE  Min(S) \in S /\ \A i \in S : Min(S) <= i
<1>1. \E i \in S : \A j \in S : i <= j
  BY LeastNat
<1> QED BY <1>1 DEF Min

\* Expiry leaves the order alone, keeps what is young, and begins with it.
LEMMA ExpireKeeps ==
  ASSUME NEW h \in Seq(Event), NEW w \in Seq(1..Len(h)), Rising(w),
         NEW size \in Nat, NEW now \in Nat
  PROVE  LET x == Expire(h, w, size, now)
         IN  /\ x \in Seq(1..Len(h)) /\ Rising(x) /\ Members(x) \subseteq Members(w)
             /\ \A i \in Members(w) : h[i].ts > now - size => i \in Members(x)
             /\ Headed(x, h, size, now)
<1> DEFINE young == {i \in 1..Len(w) : h[w[i]].ts > now - size}
           x == Expire(h, w, size, now)
           n == Len(w)
           d == Min(young)
<1>1. n \in Nat /\ \A i \in 1..n : w[i] \in 1..Len(h)
  OBVIOUS
<1>2. CASE young = {}
  <2>1. x = <<>>
    BY <1>2 DEF Expire
  <2>2. Members(x) = {} /\ Rising(x)
    BY <2>1 DEF Members, Rising
  <2>3. \A i \in Members(w) : ~(h[i].ts > now - size)
    BY <1>2 DEF Members
  <2> HIDE DEF x, young
  <2> QED BY <2>1, <2>2, <2>3 DEF Headed, x
<1>3. CASE young # {}
  <2>1. d \in young /\ \A i \in young : d <= i
    BY <1>1, <1>3, MinPlace
  <2>2. x = SubSeq(w, d, n)
    BY <1>3 DEF Expire
  <2>3. d \in 1..n /\ h[w[d]].ts > now - size
    BY <2>1
  <2> HIDE DEF x, young, d
  <2>4. /\ x \in Seq(1..Len(h)) /\ Len(x) = n - d + 1
        /\ \A i \in 1..(n - d + 1) : x[i] = w[i + d - 1]
    BY <1>1, <2>2, <2>3
  <2>5. Rising(x)
    <3> SUFFICES ASSUME NEW i \in 1..Len(x), NEW j \in 1..Len(x), i < j PROVE x[i] < x[j]
      BY DEF Rising
    <3>1. i + d - 1 \in 1..n /\ j + d - 1 \in 1..n /\ i + d - 1 < j + d - 1
      <4>1. Len(x) = n - d + 1 /\ n \in Nat /\ d \in 1..n
        BY <1>1, <2>3, <2>4
      <4> HIDE DEF n
      <4> QED BY <4>1
    <3>2. w[i + d - 1] < w[j + d - 1]
      BY <3>1 DEF Rising
    <3> QED BY <2>4, <3>2
  <2>6. Members(x) \subseteq Members(w)
    <3> SUFFICES ASSUME NEW i \in 1..Len(x) PROVE x[i] \in Members(w)
      BY DEF Members
    <3>1. i + d - 1 \in 1..n
      <4>1. Len(x) = n - d + 1 /\ n \in Nat /\ d \in 1..n
        BY <1>1, <2>3, <2>4
      <4> HIDE DEF n
      <4> QED BY <4>1
    <3>2. x[i] = w[i + d - 1]
      BY <2>4
    <3> QED BY <3>1, <3>2 DEF Members
  <2>7. ASSUME NEW i \in 1..n, h[w[i]].ts > now - size PROVE w[i] \in Members(x)
    <3>1. d <= i
      BY <2>1, <2>7 DEF young
    <3>2. i - d + 1 \in 1..Len(x) /\ x[i - d + 1] = w[i]
      BY <1>1, <2>3, <2>4, <3>1
    <3> QED BY <3>2 DEF Members
  <2>8. Headed(x, h, size, now)
    <3>1. 1 \in 1..Len(x) /\ x[1] = w[d]
      BY <1>1, <2>3, <2>4
    <3>2. ASSUME NEW i \in 1..Len(x) PROVE x[1] <= x[i]
      <4>1. x[1] \in Int /\ (i # 1 => 1 < i)
        BY <2>4, <3>1
      <4>2. i # 1 => x[1] < x[i] /\ x[i] \in Int
        BY <2>4, <2>5, <3>1, <4>1 DEF Rising
      <4> QED BY <4>1, <4>2
    <3>3. x[1] \in Members(x) /\ h[x[1]].ts > now - size
      BY <2>3, <3>1 DEF Members
    <3> QED BY <3>2, <3>3 DEF Headed, Members
  <2>9. \A i \in Members(w) : h[i].ts > now - size => i \in Members(x)
    BY <2>7 DEF Members
  <2> QED BY <2>4, <2>5, <2>6, <2>8, <2>9 DEF x
<1> QED BY <1>2, <1>3

\* The members of a sequence to which x is appended.
LEMMA AppendMembers ==
  ASSUME NEW V, NEW s \in Seq(V), NEW x \in V
  PROVE  Members(Append(s, x)) = Members(s) \cup {x}
<1> DEFINE t == Append(s, x)
<1>1. /\ Len(t) = Len(s) + 1 /\ t[Len(s) + 1] = x /\ Len(s) \in Nat
      /\ \A i \in 1..Len(s) : t[i] = s[i]
  OBVIOUS
<1> HIDE DEF t
<1>2. Members(t) \subseteq Members(s) \cup {x}
  <2> SUFFICES ASSUME NEW i \in 1..Len(t) PROVE t[i] \in Members(s) \cup {x}
    BY DEF Members
  <2>1. i \in 1..Len(s) \/ i = Len(s) + 1
    BY <1>1
  <2> QED BY <1>1, <2>1 DEF Members
<1>3. Members(s) \cup {x} \subseteq Members(t)
  <2>1. \A i \in 1..Len(s) : i \in 1..Len(t) /\ t[i] = s[i]
    BY <1>1
  <2>2. Len(s) + 1 \in 1..Len(t)
    BY <1>1
  <2> QED BY <1>1, <2>1, <2>2 DEF Members
<1> QED BY <1>2, <1>3 DEF t

\* A window that an event extends, as of the time of the event.
LEMMA WindowExtended ==
  ASSUME NEW g \in Seq(Event), NEW e \in Event, NEW w \in Seq(1..Len(g)), Rising(w),
         NEW observed \in SUBSET (1..Len(g)), Members(w) \subseteq observed,
         NEW size \in Nat \ {0}
  PROVE  LET h == Append(g, e)
             id == Len(h)
             x == Append(Expire(h, w, size, h[id].ts), id)
         IN  /\ x \in Seq(1..Len(h)) /\ Rising(x)
             /\ Members(x) \subseteq observed \cup {id}
             /\ Headed(x, h, size, h[id].ts)
             /\ Outgrown(w, observed, g, size) => Outgrown(x, observed \cup {id}, h, size)
<1> DEFINE h == Append(g, e)
           id == Len(h)
           now == h[id].ts
           y == Expire(h, w, size, now)
           x == Append(y, id)
<1>1. /\ h \in Seq(Event) /\ Len(h) = Len(g) + 1 /\ Len(g) \in Nat
      /\ h[Len(g) + 1] = e /\ \A i \in 1..Len(g) : h[i] = g[i]
  OBVIOUS
<1>2. id \in 1..Len(h) /\ now = e.ts /\ now \in Nat
  BY <1>1, EventTime
<1>3. w \in Seq(1..Len(h))
  <2>1. 1..Len(g) \subseteq 1..Len(h)
    BY <1>1
  <2> HIDE DEF h
  <2> QED BY <2>1
<1>4. /\ y \in Seq(1..Len(h)) /\ Rising(y) /\ Members(y) \subseteq Members(w)
      /\ \A i \in Members(w) : h[i].ts > now - size => i \in Members(y)
      /\ Headed(y, h, size, now)
  <2> HIDE DEF h, now
  <2> QED BY <1>1, <1>2, <1>3, ExpireKeeps
<1>5. \A i \in observed : i \in 1..Len(g) /\ i < id /\ h[i] = g[i] /\ h[i].ts \in Nat
  BY <1>1, EventTime
<1> HIDE DEF h, now, y
<1>6. Members(x) = Members(y) \cup {id}
  BY <1>2, <1>4, AppendMembers
<1>7. x \in Seq(1..Len(h)) /\ Len(x) = Len(y) + 1 /\ x[Len(y) + 1] = id
      /\ Len(y) \in Nat /\ \A i \in 1..Len(y) : x[i] = y[i] /\ y[i] \in Members(y)
  BY <1>2, <1>4 DEF Members
<1> HIDE DEF x
<1>8. Rising(x)
  <2> SUFFICES ASSUME NEW i \in 1..Len(x), NEW j \in 1..Len(x), i < j PROVE x[i] < x[j]
    BY DEF Rising
  <2>1. i \in 1..Len(y)
    BY <1>7
  <2>2. CASE j = Len(y) + 1
    <3>1. x[i] = y[i] /\ y[i] \in observed
      BY <1>4, <1>7, <2>1
    <3> QED BY <1>5, <1>7, <2>2, <3>1
  <2>3. CASE j # Len(y) + 1
    <3>1. j \in 1..Len(y)
      <4>1. Len(x) = Len(y) + 1 /\ Len(y) \in Nat
        BY <1>7
      <4> QED BY <2>3, <4>1
    <3> QED BY <1>4, <1>7, <2>1, <3>1 DEF Rising
  <2> QED BY <2>2, <2>3
<1>9. Headed(x, h, size, now)
  <2>1. id <= id /\ now > now - size
    BY <1>2
  <2> QED BY <1>4, <1>6, <2>1 DEF Headed, now
<1>10. ASSUME Outgrown(w, observed, g, size)
       PROVE  Outgrown(x, observed \cup {id}, h, size)
  <2> SUFFICES ASSUME NEW i \in (observed \cup {id}) \ Members(x)
               PROVE  \E j \in observed \cup {id} : h[i].ts + size <= h[j].ts
    BY DEF Outgrown
  <2>1. i \in observed /\ i \notin Members(y)
    BY <1>6
  <2>2. CASE i \in Members(w)
    <3>1. ~(h[i].ts > now - size)
      BY <1>4, <2>1, <2>2
    <3>2. h[i].ts + size <= h[id].ts
      BY <1>2, <1>5, <2>1, <3>1 DEF now
    <3> QED BY <3>2
  <2>3. CASE i \notin Members(w)
    <3>1. PICK j \in observed : g[i].ts + size <= g[j].ts
      BY <1>10, <2>1, <2>3 DEF Outgrown
    <3> QED BY <1>5, <2>1, <3>1
  <2> QED BY <2>2, <2>3
<1>11. Members(x) \subseteq observed \cup {id}
  BY <1>4, <1>6
<1> QED BY <1>7, <1>8, <1>9, <1>10, <1>11 DEF x, y, now, h
-----------------------------------------------------------------------------
(* Entities.                                                               *)

States(n) ==
  [short : Seq(1..n), long : Seq(1..n), times : Seq(Times),
   lastEmit : Times \cup {0}, lastSeen : Times \cup {0},
   observed : SUBSET (1..n), judged : SUBSET (1..n)]

\* An entity, fresh or not, holds only what it has observed, in order.
Sound(s, h, k) ==
  /\ s \in States(Len(h))
  /\ Members(s.short) \cup Members(s.long) \cup s.judged \subseteq s.observed
  /\ Rising(s.short) /\ Rising(s.long)
  /\ Len(s.times) <= TrackerSize
  /\ \A i \in s.observed : k \in KeysOf(h[i])

\* last_seen is the time of the last event, not of the newest; it is not far behind.
Tracked(s, h, k) ==
  /\ Sound(s, h, k)
  /\ s.lastSeen \in Times
  /\ \E i \in s.observed :
       /\ h[i].ts = s.lastSeen
       /\ \A j \in s.observed : j <= i /\ h[j].ts <= s.lastSeen + MaxLate

\* Only what its own younger events have outgrown is missing from its windows.
Whole(s, h) ==
  /\ Outgrown(s.short, s.observed, h, Short)
  /\ Outgrown(s.long, s.observed, h, Long)

\* Nothing is a whole interval younger than the last vector.
Punctual(s, h) == \A i \in s.observed : h[i].ts < s.lastEmit + EmitInterval

\* What is true of an entity stays true when the history grows.
LEMMA HistoryGrows ==
  ASSUME NEW g \in Seq(Event), NEW e \in Event, NEW s, NEW k, Sound(s, g, k)
  PROVE  LET h == Append(g, e)
         IN  /\ Sound(s, h, k)
             /\ Tracked(s, g, k) => Tracked(s, h, k)
             /\ Whole(s, g) => Whole(s, h)
             /\ Punctual(s, g) => Punctual(s, h)
<1> DEFINE h == Append(g, e)
<1>1. /\ h \in Seq(Event) /\ Len(h) = Len(g) + 1 /\ Len(g) \in Nat
      /\ \A i \in 1..Len(g) : h[i] = g[i]
  OBVIOUS
<1> HIDE DEF h
<1>2. s \in States(Len(g)) /\ s.observed \subseteq 1..Len(g)
  BY DEF Sound, States
<1>3. \A i \in s.observed : h[i] = g[i]
  BY <1>1, <1>2
<1>4. s \in States(Len(h))
  <2>1. 1..Len(g) \subseteq 1..Len(h)
    BY <1>1
  <2> DEFINE A == 1..Len(g)
             B == 1..Len(h)
  <2>2. s.short \in Seq(A) /\ s.long \in Seq(A) /\ A \subseteq B
    BY <1>2, <2>1 DEF States
  <2> HIDE DEF A, B
  <2>3. s.short \in Seq(B) /\ s.long \in Seq(B)
    BY <2>2
  <2> QED BY <1>2, <2>1, <2>3 DEF States, B
<1>5. Sound(s, h, k)
  BY <1>3, <1>4 DEF Sound
<1>6. Tracked(s, g, k) => Tracked(s, h, k)
  BY <1>3, <1>5 DEF Tracked
<1>7. Whole(s, g) => Whole(s, h)
  BY <1>3 DEF Whole, Outgrown
<1>8. Punctual(s, g) => Punctual(s, h)
  BY <1>3 DEF Punctual
<1> QED BY <1>5, <1>6, <1>7, <1>8 DEF h

\* A fresh entity.
LEMMA FreshSound ==
  ASSUME NEW h \in Seq(Event), NEW k
  PROVE  Sound(Fresh, h, k) /\ Whole(Fresh, h) /\ Punctual(Fresh, h)
<1>1. Members(<<>>) = {} /\ Rising(<<>>) /\ Len(<<>>) = 0
  BY DEF Members, Rising
<1>2. Fresh \in States(Len(h))
  BY DEF Fresh, States
<1>3. Sound(Fresh, h, k)
  BY <1>1, <1>2, EngineAssumption DEF Sound, Fresh
<1>4. Whole(Fresh, h) /\ Punctual(Fresh, h)
  BY DEF Whole, Outgrown, Punctual, Fresh
<1> QED BY <1>3, <1>4

\* The interval tracker stays within its size.
LEMMA ArrivedKeeps ==
  ASSUME NEW times \in Seq(Times), Len(times) <= TrackerSize, NEW ts \in Times
  PROVE  Arrived(times, ts) \in Seq(Times) /\ Len(Arrived(times, ts)) <= TrackerSize
<1> DEFINE all == Append(times, ts)
<1>1. all \in Seq(Times) /\ Len(all) = Len(times) + 1 /\ all # <<>> /\ Len(times) \in Nat
  OBVIOUS
<1>2. TrackerSize \in Nat
  BY EngineAssumption
<1>3. Tail(all) \in Seq(Times) /\ Len(Tail(all)) = Len(times)
  <2> HIDE DEF all
  <2>1. Tail(all) \in Seq(Times) /\ Len(Tail(all)) = Len(all) - 1
    BY <1>1
  <2> QED BY <1>1, <2>1
<1>4. Arrived(times, ts) \in {times, all, Tail(all)}
  BY DEF Arrived
<1>5. Arrived(times, ts) = all => Len(all) <= TrackerSize
  <2>1. CASE times # <<>> /\ ts <= times[Len(times)]
    <3>1. Arrived(times, ts) = times
      BY <2>1 DEF Arrived
    <3> HIDE DEF all
    <3> QED BY <3>1
  <2>2. CASE ~(times # <<>> /\ ts <= times[Len(times)])
    <3>1. Arrived(times, ts) = IF Len(all) > TrackerSize THEN Tail(all) ELSE all
      BY <2>2 DEF Arrived
    <3> HIDE DEF all
    <3>2. CASE Len(all) > TrackerSize
      <4>1. Arrived(times, ts) # all
        <5>1. Arrived(times, ts) = Tail(all)
          BY <3>1, <3>2
        <5>2. Len(Tail(all)) # Len(all)
          BY <1>1, <1>3
        <5> QED BY <5>1, <5>2
      <4> QED BY <4>1
    <3>3. CASE ~(Len(all) > TrackerSize)
      BY <1>1, <1>2, <3>3
    <3> QED BY <3>2, <3>3
  <2> QED BY <2>1, <2>2
<1> HIDE DEF all
<1> QED BY <1>1, <1>3, <1>4, <1>5

\* An event of an entity: its windows are as of the event, and if a vector is due,
\* the event is the newest one of the entity.
LEMMA ObservedKeeps ==
  ASSUME NEW g \in Seq(Event), NEW e \in Event, NEW s, NEW k \in KeysOf(e),
         Sound(s, g, k), \A i \in 1..Len(g) : g[i].ts <= e.ts + MaxLate
  PROVE  LET h == Append(g, e)
             o == Observed(s, h)
         IN  /\ Tracked(o, h, k)
             /\ o.lastEmit = s.lastEmit /\ Len(h) \in o.observed
             /\ Headed(o.short, h, Short, e.ts) /\ Headed(o.long, h, Long, e.ts)
             /\ Whole(s, g) => Whole(o, h)
             /\ (Punctual(s, g) /\ ~Due(o, e.ts)) => Punctual(o, h)
             /\ (Punctual(s, g) /\ Due(o, e.ts)) => \A j \in o.observed : h[j].ts <= e.ts
<1> DEFINE h == Append(g, e)
           id == Len(h)
           ts == h[id].ts
           a == Append(Expire(h, s.short, Short, ts), id)
           b == Append(Expire(h, s.long, Long, ts), id)
           c == Arrived(s.times, ts)
           o == Observed(s, h)
<1>1. /\ h \in Seq(Event) /\ Len(h) = Len(g) + 1 /\ Len(g) \in Nat
      /\ h[Len(g) + 1] = e /\ \A i \in 1..Len(g) : h[i] = g[i]
  OBVIOUS
<1>2. id \in 1..Len(h) /\ ts = e.ts /\ h[id] = e /\ e.ts \in Times /\ e.ts \in Nat
  BY <1>1, EventTime
<1>3. /\ Short \in Nat \ {0} /\ Long \in Nat \ {0}
      /\ EmitInterval \in Nat /\ MaxLate \in Nat /\ Times \subseteq Nat
  BY EngineAssumption
<1>4. /\ s \in States(Len(g)) /\ s.short \in Seq(1..Len(g)) /\ s.long \in Seq(1..Len(g))
      /\ s.times \in Seq(Times) /\ s.observed \in SUBSET (1..Len(g))
      /\ s.judged \in SUBSET (1..Len(g)) /\ s.lastEmit \in Times \cup {0}
      /\ Members(s.short) \subseteq s.observed /\ Members(s.long) \subseteq s.observed
      /\ s.judged \subseteq s.observed
      /\ Rising(s.short) /\ Rising(s.long) /\ Len(s.times) <= TrackerSize
      /\ \A i \in s.observed : k \in KeysOf(g[i])
  BY DEF Sound, States
<1>5. /\ a \in Seq(1..Len(h)) /\ Rising(a) /\ Members(a) \subseteq s.observed \cup {id}
      /\ Headed(a, h, Short, ts)
      /\ Outgrown(s.short, s.observed, g, Short)
           => Outgrown(a, s.observed \cup {id}, h, Short)
  BY <1>3, <1>4, WindowExtended
<1>6. /\ b \in Seq(1..Len(h)) /\ Rising(b) /\ Members(b) \subseteq s.observed \cup {id}
      /\ Headed(b, h, Long, ts)
      /\ Outgrown(s.long, s.observed, g, Long)
           => Outgrown(b, s.observed \cup {id}, h, Long)
  BY <1>3, <1>4, WindowExtended
<1>7. c \in Seq(Times) /\ Len(c) <= TrackerSize
  <2>1. ts \in Times
    BY <1>2
  <2> HIDE DEF ts
  <2> QED BY <1>4, <2>1, ArrivedKeeps
<1>8. o = [s EXCEPT !.short = a, !.long = b, !.times = c, !.lastSeen = ts,
                    !.observed = @ \cup {id}]
  BY DEF Observed
<1> HIDE DEF h, a, b, c, o
<1>9. /\ o.short = a /\ o.long = b /\ o.times = c /\ o.lastSeen = e.ts
      /\ o.observed = s.observed \cup {id} /\ o.lastEmit = s.lastEmit /\ o.judged = s.judged
  BY <1>2, <1>4, <1>8 DEF States
<1>10. o \in States(Len(h))
  <2>1. s.observed \cup {id} \in SUBSET (1..Len(h)) /\ s.judged \in SUBSET (1..Len(h))
    BY <1>1, <1>2, <1>4
  <2>2. ts \in Times \cup {0}
    BY <1>2
  <2> HIDE DEF ts, id
  <2> QED BY <1>4, <1>5, <1>6, <1>7, <1>8, <2>1, <2>2 DEF States
<1>11. \A i \in s.observed : h[i] = g[i] /\ i <= id /\ i \in 1..Len(g)
  BY <1>1, <1>4
<1>12. Sound(o, h, k)
  <2>1. \A i \in o.observed : k \in KeysOf(h[i])
    BY <1>2, <1>4, <1>9, <1>11
  <2> QED BY <1>4, <1>5, <1>6, <1>7, <1>9, <1>10, <2>1 DEF Sound
<1>13. Tracked(o, h, k)
  <2>1. \A j \in o.observed : j <= id /\ h[j].ts <= e.ts + MaxLate
    BY <1>1, <1>2, <1>3, <1>9, <1>11
  <2> QED BY <1>2, <1>9, <1>12, <2>1 DEF Tracked
<1>14. Whole(s, g) => Whole(o, h)
  BY <1>5, <1>6, <1>9 DEF Whole
<1>15. \A j \in s.observed : h[j].ts \in Nat
  BY <1>1, <1>11, EventTime
<1>16. s.lastEmit \in Nat
  <2>1. s.lastEmit \in Times \cup {0} /\ Times \subseteq Nat
    BY <1>3, <1>4
  <2>2. 0 \in Nat
    OBVIOUS
  <2> QED BY <2>1, <2>2, Zenon
<1>17. (Punctual(s, g) /\ ~Due(o, e.ts)) => Punctual(o, h)
  BY <1>2, <1>3, <1>9, <1>11, <1>15, <1>16 DEF Punctual, Due
<1>18. (Punctual(s, g) /\ Due(o, e.ts)) => \A j \in o.observed : h[j].ts <= e.ts
  BY <1>2, <1>3, <1>9, <1>11, <1>15, <1>16 DEF Punctual, Due
<1>19. Headed(o.short, h, Short, e.ts) /\ Headed(o.long, h, Long, e.ts)
  BY <1>2, <1>5, <1>6, <1>9
<1>20. id \in o.observed
  BY <1>9
<1> QED BY <1>9, <1>13, <1>14, <1>17, <1>18, <1>19, <1>20 DEF o, h

\* A vector leaves an entity as it is but for what is judged and when.
LEMMA EmittedKeeps ==
  ASSUME NEW h \in Seq(Event), NEW s, NEW k, Tracked(s, h, k), NEW ts \in Times \cup {0}
  PROVE  /\ Tracked(Emitted(s, ts), h, k)
         /\ Emitted(s, ts).observed = s.observed /\ Emitted(s, ts).lastSeen = s.lastSeen
         /\ Emitted(s, ts).short = s.short /\ Emitted(s, ts).long = s.long
         /\ Members(s.long) \subseteq Emitted(s, ts).judged
         /\ Whole(s, h) => Whole(Emitted(s, ts), h)
         /\ (\A i \in s.observed : h[i].ts < ts + EmitInterval) => Punctual(Emitted(s, ts), h)
<1> DEFINE m == Emitted(s, ts)
<1>1. s \in States(Len(h))
  BY DEF Tracked, Sound
<1>2. /\ m.short = s.short /\ m.long = s.long /\ m.times = s.times /\ m.lastEmit = ts
      /\ m.lastSeen = s.lastSeen /\ m.observed = s.observed
      /\ m.judged = s.judged \cup Members(s.long)
  BY <1>1 DEF Emitted, States
<1>3. s.judged \cup Members(s.long) \in SUBSET (1..Len(h))
  BY <1>1 DEF Tracked, Sound, States
<1>4. m \in States(Len(h))
  BY <1>1, <1>3 DEF Emitted, States
<1> HIDE DEF m
<1>5. Tracked(m, h, k)
  BY <1>2, <1>4 DEF Tracked, Sound
<1>6. Whole(s, h) => Whole(m, h)
  BY <1>2 DEF Whole
<1>7. (\A i \in s.observed : h[i].ts < ts + EmitInterval) => Punctual(m, h)
  BY <1>2 DEF Punctual
<1> QED BY <1>2, <1>5, <1>6, <1>7 DEF m
-----------------------------------------------------------------------------
(* The engine.                                                             *)

EngineInv ==
  /\ events \in Seq(Event) /\ Len(events) <= MaxEvents
  /\ pending \in BOOLEAN /\ source \in {"stream", "capture", "over"}
  /\ order \in Seq(Entities) /\ Len(order) <= Capacity /\ IsInjective(order)
  /\ DOMAIN st = Members(order)
  /\ \A k \in DOMAIN st :
       /\ Tracked(st[k], events, k)
       /\ source # "over" => Whole(st[k], events)
       /\ MaxLate < EmitInterval => Punctual(st[k], events)
       /\ ~pending => Members(st[k].long) \subseteq st[k].judged

\* A window of an entity with these events says what they say as of that time.
Framed(w, observed, h, size, now) ==
  /\ w \in Seq(1..Len(h)) /\ Rising(w) /\ Members(w) \subseteq observed
  /\ Headed(w, h, size, now)
  /\ \A i \in observed \ Members(w) :
       h[i].ts + size <= now \/ \E j \in observed : h[i].ts + size <= h[j].ts

\* Where the vector of an entity stands in time: nothing it has seen is newer, if
\* its events came in order or, for a tick, were not late by a whole interval.
Dated(v, observed, h) ==
  /\ v.ts \in Nat
  /\ (\/ \A i, j \in observed : j < i => h[j].ts <= h[i].ts
      \/ v.trigger # NoEvent /\ MaxLate < EmitInterval)
     => \A i \in observed : h[i].ts <= v.ts

VectorInv ==
  \A v \in out : ~v.perEvent =>
    /\ v.key \in DOMAIN st
    /\ Framed(v.short, st[v.key].observed, events, Short, v.ts)
    /\ Framed(v.long, st[v.key].observed, events, Long, v.ts)
    /\ Dated(v, st[v.key].observed, events)

\* The newest time is that of an event, if there is one.
LEMMA NewestTime ==
  ASSUME events \in Seq(Event)
  PROVE  /\ Newest \in Times \cup {0} /\ Newest \in Nat
         /\ \A i \in 1..Len(events) : events[i].ts <= Newest
         /\ Len(events) # 0 => Newest \in Times
<1> DEFINE N(n) == {events[i].ts : i \in 1..n} \cup {0}
           Top(n) == \E x \in N(n) : \A y \in N(n) : x >= y
           Bad == {n \in 0..Len(events) : ~Top(n)}
<1>1. Len(events) \in Nat /\ \A i \in 1..Len(events) : events[i].ts \in Times /\ events[i].ts \in Nat
  BY EventTime
<1>2. Top(0)
  <2>1. N(0) = {0}
    BY <1>1
  <2> QED BY <2>1
<1>3. ASSUME NEW n \in 1..Len(events), Top(n - 1) PROVE Top(n)
  <2>1. n \in 1..n /\ n \in Nat /\ N(n) = N(n - 1) \cup {events[n].ts}
    BY <1>1
  <2>2. \A y \in N(n) : y \in Nat
    BY <1>1
  <2>3. PICK x \in N(n - 1) : \A y \in N(n - 1) : x >= y
    BY <1>3
  <2> HIDE DEF N
  <2>4. x \in N(n) /\ events[n].ts \in N(n)
    BY <2>1
  <2>5. CASE x >= events[n].ts
    BY <2>1, <2>3, <2>4, <2>5
  <2>6. CASE ~(x >= events[n].ts)
    <3>1. \A y \in N(n) : events[n].ts >= y
      BY <2>1, <2>2, <2>3, <2>4, <2>6
    <3> QED BY <2>4, <3>1
  <2> QED BY <2>5, <2>6
<1>4. Top(Len(events))
  <2> HIDE DEF Top
  <2>1. ASSUME Bad # {} PROVE FALSE
    <3>1. Bad \in SUBSET Nat
      BY <1>1
    <3>2. PICK n \in Bad : \A m \in Bad : n <= m
      BY <2>1, <3>1, LeastNat
    <3>3. n \in 1..Len(events) /\ n - 1 \in 0..Len(events) /\ n - 1 \notin Bad
      <4>1. n # 0
        BY <1>2
      <4> QED BY <1>1, <3>2, <4>1
    <3> QED BY <1>3, <3>3
  <2> QED BY <1>1, <2>1
<1>5. Newest \in N(Len(events)) /\ \A y \in N(Len(events)) : Newest >= y
  <2> DEFINE S == N(Len(events))
  <2>1. Newest = Max(S)
    BY DEF Newest
  <2>2. \E x \in S : \A y \in S : x >= y
    BY <1>4
  <2> HIDE DEF S
  <2>3. Newest \in S /\ \A y \in S : Newest >= y
    BY <2>1, <2>2 DEF Max
  <2> QED BY <2>3 DEF S
<1>6. \A i \in 1..Len(events) : events[i].ts <= Newest
  <2> SUFFICES ASSUME NEW i \in 1..Len(events) PROVE events[i].ts <= Newest
    OBVIOUS
  <2>1. Newest \in Nat
    BY <1>1, <1>5
  <2> QED BY <1>1, <1>5, <2>1
<1>7. ASSUME Len(events) # 0 PROVE Newest \in Times
  <2>1. 1 \in 1..Len(events)
    BY <1>1, <1>7
  <2>2. events[1].ts <= Newest /\ events[1].ts >= EmitInterval /\ events[1] \in Event
    BY <1>6, <2>1, EventTime
  <2>3. Newest # 0
    BY <1>1, <2>1, <2>2, EngineAssumption
  <2> QED BY <1>1, <1>5, <2>3
<1> QED BY <1>1, <1>5, <1>6, <1>7

\* The event that Process makes of a template.
LEMMA TemplateEvent ==
  ASSUME NEW template \in Templates, NEW ts \in Times
  PROVE  LET e == [template EXCEPT !.ts = ts]
         IN  e \in Event /\ e.ts = ts /\ KeysOf(e) \subseteq Entities
<1> DEFINE e == [template EXCEPT !.ts = ts]
<1>1. e \in Event
  BY DEF Event
<1>2. e.ts = ts
  BY TemplatesAssumption
<1>3. KeysOf(e) \subseteq Entities
  BY <1>1 DEF Entities
<1> QED BY <1>1, <1>2, <1>3

\* All three entities of an event are tracked after it.
LEMMA ThreeTouched ==
  ASSUME NEW e, KeysOf(e) \subseteq Entities,
         order \in Seq(Entities), Len(order) <= Capacity, IsInjective(order)
  PROVE  LET t == Touch(Touch(Touch(order, Host(e)), Destination(e)), Pair(e))
         IN  /\ t \in Seq(Entities) /\ Len(t) <= Capacity /\ IsInjective(t)
             /\ KeysOf(e) \subseteq Members(t)
             /\ Members(t) \subseteq Members(order) \cup KeysOf(e)
<1> DEFINE a == Touch(order, Host(e))
           b == Touch(a, Destination(e))
           t == Touch(b, Pair(e))
<1>1. Host(e) \in Entities /\ Destination(e) \in Entities /\ Pair(e) \in Entities
  BY DEF KeysOf
<1>2. Refreshed(a, order, Host(e), Entities)
  BY <1>1, TouchKeeps
<1> HIDE DEF a
<1>3. Refreshed(b, a, Destination(e), Entities)
  <2>1. a \in Seq(Entities) /\ IsInjective(a) /\ Len(a) <= Capacity
    BY <1>2 DEF Refreshed
  <2> QED BY <1>1, <2>1, TouchKeeps
<1>4. Len(b) >= 2 /\ b[Len(b) - 1] = Host(e) /\ b[Len(b)] = Destination(e)
  BY <1>2, <1>3, ThreeKeys DEF Refreshed
<1> HIDE DEF b
<1>5. Refreshed(t, b, Pair(e), Entities)
  <2>1. b \in Seq(Entities) /\ IsInjective(b) /\ Len(b) <= Capacity
    BY <1>3 DEF Refreshed
  <2> QED BY <1>1, <2>1, TouchKeeps
<1>6. Len(b) \in Nat /\ Len(b) >= 1
  BY <1>3, <1>4 DEF Refreshed
<1>7. /\ Len(t) >= 3 /\ t[Len(t)] = Pair(e) /\ t[Len(t) - 1] = Destination(e)
      /\ t[Len(t) - 2] = Host(e)
  BY <1>3, <1>4, <1>5, <1>6, ThreeKeys DEF Refreshed
<1> HIDE DEF t
<1>8. Len(t) \in 1..Len(t) /\ Len(t) - 1 \in 1..Len(t) /\ Len(t) - 2 \in 1..Len(t)
  <2>1. Len(t) \in Nat
    BY <1>5 DEF Refreshed
  <2> QED BY <1>7, <2>1
<1>9. KeysOf(e) \subseteq Members(t)
  BY <1>7, <1>8 DEF KeysOf, Members
<1>10. Members(t) \subseteq Members(order) \cup KeysOf(e)
  BY <1>2, <1>3, <1>5 DEF KeysOf, Refreshed
<1> QED BY <1>5, <1>9, <1>10 DEF Refreshed, t, b, a

\* Process, of an entity that the event updates.
LEMMA EntityProcessed ==
  ASSUME EngineInv, source # "over", NEW e \in Event, NEW k \in KeysOf(e),
         \A i \in 1..Len(events) : events[i].ts <= e.ts + MaxLate
  PROVE  LET h == Append(events, e)
             o == Observed(IF k \in DOMAIN st THEN st[k] ELSE Fresh, h)
         IN  /\ Tracked(o, h, k) /\ Whole(o, h)
             /\ Framed(o.short, o.observed, h, Short, e.ts)
             /\ Framed(o.long, o.observed, h, Long, e.ts)
             /\ Len(h) \in o.observed /\ \A i \in o.observed : i <= Len(h)
             /\ (MaxLate < EmitInterval /\ ~Due(o, e.ts)) => Punctual(o, h)
             /\ (MaxLate < EmitInterval /\ Due(o, e.ts)) => \A j \in o.observed : h[j].ts <= e.ts
<1> DEFINE h == Append(events, e)
           s == IF k \in DOMAIN st THEN st[k] ELSE Fresh
           o == Observed(s, h)
<1>1. events \in Seq(Event)
  BY DEF EngineInv
<1>2. /\ Sound(s, events, k) /\ Whole(s, events)
      /\ MaxLate < EmitInterval => Punctual(s, events)
  <2>1. CASE k \in DOMAIN st
    BY <2>1 DEF EngineInv, Tracked
  <2>2. CASE k \notin DOMAIN st
    BY <1>1, <2>2, FreshSound
  <2> QED BY <2>1, <2>2
<1> HIDE DEF s
<1>3. /\ Tracked(o, h, k)
      /\ Len(h) \in o.observed
      /\ Headed(o.short, h, Short, e.ts) /\ Headed(o.long, h, Long, e.ts)
      /\ Whole(s, events) => Whole(o, h)
      /\ (Punctual(s, events) /\ ~Due(o, e.ts)) => Punctual(o, h)
      /\ (Punctual(s, events) /\ Due(o, e.ts)) => \A j \in o.observed : h[j].ts <= e.ts
  BY <1>1, <1>2, ObservedKeeps
<1> HIDE DEF o, h
<1>4. /\ o.short \in Seq(1..Len(h)) /\ o.long \in Seq(1..Len(h))
      /\ Rising(o.short) /\ Rising(o.long)
      /\ Members(o.short) \subseteq o.observed /\ Members(o.long) \subseteq o.observed
      /\ o.observed \subseteq 1..Len(h)
  BY <1>3 DEF Tracked, Sound, States
<1>5. Whole(o, h)
  BY <1>2, <1>3
<1>6. Framed(o.short, o.observed, h, Short, e.ts) /\ Framed(o.long, o.observed, h, Long, e.ts)
  BY <1>3, <1>4, <1>5 DEF Framed, Whole, Outgrown
<1>7. \A i \in o.observed : i <= Len(h)
  BY <1>4
<1> QED BY <1>2, <1>3, <1>5, <1>6, <1>7 DEF o, s, h

\* Process.
LEMMA ProcessKeeps ==
  ASSUME EngineInv, NEW template \in Templates, NEW ts \in Times, Process(template, ts)
  PROVE  EngineInv' /\ VectorInv'
<1> DEFINE e == [template EXCEPT !.ts = ts]
           h == Append(events, e)
           keys == KeysOf(e)
           touched == Touch(Touch(Touch(order, Host(e)), Destination(e)), Pair(e))
           new(k) == Observed(IF k \in DOMAIN st THEN st[k] ELSE Fresh, h)
<1>1. e \in Event /\ e.ts = ts /\ KeysOf(e) \subseteq Entities /\ ts \in Nat
  BY TemplateEvent, EventTime
<1> HIDE DEF e
<1>2. /\ source # "over" /\ Len(events) < MaxEvents /\ ts >= Newest - MaxLate
      /\ events' = h /\ order' = touched
      /\ st' = [k \in Members(touched) |->
                  IF k \in keys THEN IF Due(new(k), ts) THEN Emitted(new(k), ts) ELSE new(k)
                  ELSE st[k]]
      /\ pending' = TRUE /\ source' = source
  BY DEF Process, e, KeysOf
<1>3. \A v \in out' : ~v.perEvent =>
        \E k \in keys : Due(new(k), ts) /\ v = Windowed(k, new(k), ts, Len(h))
  <2> DEFINE due == {k \in keys : Due(new(k), ts)}
             due2 == {k \in keys :
                 Due([x \in keys |-> new(x)][k], ts)}
  <2>1. out' = {Windowed(k, new(k), ts, Len(h)) : k \in due}
                \cup {PerEvent(k, [x \in keys |-> new(x)][k], ts, Len(h)) : k \in Judged(e, due2)}
    BY DEF Process, e, KeysOf
  <2> HIDE DEF due, due2
  <2>2. ASSUME NEW v \in out', ~v.perEvent
        PROVE  \E k \in due : v = Windowed(k, new(k), ts, Len(h))
    <3>1. ASSUME NEW k, NEW s, NEW n, v = PerEvent(k, s, ts, n) PROVE FALSE
      <4>1. v.perEvent = TRUE
        BY <3>1 DEF PerEvent, Windowed
      <4> QED BY <2>2, <4>1
    <3> QED BY <2>1, <2>2, <3>1
  <2> QED BY <2>2 DEF due
<1> HIDE DEF new
<1>4. /\ events \in Seq(Event) /\ order \in Seq(Entities) /\ Len(order) <= Capacity
      /\ IsInjective(order) /\ DOMAIN st = Members(order) /\ MaxEvents \in Nat
      /\ source \in {"stream", "capture", "over"}
      /\ MaxLate \in Nat /\ EmitInterval \in Nat \ {0} /\ Len(events) \in Nat
  BY EngineAssumption DEF EngineInv
<1>5. \A i \in 1..Len(events) : events[i].ts <= e.ts + MaxLate
  <2> SUFFICES ASSUME NEW i \in 1..Len(events) PROVE events[i].ts <= e.ts + MaxLate
    OBVIOUS
  <2>1. events[i].ts <= Newest /\ Newest \in Nat /\ events[i] \in Event
    BY <1>4, NewestTime
  <2>2. events[i].ts \in Nat
    BY <2>1, EventTime
  <2> QED BY <1>1, <1>2, <1>4, <2>1, <2>2
<1>6. /\ touched \in Seq(Entities) /\ Len(touched) <= Capacity /\ IsInjective(touched)
      /\ keys \subseteq Members(touched) /\ Members(touched) \subseteq Members(order) \cup keys
  BY <1>1, <1>4, ThreeTouched
<1> HIDE DEF touched
<1>7. ASSUME NEW k \in keys
      PROVE  /\ Tracked(new(k), h, k) /\ Whole(new(k), h)
             /\ Framed(new(k).short, new(k).observed, h, Short, ts)
             /\ Framed(new(k).long, new(k).observed, h, Long, ts)
             /\ Len(h) \in new(k).observed /\ \A i \in new(k).observed : i <= Len(h)
             /\ (MaxLate < EmitInterval /\ ~Due(new(k), ts)) => Punctual(new(k), h)
             /\ (MaxLate < EmitInterval /\ Due(new(k), ts))
                  => \A j \in new(k).observed : h[j].ts <= ts
  BY <1>1, <1>2, <1>5, EntityProcessed DEF new
<1>8. h \in Seq(Event) /\ Len(h) = Len(events) + 1 /\ h[Len(h)] = e
  BY <1>1, <1>4
<1> HIDE DEF h, keys
<1>9. ASSUME NEW k \in keys, Due(new(k), ts)
      PROVE  /\ Tracked(Emitted(new(k), ts), h, k) /\ Whole(Emitted(new(k), ts), h)
             /\ MaxLate < EmitInterval => Punctual(Emitted(new(k), ts), h)
             /\ Emitted(new(k), ts).observed = new(k).observed
  <2>1. ts \in Times \cup {0}
    OBVIOUS
  <2>2. ASSUME MaxLate < EmitInterval
        PROVE  \A i \in new(k).observed : h[i].ts < ts + EmitInterval
    <3> SUFFICES ASSUME NEW i \in new(k).observed PROVE h[i].ts < ts + EmitInterval
      OBVIOUS
    <3>1. i \in 1..Len(h) /\ h[i].ts <= ts
      BY <1>7, <1>9, <2>2 DEF Tracked, Sound, States
    <3>2. h[i].ts \in Nat
      BY <1>8, <3>1, EventTime
    <3> QED BY <1>1, <1>4, <3>1, <3>2
  <2> QED BY <1>7, <1>8, <1>9, <2>1, <2>2, EmittedKeeps
<1>10. ASSUME NEW k \in DOMAIN st
       PROVE  /\ Tracked(st[k], h, k) /\ Whole(st[k], h)
              /\ MaxLate < EmitInterval => Punctual(st[k], h)
  <2>1. Sound(st[k], events, k) /\ Tracked(st[k], events, k) /\ Whole(st[k], events)
        /\ (MaxLate < EmitInterval => Punctual(st[k], events))
    BY <1>2, <1>10 DEF EngineInv, Tracked
  <2> QED BY <1>1, <1>4, <2>1, HistoryGrows DEF h
<1>11. ASSUME NEW k \in Members(touched)
       PROVE  /\ Tracked(st'[k], h, k) /\ Whole(st'[k], h)
              /\ MaxLate < EmitInterval => Punctual(st'[k], h)
  <2>1. CASE k \in keys /\ Due(new(k), ts)
    <3>1. st'[k] = Emitted(new(k), ts)
      BY <1>2, <2>1
    <3> QED BY <1>9, <2>1, <3>1
  <2>2. CASE k \in keys /\ ~Due(new(k), ts)
    <3>1. st'[k] = new(k)
      BY <1>2, <2>2
    <3> QED BY <1>7, <2>2, <3>1
  <2>3. CASE k \notin keys
    <3>1. st'[k] = st[k] /\ k \in DOMAIN st
      BY <1>2, <1>4, <1>6, <2>3
    <3> QED BY <1>10, <3>1
  <2> QED BY <2>1, <2>2, <2>3
<1>12. EngineInv'
  <2>1. DOMAIN st' = Members(touched)
    BY <1>2
  <2>2. Len(events') <= MaxEvents
    BY <1>2, <1>4, <1>8
  <2>3. \A k \in DOMAIN st' :
         /\ Tracked(st'[k], events', k) /\ Whole(st'[k], events')
         /\ MaxLate < EmitInterval => Punctual(st'[k], events')
    BY <1>2, <1>11, <2>1
  <2> QED BY <1>2, <1>4, <1>6, <1>8, <2>1, <2>2, <2>3 DEF EngineInv
<1>13. ASSUME NEW v \in out', ~v.perEvent
       PROVE  /\ v.key \in DOMAIN st'
              /\ Framed(v.short, st'[v.key].observed, events', Short, v.ts)
              /\ Framed(v.long, st'[v.key].observed, events', Long, v.ts)
              /\ Dated(v, st'[v.key].observed, events')
  <2>1. PICK k \in keys : Due(new(k), ts) /\ v = Windowed(k, new(k), ts, Len(h))
    BY <1>3, <1>13
  <2>2. /\ v.key = k /\ v.ts = ts /\ v.short = new(k).short /\ v.long = new(k).long
        /\ v.trigger = Len(h)
    BY <2>1 DEF Windowed
  <2>3. k \in DOMAIN st' /\ st'[k] = Emitted(new(k), ts) /\ st'[k].observed = new(k).observed
    BY <1>2, <1>6, <1>9, <2>1
  <2>4. Dated(v, new(k).observed, h)
    <3>1. ASSUME \A i, j \in new(k).observed : j < i => h[j].ts <= h[i].ts,
                 NEW i \in new(k).observed
          PROVE  h[i].ts <= ts
      <4>1. i <= Len(h) /\ Len(h) \in new(k).observed /\ h[Len(h)].ts = ts
        BY <1>1, <1>7, <1>8
      <4>2. i \in Nat /\ Len(h) \in Nat
        BY <1>7, <1>8 DEF Tracked, Sound, States
      <4>3. CASE i = Len(h)
        BY <1>1, <4>1, <4>3
      <4>4. CASE i # Len(h)
        BY <3>1, <4>1, <4>2, <4>4
      <4> QED BY <4>3, <4>4
    <3> QED BY <1>1, <1>7, <2>1, <2>2, <3>1 DEF Dated
  <2> QED BY <1>2, <1>7, <2>2, <2>3, <2>4
<1> QED BY <1>12, <1>13 DEF VectorInv

\* Once nothing is pending, the last step gave every entity a vector of that time.
Answered ==
  ~pending => \A k \in DOMAIN st :
                \E v \in out : v.key = k /\ v.ts = Final(k) /\ ~v.perEvent

\* A window that is closed at some time.
LEMMA WindowClosed ==
  ASSUME NEW h \in Seq(Event), NEW w \in Seq(1..Len(h)), Rising(w),
         NEW observed \in SUBSET (1..Len(h)), Members(w) \subseteq observed,
         NEW size \in Nat \ {0}, NEW now \in Nat, Outgrown(w, observed, h, size)
  PROVE  LET x == Expire(h, w, size, now)
         IN  /\ Framed(x, observed, h, size, now)
             /\ (\E j \in observed : now <= h[j].ts) => Outgrown(x, observed, h, size)
<1> DEFINE x == Expire(h, w, size, now)
<1>1. /\ x \in Seq(1..Len(h)) /\ Rising(x) /\ Members(x) \subseteq Members(w)
      /\ \A i \in Members(w) : h[i].ts > now - size => i \in Members(x)
      /\ Headed(x, h, size, now)
  BY ExpireKeeps
<1> HIDE DEF x
<1>2. \A i \in observed : h[i].ts \in Nat
  BY EventTime
<1>3. ASSUME NEW i \in observed \ Members(x)
      PROVE  h[i].ts + size <= now \/ \E j \in observed : h[i].ts + size <= h[j].ts
  <2>1. CASE i \in Members(w)
    <3>1. ~(h[i].ts > now - size)
      BY <1>1, <1>3, <2>1
    <3>2. h[i].ts \in Nat
      BY <1>2, <1>3
    <3>3. h[i].ts + size <= now
      BY <3>1, <3>2
    <3> QED BY <3>3
  <2>2. CASE i \notin Members(w)
    BY <2>2 DEF Outgrown
  <2> QED BY <2>1, <2>2
<1>4. Framed(x, observed, h, size, now)
  BY <1>1, <1>3 DEF Framed
<1>5. ASSUME NEW j \in observed, now <= h[j].ts PROVE Outgrown(x, observed, h, size)
  <2> SUFFICES ASSUME NEW i \in observed \ Members(x)
               PROVE  \E m \in observed : h[i].ts + size <= h[m].ts
    BY DEF Outgrown
  <2>1. CASE h[i].ts + size <= now
    BY <1>2, <1>5, <2>1
  <2> QED BY <1>3, <2>1
<1> QED BY <1>4, <1>5 DEF x

\* An entity whose windows are closed, as the flush does before it builds a vector.
LEMMA ClosedKeeps ==
  ASSUME events \in Seq(Event), NEW s, NEW k, Tracked(s, events, k), Whole(s, events),
         NEW now \in Nat
  PROVE  LET c == Closed(s, now)
         IN  /\ Tracked(c, events, k)
             /\ c.observed = s.observed /\ c.lastSeen = s.lastSeen
             /\ Framed(c.short, s.observed, events, Short, now)
             /\ Framed(c.long, s.observed, events, Long, now)
             /\ (\E j \in s.observed : now <= events[j].ts) => Whole(c, events)
<1> DEFINE a == Expire(events, s.short, Short, now)
           b == Expire(events, s.long, Long, now)
           c == Closed(s, now)
<1>1. /\ s \in States(Len(events)) /\ s.short \in Seq(1..Len(events))
      /\ s.long \in Seq(1..Len(events)) /\ s.observed \in SUBSET (1..Len(events))
      /\ Rising(s.short) /\ Rising(s.long)
      /\ Members(s.short) \subseteq s.observed /\ Members(s.long) \subseteq s.observed
  BY DEF Tracked, Sound, States
<1>2. Short \in Nat \ {0} /\ Long \in Nat \ {0}
  BY EngineAssumption
<1>3. /\ Framed(a, s.observed, events, Short, now)
      /\ (\E j \in s.observed : now <= events[j].ts) => Outgrown(a, s.observed, events, Short)
  BY <1>1, <1>2, WindowClosed DEF Whole
<1>4. /\ Framed(b, s.observed, events, Long, now)
      /\ (\E j \in s.observed : now <= events[j].ts) => Outgrown(b, s.observed, events, Long)
  BY <1>1, <1>2, WindowClosed DEF Whole
<1>5. c = [s EXCEPT !.short = a, !.long = b]
  BY DEF Closed
<1> HIDE DEF a, b, c
<1>6. /\ c.short = a /\ c.long = b /\ c.times = s.times /\ c.lastEmit = s.lastEmit
      /\ c.lastSeen = s.lastSeen /\ c.observed = s.observed /\ c.judged = s.judged
  BY <1>1, <1>5 DEF States
<1>7. c \in States(Len(events))
  BY <1>1, <1>3, <1>4, <1>5 DEF Framed, States
<1>8. Tracked(c, events, k)
  BY <1>3, <1>4, <1>6, <1>7 DEF Tracked, Sound, Framed
<1>9. (\E j \in s.observed : now <= events[j].ts) => Whole(c, events)
  BY <1>3, <1>4, <1>6 DEF Whole
<1> QED BY <1>3, <1>4, <1>6, <1>8, <1>9 DEF c

\* A vector for every entity, at times that are not before what came in order, nor an
\* interval before anything.
LEMMA EmitAllKeeps ==
  ASSUME EngineInv, source # "over", NEW at, EmitAll(at),
         source' \in {"stream", "capture", "over"},
         \A k \in DOMAIN st :
           /\ at[k] \in Times \cup {0} /\ at[k] \in Nat
           /\ MaxLate < EmitInterval
                => \A i \in st[k].observed : events[i].ts < at[k] + EmitInterval
           /\ source' # "over" => \E i \in st[k].observed : at[k] <= events[i].ts
           /\ (\A i, j \in st[k].observed : j < i => events[j].ts <= events[i].ts)
                => \A i \in st[k].observed : events[i].ts <= at[k]
  PROVE  /\ EngineInv' /\ VectorInv'
         /\ \A k \in DOMAIN st' :
              /\ k \in DOMAIN st /\ st'[k].lastSeen = st[k].lastSeen
              /\ \E v \in out' : v.key = k /\ v.ts = at[k] /\ ~v.perEvent
<1> DEFINE c(k) == Closed(st[k], at[k])
           m(k) == Emitted(c(k), at[k])
<1>1. /\ pending' = FALSE /\ events' = events /\ order' = order
      /\ out' = {Windowed(k, c(k), at[k], NoEvent) : k \in DOMAIN st}
      /\ st' = [k \in DOMAIN st |-> m(k)]
  BY DEF EmitAll
<1>2. events \in Seq(Event)
  BY DEF EngineInv
<1>3. ASSUME NEW k \in DOMAIN st
      PROVE  /\ Tracked(c(k), events, k)
             /\ c(k).observed = st[k].observed /\ c(k).lastSeen = st[k].lastSeen
             /\ Framed(c(k).short, st[k].observed, events, Short, at[k])
             /\ Framed(c(k).long, st[k].observed, events, Long, at[k])
             /\ (\E j \in st[k].observed : at[k] <= events[j].ts) => Whole(c(k), events)
  <2>1. Tracked(st[k], events, k) /\ Whole(st[k], events) /\ at[k] \in Nat
    BY <1>3 DEF EngineInv
  <2> QED BY <1>2, <2>1, ClosedKeeps
<1> HIDE DEF c
<1>4. ASSUME NEW k \in DOMAIN st
      PROVE  /\ Tracked(m(k), events, k)
             /\ m(k).observed = st[k].observed /\ m(k).lastSeen = st[k].lastSeen
             /\ source' # "over" => Whole(m(k), events)
             /\ MaxLate < EmitInterval => Punctual(m(k), events)
             /\ Members(m(k).long) \subseteq m(k).judged
  <2>1. at[k] \in Times \cup {0} /\ Tracked(c(k), events, k)
    BY <1>3, <1>4
  <2>2. /\ Tracked(m(k), events, k) /\ m(k).observed = c(k).observed
        /\ m(k).lastSeen = c(k).lastSeen
        /\ m(k).long = c(k).long /\ Members(c(k).long) \subseteq m(k).judged
        /\ Whole(c(k), events) => Whole(m(k), events)
        /\ (\A i \in c(k).observed : events[i].ts < at[k] + EmitInterval)
             => Punctual(m(k), events)
    BY <1>2, <2>1, EmittedKeeps
  <2> HIDE DEF m
  <2> QED BY <1>3, <1>4, <2>2
<1> HIDE DEF m
<1>5. EngineInv'
  <2>1. DOMAIN st' = DOMAIN st /\ \A k \in DOMAIN st : st'[k] = m(k)
    BY <1>1
  <2>2. \A k \in DOMAIN st' :
       /\ Tracked(st'[k], events', k)
       /\ source' # "over" => Whole(st'[k], events')
       /\ MaxLate < EmitInterval => Punctual(st'[k], events')
       /\ Members(st'[k].long) \subseteq st'[k].judged
    BY <1>1, <1>4, <2>1
  <2> QED BY <1>1, <2>1, <2>2 DEF EngineInv
<1>6. ASSUME NEW v \in out', ~v.perEvent
      PROVE  /\ v.key \in DOMAIN st'
             /\ Framed(v.short, st'[v.key].observed, events', Short, v.ts)
             /\ Framed(v.long, st'[v.key].observed, events', Long, v.ts)
             /\ Dated(v, st'[v.key].observed, events')
  <2>1. PICK k \in DOMAIN st : v = Windowed(k, c(k), at[k], NoEvent)
    BY <1>1, <1>6
  <2>2. /\ v.key = k /\ v.ts = at[k] /\ v.short = c(k).short /\ v.long = c(k).long
        /\ v.trigger = NoEvent
    BY <2>1 DEF Windowed
  <2>3. k \in DOMAIN st' /\ st'[k].observed = st[k].observed
    BY <1>1, <1>4
  <2>4. Dated(v, st[k].observed, events)
    BY <2>2 DEF Dated
  <2> QED BY <1>1, <1>3, <2>2, <2>3, <2>4
<1>7. ASSUME NEW k \in DOMAIN st'
      PROVE  /\ k \in DOMAIN st /\ st'[k].lastSeen = st[k].lastSeen
             /\ \E v \in out' : v.key = k /\ v.ts = at[k] /\ ~v.perEvent
  <2>1. k \in DOMAIN st /\ Windowed(k, c(k), at[k], NoEvent) \in out'
    BY <1>1, <1>7
  <2>2. /\ Windowed(k, c(k), at[k], NoEvent).key = k
        /\ Windowed(k, c(k), at[k], NoEvent).ts = at[k]
        /\ ~Windowed(k, c(k), at[k], NoEvent).perEvent
    BY DEF Windowed
  <2> QED BY <1>1, <1>4, <2>1, <2>2
<1> QED BY <1>5, <1>6, <1>7 DEF VectorInv

\* What an entity has seen stands in time as Tracked says.
LEMMA SeenTimes ==
  ASSUME EngineInv, NEW k \in DOMAIN st
  PROVE  /\ st[k].lastSeen \in Times /\ st[k].lastSeen \in Nat
         /\ \A i \in st[k].observed :
              /\ i \in 1..Len(events) /\ events[i].ts \in Nat
              /\ events[i].ts <= st[k].lastSeen + MaxLate
         /\ \E i \in st[k].observed : events[i].ts = st[k].lastSeen
         /\ (\A i, j \in st[k].observed : j < i => events[j].ts <= events[i].ts)
              => \A i \in st[k].observed : events[i].ts <= st[k].lastSeen
<1>1. events \in Seq(Event) /\ Tracked(st[k], events, k)
  BY DEF EngineInv
<1>2. st[k].lastSeen \in Times /\ st[k].lastSeen \in Nat
  BY <1>1, EngineAssumption DEF Tracked
<1>3. st[k].observed \subseteq 1..Len(events)
  BY <1>1 DEF Tracked, Sound, States
<1>4. \A i \in st[k].observed : i \in 1..Len(events) /\ events[i].ts \in Nat
  BY <1>1, <1>3, EventTime
<1>5. PICK i \in st[k].observed :
        /\ events[i].ts = st[k].lastSeen
        /\ \A j \in st[k].observed : j <= i /\ events[j].ts <= st[k].lastSeen + MaxLate
  BY <1>1 DEF Tracked
<1>6. ASSUME \A n, j \in st[k].observed : j < n => events[j].ts <= events[n].ts,
             NEW j \in st[k].observed
      PROVE  events[j].ts <= st[k].lastSeen
  <2>1. i \in Int /\ j \in Int /\ j <= i
    BY <1>4, <1>5
  <2>2. CASE j = i
    BY <1>2, <1>5, <2>2
  <2>3. CASE j # i
    BY <1>5, <1>6, <2>1, <2>3
  <2> QED BY <2>2, <2>3
<1> QED BY <1>2, <1>4, <1>5, <1>6

\* The flush of a quiet stream.
LEMMA FlushKeeps ==
  ASSUME EngineInv, Flush
  PROVE  EngineInv' /\ VectorInv' /\ Answered'
<1> DEFINE at == [k \in DOMAIN st |-> st[k].lastSeen]
<1>1. source = "stream" /\ source' = "stream" /\ EmitAll(at)
  BY DEF Flush
<1>2. ASSUME NEW k \in DOMAIN st
      PROVE  /\ at[k] = st[k].lastSeen /\ at[k] \in Times \cup {0} /\ at[k] \in Nat
             /\ MaxLate < EmitInterval
                  => \A i \in st[k].observed : events[i].ts < at[k] + EmitInterval
             /\ \E i \in st[k].observed : at[k] <= events[i].ts
             /\ (\A i, j \in st[k].observed : j < i => events[j].ts <= events[i].ts)
                  => \A i \in st[k].observed : events[i].ts <= at[k]
  <2>1. at[k] = st[k].lastSeen /\ MaxLate \in Nat /\ EmitInterval \in Nat
    BY EngineAssumption
  <2> HIDE DEF at
  <2> QED BY <1>2, <2>1, SeenTimes
<1> HIDE DEF at
<1>3. /\ EngineInv' /\ VectorInv'
      /\ \A k \in DOMAIN st' :
           /\ k \in DOMAIN st /\ st'[k].lastSeen = st[k].lastSeen
           /\ \E v \in out' : v.key = k /\ v.ts = at[k] /\ ~v.perEvent
  BY <1>1, <1>2, EmitAllKeeps
<1>4. Answered'
  <2>1. \A k \in DOMAIN st' : Final(k)' = st'[k].lastSeen
    BY <1>1 DEF Final
  <2> QED BY <1>2, <1>3, <2>1 DEF Answered
<1> QED BY <1>3, <1>4

\* The end of a capture.
LEMMA FinishKeeps ==
  ASSUME EngineInv, Finish
  PROVE  EngineInv' /\ VectorInv' /\ Answered'
<1> DEFINE at == [k \in DOMAIN st |-> Newest]
<1>1. source = "capture" /\ source' = "over" /\ EmitAll(at)
  BY DEF Finish
<1>2. ASSUME NEW k \in DOMAIN st
      PROVE  /\ at[k] \in Times \cup {0} /\ at[k] \in Nat
             /\ \A i \in st[k].observed : events[i].ts < at[k] + EmitInterval
             /\ \A i \in st[k].observed : events[i].ts <= at[k]
  <2>1. at[k] = Newest /\ EmitInterval \in Nat \ {0}
    BY EngineAssumption
  <2> HIDE DEF at
  <2>2. /\ Newest \in Times \cup {0} /\ Newest \in Nat
        /\ \A i \in 1..Len(events) : events[i].ts <= Newest
    BY NewestTime DEF EngineInv
  <2>3. \A i \in st[k].observed : i \in 1..Len(events) /\ events[i].ts \in Nat
    BY <1>2, SeenTimes
  <2> QED BY <2>1, <2>2, <2>3
<1> HIDE DEF at
<1>3. /\ EngineInv' /\ VectorInv'
      /\ \A k \in DOMAIN st' :
           /\ k \in DOMAIN st /\ st'[k].lastSeen = st[k].lastSeen
           /\ \E v \in out' : v.key = k /\ v.ts = at[k] /\ ~v.perEvent
  BY <1>1, <1>2, EmitAllKeeps
<1>4. Answered'
  <2>1. events' = events
    BY <1>1 DEF EmitAll
  <2>2. \A k : Final(k)' = Newest
    BY <1>1, <2>1 DEF Final, Newest
  <2>3. \A k \in DOMAIN st : at[k] = Newest
    BY DEF at
  <2> QED BY <1>3, <2>2, <2>3 DEF Answered
<1> QED BY <1>3, <1>4

\* Every step of the engine keeps the invariant, and what it emits says what the
\* events say.
LEMMA EngineStep ==
  ASSUME EngineInv, VectorInv, Answered, EngineNext \/ UNCHANGED engineVars
  PROVE  EngineInv' /\ VectorInv' /\ Answered'
<1>1. ASSUME NEW template \in Templates, NEW ts \in Times, Process(template, ts)
      PROVE  EngineInv' /\ VectorInv' /\ Answered'
  <2>1. pending' = TRUE
    BY <1>1 DEF Process
  <2> QED BY <1>1, <2>1, ProcessKeeps DEF Answered
<1>2. CASE UNCHANGED engineVars
  <2>1. /\ events' = events /\ order' = order /\ st' = st /\ pending' = pending
        /\ source' = source /\ out' = out
    BY <1>2 DEF engineVars
  <2>2. EngineInv'
    BY <2>1 DEF EngineInv
  <2>3. VectorInv'
    BY <2>1 DEF VectorInv
  <2>4. \A k : Final(k)' = Final(k)
    BY <2>1 DEF Final, Newest
  <2>5. Answered'
    BY <2>1, <2>4 DEF Answered
  <2> QED BY <2>2, <2>3, <2>5
<1> QED BY <1>1, <1>2, FlushKeeps, FinishKeeps DEF EngineNext

\* The engine starts with nothing tracked.
LEMMA StartKeeps ==
  ASSUME EngineInit
  PROVE  EngineInv /\ VectorInv /\ Answered
<1>1. Members(<<>>) = {} /\ DOMAIN <<>> = {} /\ Len(<<>>) = 0
  BY DEF Members
<1>2. events = <<>> /\ order = <<>> /\ st = <<>> /\ pending = FALSE /\ out = {}
      /\ source \in {"stream", "capture"}
  BY DEF EngineInit
<1>3. <<>> \in Seq(Event) /\ <<>> \in Seq(Entities) /\ IsInjective(<<>>)
  BY DEF IsInjective
<1>4. 0 <= MaxEvents /\ 0 <= Capacity
  BY EngineAssumption
<1> QED BY <1>1, <1>2, <1>3, <1>4 DEF EngineInv, VectorInv, Answered
-----------------------------------------------------------------------------
(* The properties.                                                         *)

\* A rising window has as many places as members.
LEMMA RisingCount ==
  ASSUME NEW n \in Nat, NEW w \in Seq(1..n), Rising(w)
  PROVE  /\ IsFiniteSet(Members(w)) /\ Cardinality(Members(w)) = Len(w)
         /\ Members(w) \subseteq 1..n
<1> DEFINE S == Members(w)
<1>1. Len(w) \in Nat /\ \A i \in 1..Len(w) : w[i] \in 1..n /\ w[i] \in S
  BY DEF Members
<1>2. \A i, j \in 1..Len(w) : w[i] = w[j] => i = j
  <2> SUFFICES ASSUME NEW i \in 1..Len(w), NEW j \in 1..Len(w), w[i] = w[j], i < j
               PROVE  FALSE
    BY <1>1
  <2> QED BY <1>1 DEF Rising
<1>3. w \in [1..Len(w) -> S] /\ \A x \in S : \E i \in 1..Len(w) : w[i] = x
  BY <1>1 DEF Members
<1> HIDE DEF S
<1>4. w \in Bijection(1..Len(w), S)
  BY <1>2, <1>3 DEF Bijection, Injection, Surjection, IsInjective
<1>5. ExistsBijection(1..Len(w), S)
  BY <1>4 DEF ExistsBijection
<1>6. Cardinality(S) = Len(w) /\ IsFiniteSet(S)
  BY <1>1, <1>5, FS_CountingElements, FS_NatBijection
<1> QED BY <1>1, <1>6 DEF S, Members

\* What a window holds, if nothing its entity has seen is newer.
LEMMA FramedTruth ==
  ASSUME NEW h \in Seq(Event), NEW observed \in SUBSET (1..Len(h)), NEW w,
         NEW size \in Nat, NEW now \in Nat,
         Framed(w, observed, h, size, now), \A i \in observed : h[i].ts <= now
  PROVE  /\ \A i \in observed : h[i].ts > now - size => i \in Members(w)
         /\ \A i \in Members(w) :
              \/ h[i].ts > now - size
              \/ \E j \in observed : j < i /\ h[j].ts > h[i].ts
<1>1. \A i \in observed : i \in Nat /\ h[i].ts \in Nat
  BY EventTime
<1>2. ASSUME NEW i \in observed, h[i].ts > now - size, i \notin Members(w) PROVE FALSE
  <2>1. h[i].ts + size <= now
    BY <1>1, <1>2 DEF Framed
  <2> QED BY <1>1, <1>2, <2>1
<1>3. ASSUME NEW i \in Members(w), ~(h[i].ts > now - size)
      PROVE  \E j \in observed : j < i /\ h[j].ts > h[i].ts
  <2>1. PICK j \in Members(w) : j <= i /\ h[j].ts > now - size
    BY DEF Framed, Headed
  <2>2. i \in observed /\ j \in observed
    BY DEF Framed
  <2>3. j # i
    BY <1>3, <2>1
  <2> QED BY <1>1, <1>3, <2>1, <2>2, <2>3
<1> QED BY <1>2, <1>3

\* Late and Truth, in terms of what an entity has seen.
LEMMA LateMeans ==
  ASSUME EngineInv, NEW k \in DOMAIN st
  PROVE  Late(k) = {} <=>
           \A i, j \in st[k].observed : j < i => events[j].ts <= events[i].ts
<1>1. \A i \in st[k].observed : events[i].ts \in Nat
  BY SeenTimes
<1>2. \A i, j \in st[k].observed : events[j].ts > events[i].ts <=> ~(events[j].ts <= events[i].ts)
  BY <1>1
<1> QED BY <1>2 DEF Late

\* A window that is framed brackets the truth.
LEMMA FramedBrackets ==
  ASSUME EngineInv, NEW v, v.key \in DOMAIN st, NEW w, NEW size \in Nat,
         Framed(w, st[v.key].observed, events, size, v.ts),
         Dated(v, st[v.key].observed, events),
         v.trigger # NoEvent => MaxLate < EmitInterval
  PROVE  Brackets(v.key, Members(w), size, v.ts, v.trigger # NoEvent)
<1> DEFINE k == v.key
           ids == Members(w)
           observed == st[k].observed
           now == v.ts
           tick == v.trigger # NoEvent
<1>1. events \in Seq(Event) /\ observed \in SUBSET (1..Len(events)) /\ now \in Nat
  <2>1. Sound(st[k], events, k)
    BY DEF EngineInv, Tracked
  <2> QED BY <2>1 DEF EngineInv, Sound, States, Dated
<1>2. ids \subseteq observed
  BY DEF Framed
<1>3. ASSUME tick \/ Late(k) = {}
      PROVE  /\ \A i \in observed : events[i].ts <= now
             /\ \A i \in observed : events[i].ts > now - size => i \in ids
             /\ \A i \in ids :
                  \/ events[i].ts > now - size
                  \/ \E j \in observed : j < i /\ events[j].ts > events[i].ts
  <2>1. \A i \in observed : events[i].ts <= now
    BY <1>3, LateMeans DEF Dated
  <2> HIDE DEF ids, observed, now
  <2> QED BY <1>1, <2>1, FramedTruth DEF ids, observed, now
<1>4. (tick \/ Late(k) = {}) => Truth(k, size, now) \subseteq ids
  BY <1>3 DEF Truth
<1>5. ASSUME NEW i \in ids
      PROVE  i \in Truth(k, size, now)
              \cup {x \in observed : Late(k) # {} /\ (tick => x \in Late(k))}
  <2>1. i \in observed
    BY <1>2
  <2>2. CASE ~tick /\ Late(k) # {}
    BY <2>1, <2>2
  <2>3. CASE tick \/ Late(k) = {}
    <3>1. CASE events[i].ts > now - size
      BY <1>3, <2>1, <2>3, <3>1 DEF Truth
    <3>2. CASE \E j \in observed : j < i /\ events[j].ts > events[i].ts
      <4>1. i \in Late(k)
        BY <2>1, <3>2 DEF Late
      <4> QED BY <2>1, <4>1
    <3> QED BY <1>3, <2>3, <3>1, <3>2
  <2> QED BY <2>2, <2>3
<1> HIDE DEF ids
<1> QED BY <1>4, <1>5 DEF Brackets, ids

\* Type correctness.
LEMMA InvTypes ==
  ASSUME EngineInv
  PROVE  TypeOK
<1>1. \A i \in 1..Len(events) : events[i].ts \in Times
  BY EventTime DEF EngineInv
<1>2. ASSUME NEW k \in DOMAIN st
      PROVE  /\ Members(st[k].short) \cup Members(st[k].long) \subseteq st[k].observed
             /\ st[k].lastEmit \in Times \cup {0} /\ st[k].lastSeen \in Times
             /\ st[k].judged \subseteq st[k].observed
             /\ st[k].observed \subseteq 1..Len(events)
             /\ Len(st[k].times) <= TrackerSize
  <2>1. Tracked(st[k], events, k)
    BY DEF EngineInv
  <2> QED BY <2>1 DEF Tracked, Sound, States
<1> QED BY <1>1, <1>2 DEF EngineInv, TypeOK

\* What Recon looks for in a vector, by the events so far.
Scan(v) ==
  /\ Kind(v) = "HOST"
  /\ Cardinality({events[i].dst : i \in Members(v.long)}) >= ScanHosts
  /\ 2 * Cardinality({i \in Members(v.long) : events[i].failed}) >= Len(v.long)

\* Every vector of the last step was judged by those two, unless they are broken.
Heard ==
  \A v \in out : ~v.perEvent =>
    /\ "ddos" \notin Broken /\ Ddos(v) => Reported("ddos", v.key, v.ts)
    /\ "recon" \notin Broken /\ Scan(v) => Reported("recon", v.key, v.ts)

\* A step of the mesh: what was reported stays so, what is new is of a vector of the
\* step, and every vector is evaluated.
LEMMA ResultsOfStep ==
  ASSUME Next
  PROVE  /\ EngineNext
         /\ results \subseteq results'
         /\ \A v \in out' : Evaluate(v) \subseteq results'
         /\ \A r \in results' : r \in results \/ \E v \in out' : r \in Evaluate(v) \cup Shadow(v)
<1>1. ASSUME NEW template \in Templates, NEW ts \in Times, ProcessEvent(template, ts)
      PROVE  /\ EngineNext
             /\ results' = results \cup UNION {Evaluate(v) \cup Shadow(v) : v \in out'}
  BY <1>1 DEF ProcessEvent, EngineNext
<1>2. ASSUME FlushOpenWindows \/ FinishCapture
      PROVE  EngineNext /\ results' = results \cup UNION {Evaluate(v) : v \in out'}
  BY <1>2 DEF FlushOpenWindows, FinishCapture, EngineNext
<1> QED BY <1>1, <1>2 DEF Next

LEMMA HeardStep ==
  ASSUME Next
  PROVE  Heard'
<1> SUFFICES ASSUME NEW v \in out', ~v.perEvent
             PROVE  /\ "ddos" \notin Broken /\ Ddos(v)
                         => Result("ddos", v, FALSE) \in results'
                    /\ "recon" \notin Broken /\ Recon(v)
                         => Result("recon", v, FALSE) \in results'
  BY DEF Heard, Reported, Result, Ddos, Scan, Recon, Kind
<1>1. Evaluate(v) \subseteq results'
  BY ResultsOfStep
<1>2. "ddos" \in Ready /\ "recon" \in Ready
  BY DEF Ready, Detectors
<1>3. Accepts("ddos", v) /\ Accepts("recon", v)
  BY DEF Accepts
<1>4. (Fires("ddos", v) <=> Ddos(v)) /\ (Fires("recon", v) <=> Recon(v))
  BY DEF Fires
<1> HIDE DEF Ready
<1> QED BY <1>1, <1>2, <1>3, <1>4 DEF Evaluate

\* Once nothing is pending, what the windows hold has been judged as it is.
LEMMA QuietReports ==
  ASSUME EngineInv, VectorInv, Answered, Heard,
         "ddos" \notin Broken, "recon" \notin Broken
  PROVE  QuietMeansReported
<1> SUFFICES ASSUME ~pending, NEW k \in DOMAIN st, InOrder(k)
             PROVE  /\ (k[1] = "DESTINATION"
                         /\ Cardinality(Truth(k, Short, Final(k))) >= FloodFlows)
                         => Reported("ddos", k, Final(k))
                    /\ (k[1] = "HOST" /\ Scanned(k, Final(k)))
                         => Reported("recon", k, Final(k))
  BY DEF QuietMeansReported
<1>1. PICK v \in out : v.key = k /\ v.ts = Final(k) /\ ~v.perEvent
  BY DEF Answered
<1>2. /\ Framed(v.short, st[k].observed, events, Short, v.ts)
      /\ Framed(v.long, st[k].observed, events, Long, v.ts)
      /\ Dated(v, st[k].observed, events)
  BY <1>1 DEF VectorInv
<1>3. events \in Seq(Event) /\ Len(events) \in Nat
      /\ st[k].observed \in SUBSET (1..Len(events))
  <2>1. Sound(st[k], events, k)
    BY DEF EngineInv, Tracked
  <2> QED BY <2>1 DEF EngineInv, Sound, States
<1>4. Late(k) = {} /\ \A i, j \in st[k].observed : j < i => events[j].ts <= events[i].ts
  BY LateMeans DEF InOrder
<1>5. v.ts \in Nat /\ \A i \in st[k].observed : events[i].ts <= v.ts
  BY <1>2, <1>4 DEF Dated
<1>6. Short \in Nat /\ Long \in Nat
  BY EngineAssumption
<1>7. ASSUME NEW w, NEW size \in Nat, Framed(w, st[k].observed, events, size, v.ts)
      PROVE  Members(w) = Truth(k, size, v.ts) /\ Len(w) = Cardinality(Members(w))
  <2>1. /\ \A i \in st[k].observed : events[i].ts > v.ts - size => i \in Members(w)
        /\ \A i \in Members(w) :
             \/ events[i].ts > v.ts - size
             \/ \E j \in st[k].observed : j < i /\ events[j].ts > events[i].ts
    BY <1>3, <1>5, <1>7, FramedTruth
  <2>2. Members(w) \subseteq st[k].observed /\ w \in Seq(1..Len(events)) /\ Rising(w)
    BY <1>7 DEF Framed
  <2>3. \A i \in Members(w) :
          ~\E j \in st[k].observed : j < i /\ events[j].ts > events[i].ts
    BY <1>4, <2>2 DEF Late
  <2>4. Members(w) = Truth(k, size, v.ts)
    BY <1>5, <2>1, <2>2, <2>3 DEF Truth
  <2> QED BY <1>3, <2>2, <2>4, RisingCount
<1>8. Members(v.short) = Truth(k, Short, Final(k)) /\ Len(v.short) = Cardinality(Members(v.short))
  BY <1>1, <1>2, <1>6, <1>7
<1>9. Members(v.long) = Truth(k, Long, Final(k)) /\ Len(v.long) = Cardinality(Members(v.long))
  BY <1>1, <1>2, <1>6, <1>7
<1>10. (k[1] = "DESTINATION" /\ Cardinality(Truth(k, Short, Final(k))) >= FloodFlows)
         => Reported("ddos", k, Final(k))
  BY <1>1, <1>8 DEF Heard, Ddos, Kind
<1>11. (k[1] = "HOST" /\ Scanned(k, Final(k))) => Reported("recon", k, Final(k))
  BY <1>1, <1>9 DEF Heard, Scan, Scanned, Kind
<1> QED BY <1>10, <1>11

\* The flows to a destination in the last short window before now.
Flood(k, now) ==
  {i \in Inbound(k) : events[i].ts > now - Short /\ events[i].ts <= now}

\* Every vector that shows a flood, of a destination whose events came in order,
\* shows a real one.
FloodsSeen ==
  \A v \in out :
    (/\ ~v.perEvent /\ Ddos(v)
     /\ \A i, j \in Inbound(v.key) : i < j => events[i].ts <= events[j].ts)
    => Cardinality(Flood(v.key, v.ts)) >= FloodFlows

\* A window does not count more than came in.
LEMMA FloodOfVector ==
  ASSUME EngineInv, VectorInv, NEW v \in out, ~v.perEvent, Ddos(v),
         \A i, j \in Inbound(v.key) : i < j => events[i].ts <= events[j].ts
  PROVE  Cardinality(Flood(v.key, v.ts)) >= FloodFlows
<1> DEFINE k == v.key
<1>1. /\ k \in DOMAIN st /\ Framed(v.short, st[k].observed, events, Short, v.ts)
      /\ Dated(v, st[k].observed, events)
  BY DEF VectorInv
<1>2. events \in Seq(Event) /\ Len(events) \in Nat
      /\ st[k].observed \in SUBSET (1..Len(events))
      /\ \A i \in st[k].observed : k \in KeysOf(events[i])
  <2>1. Sound(st[k], events, k)
    BY <1>1 DEF EngineInv, Tracked
  <2> QED BY <2>1 DEF EngineInv, Sound, States
<1>3. k[1] = "DESTINATION" /\ Len(v.short) >= FloodFlows
  BY DEF Ddos, Kind
<1>4. st[k].observed \subseteq Inbound(k)
  <2> SUFFICES ASSUME NEW i \in st[k].observed PROVE Destination(events[i]) = k
    BY <1>2 DEF Inbound
  <2>1. k \in {Host(events[i]), Destination(events[i]), Pair(events[i])}
    BY <1>2 DEF KeysOf
  <2>2. "HOST" # "DESTINATION" /\ "PAIR" # "DESTINATION"
    OBVIOUS
  <2> QED BY <1>3, <2>1, <2>2, ThreeKeys
<1> HIDE DEF k
<1>5. \A i, j \in st[k].observed : j < i => events[j].ts <= events[i].ts
  BY <1>4 DEF k
<1>6. v.ts \in Nat /\ \A i \in st[k].observed : events[i].ts <= v.ts
  BY <1>1, <1>5 DEF Dated
<1>7. /\ Members(v.short) \subseteq st[k].observed
      /\ IsFiniteSet(Members(v.short)) /\ Cardinality(Members(v.short)) = Len(v.short)
  BY <1>1, <1>2, RisingCount DEF Framed
<1>8. \A i \in st[k].observed : events[i].ts \in Nat
  BY <1>2, EventTime
<1>9. Members(v.short) \subseteq Flood(k, v.ts)
  <2>1. Short \in Nat
    BY EngineAssumption
  <2>2. \A i \in Members(v.short) :
          \/ events[i].ts > v.ts - Short
          \/ \E j \in st[k].observed : j < i /\ events[j].ts > events[i].ts
    BY <1>1, <1>2, <1>6, <2>1, FramedTruth
  <2>3. \A i \in Members(v.short) : events[i].ts > v.ts - Short
    BY <1>5, <1>7, <1>8, <2>2
  <2> QED BY <1>4, <1>6, <1>7, <2>3 DEF Flood
<1>10. IsFiniteSet(Flood(k, v.ts))
  <2>1. Flood(k, v.ts) \subseteq 1..Len(events)
    BY DEF Flood, Inbound
  <2>2. IsFiniteSet(1..Len(events))
    BY <1>2, FS_Interval
  <2> QED BY <2>1, <2>2, FS_Subset
<1>11. /\ Cardinality(Members(v.short)) <= Cardinality(Flood(k, v.ts))
       /\ Cardinality(Members(v.short)) \in Nat /\ Cardinality(Flood(k, v.ts)) \in Nat
  BY <1>7, <1>9, <1>10, FS_Subset, FS_CardinalityType
<1>12. FloodFlows \in Nat
  BY DetectionAssumption
<1> QED BY <1>3, <1>7, <1>11, <1>12 DEF k

\* Events only add to what came in.
LEMMA FloodStays ==
  ASSUME EngineInv, EngineInv', EngineNext, NEW k, NEW now
  PROVE  /\ Inbound(k) \subseteq Inbound(k)'
         /\ \A i \in Inbound(k) : events'[i] = events[i]
         /\ Cardinality(Flood(k, now)) <= Cardinality(Flood(k, now)')
         /\ Cardinality(Flood(k, now)) \in Nat /\ Cardinality(Flood(k, now)') \in Nat
<1>1. \/ events' = events
      \/ \E template \in Templates, ts \in Times :
           events' = Append(events, [template EXCEPT !.ts = ts])
  BY DEF EngineNext, Process, Flush, Finish, EmitAll
<1>2. /\ events \in Seq(Event) /\ Len(events) \in Nat
      /\ events' \in Seq(Event) /\ Len(events') \in Nat
  BY DEF EngineInv
<1>3. Len(events) <= Len(events') /\ \A i \in 1..Len(events) : events'[i] = events[i]
  <2>1. CASE events' = events
    BY <1>2, <2>1
  <2>2. ASSUME NEW e, events' = Append(events, e)
        PROVE  Len(events) <= Len(events') /\ \A i \in 1..Len(events) : events'[i] = events[i]
    <3>1. Len(events') = Len(events) + 1 /\ \A i \in 1..Len(events) : events'[i] = events[i]
      <4>1. events \in Seq(Event \cup {e})
        BY <1>2
      <4> QED BY <2>2, <4>1
    <3> QED BY <1>2, <3>1
  <2> QED BY <1>1, <2>1, <2>2
<1>4. 1..Len(events) \subseteq 1..Len(events')
  BY <1>2, <1>3
<1>5. Inbound(k) \subseteq Inbound(k)' /\ \A i \in Inbound(k) : events'[i] = events[i]
  BY <1>3, <1>4 DEF Inbound
<1>6. Flood(k, now) \subseteq Flood(k, now)'
  BY <1>5 DEF Flood
<1>7. IsFiniteSet(Flood(k, now)) /\ IsFiniteSet(Flood(k, now)')
  <2>1. IsFiniteSet(1..Len(events)) /\ IsFiniteSet(1..Len(events'))
    BY <1>2, FS_Interval
  <2>2. Flood(k, now) \subseteq 1..Len(events) /\ Flood(k, now)' \subseteq 1..Len(events')
    BY DEF Flood, Inbound
  <2> QED BY <2>1, <2>2, FS_Subset
<1> QED BY <1>5, <1>6, <1>7, FS_Subset, FS_CardinalityType

\* Every report of a flood, old or new, is of a real one.
LEMMA FloodsStep ==
  ASSUME EngineInv, EngineInv', FloodsSeen', ReportedFloodIsReal, Next
  PROVE  ReportedFloodIsReal'
<1> SUFFICES ASSUME NEW r \in results', r.detector = "ddos",
                    \A i, j \in Inbound(r.key)' : i < j => events'[i].ts <= events'[j].ts
             PROVE  Cardinality(Flood(r.key, r.ts)') >= FloodFlows
  BY DEF ReportedFloodIsReal, Flood
<1>1. EngineNext
  BY ResultsOfStep
<1>2. CASE r \in results
  <2>1. \A i, j \in Inbound(r.key) : i < j => events[i].ts <= events[j].ts
    BY <1>1, FloodStays
  <2>2. Cardinality(Flood(r.key, r.ts)) >= FloodFlows
    BY <1>2, <2>1 DEF ReportedFloodIsReal, Flood
  <2>3. /\ Cardinality(Flood(r.key, r.ts)) <= Cardinality(Flood(r.key, r.ts)')
        /\ Cardinality(Flood(r.key, r.ts)) \in Nat /\ Cardinality(Flood(r.key, r.ts)') \in Nat
    BY <1>1, FloodStays
  <2>4. FloodFlows \in Nat
    BY DetectionAssumption
  <2> QED BY <2>2, <2>3, <2>4
<1>3. ASSUME NEW v \in out', r \in Evaluate(v) \cup Shadow(v)
      PROVE  Cardinality(Flood(r.key, r.ts)') >= FloodFlows
  <2>1. r \notin Shadow(v)
    BY DEF Shadow, Result
  <2>2. PICK d \in Ready \ Broken : Accepts(d, v) /\ Fires(d, v) /\ r = Result(d, v, FALSE)
    BY <1>3, <2>1 DEF Evaluate
  <2>3. d = "ddos" /\ r.key = v.key /\ r.ts = v.ts
    BY <2>2 DEF Result
  <2>4. ~v.perEvent
    BY <2>2, <2>3 DEF Accepts
  <2>5. Ddos(v)
    BY <2>2, <2>3 DEF Fires
  <2>6. Ddos(v)'
    BY <2>5 DEF Ddos, Kind
  <2>7. Cardinality(Flood(v.key, v.ts)') >= FloodFlows
    BY <2>3, <2>4, <2>6 DEF FloodsSeen
  <2> QED BY <2>3, <2>7
<1> QED BY <1>2, <1>3, ResultsOfStep
-----------------------------------------------------------------------------
\* The inductive invariant.
Kept == EngineInv /\ VectorInv /\ Answered /\ Heard

\* For any traffic and constants, each step of the mesh keeps the invariant.
THEOREM MeshInvariant == Spec => []Kept
<1>1. Init => Kept
  <2> SUFFICES ASSUME Init PROVE Kept
    OBVIOUS
  <2>1. EngineInv /\ VectorInv /\ Answered
    BY StartKeeps DEF Init
  <2>2. out = {} /\ results = {}
    BY DEF Init, EngineInit
  <2> QED BY <2>1, <2>2 DEF Kept, Heard
<1>2. Kept /\ [Next]_vars => Kept'
  <2> SUFFICES ASSUME Kept, [Next]_vars PROVE Kept'
    OBVIOUS
  <2>1. CASE Next
    <3>1. EngineInv' /\ VectorInv' /\ Answered'
      BY <2>1, EngineStep, ResultsOfStep DEF Kept
    <3> QED BY <2>1, <3>1, HeardStep DEF Kept
  <2>2. CASE UNCHANGED vars
    <3>1. UNCHANGED engineVars /\ results' = results
      BY <2>2 DEF vars
    <3>2. EngineInv' /\ VectorInv' /\ Answered'
      BY <3>1, EngineStep DEF Kept
    <3>3. out' = out /\ events' = events
      BY <3>1 DEF engineVars
    <3>4. Heard'
      BY <3>1, <3>3 DEF Kept, Heard, Reported, Ddos, Scan, Kind
    <3> QED BY <3>2, <3>4 DEF Kept
  <2> QED BY <2>1, <2>2
<1> QED BY <1>1, <1>2, PTL DEF Spec

\* Type correctness of the engine.
THEOREM TypeCorrect == Spec => []TypeOK
<1>1. Kept => TypeOK
  BY InvTypes DEF Kept
<1> QED BY <1>1, MeshInvariant, PTL

\* As long as events are late by less than one interval, a vector never undercounts
\* at a tick, and counts too much only by events that came late.
THEOREM VectorsAreRight ==
  ASSUME MaxLate < EmitInterval
  PROVE  Spec => []VectorsBracketTruth
<1>1. Kept => VectorsBracketTruth
  <2> SUFFICES ASSUME Kept, NEW v \in out, ~v.perEvent
               PROVE  /\ Brackets(v.key, Members(v.short), Short, v.ts, v.trigger # NoEvent)
                      /\ Brackets(v.key, Members(v.long), Long, v.ts, v.trigger # NoEvent)
    BY DEF VectorsBracketTruth
  <2>1. /\ v.key \in DOMAIN st
        /\ Framed(v.short, st[v.key].observed, events, Short, v.ts)
        /\ Framed(v.long, st[v.key].observed, events, Long, v.ts)
        /\ Dated(v, st[v.key].observed, events)
    BY DEF Kept, VectorInv
  <2>2. EngineInv /\ Short \in Nat /\ Long \in Nat
    BY EngineAssumption DEF Kept
  <2> QED BY <2>1, <2>2, FramedBrackets
<1> QED BY <1>1, MeshInvariant, PTL

\* Once the stream is quiet or the capture over, all that is in a window has been in
\* a vector.
THEOREM QuietIsJudged == Spec => []QuietMeansJudged
<1>1. Kept => QuietMeansJudged
  BY DEF Kept, EngineInv, QuietMeansJudged
<1> QED BY <1>1, MeshInvariant, PTL

\* And a flood or a scan in it is reported, whichever other detectors raise.
THEOREM QuietIsReported ==
  ASSUME "ddos" \notin Broken, "recon" \notin Broken
  PROVE  Spec => []QuietMeansReported
<1>1. Kept => QuietMeansReported
  BY QuietReports DEF Kept
<1> QED BY <1>1, MeshInvariant, PTL

\* A flood that is reported of a destination whose events came in order was one.
THEOREM FloodsAreReal == Spec => []ReportedFloodIsReal
<1>1. Init => ReportedFloodIsReal
  BY DEF Init, ReportedFloodIsReal
<1>2. Kept => FloodsSeen
  BY FloodOfVector DEF Kept, FloodsSeen
<1>3. Kept /\ Kept' /\ FloodsSeen' /\ ReportedFloodIsReal /\ [Next]_vars
        => ReportedFloodIsReal'
  <2> SUFFICES ASSUME Kept, Kept', FloodsSeen', ReportedFloodIsReal, [Next]_vars
               PROVE  ReportedFloodIsReal'
    OBVIOUS
  <2>1. CASE Next
    BY <2>1, FloodsStep DEF Kept
  <2>2. CASE UNCHANGED vars
    BY <2>2 DEF vars, engineVars, ReportedFloodIsReal, Inbound
  <2> QED BY <2>1, <2>2
<1> QED BY <1>1, <1>2, <1>3, MeshInvariant, PTL DEF Spec
=============================================================================
