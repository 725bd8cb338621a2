----------------------------- MODULE DataProofs -----------------------------
(***************************************************************************)
(* Facts about the data the modules are built from: least elements of sets  *)
(* of numbers, on which inductions rest, selections from sequences, sorting. *)
(***************************************************************************)
EXTENDS Filter, FiniteSetTheorems, WellFoundedInduction, TLAPS

\* A set of naturals that is not empty has a least element: an induction over
\* the naturals looks at the least number for which its claim fails.
LEMMA LeastNat ==
  ASSUME NEW T \in SUBSET Nat, T # {}
  PROVE  \E n \in T : \A m \in T : n <= m
<1>1. PICK n \in T : \A m \in T : ~ (<<m, n>> \in OpToRel(<,Nat))
  BY NatLessThanWellFounded, WFMin
<1>2. \A m \in T : ~(m < n)
  BY <1>1 DEF OpToRel
<1>3. \A m \in T : n <= m
  BY <1>2
<1> QED BY <1>3

\* Some of the first n numbers have a greatest one.
LEMMA GreatestNat ==
  ASSUME NEW n \in Nat, NEW S \in SUBSET (1..n), S # {}
  PROVE  \E v \in S : \A u \in S : u <= v
<1> DEFINE T == {n - v : v \in S}
<1>1. \A v \in S : v \in Int /\ n - v \in Nat
  OBVIOUS
<1>2. T \in SUBSET Nat /\ T # {}
  BY <1>1
<1>3. PICK d \in T : \A m \in T : d <= m
  BY <1>2, LeastNat
<1>4. PICK v \in S : d = n - v
  OBVIOUS
<1>5. ASSUME NEW u \in S PROVE u <= v
  <2>1. d <= n - u
    BY <1>3
  <2> QED BY <1>1, <1>4, <2>1
<1> QED BY <1>5

\* A selection is built from the left, one element of m at a time.
LEMMA OnlyBuilt ==
  ASSUME NEW V, NEW m \in Seq(V), NEW S
  PROVE  \E f : /\ f[0] = <<>>
                /\ \A k \in 1..Len(m) :
                     f[k] = IF m[k] \in S THEN Append(f[k-1], m[k]) ELSE f[k-1]
                /\ Only(m, S) = f[Len(m)]
<1> DEFINE Step(g, n) == IF n = 0 THEN <<>>
                         ELSE IF m[n] \in S THEN Append(g[n-1], m[n]) ELSE g[n-1]
           Fits(g, k) == g = [n \in 0..k |-> Step(g, n)]
           f == CHOOSE g : Fits(g, Len(m))
<1>1. Len(m) \in Nat
  OBVIOUS
<1>2. ASSUME NEW h, NEW k \in Nat \ {0}, Fits(h, k - 1)
      PROVE  \E g : Fits(g, k)
  <2> DEFINE g == [n \in 0..k |-> IF n = k THEN Step(h, k) ELSE h[n]]
  <2> SUFFICES ASSUME NEW n \in 0..k PROVE g[n] = Step(g, n)
    <3>1. \A n \in 0..k : g[n] = Step(g, n) => Fits(g, k)
      OBVIOUS
    <3> QED BY <3>1
  <2>1. CASE n = k
    BY <2>1
  <2>2. CASE n # k
    <3>1. n \in 0..(k-1) /\ (n # 0 => n - 1 \in 0..(k-1))
      BY <2>2
    <3>2. h[n] = Step(h, n)
      BY <1>2, <3>1
    <3>3. g[n] = h[n] /\ (n # 0 => g[n-1] = h[n-1])
      BY <2>2, <3>1
    <3> QED BY <3>2, <3>3
  <2> QED BY <2>1, <2>2
<1>3. \E g : Fits(g, 0)
  <2>1. Fits([n \in 0..0 |-> <<>>], 0)
    OBVIOUS
  <2> QED BY <2>1
<1>4. \E g : Fits(g, Len(m))
  <2> HIDE DEF Fits
  <2> DEFINE Bad == {k \in Nat : ~\E g : Fits(g, k)}
  <2>1. ASSUME Bad # {} PROVE FALSE
    <3>1. PICK k \in Bad : \A j \in Bad : k <= j
      BY <2>1, LeastNat
    <3>2. k \in Nat \ {0}
      BY <1>3
    <3>3. k - 1 \in Nat /\ k - 1 \notin Bad
      BY <3>1, <3>2
    <3> QED BY <1>2, <3>2, <3>3
  <2> QED BY <1>1, <2>1
<1>5. Fits(f, Len(m))
  <2> HIDE DEF Fits
  <2> QED BY <1>4
<1>6. \A k \in 0..Len(m) : f[k] = Step(f, k)
  <2> HIDE DEF f, Step
  <2> QED BY <1>5
<1>7. f[0] = <<>>
  <2> HIDE DEF f
  <2> QED BY <1>1, <1>6
<1>8. \A k \in 1..Len(m) : f[k] = IF m[k] \in S THEN Append(f[k-1], m[k]) ELSE f[k-1]
  <2> HIDE DEF f
  <2> QED BY <1>1, <1>6
<1>9. Only(m, S) = f[Len(m)]
  BY DEF Only
<1> HIDE DEF f
<1> QED BY <1>7, <1>8, <1>9

\* What is selected are elements of m that are in S.
LEMMA OnlyMembers ==
  ASSUME NEW V, NEW m \in Seq(V), NEW S
  PROVE  Only(m, S) \in Seq(V \cap S)
<1>1. PICK f : /\ f[0] = <<>>
               /\ \A k \in 1..Len(m) :
                    f[k] = IF m[k] \in S THEN Append(f[k-1], m[k]) ELSE f[k-1]
               /\ Only(m, S) = f[Len(m)]
  BY OnlyBuilt
<1> DEFINE Bad == {k \in 0..Len(m) : f[k] \notin Seq(V \cap S)}
<1>2. Len(m) \in Nat /\ f[0] \in Seq(V \cap S)
  BY <1>1
<1>3. ASSUME NEW k \in 1..Len(m), f[k-1] \in Seq(V \cap S)
      PROVE  f[k] \in Seq(V \cap S)
  <2>1. m[k] \in V
    OBVIOUS
  <2>2. CASE m[k] \in S
    <3>1. f[k] = Append(f[k-1], m[k])
      BY <1>1, <2>2
    <3>2. m[k] \in V \cap S
      BY <2>1, <2>2
    <3>3. Append(f[k-1], m[k]) \in Seq(V \cap S)
      BY <1>3, <3>2
    <3> QED BY <3>1, <3>3
  <2>3. CASE m[k] \notin S
    BY <1>1, <1>3, <2>3
  <2> QED BY <2>2, <2>3
<1>4. ASSUME Bad # {} PROVE FALSE
  <2>1. Bad \in SUBSET Nat
    OBVIOUS
  <2>2. PICK k \in Bad : \A j \in Bad : k <= j
    BY <1>4, <2>1, LeastNat
  <2>3. k # 0
    BY <1>2
  <2>4. k - 1 \in 0..Len(m) /\ k - 1 \notin Bad /\ k \in 1..Len(m)
    BY <1>2, <2>2, <2>3
  <2> QED BY <1>3, <2>4
<1>5. f[Len(m)] \in Seq(V \cap S)
  BY <1>2, <1>4
<1> QED BY <1>1, <1>5

\* The order of a selection is the order of m, and nothing in S is left out: the
\* i-th element of the selection stands at place p[i] of m.
LEMMA OnlyInOrder ==
  ASSUME NEW V, NEW m \in Seq(V), NEW S
  PROVE  \E p \in [1..Len(Only(m, S)) -> 1..Len(m)] :
           /\ \A i \in 1..Len(Only(m, S)) : Only(m, S)[i] = m[p[i]]
           /\ \A i, j \in 1..Len(Only(m, S)) : i < j => p[i] < p[j]
           /\ \A k \in 1..Len(m) : m[k] \in S => \E i \in 1..Len(Only(m, S)) : p[i] = k
<1>1. PICK f : /\ f[0] = <<>>
               /\ \A k \in 1..Len(m) :
                    f[k] = IF m[k] \in S THEN Append(f[k-1], m[k]) ELSE f[k-1]
               /\ Only(m, S) = f[Len(m)]
  BY OnlyBuilt
<1> DEFINE Placed(g, k) ==
      /\ g \in Seq(V)
      /\ \E p \in [1..Len(g) -> 1..k] :
           /\ \A i \in 1..Len(g) : g[i] = m[p[i]]
           /\ \A i, j \in 1..Len(g) : i < j => p[i] < p[j]
           /\ \A n \in 1..k : m[n] \in S => \E i \in 1..Len(g) : p[i] = n
    Bad == {k \in 0..Len(m) : ~Placed(f[k], k)}
<1>2. Placed(<<>>, 0)
  <2>1. 1..Len(<<>>) = {} /\ 1..0 = {} /\ <<>> \in Seq(V)
    OBVIOUS
  <2>2. [i \in {} |-> i] \in [1..Len(<<>>) -> 1..0]
    BY <2>1
  <2> QED BY <2>1, <2>2
<1>3. ASSUME NEW g, NEW k \in 1..Len(m), Placed(g, k-1), m[k] \in S
      PROVE  Placed(Append(g, m[k]), k)
  <2>1. PICK p \in [1..Len(g) -> 1..(k-1)] :
           /\ \A i \in 1..Len(g) : g[i] = m[p[i]]
           /\ \A i, j \in 1..Len(g) : i < j => p[i] < p[j]
           /\ \A n \in 1..(k-1) : m[n] \in S => \E i \in 1..Len(g) : p[i] = n
    BY <1>3
  <2> DEFINE h == Append(g, m[k])
             q == [i \in 1..(Len(g) + 1) |-> IF i = Len(g) + 1 THEN k ELSE p[i]]
  <2>2. g \in Seq(V) /\ m[k] \in V /\ Len(g) \in Nat
    BY <1>3
  <2>3. /\ h \in Seq(V) /\ Len(h) = Len(g) + 1 /\ h[Len(g) + 1] = m[k]
        /\ \A i \in 1..Len(g) : h[i] = g[i]
    BY <2>2
  <2>4. q \in [1..Len(h) -> 1..k]
    BY <2>2, <2>3
  <2>5. \A i \in 1..Len(h) : h[i] = m[q[i]]
    BY <2>1, <2>2, <2>3
  <2>6. \A i, j \in 1..Len(h) : i < j => q[i] < q[j]
    <3> SUFFICES ASSUME NEW i \in 1..Len(h), NEW j \in 1..Len(h), i < j
                 PROVE  q[i] < q[j]
      OBVIOUS
    <3>1. i \in 1..Len(g) /\ q[i] = p[i] /\ p[i] \in 1..(k-1)
      <4>1. i \in 1..Len(g)
        <5> HIDE DEF h, q
        <5>1. Len(h) = Len(g) + 1 /\ Len(g) \in Nat
          BY <2>2, <2>3
        <5> QED BY <5>1
      <4>2. q[i] = p[i]
        BY <2>2, <4>1
      <4> QED BY <4>1, <4>2
    <3>2. CASE j = Len(g) + 1
      BY <2>2, <2>3, <3>1, <3>2
    <3>3. CASE j # Len(g) + 1
      <4>1. j \in 1..Len(g)
        <5> HIDE DEF h, q
        <5>1. Len(h) = Len(g) + 1
          BY <2>3
        <5>2. Len(g) \in Nat
          BY <2>2
        <5> QED BY <3>3, <5>1, <5>2
      <4>2. q[j] = p[j]
        BY <2>2, <3>3, <4>1
      <4> QED BY <2>1, <3>1, <4>1, <4>2
    <3> QED BY <3>2, <3>3
  <2>7. \A n \in 1..k : m[n] \in S => \E i \in 1..Len(h) : q[i] = n
    <3> SUFFICES ASSUME NEW n \in 1..k, m[n] \in S
                 PROVE  \E i \in 1..Len(h) : q[i] = n
      OBVIOUS
    <3>1. CASE n = k
      <4>1. Len(g) + 1 \in 1..Len(h) /\ q[Len(g) + 1] = k
        BY <2>2, <2>3
      <4> QED BY <3>1, <4>1
    <3>2. CASE n # k
      <4>1. PICK i \in 1..Len(g) : p[i] = n
        BY <2>1, <3>2
      <4>2. i \in 1..Len(h) /\ q[i] = n
        BY <2>2, <2>3, <4>1
      <4> QED BY <4>2
    <3> QED BY <3>1, <3>2
  <2> HIDE DEF h, q
  <2>8. Placed(h, k)
    BY <2>3, <2>4, <2>5, <2>6, <2>7
  <2> QED BY <2>8 DEF h
<1>4. ASSUME NEW g, NEW k \in 1..Len(m), Placed(g, k-1), m[k] \notin S
      PROVE  Placed(g, k)
  <2>1. PICK p \in [1..Len(g) -> 1..(k-1)] :
           /\ \A i \in 1..Len(g) : g[i] = m[p[i]]
           /\ \A i, j \in 1..Len(g) : i < j => p[i] < p[j]
           /\ \A n \in 1..(k-1) : m[n] \in S => \E i \in 1..Len(g) : p[i] = n
    BY <1>4
  <2>2. p \in [1..Len(g) -> 1..k]
    OBVIOUS
  <2>3. \A n \in 1..k : m[n] \in S => \E i \in 1..Len(g) : p[i] = n
    BY <1>4, <2>1
  <2> QED BY <1>4, <2>1, <2>2, <2>3
<1>5. Len(m) \in Nat
  OBVIOUS
<1>6. ASSUME Bad # {} PROVE FALSE
  <2> HIDE DEF Placed
  <2>1. Bad \in SUBSET Nat
    OBVIOUS
  <2>2. PICK k \in Bad : \A j \in Bad : k <= j
    BY <1>6, <2>1, LeastNat
  <2>3. k # 0
    BY <1>1, <1>2
  <2>4. k - 1 \in 0..Len(m) /\ k - 1 \notin Bad /\ k \in 1..Len(m)
    BY <1>5, <2>2, <2>3
  <2>5. Placed(f[k-1], k-1)
    BY <2>4
  <2>6. Placed(f[k], k)
    BY <1>1, <1>3, <1>4, <2>4, <2>5
  <2> QED BY <2>6
<1>7. Placed(Only(m, S), Len(m))
  <2> HIDE DEF Placed
  <2> QED BY <1>1, <1>5, <1>6
<1> QED BY <1>7

\* A selection has the elements of m that are in S.
LEMMA OnlyExactly ==
  ASSUME NEW V, NEW m \in Seq(V), NEW S
  PROVE  Members(Only(m, S)) = Members(m) \cap S
<1> DEFINE q == Only(m, S)
<1>1. m \in Seq(Members(m))
  BY DEF Members
<1>2. q \in Seq(Members(m) \cap S)
  BY <1>1, OnlyMembers
<1>3. PICK p \in [1..Len(q) -> 1..Len(m)] :
           /\ \A i \in 1..Len(q) : q[i] = m[p[i]]
           /\ \A k \in 1..Len(m) : m[k] \in S => \E i \in 1..Len(q) : p[i] = k
  BY OnlyInOrder
<1> HIDE DEF q
<1>4. Members(q) \subseteq Members(m) \cap S
  <2> DEFINE T == Members(m) \cap S
  <2>1. q \in Seq(T)
    BY <1>2
  <2> HIDE DEF T
  <2>2. Members(q) \subseteq T
    BY <2>1 DEF Members
  <2> QED BY <2>2 DEF T
<1>5. ASSUME NEW k \in 1..Len(m), m[k] \in S PROVE m[k] \in Members(q)
  BY <1>3, <1>5 DEF Members
<1>6. Members(m) \cap S \subseteq Members(q)
  BY <1>5 DEF Members
<1> QED BY <1>4, <1>6 DEF q

\* s lists T in the order of the keys.
Lists(s, T, key) ==
  /\ s \in [1..Cardinality(T) -> T]
  /\ \A i, j \in 1..Cardinality(T) : i < j => s[i] # s[j] /\ key[s[i]] <= key[s[j]]

\* An element with the least key, put before a list of the others, makes a list.
LEMMA LeastFirst ==
  ASSUME NEW T, IsFiniteSet(T), NEW key, \A y \in T : key[y] \in Nat,
         NEW x \in T, \A y \in T : key[x] <= key[y],
         NEW s, Lists(s, T \ {x}, key)
  PROVE  \E t : Lists(t, T, key)
<1> DEFINE n == Cardinality(T)
           t == [i \in 1..n |-> IF i = 1 THEN x ELSE s[i-1]]
<1>1. n \in Nat /\ Cardinality(T \ {x}) = n - 1 /\ n # 0
  BY FS_CardinalityType, FS_RemoveElement, FS_EmptySet
<1> HIDE DEF n
<1>2. /\ \A i \in 1..(n-1) : s[i] \in T /\ s[i] # x
      /\ \A i, j \in 1..(n-1) : i < j => s[i] # s[j] /\ key[s[i]] <= key[s[j]]
  BY <1>1 DEF Lists
<1>3. \A i \in 1..n : i # 1 => i - 1 \in 1..(n-1) /\ t[i] = s[i-1]
  BY <1>1
<1>4. t \in [1..n -> T] /\ \A i \in 1..n : t[i] = IF i = 1 THEN x ELSE s[i-1]
  BY <1>1, <1>2, <1>3
<1> HIDE DEF t
<1>5. ASSUME NEW i \in 1..n, NEW j \in 1..n, i < j
      PROVE  t[i] # t[j] /\ key[t[i]] <= key[t[j]]
  <2>1. j # 1 /\ j - 1 \in 1..(n-1) /\ t[j] = s[j-1] /\ t[j] \in T
    BY <1>1, <1>3, <1>4, <1>5
  <2>2. CASE i = 1
    BY <1>2, <1>4, <2>1, <2>2
  <2>3. CASE i # 1
    <3>1. i - 1 \in 1..(n-1) /\ t[i] = s[i-1] /\ i - 1 < j - 1
      BY <1>1, <1>3, <1>5, <2>3
    <3> QED BY <1>2, <2>1, <3>1
  <2> QED BY <2>2, <2>3
<1>6. Lists(t, T, key)
  BY <1>4, <1>5 DEF Lists, n
<1> QED BY <1>6

\* Sorting lists a set of any finite size.
LEMMA Sorts ==
  ASSUME NEW S, IsFiniteSet(S), NEW key, \A x \in S : key[x] \in Nat
  PROVE  /\ SortedBy(S, key) \in Seq(S)
         /\ Len(SortedBy(S, key)) = Cardinality(S) /\ Cardinality(S) \in Nat
         /\ \A i, j \in 1..Cardinality(S) : i < j =>
              /\ SortedBy(S, key)[i] # SortedBy(S, key)[j]
              /\ key[SortedBy(S, key)[i]] <= key[SortedBy(S, key)[j]]
<1> DEFINE Bad == {n \in Nat : \E T \in SUBSET S :
                     Cardinality(T) = n /\ ~\E s : Lists(s, T, key)}
<1>1. \A T \in SUBSET S : IsFiniteSet(T) /\ Cardinality(T) \in Nat
  BY FS_Subset, FS_CardinalityType
<1>2. ASSUME NEW n \in Bad, \A m \in Bad : n <= m PROVE FALSE
  <2>1. PICK T \in SUBSET S : Cardinality(T) = n /\ ~\E s : Lists(s, T, key)
    OBVIOUS
  <2>2. IsFiniteSet(T) /\ Cardinality(T) \in Nat
    BY <1>1
  <2>3. CASE T = {}
    <3>1. Cardinality(T) = 0 /\ 1..0 = {}
      BY <2>3, FS_EmptySet
    <3>2. [i \in {} |-> i] \in [1..Cardinality(T) -> T]
      BY <3>1
    <3>3. Lists([i \in {} |-> i], T, key)
      BY <3>1, <3>2 DEF Lists
    <3> QED BY <2>1, <3>3
  <2>4. CASE T # {}
    <3> DEFINE K == {key[x] : x \in T}
    <3>1. K \in SUBSET Nat /\ K # {}
      BY <2>4
    <3>2. PICK k \in K : \A m \in K : k <= m
      BY <3>1, LeastNat
    <3>3. PICK x \in T : k = key[x]
      OBVIOUS
    <3>4. \A y \in T : key[x] <= key[y] /\ key[y] \in Nat
      BY <3>2, <3>3
    <3> DEFINE U == T \ {x}
    <3>5. U \in SUBSET S /\ Cardinality(U) = n - 1 /\ Cardinality(U) \in Nat
      BY <1>1, <2>1, <2>2, FS_RemoveElement
    <3>6. n - 1 \notin Bad
      <4>1. n \in Nat
        OBVIOUS
      <4> HIDE DEF Bad
      <4> QED BY <1>2, <3>5, <4>1
    <3>7. PICK s : Lists(s, U, key)
      BY <3>5, <3>6
    <3>8. \E t : Lists(t, T, key)
      BY <2>2, <3>4, <3>7, LeastFirst
    <3> QED BY <2>1, <3>8
  <2> QED BY <2>3, <2>4
<1>3. Bad = {}
  <2>1. Bad \in SUBSET Nat
    OBVIOUS
  <2>2. ASSUME Bad # {} PROVE FALSE
    <3>1. PICK n \in Bad : \A m \in Bad : n <= m
      BY <2>1, <2>2, LeastNat
    <3> QED BY <1>2, <3>1
  <2> QED BY <2>2
<1>4. \E s : Lists(s, S, key)
  BY <1>1, <1>3
<1> DEFINE r == SortedBy(S, key)
<1>5. Lists(r, S, key)
  BY <1>4 DEF SortedBy, Lists
<1>6. Cardinality(S) \in Nat
  BY <1>1
<1> HIDE DEF r
<1>7. r \in Seq(S) /\ Len(r) = Cardinality(S)
  BY <1>5, <1>6 DEF Lists
<1> QED BY <1>5, <1>6, <1>7 DEF Lists, r

\* Nothing is left out of a sorted list.
LEMMA SortsAll ==
  ASSUME NEW S, IsFiniteSet(S), NEW key, \A x \in S : key[x] \in Nat, NEW x \in S
  PROVE  \E i \in 1..Cardinality(S) : SortedBy(S, key)[i] = x
<1> DEFINE n == Cardinality(S)
           s == SortedBy(S, key)
<1>1. /\ s \in Seq(S) /\ Len(s) = n /\ n \in Nat
      /\ \A i, j \in 1..n : i < j => s[i] # s[j]
  BY Sorts
<1> HIDE DEF s
<1>2. s \in [1..n -> S] /\ \A i \in 1..n : i \in Int
  BY <1>1
<1>3. \A i, j \in 1..n : s[i] = s[j] => i = j
  BY <1>1, <1>2
<1>4. s \in Injection(1..n, S)
  BY <1>2, <1>3 DEF Injection, IsInjective
<1>5. Cardinality(1..n) = n
  BY <1>1, FS_Interval
<1>6. s \in Surjection(1..n, S)
  BY <1>4, <1>5, FS_Injection
<1>7. \A y \in S : \E i \in 1..n : s[i] = y
  BY <1>6 DEF Surjection
<1> QED BY <1>7 DEF s

\* Two sequences over V, one after the other, are one.
LEMMA ConcatIsSeq ==
  ASSUME NEW V, NEW s \in Seq(V), NEW t \in Seq(V)
  PROVE  s \o t \in Seq(V)
OBVIOUS

\* What is joined from sequences over V is a sequence over V.
LEMMA JoinedSeq ==
  ASSUME NEW V, NEW q \in Seq(Seq(V))
  PROVE  Joined(q) \in Seq(V)
<1> DEFINE Step(g, n) == IF n = 0 THEN <<>> ELSE g[n-1] \o q[n]
           Fits(g, k) == g = [n \in 0..k |-> Step(g, n)]
           f == CHOOSE g : Fits(g, Len(q))
           Bad == {k \in Nat : k <= Len(q) /\ ~\E g : Fits(g, k) /\ g[k] \in Seq(V)}
<1>1. Len(q) \in Nat /\ \A k \in 1..Len(q) : q[k] \in Seq(V)
  OBVIOUS
<1>2. ASSUME NEW h, NEW k \in Nat \ {0}, k <= Len(q), Fits(h, k - 1), h[k-1] \in Seq(V)
      PROVE  \E g : Fits(g, k) /\ g[k] \in Seq(V)
  <2> DEFINE g == [n \in 0..k |-> IF n = k THEN Step(h, k) ELSE h[n]]
  <2>1. ASSUME NEW n \in 0..k PROVE g[n] = Step(g, n)
    <3>1. CASE n = k
      <4>1. k \in 0..k /\ k - 1 \in 0..k /\ k - 1 # k /\ k # 0
        OBVIOUS
      <4>2. g[k] = h[k-1] \o q[k] /\ g[k-1] = h[k-1]
        BY <4>1
      <4> QED BY <3>1, <4>1, <4>2
    <3>2. CASE n # k
      <4>1. n \in 0..(k-1) /\ (n # 0 => n - 1 \in 0..(k-1))
        BY <3>2
      <4>2. h[n] = Step(h, n)
        BY <1>2, <4>1
      <4>3. g[n] = h[n] /\ (n # 0 => g[n-1] = h[n-1])
        BY <3>2, <4>1
      <4> QED BY <4>2, <4>3
    <3> QED BY <3>1, <3>2
  <2>2. Fits(g, k)
    BY <2>1
  <2>3. g[k] = h[k-1] \o q[k]
    <3>1. k \in 0..k /\ k # 0
      OBVIOUS
    <3> QED BY <3>1
  <2>4. h[k-1] \o q[k] \in Seq(V)
    BY <1>1, <1>2, ConcatIsSeq
  <2> HIDE DEF g, Fits
  <2> QED BY <2>2, <2>3, <2>4
<1>3. \E g : Fits(g, 0) /\ g[0] \in Seq(V)
  <2> DEFINE g == [n \in 0..0 |-> <<>>]
  <2>1. Fits(g, 0) /\ g[0] = <<>> /\ <<>> \in Seq(V)
    OBVIOUS
  <2> HIDE DEF g, Fits
  <2> QED BY <2>1
<1>4. \E g : Fits(g, Len(q)) /\ g[Len(q)] \in Seq(V)
  <2> HIDE DEF Fits
  <2>1. ASSUME Bad # {} PROVE FALSE
    <3>1. PICK k \in Bad : \A j \in Bad : k <= j
      BY <2>1, LeastNat
    <3>2. k \in Nat \ {0} /\ k <= Len(q)
      BY <1>3
    <3>3. k - 1 \in Nat /\ k - 1 \notin Bad /\ k - 1 <= Len(q)
      <4> HIDE DEF Bad
      <4> QED BY <1>1, <3>1, <3>2
    <3> QED BY <1>2, <3>2, <3>3
  <2> QED BY <1>1, <2>1
<1>5. PICK g : Fits(g, Len(q)) /\ g[Len(q)] \in Seq(V)
  <2> HIDE DEF Fits
  <2> QED BY <1>4
<1>6. Fits(f, Len(q))
  <2> HIDE DEF Fits
  <2> QED BY <1>5
<1>7. f[Len(q)] = g[Len(q)]
  <2>1. /\ \A n \in 0..Len(q) : f[n] = Step(f, n)
        /\ \A n \in 0..Len(q) : g[n] = Step(g, n)
    <3> HIDE DEF f, Step
    <3> QED BY <1>5, <1>6
  <2> HIDE DEF f
  <2> DEFINE Differ == {n \in 0..Len(q) : f[n] # g[n]}
  <2>2. ASSUME Differ # {} PROVE FALSE
    <3>1. PICK n \in Differ : \A m \in Differ : n <= m
      <4>1. Differ \in SUBSET Nat
        OBVIOUS
      <4> QED BY <2>2, <4>1, LeastNat
    <3>2. n # 0
      BY <2>1
    <3>3. n - 1 \in 0..Len(q) /\ n - 1 \notin Differ
      BY <1>1, <3>1, <3>2
    <3> QED BY <2>1, <3>2, <3>3
  <2>3. Len(q) \in 0..Len(q)
    BY <1>1
  <2> QED BY <2>2, <2>3
<1>8. Joined(q) = f[Len(q)]
  BY DEF Joined
<1> HIDE DEF f, Fits
<1> QED BY <1>5, <1>7, <1>8
=============================================================================
