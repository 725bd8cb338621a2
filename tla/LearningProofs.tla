---------------------------- MODULE LearningProofs ----------------------------
(***************************************************************************)
(* Theorems about Learning: types, that no dataset leaks what it is         *)
(* measured on into what it is fitted to, that what a registered model has  *)
(* learnt from is marked, and that its dataset is on disk.                  *)
(***************************************************************************)
EXTENDS Learning, DataProofs, FiniteSetTheorems, SequenceTheorems

\* Parts of a sequence, cut at a and at b, make up the sequence.
LEMMA CutsMakeUp ==
  ASSUME NEW S, NEW s \in Seq(S), NEW a \in Nat, NEW b \in Nat, a <= b, b <= Len(s)
  PROVE  /\ SubSeq(s, 1, a) \in Seq(S) /\ SubSeq(s, a + 1, b) \in Seq(S)
         /\ SubSeq(s, b + 1, Len(s)) \in Seq(S)
         /\ SubSeq(s, 1, a) \o SubSeq(s, a + 1, b) \o SubSeq(s, b + 1, Len(s)) = s
<1> DEFINE x == SubSeq(s, 1, a)
           y == SubSeq(s, a + 1, b)
           z == SubSeq(s, b + 1, Len(s))
<1>1. Len(s) \in Nat /\ \A i \in 1..Len(s) : s[i] \in S
  BY ElementOfSeq
<1>2. x \in Seq(S) /\ Len(x) = a /\ \A i \in 1..a : x[i] = s[i]
  <2>1. \A i \in 1..a : s[i] \in S
    BY <1>1
  <2> QED BY <2>1, SubSeqProperties
<1>3. y \in Seq(S) /\ Len(y) = b - a /\ \A i \in 1..(b - a) : y[i] = s[a + i]
  <2>1. \A i \in (a+1)..b : s[i] \in S
    BY <1>1
  <2>2. /\ y \in Seq(S) /\ Len(y) = IF a + 1 <= b THEN b - (a + 1) + 1 ELSE 0
        /\ \A i \in 1..(b - (a + 1) + 1) : y[i] = s[(a + 1) + i - 1]
    BY <2>1, SubSeqProperties
  <2>3. b - (a + 1) + 1 = b - a /\ \A i \in 1..(b - a) : (a + 1) + i - 1 = a + i
    OBVIOUS
  <2> HIDE DEF y
  <2> QED BY <2>2, <2>3
<1>4. z \in Seq(S) /\ Len(z) = Len(s) - b /\ \A i \in 1..(Len(s) - b) : z[i] = s[b + i]
  <2>1. \A i \in (b+1)..Len(s) : s[i] \in S
    BY <1>1
  <2>2. /\ z \in Seq(S) /\ Len(z) = IF b + 1 <= Len(s) THEN Len(s) - (b + 1) + 1 ELSE 0
        /\ \A i \in 1..(Len(s) - (b + 1) + 1) : z[i] = s[(b + 1) + i - 1]
    BY <1>1, <2>1, SubSeqProperties
  <2>3. /\ Len(s) - (b + 1) + 1 = Len(s) - b
        /\ \A i \in 1..(Len(s) - b) : (b + 1) + i - 1 = b + i
    BY <1>1
  <2>4. z \in Seq(S) /\ Len(z) = Len(s) - b
    BY <1>1, <2>2
  <2> HIDE DEF z
  <2>5. \A i \in 1..(Len(s) - b) : z[i] = s[b + i]
    BY <2>2, <2>3
  <2> QED BY <2>4, <2>5
<1> HIDE DEF x, y, z
<1>5. /\ x \o y \in Seq(S) /\ Len(x \o y) = b
      /\ \A i \in 1..b : (x \o y)[i] = s[i]
  <2>1. /\ x \o y \in Seq(S) /\ Len(x \o y) = Len(x) + Len(y)
        /\ \A i \in 1..(Len(x) + Len(y)) :
             (x \o y)[i] = IF i <= Len(x) THEN x[i] ELSE y[i - Len(x)]
    BY <1>2, <1>3, ConcatProperties
  <2> DEFINE xy == x \o y
  <2> HIDE DEF xy
  <2>2. \A i \in 1..b : xy[i] = IF i <= a THEN x[i] ELSE y[i - a]
    BY <1>2, <1>3, <2>1 DEF xy
  <2>3. \A i \in 1..b : ~(i <= a) => i - a \in 1..(b - a) /\ a + (i - a) = i
    OBVIOUS
  <2>4. \A i \in 1..b : xy[i] = s[i]
    BY <1>2, <1>3, <2>2, <2>3
  <2>5. Len(x) + Len(y) = b
    BY <1>2, <1>3
  <2> QED BY <2>1, <2>4, <2>5 DEF xy
<1> DEFINE xy == x \o y
<1> HIDE DEF xy
<1>6. /\ xy \o z \in Seq(S) /\ Len(xy \o z) = Len(s)
      /\ \A i \in 1..Len(s) : (xy \o z)[i] = s[i]
  <2>1. /\ xy \o z \in Seq(S) /\ Len(xy \o z) = Len(xy) + Len(z)
        /\ \A i \in 1..(Len(xy) + Len(z)) :
             (xy \o z)[i] = IF i <= Len(xy) THEN xy[i] ELSE z[i - Len(xy)]
    BY <1>4, <1>5, ConcatProperties DEF xy
  <2> DEFINE w == xy \o z
  <2> HIDE DEF w
  <2>2. \A i \in 1..Len(s) : w[i] = IF i <= b THEN xy[i] ELSE z[i - b]
    BY <1>1, <1>4, <1>5, <2>1 DEF w, xy
  <2>3. \A i \in 1..Len(s) : ~(i <= b) => i - b \in 1..(Len(s) - b) /\ b + (i - b) = i
    BY <1>1
  <2>4. \A i \in 1..Len(s) : w[i] = s[i]
    BY <1>1, <1>4, <1>5, <2>2, <2>3 DEF xy
  <2> QED BY <1>1, <1>4, <1>5, <2>1, <2>4 DEF w, xy
<1>7. xy \o z = s
  BY <1>6, SeqEqual
<1> QED BY <1>2, <1>3, <1>4, <1>7 DEF x, y, z, xy

\* Splitting leaves every sample in one part, in order.
LEMMA SplitMakesUp ==
  ASSUME NEW S, NEW s \in Seq(S)
  PROVE  /\ \A k \in 1..3 : Split(s)[k] \in Seq(S)
         /\ Split(s)[1] \o Split(s)[2] \o Split(s)[3] = s
<1> DEFINE a == (7 * Len(s)) \div 10
           b == (85 * Len(s)) \div 100
<1>1. Len(s) \in Nat
  OBVIOUS
<1>2. a \in Nat /\ b \in Nat /\ a <= b /\ b <= Len(s)
  BY <1>1
<1> HIDE DEF a, b
<1>3. /\ SubSeq(s, 1, a) \in Seq(S) /\ SubSeq(s, a + 1, b) \in Seq(S)
      /\ SubSeq(s, b + 1, Len(s)) \in Seq(S)
      /\ SubSeq(s, 1, a) \o SubSeq(s, a + 1, b) \o SubSeq(s, b + 1, Len(s)) = s
  BY <1>2, CutsMakeUp
<1>4. Split(s) = <<SubSeq(s, 1, a), SubSeq(s, a + 1, b), SubSeq(s, b + 1, Len(s))>>
  BY DEF Split, a, b
<1>5. /\ Split(s)[1] = SubSeq(s, 1, a) /\ Split(s)[2] = SubSeq(s, a + 1, b)
      /\ Split(s)[3] = SubSeq(s, b + 1, Len(s))
  <2> DEFINE x == SubSeq(s, 1, a)
             y == SubSeq(s, a + 1, b)
             z == SubSeq(s, b + 1, Len(s))
  <2>1. Split(s) = <<x, y, z>>
    BY <1>4
  <2> HIDE DEF x, y, z
  <2>2. Split(s)[1] = x /\ Split(s)[2] = y /\ Split(s)[3] = z
    BY <2>1
  <2> QED BY <2>2 DEF x, y, z
<1>6. \A k \in 1..3 : k = 1 \/ k = 2 \/ k = 3
  OBVIOUS
<1> QED BY <1>3, <1>5, <1>6
-----------------------------------------------------------------------------
(* Datasets.                                                                *)

\* Feedback is well formed, and no two verdicts on an alert have one number.
Filings ==
  /\ feedback \in [FeedbackIds -> Feedback \cup {None}]
  /\ submissions \in 0..MaxSubmissions
  /\ \A f \in Filed : feedback[f].number <= submissions
  /\ \A f, g \in Filed : feedback[f].alert = feedback[g].alert
                           /\ feedback[f].number = feedback[g].number => f = g

\* NoLeakage for dataset s.
Tight(s) ==
  IF FromFeedback(s)
  THEN \A i, j \in 1..Len(Parts(s)) : i < j =>
         Parts(s)[i].at <= Parts(s)[j].at /\ Parts(s)[i].of # Parts(s)[j].of
  ELSE \A i \in 1..Len(Parts(s)) : Parts(s)[i].of[1] # Holdout

\* A dataset leaks nothing, is large enough and rests on feedback up to number n.
Sound(s, n) ==
  /\ s \in Dataset
  /\ Tight(s)
  /\ FromFeedback(s) => Len(Parts(s)) >= Minimum
  /\ \A i \in 1..Len(Parts(s)) : Parts(s)[i].number <= n

\* Submission v is one that dataset s has learnt from.
Uses(s, v) ==
  FromFeedback(s) /\ \E i \in 1..Len(Parts(s)) :
    v.alert = Parts(s)[i].of /\ v.number = Parts(s)[i].number

\* The parts of a dataset hold samples.
LEMMA PartsAreSamples ==
  ASSUME NEW s \in Dataset
  PROVE  Parts(s) \in Seq(Samples) /\ \A i \in 1..Len(Parts(s)) : Parts(s)[i] \in Samples
<1>1. /\ Fitted(s) \in Seq(Samples) /\ Calibrated(s) \in Seq(Samples)
      /\ Measured(s) \in Seq(Samples)
  BY DEF Dataset, Fitted, Calibrated, Measured
<1>2. Parts(s) \in Seq(Samples)
  BY <1>1, ConcatIsSeq DEF Parts
<1> QED BY <1>2, ElementOfSeq

\* The fields of feedback in the store.
LEMMA FiledIsFeedback ==
  ASSUME Filings, NEW f \in Filed
  PROVE  /\ f \in FeedbackIds /\ feedback[f] \in Feedback
         /\ feedback[f].alert \in Alerts /\ feedback[f].label \in Labels
         /\ feedback[f].stamp \in Nat /\ feedback[f].number \in Int
         /\ feedback[f].number <= submissions
<1>1. f \in FeedbackIds /\ feedback[f] # None
  BY DEF Filed
<1>2. feedback[f] \in Feedback
  BY <1>1 DEF Filings
<1> QED BY <1>1, <1>2 DEF Filings, Feedback

\* The dict keeps a usable verdict on a, for each labelled alert a.
LEMMA VerdictIsUsable ==
  ASSUME Filings, NEW d, NEW a \in Labelled(d)
  PROVE  Verdict(a) \in UsableIds /\ feedback[Verdict(a)].alert = a
<1> DEFINE V == {f \in UsableIds : feedback[f].alert = a}
           K == {feedback[f].stamp : f \in V}
<1>1. V # {}
  BY DEF Labelled
<1>2. \A f \in UsableIds : f \in Filed
  BY DEF UsableIds
<1>3. \A f \in V : feedback[f].stamp \in Nat
  BY <1>2, FiledIsFeedback
<1>4. K \in SUBSET Nat /\ K # {}
  BY <1>1, <1>3
<1>5. PICK k \in K : \A m \in K : k <= m
  BY <1>4, LeastNat
<1>6. PICK f \in V : k = feedback[f].stamp
  OBVIOUS
<1>7. \A g \in V : feedback[f].stamp <= feedback[g].stamp
  BY <1>5, <1>6
<1>8. f \in UsableIds /\ feedback[f].alert = a
      /\ \A g \in UsableIds : feedback[g].alert = a => feedback[f].stamp <= feedback[g].stamp
  BY <1>6, <1>7
<1> QED BY <1>8 DEF Verdict

\* The rows of a feedback dataset: one for each labelled alert, by time, with the
\* number of the verdict they come from.
LEMMA RowsAreOrdered ==
  ASSUME Filings, NEW d
  PROVE  /\ Rows(d) \in Seq(Samples)
         /\ Len(Rows(d)) = Cardinality(Labelled(d)) /\ Len(Rows(d)) \in Nat
         /\ \A i, j \in 1..Len(Rows(d)) : i < j =>
              Rows(d)[i].at <= Rows(d)[j].at /\ Rows(d)[i].of # Rows(d)[j].of
         /\ \A i \in 1..Len(Rows(d)) :
              \E f \in UsableIds : /\ Rows(d)[i].of = feedback[f].alert
                                   /\ Rows(d)[i].number = feedback[f].number
<1> DEFINE label(v) == IF v.label = "TRUE_POSITIVE" THEN 1 ELSE 0
           row(a) == Sample(a, label(feedback[Verdict(a)]), Time[a], feedback[Verdict(a)].number)
           A == Labelled(d)
           R == {row(a) : a \in A}
           key == [r \in R |-> r.at]
<1>1. Rows(d) = SortedBy(R, key)
  BY DEF Rows
<1>2. A \subseteq Alerts /\ IsFiniteSet(A)
  <2>1. A \subseteq Alerts /\ IsFiniteSet(Alerts)
    BY LearningAssumption DEF Labelled
  <2> QED BY <2>1, FS_Subset
<1>3. ASSUME NEW a \in A
      PROVE  /\ row(a).of = a /\ row(a).at = Time[a] /\ row(a).at \in Nat
             /\ row(a).number = feedback[Verdict(a)].number
             /\ Verdict(a) \in UsableIds /\ feedback[Verdict(a)].alert = a
             /\ row(a) \in Samples
  <2>1. Verdict(a) \in UsableIds /\ feedback[Verdict(a)].alert = a
    BY VerdictIsUsable
  <2>2. Verdict(a) \in Filed
    BY <2>1 DEF UsableIds
  <2>3. feedback[Verdict(a)].number \in Int
    BY <2>2, FiledIsFeedback
  <2>4. Time[a] \in Nat /\ a \in Alerts
    BY <1>2, LearningAssumption
  <2>5. label(feedback[Verdict(a)]) \in {0, 1}
    OBVIOUS
  <2>6. row(a) = [of |-> a, label |-> label(feedback[Verdict(a)]), at |-> Time[a],
                  number |-> feedback[Verdict(a)].number]
    BY DEF Sample
  <2> HIDE DEF row, label
  <2> QED BY <2>1, <2>3, <2>4, <2>5, <2>6 DEF Samples
<1> HIDE DEF row
<1>4. \A r \in R : r \in Samples /\ r.at \in Nat /\ key[r] = r.at
  BY <1>3
<1>5. \A q, r \in R : q.of = r.of => q = r
  <2> SUFFICES ASSUME NEW q \in R, NEW r \in R, q.of = r.of PROVE q = r
    OBVIOUS
  <2>1. PICK a \in A : q = row(a)
    OBVIOUS
  <2>2. PICK b \in A : r = row(b)
    OBVIOUS
  <2>3. a = b
    BY <1>3, <2>1, <2>2
  <2> QED BY <2>1, <2>2, <2>3
<1>6. IsFiniteSet(R) /\ Cardinality(R) = Cardinality(A)
  <2> DEFINE m == [a \in A |-> row(a)]
  <2>1. m \in [A -> R] /\ \A a \in A : m[a] = row(a)
    OBVIOUS
  <2>2. \A a, b \in A : m[a] = m[b] => a = b
    BY <1>3, <2>1
  <2>3. \A r \in R : \E a \in A : m[a] = r
    BY <2>1
  <2> HIDE DEF m, R, A
  <2>4. ExistsBijection(A, R)
    BY <2>1, <2>2, <2>3 DEF ExistsBijection, Bijection, Injection, Surjection, IsInjective
  <2> QED BY <1>2, <2>4, FS_Bijection
<1> DEFINE s == SortedBy(R, key)
<1>7. /\ s \in Seq(R) /\ Len(s) = Cardinality(R) /\ Cardinality(R) \in Nat
      /\ \A i, j \in 1..Cardinality(R) : i < j => s[i] # s[j] /\ key[s[i]] <= key[s[j]]
  <2> HIDE DEF R, key
  <2>1. \A r \in R : key[r] \in Nat
    BY <1>4
  <2> QED BY <1>6, <2>1, Sorts
<1> HIDE DEF s, R, key, A
<1>8. \A i \in 1..Len(s) : s[i] \in R
  BY <1>7, ElementOfSeq
<1>9. s \in Seq(Samples)
  <2>1. R \subseteq Samples
    BY <1>4
  <2> QED BY <1>7, <2>1, SeqMonotonic
<1>10. ASSUME NEW i \in 1..Len(s), NEW j \in 1..Len(s), i < j
       PROVE  s[i].at <= s[j].at /\ s[i].of # s[j].of
  <2>1. s[i] \in R /\ s[j] \in R /\ s[i] # s[j] /\ key[s[i]] <= key[s[j]]
    BY <1>7, <1>8, <1>10
  <2> QED BY <1>4, <1>5, <2>1
<1>11. ASSUME NEW i \in 1..Len(s)
       PROVE  \E f \in UsableIds : s[i].of = feedback[f].alert /\ s[i].number = feedback[f].number
  <2>1. PICK a \in A : s[i] = row(a)
    BY <1>8 DEF R
  <2> QED BY <1>3, <2>1
<1>12. Rows(d) = s
  BY <1>1 DEF s
<1> QED BY <1>6, <1>7, <1>9, <1>10, <1>11, <1>12 DEF A

\* A dataset from feedback is sound, and what it uses is usable.
LEMMA FeedbackDatasetSound ==
  ASSUME Filings, NEW d \in Detectors, Enough(d)
  PROVE  /\ Sound(FeedbackDataset(d), submissions)
         /\ FromFeedback(FeedbackDataset(d))
         /\ \A f \in Filed : Uses(FeedbackDataset(d), feedback[f]) => f \in UsableIds
<1> DEFINE rows == Rows(d)
           s == FeedbackDataset(d)
           id == <<"feedback", d, rows[1].at, Len(rows)>>
<1>1. /\ rows \in Seq(Samples) /\ Len(rows) = Cardinality(Labelled(d)) /\ Len(rows) \in Nat
      /\ \A i, j \in 1..Len(rows) : i < j =>
           rows[i].at <= rows[j].at /\ rows[i].of # rows[j].of
      /\ \A i \in 1..Len(rows) :
           \E f \in UsableIds : /\ rows[i].of = feedback[f].alert
                                /\ rows[i].number = feedback[f].number
  BY RowsAreOrdered
<1>2. Minimum \in Nat \ {0} /\ Len(rows) >= Minimum
  BY <1>1, LearningAssumption DEF Enough
<1>3. /\ \A k \in 1..3 : Split(rows)[k] \in Seq(Samples)
      /\ Split(rows)[1] \o Split(rows)[2] \o Split(rows)[3] = rows
  <2> HIDE DEF rows
  <2> QED BY <1>1, SplitMakesUp
<1>4. rows[1].at \in Nat
  <2>1. 1 \in 1..Len(rows)
    BY <1>1, <1>2
  <2> HIDE DEF rows
  <2>2. rows[1] \in Samples
    BY <1>1, <2>1
  <2> QED BY <2>2 DEF Samples
<1>5. s = [id |-> id, train |-> Split(rows)[1], validation |-> Split(rows)[2],
           test |-> Split(rows)[3], unseen |-> <<>>]
  BY DEF FeedbackDataset
<1> HIDE DEF rows
<1>6. id \in Ids /\ id[1] = "feedback"
  BY <1>1, <1>4 DEF Ids
<1> HIDE DEF s, id
<1>7. /\ s.id = id /\ s.train = Split(rows)[1] /\ s.validation = Split(rows)[2]
      /\ s.test = Split(rows)[3]
  BY <1>5
<1>8. s \in Dataset
  <2>1. <<>> \in Seq(Samples)
    BY EmptySeq
  <2>2. \A x, y, z \in Seq(Samples) :
          [id |-> id, train |-> x, validation |-> y, test |-> z, unseen |-> <<>>] \in Dataset
    BY <1>6, <2>1 DEF Dataset
  <2>3. /\ Split(rows)[1] \in Seq(Samples) /\ Split(rows)[2] \in Seq(Samples)
        /\ Split(rows)[3] \in Seq(Samples)
    BY <1>3
  <2> QED BY <1>5, <2>2, <2>3
<1>9. FromFeedback(s)
  BY <1>6, <1>7 DEF FromFeedback
<1>10. Parts(s) = rows
  BY <1>3, <1>7 DEF Parts, Fitted, Calibrated, Measured
<1>11. Tight(s)
  BY <1>1, <1>9, <1>10 DEF Tight
<1>12. \A f \in UsableIds : f \in Filed
  BY DEF UsableIds
<1>13. \A i \in 1..Len(rows) : rows[i].number <= submissions
  <2> SUFFICES ASSUME NEW i \in 1..Len(rows) PROVE rows[i].number <= submissions
    OBVIOUS
  <2>1. PICK f \in UsableIds : rows[i].number = feedback[f].number
    BY <1>1
  <2> QED BY <1>12, <2>1, FiledIsFeedback
<1>14. Sound(s, submissions)
  BY <1>2, <1>8, <1>10, <1>11, <1>13 DEF Sound
<1>15. ASSUME NEW f \in Filed, Uses(s, feedback[f]) PROVE f \in UsableIds
  <2>1. PICK i \in 1..Len(rows) : /\ feedback[f].alert = rows[i].of
                                  /\ feedback[f].number = rows[i].number
    BY <1>10, <1>15 DEF Uses
  <2>2. PICK g \in UsableIds : rows[i].of = feedback[g].alert /\ rows[i].number = feedback[g].number
    BY <1>1
  <2>3. f = g
    BY <1>12, <2>1, <2>2 DEF Filings
  <2> QED BY <2>2, <2>3
<1> QED BY <1>9, <1>14, <1>15 DEF s

\* Lab samples that are not of the family held out.
LabSamples == {r \in Samples : r.of[1] # Holdout /\ r.number = 0}

\* Names of a trained family, and benign names, are such samples.
LEMMA GeneratedSamples ==
  ASSUME NEW run \in LabRuns
  PROVE  /\ \A f \in Families : Generated(f, run) \in Seq(Samples)
         /\ \A f \in Families \ {Holdout} : Generated(f, run) \in Seq(LabSamples)
         /\ Benign(run) \in Seq(LabSamples)
<1>1. run.seed \in Nat /\ run.perFamily \in Nat /\ run.benign \in Nat
  BY LearningAssumption
<1>2. Holdout # "benign"
  BY LearningAssumption
<1>3. ASSUME NEW f \in Families
      PROVE  /\ Generated(f, run) \in Seq(Samples)
             /\ f # Holdout => Generated(f, run) \in Seq(LabSamples)
  <2> DEFINE r == Sample(<<f, run.seed>>, 1, 0, 0)
             g == [i \in 1..run.perFamily |-> r]
             n == run.perFamily
  <2>1. r.of = <<f, run.seed>> /\ r.number = 0
        /\ r = [of |-> <<f, run.seed>>, label |-> 1, at |-> 0, number |-> 0]
    BY DEF Sample
  <2>2. <<f, run.seed>> \in Families \X Nat /\ <<f, run.seed>>[1] = f
    BY <1>1
  <2>3. r \in Samples
    BY <2>1, <2>2 DEF Samples
  <2>4. f # Holdout => r \in LabSamples
    BY <2>1, <2>2, <2>3 DEF LabSamples
  <2>5. Generated(f, run) = g /\ n \in Nat
    BY <1>1 DEF Generated
  <2> HIDE DEF r, n
  <2>6. \A S : r \in S => g \in Seq(S)
    <3> SUFFICES ASSUME NEW S, r \in S PROVE g \in Seq(S)
      OBVIOUS
    <3>1. g \in [1..n -> S]
      BY DEF n
    <3> HIDE DEF g
    <3> QED BY <2>5, <3>1
  <2> QED BY <2>3, <2>4, <2>5, <2>6
<1>4. Benign(run) \in Seq(LabSamples)
  <2> DEFINE r(i) == Sample(<<"benign", run.seed, i>>, 0, 0, 0)
             n == run.benign
             g == [i \in 1..n |-> r(i)]
  <2>1. ASSUME NEW i \in 1..n PROVE r(i) \in LabSamples
    <3>1. r(i).of = <<"benign", run.seed, i>> /\ r(i).number = 0
          /\ r(i) = [of |-> <<"benign", run.seed, i>>, label |-> 0, at |-> 0, number |-> 0]
      BY DEF Sample
    <3>2. i \in Nat
      BY <1>1
    <3>3. /\ <<"benign", run.seed, i>> \in {"benign"} \X Nat \X Nat
          /\ <<"benign", run.seed, i>>[1] = "benign"
      BY <1>1, <3>2
    <3>4. r(i) \in Samples
      BY <3>1, <3>3 DEF Samples
    <3> QED BY <1>2, <3>1, <3>3, <3>4 DEF LabSamples
  <2>2. Benign(run) = g /\ n \in Nat
    BY <1>1 DEF Benign
  <2> HIDE DEF r, n
  <2>3. g \in [1..n -> LabSamples]
    BY <2>1
  <2> HIDE DEF g
  <2> QED BY <2>2, <2>3
<1> QED BY <1>3, <1>4

\* A lab dataset is sound: the family held out is in none of its three parts.
LEMMA LabDatasetSound ==
  ASSUME NEW run \in LabRuns, NEW n \in Nat
  PROVE  Sound(LabDataset(run), n) /\ ~FromFeedback(LabDataset(run))
<1> DEFINE trained == SortedBy(Families \ {Holdout}, [f \in Families |-> 0])
           dga(k) == [i \in 1..Len(trained) |-> Split(Generated(trained[i], run))[k]]
           part(k) == Joined(dga(k)) \o Split(Benign(run))[k]
           unseen == Generated(Holdout, run) \o Split(Benign(run))[3]
           id == <<"lab", run.seed, run.perFamily * Cardinality(Families) + run.benign>>
           s == LabDataset(run)
<1>1. s = [id |-> id, train |-> part(1), validation |-> part(2), test |-> part(3),
           unseen |-> unseen]
  BY DEF LabDataset
<1>2. IsFiniteSet(Families) /\ Holdout \in Families
  BY LearningAssumption
<1>3. trained \in Seq(Families \ {Holdout}) /\ Len(trained) \in Nat
  <2> DEFINE key == [f \in Families |-> 0]
             F == Families \ {Holdout}
  <2>1. IsFiniteSet(F) /\ \A f \in F : key[f] \in Nat
    BY <1>2, FS_Subset
  <2> HIDE DEF key, F
  <2>2. SortedBy(F, key) \in Seq(F)
    BY <2>1, Sorts
  <2>3. trained \in Seq(F)
    BY <2>2 DEF F, key
  <2> HIDE DEF trained
  <2> QED BY <2>3 DEF F
<1> HIDE DEF trained
<1>4. \A i \in 1..Len(trained) : trained[i] \in Families \ {Holdout}
  BY <1>3, ElementOfSeq
<1>5. /\ Benign(run) \in Seq(LabSamples) /\ Generated(Holdout, run) \in Seq(Samples)
      /\ \A i \in 1..Len(trained) : Generated(trained[i], run) \in Seq(LabSamples)
  BY <1>2, <1>4, GeneratedSamples
<1>6. \A k \in 1..3 : Split(Benign(run))[k] \in Seq(LabSamples)
  BY <1>5, SplitMakesUp
<1>7. ASSUME NEW k \in 1..3 PROVE part(k) \in Seq(LabSamples)
  <2>1. \A i \in 1..Len(trained) : Split(Generated(trained[i], run))[k] \in Seq(LabSamples)
    BY <1>5, SplitMakesUp
  <2> DEFINE q == dga(k)
  <2>2. q \in [1..Len(trained) -> Seq(LabSamples)]
    BY <2>1
  <2> HIDE DEF q
  <2>3. q \in Seq(Seq(LabSamples))
    BY <1>3, <2>2
  <2>4. Joined(q) \in Seq(LabSamples)
    BY <2>3, JoinedSeq
  <2>5. part(k) = Joined(q) \o Split(Benign(run))[k]
    BY DEF q
  <2> QED BY <1>6, <2>4, <2>5, ConcatIsSeq
<1> HIDE DEF part
<1>8. part(1) \in Seq(LabSamples) /\ part(2) \in Seq(LabSamples) /\ part(3) \in Seq(LabSamples)
  BY <1>7
<1>9. LabSamples \subseteq Samples
  BY DEF LabSamples
<1>10. unseen \in Seq(Samples)
  <2>1. Split(Benign(run))[3] \in Seq(Samples)
    <3>1. Split(Benign(run))[3] \in Seq(LabSamples)
      BY <1>6
    <3> QED BY <1>9, <3>1, SeqMonotonic
  <2> QED BY <1>5, <2>1, ConcatIsSeq
<1> HIDE DEF unseen
<1>11. id \in Ids /\ id[1] = "lab"
  <2>1. run.seed \in Nat /\ run.perFamily \in Nat /\ run.benign \in Nat
    BY LearningAssumption
  <2>2. Cardinality(Families) \in Nat
    BY <1>2, FS_CardinalityType
  <2> DEFINE m == run.perFamily * Cardinality(Families) + run.benign
  <2>3. m \in Nat
    BY <2>1, <2>2
  <2>4. id = <<"lab", run.seed, m>>
    OBVIOUS
  <2> HIDE DEF m
  <2>5. <<"lab", run.seed, m>> \in {"lab"} \X Nat \X Nat /\ <<"lab", run.seed, m>>[1] = "lab"
    BY <2>1, <2>3
  <2> HIDE DEF id
  <2> QED BY <2>4, <2>5 DEF Ids
<1> HIDE DEF id, s
<1>12. s \in Dataset
  <2>1. part(1) \in Seq(Samples) /\ part(2) \in Seq(Samples) /\ part(3) \in Seq(Samples)
    BY <1>8, <1>9, SeqMonotonic
  <2> QED BY <1>1, <1>10, <1>11, <2>1 DEF Dataset
<1>13. /\ s.id = id /\ s.train = part(1) /\ s.validation = part(2) /\ s.test = part(3)
  BY <1>1
<1>14. ~FromFeedback(s)
  BY <1>11, <1>13 DEF FromFeedback
<1>15. Parts(s) \in Seq(LabSamples)
  <2>1. part(1) \o part(2) \in Seq(LabSamples)
    BY <1>8, ConcatIsSeq
  <2>2. part(1) \o part(2) \o part(3) \in Seq(LabSamples)
    BY <1>8, <2>1, ConcatIsSeq
  <2> QED BY <1>13, <2>2 DEF Parts, Fitted, Calibrated, Measured
<1>16. \A i \in 1..Len(Parts(s)) : Parts(s)[i] \in LabSamples
  BY <1>15, ElementOfSeq
<1>17. \A i \in 1..Len(Parts(s)) : Parts(s)[i].of[1] # Holdout /\ Parts(s)[i].number = 0
  BY <1>16 DEF LabSamples
<1>18. Tight(s)
  BY <1>14, <1>17 DEF Tight
<1>19. Sound(s, n)
  BY <1>12, <1>14, <1>17, <1>18 DEF Sound
<1> QED BY <1>14, <1>19 DEF s
-----------------------------------------------------------------------------
(* The inductive invariant.                                                 *)

FileNames ==
  {"train", "validation", "test", "unseen_family", "metadata", "split_provenance"}

\* A builder has a dataset exactly while it marks or saves it.
Builds ==
  /\ phase \in [Builders -> {"new", "mark", "save", "done"}]
  /\ usable \in [Builders -> SUBSET FeedbackIds]
  /\ data \in [Builders -> Dataset \cup {None}]
  /\ left \in [Builders -> Seq(FileNames)]
  /\ crashes \in 0..MaxCrashes
  /\ models \in SUBSET Dataset
  /\ \A b \in Builders : data[b] # None <=> phase[b] \in {"mark", "save"}
  /\ \A b \in Builders : left[b] # <<>> => phase[b] = "save"
  /\ \A b \in Builders : usable[b] \subseteq Filed

\* Every dataset there is, is sound.
AllSound ==
  /\ \A s \in models : Sound(s, submissions)
  /\ \A b \in Builders : phase[b] \in {"mark", "save"} => Sound(data[b], submissions)

\* What a dataset has learnt from will be marked, or is.
Marked ==
  /\ \A b \in Builders : phase[b] = "mark" =>
       \A f \in Filed : Uses(data[b], feedback[f]) => f \in usable[b]
  /\ \A b \in Builders : phase[b] = "save" =>
       \A f \in Filed : Uses(data[b], feedback[f]) => feedback[f].consumed # None
  /\ \A s \in models : \A f \in Filed : Uses(s, feedback[f]) => feedback[f].consumed # None

\* Nobody else saves under the id of dataset s, and nobody died there.
Undisturbed(s) ==
  s.id \notin broken /\ \A other \in begun : other.id = s.id => other = s

\* The file of that name holds dataset s, or who cut it last has it open.
Whole(s, name) ==
  \/ Content(<<s.id, name>>) = s
  \/ \E o \in open : Content(<<s.id, name>>) = o /\ File(o) = <<s.id, name>>

\* A file that nobody disturbs is still to write or whole, and so is one that is open.
Saved ==
  /\ \A o \in open : /\ o \in Builders /\ phase[o] = "save"
                     /\ left[o] # <<>> /\ data[o] \in begun
  /\ \A b \in Builders : phase[b] = "save" /\ Undisturbed(data[b]) =>
       \A name \in Members(FilesOf(data[b])) :
         name \in Members(left[b]) \/ Whole(data[b], name)
  /\ \A o \in open : Undisturbed(data[o]) => Whole(data[o], Head(left[o]))
  /\ \A s \in models : Undisturbed(s) =>
       \A name \in Members(FilesOf(s)) : Whole(s, name)

\* The files of a dataset are a list of names.
LEMMA FilesAreNames ==
  ASSUME NEW s
  PROVE  FilesOf(s) \in Seq(FileNames)
<1> DEFINE x == <<"train", "validation", "test">>
           y == IF s.id[1] = "lab" THEN <<"unseen_family">> ELSE <<>>
           z == <<"metadata", "split_provenance">>
<1>0. ASSUME NEW S, NEW a \in S, NEW b \in S, NEW c \in S
      PROVE  <<a>> \in Seq(S) /\ <<a, b>> \in Seq(S) /\ <<a, b, c>> \in Seq(S)
  OBVIOUS
<1>1. {"train", "validation", "test", "unseen_family", "metadata", "split_provenance"}
        \subseteq FileNames
  BY DEF FileNames
<1>2. x \in Seq(FileNames)
  BY <1>0, <1>1
<1>3. y \in Seq(FileNames)
  <2>1. <<"unseen_family">> \in Seq(FileNames) /\ <<>> \in Seq(FileNames)
    BY <1>0, <1>1, EmptySeq
  <2> QED BY <2>1
<1>4. z \in Seq(FileNames)
  BY <1>0, <1>1
<1>5. FilesOf(s) = x \o y \o z
  BY DEF FilesOf
<1> HIDE DEF x, y, z
<1> QED BY <1>2, <1>3, <1>4, <1>5, ConcatIsSeq

\* A dataset that is sound stays so when more feedback comes.
LEMMA SoundGrows ==
  ASSUME NEW m \in Int, NEW n \in Int, m <= n, NEW s, Sound(s, m)
  PROVE  Sound(s, n)
<1>1. \A i \in 1..Len(Parts(s)) : Parts(s)[i].number \in Int
  BY PartsAreSamples DEF Sound, Samples
<1> QED BY <1>1 DEF Sound

\* A dataset is not None, and neither is its id or feedback.
LEMMA NotNone ==
  /\ \A s \in Dataset : s # None /\ s.id \in Ids /\ s.id # None
  /\ \A v \in Feedback : v # None
  /\ \A b \in Builders : b # None
BY NoneAssumption DEF Dataset

\* At the start there is feedback and nothing is built.
LEMMA LearningStarts ==
  Init => Filings /\ Builds /\ AllSound /\ Marked /\ Saved
<1> SUFFICES ASSUME Init PROVE Filings /\ Builds /\ AllSound /\ Marked /\ Saved
  OBVIOUS
<1>1. /\ feedback = Reviewed /\ models = {} /\ submissions = 0 /\ crashes = 0
      /\ phase = [b \in Builders |-> "new"] /\ usable = [b \in Builders |-> {}]
      /\ data = [b \in Builders |-> None] /\ left = [b \in Builders |-> <<>>]
      /\ open = {}
  BY DEF Init
<1>2. MaxSubmissions \in Nat /\ MaxCrashes \in Nat
  BY LearningAssumption
<1>3. Filings
  BY <1>1, <1>2, ReviewedAssumption DEF Filings, Filed
<1>4. \A b \in Builders : phase[b] = "new" /\ usable[b] = {} /\ data[b] = None /\ left[b] = <<>>
  BY <1>1
<1>5. <<>> \in Seq(FileNames)
  BY EmptySeq
<1>6. Builds
  BY <1>1, <1>2, <1>4, <1>5 DEF Builds
<1> QED BY <1>1, <1>3, <1>4, <1>6 DEF AllSound, Marked, Saved

\* Feedback only grows or is marked: no step forgets a submission's alert or number
\* but by replacing it with a newer one.
LEMMA FilingsKept ==
  ASSUME Filings, Builds, [Next]_vars
  PROVE  /\ Filings' /\ Filed \subseteq Filed'
         /\ submissions' \in Int /\ submissions <= submissions'
<1> USE DEF local, saving
<1>f. /\ feedback \in [FeedbackIds -> Feedback \cup {None}]
      /\ submissions \in 0..MaxSubmissions /\ submissions \in Int
      /\ MaxSubmissions \in Nat
  BY LearningAssumption DEF Filings
<1>s. ASSUME UNCHANGED <<feedback, submissions>>
      PROVE  /\ Filings' /\ Filed \subseteq Filed'
             /\ submissions' \in Int /\ submissions <= submissions'
  BY <1>f, <1>s DEF Filings, Filed
<1>1. ASSUME NEW post \in Posts, Submit(post)
      PROVE  /\ Filings' /\ Filed \subseteq Filed'
             /\ submissions' \in Int /\ submissions <= submissions'
  <2> DEFINE f == post.id
             v == [alert |-> post.alert, label |-> post.label, stamp |-> post.stamp,
                   number |-> submissions + 1, consumed |-> None]
  <2>1. /\ submissions < MaxSubmissions /\ submissions' = submissions + 1
        /\ feedback' = [feedback EXCEPT ![f] = v]
    BY <1>1 DEF Submit
  <2>2. v \in Feedback /\ v.number = submissions + 1 /\ f \in FeedbackIds
    <3>1. post \in [id : FeedbackIds, alert : Alerts, label : Labels, stamp : Nat]
      BY LearningAssumption
    <3> QED BY <1>f, <3>1 DEF Feedback
  <2> HIDE DEF v, f
  <2>3. v # None
    BY <2>2, NotNone
  <2>4. feedback' \in [FeedbackIds -> Feedback \cup {None}]
    BY <1>f, <2>1, <2>2
  <2>5. /\ Filed' = Filed \cup {f}
        /\ \A g \in Filed' : feedback'[g] = IF g = f THEN v ELSE feedback[g]
    BY <1>f, <2>1, <2>2, <2>3 DEF Filed
  <2>6. \A g \in Filed : feedback[g].number \in Int /\ feedback[g].number <= submissions
    BY FiledIsFeedback
  <2>7. \A g \in Filed' : g # f => g \in Filed
    BY <2>5
  <2>8. (\A g \in Filed : feedback[g].number <= submissions)'
    BY <1>f, <2>1, <2>2, <2>5, <2>6, <2>7
  <2>9. (\A g, h \in Filed : feedback[g].alert = feedback[h].alert
                              /\ feedback[g].number = feedback[h].number => g = h)'
    <3> SUFFICES ASSUME NEW g \in Filed', NEW h \in Filed',
                        feedback'[g].alert = feedback'[h].alert,
                        feedback'[g].number = feedback'[h].number
                 PROVE  g = h
      OBVIOUS
    <3>1. CASE g # f /\ h # f
      BY <2>5, <2>7, <3>1 DEF Filings
    <3>2. CASE g = f /\ h # f
      BY <1>f, <2>2, <2>5, <2>6, <2>7, <3>2
    <3>3. CASE g # f /\ h = f
      BY <1>f, <2>2, <2>5, <2>6, <2>7, <3>3
    <3> QED BY <3>1, <3>2, <3>3
  <2>10. submissions' \in 0..MaxSubmissions /\ submissions' \in Int /\ submissions <= submissions'
    BY <1>f, <2>1
  <2> QED BY <2>4, <2>5, <2>8, <2>9, <2>10 DEF Filings
<1>2. ASSUME NEW b \in Builders, NEW run \in LabRuns, BuildLab(b, run)
      PROVE  UNCHANGED <<feedback, submissions>>
  BY <1>2 DEF BuildLab
<1>3. ASSUME NEW b \in Builders, NEW d \in Detectors, BuildFromFeedback(b, d)
      PROVE  UNCHANGED <<feedback, submissions>>
  BY <1>3 DEF BuildFromFeedback
<1>4. ASSUME NEW b \in Builders, Mark(b)
      PROVE  /\ Filings' /\ Filed \subseteq Filed'
             /\ submissions' \in Int /\ submissions <= submissions'
  <2>1. /\ phase[b] = "mark" /\ submissions' = submissions
        /\ feedback' = [f \in FeedbackIds |->
             IF f \in usable[b] THEN Consume(f, data[b].id) ELSE feedback[f]]
    BY <1>4 DEF Mark
  <2>2. data[b] \in Dataset /\ usable[b] \subseteq Filed
    BY <2>1 DEF Builds
  <2>3. data[b].id \in Ids
    BY <2>2, NotNone
  <2>4. ASSUME NEW f \in Filed
        PROVE  /\ Consume(f, data[b].id) \in Feedback
               /\ Consume(f, data[b].id).alert = feedback[f].alert
               /\ Consume(f, data[b].id).number = feedback[f].number
    <3>1. feedback[f] \in Feedback
      BY FiledIsFeedback
    <3> QED BY <2>3, <3>1 DEF Consume, Feedback
  <2>5. \A f \in FeedbackIds :
          feedback'[f] = IF f \in usable[b] THEN Consume(f, data[b].id) ELSE feedback[f]
    BY <2>1
  <2>6. feedback' \in [FeedbackIds -> Feedback \cup {None}]
    <3>1. \A f \in FeedbackIds : feedback'[f] \in Feedback \cup {None}
      BY <1>f, <2>2, <2>4, <2>5
    <3> QED BY <2>1, <3>1
  <2>7. Filed' = Filed
    <3>1. \A f \in FeedbackIds : feedback'[f] # None <=> feedback[f] # None
      <4> SUFFICES ASSUME NEW f \in FeedbackIds
                   PROVE  feedback'[f] # None <=> feedback[f] # None
        OBVIOUS
      <4>1. CASE f \in usable[b]
        <5>1. f \in Filed
          BY <2>2, <4>1
        <5>2. feedback'[f] \in Feedback /\ feedback[f] \in Feedback
          BY <2>4, <2>5, <4>1, <5>1, FiledIsFeedback
        <5> QED BY <5>2, NotNone
      <4>2. CASE f \notin usable[b]
        BY <2>5, <4>2
      <4> QED BY <4>1, <4>2
    <3> QED BY <3>1 DEF Filed
  <2>8. \A f \in Filed : /\ feedback'[f].alert = feedback[f].alert
                         /\ feedback'[f].number = feedback[f].number
    <3>1. \A f \in Filed : f \in FeedbackIds
      BY DEF Filed
    <3> QED BY <2>4, <2>5, <3>1
  <2>9. (\A f \in Filed : feedback[f].number <= submissions)'
    BY <2>1, <2>7, <2>8 DEF Filings
  <2>10. (\A f, g \in Filed : feedback[f].alert = feedback[g].alert
                               /\ feedback[f].number = feedback[g].number => f = g)'
    BY <2>7, <2>8 DEF Filings
  <2>11. submissions' \in 0..MaxSubmissions /\ submissions' \in Int /\ submissions <= submissions'
    BY <1>f, <2>1
  <2> QED BY <2>6, <2>7, <2>9, <2>10, <2>11 DEF Filings
<1>5. ASSUME NEW b \in Builders, Open(b) \/ Fill(b) \/ Register(b) \/ Crash(b)
      PROVE  UNCHANGED <<feedback, submissions>>
  BY <1>5 DEF Open, Fill, Register, Crash
<1>6. CASE UNCHANGED vars
  BY <1>s, <1>6 DEF vars
<1> QED BY <1>s, <1>1, <1>2, <1>3, <1>4, <1>5, <1>6 DEF Next

\* Builders go through their phases with the data they need.
LEMMA BuildsKept ==
  ASSUME Filings, Builds, Saved, Filed \subseteq Filed', [Next]_vars
  PROVE  Builds'
<1> USE DEF local, saving, Become
<1>f. /\ phase \in [Builders -> {"new", "mark", "save", "done"}]
      /\ usable \in [Builders -> SUBSET FeedbackIds]
      /\ data \in [Builders -> Dataset \cup {None}]
      /\ left \in [Builders -> Seq(FileNames)]
      /\ crashes \in 0..MaxCrashes /\ models \in SUBSET Dataset /\ MaxCrashes \in Nat
      /\ \A b \in Builders : data[b] # None <=> phase[b] \in {"mark", "save"}
      /\ \A b \in Builders : left[b] # <<>> => phase[b] = "save"
      /\ \A b \in Builders : usable[b] \subseteq Filed
  BY LearningAssumption DEF Builds
<1>u. ASSUME UNCHANGED usable PROVE (\A b \in Builders : usable[b] \subseteq Filed)'
  BY <1>f, <1>u
<1>e. <<>> \in Seq(FileNames)
  BY EmptySeq
<1>1. ASSUME NEW post \in Posts, Submit(post)
      PROVE  Builds'
  <2>1. UNCHANGED <<models, phase, usable, data, left, crashes>>
    BY <1>1 DEF Submit
  <2> QED BY <1>f, <1>u, <2>1 DEF Builds
<1>2. ASSUME NEW b \in Builders, NEW run \in LabRuns, BuildLab(b, run)
      PROVE  Builds'
  <2> DEFINE s == LabDataset(run)
  <2>1. /\ phase[b] = "new" /\ phase' = [phase EXCEPT ![b] = "save"]
        /\ data' = [data EXCEPT ![b] = s] /\ left' = [left EXCEPT ![b] = FilesOf(s)]
        /\ UNCHANGED <<models, usable, crashes>>
    BY <1>2 DEF BuildLab, Train
  <2>2. s \in Dataset /\ s # None
    <3>1. s \in Dataset
      BY LabDatasetSound DEF Sound
    <3> QED BY <3>1, NotNone
  <2> HIDE DEF s
  <2>3. FilesOf(s) \in Seq(FileNames)
    BY FilesAreNames
  <2> QED BY <1>f, <1>u, <2>1, <2>2, <2>3 DEF Builds
<1>3. ASSUME NEW b \in Builders, NEW d \in Detectors, BuildFromFeedback(b, d)
      PROVE  Builds'
  <2>0. phase[b] = "new" /\ UNCHANGED <<models, left, crashes>> /\ UsableIds \subseteq Filed
    BY <1>3 DEF BuildFromFeedback, UsableIds
  <2>1. CASE Enough(d)
    <3> DEFINE s == FeedbackDataset(d)
    <3>1. /\ phase' = [phase EXCEPT ![b] = "mark"] /\ data' = [data EXCEPT ![b] = s]
          /\ usable' = [usable EXCEPT ![b] = UsableIds]
      BY <1>3, <2>1 DEF BuildFromFeedback
    <3>2. s \in Dataset /\ s # None
      <4>1. s \in Dataset
        BY <2>1, FeedbackDatasetSound DEF Sound
      <4> QED BY <4>1, NotNone
    <3> HIDE DEF s
    <3>3. UsableIds \in SUBSET FeedbackIds
      BY <2>0 DEF Filed
    <3>4. (\A c \in Builders : usable[c] \subseteq Filed)'
      BY <1>f, <2>0, <3>1
    <3> QED BY <1>f, <2>0, <3>1, <3>2, <3>3, <3>4 DEF Builds
  <2>2. CASE ~Enough(d)
    <3>1. phase' = [phase EXCEPT ![b] = "done"] /\ UNCHANGED <<data, usable>>
      BY <1>3, <2>2 DEF BuildFromFeedback
    <3> QED BY <1>f, <1>u, <2>0, <3>1 DEF Builds
  <2> QED BY <2>1, <2>2
<1>4. ASSUME NEW b \in Builders, Mark(b) PROVE Builds'
  <2>0. phase[b] = "mark" /\ UNCHANGED <<models, usable, crashes>>
    BY <1>4 DEF Mark
  <2>1. CASE data[b].id[2] = "dga"
    <3> DEFINE s == data[b]
    <3>1. /\ phase' = [phase EXCEPT ![b] = "save"] /\ data' = [data EXCEPT ![b] = s]
          /\ left' = [left EXCEPT ![b] = FilesOf(s)]
      BY <1>4, <2>1 DEF Mark, Train
    <3>2. FilesOf(s) \in Seq(FileNames) /\ s \in Dataset /\ s # None
      BY <1>f, <2>0, FilesAreNames
    <3> QED BY <1>f, <1>u, <2>0, <3>1, <3>2 DEF Builds
  <2>2. CASE data[b].id[2] # "dga"
    <3>1. /\ phase' = [phase EXCEPT ![b] = "done"] /\ data' = [data EXCEPT ![b] = None]
          /\ UNCHANGED left
      BY <1>4, <2>2 DEF Mark
    <3> QED BY <1>f, <1>u, <2>0, <3>1 DEF Builds
  <2> QED BY <2>1, <2>2
<1>5. ASSUME NEW b \in Builders, Open(b) \/ Fill(b) PROVE Builds'
  <2>0. UNCHANGED <<models, phase, usable, data, crashes>>
    BY <1>5 DEF Open, Fill
  <2>1. CASE Open(b)
    <3>1. UNCHANGED left
      BY <2>1 DEF Open
    <3> QED BY <1>f, <1>u, <2>0, <3>1 DEF Builds
  <2>2. CASE Fill(b)
    <3>1. b \in open /\ left' = [left EXCEPT ![b] = Tail(left[b])]
      BY <2>2 DEF Fill
    <3>2. phase[b] = "save" /\ left[b] # <<>>
      BY <3>1 DEF Saved
    <3>3. Tail(left[b]) \in Seq(FileNames)
      <4>1. left[b] \in Seq(FileNames)
        BY <1>f
      <4> QED BY <3>2, <4>1, HeadTailProperties
    <3> QED BY <1>f, <1>u, <2>0, <3>1, <3>2, <3>3 DEF Builds
  <2> QED BY <1>5, <2>1, <2>2
<1>6. ASSUME NEW b \in Builders, Register(b) PROVE Builds'
  <2>1. /\ phase[b] = "save" /\ left[b] = <<>> /\ models' = models \cup {data[b]}
        /\ phase' = [phase EXCEPT ![b] = "done"] /\ data' = [data EXCEPT ![b] = None]
        /\ UNCHANGED <<usable, left, crashes>>
    BY <1>6 DEF Register
  <2>2. data[b] \in Dataset
    BY <1>f, <2>1
  <2> QED BY <1>f, <1>u, <2>1, <2>2 DEF Builds
<1>7. ASSUME NEW b \in Builders, Crash(b) PROVE Builds'
  <2>1. /\ crashes < MaxCrashes /\ crashes' = crashes + 1
        /\ phase' = [phase EXCEPT ![b] = "done"] /\ data' = [data EXCEPT ![b] = None]
        /\ left' = [left EXCEPT ![b] = <<>>]
        /\ UNCHANGED <<models, usable>>
    BY <1>7 DEF Crash
  <2>2. crashes' \in 0..MaxCrashes
    BY <1>f, <2>1
  <2> QED BY <1>e, <1>f, <1>u, <2>1, <2>2 DEF Builds
<1>8. CASE UNCHANGED vars
  BY <1>f, <1>u, <1>8 DEF Builds, vars
<1> QED BY <1>1, <1>2, <1>3, <1>4, <1>5, <1>6, <1>7, <1>8 DEF Next

\* A dataset that a step builds is sound, and the others were.
LEMMA SoundKept ==
  ASSUME Filings, Builds, AllSound, submissions' \in Int, submissions <= submissions',
         [Next]_vars
  PROVE  AllSound'
<1> USE DEF local, saving, Become
<1>f. /\ phase \in [Builders -> {"new", "mark", "save", "done"}]
      /\ data \in [Builders -> Dataset \cup {None}]
      /\ submissions \in Nat
  BY DEF Builds, Filings
<1>m. /\ \A s \in models : Sound(s, submissions')
      /\ \A b \in Builders : phase[b] \in {"mark", "save"} => Sound(data[b], submissions')
  BY <1>f, SoundGrows DEF AllSound
<1>s. ASSUME UNCHANGED <<models, phase, data>> PROVE AllSound'
  BY <1>m, <1>s DEF AllSound
<1>1. ASSUME NEW post \in Posts, Submit(post)
      PROVE  AllSound'
  BY <1>s, <1>1 DEF Submit
<1>2. ASSUME NEW b \in Builders, NEW run \in LabRuns, BuildLab(b, run)
      PROVE  AllSound'
  <2> DEFINE s == LabDataset(run)
  <2>1. /\ phase' = [phase EXCEPT ![b] = "save"] /\ data' = [data EXCEPT ![b] = s]
        /\ UNCHANGED <<models, submissions>>
    BY <1>2 DEF BuildLab, Train
  <2>2. Sound(s, submissions')
    BY <1>f, <2>1, LabDatasetSound
  <2> HIDE DEF s
  <2> QED BY <1>f, <1>m, <2>1, <2>2 DEF AllSound
<1>3. ASSUME NEW b \in Builders, NEW d \in Detectors, BuildFromFeedback(b, d)
      PROVE  AllSound'
  <2>0. UNCHANGED <<models, submissions>>
    BY <1>3 DEF BuildFromFeedback
  <2>1. CASE Enough(d)
    <3> DEFINE s == FeedbackDataset(d)
    <3>1. phase' = [phase EXCEPT ![b] = "mark"] /\ data' = [data EXCEPT ![b] = s]
      BY <1>3, <2>1 DEF BuildFromFeedback
    <3>2. Sound(s, submissions')
      BY <2>0, <2>1, FeedbackDatasetSound
    <3> HIDE DEF s
    <3> QED BY <1>f, <1>m, <2>0, <3>1, <3>2 DEF AllSound
  <2>2. CASE ~Enough(d)
    <3>1. phase' = [phase EXCEPT ![b] = "done"] /\ UNCHANGED data
      BY <1>3, <2>2 DEF BuildFromFeedback
    <3> QED BY <1>f, <1>m, <2>0, <3>1 DEF AllSound
  <2> QED BY <2>1, <2>2
<1>4. ASSUME NEW b \in Builders, Mark(b) PROVE AllSound'
  <2>1. /\ phase[b] = "mark" /\ UNCHANGED models
        /\ \/ phase' = [phase EXCEPT ![b] = "save"] /\ data' = [data EXCEPT ![b] = data[b]]
           \/ phase' = [phase EXCEPT ![b] = "done"] /\ data' = [data EXCEPT ![b] = None]
    BY <1>4 DEF Mark, Train
  <2> QED BY <1>f, <1>m, <2>1 DEF AllSound
<1>5. ASSUME NEW b \in Builders, Open(b) \/ Fill(b) PROVE AllSound'
  BY <1>s, <1>5 DEF Open, Fill
<1>6. ASSUME NEW b \in Builders, Register(b) PROVE AllSound'
  <2>1. /\ phase[b] = "save" /\ models' = models \cup {data[b]}
        /\ phase' = [phase EXCEPT ![b] = "done"] /\ data' = [data EXCEPT ![b] = None]
    BY <1>6 DEF Register
  <2> QED BY <1>f, <1>m, <2>1 DEF AllSound
<1>7. ASSUME NEW b \in Builders, Crash(b) PROVE AllSound'
  <2>1. /\ UNCHANGED models
        /\ phase' = [phase EXCEPT ![b] = "done"] /\ data' = [data EXCEPT ![b] = None]
    BY <1>7 DEF Crash
  <2> QED BY <1>f, <1>m, <2>1 DEF AllSound
<1>8. CASE UNCHANGED vars
  BY <1>s, <1>8 DEF vars
<1> QED BY <1>1, <1>2, <1>3, <1>4, <1>5, <1>6, <1>7, <1>8 DEF Next

\* A builder that gets to saving has marked what its dataset uses; a submission that
\* comes later is not one that a dataset uses.
LEMMA MarkedKept ==
  ASSUME Filings, Builds, AllSound, Marked, [Next]_vars
  PROVE  Marked'
<1> USE DEF local, saving, Become
<1>f. /\ phase \in [Builders -> {"new", "mark", "save", "done"}]
      /\ data \in [Builders -> Dataset \cup {None}]
      /\ usable \in [Builders -> SUBSET FeedbackIds]
      /\ feedback \in [FeedbackIds -> Feedback \cup {None}]
      /\ submissions \in Nat
  BY DEF Builds, Filings
<1>m. /\ \A b \in Builders : phase[b] = "mark" =>
           \A f \in Filed : Uses(data[b], feedback[f]) => f \in usable[b]
      /\ \A b \in Builders : phase[b] = "save" =>
           \A f \in Filed : Uses(data[b], feedback[f]) => feedback[f].consumed # None
      /\ \A s \in models : \A f \in Filed :
           Uses(s, feedback[f]) => feedback[f].consumed # None
  BY DEF Marked
<1>s. ASSUME UNCHANGED <<feedback, models, phase, usable, data>> PROVE Marked'
  BY <1>s DEF Marked, Filed
<1>1. ASSUME NEW post \in Posts, Submit(post)
      PROVE  Marked'
  <2> DEFINE f == post.id
             v == [alert |-> post.alert, label |-> post.label, stamp |-> post.stamp,
                   number |-> submissions + 1, consumed |-> None]
  <2>1. /\ feedback' = [feedback EXCEPT ![f] = v]
        /\ UNCHANGED <<models, phase, usable, data>>
    BY <1>1 DEF Submit
  <2>0. f \in FeedbackIds
    BY LearningAssumption
  <2>2. \A s : Sound(s, submissions) => ~Uses(s, v)
    <3> SUFFICES ASSUME NEW s, Sound(s, submissions), Uses(s, v) PROVE FALSE
      OBVIOUS
    <3>1. PICK i \in 1..Len(Parts(s)) : v.number = Parts(s)[i].number
      BY DEF Uses
    <3>2. Parts(s)[i].number <= submissions /\ v.number = submissions + 1
      BY DEF Sound
    <3> QED BY <1>f, <3>1, <3>2
  <2> HIDE DEF v, f
  <2>3. \A g \in Filed' : g # f => g \in Filed /\ feedback'[g] = feedback[g]
    BY <1>f, <2>0, <2>1 DEF Filed
  <2>4. feedback'[f] = v
    BY <1>f, <2>0, <2>1
  <2>5. /\ \A b \in Builders : phase[b] \in {"mark", "save"} => ~Uses(data[b], feedback'[f])
        /\ \A s \in models : ~Uses(s, feedback'[f])
    BY <2>2, <2>4 DEF AllSound
  <2>6. (\A b \in Builders : phase[b] = "mark" =>
           \A g \in Filed : Uses(data[b], feedback[g]) => g \in usable[b])'
    BY <1>m, <2>1, <2>3, <2>5
  <2>7. (\A b \in Builders : phase[b] = "save" =>
           \A g \in Filed : Uses(data[b], feedback[g]) => feedback[g].consumed # None)'
    BY <1>m, <2>1, <2>3, <2>5
  <2>8. (\A s \in models : \A g \in Filed :
           Uses(s, feedback[g]) => feedback[g].consumed # None)'
    BY <1>m, <2>1, <2>3, <2>5
  <2> QED BY <2>6, <2>7, <2>8 DEF Marked
<1>2. ASSUME NEW b \in Builders, NEW run \in LabRuns, BuildLab(b, run)
      PROVE  Marked'
  <2> DEFINE s == LabDataset(run)
  <2>1. /\ phase' = [phase EXCEPT ![b] = "save"] /\ data' = [data EXCEPT ![b] = s]
        /\ UNCHANGED <<feedback, models, usable>>
    BY <1>2 DEF BuildLab, Train
  <2>2. \A v : ~Uses(s, v)
    BY <1>f, LabDatasetSound DEF Uses
  <2> HIDE DEF s
  <2> QED BY <1>f, <1>m, <2>1, <2>2 DEF Marked, Filed
<1>3. ASSUME NEW b \in Builders, NEW d \in Detectors, BuildFromFeedback(b, d)
      PROVE  Marked'
  <2>0. UNCHANGED <<models, feedback>>
    BY <1>3 DEF BuildFromFeedback
  <2>1. CASE Enough(d)
    <3> DEFINE s == FeedbackDataset(d)
    <3>1. /\ phase' = [phase EXCEPT ![b] = "mark"] /\ data' = [data EXCEPT ![b] = s]
          /\ usable' = [usable EXCEPT ![b] = UsableIds]
      BY <1>3, <2>1 DEF BuildFromFeedback
    <3>2. \A f \in Filed : Uses(s, feedback[f]) => f \in UsableIds
      BY <2>1, FeedbackDatasetSound
    <3> HIDE DEF s
    <3>3. phase'[b] = "mark" /\ data'[b] = s /\ usable'[b] = UsableIds
      BY <1>f, <3>1
    <3>4. \A c \in Builders : c # b =>
            phase'[c] = phase[c] /\ data'[c] = data[c] /\ usable'[c] = usable[c]
      BY <1>f, <3>1
    <3>5. Filed' = Filed
      BY <2>0 DEF Filed
    <3> HIDE DEF Filed
    <3>6. (\A c \in Builders : phase[c] = "mark" =>
             \A g \in Filed : Uses(data[c], feedback[g]) => g \in usable[c])'
      BY <1>m, <2>0, <3>2, <3>3, <3>4, <3>5
    <3>7. (\A c \in Builders : phase[c] = "save" =>
             \A g \in Filed : Uses(data[c], feedback[g]) => feedback[g].consumed # None)'
      BY <1>m, <2>0, <3>3, <3>4, <3>5
    <3>8. (\A r \in models : \A g \in Filed :
             Uses(r, feedback[g]) => feedback[g].consumed # None)'
      BY <1>m, <2>0, <3>5
    <3> QED BY <3>6, <3>7, <3>8 DEF Marked
  <2>2. CASE ~Enough(d)
    <3>1. phase' = [phase EXCEPT ![b] = "done"] /\ UNCHANGED <<data, usable>>
      BY <1>3, <2>2 DEF BuildFromFeedback
    <3> QED BY <1>f, <1>m, <2>0, <3>1 DEF Marked, Filed
  <2> QED BY <2>1, <2>2
<1>4. ASSUME NEW b \in Builders, Mark(b) PROVE Marked'
  <2>1. /\ phase[b] = "mark" /\ UNCHANGED <<models, usable>>
        /\ feedback' = [f \in FeedbackIds |->
             IF f \in usable[b] THEN Consume(f, data[b].id) ELSE feedback[f]]
        /\ \/ phase' = [phase EXCEPT ![b] = "save"] /\ data' = [data EXCEPT ![b] = data[b]]
           \/ phase' = [phase EXCEPT ![b] = "done"] /\ data' = [data EXCEPT ![b] = None]
    BY <1>4 DEF Mark, Train
  <2>2. data[b] \in Dataset /\ usable[b] \subseteq Filed
    BY <2>1 DEF Builds
  <2>3. data[b].id # None
    BY <2>2, NotNone
  <2>4. \A f \in usable[b] :
          /\ Consume(f, data[b].id).consumed # None
          /\ Consume(f, data[b].id).alert = feedback[f].alert
          /\ Consume(f, data[b].id).number = feedback[f].number
    <3> SUFFICES ASSUME NEW f \in usable[b]
                 PROVE  /\ Consume(f, data[b].id).consumed # None
                        /\ Consume(f, data[b].id).alert = feedback[f].alert
                        /\ Consume(f, data[b].id).number = feedback[f].number
      OBVIOUS
    <3>1. feedback[f] \in Feedback
      BY <2>2, FiledIsFeedback
    <3> QED BY <2>3, <3>1 DEF Consume, Feedback
  <2>5. \A f \in FeedbackIds :
          feedback'[f] = IF f \in usable[b] THEN Consume(f, data[b].id) ELSE feedback[f]
    BY <2>1
  <2>6. \A f \in Filed' : f \in Filed /\ f \in FeedbackIds
    <3>1. \A f \in FeedbackIds : f \notin usable[b] => feedback'[f] = feedback[f]
      BY <2>5
    <3> QED BY <2>2, <3>1 DEF Filed
  <2>7. \A f \in Filed' :
          /\ feedback'[f].alert = feedback[f].alert /\ feedback'[f].number = feedback[f].number
          /\ f \in usable[b] => feedback'[f].consumed # None
          /\ feedback[f].consumed # None => feedback'[f].consumed # None
    BY <2>4, <2>5, <2>6
  <2>8. \A s : \A f \in Filed' : Uses(s, feedback'[f]) => Uses(s, feedback[f])
    BY <2>7 DEF Uses
  <2>9. \A c \in Builders : c # b => phase'[c] = phase[c] /\ data'[c] = data[c]
    BY <1>f, <2>1
  <2>10. phase'[b] # "mark" /\ (phase'[b] = "save" => data'[b] = data[b])
    BY <1>f, <2>1
  <2>11. (\A c \in Builders : phase[c] = "mark" =>
            \A g \in Filed : Uses(data[c], feedback[g]) => g \in usable[c])'
    BY <1>m, <2>1, <2>6, <2>8, <2>9, <2>10
  <2>12. (\A c \in Builders : phase[c] = "save" =>
            \A g \in Filed : Uses(data[c], feedback[g]) => feedback[g].consumed # None)'
    BY <1>m, <2>1, <2>6, <2>7, <2>8, <2>9, <2>10
  <2>13. (\A r \in models : \A g \in Filed :
            Uses(r, feedback[g]) => feedback[g].consumed # None)'
    BY <1>m, <2>1, <2>6, <2>7, <2>8
  <2> QED BY <2>11, <2>12, <2>13 DEF Marked
<1>5. ASSUME NEW b \in Builders, Open(b) \/ Fill(b) PROVE Marked'
  BY <1>s, <1>5 DEF Open, Fill
<1>6. ASSUME NEW b \in Builders, Register(b) PROVE Marked'
  <2>1. /\ phase[b] = "save" /\ models' = models \cup {data[b]}
        /\ phase' = [phase EXCEPT ![b] = "done"] /\ data' = [data EXCEPT ![b] = None]
        /\ UNCHANGED <<feedback, usable>>
    BY <1>6 DEF Register
  <2> QED BY <1>f, <1>m, <2>1 DEF Marked, Filed
<1>7. ASSUME NEW b \in Builders, Crash(b) PROVE Marked'
  <2>1. /\ UNCHANGED <<feedback, models, usable>>
        /\ phase' = [phase EXCEPT ![b] = "done"] /\ data' = [data EXCEPT ![b] = None]
    BY <1>7 DEF Crash
  <2> QED BY <1>f, <1>m, <2>1 DEF Marked, Filed
<1>8. CASE UNCHANGED vars
  BY <1>s, <1>8 DEF vars
<1> QED BY <1>1, <1>2, <1>3, <1>4, <1>5, <1>6, <1>7, <1>8 DEF Next

\* The members of a list are its head and those of its tail.
LEMMA HeadOrTail ==
  ASSUME NEW S, NEW q \in Seq(S), q # <<>>
  PROVE  Members(q) \subseteq {Head(q)} \cup Members(Tail(q))
<1> DEFINE t == Tail(q)
<1>1. /\ Len(q) \in Nat /\ t \in Seq(S) /\ Len(t) = Len(q) - 1 /\ Head(q) = q[1]
      /\ \A i \in 1..Len(t) : t[i] = q[i + 1]
  BY HeadTailProperties
<1> HIDE DEF t
<1>2. ASSUME NEW i \in 1..Len(q) PROVE q[i] = Head(q) \/ q[i] \in Members(t)
  <2>1. CASE i = 1
    BY <1>1, <2>1
  <2>2. CASE i # 1
    <3>1. i - 1 \in 1..Len(t) /\ (i - 1) + 1 = i
      BY <1>1, <2>2
    <3>2. t[i - 1] = q[i]
      BY <1>1, <3>1
    <3> QED BY <3>1, <3>2 DEF Members
  <2> QED BY <2>1, <2>2
<1> QED BY <1>2 DEF Members, t

\* What a step leaves alone or makes of a file: fewer datasets are undisturbed, and a
\* whole file of one that still is stays whole.
LEMMA WholeKept ==
  ASSUME Builds, Saved, [Next]_vars, NEW s \in Dataset, NEW name, Undisturbed(s)'
  PROVE  Undisturbed(s) /\ (Whole(s, name) => Whole(s, name)')
<1> USE DEF local, saving, Become
<1> DEFINE file == <<s.id, name>>
<1>f. /\ phase \in [Builders -> {"new", "mark", "save", "done"}]
      /\ data \in [Builders -> Dataset \cup {None}]
      /\ left \in [Builders -> Seq(FileNames)]
      /\ \A b \in Builders : left[b] # <<>> => phase[b] = "save"
  BY DEF Builds
<1>o. \A o \in open : /\ o \in Builders /\ phase[o] = "save"
                      /\ left[o] # <<>> /\ data[o] \in begun
  BY DEF Saved
<1>u. ASSUME broken \subseteq broken', begun \subseteq begun' PROVE Undisturbed(s)
  BY <1>u DEF Undisturbed
<1>n. ASSUME Whole(s, name)
      PROVE  file \in DOMAIN disk /\ Content(file) = disk[file]
  <2>1. Content(file) # None
    BY <1>n, <1>o, NotNone DEF Whole
  <2> QED BY <2>1 DEF Content
<1>s. ASSUME UNCHANGED <<disk, open, begun, broken>>,
             \A o \in open : data'[o] = data[o] /\ left'[o] = left[o]
      PROVE  Undisturbed(s) /\ (Whole(s, name) => Whole(s, name)')
  BY <1>s DEF Undisturbed, Whole, Content, File
<1>1. ASSUME NEW post \in Posts, Submit(post)
      PROVE  Undisturbed(s) /\ (Whole(s, name) => Whole(s, name)')
  BY <1>s, <1>1 DEF Submit
<1>2. ASSUME NEW b \in Builders, NEW run \in LabRuns, BuildLab(b, run)
      PROVE  Undisturbed(s) /\ (Whole(s, name) => Whole(s, name)')
  <2>1. /\ phase[b] = "new" /\ UNCHANGED <<disk, open, begun, broken>>
        /\ data' = [data EXCEPT ![b] = LabDataset(run)]
        /\ left' = [left EXCEPT ![b] = FilesOf(LabDataset(run))]
    BY <1>2 DEF BuildLab, Train
  <2>2. \A o \in open : o # b /\ data'[o] = data[o] /\ left'[o] = left[o]
    BY <1>f, <1>o, <2>1
  <2> QED BY <1>s, <2>1, <2>2
<1>3. ASSUME NEW b \in Builders, NEW d \in Detectors, BuildFromFeedback(b, d)
      PROVE  Undisturbed(s) /\ (Whole(s, name) => Whole(s, name)')
  <2>1. /\ phase[b] = "new" /\ UNCHANGED <<disk, open, begun, broken, left>>
        /\ data' = [data EXCEPT ![b] = FeedbackDataset(d)] \/ data' = data
    BY <1>3 DEF BuildFromFeedback
  <2>2. \A o \in open : o # b /\ data'[o] = data[o] /\ left'[o] = left[o]
    BY <1>f, <1>o, <2>1
  <2> QED BY <1>s, <2>1, <2>2
<1>4. ASSUME NEW b \in Builders, Mark(b)
      PROVE  Undisturbed(s) /\ (Whole(s, name) => Whole(s, name)')
  <2>1. /\ phase[b] = "mark" /\ UNCHANGED <<disk, open, begun, broken>>
        /\ \/ /\ data' = [data EXCEPT ![b] = data[b]]
              /\ left' = [left EXCEPT ![b] = FilesOf(data[b])]
           \/ data' = [data EXCEPT ![b] = None] /\ UNCHANGED left
    BY <1>4 DEF Mark, Train
  <2>2. \A o \in open : o # b /\ data'[o] = data[o] /\ left'[o] = left[o]
    BY <1>f, <1>o, <2>1
  <2> QED BY <1>s, <2>1, <2>2
<1>5. ASSUME NEW b \in Builders, Open(b)
      PROVE  Undisturbed(s) /\ (Whole(s, name) => Whole(s, name)')
  <2>1. /\ disk' = Write(File(b), b) /\ open' = open \cup {b}
        /\ begun' = begun \cup {data[b]} /\ UNCHANGED <<broken, data, left>>
    BY <1>5 DEF Open
  <2>2. Undisturbed(s)
    BY <1>u, <2>1
  <2>3. \A o : File(o)' = File(o)
    BY <2>1 DEF File
  <2>4. ASSUME Whole(s, name) PROVE Whole(s, name)'
    <3>1. Content(file)' = IF file = File(b) THEN b ELSE Content(file)
      BY <1>n, <2>1, <2>4 DEF Content, Write
    <3> HIDE DEF File, Content
    <3> QED BY <2>1, <2>3, <2>4, <3>1 DEF Whole
  <2> QED BY <2>2, <2>4
<1>6. ASSUME NEW b \in Builders, Fill(b)
      PROVE  Undisturbed(s) /\ (Whole(s, name) => Whole(s, name)')
  <2>1. /\ b \in open /\ open' = open \ {b} /\ UNCHANGED <<begun, broken, data>>
        /\ left' = [left EXCEPT ![b] = Tail(left[b])]
        /\ \/ disk' = Write(File(b), data[b])
           \/ /\ Shared(b)
              /\ disk' = Write(File(b), IF disk[File(b)] \in Builders THEN disk[File(b)] ELSE b)
    BY <1>6 DEF Fill
  <2>2. Undisturbed(s)
    BY <1>u, <2>1
  <2>3. \A o \in open' : o \in open /\ o # b /\ File(o)' = File(o)
    BY <1>f, <1>o, <2>1 DEF File
  <2>4. ASSUME Whole(s, name) PROVE Whole(s, name)'
    <3>1. CASE file # File(b)
      <4>1. Content(file)' = Content(file)
        BY <1>n, <2>1, <2>4, <3>1 DEF Content, Write
      <4> HIDE DEF File, Content
      <4> QED BY <2>1, <2>3, <2>4, <3>1, <4>1 DEF Whole
    <3>2. CASE file = File(b)
      <4>1. \A o \in open : File(o) = File(b) => data[o] = s
        BY <1>o, <2>2, <3>2 DEF File, Undisturbed
      <4>2. data[b] = s
        BY <2>1, <4>1
      <4>3. CASE disk' = Write(File(b), data[b])
        <5>1. Content(file)' = data[b]
          BY <3>2, <4>3 DEF Content, Write
        <5> QED BY <4>2, <5>1 DEF Whole
      <4>4. CASE /\ Shared(b)
                 /\ disk' = Write(File(b), IF disk[File(b)] \in Builders THEN disk[File(b)] ELSE b)
        <5>1. disk[file] \notin {b, s}
          BY <2>1, <3>2, <4>1, <4>2, <4>4 DEF Shared
        <5>2. PICK o \in open : Content(file) = o /\ File(o) = file
          <6> HIDE DEF File
          <6> QED BY <1>n, <2>4, <5>1 DEF Whole
        <5>3. disk[file] = o /\ o \in Builders /\ o # b
          BY <1>n, <1>o, <2>4, <5>1, <5>2
        <5>4. Content(file)' = o
          BY <3>2, <4>4, <5>3 DEF Content, Write
        <5>5. o \in open' /\ File(o)' = file
          BY <2>1, <2>3, <5>2, <5>3
        <5> QED BY <5>4, <5>5 DEF Whole
      <4> QED BY <2>1, <4>3, <4>4
    <3> QED BY <3>1, <3>2
  <2> QED BY <2>2, <2>4
<1>7. ASSUME NEW b \in Builders, Register(b)
      PROVE  Undisturbed(s) /\ (Whole(s, name) => Whole(s, name)')
  <2>1. /\ left[b] = <<>> /\ data' = [data EXCEPT ![b] = None]
        /\ UNCHANGED <<disk, open, begun, broken, left>>
    BY <1>7 DEF Register
  <2>2. \A o \in open : o # b /\ data'[o] = data[o] /\ left'[o] = left[o]
    BY <1>f, <1>o, <2>1
  <2> QED BY <1>s, <2>1, <2>2
<1>8. ASSUME NEW b \in Builders, Crash(b)
      PROVE  Undisturbed(s) /\ (Whole(s, name) => Whole(s, name)')
  <2>1. /\ open' = open \ {b} /\ UNCHANGED <<disk, begun>>
        /\ broken' = IF b \in open THEN broken \cup {data[b].id} ELSE broken
        /\ data' = [data EXCEPT ![b] = None] /\ left' = [left EXCEPT ![b] = <<>>]
    BY <1>8 DEF Crash
  <2>2. Undisturbed(s)
    BY <1>u, <2>1
  <2>3. \A o \in open' : o \in open /\ o # b /\ File(o)' = File(o)
    BY <1>f, <1>o, <2>1 DEF File
  <2>4. \A o \in open : File(o) = file => o # b
    BY <2>1 DEF Undisturbed, File
  <2>5. Content(file)' = Content(file)
    BY <2>1 DEF Content
  <2> HIDE DEF File, Content
  <2> QED BY <2>1, <2>2, <2>3, <2>4, <2>5 DEF Whole
<1>9. CASE UNCHANGED vars
  BY <1>s, <1>9 DEF vars
<1> QED BY <1>1, <1>2, <1>3, <1>4, <1>5, <1>6, <1>7, <1>8, <1>9 DEF Next

\* What is not left to write stays whole, until it is disturbed.
LEMMA SavedKept ==
  ASSUME Builds, Saved, [Next]_vars
  PROVE  Saved'
<1> USE DEF local, saving, Become
<1>f. /\ phase \in [Builders -> {"new", "mark", "save", "done"}]
      /\ data \in [Builders -> Dataset \cup {None}]
      /\ left \in [Builders -> Seq(FileNames)]
      /\ models \in SUBSET Dataset
      /\ \A b \in Builders : phase[b] = "save" => data[b] \in Dataset
      /\ \A b \in Builders : left[b] # <<>> => phase[b] = "save"
  BY DEF Builds
<1>o. \A o \in open : /\ o \in Builders /\ phase[o] = "save"
                      /\ left[o] # <<>> /\ data[o] \in begun
  BY DEF Saved
<1>w. \A s \in Dataset : \A name :
        Undisturbed(s)' => Undisturbed(s) /\ (Whole(s, name) => Whole(s, name)')
  BY WholeKept
<1>b. \A b \in Builders : phase[b] = "save" /\ Undisturbed(data[b]) =>
        \A name \in Members(FilesOf(data[b])) :
          name \in Members(left[b]) \/ Whole(data[b], name)
  BY DEF Saved
<1>h. \A o \in open : Undisturbed(data[o]) => Whole(data[o], Head(left[o]))
  BY DEF Saved
<1>m. \A s \in models : Undisturbed(s)' =>
        \A name \in Members(FilesOf(s)) : Whole(s, name)'
  BY <1>f, <1>w DEF Saved
<1> DEFINE Writes(b) == phase[b] = "save" /\ Undisturbed(data[b]) =>
             \A name \in Members(FilesOf(data[b])) :
               name \in Members(left[b]) \/ Whole(data[b], name)
           Holds(o) == /\ o \in Builders /\ phase[o] = "save"
                       /\ left[o] # <<>> /\ data[o] \in begun
           Heads(o) == Undisturbed(data[o]) => Whole(data[o], Head(left[o]))
<1>k. ASSUME NEW c \in Builders, phase'[c] = phase[c], data'[c] = data[c], left'[c] = left[c]
      PROVE  /\ Writes(c)'
             /\ c \in open /\ begun \subseteq begun' => Holds(c)' /\ Heads(c)'
  <2> HIDE DEF Undisturbed, Whole, Members, FilesOf
  <2>1. Writes(c)'
    BY <1>b, <1>f, <1>k, <1>w
  <2>2. ASSUME c \in open, begun \subseteq begun' PROVE Holds(c)' /\ Heads(c)'
    BY <1>f, <1>h, <1>k, <1>o, <1>w, <2>2
  <2> QED BY <2>1, <2>2
<1>q. ASSUME \A c \in Builders : Writes(c)', \A o \in open' : Holds(o)' /\ Heads(o)',
             \A s \in models' : Undisturbed(s)' =>
               \A name \in Members(FilesOf(s)) : Whole(s, name)'
      PROVE  Saved'
  BY <1>q DEF Saved
<1> HIDE DEF Writes, Holds, Heads, Undisturbed, Whole, Members, FilesOf
<1>s. ASSUME UNCHANGED <<models, phase, data, left, open, begun>> PROVE Saved'
  BY <1>k, <1>m, <1>o, <1>q, <1>s
<1>1. ASSUME NEW post \in Posts, Submit(post) PROVE Saved'
  BY <1>s, <1>1 DEF Submit
<1>2. ASSUME NEW b \in Builders, NEW run \in LabRuns, BuildLab(b, run)
      PROVE  Saved'
  <2> DEFINE s == LabDataset(run)
  <2>1. /\ phase[b] = "new" /\ UNCHANGED <<models, open, begun>>
        /\ phase' = [phase EXCEPT ![b] = "save"] /\ data' = [data EXCEPT ![b] = s]
        /\ left' = [left EXCEPT ![b] = FilesOf(s)]
    BY <1>2 DEF BuildLab, Train
  <2> HIDE DEF s
  <2>2. b \notin open /\ data'[b] = s /\ left'[b] = FilesOf(s)
    BY <1>f, <1>o, <2>1
  <2>3. Writes(b)'
    BY <2>2 DEF Writes
  <2>4. \A c \in Builders : c # b =>
          phase'[c] = phase[c] /\ data'[c] = data[c] /\ left'[c] = left[c]
    BY <1>f, <2>1
  <2> QED BY <1>k, <1>m, <1>o, <1>q, <2>1, <2>2, <2>3, <2>4
<1>3. ASSUME NEW b \in Builders, NEW d \in Detectors, BuildFromFeedback(b, d)
      PROVE  Saved'
  <2>1. /\ phase[b] = "new" /\ UNCHANGED <<models, open, begun, left>>
        /\ \/ phase' = [phase EXCEPT ![b] = "mark"]
              /\ data' = [data EXCEPT ![b] = FeedbackDataset(d)]
           \/ phase' = [phase EXCEPT ![b] = "done"] /\ data' = data
    BY <1>3 DEF BuildFromFeedback
  <2>2. b \notin open /\ phase'[b] # "save"
    BY <1>f, <1>o, <2>1
  <2>3. Writes(b)'
    BY <2>2 DEF Writes
  <2>4. \A c \in Builders : c # b =>
          phase'[c] = phase[c] /\ data'[c] = data[c] /\ left'[c] = left[c]
    BY <1>f, <2>1
  <2> QED BY <1>k, <1>m, <1>o, <1>q, <2>1, <2>2, <2>3, <2>4
<1>4. ASSUME NEW b \in Builders, Mark(b) PROVE Saved'
  <2>1. /\ phase[b] = "mark" /\ UNCHANGED <<models, open, begun>>
        /\ \/ /\ phase' = [phase EXCEPT ![b] = "save"] /\ data' = [data EXCEPT ![b] = data[b]]
              /\ left' = [left EXCEPT ![b] = FilesOf(data[b])]
           \/ /\ phase' = [phase EXCEPT ![b] = "done"] /\ data' = [data EXCEPT ![b] = None]
              /\ UNCHANGED left
    BY <1>4 DEF Mark, Train
  <2>2. b \notin open /\ (phase'[b] = "save" => left'[b] = FilesOf(data'[b]))
    BY <1>f, <1>o, <2>1
  <2>3. Writes(b)'
    BY <2>2 DEF Writes
  <2>4. \A c \in Builders : c # b =>
          phase'[c] = phase[c] /\ data'[c] = data[c] /\ left'[c] = left[c]
    BY <1>f, <2>1
  <2> QED BY <1>k, <1>m, <1>o, <1>q, <2>1, <2>2, <2>3, <2>4
<1>5. ASSUME NEW b \in Builders, Open(b) PROVE Saved'
  <2>1. /\ phase[b] = "save" /\ left[b] # <<>> /\ UNCHANGED <<models, phase, data, left>>
        /\ disk' = Write(File(b), b) /\ open' = open \cup {b}
        /\ begun' = begun \cup {data[b]}
    BY <1>5 DEF Open
  <2>2. Holds(b)'
    BY <2>1 DEF Holds
  <2>3. Heads(b)'
    <3>1. File(b) = <<data[b].id, Head(left[b])>> /\ File(b)' = File(b)
      BY <2>1 DEF File
    <3>2. Content(<<data[b].id, Head(left[b])>>)' = b
      BY <2>1, <3>1 DEF Content, Write
    <3> HIDE DEF File, Content
    <3>3. Whole(data[b], Head(left[b]))'
      BY <2>1, <3>1, <3>2 DEF Whole
    <3> QED BY <2>1, <3>3 DEF Heads
  <2> QED BY <1>k, <1>m, <1>o, <1>q, <2>1, <2>2, <2>3
<1>6. ASSUME NEW b \in Builders, Fill(b) PROVE Saved'
  <2>1. /\ b \in open /\ open' = open \ {b} /\ UNCHANGED <<models, phase, data, begun>>
        /\ left' = [left EXCEPT ![b] = Tail(left[b])]
    BY <1>6 DEF Fill
  <2>2. phase[b] = "save" /\ left[b] # <<>> /\ data[b] \in Dataset /\ left'[b] = Tail(left[b])
    BY <1>f, <1>o, <2>1
  <2>3. Members(left[b]) \subseteq {Head(left[b])} \cup Members(Tail(left[b]))
    BY <1>f, <2>2, HeadOrTail
  <2>4. Writes(b)'
    <3>1. PICK s \in Dataset : s = data[b] /\ data'[b] = s
      BY <2>1, <2>2
    <3>2. ASSUME Undisturbed(s)', NEW name \in Members(FilesOf(s)),
                 name \notin Members(left'[b])
          PROVE  Whole(s, name)'
      <4>1. Undisturbed(s)
        BY <1>w, <3>2
      <4>2. name \in Members(left[b]) \/ Whole(s, name)
        BY <1>b, <2>2, <3>1, <3>2, <4>1
      <4>3. Whole(s, name)
        BY <1>h, <2>1, <2>2, <2>3, <3>1, <3>2, <4>1, <4>2
      <4> QED BY <1>w, <3>2, <4>3
    <3> QED BY <3>1, <3>2 DEF Writes
  <2>5. \A c \in Builders : c # b =>
          phase'[c] = phase[c] /\ data'[c] = data[c] /\ left'[c] = left[c]
    BY <1>f, <2>1
  <2> QED BY <1>k, <1>m, <1>o, <1>q, <2>1, <2>4, <2>5
<1>7. ASSUME NEW b \in Builders, Register(b) PROVE Saved'
  <2>1. /\ phase[b] = "save" /\ left[b] = <<>> /\ models' = models \cup {data[b]}
        /\ phase' = [phase EXCEPT ![b] = "done"] /\ data' = [data EXCEPT ![b] = None]
        /\ UNCHANGED <<open, begun, left>>
    BY <1>7 DEF Register
  <2>2. Members(<<>>) = {}
    BY DEF Members
  <2>0. PICK s \in Dataset : s = data[b]
    BY <1>f, <2>1
  <2>3. Undisturbed(s)' => \A name \in Members(FilesOf(s)) : Whole(s, name)'
    BY <1>b, <1>w, <2>0, <2>1, <2>2
  <2>4. b \notin open /\ phase'[b] # "save"
    BY <1>f, <1>o, <2>1
  <2>5. Writes(b)'
    BY <2>4 DEF Writes
  <2>6. \A c \in Builders : c # b =>
          phase'[c] = phase[c] /\ data'[c] = data[c] /\ left'[c] = left[c]
    BY <1>f, <2>1
  <2>7. \A r \in models' : Undisturbed(r)' =>
          \A name \in Members(FilesOf(r)) : Whole(r, name)'
    BY <1>m, <2>0, <2>1, <2>3
  <2> QED BY <1>k, <1>o, <1>q, <2>1, <2>4, <2>5, <2>6, <2>7
<1>8. ASSUME NEW b \in Builders, Crash(b) PROVE Saved'
  <2>1. /\ UNCHANGED <<models, begun>> /\ open' = open \ {b}
        /\ phase' = [phase EXCEPT ![b] = "done"] /\ data' = [data EXCEPT ![b] = None]
        /\ left' = [left EXCEPT ![b] = <<>>]
    BY <1>8 DEF Crash
  <2>2. phase'[b] # "save"
    BY <1>f, <2>1
  <2>3. Writes(b)'
    BY <2>2 DEF Writes
  <2>4. \A c \in Builders : c # b =>
          phase'[c] = phase[c] /\ data'[c] = data[c] /\ left'[c] = left[c]
    BY <1>f, <2>1
  <2> QED BY <1>k, <1>m, <1>o, <1>q, <2>1, <2>3, <2>4
<1>9. CASE UNCHANGED vars
  BY <1>s, <1>9 DEF vars
<1> QED BY <1>1, <1>2, <1>3, <1>4, <1>5, <1>6, <1>7, <1>8, <1>9 DEF Next
-----------------------------------------------------------------------------
(* Theorems.                                                                *)

LearningInv == Filings /\ Builds /\ AllSound /\ Marked /\ Saved

\* The inductive invariant: feedback is well formed, every dataset is sound, and what
\* a builder has to mark or to write is still in its hands.
THEOREM LearningInvariant == Spec => []LearningInv
<1>1. Init => LearningInv
  BY LearningStarts DEF LearningInv
<1>2. LearningInv /\ [Next]_vars => LearningInv'
  <2> SUFFICES ASSUME LearningInv, [Next]_vars PROVE LearningInv'
    OBVIOUS
  <2>1. Filings /\ Builds /\ AllSound /\ Marked /\ Saved
    BY DEF LearningInv
  <2>2. Filings' /\ Filed \subseteq Filed' /\ submissions' \in Int /\ submissions <= submissions'
    BY <2>1, FilingsKept
  <2>3. Builds' /\ AllSound' /\ Marked' /\ Saved'
    BY <2>1, <2>2, BuildsKept, SoundKept, MarkedKept, SavedKept
  <2> QED BY <2>2, <2>3 DEF LearningInv
<1> QED BY <1>1, <1>2, PTL DEF Spec

\* A dataset that exists is a builder's or a registered model's.
LEMMA DatasetsAreSound ==
  ASSUME LearningInv, NEW s \in Datasets
  PROVE  Sound(s, submissions)
<1>1. CASE s \in models
  BY <1>1 DEF LearningInv, AllSound
<1>2. CASE s \notin models
  <2>1. PICK b \in Builders : data[b] # None /\ s = data[b]
    BY <1>2 DEF Datasets, Building
  <2> QED BY <2>1 DEF LearningInv, AllSound, Builds
<1> QED BY <1>1, <1>2

\* Types, and that no feedback dataset is built from too few labels
\* (dataset.py:409-410), however submissions and builders interleave.
THEOREM TypeCorrect == Spec => []TypeOK
<1>1. LearningInv => TypeOK
  <2> SUFFICES ASSUME LearningInv PROVE TypeOK
    OBVIOUS
  <2>1. Filings /\ Builds
    BY DEF LearningInv
  <2>2. \A f \in Filed : /\ feedback[f].alert \in Alerts /\ feedback[f].label \in Labels
                         /\ feedback[f].stamp \in Nat /\ feedback[f].number <= submissions
    BY <2>1, FiledIsFeedback
  <2>3. \A b \in Builders :
          /\ phase[b] \in {"new", "mark", "save", "done"}
          /\ b \in Building <=> phase[b] \in {"mark", "save"}
          /\ left[b] # <<>> => phase[b] = "save"
          /\ b \in open => left[b] # <<>>
    BY <2>1 DEF Builds, Building, LearningInv, Saved
  <2>4. \A s \in Datasets : FromFeedback(s) => Len(Parts(s)) >= Minimum
    BY DatasetsAreSound DEF Sound
  <2> QED BY <2>1, <2>2, <2>3, <2>4 DEF TypeOK, Filings, Builds
<1> QED BY <1>1, LearningInvariant, PTL

\* No dataset leaks what its model is measured on (dataset.py:15-20, 381-383).
THEOREM NothingLeaks == Spec => []NoLeakage
<1>1. LearningInv => NoLeakage
  <2> SUFFICES ASSUME LearningInv PROVE NoLeakage
    OBVIOUS
  <2>1. \A s \in Datasets : Tight(s)
    BY DatasetsAreSound DEF Sound
  <2> QED BY <2>1 DEF NoLeakage, Tight
<1> QED BY <1>1, LearningInvariant, PTL

\* A verdict that a registered model has learnt from is marked (dataset.py:436).
THEOREM UsedVerdictsAreMarked == Spec => []UsedIsMarked
<1>1. LearningInv => UsedIsMarked
  BY DEF LearningInv, Marked, Uses, UsedIsMarked
<1> QED BY <1>1, LearningInvariant, PTL

\* A registered model's dataset stays whole on disk (training.py:229-232) as long as no
\* other is saved under its id and no builder dies there with a file open, however many
\* builders of the same run cut its files and fill them again (dataset.py:453).
THEOREM RegisteredAreOnDisk == Spec => []RegisteredIsOnDisk
<1>1. LearningInv => RegisteredIsOnDisk
  <2> SUFFICES ASSUME LearningInv PROVE RegisteredIsOnDisk
    OBVIOUS
  <2>1. \A s \in models : Undisturbed(s) =>
          \A name \in Members(FilesOf(s)) : Whole(s, name)
    BY DEF LearningInv, Saved
  <2> HIDE DEF Members, FilesOf, Content, File
  <2> QED BY <2>1 DEF RegisteredIsOnDisk, Undisturbed, Whole
<1> QED BY <1>1, LearningInvariant, PTL
=============================================================================
