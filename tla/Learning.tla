------------------------------ MODULE Learning ------------------------------
(***************************************************************************)
(* From analysts' verdicts to a registered model: feedback submitted to the  *)
(* API (sih_ntd/api.py, store.py), datasets built from it or generated in    *)
(* the lab (sih_ntd/ml/dataset.py), and training, which saves the dataset    *)
(* and registers a candidate (sih_ntd/ml/training.py).  Builders are         *)
(* processes that analysts start by hand, at once or not, and that may die.  *)
(*                                                                         *)
(* A sample is what it is of, its label, its time and, from feedback, the    *)
(* number of the submission that the label comes from.  Feature values and   *)
(* what a classifier makes of them are left out, and so are drift signals,   *)
(* which change nothing.  Verdicts are ordered by a time stamp that comes    *)
(* with the submission, right or not.                                       *)
(***************************************************************************)
EXTENDS Integers, Sequences, FiniteSets, Filter

CONSTANTS
  Builders,
  Alerts, Detector, Time,  \* alerts in the store; detector and time of each
  Observed,       \* alerts whose evidence has all features the builder asks for
  FeedbackIds,
  Reviewed,       \* feedback in the store at the start, numbers up to 0
  Posts,          \* what analysts may submit while builders run
  LabRuns,        \* [seed, perFamily, benign] of sih-ntd train-dga
  Families, Holdout,
  Minimum,        \* labels a dataset needs: 20
  MaxSubmissions, \* bound: submissions while builders run
  MaxCrashes,     \* bound: builders that die
  None

Usable == {"TRUE_POSITIVE", "FALSE_POSITIVE"}
Labels == Usable \cup {"UNCERTAIN"}

ASSUME LearningAssumption ==
  /\ IsFiniteSet(Alerts) /\ Observed \subseteq Alerts
  /\ Time \in [Alerts -> Nat] /\ DOMAIN Detector = Alerts
  /\ LabRuns \subseteq [seed : Nat, perFamily : Nat, benign : Nat]
  /\ Holdout \in Families /\ "benign" \notin Families /\ IsFiniteSet(Families)
  /\ Posts \subseteq [id : FeedbackIds, alert : Alerts, label : Labels, stamp : Nat]
  /\ Minimum \in Nat \ {0} /\ MaxSubmissions \in Nat /\ MaxCrashes \in Nat

Detectors == {Detector[a] : a \in Alerts}
Ids == ({"lab"} \X Nat \X Nat) \cup ({"feedback"} \X Detectors \X Nat \X Nat)
Samples == [of : Alerts \cup (Families \X Nat) \cup ({"benign"} \X Nat \X Nat),
            label : {0, 1}, at : Nat, number : Int]
Dataset == [id : Ids, train : Seq(Samples), validation : Seq(Samples),
            test : Seq(Samples), unseen : Seq(Samples)]
Feedback == [alert : Alerts, label : Labels, stamp : Nat, number : Int,
             consumed : Ids \cup {None}]

ASSUME NoneAssumption == None \notin Ids \cup Dataset \cup Feedback \cup Builders

\* A number belongs to one submission about an alert.
ASSUME ReviewedAssumption ==
  /\ Reviewed \in [FeedbackIds -> Feedback \cup {None}]
  /\ \A f, g \in {f \in FeedbackIds : Reviewed[f] # None} :
       /\ Reviewed[f].number <= 0
       /\ Reviewed[f].alert = Reviewed[g].alert /\ Reviewed[f].number = Reviewed[g].number
            => f = g

VARIABLES
  feedback,  \* [alert, label, stamp, number, consumed] of each id, or None
  disk,      \* datasets/<id>/<name>: the dataset in it, or who cut it last
  models,    \* datasets of the registered candidates
  phase,     \* of each builder
  usable,    \* feedback ids a builder has read
  data,      \* the dataset it has built
  left,      \* files it has still to write
  open,      \* builders that have the file open that they are to write next
  begun,     \* history: datasets that somebody has begun to save
  broken,    \* history: ids under which a builder died with a file open
  submissions, crashes

local == <<phase, usable, data, left>>
saving == <<disk, open, begun, broken>>
vars == <<feedback, saving, models, local, submissions, crashes>>

Filed == {f \in FeedbackIds : feedback[f] # None}

Init ==
  /\ feedback = Reviewed
  /\ disk = <<>> /\ models = {}
  /\ phase = [b \in Builders |-> "new"] /\ usable = [b \in Builders |-> {}]
  /\ data = [b \in Builders |-> None] /\ left = [b \in Builders |-> <<>>]
  /\ open = {} /\ begun = {} /\ broken = {}
  /\ submissions = 0 /\ crashes = 0

\* POST /feedback.  The id and the time stamp may be a client's own: INSERT OR REPLACE.
Submit(post) ==
  /\ submissions < MaxSubmissions
  /\ submissions' = submissions + 1
  /\ feedback' = [feedback EXCEPT ![post.id] =
       [alert |-> post.alert, label |-> post.label, stamp |-> post.stamp,
        number |-> submissions + 1, consumed |-> None]]
  /\ UNCHANGED <<saving, models, local, crashes>>
-----------------------------------------------------------------------------
(* Datasets.                                                                *)

\* Mutant: the second part starts one too early.
SplitOverlapping(s) ==
  LET first == (7 * Len(s)) \div 10   second == (85 * Len(s)) \div 100
  IN  <<SubSeq(s, 1, first), SubSeq(s, first, second), SubSeq(s, second + 1, Len(s))>>

\* 70/15/15 (int(len * 0.7) of a float is one less for some lengths, 90 first).
Split(s) ==
  LET first == (7 * Len(s)) \div 10   second == (85 * Len(s)) \div 100
  IN  <<SubSeq(s, 1, first), SubSeq(s, first + 1, second), SubSeq(s, second + 1, Len(s))>>

Sample(of, label, at, number) ==
  [of |-> of, label |-> label, at |-> at, number |-> number]

\* A family's generator is seeded again for each name: they are all the same.
Generated(family, run) ==
  [i \in 1..run.perFamily |-> Sample(<<family, run.seed>>, 1, 0, 0)]

\* Benign names come from one generator (and repeat now and then; not here).
Benign(run) == [i \in 1..run.benign |-> Sample(<<"benign", run.seed, i>>, 0, 0, 0)]

\* Each trained family and the benign names are split on their own.
LabDataset(run) ==
  LET trained == SortedBy(Families \ {Holdout}, [f \in Families |-> 0])
      part(k) ==
        Joined([i \in 1..Len(trained) |-> Split(Generated(trained[i], run))[k]])
          \o Split(Benign(run))[k]
  IN  [id |-> <<"lab", run.seed, run.perFamily * Cardinality(Families) + run.benign>>,
       train |-> part(1), validation |-> part(2), test |-> part(3),
       unseen |-> Generated(Holdout, run) \o Split(Benign(run))[3]]

UsableIds == {f \in Filed : feedback[f].label \in Usable}

\* query_feedback is newest first and the dict keeps the last: the oldest verdict on an
\* alert (of several with one time stamp, any).
Verdict(a) ==
  CHOOSE f \in UsableIds : /\ feedback[f].alert = a
    /\ \A g \in UsableIds : feedback[g].alert = a => feedback[f].stamp <= feedback[g].stamp

Labelled(d) ==
  {a \in Observed : Detector[a] = d /\ \E f \in UsableIds : feedback[f].alert = a}

Rows(d) ==
  LET label(v) == IF v.label = "TRUE_POSITIVE" THEN 1 ELSE 0
      rows == {Sample(a, label(feedback[Verdict(a)]), Time[a], feedback[Verdict(a)].number)
                 : a \in Labelled(d)}
  IN  SortedBy(rows, [r \in rows |-> r.at])

FeedbackDataset(d) ==
  LET rows == Rows(d)  parts == Split(rows)
  IN  [id |-> <<"feedback", d, rows[1].at, Len(rows)>>,
       train |-> parts[1], validation |-> parts[2], test |-> parts[3], unseen |-> <<>>]

\* Mutant: no minimum.
EnoughAlways(d) == Labelled(d) # {}

Enough(d) == Cardinality(Labelled(d)) >= Minimum
-----------------------------------------------------------------------------
(* Builders.                                                                *)

FilesOf(dataset) ==
  <<"train", "validation", "test">>
    \o (IF dataset.id[1] = "lab" THEN <<"unseen_family">> ELSE <<>>)
    \o <<"metadata", "split_provenance">>

\* What a classifier is fitted to, calibrated on and, for the registry, measured on.
Fitted(dataset) == dataset.train
Calibrated(dataset) == dataset.validation
Measured(dataset) == dataset.test

Become(b, p) == phase' = [phase EXCEPT ![b] = p]

\* train_dga: the classifier is fitted, then save_dataset starts.
Train(b, dataset) ==
  /\ Become(b, "save")
  /\ data' = [data EXCEPT ![b] = dataset]
  /\ left' = [left EXCEPT ![b] = FilesOf(dataset)]

\* sih-ntd train-dga.
BuildLab(b, run) ==
  /\ phase[b] = "new"
  /\ Train(b, LabDataset(run))
  /\ UNCHANGED <<feedback, saving, models, usable, submissions, crashes>>

\* build_feedback_dataset reads feedback and alerts; too few labels and it ends.
BuildFromFeedback(b, d) ==
  /\ phase[b] = "new"
  /\ IF Enough(d)
     THEN /\ data' = [data EXCEPT ![b] = FeedbackDataset(d)]
          /\ usable' = [usable EXCEPT ![b] = UsableIds]
          /\ Become(b, "mark")
     ELSE Become(b, "done") /\ UNCHANGED <<data, usable>>
  /\ UNCHANGED <<feedback, saving, models, left, submissions, crashes>>

Consume(f, id) == [feedback[f] EXCEPT !.consumed = id]

\* Mutant: only the newest verdict on an alert is marked.
MarkNewest(b) ==
  /\ phase[b] = "mark"
  /\ feedback' = [f \in FeedbackIds |->
       IF /\ f \in usable[b]
          /\ \A g \in usable[b] : feedback[g].alert = feedback[f].alert
                                    => feedback[g].number <= feedback[f].number
       THEN Consume(f, data[b].id) ELSE feedback[f]]
  /\ Train(b, data[b])
  /\ UNCHANGED <<saving, models, usable, submissions, crashes>>

\* mark_feedback_consumed: every usable row, of whatever detector; only the DGA
\* detector has a trainer.
Mark(b) ==
  /\ phase[b] = "mark"
  /\ feedback' = [f \in FeedbackIds |->
       IF f \in usable[b] THEN Consume(f, data[b].id) ELSE feedback[f]]
  /\ IF data[b].id[2] = "dga"
     THEN Train(b, data[b])
     ELSE Become(b, "done") /\ data' = [data EXCEPT ![b] = None] /\ UNCHANGED left
  /\ UNCHANGED <<saving, models, usable, submissions, crashes>>

File(b) == <<data[b].id, Head(left[b])>>
Write(file, content) ==
  [f \in DOMAIN disk \cup {file} |-> IF f = file THEN content ELSE disk[f]]

\* save_dataset takes one file after the other: open("w") cuts what is there,
Open(b) ==
  /\ phase[b] = "save" /\ left[b] # <<>> /\ b \notin open
  /\ disk' = Write(File(b), b)
  /\ open' = open \cup {b} /\ begun' = begun \cup {data[b]}
  /\ UNCHANGED <<feedback, broken, models, local, submissions, crashes>>

\* Somebody else has cut the file since, or has other rows for it.
Shared(b) ==
  \/ disk[File(b)] \notin {b, data[b]}
  \/ \E o \in open \ {b} : File(o) = File(b) /\ data[o] # data[b]

\* and the rows follow, up to the close.  In a file that is shared they may be torn.
Fill(b) ==
  /\ b \in open
  /\ \/ disk' = Write(File(b), data[b])
     \/ /\ Shared(b)
        /\ disk' = Write(File(b), IF disk[File(b)] \in Builders THEN disk[File(b)] ELSE b)
  /\ left' = [left EXCEPT ![b] = Tail(@)] /\ open' = open \ {b}
  /\ UNCHANGED <<feedback, begun, broken, models, phase, usable, data, submissions, crashes>>

\* Mutant: the candidate is registered while its dataset is being saved.
RegisterEarly(b) ==
  /\ phase[b] = "save"
  /\ models' = models \cup {data[b]}
  /\ Become(b, "done")
  /\ data' = [data EXCEPT ![b] = None] /\ left' = [left EXCEPT ![b] = <<>>]
  /\ open' = open \ {b}
  /\ UNCHANGED <<feedback, disk, begun, broken, usable, submissions, crashes>>

\* The candidate is measured on the test part (Registry.tla has the rest).
Register(b) ==
  /\ phase[b] = "save" /\ left[b] = <<>>
  /\ models' = models \cup {data[b]}
  /\ Become(b, "done")
  /\ data' = [data EXCEPT ![b] = None]
  /\ UNCHANGED <<feedback, saving, usable, left, submissions, crashes>>

Crash(b) ==
  /\ phase[b] \in {"mark", "save"} /\ crashes < MaxCrashes
  /\ crashes' = crashes + 1
  /\ Become(b, "done")
  /\ data' = [data EXCEPT ![b] = None] /\ left' = [left EXCEPT ![b] = <<>>]
  /\ open' = open \ {b}
  /\ broken' = IF b \in open THEN broken \cup {data[b].id} ELSE broken
  /\ UNCHANGED <<feedback, disk, begun, models, usable, submissions>>

Next ==
  \/ \E post \in Posts : Submit(post)
  \/ \E b \in Builders :
       \/ \E run \in LabRuns : BuildLab(b, run)
       \/ \E d \in Detectors : BuildFromFeedback(b, d)
       \/ Mark(b) \/ Open(b) \/ Fill(b) \/ Register(b) \/ Crash(b)

Spec == Init /\ [][Next]_vars
-----------------------------------------------------------------------------
(* Properties.                                                              *)

Building == {b \in Builders : data[b] # None}
Datasets == models \cup {data[b] : b \in Building}
FromFeedback(dataset) == dataset.id[1] = "feedback"
Parts(dataset) == Fitted(dataset) \o Calibrated(dataset) \o Measured(dataset)

TypeOK ==
  /\ \A f \in Filed : /\ feedback[f].alert \in Alerts /\ feedback[f].label \in Labels
                      /\ feedback[f].stamp \in Nat /\ feedback[f].number <= submissions
  /\ \A b \in Builders :
       /\ phase[b] \in {"new", "mark", "save", "done"}
       /\ b \in Building <=> phase[b] \in {"mark", "save"}
       /\ left[b] # <<>> => phase[b] = "save"
       /\ b \in open => left[b] # <<>>
  /\ \A s \in Datasets : FromFeedback(s) => Len(Parts(s)) >= Minimum
  /\ submissions \in 0..MaxSubmissions /\ crashes \in 0..MaxCrashes

\* Leakage control (dataset.py:15-20, 381-383): what a feedback model is measured on
\* is not earlier than what it is calibrated on, nor that than what it is fitted to,
\* and no alert is on two sides, whatever its verdicts; a held-out family is in no
\* part of a lab dataset but its own.
NoLeakage ==
  \A s \in Datasets :
    IF FromFeedback(s)
    THEN \A i, j \in 1..Len(Parts(s)) : i < j =>
           Parts(s)[i].at <= Parts(s)[j].at /\ Parts(s)[i].of # Parts(s)[j].of
    ELSE \A i \in 1..Len(Parts(s)) : Parts(s)[i].of[1] # Holdout

\* A verdict that a registered model has learnt from is marked as consumed as long as
\* nobody replaces it (dataset.py:436): "unconsumed_only" (api.py:459) does not
\* offer it again, however many builders run and die.
UsedIsMarked ==
  \A s \in models : \A i \in 1..Len(Parts(s)) : \A f \in Filed :
    FromFeedback(s) /\ feedback[f].alert = Parts(s)[i].of
      /\ feedback[f].number = Parts(s)[i].number
      => feedback[f].consumed # None

Content(file) == IF file \in DOMAIN disk THEN disk[file] ELSE None

\* When a candidate is registered its dataset is on disk, all of it and all its own
\* (training.py:229-232), and stays so as long as no other dataset is saved under its
\* id and no builder dies there with a file open: the same run, made again or at
\* once by others, cuts each file (dataset.py:453) and leaves it whole.
RegisteredIsOnDisk ==
  \A s \in models :
    (s.id \notin broken /\ \A other \in begun : other.id = s.id => other = s) =>
      \A name \in Members(FilesOf(s)) :
        \/ Content(<<s.id, name>>) = s
        \/ \E b \in open : File(b) = <<s.id, name>>

\* "Persist a dataset next to the model registry so a run is reproducible"
\* (dataset.py:445): what is there is what the model was trained on.
RunIsReproducible ==
  \A s \in models : \A name \in Members(FilesOf(s)) : Content(<<s.id, name>>) = s

\* "Random splitting on generated data puts near-duplicate names from the same
\* family on both sides of the split" (dataset.py:18-19), so no name should be there.
NoNameOnBothSides ==
  \A s \in Datasets : ~FromFeedback(s) =>
    {r.of : r \in Members(Fitted(s))} \cap {r.of : r \in Members(Measured(s))} = {}
=============================================================================
