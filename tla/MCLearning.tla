----------------------------- MODULE MCLearning -----------------------------
EXTENDS Learning, TLC

\* Four alerts of the DGA detector, two of them at one time, and one of another.
AllAlerts == {"a1", "a2", "a3", "a4", "x"}
DetectorOf == [a \in AllAlerts |-> IF a = "x" THEN "c2" ELSE "dga"]
TimeOf == [a \in AllAlerts |-> CASE a = "a1" -> 3 [] a = "a4" -> 1 [] OTHER -> 2]

\* All DGA alerts have a verdict, and one has a second that differs.
Verdicts ==
  LET row(a, label, number) ==
        [alert |-> a, label |-> label, stamp |-> number + 2, number |-> number,
         consumed |-> None]
  IN  [f \in FeedbackIds |->
         CASE f = "f1" -> row("a1", "TRUE_POSITIVE", -1)
           [] f = "f2" -> row("a2", "TRUE_POSITIVE", -1)
           [] f = "f3" -> row("a3", "FALSE_POSITIVE", -1)
           [] f = "f4" -> row("a4", "TRUE_POSITIVE", -1)
           [] f = "f5" -> row("a1", "FALSE_POSITIVE", 0)
           [] OTHER -> None]

\* A second verdict, older than the first or newer; a client's id again: the other verdict
\* stays, the only one is withdrawn or goes to another alert; and another detector's.
Submitted ==
  LET post(f, a, label, stamp) == [id |-> f, alert |-> a, label |-> label, stamp |-> stamp]
  IN  {post("f6", "a2", "FALSE_POSITIVE", 0), post("f6", "a2", "FALSE_POSITIVE", 3),
       post("f5", "a1", "TRUE_POSITIVE", 0), post("f1", "a1", "UNCERTAIN", 3),
       post("f2", "a2", "UNCERTAIN", 3), post("f3", "a4", "FALSE_POSITIVE", 3),
       post("f1", "a4", "TRUE_POSITIVE", 0), post("f6", "x", "TRUE_POSITIVE", 3)}

\* Two lab runs of the same size and seed.
Labs == {[seed |-> 1, perFamily |-> 2, benign |-> 8], [seed |-> 1, perFamily |-> 4, benign |-> 4]}

Symmetry == Permutations(Builders)
=============================================================================
