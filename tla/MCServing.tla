------------------------------ MODULE MCServing ------------------------------
EXTENDS Serving, TLC

\* The second model is the best, the third as good as the first.
Quality == [v \in Versions |-> IF v = 2 THEN 2 ELSE 1]

ToUse == {"CHAMPION", "CHALLENGER"}

Symmetry == Permutations(Operators)
=============================================================================
