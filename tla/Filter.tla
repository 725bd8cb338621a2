------------------------------- MODULE Filter -------------------------------
(***************************************************************************)
(* Selection from a sequence, as the comprehensions and dict filters of the *)
(* code do it: the chosen elements, in the order they had.  Lists joined by  *)
(* +=, and list.sort.                                                        *)
(***************************************************************************)
EXTENDS Integers, Sequences, FiniteSets

\* The elements of sequence m.
Members(m) == {m[i] : i \in 1..Len(m)}

\* The elements of m that are members of S, in order.
Only(m, S) ==
  LET f[n \in 0..Len(m)] ==
        IF n = 0 THEN <<>>
        ELSE IF m[n] \in S THEN Append(f[n-1], m[n]) ELSE f[n-1]
  IN  f[Len(m)]

\* The sequences of q, one after the other.
Joined(q) ==
  LET f[n \in 0..Len(q)] == IF n = 0 THEN <<>> ELSE f[n-1] \o q[n]
  IN  f[Len(q)]

\* The elements of S in the order of their keys, those with one key in any order.
SortedBy(S, key) ==
  CHOOSE s \in [1..Cardinality(S) -> S] :
    \A i, j \in 1..Cardinality(S) : i < j => s[i] # s[j] /\ key[s[i]] <= key[s[j]]
=============================================================================
