------------------------------- MODULE Sorting -------------------------------
(***************************************************************************)
(* sort.Ints and sort.Slice of Go as mygrep and its servers (L4.2) use     *)
(* them: numbers in ascending order.  The number at a place is the one     *)
(* with so many before it, which can be reasoned about; the SortSeq of     *)
(* the standard modules has no definition outside of TLC.                  *)
(***************************************************************************)
EXTENDS Integers, Sequences, FiniteSets

\* How many numbers of S are smaller than x.
Below(S, x) == Cardinality({y \in S : y < x})

\* The numbers of S in ascending order.
Ascending(S) == [k \in 1..Cardinality(S) |-> CHOOSE x \in S : Below(S, x) = k - 1]

\* How many places of s come before place k; it does not matter which of two
\* equal numbers is the first.
Before(s, k) ==
    Cardinality({j \in DOMAIN s : s[j] < s[k] \/ (s[j] = s[k] /\ j < k)})

\* The numbers of the sequence s in ascending order.
Sorted(s) ==
    [m \in DOMAIN s |-> s[CHOOSE k \in DOMAIN s : Before(s, k) = m - 1]]
=============================================================================
