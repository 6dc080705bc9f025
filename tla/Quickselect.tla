----------------------------- MODULE Quickselect -----------------------------
(***************************************************************************)
(* percentile95 of the statistics service (L4.5): quickselect on a copy of *)
(* the numbers, with a median-of-three pivot and an in-place partition.    *)
(* One action per turn of the two loops.  Indices are the 0-based ones of  *)
(* the code.                                                               *)
(***************************************************************************)
EXTENDS Integers, Sequences, FiniteSets, FiniteSetsExt, SequencesExt

CONSTANTS
    Values,     \* the numbers
    Percents,   \* percentiles to select; the code's is 95
    NoValue     \* no result yet

VARIABLES
    input,          \* the numbers of the request
    values,         \* the copy, a function on 0..Length-1
    percent,        \* the percentile asked for
    target,         \* the index to select
    left, right,    \* the range that still holds the target
    pc,             \* idle, select, partition, compare, done
    i, store,       \* the variables of partition
    result

vars == <<input, values, percent, target, left, right, pc, i, store, result>>

Length == Len(input)
Index == 0..(Length - 1)

\* Mutant: the ceiling is a floor.
IndexRoundedDown(p, length) ==
    LET index == (p * length) \div 100 - 1 IN IF index < 0 THEN 0 ELSE index

\* ceil(length * p / 100) - 1, kept inside the slice.
PercentileIndex(p, length) ==
    LET index == (p * length + 99) \div 100 - 1 IN
    IF index < 0 THEN 0 ELSE IF index >= length THEN length - 1 ELSE index

TypeOK ==
    /\ pc \in {"idle", "select", "partition", "compare", "done"}
    /\ result \in Values \cup {NoValue}
    /\ pc # "idle" =>
          /\ values \in [Index -> Values] /\ target \in Index
          /\ left \in 0..Length /\ right \in -1..(Length - 1)
          /\ i \in Index /\ store \in Index
    /\ pc = "partition" => left <= store /\ store <= i /\ i <= right

Init ==
    /\ values = <<>> /\ percent = 0 /\ target = 0
    /\ left = 0 /\ right = 0
    /\ pc = "idle" /\ i = 0 /\ store = 0
    /\ result = NoValue

-----------------------------------------------------------------------------
\* percentile95 clones the numbers and enters quickselect.
Begin ==
    /\ pc = "idle" /\ Length > 0
    /\ \E p \in Percents : percent' = p /\ target' = PercentileIndex(p, Length)
    /\ values' = [k \in Index |-> input[k + 1]]
    /\ left' = 0 /\ right' = Length - 1
    /\ pc' = "select"
    /\ UNCHANGED <<input, i, store, result>>

Swap(v, a, b) == [v EXCEPT ![a] = v[b], ![b] = v[a]]
SwapIfGreater(v, a, b) == IF v[a] > v[b] THEN Swap(v, a, b) ELSE v

Middle == left + (right - left) \div 2

\* medianOfThree orders the first, middle and last number of the range.
MedianOfThree ==
    LET v1 == SwapIfGreater(values, left, Middle)
        v2 == SwapIfGreater(v1, left, right)
    IN  SwapIfGreater(v2, Middle, right)

\* One number is left.
ReturnLast ==
    /\ pc = "select" /\ left >= right
    /\ result' = values[left]
    /\ pc' = "done"
    /\ UNCHANGED <<input, values, percent, target, left, right, i, store>>

\* partition: the pivot goes to the end of the range.
BeginPartition ==
    /\ pc = "select" /\ left < right
    /\ values' = Swap(MedianOfThree, Middle, right)
    /\ i' = left /\ store' = left
    /\ pc' = "partition"
    /\ UNCHANGED <<input, percent, target, left, right, result>>

\* Mutant: store moves on although nothing was swapped.
ScanMovesAlways ==
    /\ pc = "partition" /\ i < right
    /\ values' = IF values[i] < values[right] THEN Swap(values, store, i) ELSE values
    /\ store' = store + 1
    /\ i' = i + 1
    /\ UNCHANGED <<input, percent, target, left, right, pc, result>>

\* Mutant: the pivot is scanned, too.
ScanPastEnd ==
    /\ pc = "partition" /\ i <= right
    /\ IF values[i] < values[right]
       THEN values' = Swap(values, store, i) /\ store' = store + 1
       ELSE UNCHANGED <<values, store>>
    /\ i' = i + 1
    /\ UNCHANGED <<input, percent, target, left, right, pc, result>>

Scan ==
    /\ pc = "partition" /\ i < right
    /\ IF values[i] < values[right]
       THEN values' = Swap(values, store, i) /\ store' = store + 1
       ELSE UNCHANGED <<values, store>>
    /\ i' = i + 1
    /\ UNCHANGED <<input, percent, target, left, right, pc, result>>

\* The pivot goes between the two parts; store is its index.
EndPartition ==
    /\ pc = "partition" /\ i = right
    /\ values' = Swap(values, right, store)
    /\ pc' = "compare"
    /\ UNCHANGED <<input, percent, target, left, right, i, store, result>>

Found ==
    /\ pc = "compare" /\ store = target
    /\ result' = values[store]
    /\ pc' = "done"
    /\ UNCHANGED <<input, values, percent, target, left, right, i, store>>

\* Mutant: the pivot stays in the range.
NarrowKeepsPivot ==
    /\ pc = "compare" /\ store # target
    /\ IF store < target
       THEN left' = store /\ UNCHANGED right
       ELSE right' = store /\ UNCHANGED left
    /\ pc' = "select"
    /\ UNCHANGED <<input, values, percent, target, i, store, result>>

\* The range shrinks past the pivot.
Narrow ==
    /\ pc = "compare" /\ store # target
    /\ IF store < target
       THEN left' = store + 1 /\ UNCHANGED right
       ELSE right' = store - 1 /\ UNCHANGED left
    /\ pc' = "select"
    /\ UNCHANGED <<input, values, percent, target, i, store, result>>

Next ==
    \/ Begin \/ ReturnLast \/ BeginPartition \/ Scan \/ EndPartition \/ Found
    \/ Narrow
-----------------------------------------------------------------------------
(* Properties.                                                              *)

\* Everything before the range is at most, and everything behind it at least,
\* what the range holds, and the target is inside the range: giving up one side
\* of the pivot never gives up the answer.
TargetInRange ==
    /\ pc \notin {"idle", "done"} => left <= target /\ target <= right
    /\ pc # "idle" =>
          \A k, m \in Index : (k < left /\ m >= left) \/ (k <= right /\ m > right)
                                 => values[k] <= values[m]

\* The result is the smallest number that so many percent of the input do not
\* exceed, with equal numbers and on every order of the input: no swap loses a
\* number the answer depends on.
PercentileRank ==
    LET upTo(x) == Cardinality({k \in DOMAIN input : input[k] <= x}) IN
    result # NoValue =>
        /\ 100 * upTo(result) >= percent * Length
        /\ \A x \in ToSet(input) : x < result => 100 * upTo(x) < percent * Length
=============================================================================
