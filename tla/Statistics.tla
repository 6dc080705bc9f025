------------------------------ MODULE Statistics ------------------------------
(***************************************************************************)
(* stats.Calculate as a whole (L4.5): the aggregation of ParallelStats,    *)
(* sequential or with goroutines, and then the percentile of the same      *)
(* numbers by Quickselect.                                                 *)
(***************************************************************************)
EXTENDS ParallelStats

CONSTANTS Percents, NoValue

ASSUME PercentBounds == Percents \subseteq 1..100 /\ NoValue \notin Values

VARIABLES values, percent, target, left, right, phase, i, store, p95

selection == <<values, percent, target, left, right, phase, i, store, p95>>

Select == INSTANCE Quickselect WITH input <- numbers, pc <- phase, result <- p95

CalculateInit == Init /\ Select!Init

Aggregate == Next /\ UNCHANGED selection

\* An empty input was rejected before.
SelectPercentile == pc = "done" /\ HasResult /\ Select!Next /\ UNCHANGED vars

Answered == pc = "done" /\ (HasResult => phase = "done")
Returned == Answered /\ UNCHANGED <<vars, selection>>

CalculateNext == Aggregate \/ SelectPercentile \/ Returned

\* A request is worked on to its end.
CalculateSpec ==
    /\ CalculateInit /\ [][CalculateNext]_<<vars, selection>>
    /\ WF_<<vars, selection>>(Aggregate \/ SelectPercentile)
-----------------------------------------------------------------------------
(* Properties.                                                              *)

\* Types of both parts, and the indices of the partition in their order.
WellTyped == TypeOK /\ Select!TypeOK

\* Quickselect never gives up the side of the pivot that holds the answer.
TargetInRange == Select!TargetInRange

\* The percentile has its rank in the numbers of the request.
PercentileRank == Select!PercentileRank

\* Calculate answers every request: all goroutines end, and the selection does
\* not loop, also with equal numbers.
Terminates == <>Answered
=============================================================================
