---------------------------- MODULE ParallelStats ----------------------------
(***************************************************************************)
(* stats.Calculate (L4.5): count, sum, min and max of a slice of numbers,  *)
(* in one pass below the threshold, and above it by goroutines that write  *)
(* partial results which the caller merges after wg.Wait.  avg is sum by   *)
(* count; p95 is the module Quickselect.  Numbers are integers here, so    *)
(* rounding and overflow of float64 are left out.                          *)
(***************************************************************************)
EXTENDS Integers, Sequences, FiniteSets, FiniteSetsExt, SequencesExt

CONSTANTS
    Values,     \* the numbers
    MaxLen,     \* bound: length of the input
    MaxProcs,   \* bound: GOMAXPROCS
    Threshold,  \* parallelThreshold
    None        \* no result: not yet, or ErrEmptyInput

ASSUME StatsBounds ==
    /\ Values \subseteq Int
    /\ MaxLen \in Nat /\ MaxProcs \in Nat \ {0} /\ Threshold \in Nat \ {0}

VARIABLES
    numbers,    \* the argument
    procs,      \* GOMAXPROCS
    pc,         \* the caller: start, launch, wait, done
    worker,     \* the loop variable of the launching loop
    running,    \* goroutines launched and not finished
    partials,   \* one per worker, written by its goroutine
    result

vars == <<numbers, procs, pc, worker, running, partials, result>>

Length == Len(numbers)
Workers == IF procs > Length THEN Length ELSE procs
ChunkSize == (Length + Workers - 1) \div Workers

\* The slice numbers[First(w):End(w)] of worker w, 0-based.
First(w) == w * ChunkSize
End(w) == IF First(w) + ChunkSize > Length THEN Length ELSE First(w) + ChunkSize

Zero == [sum |-> 0, min |-> 0, max |-> 0]

TypeOK ==
    /\ numbers \in BoundedSeq(Values, MaxLen) /\ procs \in 1..MaxProcs
    /\ pc \in {"start", "launch", "wait", "done"}
    /\ worker \in 0..Workers
    /\ running \subseteq 0..(worker - 1)
    /\ pc \in {"launch", "wait"} => DOMAIN partials = 0..(Workers - 1)
    /\ \A w \in DOMAIN partials : partials[w] \in [sum : Int, min : Int, max : Int]
    /\ result = None \/ result \in [count : Nat, sum : Int, min : Int, max : Int]

Init ==
    /\ numbers \in BoundedSeq(Values, MaxLen) /\ procs \in 1..MaxProcs
    /\ pc = "start" /\ worker = 0 /\ running = {}
    /\ partials = <<>> /\ result = None

-----------------------------------------------------------------------------
\* The loop over a slice that starts from its first number.
Pass(s) ==
    FoldLeft(LAMBDA p, x : [sum |-> p.sum + x,
                            min |-> IF x < p.min THEN x ELSE p.min,
                            max |-> IF x > p.max THEN x ELSE p.max],
             [sum |-> 0, min |-> s[1], max |-> s[1]], s)

Result(p) == [count |-> Length, sum |-> p.sum, min |-> p.min, max |-> p.max]

RejectEmpty ==
    /\ pc = "start" /\ Length = 0
    /\ pc' = "done"
    /\ UNCHANGED <<numbers, procs, worker, running, partials, result>>

Sequential ==
    /\ pc = "start" /\ Length \in 1..(Threshold - 1)
    /\ result' = Result(Pass(numbers))
    /\ pc' = "done"
    /\ UNCHANGED <<numbers, procs, worker, running, partials>>

BeginParallel ==
    /\ pc = "start" /\ Length > 0 /\ Length >= Threshold
    /\ partials' = [w \in 0..(Workers - 1) |-> Zero]
    /\ pc' = "launch"
    /\ UNCHANGED <<numbers, procs, worker, running, result>>

Launch ==
    /\ pc = "launch" /\ worker < Workers /\ First(worker) < End(worker)
    /\ running' = running \cup {worker}
    /\ worker' = worker + 1
    /\ UNCHANGED <<numbers, procs, pc, partials, result>>

\* The loop ends, or breaks at the first worker without numbers.
StopLaunching ==
    /\ pc = "launch" /\ (worker = Workers \/ First(worker) >= End(worker))
    /\ pc' = "wait"
    /\ UNCHANGED <<numbers, procs, worker, running, partials, result>>

\* Mutant: the extremes start from zero.
WorkFromZero(w) ==
    /\ w \in running
    /\ partials' = [partials EXCEPT ![w] =
                       LET p == Pass(SubSeq(numbers, First(w) + 1, End(w)))
                       IN  [p EXCEPT !.min = IF @ > 0 THEN 0 ELSE @]]
    /\ running' = running \ {w}
    /\ UNCHANGED <<numbers, procs, pc, worker, result>>

\* The goroutine of worker w.
Work(w) ==
    /\ w \in running
    /\ partials' = [partials EXCEPT ![w] =
                       Pass(SubSeq(numbers, First(w) + 1, End(w)))]
    /\ running' = running \ {w}
    /\ UNCHANGED <<numbers, procs, pc, worker, result>>

\* Every partial takes part, also one that no goroutine has written.
Merged ==
    [sum |-> MapThenSumSet(LAMBDA w : partials[w].sum, DOMAIN partials),
     min |-> Min({partials[w].min : w \in DOMAIN partials}),
     max |-> Max({partials[w].max : w \in DOMAIN partials})]

\* Mutant: wg.Add inside the goroutine, so that wg.Wait may return early.
MergeEarly ==
    /\ pc = "wait"
    /\ result' = Result(Merged)
    /\ pc' = "done"
    /\ UNCHANGED <<numbers, procs, worker, running, partials>>

\* wg.Wait and the merge.
Merge ==
    /\ pc = "wait" /\ running = {}
    /\ result' = Result(Merged)
    /\ pc' = "done"
    /\ UNCHANGED <<numbers, procs, worker, running, partials>>

Next ==
    \/ RejectEmpty \/ Sequential \/ BeginParallel \/ Launch \/ StopLaunching
    \/ \E w \in 0..(MaxProcs - 1) : Work(w)
    \/ Merge

Spec == Init /\ [][Next]_vars
-----------------------------------------------------------------------------
(* Properties.                                                              *)

HasResult == result # None

\* Count and sum are those of the input whatever the cut, the number of
\* processors and the order in which the goroutines finish.
SumAndCount ==
    HasResult => /\ result.count = Length
                 /\ result.sum = FoldLeft(+, 0, numbers)

Extremes(r) == r.min = Min(ToSet(numbers)) /\ r.max = Max(ToSet(numbers))

AllBusy == \A w \in 0..(Workers - 1) : First(w) < Length

\* Min and max are right on the sequential path, and on the parallel one when
\* every worker has numbers.
ExtremesWhenBusy ==
    HasResult /\ (Length < Threshold \/ AllBusy) => Extremes(result)

\* README of L4.5: the service computes count, sum, min and max.
MinMaxOfNumbers == HasResult => Extremes(result)
=============================================================================
