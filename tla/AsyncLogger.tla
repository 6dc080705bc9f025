----------------------------- MODULE AsyncLogger -----------------------------
(***************************************************************************)
(* The asynchronous logger of the calendar service (L4.3): callers put     *)
(* entries into a bounded channel and never block, an overflow goroutine   *)
(* holds what did not fit, Run writes, and drain writes what is left when  *)
(* the context is cancelled.  main does not wait for Run.                  *)
(*                                                                         *)
(* The channel follows the Go runtime: a sender that finds the buffer full *)
(* parks, in order, and a receive moves the first parked value in.         *)
(***************************************************************************)
EXTENDS Integers, Sequences, FiniteSets, SequencesExt

CONSTANTS
    Callers,    \* goroutines that log
    PerCaller,  \* bound: entries of one caller
    LogBuffer   \* capacity of the channel

ASSUME LogBounds == PerCaller \in Nat /\ LogBuffer \in Nat \ {0}

Entries == Callers \X (1..PerCaller)

VARIABLES
    issued,     \* issued[c]: Info calls made by c
    ch,         \* l.ch, the buffer
    parked,     \* overflow goroutines blocked in l.ch <- entry, in order
    spawned,    \* overflow goroutines that did not reach the send yet
    run,        \* where Run is: in its select, in drain, or returned
    cancelled,  \* ctx.Done is closed
    exited,     \* main returned: the process is gone
    written,    \* history: entries given to slog
    direct,     \* history: entries that found room when Info was called
    timedOut,   \* history: drain returned on its 500 ms timeout
    queued      \* history: entries that had reached the channel when it was cancelled

vars == <<issued, ch, parked, spawned, run, cancelled, exited,
          written, direct, timedOut, queued>>

history == <<written, direct, timedOut, queued>>

Issued == {e \in Entries : e[2] <= issued[e[1]]}

TypeOK ==
    /\ issued \in [Callers -> 0..PerCaller]
    /\ ch \in Seq(Entries) /\ Len(ch) <= LogBuffer
    /\ parked \in Seq(Entries)
    /\ spawned \subseteq Entries
    /\ run \in {"select", "drain", "returned"}
    /\ cancelled \in BOOLEAN /\ exited \in BOOLEAN /\ timedOut \in BOOLEAN
    /\ written \in Seq(Entries)
    /\ direct \subseteq Entries /\ queued \subseteq Entries

Init ==
    /\ issued = [c \in Callers |-> 0]
    /\ ch = <<>> /\ parked = <<>> /\ spawned = {}
    /\ run = "select"
    /\ cancelled = FALSE /\ exited = FALSE /\ timedOut = FALSE
    /\ written = <<>> /\ direct = {} /\ queued = {}

-----------------------------------------------------------------------------
\* Mutant: the default branch drops the entry.
InfoDrops(c) ==
    LET e == <<c, issued[c] + 1>> IN
    /\ ~exited
    /\ issued[c] < PerCaller
    /\ issued' = [issued EXCEPT ![c] = @ + 1]
    /\ IF Len(ch) < LogBuffer
       THEN ch' = Append(ch, e) /\ direct' = direct \cup {e}
       ELSE UNCHANGED <<ch, direct>>
    /\ UNCHANGED <<parked, spawned, run, cancelled, exited, written, timedOut, queued>>

\* Mutant: the send is left to a goroutine although there is room.
InfoSpawnsAlways(c) ==
    LET e == <<c, issued[c] + 1>> IN
    /\ ~exited
    /\ issued[c] < PerCaller
    /\ issued' = [issued EXCEPT ![c] = @ + 1]
    /\ spawned' = spawned \cup {e}
    /\ direct' = IF Len(ch) < LogBuffer THEN direct \cup {e} ELSE direct
    /\ UNCHANGED <<ch, parked, run, cancelled, exited, written, timedOut, queued>>

\* A send that is ready at once, or a goroutine of its own.
Info(c) ==
    LET e == <<c, issued[c] + 1>> IN
    /\ ~exited
    /\ issued[c] < PerCaller
    /\ issued' = [issued EXCEPT ![c] = @ + 1]
    /\ \/ /\ Len(ch) < LogBuffer
          /\ ch' = Append(ch, e)
          /\ direct' = direct \cup {e}
          /\ UNCHANGED spawned
       \/ /\ Len(ch) >= LogBuffer
          /\ spawned' = spawned \cup {e}
          /\ UNCHANGED <<ch, direct>>
    /\ UNCHANGED <<parked, run, cancelled, exited, written, timedOut, queued>>

\* Mutant: the goroutine tries only once.
OverflowTriesOnce(e) ==
    /\ ~exited
    /\ e \in spawned
    /\ spawned' = spawned \ {e}
    /\ ch' = IF Len(ch) < LogBuffer THEN Append(ch, e) ELSE ch
    /\ UNCHANGED <<parked, issued, run, cancelled, exited, history>>

\* Mutant: the goroutine does not wait for room.
OverflowOverfills(e) ==
    /\ ~exited
    /\ e \in spawned
    /\ spawned' = spawned \ {e}
    /\ ch' = Append(ch, e)
    /\ UNCHANGED <<parked, issued, run, cancelled, exited, history>>

\* The goroutine reaches its send: it succeeds, or parks.
OverflowSends(e) ==
    /\ ~exited
    /\ e \in spawned
    /\ spawned' = spawned \ {e}
    /\ \/ /\ Len(ch) < LogBuffer
          /\ ch' = Append(ch, e)
          /\ UNCHANGED parked
       \/ /\ Len(ch) >= LogBuffer
          /\ parked' = Append(parked, e)
          /\ UNCHANGED ch
    /\ UNCHANGED <<issued, run, cancelled, exited, history>>

\* A receive from the channel and the write of the entry.
Receive ==
    /\ ch # <<>>
    /\ written' = Append(written, Head(ch))
    /\ IF parked = <<>>
       THEN ch' = Tail(ch) /\ UNCHANGED parked
       ELSE ch' = Append(Tail(ch), Head(parked)) /\ parked' = Tail(parked)

\* Run and drain take an entry whenever one is ready; both also may do so when
\* ctx.Done, or the timeout, is ready as well.
RunWrites ==
    /\ ~exited
    /\ run \in {"select", "drain"}
    /\ Receive
    /\ UNCHANGED <<issued, spawned, run, cancelled, exited, direct, timedOut, queued>>

RunSeesDone ==
    /\ ~exited
    /\ run = "select" /\ cancelled
    /\ run' = "drain"
    /\ UNCHANGED <<issued, ch, parked, spawned, cancelled, exited, history>>

\* Mutant: drain returns although entries are left in the buffer.
DrainGivesUp ==
    /\ ~exited
    /\ run = "drain"
    /\ run' = "returned"
    /\ UNCHANGED <<issued, ch, parked, spawned, cancelled, exited, history>>

\* default: nothing is ready.
DrainEnds ==
    /\ ~exited
    /\ run = "drain" /\ ch = <<>>
    /\ run' = "returned"
    /\ UNCHANGED <<issued, ch, parked, spawned, cancelled, exited, history>>

\* 500 ms have passed; default wins when the buffer is empty as well.
DrainTimesOut ==
    /\ ~exited
    /\ run = "drain" /\ ch # <<>>
    /\ run' = "returned" /\ timedOut' = TRUE
    /\ UNCHANGED <<issued, ch, parked, spawned, cancelled, exited, written,
                   direct, queued>>

\* A signal, or ListenAndServe failing.
Cancel ==
    /\ ~exited /\ ~cancelled
    /\ cancelled' = TRUE
    /\ queued' = ToSet(ch) \cup ToSet(parked)
    /\ UNCHANGED <<issued, ch, parked, spawned, run, exited, written, direct,
                   timedOut>>

\* main returns, wherever Run is.
MainReturns ==
    /\ cancelled /\ ~exited
    /\ exited' = TRUE
    /\ UNCHANGED <<issued, ch, parked, spawned, run, cancelled, history>>

\* The process is gone, or only goroutines blocked forever are left.
Finished == exited /\ UNCHANGED vars

Next ==
    \/ \E c \in Callers : Info(c)
    \/ \E e \in Entries : OverflowSends(e)
    \/ RunWrites \/ RunSeesDone \/ DrainEnds \/ DrainTimesOut
    \/ Cancel \/ MainReturns \/ Finished

Spec == Init /\ [][Next]_vars

\* Goroutines that can run do; a select that finds Done ready again and again
\* takes it.  Callers, the signal and the timeout may never come, and main may
\* wait for its signal forever after ListenAndServe failed.
FairSpec ==
    /\ Spec
    /\ WF_vars(RunWrites) /\ SF_vars(RunSeesDone) /\ WF_vars(DrainEnds)
    /\ \A e \in Entries : WF_vars(OverflowSends(e))
-----------------------------------------------------------------------------
(* Properties.                                                              *)

\* Every entry handed to Info is in exactly one place: the buffer, an overflow
\* goroutine, or the output.  The default branch of Info neither loses nor
\* duplicates an entry, at any fill level and across the hand-over to drain.
Conserved ==
    \A e \in Entries :
        Cardinality({k \in DOMAIN ch : ch[k] = e})
        + Cardinality({k \in DOMAIN parked : parked[k] = e})
        + Cardinality({k \in DOMAIN written : written[k] = e})
        + (IF e \in spawned THEN 1 ELSE 0)
            = (IF e \in Issued THEN 1 ELSE 0)

\* Entries of one caller that found room in the buffer come out in the order of
\* its calls, whatever overflows in between; only an entry that met a full
\* buffer may be overtaken.
DirectInOrder ==
    \A k, l \in DOMAIN written :
        (/\ k < l
         /\ {written[k], written[l]} \subseteq direct
         /\ written[k][1] = written[l][1])
            => written[k][2] < written[l][2]

\* What had reached the channel when the context was cancelled (in the buffer,
\* or parked behind it) is written before Run returns, unless drain times out:
\* the select of Run may take ctx.Done with entries ready, so drain has to.
DrainWritesQueued ==
    run = "returned" /\ ~timedOut => queued \subseteq ToSet(written)

\* The logger implements the abstract log: what it gives up it gives up only
\* after the cancellation, and as long as nothing cancels it every entry is
\* written, also one that took the overflow path.
Log == INSTANCE EntryLog WITH
           accepted <- Issued,
           written <- written,
           closing <- cancelled,
           closed <- run = "returned" \/ exited

ImplementsEntryLog == Log!LogSpec
=============================================================================
