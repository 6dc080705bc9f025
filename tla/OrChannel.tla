------------------------------ MODULE OrChannel ------------------------------
(***************************************************************************)
(* or.Or (L4.1): one goroutine per input waits for its channel; the first  *)
(* to pass sync.Once sends a dummy value on the unbuffered result and      *)
(* closes it.  The inputs and the reader of the result are the caller's:   *)
(* an input gives one value or is closed, the reader receives when it      *)
(* likes, or never.                                                        *)
(***************************************************************************)
EXTENDS Naturals, FiniteSets

CONSTANT MaxInputs      \* bound: channels given to one call

ASSUME OrBounds == MaxInputs \in Nat

VARIABLES
    n,          \* len(channels)
    input,      \* input[c]: open, holds a value, closed, or its value is taken
    pc,         \* pc[c]: the goroutine of input c
    once,       \* the sync.Once
    closed,     \* out is closed
    receiving,  \* the reader is blocked in <-out
    got,        \* values the reader received
    sawClose,   \* the reader received from the closed channel
    fired       \* history: the inputs that became ready

vars == <<n, input, pc, once, closed, receiving, got, sawClose, fired>>

Inputs == 1..n
Merged == n >= 2

TypeOK ==
    /\ n \in 0..MaxInputs
    /\ input \in [1..MaxInputs -> {"open", "value", "closed", "taken"}]
    /\ pc \in [1..MaxInputs -> {"wait", "once", "send", "close", "done"}]
    /\ once \in {"new", "running", "done"}
    /\ closed \in BOOLEAN /\ receiving \in BOOLEAN /\ sawClose \in BOOLEAN
    /\ got \in 0..1
    /\ fired \subseteq Inputs

Init ==
    /\ n \in 0..MaxInputs
    /\ input = [c \in 1..MaxInputs |-> "open"]
    /\ pc = [c \in 1..MaxInputs |-> "wait"]
    /\ once = "new"
    /\ closed = FALSE /\ receiving = FALSE /\ got = 0 /\ sawClose = FALSE
    /\ fired = {}

-----------------------------------------------------------------------------
(* The caller.                                                              *)

Fire(c, how) ==
    /\ input[c] = "open"
    /\ input' = [input EXCEPT ![c] = how]
    /\ fired' = fired \cup {c}
    /\ UNCHANGED <<n, pc, once, closed, receiving, got, sawClose>>

\* sig closes its channel; a caller may send a value instead.
InputCloses(c) == Fire(c, "closed")
InputSends(c)  == Fire(c, "value")

ReaderReceives ==
    /\ ~receiving /\ ~sawClose
    /\ receiving' = TRUE
    /\ UNCHANGED <<n, input, pc, once, closed, got, sawClose, fired>>

\* With one input the result is the input itself; with none it is nil and the
\* receive never ends.
PassThrough ==
    /\ n = 1 /\ receiving
    /\ \/ /\ input[1] = "value"
          /\ input' = [input EXCEPT ![1] = "taken"] /\ got' = got + 1
          /\ UNCHANGED sawClose
       \/ /\ input[1] = "closed"
          /\ sawClose' = TRUE
          /\ UNCHANGED <<input, got>>
    /\ receiving' = FALSE
    /\ UNCHANGED <<n, pc, once, closed, fired>>

ReaderSeesClose ==
    /\ Merged /\ receiving /\ closed
    /\ receiving' = FALSE /\ sawClose' = TRUE
    /\ UNCHANGED <<n, input, pc, once, closed, got, fired>>

-----------------------------------------------------------------------------
(* The goroutine of input c.                                                *)

\* Mutant: the goroutine waits for the close only.
WaitForClose(c) ==
    /\ Merged /\ pc[c] = "wait"
    /\ input[c] = "closed"
    /\ pc' = [pc EXCEPT ![c] = "once"]
    /\ UNCHANGED <<n, input, once, closed, receiving, got, sawClose, fired>>

\* <-c: a value is taken, a closed channel stays closed.
Wait(c) ==
    /\ Merged /\ pc[c] = "wait"
    /\ input[c] \in {"value", "closed"}
    /\ input' = [input EXCEPT ![c] = IF @ = "value" THEN "taken" ELSE @]
    /\ pc' = [pc EXCEPT ![c] = "once"]
    /\ UNCHANGED <<n, once, closed, receiving, got, sawClose, fired>>

\* Mutant: a flag read before it is set lets a second goroutine in.
DoUnguarded(c) ==
    /\ pc[c] = "once"
    /\ pc' = [pc EXCEPT ![c] = IF once = "done" THEN "done" ELSE "send"]
    /\ once' = IF once = "done" THEN once ELSE "running"
    /\ UNCHANGED <<n, input, closed, receiving, got, sawClose, fired>>

\* Mutant: a mutex that is locked and never unlocked in place of the Once.
DoLocks(c) ==
    /\ pc[c] = "once"
    /\ once = "new"
    /\ once' = "running"
    /\ pc' = [pc EXCEPT ![c] = "send"]
    /\ UNCHANGED <<n, input, closed, receiving, got, sawClose, fired>>

\* once.Do: the first goroutine runs the function, the others wait until it
\* has returned and skip it.
Do(c) ==
    /\ pc[c] = "once"
    /\ \/ /\ once = "new"
          /\ once' = "running"
          /\ pc' = [pc EXCEPT ![c] = "send"]
       \/ /\ once = "done"
          /\ pc' = [pc EXCEPT ![c] = "done"]
          /\ UNCHANGED once
    /\ UNCHANGED <<n, input, closed, receiving, got, sawClose, fired>>

\* out is unbuffered: the send and the receive happen together.
Send(c) ==
    /\ pc[c] = "send" /\ receiving
    /\ receiving' = FALSE /\ got' = got + 1
    /\ pc' = [pc EXCEPT ![c] = "close"]
    /\ UNCHANGED <<n, input, once, closed, sawClose, fired>>

CloseOut(c) ==
    /\ pc[c] = "close"
    /\ closed' = TRUE /\ once' = "done"
    /\ pc' = [pc EXCEPT ![c] = "done"]
    /\ UNCHANGED <<n, input, receiving, got, sawClose, fired>>

Next ==
    \/ \E c \in Inputs :
        \/ InputCloses(c) \/ InputSends(c)
        \/ Wait(c) \/ Do(c) \/ Send(c) \/ CloseOut(c)
    \/ ReaderReceives \/ PassThrough \/ ReaderSeesClose

Spec == Init /\ [][Next]_vars

\* Goroutines that can run do; the caller owes nothing.
FairSpec ==
    /\ Spec
    /\ WF_vars(PassThrough) /\ WF_vars(ReaderSeesClose)
    /\ \A c \in 1..MaxInputs :
          WF_vars(c \in Inputs /\ (Wait(c) \/ Do(c) \/ Send(c) \/ CloseOut(c)))
-----------------------------------------------------------------------------
(* Properties.                                                              *)

\* Nobody is about to send on, or to close, a closed result (both panic), and
\* at most one goroutine is inside the Once, however many inputs fire at once.
OneWriter ==
    LET inside == {c \in Inputs : pc[c] \in {"send", "close"}} IN
    Cardinality(inside) <= (IF closed THEN 0 ELSE 1)

\* Once an input fired, a reader that waits for the result is released,
\* whichever input it was and however many others are silent.
ReaderReleased == receiving /\ got = 0 /\ fired # {} ~> ~receiving

\* One receive ends them all: once a reader waits for the result, or has
\* received from it, the goroutine of every input that fired ends, that of the
\* winner of the Once, however long it was blocked in its send, those that
\* wait for it in Do, and those whose input becomes ready only later.  Without
\* a reader they stay.
FiredGoroutinesEnd ==
    \A c \in 1..MaxInputs :
        Merged /\ (receiving \/ got > 0 \/ sawClose) /\ c \in fired ~> pc[c] = "done"
=============================================================================
