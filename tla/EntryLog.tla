------------------------------ MODULE EntryLog ------------------------------
(***************************************************************************)
(* What an asynchronous log promises its callers: an entry handed over is  *)
(* waiting until it is written, it is written at most once, it is given up *)
(* only once the process is told to stop, and nothing is written after the *)
(* log closed.                                                             *)
(***************************************************************************)
EXTENDS Naturals, Sequences, SequencesExt

CONSTANT Entries

VARIABLES accepted, written, closing, closed

logVars == <<accepted, written, closing, closed>>

Waiting == accepted \ ToSet(written)

LogInit ==
    /\ accepted = {} /\ written = <<>>
    /\ closing = FALSE /\ closed = FALSE

Accept(e) ==
    /\ e \notin accepted
    /\ accepted' = accepted \cup {e}
    /\ UNCHANGED <<written, closing, closed>>

Write(e) ==
    /\ ~closed
    /\ e \in Waiting
    /\ written' = Append(written, e)
    /\ UNCHANGED <<accepted, closing, closed>>

BeginClose ==
    /\ ~closing
    /\ closing' = TRUE
    /\ UNCHANGED <<accepted, written, closed>>

Close ==
    /\ closing /\ ~closed
    /\ closed' = TRUE
    /\ UNCHANGED <<accepted, written, closing>>

LogNext ==
    \/ \E e \in Entries : Accept(e) \/ Write(e)
    \/ BeginClose \/ Close

\* A waiting entry is written, unless the log closes first; a log told to stop
\* closes.
LogSpec ==
    /\ LogInit /\ [][LogNext]_logVars
    /\ WF_logVars(Close)
    /\ \A e \in Entries : WF_logVars(Write(e))
=============================================================================
