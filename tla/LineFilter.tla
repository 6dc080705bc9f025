----------------------------- MODULE LineFilter -----------------------------
(***************************************************************************)
(* What one grep server promises for one chunk: a single response, equal   *)
(* to what a sequential pass over the lines of the chunk would give.       *)
(***************************************************************************)
EXTENDS FilterResponse

CONSTANTS Pending   \* no response yet

VARIABLES mode, valid, start, hits, response

\* hits is the set of the 0-based indices of the matching lines.
Reference == ResponseTo(mode, valid, start, hits)

FilterInit == response = Pending

Respond ==
    /\ response = Pending
    /\ response' = Reference
    /\ UNCHANGED <<mode, valid, start, hits>>

filterVars == <<mode, valid, start, hits, response>>
FilterSpec == FilterInit /\ [][Respond]_filterVars /\ WF_filterVars(Respond)
=============================================================================
