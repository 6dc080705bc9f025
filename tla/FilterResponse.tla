--------------------------- MODULE FilterResponse ---------------------------
(***************************************************************************)
(* The content of the response of a grep server (L4.2) to one chunk: what  *)
(* a sequential pass over its lines finds.  LineFilter says that a server  *)
(* gives it, QuorumClient what the client makes of it.                     *)
(***************************************************************************)
EXTENDS Sorting

Refusal == [error |-> TRUE, matches |-> <<>>, count |-> 0, hasMatch |-> FALSE]

\* Plain, -c or -l; indices is the set of the 0-based indices of the
\* matching lines, first the number of the first line.
ResponseTo(flag, compiles, first, indices) ==
    IF ~compiles THEN Refusal
    ELSE [error    |-> FALSE,
          matches  |-> IF flag = "lines"
                       THEN Ascending({first + i : i \in indices}) ELSE <<>>,
          count    |-> IF flag = "count" THEN Cardinality(indices) ELSE 0,
          hasMatch |-> indices # {}]
=============================================================================
