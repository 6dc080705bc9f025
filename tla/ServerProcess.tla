---------------------------- MODULE ServerProcess ----------------------------
(***************************************************************************)
(* One POST /process request of a grep server (L4.2): the handler, the     *)
(* producer of jobs, the pool of workers, the closer of the result channel *)
(* and the two ways the handler gathers results (countMatches waits for    *)
(* the pool and then adds up, collectMatches reads while the pool works).  *)
(***************************************************************************)
EXTENDS Sorting, FiniteSetsExt, SequencesExt

CONSTANTS
    Workers,    \* h.Workers
    MaxLines,   \* bound: lines of the chunk
    Starts,     \* StartLine of the request
    Pending     \* no response yet

ASSUME ServerBounds ==
    /\ Workers \in Nat \ {0} /\ MaxLines \in Nat /\ Starts \subseteq Int
    /\ Pending \notin [error : BOOLEAN, matches : Seq(Int), count : Nat, hasMatch : BOOLEAN]

VARIABLES
    mode,       \* what the flags ask for: "lines", "count" (-c), "list" (-l)
    valid,      \* the pattern compiles
    start,      \* startLine after its default
    total,      \* len(lines)
    hits,       \* 0-based indices of the lines that match
    main,       \* where the handler is
    produced,   \* lines the producer has sent
    jobs, jobsClosed,
    pc,         \* pc[w]: worker w receives, sends a hit, sends its count, is done
    job,        \* job[w]: the line worker w holds
    local,      \* local[w]: hits counted by w
    out, outClosed,         \* the channel of results: hits, or counts
    gathered,   \* hits the handler has read
    response

request == <<mode, valid, start, total, hits>>
pool    == <<produced, jobs, jobsClosed, pc, job, local>>
vars    == <<request, main, pool, out, outClosed, gathered, response>>

PoolSize == IF Workers > total THEN total ELSE Workers
Pool     == 1..PoolSize
Capacity == 2 * PoolSize

TypeOK ==
    /\ mode \in {"lines", "count", "list"} /\ valid \in BOOLEAN
    /\ start \in Int /\ total \in 0..MaxLines /\ hits \subseteq 0..(total - 1)
    /\ main \in {"decode", "gather", "responded"}
    /\ produced \in 0..total
    /\ jobs \in Seq(0..(total - 1)) /\ Len(jobs) <= Capacity
    /\ jobsClosed \in BOOLEAN /\ outClosed \in BOOLEAN
    /\ pc \in [1..Workers -> {"receive", "hit", "count", "done"}]
    /\ job \in [1..Workers -> 0..MaxLines]
    /\ local \in [1..Workers -> 0..MaxLines]
    /\ out \in Seq(0..MaxLines) /\ Len(out) <= Capacity
    /\ gathered \in Seq(0..MaxLines)

Init ==
    /\ mode \in {"lines", "count", "list"} /\ valid \in BOOLEAN
    /\ start \in {IF s <= 0 THEN 1 ELSE s : s \in Starts}
    /\ total \in 0..MaxLines /\ hits \in SUBSET (0..(total - 1))
    /\ main = "decode" /\ produced = 0
    /\ jobs = <<>> /\ jobsClosed = FALSE
    /\ pc = [w \in 1..Workers |-> "receive"]
    /\ job = [w \in 1..Workers |-> 0]
    /\ local = [w \in 1..Workers |-> 0]
    /\ out = <<>> /\ outClosed = FALSE /\ gathered = <<>>
    /\ response = Pending

-----------------------------------------------------------------------------
Response(matches, count, hasMatch) ==
    [error |-> FALSE, matches |-> matches, count |-> count, hasMatch |-> hasMatch]

\* The pattern does not compile: 200 with an error text.
RefusePattern ==
    /\ main = "decode" /\ ~valid
    /\ main' = "responded"
    /\ response' = [Response(<<>>, 0, FALSE) EXCEPT !.error = TRUE]
    /\ UNCHANGED <<request, pool, out, outClosed, gathered>>

\* Without lines no pool is started.
RespondEmpty ==
    /\ main = "decode" /\ valid /\ total = 0
    /\ main' = "responded"
    /\ response' = Response(<<>>, 0, FALSE)
    /\ UNCHANGED <<request, pool, out, outClosed, gathered>>

StartPool ==
    /\ main = "decode" /\ valid /\ total > 0
    /\ main' = "gather"
    /\ UNCHANGED <<request, pool, out, outClosed, gathered, response>>

\* Mutant: the send does not wait for room.
ProduceUnbounded ==
    /\ main = "gather" /\ produced < total
    /\ jobs' = Append(jobs, produced)
    /\ produced' = produced + 1
    /\ UNCHANGED <<request, main, jobsClosed, pc, job, local, out, outClosed,
                   gathered, response>>

Produce ==
    /\ main = "gather" /\ produced < total
    /\ Len(jobs) < Capacity
    /\ jobs' = Append(jobs, produced)
    /\ produced' = produced + 1
    /\ UNCHANGED <<request, main, jobsClosed, pc, job, local, out, outClosed,
                   gathered, response>>

CloseJobs ==
    /\ main = "gather" /\ produced = total /\ ~jobsClosed
    /\ jobsClosed' = TRUE
    /\ UNCHANGED <<request, main, produced, jobs, pc, job, local, out, outClosed,
                   gathered, response>>

\* Mutant: a worker looks at a line and leaves it in the channel on a hit.
TakeShared(w) ==
    /\ main = "gather" /\ w \in Pool
    /\ pc[w] = "receive" /\ jobs # <<>>
    /\ LET i == Head(jobs) IN
       IF i \in hits
       THEN /\ job' = [job EXCEPT ![w] = i]
            /\ pc' = [pc EXCEPT ![w] = "hit"]
            /\ UNCHANGED <<local, jobs>>
       ELSE jobs' = Tail(jobs) /\ UNCHANGED <<pc, job, local>>
    /\ UNCHANGED <<request, main, produced, jobsClosed, out, outClosed, gathered,
                   response>>

\* A worker takes a line and matches it: a hit is counted or to be sent.
Take(w) ==
    /\ main = "gather" /\ w \in Pool
    /\ pc[w] = "receive" /\ jobs # <<>>
    /\ jobs' = Tail(jobs)
    /\ LET i == Head(jobs) IN
       \/ /\ i \notin hits
          /\ UNCHANGED <<pc, job, local>>
       \/ /\ i \in hits /\ mode = "count"
          /\ local' = [local EXCEPT ![w] = @ + 1]
          /\ UNCHANGED <<pc, job>>
       \/ /\ i \in hits /\ mode # "count"
          /\ job' = [job EXCEPT ![w] = i]
          /\ pc' = [pc EXCEPT ![w] = "hit"]
          /\ UNCHANGED local
    /\ UNCHANGED <<request, main, produced, jobsClosed, out, outClosed, gathered,
                   response>>

SendHit(w) ==
    /\ pc[w] = "hit" /\ Len(out) < Capacity
    /\ out' = Append(out, job[w])
    /\ pc' = [pc EXCEPT ![w] = "receive"]
    /\ UNCHANGED <<request, main, produced, jobs, jobsClosed, job, local,
                   outClosed, gathered, response>>

\* range over jobs ends.
Leave(w) ==
    /\ main = "gather" /\ w \in Pool
    /\ pc[w] = "receive" /\ jobs = <<>> /\ jobsClosed
    /\ pc' = [pc EXCEPT ![w] = IF mode = "count" THEN "count" ELSE "done"]
    /\ UNCHANGED <<request, main, produced, jobs, jobsClosed, job, local, out,
                   outClosed, gathered, response>>

\* counts holds one value per worker, so that wg.Wait cannot block it.
SendCount(w) ==
    /\ pc[w] = "count" /\ Len(out) < PoolSize
    /\ out' = Append(out, local[w])
    /\ pc' = [pc EXCEPT ![w] = "done"]
    /\ UNCHANGED <<request, main, produced, jobs, jobsClosed, job, local,
                   outClosed, gathered, response>>

\* wg.Wait and close: by the closer goroutine, or by countMatches itself.
CloseOut ==
    /\ main = "gather" /\ ~outClosed
    /\ \A w \in Pool : pc[w] = "done"
    /\ outClosed' = TRUE
    /\ UNCHANGED <<request, main, pool, out, gathered, response>>

\* collectMatches reads from the start, countMatches after wg.Wait.
Gather ==
    /\ main = "gather" /\ out # <<>>
    /\ mode = "count" => outClosed
    /\ gathered' = Append(gathered, Head(out))
    /\ out' = Tail(out)
    /\ UNCHANGED <<request, main, pool, outClosed, response>>

\* Mutant: the results stay in the order of arrival.
AsGathered == [k \in DOMAIN gathered |-> start + gathered[k]]

\* sort.Slice by index, then absolute line numbers.
Matches == LET sorted == Sorted(gathered)
           IN  [k \in DOMAIN sorted |-> start + sorted[k]]

Respond ==
    /\ main = "gather" /\ outClosed /\ out = <<>>
    /\ main' = "responded"
    /\ response' =
          LET sum == FoldLeft(+, 0, gathered) IN
          CASE mode = "count" -> Response(<<>>, sum, sum > 0)
            [] mode = "list"  -> Response(<<>>, 0, gathered # <<>>)
            [] mode = "lines" -> Response(Matches, 0, gathered # <<>>)
    /\ UNCHANGED <<request, pool, out, outClosed, gathered>>

Finished == main = "responded" /\ UNCHANGED vars

Next ==
    \/ RefusePattern \/ RespondEmpty \/ StartPool
    \/ Produce \/ CloseJobs \/ CloseOut \/ Gather \/ Respond \/ Finished
    \/ \E w \in 1..Workers : Take(w) \/ SendHit(w) \/ Leave(w) \/ SendCount(w)

Spec == Init /\ [][Next]_vars

\* Every goroutine that can run does.
FairSpec ==
    /\ Spec
    /\ WF_vars(RefusePattern \/ RespondEmpty \/ StartPool)
    /\ WF_vars(Produce \/ CloseJobs) /\ WF_vars(CloseOut)
    /\ WF_vars(Gather \/ Respond)
    /\ \A w \in 1..Workers : WF_vars(Take(w) \/ SendHit(w) \/ Leave(w) \/ SendCount(w))
-----------------------------------------------------------------------------
(* Properties.                                                              *)

\* No line is lost between the channels and none is matched twice: while the
\* pool works, every hit of a line already produced is waiting as a job, held,
\* counted, on its way or gathered, exactly once.
EveryHitOnce ==
    mode # "count" =>
        \A i \in hits :
            Cardinality({k \in DOMAIN jobs : jobs[k] = i})
            + Cardinality({w \in Pool : pc[w] = "hit" /\ job[w] = i})
            + Cardinality({k \in DOMAIN out : out[k] = i})
            + Cardinality({k \in DOMAIN gathered : gathered[k] = i})
                = (IF i < produced THEN 1 ELSE 0)

\* The handler responds, once, with what a sequential pass would have found,
\* for every interleaving of the workers and all three modes.
Filter == INSTANCE LineFilter

ImplementsLineFilter == Filter!FilterSpec
=============================================================================
