---------------------------- MODULE QuorumClient ----------------------------
(***************************************************************************)
(* mygrep, the client of the distributed grep (L4.2): client.Run hands one *)
(* chunk of the input to a goroutine per server, each posts it (retrying   *)
(* dial errors) and reports through a channel that a closer goroutine      *)
(* closes; Run collects, checks the quorum and puts the matches in order;  *)
(* main turns the result into an exit code.                                *)
(*                                                                         *)
(* Server s works on chunk s; the input is abstracted to the numbers of    *)
(* the lines of each chunk that match the pattern, and a server that       *)
(* answers gives the response of LineFilter.                               *)
(***************************************************************************)
EXTENDS FilterResponse, FiniteSetsExt, SequencesExt

CONSTANTS
    N,          \* number of servers
    Inputs,     \* bound: inputs, as the matching lines of every chunk
    Quorums,    \* values of --quorum
    Retries     \* BOOLEAN values of ConnectRetry > 0

Servers == 1..N

\* Later chunks have greater line numbers.
InOrder(f) ==
    \A s, t \in Servers : s < t => \A k \in f[s], l \in f[t] : k < l

ASSUME ClientBounds ==
    /\ N \in Nat \ {0}
    /\ Inputs \subseteq [Servers -> SUBSET Nat]
    /\ \A f \in Inputs : InOrder(f) /\ \A s \in Servers : IsFiniteSet(f[s])
    /\ Quorums \subseteq Int /\ Retries \subseteq BOOLEAN

VARIABLES
    quorumArg,  \* cfg.Quorum
    retry,      \* cfg.ConnectRetry > 0
    mode,       \* the flags: plain lines, -c, or -l (of both, -c counts)
    found,      \* found[s]: the lines of chunk s that match
    pc,         \* pc[s]: the goroutine of server s
    answer,     \* answer[s]: what postProcessWithRetry returned
    windowOpen, \* windowOpen[s]: the retry deadline of s has not passed
    expired,    \* dispatchCtx.Done
    resCh,      \* results in the channel
    closed,     \* the closer closed it
    main,       \* where Run and main are
    successes,  \* the keys of successByChunk
    failures,   \* result.Failures
    result,     \* result.Matches, Count, HasMatch, QuorumMet
    exitCode    \* of the process

config == <<quorumArg, retry, mode, found>>
vars   == <<config, pc, answer, windowOpen, expired, resCh, closed, main,
            successes, failures, result, exitCode>>

Modes == {"lines", "count", "list"}

NoResult == [matches |-> <<>>, count |-> 0, hasMatch |-> FALSE, met |-> FALSE]

\* The default is a majority.
Quorum == IF quorumArg <= 0 THEN N \div 2 + 1 ELSE quorumArg

TypeOK ==
    /\ quorumArg \in Quorums /\ retry \in Retries /\ mode \in Modes
    /\ found \in [Servers -> SUBSET Nat]
    /\ pc \in [Servers -> {"post", "dialed", "backoff", "report", "done"}]
    /\ answer \in [Servers -> {"none", "ok", "refused", "error"}]
    /\ windowOpen \in [Servers -> BOOLEAN]
    /\ expired \in BOOLEAN /\ closed \in BOOLEAN
    /\ resCh \in Seq(Servers) /\ Len(resCh) <= N
    /\ main \in {"start", "collect", "returned", "exited"}
    /\ successes \subseteq Servers /\ failures \in 0..N
    /\ result \in [matches : Seq(Nat), count : Nat,
                   hasMatch : BOOLEAN, met : BOOLEAN]
    /\ exitCode \in {-1, 0, 1, 2}

Init ==
    /\ quorumArg \in Quorums /\ retry \in Retries
    /\ mode \in Modes /\ found \in Inputs
    /\ pc = [s \in Servers |-> "post"]
    /\ answer = [s \in Servers |-> "none"]
    /\ windowOpen = [s \in Servers |-> retry]
    /\ expired = FALSE /\ resCh = <<>> /\ closed = FALSE
    /\ main = "start" /\ successes = {} /\ failures = 0
    /\ result = NoResult /\ exitCode = -1

-----------------------------------------------------------------------------
(* Run and main.                                                            *)

\* A quorum no set of servers can meet is an error; main exits with 2.
Reject ==
    /\ main = "start" /\ Quorum > N
    /\ main' = "exited" /\ exitCode' = 2
    /\ UNCHANGED <<config, pc, answer, windowOpen, expired, resCh, closed,
                   successes, failures, result>>

Dispatch ==
    /\ main = "start" /\ Quorum <= N
    /\ main' = "collect"
    /\ UNCHANGED <<config, pc, answer, windowOpen, expired, resCh, closed,
                   successes, failures, result, exitCode>>

Running == main = "collect"

\* Mutant: an answer with an error text counts as a success.
CollectRefusals ==
    /\ Running /\ resCh # <<>>
    /\ resCh' = Tail(resCh)
    /\ LET s == Head(resCh) IN
       IF answer[s] # "error"
       THEN successes' = successes \cup {s} /\ UNCHANGED failures
       ELSE failures' = failures + 1 /\ UNCHANGED successes
    /\ UNCHANGED <<config, pc, answer, windowOpen, expired, closed, main,
                   result, exitCode>>

Collect ==
    /\ Running /\ resCh # <<>>
    /\ resCh' = Tail(resCh)
    /\ LET s == Head(resCh) IN
       IF answer[s] = "ok"
       THEN successes' = successes \cup {s} /\ UNCHANGED failures
       ELSE failures' = failures + 1 /\ UNCHANGED successes
    /\ UNCHANGED <<config, pc, answer, windowOpen, expired, closed, main,
                   result, exitCode>>

\* What server s answers, with absolute line numbers.
Reply(s) == ResponseTo(mode, TRUE, 0, found[s])

\* Mutant: the chunks are visited in an order that is not the file's.
AssembleUnsorted ==
    FoldLeft(LAMBDA m, s : m \o Reply(s).matches, <<>>, Reverse(Ascending(successes)))

\* The matches of the chunks that were answered, chunk by chunk.
Assemble ==
    FoldLeft(LAMBDA m, s : m \o Reply(s).matches, <<>>, Ascending(successes))

QuorumMet == Cardinality(successes) >= Quorum

\* The channel is closed and empty.
Return ==
    /\ Running /\ closed /\ resCh = <<>>
    /\ main' = "returned"
    /\ result' = [matches  |-> Assemble,
                  count    |-> MapThenSumSet(LAMBDA s : Reply(s).count, successes),
                  hasMatch |-> \E s \in successes : Reply(s).hasMatch,
                  met      |-> QuorumMet]
    /\ UNCHANGED <<config, pc, answer, windowOpen, expired, resCh, closed,
                   successes, failures, exitCode>>

\* Mutant: the exit code is taken from the printed lines.
ExitByLines ==
    /\ main = "returned"
    /\ main' = "exited"
    /\ exitCode' = IF ~result.met THEN 2
                   ELSE IF result.matches # <<>> THEN 0 ELSE 1
    /\ UNCHANGED <<config, pc, answer, windowOpen, expired, resCh, closed,
                   successes, failures, result>>

\* 2 without quorum, else as grep does: by the count under -c, by HasMatch.
Exit ==
    /\ main = "returned"
    /\ main' = "exited"
    /\ exitCode' = IF ~result.met THEN 2
                   ELSE IF (IF mode = "count" THEN result.count > 0 ELSE result.hasMatch)
                   THEN 0 ELSE 1
    /\ UNCHANGED <<config, pc, answer, windowOpen, expired, resCh, closed,
                   successes, failures, result>>

-----------------------------------------------------------------------------
(* The goroutine of server s: postProcessWithRetry, then the report.        *)

Returns(s, from, a) ==
    /\ Running /\ pc[s] = from
    /\ answer' = [answer EXCEPT ![s] = a]
    /\ pc' = [pc EXCEPT ![s] = "report"]
    /\ UNCHANGED <<config, windowOpen, expired, resCh, closed, main, successes,
                   failures, result, exitCode>>

Turns(s, from, to) ==
    /\ Running /\ pc[s] = from
    /\ pc' = [pc EXCEPT ![s] = to]
    /\ UNCHANGED <<config, answer, windowOpen, expired, resCh, closed, main,
                   successes, failures, result, exitCode>>

\* A full answer, also one that arrives when the context has just expired.
Answered(s) == Returns(s, "post", "ok")

\* HTTP 200 with an error text: the pattern does not compile.
Refused(s) == Returns(s, "post", "refused")

\* Mutant: the request is not bound to the context.
FailedWithoutContext(s) == ~expired /\ Returns(s, "post", "error")

\* A status, decode, transport or context error.
Failed(s) == Returns(s, "post", "error")

\* A dial error; the deadline is looked at later.
DialFails(s) == Turns(s, "post", "dialed")

\* The window is open, or it is over (without one, from the start).
TriesAgain(s) == windowOpen[s] /\ Turns(s, "dialed", "backoff")
GivesUp(s)    == ~windowOpen[s] /\ Returns(s, "dialed", "error")

\* postProcessWithRetry of s has not returned.
Posting(s) == pc[s] \in {"post", "dialed", "backoff"}

WindowCloses(s) ==
    /\ Running /\ windowOpen[s] /\ Posting(s)
    /\ windowOpen' = [windowOpen EXCEPT ![s] = FALSE]
    /\ UNCHANGED <<config, pc, answer, expired, resCh, closed, main, successes,
                   failures, result, exitCode>>

BackoffEnds(s)      == Turns(s, "backoff", "post")
BackoffCancelled(s) == expired /\ Returns(s, "backoff", "error")

\* Mutant: the goroutine posts again after its report.
ReportAndRepeat(s) ==
    /\ Running /\ pc[s] = "report"
    /\ pc' = [pc EXCEPT ![s] = "post"]
    /\ resCh' = Append(resCh, s)
    /\ UNCHANGED <<config, answer, windowOpen, expired, closed, main, successes,
                   failures, result, exitCode>>

\* The buffered send is always ready.
Report(s) ==
    /\ Running /\ pc[s] = "report"
    /\ pc' = [pc EXCEPT ![s] = "done"]
    /\ resCh' = Append(resCh, s)
    /\ UNCHANGED <<config, answer, windowOpen, expired, closed, main, successes,
                   failures, result, exitCode>>

\* The select may take dispatchCtx.Done although the send is ready.
Drop(s) ==
    /\ Running /\ pc[s] = "report" /\ expired
    /\ pc' = [pc EXCEPT ![s] = "done"]
    /\ UNCHANGED <<config, answer, windowOpen, expired, resCh, closed, main,
                   successes, failures, result, exitCode>>

\* Mutant: wg.Done before the report (a send on a closed channel).
CloseEarly ==
    /\ Running /\ ~closed
    /\ \A s \in Servers : pc[s] \in {"report", "done"}
    /\ closed' = TRUE
    /\ UNCHANGED <<config, pc, answer, windowOpen, expired, resCh, main,
                   successes, failures, result, exitCode>>

\* wg.Wait, close(resCh).
Close ==
    /\ Running /\ ~closed
    /\ \A s \in Servers : pc[s] = "done"
    /\ closed' = TRUE
    /\ UNCHANGED <<config, pc, answer, windowOpen, expired, resCh, main,
                   successes, failures, result, exitCode>>

\* The timeout of dispatchCtx.
Expire ==
    /\ Running /\ ~expired
    /\ expired' = TRUE
    /\ UNCHANGED <<config, pc, answer, windowOpen, resCh, closed, main,
                   successes, failures, result, exitCode>>

Terminated == main = "exited" /\ UNCHANGED vars

Next ==
    \/ Reject \/ Dispatch \/ Collect \/ Return \/ Exit \/ Close \/ Expire
    \/ \E s \in Servers :
        \/ Answered(s) \/ Refused(s) \/ Failed(s)
        \/ DialFails(s) \/ TriesAgain(s) \/ GivesUp(s)
        \/ WindowCloses(s) \/ BackoffEnds(s) \/ BackoffCancelled(s)
        \/ Report(s) \/ Drop(s)
    \/ Terminated

Spec == Init /\ [][Next]_vars

\* Time passes; a request ends with an error once its context has expired;
\* goroutines that can run do.  A server may never answer, and a sleeping
\* retry is only known to end by then.
FairSpec ==
    /\ Spec
    /\ WF_vars(Reject \/ Dispatch) /\ WF_vars(Collect) /\ WF_vars(Return)
    /\ WF_vars(Exit) /\ WF_vars(Close) /\ WF_vars(Expire)
    /\ \A s \in Servers : /\ WF_vars(expired /\ Failed(s))
                          /\ WF_vars(TriesAgain(s) \/ GivesUp(s))
                          /\ SF_vars(BackoffCancelled(s))
                          /\ WF_vars(Report(s) \/ Drop(s))
-----------------------------------------------------------------------------
(* Properties.                                                              *)

Returned == main \in {"returned", "exited"} /\ Quorum <= N

\* The result is exactly what the answering servers found, in the order of the
\* file, whatever the order of the answers: no line twice, none invented, none
\* of an answered chunk missing, and -c agrees with the lines.
ResultInFileOrder ==
    Returned =>
        LET seen == UNION {found[s] : s \in successes} IN
        /\ result.hasMatch <=> seen # {}
        /\ mode = "count" => result.count = Cardinality(seen)
        /\ mode = "lines" => ToSet(result.matches) = seen
        /\ \A k, m \in DOMAIN result.matches :
               k < m => result.matches[k] < result.matches[m]

\* A reached quorum means that so many different servers really processed their
\* chunk: a refusal or an error never counts.
QuorumIsReal ==
    Returned /\ result.met =>
        Cardinality({s \in Servers : answer[s] = "ok"}) >= Quorum

\* The counters never add up to more than the servers, also after retries and
\* with results dropped at the timeout; and until the context expires no answer
\* gets lost: when Run returns, every server is in one of the two counters.
AllCountedInTime ==
    Returned =>
        LET counted == Cardinality(successes) + failures IN
        /\ counted <= N
        /\ ~expired => counted = N

\* The exit code is right when every server answered, and 0 always means that
\* the input has a match.
ExitCodeSound ==
    main = "exited" =>
        /\ exitCode = 0 => \E s \in Servers : found[s] # {}
        /\ successes = Servers =>
               exitCode = IF \A s \in Servers : found[s] = {} THEN 1 ELSE 0

\* Run always returns, with hanging and refusing servers and across retries.
Terminates == <>(main = "exited")
=============================================================================
