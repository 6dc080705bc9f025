------------------------------- MODULE LoadGen -------------------------------
(***************************************************************************)
(* The load generator of the statistics service (L4.5): main hands the     *)
(* requests one by one to a fixed set of workers over an unbuffered        *)
(* channel, every worker posts the same body, and the answers with status  *)
(* 200 are counted in a shared counter that main prints at the end.        *)
(***************************************************************************)
EXTENDS Integers, FiniteSets

CONSTANTS
    MaxRequests,    \* bound: -requests
    MaxWorkers,     \* bound: -concurrency
    Sizes           \* values of -size

ASSUME LoadBounds ==
    MaxRequests \in Nat /\ MaxWorkers \in Nat /\ Sizes \subseteq Int

VARIABLES
    requests, concurrency, size,    \* the flags
    main,       \* feeds, waits for the workers, printed, or died
    fed,        \* jobs handed over
    pc,         \* pc[w]: worker w receives, posts, counts an answer, is done
    job,        \* job[w]: the job of worker w
    okCount,
    printed,    \* okCount in the report
    posted,     \* history: posted[j]: posts for job j
    accepted    \* history: jobs answered with 200

flags == <<requests, concurrency, size>>
vars  == <<flags, main, fed, pc, job, okCount, printed, posted, accepted>>

Workers == 1..concurrency
Jobs    == 1..requests

TypeOK ==
    /\ requests \in 0..MaxRequests /\ concurrency \in 0..MaxWorkers /\ size \in Sizes
    /\ main \in {"feed", "wait", "printed", "fatal"}
    /\ fed \in 0..requests
    /\ pc \in [Workers -> {"receive", "post", "count", "done"}]
    /\ job \in [Workers -> 0..requests]
    /\ okCount \in 0..requests /\ printed \in -1..requests
    /\ posted \in [Jobs -> Nat] /\ accepted \subseteq Jobs

Init ==
    /\ requests \in 0..MaxRequests /\ concurrency \in 0..MaxWorkers /\ size \in Sizes
    /\ main = "feed" /\ fed = 0
    /\ pc = [w \in Workers |-> "receive"] /\ job = [w \in Workers |-> 0]
    /\ okCount = 0 /\ printed = -1
    /\ posted = [j \in Jobs |-> 0] /\ accepted = {}

-----------------------------------------------------------------------------
(* main.                                                                    *)

\* Mutant: the loop runs once too often.
HandOneMore(w) ==
    /\ main = "feed" /\ fed <= requests /\ pc[w] = "receive"
    /\ fed' = fed + 1
    /\ pc' = [pc EXCEPT ![w] = "post"] /\ job' = [job EXCEPT ![w] = fed + 1]
    /\ UNCHANGED <<flags, main, okCount, printed, posted, accepted>>

\* The send meets a worker at its receive.
Hand(w) ==
    /\ main = "feed" /\ fed < requests /\ pc[w] = "receive"
    /\ fed' = fed + 1
    /\ pc' = [pc EXCEPT ![w] = "post"] /\ job' = [job EXCEPT ![w] = fed + 1]
    /\ UNCHANGED <<flags, main, okCount, printed, posted, accepted>>

\* close(jobs).
CloseJobs ==
    /\ main = "feed" /\ fed = requests
    /\ main' = "wait"
    /\ UNCHANGED <<flags, fed, pc, job, okCount, printed, posted, accepted>>

\* Mutant: no wg.Wait.
ReportAtOnce ==
    /\ main = "wait"
    /\ main' = "printed" /\ printed' = okCount
    /\ UNCHANGED <<flags, fed, pc, job, okCount, posted, accepted>>

\* wg.Wait and the report.
Report ==
    /\ main = "wait" /\ \A w \in Workers : pc[w] = "done"
    /\ main' = "printed" /\ printed' = okCount
    /\ UNCHANGED <<flags, fed, pc, job, okCount, posted, accepted>>

\* Nobody will ever receive: the runtime ends the program.
AllAsleep ==
    /\ main = "feed" /\ fed < requests /\ concurrency = 0
    /\ main' = "fatal"
    /\ UNCHANGED <<flags, fed, pc, job, okCount, printed, posted, accepted>>

-----------------------------------------------------------------------------
(* Worker w.                                                                *)

Posted(w) == posted' = [posted EXCEPT ![job[w]] = @ + 1]

\* Mutant: the worker returns instead of going on.
PostFailsForGood(w) ==
    /\ pc[w] = "post"
    /\ Posted(w)
    /\ pc' = [pc EXCEPT ![w] = "done"]
    /\ UNCHANGED <<flags, main, fed, job, okCount, printed, accepted>>

\* A transport error, or no answer within ten seconds.
PostFails(w) ==
    /\ pc[w] = "post"
    /\ Posted(w)
    /\ pc' = [pc EXCEPT ![w] = "receive"]
    /\ UNCHANGED <<flags, main, fed, job, okCount, printed, accepted>>

\* The Stats handler on the body of buildBody: an array of numbers, and
\* ErrEmptyInput for one without any.
Status == IF size > 0 THEN 200 ELSE 400

PostAnswered(w) ==
    /\ pc[w] = "post"
    /\ Posted(w)
    /\ IF Status = 200
       THEN pc' = [pc EXCEPT ![w] = "count"] /\ accepted' = accepted \cup {job[w]}
       ELSE pc' = [pc EXCEPT ![w] = "receive"] /\ UNCHANGED accepted
    /\ UNCHANGED <<flags, main, fed, job, okCount, printed>>

\* One atomic addition.
Count(w) ==
    /\ pc[w] = "count"
    /\ okCount' = okCount + 1
    /\ pc' = [pc EXCEPT ![w] = "receive"]
    /\ UNCHANGED <<flags, main, fed, job, printed, posted, accepted>>

\* range over the closed channel ends.
Leave(w) ==
    /\ main = "wait" /\ pc[w] = "receive"
    /\ pc' = [pc EXCEPT ![w] = "done"]
    /\ UNCHANGED <<flags, main, fed, job, okCount, printed, posted, accepted>>

Ended == main \in {"printed", "fatal"} /\ UNCHANGED vars

Next ==
    \/ CloseJobs \/ Report \/ AllAsleep \/ Ended
    \/ \E w \in Workers :
        Hand(w) \/ PostFails(w) \/ PostAnswered(w) \/ Count(w) \/ Leave(w)

Spec == Init /\ [][Next]_vars

\* Every goroutine that can run does, and the client's timeout ends a post.
FairSpec ==
    /\ Spec
    /\ WF_vars(CloseJobs \/ Report \/ AllAsleep \/ \E w \in Workers : Hand(w))
    /\ \A w \in 1..MaxWorkers :
           WF_vars(w \in Workers /\ (\/ PostFails(w) \/ PostAnswered(w)
                                     \/ Count(w) \/ Leave(w)))
-----------------------------------------------------------------------------
(* Properties.                                                              *)

\* The report is about all requests: each was posted exactly once, and every
\* answer with 200 is in the count, also the last one of the slowest worker;
\* without numbers in the body the service accepts none.
ReportIsTrue ==
    main = "printed" =>
        /\ \A j \in Jobs : posted[j] = 1
        /\ printed = Cardinality(accepted)
        /\ size <= 0 => printed = 0

\* Failing posts never leave main without a receiver: the generator always
\* reports, and only without any worker does a first job end it.
EndsWithReport ==
    <>(main = "printed" \/ (main = "fatal" /\ concurrency = 0 /\ requests > 0))
=============================================================================
