---------------------------- MODULE LoadGenProofs ----------------------------
(* The report of the load generator is about all requests, for any number of *)
(* requests and workers.                                                     *)
EXTENDS LoadGen, FiniteSetTheorems, TLAPS

Busy(w) == pc[w] \in {"post", "count"}

\* Job j was handed over and its post is not over.
InPost(j) == \E w \in Workers : pc[w] = "post" /\ job[w] = j

\* Answers with 200 that are not in the count yet.
Uncounted == {j \in accepted : \E w \in Workers : pc[w] = "count" /\ job[w] = j}

LoadTypes ==
    /\ requests \in Nat /\ concurrency \in Nat /\ size \in Int
    /\ main \in {"feed", "wait", "printed", "fatal"} /\ fed \in 0..requests
    /\ pc \in [Workers -> {"receive", "post", "count", "done"}]
    /\ job \in [Workers -> 0..requests]
    /\ posted \in [Jobs -> Nat] /\ accepted \subseteq Jobs

\* A job is with one worker at most.
OneWorker ==
    /\ \A w \in Workers : Busy(w) => job[w] \in 1..fed
    /\ \A w, v \in Workers : Busy(w) /\ Busy(v) /\ job[w] = job[v] => w = v

PostedOnce ==
    \A j \in Jobs : posted[j] = IF j > fed \/ InPost(j) THEN 0 ELSE 1

AcceptedAfterPost ==
    /\ \A j \in accepted : j <= fed /\ ~InPost(j)
    /\ \A w \in Workers : pc[w] = "count" => job[w] \in accepted
    /\ size <= 0 => accepted = {}

CountInStep == okCount = Cardinality(accepted \ Uncounted)

MainWaits ==
    /\ main \in {"wait", "printed"} => fed = requests
    /\ main = "printed" => printed = okCount /\ \A w \in Workers : pc[w] = "done"

LoadInv ==
    LoadTypes /\ OneWorker /\ PostedOnce /\ AcceptedAfterPost /\ CountInStep /\ MainWaits

-----------------------------------------------------------------------------
\* A job is handed to one worker and was with none before.
LEMMA HandStep == ASSUME LoadInv, NEW w \in Workers, Hand(w) PROVE LoadInv'
<1>0. /\ Workers' = Workers /\ Jobs' = Jobs /\ fed' = fed + 1 /\ fed < requests
      /\ fed \in Nat /\ requests \in Nat
      /\ UNCHANGED <<requests, concurrency, size, main, okCount, printed, posted, accepted>>
      /\ pc[w] = "receive" /\ main = "feed"
  BY DEF Hand, flags, Workers, Jobs, LoadInv, LoadTypes
<1>1. /\ pc' \in [Workers -> {"receive", "post", "count", "done"}]
      /\ job' \in [Workers -> 0..requests]
      /\ pc'[w] = "post" /\ job'[w] = fed + 1
      /\ \A v \in Workers \ {w} : pc'[v] = pc[v] /\ job'[v] = job[v]
  BY <1>0 DEF Hand, LoadInv, LoadTypes
<1>2. LoadTypes'
  BY <1>0, <1>1 DEF LoadInv, LoadTypes
<1>3. OneWorker'
  BY <1>0, <1>1 DEF LoadInv, OneWorker, Busy
<1>4. \A j \in Jobs : InPost(j)' <=> (InPost(j) \/ j = fed + 1)
  BY <1>0, <1>1 DEF InPost
<1>5. PostedOnce'
  <2>1. \A j \in Jobs : j \in Nat
    BY DEF Jobs
  <2> QED
    BY <1>0, <1>4, <2>1 DEF LoadInv, PostedOnce
<1>6. AcceptedAfterPost'
  <2>1. \A j \in accepted : j \in Jobs /\ j \in Nat /\ j <= fed
    BY DEF LoadInv, LoadTypes, AcceptedAfterPost, Jobs
  <2> QED
    BY <1>0, <1>1, <1>4, <2>1 DEF LoadInv, AcceptedAfterPost
<1>7. Uncounted' = Uncounted
  BY <1>0, <1>1 DEF Uncounted
<1>8. CountInStep' /\ MainWaits'
  BY <1>0, <1>7 DEF LoadInv, CountInStep, MainWaits
<1> QED
  BY <1>2, <1>3, <1>5, <1>6, <1>8 DEF LoadInv

\* What every end of a post has in common.
PostEnds(w, next) ==
    /\ pc[w] = "post" /\ Posted(w) /\ pc' = [pc EXCEPT ![w] = next]
    /\ UNCHANGED <<flags, main, fed, job, okCount, printed>>

\* The post of a job is over: it was the only one.
LEMMA PostStep ==
    ASSUME LoadInv, NEW w \in Workers, NEW next \in {"receive", "count"}, PostEnds(w, next)
    PROVE  /\ OneWorker' /\ PostedOnce' /\ MainWaits'
           /\ Workers' = Workers /\ Jobs' = Jobs /\ job[w] \in Jobs /\ job[w] <= fed
           /\ pc' \in [Workers -> {"receive", "post", "count", "done"}]
           /\ posted' \in [Jobs -> Nat]
           /\ pc'[w] = next /\ \A v \in Workers \ {w} : pc'[v] = pc[v]
           /\ \A j \in Jobs : InPost(j)' <=> InPost(j) /\ j # job[w]
<1>0. /\ Workers' = Workers /\ Jobs' = Jobs
      /\ UNCHANGED <<requests, concurrency, size, main, fed, job, okCount, printed>>
      /\ fed \in Nat /\ requests \in Nat /\ fed <= requests /\ pc[w] = "post"
  BY DEF PostEnds, flags, Workers, Jobs, LoadInv, LoadTypes
<1>1. /\ pc' \in [Workers -> {"receive", "post", "count", "done"}]
      /\ pc'[w] = next /\ \A v \in Workers \ {w} : pc'[v] = pc[v]
  BY DEF PostEnds, LoadInv, LoadTypes
<1>2. job[w] \in 1..fed /\ job[w] \in Jobs /\ job[w] <= fed
  BY <1>0 DEF LoadInv, OneWorker, Busy, Jobs
<1>3. /\ posted' \in [Jobs -> Nat] /\ posted'[job[w]] = posted[job[w]] + 1
      /\ \A j \in Jobs : j # job[w] => posted'[j] = posted[j]
  BY <1>2 DEF PostEnds, Posted, LoadInv, LoadTypes
<1>4. ASSUME NEW v \in Workers, v # w, pc[v] = "post" PROVE job[v] # job[w]
  BY <1>0, <1>4 DEF LoadInv, OneWorker, Busy
<1>5. \A j \in Jobs : InPost(j)' <=> InPost(j) /\ j # job[w]
  BY <1>0, <1>1, <1>4 DEF InPost
<1>6. OneWorker'
  BY <1>0, <1>1 DEF LoadInv, OneWorker, Busy
<1>7. PostedOnce'
  <2>1. InPost(job[w])
    BY <1>0 DEF InPost
  <2>2. posted[job[w]] = 0
    BY <1>2, <2>1 DEF LoadInv, PostedOnce
  <2>3. \A j \in Jobs : j \in Nat
    BY DEF Jobs
  <2> QED
    BY <1>0, <1>2, <1>3, <1>5, <2>2, <2>3 DEF LoadInv, PostedOnce
<1>8. MainWaits'
  BY <1>0 DEF LoadInv, MainWaits
<1> QED
  BY <1>0, <1>1, <1>2, <1>3, <1>5, <1>6, <1>7, <1>8

\* A post without an answer to count.
LEMMA NotCounted ==
    ASSUME LoadInv, NEW w \in Workers, PostEnds(w, "receive"), accepted' = accepted
    PROVE  LoadInv'
<1>0. UNCHANGED <<requests, concurrency, size, main, fed, job, okCount, printed, accepted>>
  BY DEF PostEnds, flags
<1>1. /\ OneWorker' /\ PostedOnce' /\ MainWaits' /\ Workers' = Workers /\ Jobs' = Jobs
      /\ pc' \in [Workers -> {"receive", "post", "count", "done"}]
      /\ posted' \in [Jobs -> Nat] /\ pc[w] = "post"
      /\ pc'[w] = "receive" /\ \A v \in Workers \ {w} : pc'[v] = pc[v]
      /\ \A j \in Jobs : InPost(j)' <=> InPost(j) /\ j # job[w]
  BY PostStep DEF PostEnds
<1>2. LoadTypes'
  BY <1>0, <1>1 DEF LoadInv, LoadTypes
<1>3. accepted \subseteq Jobs
  BY DEF LoadInv, LoadTypes
<1>4. AcceptedAfterPost'
  BY <1>0, <1>1, <1>3 DEF LoadInv, AcceptedAfterPost
<1>5. Uncounted' = Uncounted
  BY <1>0, <1>1 DEF Uncounted
<1>6. CountInStep'
  BY <1>0, <1>5 DEF LoadInv, CountInStep
<1> QED
  BY <1>1, <1>2, <1>4, <1>6 DEF LoadInv

\* An answer with 200, yet to be counted.
LEMMA ToBeCounted ==
    ASSUME LoadInv, NEW w \in Workers, PostEnds(w, "count"), size > 0,
           accepted' = accepted \cup {job[w]}
    PROVE  LoadInv'
<1>0. /\ UNCHANGED <<requests, concurrency, size, main, fed, job, okCount, printed>>
      /\ pc[w] = "post"
  BY DEF PostEnds, flags
<1>1. /\ OneWorker' /\ PostedOnce' /\ MainWaits' /\ Workers' = Workers /\ Jobs' = Jobs
      /\ job[w] \in Jobs /\ job[w] <= fed
      /\ pc' \in [Workers -> {"receive", "post", "count", "done"}]
      /\ posted' \in [Jobs -> Nat]
      /\ pc'[w] = "count" /\ \A v \in Workers \ {w} : pc'[v] = pc[v]
      /\ \A j \in Jobs : InPost(j)' <=> InPost(j) /\ j # job[w]
  BY PostStep
<1>2. LoadTypes'
  BY <1>0, <1>1 DEF LoadInv, LoadTypes
<1>3. accepted \subseteq Jobs /\ size \in Int
  BY DEF LoadInv, LoadTypes
<1>4. AcceptedAfterPost'
  BY <1>0, <1>1, <1>3 DEF LoadInv, AcceptedAfterPost
<1>5. job[w] \notin accepted
  BY <1>0, <1>1 DEF LoadInv, AcceptedAfterPost, InPost
<1>6. accepted' \ Uncounted' = accepted \ Uncounted
  <2>1. Uncounted' = Uncounted \cup {job[w]}
    BY <1>0, <1>1, <1>5 DEF Uncounted
  <2> QED
    BY <1>5, <2>1
<1>7. CountInStep'
  BY <1>0, <1>6 DEF LoadInv, CountInStep
<1> QED
  BY <1>1, <1>2, <1>4, <1>7 DEF LoadInv

\* The atomic addition takes one answer into the count.
LEMMA CountStep == ASSUME LoadInv, NEW w \in Workers, Count(w) PROVE LoadInv'
<1>0. /\ Workers' = Workers /\ Jobs' = Jobs /\ okCount' = okCount + 1 /\ pc[w] = "count"
      /\ UNCHANGED <<requests, concurrency, size, main, fed, job, printed, posted, accepted>>
  BY DEF Count, flags, Workers, Jobs
<1>1. /\ pc' \in [Workers -> {"receive", "post", "count", "done"}]
      /\ pc'[w] = "receive" /\ \A v \in Workers \ {w} : pc'[v] = pc[v]
  BY DEF Count, LoadInv, LoadTypes
<1>2. LoadTypes'
  BY <1>0, <1>1 DEF LoadInv, LoadTypes
<1>3. OneWorker'
  BY <1>0, <1>1 DEF LoadInv, OneWorker, Busy
<1>4. \A j : InPost(j)' <=> InPost(j)
  BY <1>0, <1>1 DEF InPost
<1>5. PostedOnce' /\ AcceptedAfterPost'
  BY <1>0, <1>1, <1>4 DEF LoadInv, PostedOnce, AcceptedAfterPost
<1>6. CountInStep'
  <2>1. job[w] \in Uncounted /\ job[w] \in accepted
    BY <1>0 DEF LoadInv, AcceptedAfterPost, Uncounted
  <2>2. \A v \in Workers : v # w /\ pc[v] = "count" => job[v] # job[w]
    BY <1>0 DEF LoadInv, OneWorker, Busy
  <2>3. Uncounted' = Uncounted \ {job[w]}
    BY <1>0, <1>1, <2>2 DEF Uncounted
  <2>4. (accepted \ Uncounted)' = (accepted \ Uncounted) \cup {job[w]}
    BY <1>0, <2>1, <2>3
  <2>5. IsFiniteSet(accepted \ Uncounted)
    <3>1. 1 \in Int /\ requests \in Int
      BY DEF LoadInv, LoadTypes
    <3>2. IsFiniteSet(Jobs)
      BY <3>1, FS_Interval DEF Jobs
    <3>3. accepted \ Uncounted \subseteq Jobs
      BY DEF LoadInv, LoadTypes
    <3> QED
      BY <3>2, <3>3, FS_Subset
  <2>6. Cardinality((accepted \ Uncounted) \cup {job[w]}) = Cardinality(accepted \ Uncounted) + 1
    BY <2>1, <2>5, FS_AddElement
  <2> QED
    BY <1>0, <2>4, <2>6 DEF LoadInv, CountInStep
<1>7. MainWaits'
  BY <1>0 DEF LoadInv, MainWaits
<1> QED
  BY <1>2, <1>3, <1>5, <1>6, <1>7 DEF LoadInv

\* The steps of main, and a worker that leaves, touch no job.
LEMMA OtherSteps ==
    ASSUME LoadInv,
           CloseJobs \/ Report \/ AllAsleep \/ Ended \/ UNCHANGED vars
           \/ \E w \in Workers : Leave(w)
    PROVE  LoadInv'
<1>0. UNCHANGED <<requests, concurrency, size, fed, job, okCount, posted, accepted>>
      /\ Workers' = Workers /\ Jobs' = Jobs
  BY DEF CloseJobs, Report, AllAsleep, Ended, Leave, flags, vars, Workers, Jobs
<1>1. /\ pc' \in [Workers -> {"receive", "post", "count", "done"}]
      /\ \A w \in Workers : (pc'[w] = "post" <=> pc[w] = "post")
                            /\ (pc'[w] = "count" <=> pc[w] = "count")
  <2>1. CASE pc' = pc
    BY <2>1 DEF LoadInv, LoadTypes
  <2>2. CASE \E w \in Workers : Leave(w)
    BY <2>2 DEF Leave, LoadInv, LoadTypes
  <2> QED
    BY <2>1, <2>2 DEF CloseJobs, Report, AllAsleep, Ended, vars
<1>2. main' \in {"feed", "wait", "printed", "fatal"}
  BY DEF CloseJobs, Report, AllAsleep, Ended, Leave, vars, LoadInv, LoadTypes
<1>3. LoadTypes'
  BY <1>0, <1>1, <1>2 DEF LoadInv, LoadTypes
<1>4. \A j : InPost(j)' <=> InPost(j)
  BY <1>0, <1>1 DEF InPost
<1>5. OneWorker' /\ PostedOnce' /\ AcceptedAfterPost'
  BY <1>0, <1>1, <1>4 DEF LoadInv, OneWorker, Busy, PostedOnce, AcceptedAfterPost
<1>6. Uncounted' = Uncounted
  BY <1>0, <1>1 DEF Uncounted
<1>7. CountInStep'
  BY <1>0, <1>6 DEF LoadInv, CountInStep
<1>8. MainWaits'
  BY <1>0 DEF CloseJobs, Report, AllAsleep, Ended, Leave, vars, LoadInv, MainWaits
<1> QED
  BY <1>3, <1>5, <1>7, <1>8 DEF LoadInv

\* Every step keeps the invariant.
LEMMA LoadStep == LoadInv /\ [Next]_vars => LoadInv'
<1> SUFFICES ASSUME LoadInv, [Next]_vars PROVE LoadInv'
  OBVIOUS
<1>1. ASSUME NEW w \in Workers, PostFails(w) PROVE LoadInv'
  BY <1>1, NotCounted DEF PostFails, PostEnds
<1>2. ASSUME NEW w \in Workers, PostAnswered(w) PROVE LoadInv'
  <2>1. CASE size > 0
    BY <1>2, <2>1, ToBeCounted DEF PostAnswered, PostEnds, Status
  <2>2. CASE ~(size > 0)
    BY <1>2, <2>2, NotCounted DEF PostAnswered, PostEnds, Status
  <2> QED
    BY <2>1, <2>2
<1> QED
  BY <1>1, <1>2, HandStep, CountStep, OtherSteps DEF Next

\* The invariant holds at the start.
LEMMA LoadInit == Init => LoadInv
<1> SUFFICES ASSUME Init PROVE LoadInv
  OBVIOUS
<1>1. LoadTypes
  BY LoadBounds DEF Init, LoadTypes, Workers, Jobs
<1>2. \A w \in Workers : pc[w] = "receive"
  BY DEF Init
<1>3. OneWorker /\ AcceptedAfterPost /\ MainWaits
  BY <1>2 DEF Init, OneWorker, Busy, AcceptedAfterPost, MainWaits
<1>4. PostedOnce
  BY <1>2 DEF Init, PostedOnce, Jobs
<1>5. accepted \ Uncounted = {}
  BY DEF Init, Uncounted
<1>6. CountInStep
  BY <1>5, FS_EmptySet DEF Init, CountInStep
<1> QED
  BY <1>1, <1>3, <1>4, <1>6 DEF LoadInv

-----------------------------------------------------------------------------
\* When the report is printed every request was posted once and every answer
\* with 200 is counted, for any number of requests and workers.
THEOREM EveryPostReported == Spec => []ReportIsTrue
<1>1. LoadInv => ReportIsTrue
  <2> SUFFICES ASSUME LoadInv, main = "printed" PROVE
          /\ \A j \in Jobs : posted[j] = 1
          /\ printed = Cardinality(accepted)
          /\ size <= 0 => printed = 0
    BY DEF ReportIsTrue
  <2>1. fed = requests /\ printed = okCount /\ \A w \in Workers : pc[w] = "done"
    BY DEF LoadInv, MainWaits
  <2>2. \A j \in Jobs : ~InPost(j) /\ ~(j > fed)
    BY <2>1 DEF InPost, Jobs, LoadInv, LoadTypes
  <2>3. accepted \ Uncounted = accepted
    BY <2>1 DEF Uncounted
  <2> QED
    BY <2>1, <2>2, <2>3, FS_EmptySet
    DEF LoadInv, PostedOnce, CountInStep, AcceptedAfterPost
<1> QED
  BY <1>1, LoadInit, LoadStep, PTL DEF Spec

\* The flags keep their values, and nothing is printed before the report.
FlagsInv ==
    /\ requests \in 0..MaxRequests /\ concurrency \in 0..MaxWorkers /\ size \in Sizes
    /\ main # "printed" => printed = -1

\* Every variable keeps its type: no job is counted twice, so that the counter
\* never exceeds the number of requests.
THEOREM GeneratorTypes == Spec => []TypeOK
<1>1. Init => FlagsInv
  BY DEF Init, FlagsInv
<1>2. FlagsInv /\ [Next]_vars => FlagsInv'
  BY DEF FlagsInv, Next, vars, flags, CloseJobs, Report, AllAsleep, Ended, Hand,
         PostFails, PostAnswered, Count, Leave
<1>3. LoadInv /\ FlagsInv => TypeOK
  <2> SUFFICES ASSUME LoadInv, FlagsInv PROVE TypeOK
    OBVIOUS
  <2>1. IsFiniteSet(Jobs) /\ Cardinality(Jobs) = requests
    <3>1. 1 \in Int /\ requests \in Int /\ requests \in Nat
      BY DEF LoadInv, LoadTypes
    <3>2. IsFiniteSet(Jobs) /\ Cardinality(Jobs) = IF 1 > requests THEN 0 ELSE requests - 1 + 1
      BY <3>1, FS_Interval DEF Jobs
    <3> QED
      BY <3>1, <3>2
  <2>2. accepted \ Uncounted \subseteq Jobs
    BY DEF LoadInv, LoadTypes
  <2>3. /\ Cardinality(accepted \ Uncounted) \in Nat
        /\ Cardinality(accepted \ Uncounted) <= Cardinality(Jobs)
    BY <2>1, <2>2, FS_Subset, FS_CardinalityType
  <2>4. requests \in Nat /\ okCount \in 0..requests
    BY <2>1, <2>3 DEF LoadInv, LoadTypes, CountInStep
  <2>5. printed \in -1..requests
    <3>1. CASE main = "printed"
      BY <2>4, <3>1 DEF LoadInv, MainWaits
    <3>2. CASE main # "printed"
      BY <2>4, <3>2 DEF FlagsInv
    <3> QED
      BY <3>1, <3>2
  <2> QED
    BY <2>4, <2>5 DEF LoadInv, LoadTypes, FlagsInv, TypeOK
<1> QED
  BY <1>1, <1>2, <1>3, LoadInit, LoadStep, PTL DEF Spec
=============================================================================
