----------------------------- MODULE ServerProofs -----------------------------
(* ServerProcess: no hit is lost or doubled in the pool, and the response is  *)
(* the one of LineFilter.                                                     *)
EXTENDS ServerProcess, FoldProofs

\* How many lines the workers have taken.
Taken == produced - Len(jobs)

RequestOK ==
    /\ mode \in {"lines", "count", "list"} /\ valid \in BOOLEAN
    /\ start \in Int /\ total \in 0..MaxLines /\ hits \in SUBSET (0..(total - 1))

\* The lines wait in the order of the chunk.
JobsOK ==
    /\ produced \in 0..total /\ jobs \in Seq(0..(total - 1))
    /\ Len(jobs) <= Capacity /\ Len(jobs) <= produced
    /\ \A k \in 1..Len(jobs) : jobs[k] = Taken + k - 1
    /\ jobsClosed \in BOOLEAN /\ (jobsClosed => produced = total)

\* A worker counts no more hits than lines were taken.
WorkersOK ==
    /\ pc \in [1..Workers -> {"receive", "hit", "count", "done"}]
    /\ job \in [1..Workers -> 0..MaxLines]
    /\ local \in [1..Workers -> 0..MaxLines]
    /\ \A w \in 1..Workers : local[w] <= Taken

OutOK ==
    /\ out \in Seq(0..MaxLines) /\ Len(out) <= Capacity /\ outClosed \in BOOLEAN
    /\ gathered \in Seq(0..MaxLines)

\* A worker leaves when the lines are exhausted, and the results are closed
\* behind the last one.
PoolOrder ==
    /\ main \in {"decode", "gather", "responded"}
    /\ main # "responded" => response = Pending
    /\ main = "gather" => valid /\ total > 0
    /\ \A w \in 1..Workers :
           /\ pc[w] # "receive" => w \in Pool
           /\ pc[w] = "hit" => mode # "count"
           /\ pc[w] = "count" => mode = "count"
           /\ pc[w] \in {"count", "done"} => jobsClosed /\ jobs = <<>>
    /\ outClosed => \A w \in Pool : pc[w] = "done"

Held(i) == \E w \in Pool : pc[w] = "hit" /\ job[w] = i
On(s, i) == \E k \in DOMAIN s : s[k] = i

\* The hits of the lines that were taken are each in one place.
HitsOnce ==
    /\ Distinct(out) /\ Distinct(gathered)
    /\ \A v, w \in Pool : pc[v] = "hit" /\ pc[w] = "hit" /\ job[v] = job[w] => v = w
    /\ \A k \in DOMAIN out : out[k] \in hits
    /\ \A k \in DOMAIN gathered : gathered[k] \in hits
    /\ \A w \in Pool : pc[w] = "hit" => job[w] \in hits
    /\ \A i \in hits :
           /\ ~(Held(i) /\ On(out, i)) /\ ~(Held(i) /\ On(gathered, i))
           /\ ~(On(out, i) /\ On(gathered, i))
           /\ (i < Taken <=> Held(i) \/ On(out, i) \/ On(gathered, i))

\* What the workers have counted and not sent.
Share == [w \in Pool |-> IF pc[w] = "done" THEN 0 ELSE local[w]]

TakenHits == {i \in hits : i < Taken}

\* No hit is left out of the counts.
HitsCounted == SumOf(Share, Pool) + Total(out) + Total(gathered) = Cardinality(TakenHits)

ServerInv ==
    /\ RequestOK /\ JobsOK /\ WorkersOK /\ OutOK /\ PoolOrder
    /\ mode # "count" => HitsOnce
    /\ mode = "count" => HitsCounted

-----------------------------------------------------------------------------
\* The pool is finite, and not empty when there are lines.
LEMMA PoolFacts ==
    ASSUME RequestOK
    PROVE  /\ Workers \in Nat \ {0} /\ MaxLines \in Nat /\ total \in Nat /\ total <= MaxLines
           /\ PoolSize \in Nat /\ Capacity \in Nat /\ PoolSize <= Capacity
           /\ Pool \subseteq 1..Workers /\ IsFiniteSet(Pool)
           /\ total > 0 => 1 \in Pool
<1>1. Workers \in Nat \ {0} /\ MaxLines \in Nat /\ total \in Nat /\ total <= MaxLines
  BY ServerBounds DEF RequestOK
<1>2. PoolSize \in Nat /\ PoolSize <= Workers /\ (total > 0 => PoolSize > 0)
  BY <1>1 DEF PoolSize
<1>3. Capacity \in Nat /\ PoolSize <= Capacity
  BY <1>2 DEF Capacity
<1>4. Pool \subseteq 1..Workers /\ (total > 0 => 1 \in Pool)
  BY <1>1, <1>2 DEF Pool
<1>5. IsFiniteSet(Pool)
  <2>1. 1 \in Int /\ PoolSize \in Int
    BY <1>2
  <2> QED
    BY <2>1, FS_Interval DEF Pool
<1> QED
  BY <1>1, <1>2, <1>3, <1>4, <1>5

\* The hits are finitely many.
LEMMA HitsFinite ==
    ASSUME RequestOK
    PROVE  /\ hits \in SUBSET Int /\ IsFiniteSet(hits)
           /\ IsFiniteSet(TakenHits) /\ Cardinality(TakenHits) \in Nat
<1>1. total \in Nat /\ hits \subseteq 0..(total - 1)
  BY ServerBounds DEF RequestOK
<1>2. 0 \in Int /\ total - 1 \in Int
  BY <1>1
<1>3. IsFiniteSet(0..(total - 1))
  BY <1>2, FS_Interval
<1>4. hits \in SUBSET Int /\ IsFiniteSet(hits)
  <2>1. hits \in SUBSET Int
    BY <1>1
  <2> QED
    BY <1>1, <1>3, <2>1, FS_Subset
<1>5. TakenHits \subseteq hits
  BY DEF TakenHits
<1> QED
  BY <1>4, <1>5, FS_Subset, FS_CardinalityType

\* What is in the channel of results, and what was read, are numbers.
LEMMA NumbersOut == ASSUME OutOK PROVE out \in Seq(Int) /\ gathered \in Seq(Int)
<1>1. MaxLines \in Nat
  BY ServerBounds
<1>2. out \in Seq(0..MaxLines) /\ gathered \in Seq(0..MaxLines)
  BY DEF OutOK
<1>3. out \in Seq(Int)
  BY <1>1, <1>2
<1>4. gathered \in Seq(Int)
  BY <1>1, <1>2
<1> QED
  BY <1>3, <1>4

\* The request does not change, and neither does the size of the pool.
LEMMA RequestKept ==
    ASSUME [Next]_vars
    PROVE  /\ UNCHANGED request
           /\ mode' = mode /\ hits' = hits /\ total' = total /\ start' = start /\ valid' = valid
           /\ PoolSize' = PoolSize /\ Pool' = Pool /\ Capacity' = Capacity
           /\ RequestOK' <=> RequestOK
<1>1. UNCHANGED request
  BY DEF Next, RefusePattern, RespondEmpty, StartPool, Produce, CloseJobs, CloseOut, Gather,
         Respond, Finished, Take, SendHit, Leave, SendCount, vars
<1>2. mode' = mode /\ hits' = hits /\ total' = total /\ start' = start /\ valid' = valid
  BY <1>1 DEF request
<1> QED
  BY <1>1, <1>2 DEF PoolSize, Pool, Capacity, RequestOK

\* The invariant holds at the start.
LEMMA ServerInit == Init => ServerInv
<1> SUFFICES ASSUME Init PROVE ServerInv
  OBVIOUS
<1>1. RequestOK
  BY ServerBounds DEF Init, RequestOK
<1>2. jobs = <<>> /\ out = <<>> /\ gathered = <<>>
  BY DEF Init
<1>3. /\ produced = 0 /\ Len(jobs) = 0 /\ Len(out) = 0
      /\ DOMAIN out = {} /\ DOMAIN gathered = {}
  <2>1. produced = 0
    BY DEF Init
  <2>2. Len(jobs) = 0 /\ Len(out) = 0
    BY <1>2
  <2>3. DOMAIN out = {} /\ DOMAIN gathered = {}
    BY <1>2
  <2> QED
    BY <2>1, <2>2, <2>3
<1>3a. Taken = 0
  BY <1>3 DEF Taken
<1>4. JobsOK
  <2>1. jobs \in Seq(0..(total - 1))
    BY <1>2
  <2>2. jobsClosed \in BOOLEAN /\ ~jobsClosed
    BY DEF Init
  <2>3. 1..Len(jobs) = {} /\ Len(jobs) <= produced
    BY <1>3
  <2>4. produced \in 0..total /\ Len(jobs) <= Capacity
    BY <1>1, <1>3, PoolFacts
  <2> QED
    BY <2>1, <2>2, <2>3, <2>4 DEF JobsOK
<1>5. WorkersOK
  BY <1>1, <1>3a, PoolFacts DEF Init, WorkersOK
<1>6. OutOK
  <2>1. out \in Seq(0..MaxLines) /\ gathered \in Seq(0..MaxLines)
    BY <1>2
  <2>2. outClosed \in BOOLEAN
    BY DEF Init
  <2>3. Len(out) <= Capacity
    BY <1>1, <1>3, PoolFacts
  <2> QED
    BY <2>1, <2>2, <2>3 DEF OutOK
<1>7. PoolOrder
  BY DEF Init, PoolOrder
<1>8. \A i \in hits : ~(i < 0)
  BY <1>1, PoolFacts DEF RequestOK
<1>9. \A w \in Pool : pc[w] = "receive" /\ local[w] = 0
  BY <1>1, PoolFacts DEF Init
<1>10. HitsOnce
  BY <1>3, <1>3a, <1>8, <1>9 DEF HitsOnce, Distinct, Held, On
<1>11. HitsCounted
  <2>1. TakenHits = {}
    BY <1>3a, <1>8 DEF TakenHits
  <2>2. SumOf(Share, Pool) = 0
    <3>1. \A w \in Pool : Share[w] = 0
      BY <1>9 DEF Share
    <3> QED
      BY <1>1, <3>1, PoolFacts, SumOfZeroes
  <2>3. Total(out) = 0 /\ Total(gathered) = 0
    BY <1>2, TotalEmpty
  <2> QED
    BY <2>1, <2>2, <2>3, FS_EmptySet DEF HitsCounted
<1> QED
  BY <1>1, <1>4, <1>5, <1>6, <1>7, <1>10, <1>11 DEF ServerInv

\* What the handler and the closer do leaves the pool as it is.
LEMMA HandlerStep ==
    ASSUME ServerInv,
           RefusePattern \/ RespondEmpty \/ StartPool \/ CloseOut \/ Respond \/ Finished
               \/ UNCHANGED vars
    PROVE  ServerInv'
<1>1. [Next]_vars
  BY DEF Next
<1>2. /\ UNCHANGED <<request, pool, out, gathered>> /\ RequestOK'
      /\ PoolSize' = PoolSize /\ Pool' = Pool /\ Capacity' = Capacity
  BY <1>1, RequestKept DEF ServerInv, RefusePattern, RespondEmpty, StartPool, CloseOut, Respond,
         Finished, vars
<1>3. Taken' = Taken /\ TakenHits' = TakenHits /\ Share' = Share
  BY <1>2 DEF Taken, TakenHits, Share, pool, request
<1>4. JobsOK' /\ WorkersOK'
  BY <1>2, <1>3 DEF ServerInv, JobsOK, WorkersOK, pool, request
<1>5. OutOK'
  BY <1>2 DEF ServerInv, OutOK, RefusePattern, RespondEmpty, StartPool, CloseOut, Respond,
              Finished, vars
<1>6. PoolOrder'
  <2>1. /\ main' \in {"decode", "gather", "responded"}
        /\ main' # "responded" => response' = Pending
        /\ main' = "gather" => valid' /\ total' > 0
    BY <1>2 DEF ServerInv, PoolOrder, RefusePattern, RespondEmpty, StartPool, CloseOut, Respond,
                Finished, vars, request
  <2>2. outClosed' => \A w \in Pool' : pc'[w] = "done"
    BY <1>2 DEF ServerInv, PoolOrder, RefusePattern, RespondEmpty, StartPool, CloseOut, Respond,
                Finished, vars, pool
  <2> QED
    BY <1>2, <2>1, <2>2 DEF ServerInv, PoolOrder, pool, request
<1>7. mode # "count" => HitsOnce'
  BY <1>2, <1>3 DEF ServerInv, HitsOnce, Distinct, Held, On, pool, request
<1>8. mode = "count" => HitsCounted'
  BY <1>2, <1>3 DEF ServerInv, HitsCounted, request
<1> QED
  BY <1>2, <1>4, <1>5, <1>6, <1>7, <1>8 DEF ServerInv, request

\* The producer puts the next line behind those that wait.
LEMMA ProducerStep ==
    ASSUME ServerInv, Produce \/ CloseJobs
    PROVE  ServerInv'
<1>1. [Next]_vars
  BY DEF Next
<1>2. /\ UNCHANGED <<request, main, pc, job, local, out, outClosed, gathered, response>>
      /\ RequestOK' /\ PoolSize' = PoolSize /\ Pool' = Pool /\ Capacity' = Capacity
  BY <1>1, RequestKept DEF ServerInv, Produce, CloseJobs
<1>3. /\ total \in Nat /\ Capacity \in Nat /\ produced \in 0..total
      /\ jobs \in Seq(0..(total - 1)) /\ Len(jobs) \in Nat
  BY PoolFacts DEF ServerInv, JobsOK
<1>4. Taken' = Taken /\ JobsOK' /\ (jobs = <<>> /\ jobsClosed => jobs' = <<>>)
      /\ (jobsClosed => jobsClosed')
  <2>1. CASE Produce
    <3>1. /\ produced < total /\ Len(jobs) < Capacity /\ jobs' = Append(jobs, produced)
          /\ produced' = produced + 1 /\ jobsClosed' = jobsClosed /\ total' = total
      BY <2>1 DEF Produce, request
    <3>2. produced \in 0..(total - 1)
      BY <1>3, <3>1
    <3>3. /\ jobs' \in Seq(0..(total - 1)) /\ Len(jobs') = Len(jobs) + 1
      BY <1>3, <3>1, <3>2
    <3>4. ASSUME NEW k \in 1..(Len(jobs) + 1)
          PROVE  jobs'[k] = IF k <= Len(jobs) THEN jobs[k] ELSE produced
      BY <1>3, <3>1, <3>2
    <3>5. Taken' = Taken /\ Taken \in Int /\ Taken = produced - Len(jobs)
      BY <1>3, <3>1, <3>3 DEF Taken
    <3>6. \A k \in 1..Len(jobs') : jobs'[k] = Taken + k - 1
      <4> SUFFICES ASSUME NEW k \in 1..Len(jobs') PROVE jobs'[k] = Taken + k - 1
        OBVIOUS
      <4>1. k \in 1..(Len(jobs) + 1)
        BY <3>3
      <4>2. CASE k <= Len(jobs)
        <5>1. k \in 1..Len(jobs)
          BY <1>3, <4>1, <4>2
        <5> QED
          BY <3>4, <4>1, <4>2, <5>1 DEF ServerInv, JobsOK
      <4>3. CASE ~(k <= Len(jobs))
        BY <1>3, <3>4, <3>5, <4>1, <4>3
      <4> QED
        BY <4>2, <4>3
    <3>7. ~jobsClosed
      BY <1>3, <3>1 DEF ServerInv, JobsOK
    <3>8. /\ produced' \in 0..total' /\ jobs' \in Seq(0..(total' - 1))
          /\ Len(jobs') <= Capacity' /\ Len(jobs') <= produced'
      BY <1>2, <1>3, <3>1, <3>3 DEF ServerInv, JobsOK
    <3> QED
      BY <3>1, <3>5, <3>6, <3>7, <3>8 DEF ServerInv, JobsOK
  <2>2. CASE CloseJobs
    BY <1>2, <2>2 DEF CloseJobs, ServerInv, JobsOK, Taken, request
  <2> QED
    BY <2>1, <2>2
<1>5. TakenHits' = TakenHits /\ Share' = Share
  BY <1>2, <1>4 DEF TakenHits, Share, request
<1>6. WorkersOK' /\ OutOK' /\ PoolOrder'
  BY <1>2, <1>4 DEF ServerInv, WorkersOK, OutOK, PoolOrder, request
<1>7. mode # "count" => HitsOnce'
  BY <1>2, <1>4 DEF ServerInv, HitsOnce, Distinct, Held, On, request
<1>8. mode = "count" => HitsCounted'
  BY <1>2, <1>5 DEF ServerInv, HitsCounted, request
<1> QED
  BY <1>2, <1>4, <1>6, <1>7, <1>8 DEF ServerInv, request

\* A worker takes the next line: a hit is counted or held, exactly once.
LEMMA TakeStep ==
    ASSUME ServerInv, NEW w \in 1..Workers, Take(w)
    PROVE  ServerInv'
<1>1. [Next]_vars
  BY DEF Next
<1>2. /\ UNCHANGED <<request, main, produced, jobsClosed, out, outClosed, gathered, response>>
      /\ RequestOK' /\ PoolSize' = PoolSize /\ Pool' = Pool /\ Capacity' = Capacity
      /\ mode' = mode /\ hits' = hits /\ total' = total /\ valid' = valid
  BY <1>1, RequestKept DEF ServerInv, Take
<1>3. /\ total \in Nat /\ total <= MaxLines /\ MaxLines \in Nat
      /\ Capacity \in Nat /\ produced \in 0..total
      /\ jobs \in Seq(0..(total - 1)) /\ Len(jobs) \in Nat
      /\ IsFiniteSet(Pool) /\ Pool \subseteq 1..Workers
  BY PoolFacts DEF ServerInv, JobsOK
<1>4. /\ w \in Pool /\ pc[w] = "receive" /\ jobs # <<>> /\ jobs' = Tail(jobs)
      /\ pc \in [1..Workers -> {"receive", "hit", "count", "done"}]
      /\ job \in [1..Workers -> 0..MaxLines] /\ local \in [1..Workers -> 0..MaxLines]
      /\ \A v \in 1..Workers : local[v] <= Taken
  BY DEF Take, ServerInv, WorkersOK
<1>5. PICK i \in 0..(total - 1) : i = Head(jobs) /\ i = jobs[1]
  BY <1>3, <1>4
<1>6. /\ Len(jobs) \in Nat \ {0} /\ Len(jobs') = Len(jobs) - 1
      /\ jobs' \in Seq(0..(total - 1))
      /\ \A k \in 1..(Len(jobs) - 1) : jobs'[k] = jobs[k + 1]
  BY <1>3, <1>4
<1>7. /\ Taken \in Int /\ Taken' = Taken + 1 /\ i = Taken
      /\ \A k \in 1..Len(jobs) : jobs[k] = Taken + k - 1
  <2>1. \A k \in 1..Len(jobs) : jobs[k] = Taken + k - 1
    BY DEF ServerInv, JobsOK
  <2>2. Taken \in Int /\ Taken' = Taken + 1
    BY <1>2, <1>3, <1>6 DEF Taken
  <2> QED
    BY <1>5, <1>6, <2>1, <2>2
<1>8. JobsOK'
  <2>1. \A k \in 1..Len(jobs') : jobs'[k] = Taken' + k - 1
    <3> SUFFICES ASSUME NEW k \in 1..Len(jobs') PROVE jobs'[k] = Taken' + k - 1
      OBVIOUS
    <3>1. k \in 1..(Len(jobs) - 1) /\ k + 1 \in 1..Len(jobs)
      BY <1>6
    <3>2. jobs'[k] = Taken + (k + 1) - 1
      BY <1>6, <1>7, <3>1
    <3> QED
      BY <1>7, <3>1, <3>2
  <2>2. /\ produced' \in 0..total' /\ jobs' \in Seq(0..(total' - 1))
        /\ Len(jobs') <= Capacity' /\ Len(jobs') <= produced'
    BY <1>2, <1>3, <1>6 DEF ServerInv, JobsOK
  <2> QED
    BY <1>2, <2>1, <2>2 DEF ServerInv, JobsOK
<1>9. \/ i \notin hits /\ UNCHANGED <<pc, job, local>>
      \/ /\ i \in hits /\ mode = "count"
         /\ local' = [local EXCEPT ![w] = @ + 1] /\ UNCHANGED <<pc, job>>
      \/ /\ i \in hits /\ mode # "count"
         /\ job' = [job EXCEPT ![w] = i] /\ pc' = [pc EXCEPT ![w] = "hit"] /\ UNCHANGED local
  BY <1>5 DEF Take
<1>10. WorkersOK'
  <2>1. local[w] + 1 \in 0..MaxLines /\ local[w] + 1 <= Taken' /\ i \in 0..MaxLines
        /\ \A v \in 1..Workers : local[v] \in Int /\ local[v] <= Taken'
    <3>1. \A v \in 1..Workers : local[v] \in 0..MaxLines /\ local[v] <= Taken
      BY <1>4
    <3>2. \A v \in 1..Workers : local[v] \in Int /\ local[v] <= Taken'
      BY <1>3, <1>7, <3>1
    <3>3. Taken + 1 <= MaxLines /\ i \in 0..MaxLines
      BY <1>3, <1>5, <1>7
    <3> QED
      BY <1>3, <1>7, <3>1, <3>2, <3>3
  <2>2. CASE i \notin hits /\ UNCHANGED <<pc, job, local>>
    BY <1>4, <2>1, <2>2 DEF WorkersOK
  <2>3. CASE /\ i \in hits /\ mode = "count"
             /\ local' = [local EXCEPT ![w] = @ + 1] /\ UNCHANGED <<pc, job>>
    BY <1>4, <2>1, <2>3 DEF WorkersOK
  <2>4. CASE /\ i \in hits /\ mode # "count"
             /\ job' = [job EXCEPT ![w] = i] /\ pc' = [pc EXCEPT ![w] = "hit"]
             /\ UNCHANGED local
    BY <1>4, <2>1, <2>4 DEF WorkersOK
  <2> QED
    BY <1>9, <2>2, <2>3, <2>4
<1>11. OutOK'
  BY <1>2 DEF ServerInv, OutOK
<1>12. PoolOrder'
  <2>1. \A v \in 1..Workers : pc[v] \notin {"count", "done"}
    BY <1>4 DEF ServerInv, PoolOrder
  <2>2. ~outClosed
    BY <1>4 DEF ServerInv, PoolOrder
  <2>3. \/ pc' = pc
        \/ pc' = [pc EXCEPT ![w] = "hit"] /\ mode # "count"
    BY <1>9
  <2> QED
    BY <1>2, <1>4, <2>1, <2>2, <2>3 DEF ServerInv, PoolOrder
<1>13. ASSUME mode # "count" PROVE HitsOnce'
  <2>1. HitsOnce
    BY <1>13 DEF ServerInv
  <2>2. \A j \in hits : j \in Int
    BY HitsFinite DEF ServerInv
  <2>3. \A j \in hits : On(out, j)' = On(out, j) /\ On(gathered, j)' = On(gathered, j)
    BY <1>2 DEF On
  <2>4. CASE i \notin hits /\ UNCHANGED <<pc, job, local>>
    <3>1. \A j \in hits : Held(j)' <=> Held(j)
      BY <1>2, <2>4 DEF Held
    <3>2. \A j \in hits : j < Taken' <=> j < Taken
      BY <1>7, <2>2, <2>4
    <3> QED
      BY <1>2, <2>1, <2>3, <2>4, <3>1, <3>2 DEF HitsOnce, Distinct
  <2>5. CASE /\ i \in hits /\ mode # "count"
             /\ job' = [job EXCEPT ![w] = i] /\ pc' = [pc EXCEPT ![w] = "hit"]
    <3>1. ~Held(i) /\ ~On(out, i) /\ ~On(gathered, i)
      BY <1>7, <2>1, <2>2, <2>5 DEF HitsOnce
    <3>2. pc'[w] = "hit" /\ job'[w] = i
      BY <1>4, <2>5
    <3>3. \A v \in Pool : v # w => pc'[v] = pc[v] /\ job'[v] = job[v]
      BY <1>3, <1>4, <2>5
    <3>4. \A j \in hits : Held(j)' <=> (Held(j) \/ j = i)
      BY <1>2, <1>4, <3>2, <3>3 DEF Held
    <3>5. \A j \in hits : j < Taken' <=> (j < Taken \/ j = i)
      BY <1>7, <2>2
    <3>6. \A u, v \in Pool : pc'[u] = "hit" /\ pc'[v] = "hit" /\ job'[u] = job'[v] => u = v
      BY <2>1, <3>1, <3>2, <3>3 DEF HitsOnce, Held
    <3>7. \A v \in Pool : pc'[v] = "hit" => job'[v] \in hits
      BY <2>1, <2>5, <3>2, <3>3 DEF HitsOnce
    <3>8. \A j \in hits :
              /\ ~(Held(j)' /\ On(out, j)) /\ ~(Held(j)' /\ On(gathered, j))
              /\ ~(On(out, j) /\ On(gathered, j))
              /\ (j < Taken' <=> Held(j)' \/ On(out, j) \/ On(gathered, j))
      BY <2>1, <3>1, <3>4, <3>5 DEF HitsOnce
    <3> QED
      BY <1>2, <2>1, <2>3, <3>6, <3>7, <3>8 DEF HitsOnce, Distinct
  <2> QED
    BY <1>9, <1>13, <2>4, <2>5
<1>14. ASSUME mode = "count" PROVE HitsCounted'
  <2>1. HitsCounted
    BY <1>14 DEF ServerInv
  <2>2. \A j \in hits : j \in Int
    BY HitsFinite DEF ServerInv
  <2>3. IsFiniteSet(TakenHits) /\ Cardinality(TakenHits) \in Nat
    BY HitsFinite DEF ServerInv
  <2>4. CASE i \notin hits /\ UNCHANGED <<pc, job, local>>
    <3>1. TakenHits' = TakenHits
      BY <1>2, <1>7, <2>2, <2>4 DEF TakenHits
    <3>2. Share' = Share
      BY <1>2, <2>4 DEF Share
    <3> QED
      BY <1>2, <2>1, <3>1, <3>2 DEF HitsCounted
  <2>5. CASE /\ i \in hits /\ mode = "count"
             /\ local' = [local EXCEPT ![w] = @ + 1] /\ UNCHANGED <<pc, job>>
    <3>1. TakenHits' = TakenHits \cup {i} /\ i \notin TakenHits
      <4>1. \A j \in hits : j < Taken' <=> (j < Taken \/ j = i)
        BY <1>7, <2>2
      <4>2. ~(i < Taken)
        BY <1>7
      <4> QED
        BY <1>2, <2>5, <4>1, <4>2 DEF TakenHits
    <3>2. Cardinality(TakenHits') = Cardinality(TakenHits) + 1
      BY <2>3, <3>1, FS_AddElement
    <3>3. PICK h, k : h = Share /\ k = Share'
      OBVIOUS
    <3>4. /\ h[w] = local[w] /\ k[w] = local[w] + 1 /\ local[w] \in Int
          /\ \A v \in Pool \ {w} : h[v] = k[v]
      BY <1>2, <1>3, <1>4, <2>5, <3>3 DEF Share
    <3>5. Summable(h, Pool) /\ Summable(k, Pool)
      <4>1. \A v \in Pool : h[v] \in Int
        BY <1>3, <1>4, <3>3 DEF Share
      <4> QED
        BY <3>4, <4>1 DEF Summable
    <3>6. SumOf(h, Pool) \in Int /\ SumOf(k, Pool) = SumOf(h, Pool) - h[w] + k[w]
      <4>1. Agreeing(h, k, Pool \ {w})
        BY <3>4 DEF Agreeing
      <4> QED
        BY <1>3, <1>4, <3>5, <4>1, SumOfOne
    <3>7. SumOf(Share, Pool)' = SumOf(Share, Pool) + 1
      BY <1>2, <3>3, <3>4, <3>6
    <3>8. Total(out)' = Total(out) /\ Total(gathered)' = Total(gathered)
          /\ Total(out) \in Int /\ Total(gathered) \in Int
      <4>1. out \in Seq(Int) /\ gathered \in Seq(Int)
        BY NumbersOut DEF ServerInv
      <4> QED
        BY <1>2, <4>1, TotalAppend
    <3> QED
      BY <2>1, <2>3, <3>2, <3>3, <3>6, <3>7, <3>8 DEF HitsCounted
  <2> QED
    BY <1>9, <1>14, <2>4, <2>5
<1> QED
  BY <1>2, <1>8, <1>10, <1>11, <1>12, <1>13, <1>14 DEF ServerInv

\* A number behind the others.
LEMMA AppendFacts ==
    ASSUME NEW S, NEW s \in Seq(S), NEW x \in S
    PROVE  /\ Append(s, x) \in Seq(S) /\ Len(Append(s, x)) = Len(s) + 1 /\ Len(s) \in Nat
           /\ \A i : On(Append(s, x), i) <=> (On(s, i) \/ i = x)
           /\ Distinct(s) /\ ~On(s, x) => Distinct(Append(s, x))
<1>1. PICK n \in Nat : n = Len(s) /\ DOMAIN s = 1..n
  OBVIOUS
<1>2. PICK t \in Seq(S) : /\ t = Append(s, x) /\ Len(t) = n + 1 /\ DOMAIN t = 1..(n + 1)
                          /\ t[n + 1] = x /\ \A k \in 1..n : t[k] = s[k]
  <2>1. Append(s, x) \in Seq(S) /\ Len(Append(s, x)) = n + 1
    BY <1>1
  <2>2. DOMAIN Append(s, x) = 1..(n + 1) /\ Append(s, x)[n + 1] = x
    BY <1>1
  <2>3. ASSUME NEW k \in 1..n PROVE Append(s, x)[k] = s[k]
    BY <1>1
  <2> QED
    BY <2>1, <2>2, <2>3
<1>3. \A k \in 1..(n + 1) : k \in 1..n \/ k = n + 1
  OBVIOUS
<1>4. \A i : On(t, i) <=> (On(s, i) \/ i = x)
  <2>1. \A k \in 1..n : k \in 1..(n + 1)
    OBVIOUS
  <2>2. n + 1 \in 1..(n + 1)
    OBVIOUS
  <2> QED
    BY <1>1, <1>2, <1>3, <2>1, <2>2 DEF On
<1>5. Distinct(s) /\ ~On(s, x) => Distinct(t)
  BY <1>1, <1>2, <1>3 DEF Distinct, On
<1> QED
  BY <1>1, <1>2, <1>4, <1>5

\* The first number is taken away.
LEMMA TailFacts ==
    ASSUME NEW S, NEW s \in Seq(S), s # <<>>
    PROVE  /\ Tail(s) \in Seq(S) /\ Len(Tail(s)) = Len(s) - 1 /\ Len(s) \in Nat
           /\ Head(s) \in S /\ On(s, Head(s))
           /\ \A i : On(s, i) <=> (On(Tail(s), i) \/ i = Head(s))
           /\ Distinct(s) => Distinct(Tail(s)) /\ ~On(Tail(s), Head(s))
<1>1. PICK n \in Nat : n + 1 = Len(s) /\ DOMAIN s = 1..(n + 1)
  <2>1. PICK l \in Nat : l = Len(s) /\ l # 0 /\ DOMAIN s = 1..l
    OBVIOUS
  <2>2. l - 1 \in Nat /\ (l - 1) + 1 = l
    BY <2>1
  <2> QED
    BY <2>1, <2>2
<1>2. PICK t \in Seq(S) : /\ t = Tail(s) /\ Len(t) = n /\ DOMAIN t = 1..n
                          /\ \A k \in 1..n : t[k] = s[k + 1]
  <2>1. Tail(s) \in Seq(S) /\ Len(Tail(s)) = n
    BY <1>1
  <2>2. DOMAIN Tail(s) = 1..n
    BY <1>1
  <2>3. ASSUME NEW k \in 1..n PROVE Tail(s)[k] = s[k + 1]
    BY <1>1
  <2> QED
    BY <2>1, <2>2, <2>3
<1>3. Head(s) = s[1] /\ s[1] \in S /\ 1 \in 1..(n + 1)
  BY <1>1
<1>4. /\ \A k \in 1..n : k + 1 \in 1..(n + 1) /\ k + 1 # 1
      /\ \A k \in 1..(n + 1) : k = 1 \/ (k - 1 \in 1..n /\ (k - 1) + 1 = k)
      /\ \A k, m \in 1..n : k + 1 = m + 1 => k = m
  OBVIOUS
<1>5. \A i : On(s, i) <=> (On(t, i) \/ i = s[1])
  <2>1. ASSUME NEW i, On(t, i) PROVE On(s, i)
    BY <1>1, <1>2, <1>4, <2>1 DEF On
  <2>2. ASSUME NEW i, On(s, i), i # s[1] PROVE On(t, i)
    <3>1. PICK k \in 1..(n + 1) : s[k] = i
      BY <1>1, <2>2 DEF On
    <3>2. k - 1 \in 1..n /\ t[k - 1] = i
      BY <1>2, <1>4, <2>2, <3>1
    <3> QED
      BY <1>2, <3>2 DEF On
  <2>3. On(s, s[1])
    BY <1>1, <1>3 DEF On
  <2> QED
    BY <2>1, <2>2, <2>3
<1>6. Distinct(s) => Distinct(t) /\ ~On(t, s[1])
  BY <1>1, <1>2, <1>3, <1>4 DEF Distinct, On
<1> QED
  BY <1>1, <1>2, <1>3, <1>5, <1>6

\* A held hit is sent.
LEMMA SendHitStep ==
    ASSUME ServerInv, NEW w \in 1..Workers, SendHit(w)
    PROVE  ServerInv'
<1>1. [Next]_vars
  BY DEF Next
<1>2. /\ UNCHANGED <<request, main, produced, jobs, jobsClosed, job, local,
                     outClosed, gathered, response>>
      /\ RequestOK' /\ PoolSize' = PoolSize /\ Pool' = Pool /\ Capacity' = Capacity
      /\ mode' = mode /\ hits' = hits /\ total' = total /\ valid' = valid
  BY <1>1, RequestKept DEF ServerInv, SendHit
<1>3. /\ pc[w] = "hit" /\ Len(out) < Capacity /\ out' = Append(out, job[w])
      /\ pc' = [pc EXCEPT ![w] = "receive"]
      /\ pc \in [1..Workers -> {"receive", "hit", "count", "done"}]
      /\ job[w] \in 0..MaxLines /\ out \in Seq(0..MaxLines)
      /\ Pool \subseteq 1..Workers /\ Capacity \in Nat
  BY PoolFacts DEF SendHit, ServerInv, WorkersOK, OutOK
<1>4. w \in Pool /\ mode # "count"
  BY <1>3 DEF ServerInv, PoolOrder
<1>5. PICK i \in 0..MaxLines : i = job[w] /\ out' = Append(out, i)
  BY <1>3
<1>6. /\ out' \in Seq(0..MaxLines) /\ Len(out') = Len(out) + 1 /\ Len(out) \in Nat
      /\ \A j : On(out', j) <=> (On(out, j) \/ j = i)
      /\ Distinct(out) /\ ~On(out, i) => Distinct(out')
  <2>1. PICK s \in Seq(0..MaxLines) : s = out
    BY <1>3
  <2>2. /\ Append(s, i) \in Seq(0..MaxLines) /\ Len(Append(s, i)) = Len(s) + 1 /\ Len(s) \in Nat
        /\ \A j : On(Append(s, i), j) <=> (On(s, j) \/ j = i)
        /\ Distinct(s) /\ ~On(s, i) => Distinct(Append(s, i))
    BY AppendFacts
  <2> QED
    BY <1>5, <2>1, <2>2
<1>7. Taken' = Taken
  BY <1>2 DEF Taken
<1>8. /\ pc'[w] = "receive" /\ \A v \in 1..Workers : v # w => pc'[v] = pc[v]
      /\ pc' \in [1..Workers -> {"receive", "hit", "count", "done"}]
  BY <1>3
<1>9. JobsOK' /\ WorkersOK'
  BY <1>2, <1>7, <1>8 DEF ServerInv, JobsOK, WorkersOK
<1>10. OutOK'
  BY <1>2, <1>3, <1>6 DEF ServerInv, OutOK
<1>11. PoolOrder'
  BY <1>2, <1>3, <1>4, <1>8 DEF ServerInv, PoolOrder
<1>12. HitsOnce'
  <2>1. HitsOnce
    BY <1>4 DEF ServerInv
  <2>2. i \in hits /\ Held(i) /\ ~On(out, i) /\ ~On(gathered, i)
    BY <1>3, <1>4, <1>5, <2>1 DEF HitsOnce, Held
  <2>3. Distinct(out')
    BY <1>6, <2>1, <2>2 DEF HitsOnce
  <2>4. \A j \in hits : Held(j)' <=> (Held(j) /\ j # i)
    BY <1>2, <1>3, <1>4, <1>5, <1>8, <2>1 DEF HitsOnce, Held
  <2>5. \A j \in hits : On(out, j)' <=> (On(out, j) \/ j = i)
    BY <1>6 DEF On
  <2>6. \A j \in hits : On(gathered, j)' <=> On(gathered, j)
    BY <1>2 DEF On
  <2>7. \A k \in DOMAIN out' : out'[k] \in hits
    <3>1. \A k \in DOMAIN out' : On(out', out'[k])
      BY DEF On
    <3>2. \A j : On(out, j) => j \in hits
      BY <2>1 DEF HitsOnce, On
    <3> QED
      BY <1>6, <2>2, <3>1, <3>2
  <2>8. /\ \A u, v \in Pool : pc'[u] = "hit" /\ pc'[v] = "hit" /\ job[u] = job[v] => u = v
        /\ \A v \in Pool : pc'[v] = "hit" => job[v] \in hits
    BY <1>3, <1>8, <2>1 DEF HitsOnce
  <2>9. \A j \in hits :
            /\ ~(Held(j)' /\ On(out, j)') /\ ~(Held(j)' /\ On(gathered, j)')
            /\ ~(On(out, j)' /\ On(gathered, j)')
            /\ (j < Taken' <=> Held(j)' \/ On(out, j)' \/ On(gathered, j)')
    BY <1>7, <2>1, <2>2, <2>4, <2>5, <2>6 DEF HitsOnce
  <2> QED
    BY <1>2, <2>1, <2>3, <2>7, <2>8, <2>9 DEF HitsOnce, Distinct
<1> QED
  BY <1>2, <1>4, <1>9, <1>10, <1>11, <1>12 DEF ServerInv

\* A worker whose lines are exhausted leaves the loop.
LEMMA LeaveStep ==
    ASSUME ServerInv, NEW w \in 1..Workers, Leave(w)
    PROVE  ServerInv'
<1>1. [Next]_vars
  BY DEF Next
<1>2. /\ UNCHANGED <<request, main, produced, jobs, jobsClosed, job, local, out,
                     outClosed, gathered, response>>
      /\ RequestOK' /\ PoolSize' = PoolSize /\ Pool' = Pool /\ Capacity' = Capacity
      /\ mode' = mode /\ hits' = hits /\ total' = total /\ valid' = valid
  BY <1>1, RequestKept DEF ServerInv, Leave
<1>3. PICK p \in {"count", "done"} :
          /\ p = IF mode = "count" THEN "count" ELSE "done"
          /\ pc' = [pc EXCEPT ![w] = p]
  BY DEF Leave
<1>4. /\ w \in Pool /\ pc[w] = "receive" /\ jobs = <<>> /\ jobsClosed
      /\ pc \in [1..Workers -> {"receive", "hit", "count", "done"}]
      /\ Pool \subseteq 1..Workers
  BY PoolFacts DEF Leave, ServerInv, WorkersOK
<1>5. /\ pc'[w] = p /\ \A v \in 1..Workers : v # w => pc'[v] = pc[v]
      /\ pc' \in [1..Workers -> {"receive", "hit", "count", "done"}]
  BY <1>3, <1>4
<1>6. Taken' = Taken /\ TakenHits' = TakenHits
  BY <1>2 DEF Taken, TakenHits
<1>7. JobsOK' /\ WorkersOK' /\ OutOK'
  BY <1>2, <1>5, <1>6 DEF ServerInv, JobsOK, WorkersOK, OutOK
<1>8. PoolOrder'
  BY <1>2, <1>3, <1>4, <1>5 DEF ServerInv, PoolOrder
<1>9. ASSUME mode # "count" PROVE HitsOnce'
  <2>1. HitsOnce
    BY <1>9 DEF ServerInv
  <2>2. \A v \in Pool : pc'[v] = "hit" <=> pc[v] = "hit"
    BY <1>4, <1>5
  <2>3. \A j : Held(j)' <=> Held(j)
    BY <1>2, <2>2 DEF Held
  <2>4. \A j : (On(out, j)' <=> On(out, j)) /\ (On(gathered, j)' <=> On(gathered, j))
    BY <1>2 DEF On
  <2> QED
    BY <1>2, <1>6, <2>1, <2>2, <2>3, <2>4 DEF HitsOnce, Distinct
<1>10. ASSUME mode = "count" PROVE HitsCounted'
  <2>1. \A v \in Pool : pc'[v] = "done" <=> pc[v] = "done"
    BY <1>3, <1>4, <1>5, <1>10
  <2>2. Share' = Share
    BY <1>2, <2>1 DEF Share
  <2> QED
    BY <1>2, <1>6, <1>10, <2>2 DEF ServerInv, HitsCounted
<1> QED
  BY <1>2, <1>7, <1>8, <1>9, <1>10 DEF ServerInv

\* A worker's count is sent: its share moves to the channel.
LEMMA SendCountStep ==
    ASSUME ServerInv, NEW w \in 1..Workers, SendCount(w)
    PROVE  ServerInv'
<1>1. [Next]_vars
  BY DEF Next
<1>2. /\ UNCHANGED <<request, main, produced, jobs, jobsClosed, job, local,
                     outClosed, gathered, response>>
      /\ RequestOK' /\ PoolSize' = PoolSize /\ Pool' = Pool /\ Capacity' = Capacity
      /\ mode' = mode /\ hits' = hits /\ total' = total /\ valid' = valid
  BY <1>1, RequestKept DEF ServerInv, SendCount
<1>3. /\ pc[w] = "count" /\ Len(out) < PoolSize /\ out' = Append(out, local[w])
      /\ pc' = [pc EXCEPT ![w] = "done"]
      /\ pc \in [1..Workers -> {"receive", "hit", "count", "done"}]
      /\ local \in [1..Workers -> 0..MaxLines] /\ out \in Seq(0..MaxLines)
      /\ Pool \subseteq 1..Workers /\ IsFiniteSet(Pool)
      /\ Capacity \in Nat /\ PoolSize \in Nat /\ PoolSize <= Capacity
  BY PoolFacts DEF SendCount, ServerInv, WorkersOK, OutOK
<1>4. w \in Pool /\ mode = "count"
  BY <1>3 DEF ServerInv, PoolOrder
<1>5. PICK c \in 0..MaxLines : c = local[w] /\ out' = Append(out, c)
  BY <1>3
<1>6. out' \in Seq(0..MaxLines) /\ Len(out') = Len(out) + 1 /\ Len(out) \in Nat
  BY <1>3, <1>5, AppendFacts
<1>7. Taken' = Taken /\ TakenHits' = TakenHits
  BY <1>2 DEF Taken, TakenHits
<1>8. /\ pc'[w] = "done" /\ \A v \in 1..Workers : v # w => pc'[v] = pc[v]
      /\ pc' \in [1..Workers -> {"receive", "hit", "count", "done"}]
  BY <1>3
<1>9. JobsOK' /\ WorkersOK'
  BY <1>2, <1>7, <1>8 DEF ServerInv, JobsOK, WorkersOK
<1>10. OutOK'
  BY <1>2, <1>3, <1>6 DEF ServerInv, OutOK
<1>11. PoolOrder'
  BY <1>2, <1>3, <1>4, <1>8 DEF ServerInv, PoolOrder
<1>12. HitsCounted'
  <2>1. HitsCounted
    BY <1>4 DEF ServerInv
  <2>2. out \in Seq(Int) /\ gathered \in Seq(Int) /\ c \in Int
    BY <1>5, NumbersOut DEF ServerInv
  <2>3. Total(out) \in Int /\ Total(out') = Total(out) + c /\ Total(gathered) \in Int
    BY <1>5, <2>2, TotalAppend
  <2>4. PICK h, k : h = Share /\ k = Share'
    OBVIOUS
  <2>5. /\ h[w] = c /\ k[w] = 0 /\ \A v \in Pool \ {w} : h[v] = k[v]
        /\ \A v \in Pool : h[v] \in Int /\ k[v] \in Int
    <3>1. \A v \in Pool : local[v] \in Int /\ local'[v] = local[v]
      BY <1>2, <1>3
    <3> QED
      BY <1>2, <1>3, <1>4, <1>5, <1>8, <2>4, <3>1 DEF Share
  <2>6. SumOf(h, Pool) \in Int /\ SumOf(k, Pool) = SumOf(h, Pool) - h[w] + k[w]
    <3>1. Agreeing(h, k, Pool \ {w}) /\ Summable(h, Pool) /\ Summable(k, Pool)
      BY <2>5 DEF Agreeing, Summable
    <3> QED
      BY <1>3, <1>4, <3>1, SumOfOne
  <2>7. SumOf(Share, Pool)' = SumOf(Share, Pool) - c /\ SumOf(Share, Pool) \in Int
    BY <1>2, <2>4, <2>5, <2>6
  <2> QED
    BY <1>2, <1>7, <2>1, <2>2, <2>3, <2>7 DEF HitsCounted
<1> QED
  BY <1>2, <1>4, <1>9, <1>10, <1>11, <1>12 DEF ServerInv

\* The handler reads a result.
LEMMA GatherStep ==
    ASSUME ServerInv, Gather
    PROVE  ServerInv'
<1>1. [Next]_vars
  BY DEF Next
<1>2. /\ UNCHANGED <<request, main, pool, outClosed, response>>
      /\ UNCHANGED <<produced, jobs, jobsClosed, pc, job, local>>
      /\ RequestOK' /\ PoolSize' = PoolSize /\ Pool' = Pool /\ Capacity' = Capacity
      /\ mode' = mode /\ hits' = hits /\ total' = total /\ valid' = valid
  BY <1>1, RequestKept DEF ServerInv, Gather, pool
<1>3. /\ out # <<>> /\ out' = Tail(out) /\ gathered' = Append(gathered, Head(out))
      /\ out \in Seq(0..MaxLines) /\ gathered \in Seq(0..MaxLines) /\ Len(out) <= Capacity
      /\ Capacity \in Nat
  BY PoolFacts DEF Gather, ServerInv, OutOK
<1>4. PICK i \in 0..MaxLines : i = Head(out) /\ gathered' = Append(gathered, i)
  BY <1>3, TailFacts
<1>5. /\ out' \in Seq(0..MaxLines) /\ Len(out') = Len(out) - 1 /\ Len(out) \in Nat
      /\ On(out, i) /\ \A j : On(out, j) <=> (On(out', j) \/ j = i)
      /\ Distinct(out) => Distinct(out') /\ ~On(out', i)
  BY <1>3, <1>4, TailFacts
<1>6. /\ gathered' \in Seq(0..MaxLines)
      /\ \A j : On(gathered', j) <=> (On(gathered, j) \/ j = i)
      /\ Distinct(gathered) /\ ~On(gathered, i) => Distinct(gathered')
  BY <1>3, <1>4, AppendFacts
<1>7. Taken' = Taken /\ TakenHits' = TakenHits /\ Share' = Share
  BY <1>2 DEF Taken, TakenHits, Share
<1>8. JobsOK' /\ WorkersOK' /\ PoolOrder'
  BY <1>2, <1>7 DEF ServerInv, JobsOK, WorkersOK, PoolOrder
<1>9. OutOK'
  BY <1>2, <1>3, <1>5, <1>6 DEF ServerInv, OutOK
<1>10. ASSUME mode # "count" PROVE HitsOnce'
  <2>1. HitsOnce
    BY <1>10 DEF ServerInv
  <2>2. \A j : On(out, j) => j \in hits
    BY <2>1 DEF HitsOnce, On
  <2>3. i \in hits /\ ~On(gathered, i) /\ ~Held(i)
    BY <1>5, <2>1, <2>2 DEF HitsOnce
  <2>4. Distinct(out') /\ Distinct(gathered') /\ ~On(out', i)
    BY <1>5, <1>6, <2>1, <2>3 DEF HitsOnce
  <2>5. \A j \in hits : /\ On(out, j)' <=> (On(out, j) /\ j # i)
                        /\ On(gathered, j)' <=> (On(gathered, j) \/ j = i)
                        /\ Held(j)' <=> Held(j)
    <3>1. \A j \in hits : Held(j)' <=> Held(j)
      BY <1>2 DEF Held
    <3> QED
      BY <1>5, <1>6, <2>4, <3>1 DEF On
  <2>6. /\ \A k \in DOMAIN out' : out'[k] \in hits
        /\ \A k \in DOMAIN gathered' : gathered'[k] \in hits
    <3>1. /\ \A k \in DOMAIN out' : On(out', out'[k])
          /\ \A k \in DOMAIN gathered' : On(gathered', gathered'[k])
      BY DEF On
    <3>2. \A j : On(gathered, j) => j \in hits
      BY <2>1 DEF HitsOnce, On
    <3> QED
      BY <1>5, <1>6, <2>2, <2>3, <3>1, <3>2
  <2>7. \A j \in hits :
            /\ ~(Held(j)' /\ On(out, j)') /\ ~(Held(j)' /\ On(gathered, j)')
            /\ ~(On(out, j)' /\ On(gathered, j)')
            /\ (j < Taken' <=> Held(j)' \/ On(out, j)' \/ On(gathered, j)')
    BY <1>5, <1>7, <2>1, <2>3, <2>5 DEF HitsOnce
  <2> QED
    BY <1>2, <2>1, <2>4, <2>6, <2>7 DEF HitsOnce, Distinct
<1>11. ASSUME mode = "count" PROVE HitsCounted'
  <2>1. HitsCounted
    BY <1>11 DEF ServerInv
  <2>2. out \in Seq(Int) /\ gathered \in Seq(Int) /\ i \in Int
    BY NumbersOut DEF ServerInv
  <2>3. /\ Total(out) \in Int /\ Total(out') = Total(out) - i
        /\ Total(gathered) \in Int /\ Total(gathered') = Total(gathered) + i
    BY <1>3, <1>4, <2>2, TotalAppend, TotalTail
  <2>4. SumOf(Share, Pool) \in Int
    <3>1. IsFiniteSet(Pool) /\ Pool \subseteq 1..Workers
      BY PoolFacts DEF ServerInv
    <3>2. \A w \in Pool : Share[w] \in Int
      BY <3>1 DEF Share, ServerInv, WorkersOK
    <3>3. PICK h : h = Share /\ Summable(h, Pool)
      BY <3>2 DEF Summable
    <3> QED
      BY <3>1, <3>3, SumOfType
  <2> QED
    BY <1>2, <1>7, <2>1, <2>3, <2>4 DEF HitsCounted
<1> QED
  BY <1>2, <1>8, <1>9, <1>10, <1>11 DEF ServerInv

\* Every step keeps the invariant.
LEMMA ServerStep == ServerInv /\ [Next]_vars => ServerInv'
<1> SUFFICES ASSUME ServerInv, [Next]_vars PROVE ServerInv'
  OBVIOUS
<1>1. CASE RefusePattern \/ RespondEmpty \/ StartPool \/ CloseOut \/ Respond \/ Finished
               \/ UNCHANGED vars
  BY <1>1, HandlerStep
<1>2. CASE Produce \/ CloseJobs
  BY <1>2, ProducerStep
<1>3. CASE Gather
  BY <1>3, GatherStep
<1>4. ASSUME NEW w \in 1..Workers, Take(w) \/ SendHit(w) \/ Leave(w) \/ SendCount(w)
      PROVE  ServerInv'
  BY <1>4, TakeStep, SendHitStep, LeaveStep, SendCountStep
<1> QED
  BY <1>1, <1>2, <1>3, <1>4 DEF Next

\* The invariant holds in every reachable state.
LEMMA ServerInvariance == Spec => []ServerInv
<1> QED
  BY ServerInit, ServerStep, PTL DEF Spec

-----------------------------------------------------------------------------
\* Every variable keeps its type: the channels never hold more than their
\* capacity, and no count exceeds the number of the lines.
THEOREM ServerTypes == Spec => []TypeOK
<1>1. ServerInv => TypeOK
  BY DEF ServerInv, RequestOK, JobsOK, WorkersOK, OutOK, PoolOrder, TypeOK
<1> QED
  BY <1>1, ServerInvariance, PTL

\* The worker that holds a number is one.
LEMMA HolderOf ==
    ASSUME NEW i, \A v, w \in Pool : pc[v] = "hit" /\ pc[w] = "hit" /\ job[v] = job[w] => v = w
    PROVE  Cardinality({w \in Pool : pc[w] = "hit" /\ job[w] = i}) = IF Held(i) THEN 1 ELSE 0
<1>1. CASE Held(i)
  <2>1. PICK w \in Pool : pc[w] = "hit" /\ job[w] = i
    BY <1>1 DEF Held
  <2>2. {v \in Pool : pc[v] = "hit" /\ job[v] = i} = {w}
    BY <2>1
  <2> QED
    BY <1>1, <2>2, FS_Singleton
<1>2. CASE ~Held(i)
  <2>1. {v \in Pool : pc[v] = "hit" /\ job[v] = i} = {}
    BY <1>2 DEF Held
  <2> QED
    BY <1>2, <2>1, FS_EmptySet
<1> QED
  BY <1>1, <1>2

\* Every hit of a line already produced is in exactly one place, for every
\* number of workers and lines and every interleaving.
THEOREM NoHitLostOrDoubled == Spec => []EveryHitOnce
<1>1. ServerInv => EveryHitOnce
  <2> SUFFICES ASSUME ServerInv, mode # "count", NEW i \in hits
               PROVE  Cardinality({k \in DOMAIN jobs : jobs[k] = i})
                      + Cardinality({w \in Pool : pc[w] = "hit" /\ job[w] = i})
                      + Cardinality({k \in DOMAIN out : out[k] = i})
                      + Cardinality({k \in DOMAIN gathered : gathered[k] = i})
                          = (IF i < produced THEN 1 ELSE 0)
    BY DEF EveryHitOnce
  <2>1. HitsOnce /\ JobsOK /\ OutOK
    BY DEF ServerInv
  <2>2. i \in Int
    BY HitsFinite DEF ServerInv
  <2>3. /\ jobs \in Seq(0..(total - 1)) /\ DOMAIN jobs = 1..Len(jobs) /\ Len(jobs) \in Nat
        /\ \A k \in 1..Len(jobs) : jobs[k] = Taken + k - 1
        /\ produced \in Int /\ Taken \in Int /\ Taken = produced - Len(jobs)
    BY <2>1 DEF JobsOK, Taken
  <2>4. Distinct(jobs)
    BY <2>3 DEF Distinct
  <2>5. On(jobs, i) <=> Taken <= i /\ i < produced
    <3>1. ASSUME On(jobs, i) PROVE Taken <= i /\ i < produced
      BY <2>2, <2>3, <3>1 DEF On
    <3>2. ASSUME Taken <= i, i < produced PROVE On(jobs, i)
      <4>1. i - Taken + 1 \in 1..Len(jobs) /\ Taken + (i - Taken + 1) - 1 = i
        BY <2>2, <2>3, <3>2
      <4> QED
        BY <2>3, <4>1 DEF On
    <3> QED
      BY <3>1, <3>2
  <2>6. Cardinality({k \in DOMAIN jobs : jobs[k] = i}) = IF On(jobs, i) THEN 1 ELSE 0
    BY <2>3, <2>4, PlacesOf DEF On
  <2>7. /\ Cardinality({k \in DOMAIN out : out[k] = i}) = IF On(out, i) THEN 1 ELSE 0
        /\ Cardinality({k \in DOMAIN gathered : gathered[k] = i}) =
               IF On(gathered, i) THEN 1 ELSE 0
    BY <2>1, PlacesOf DEF HitsOnce, OutOK, On
  <2>8. Cardinality({w \in Pool : pc[w] = "hit" /\ job[w] = i}) = IF Held(i) THEN 1 ELSE 0
    BY <2>1, HolderOf DEF HitsOnce
  <2>9. /\ ~(Held(i) /\ On(out, i)) /\ ~(Held(i) /\ On(gathered, i))
        /\ ~(On(out, i) /\ On(gathered, i))
        /\ (i < Taken <=> Held(i) \/ On(out, i) \/ On(gathered, i))
    BY <2>1 DEF HitsOnce
  <2> QED
    BY <2>2, <2>3, <2>5, <2>6, <2>7, <2>8, <2>9
<1> QED
  BY <1>1, ServerInvariance, PTL

-----------------------------------------------------------------------------
(* The response.                                                            *)

\* LineFilter is instantiated with its own copy of the operators.
LEMMA SameFilter ==
    /\ \A S : Filter!Ascending(S) = Ascending(S)
    /\ \A S : Filter!Cardinality(S) = Cardinality(S)
<1>1. \A S : Filter!Cardinality(S) = Cardinality(S)
  BY DEF Filter!Cardinality, Cardinality, Filter!IsFiniteSet, IsFiniteSet
<1>2. \A S, x : Filter!Below(S, x) = Below(S, x)
  BY <1>1 DEF Filter!Below, Below
<1>3. \A S : Filter!Ascending(S) = Ascending(S)
  BY <1>1, <1>2 DEF Filter!Ascending, Ascending
<1> QED
  BY <1>1, <1>3

\* The response of a sequential pass.
LEMMA ReferenceIs ==
    Filter!Reference =
        IF ~valid THEN [error |-> TRUE, matches |-> <<>>, count |-> 0, hasMatch |-> FALSE]
        ELSE Response(IF mode = "lines" THEN Ascending({start + i : i \in hits}) ELSE <<>>,
                      IF mode = "count" THEN Cardinality(hits) ELSE 0,
                      hits # {})
<1>1. /\ Filter!Ascending({start + i : i \in hits}) = Ascending({start + i : i \in hits})
      /\ Filter!Cardinality(hits) = Cardinality(hits)
  BY SameFilter
<1> QED
  BY <1>1 DEF Filter!Reference, Filter!ResponseTo, Filter!Refusal, Response

\* When the results are read and closed, every line was taken.
LEMMA AllTaken ==
    ASSUME ServerInv, main = "gather", outClosed, out = <<>>
    PROVE  TakenHits = hits /\ \A w \in Pool : pc[w] = "done"
<1>1. 1 \in Pool /\ Pool \subseteq 1..Workers
  BY PoolFacts DEF ServerInv, PoolOrder
<1>2. \A w \in Pool : pc[w] = "done"
  BY DEF ServerInv, PoolOrder
<1>3. jobsClosed /\ jobs = <<>>
  BY <1>1, <1>2 DEF ServerInv, PoolOrder
<1>4. produced = total /\ produced \in Int
  BY <1>3 DEF ServerInv, JobsOK
<1>5. Len(jobs) = 0
  BY <1>3
<1>6. Taken = total
  BY <1>4, <1>5 DEF Taken
<1>7. \A i \in hits : i < total
  BY PoolFacts DEF ServerInv, RequestOK
<1> QED
  BY <1>2, <1>6, <1>7 DEF TakenHits

\* Then the counts add up to the number of the hits.
LEMMA CountIsRight ==
    ASSUME ServerInv, main = "gather", outClosed, out = <<>>, mode = "count"
    PROVE  FoldLeft(+, 0, gathered) = Cardinality(hits)
<1>1. HitsCounted /\ TakenHits = hits /\ \A w \in Pool : pc[w] = "done"
  BY AllTaken DEF ServerInv
<1>2. SumOf(Share, Pool) = 0
  <2>1. IsFiniteSet(Pool) /\ \A w \in Pool : Share[w] = 0
    BY <1>1, PoolFacts DEF ServerInv, Share
  <2> QED
    BY <2>1, SumOfZeroes
<1>3. Total(out) = 0
  BY TotalEmpty
<1>4. Total(gathered) \in Int
  <2>1. gathered \in Seq(Int)
    BY NumbersOut DEF ServerInv
  <2> QED
    BY <2>1, TotalAppend
<1>5. Total(gathered) = Cardinality(hits)
  BY <1>1, <1>2, <1>3, <1>4 DEF HitsCounted
<1> QED
  BY <1>5 DEF Total

\* And the hits that were read are all hits, each once.
LEMMA HitsAreRead ==
    ASSUME ServerInv, main = "gather", outClosed, out = <<>>, mode # "count"
    PROVE  /\ ToSet(gathered) = hits /\ Distinct(gathered) /\ gathered \in Seq(Int)
           /\ gathered # <<>> <=> hits # {}
<1>1. HitsOnce /\ TakenHits = hits /\ \A w \in Pool : pc[w] = "done"
  BY AllTaken DEF ServerInv
<1>2. \A i : ~Held(i)
  BY <1>1 DEF Held
<1>3. \A i : ~On(out, i)
  BY DEF On
<1>4. \A i \in hits : i < Taken
  BY <1>1 DEF TakenHits
<1>5. \A i : On(gathered, i) <=> i \in hits
  BY <1>1, <1>2, <1>3, <1>4 DEF HitsOnce, On
<1>6. gathered \in Seq(Int) /\ Distinct(gathered)
  BY <1>1, NumbersOut DEF ServerInv, HitsOnce
<1>7. ToSet(gathered) = hits
  <2>1. \A i : i \in ToSet(gathered) <=> On(gathered, i)
    BY DEF ToSet, On
  <2> QED
    BY <1>5, <2>1
<1>8. gathered # <<>> <=> hits # {}
  <2>1. ASSUME gathered # <<>> PROVE hits # {}
    <3>1. 1 \in DOMAIN gathered
      BY <1>6, <2>1
    <3> QED
      BY <1>5, <3>1 DEF On
  <2>2. ASSUME gathered = <<>> PROVE hits = {}
    <3>1. DOMAIN gathered = {}
      BY <2>2
    <3> QED
      BY <1>5, <3>1 DEF On
  <2> QED
    BY <2>1, <2>2
<1> QED
  BY <1>6, <1>7, <1>8

\* The matches of the response are the numbers of the matching lines, in order.
LEMMA MatchesAreRight ==
    ASSUME ServerInv, main = "gather", outClosed, out = <<>>, mode # "count"
    PROVE  Matches = Ascending({start + i : i \in hits})
<1>1. gathered \in Seq(Int) /\ Distinct(gathered) /\ ToSet(gathered) = hits
  BY HitsAreRead
<1>2. Sorted(gathered) = Ascending(hits)
  BY <1>1, SortedIsAscending DEF Distinct
<1>3. Matches = [k \in DOMAIN Ascending(hits) |-> start + Ascending(hits)[k]]
  BY <1>2 DEF Matches
<1>4. hits \in SUBSET Int /\ IsFiniteSet(hits) /\ start \in Int
  BY HitsFinite DEF ServerInv, RequestOK
<1>5. PICK S \in SUBSET Int, d \in Int : S = hits /\ d = start
  BY <1>4
<1>6. [k \in DOMAIN Ascending(S) |-> d + Ascending(S)[k]] = Ascending({d + x : x \in S})
  BY <1>4, <1>5, ShiftAscending
<1> QED
  BY <1>3, <1>5, <1>6

\* The handler, the pool and the channels respond once, with what a sequential
\* pass over the lines finds: every step is a step of LineFilter or changes
\* nothing that it sees.  That there is a response at all is left to TLC.
THEOREM RespondsAsLineFilter ==
    Spec => Filter!FilterInit /\ [][Filter!Respond]_<<mode, valid, start, hits, response>>
<1>1. Init => Filter!FilterInit
  BY DEF Init, Filter!FilterInit
<1>2. ServerInv /\ [Next]_vars => [Filter!Respond]_<<mode, valid, start, hits, response>>
  <2> SUFFICES ASSUME ServerInv, [Next]_vars
               PROVE  \/ response' = response
                      \/ response = Pending /\ response' = Filter!Reference
    BY RequestKept DEF Filter!Respond
  <2>1. CASE RefusePattern
    <3>1. ~valid /\ response = Pending
      BY <2>1 DEF RefusePattern, ServerInv, PoolOrder
    <3>2. response' = [error |-> TRUE, matches |-> <<>>, count |-> 0, hasMatch |-> FALSE]
      BY <2>1 DEF RefusePattern, Response
    <3> QED
      BY <3>1, <3>2, ReferenceIs
  <2>2. CASE RespondEmpty
    <3>1. hits = {}
      BY <2>2 DEF RespondEmpty, ServerInv, RequestOK
    <3>2. {start + i : i \in hits} = {} /\ Cardinality(hits) = 0
      BY <3>1, FS_EmptySet
    <3>3. Ascending({}) = <<>>
      BY FS_EmptySet DEF Ascending
    <3> QED
      BY <2>2, <3>1, <3>2, <3>3, ReferenceIs DEF RespondEmpty, ServerInv, PoolOrder, Response
  <2>3. CASE Respond
    <3>1. main = "gather" /\ outClosed /\ out = <<>> /\ response = Pending
      BY <2>3 DEF Respond, ServerInv, PoolOrder
    <3>2. valid
      BY <3>1 DEF ServerInv, PoolOrder
    <3>3. CASE mode = "count"
      <4>1. PICK n \in Nat : n = FoldLeft(+, 0, gathered) /\ n = Cardinality(hits)
        BY <3>1, <3>3, CountIsRight, HitsFinite, FS_CardinalityType DEF ServerInv
      <4>2. response' = Response(<<>>, n, n > 0)
        BY <2>3, <3>3, <4>1 DEF Respond
      <4>3. n > 0 <=> hits # {}
        <5>1. IsFiniteSet(hits)
          BY HitsFinite DEF ServerInv
        <5>2. Cardinality(hits) = 0 <=> hits = {}
          BY <5>1, FS_EmptySet
        <5>3. n = Cardinality(hits)
          BY <4>1, Zenon
        <5>4. n > 0 <=> n # 0
          OBVIOUS
        <5> QED
          BY <5>2, <5>3, <5>4, Zenon
      <4>4. (n > 0) = (hits # {})
        BY <4>3
      <4> QED
        BY <3>1, <3>2, <3>3, <4>1, <4>2, <4>4, ReferenceIs
    <3>4. CASE mode # "count"
      <4>1. /\ gathered # <<>> <=> hits # {}
            /\ Matches = Ascending({start + i : i \in hits})
        BY <3>1, <3>4, HitsAreRead, MatchesAreRight
      <4>2. (gathered # <<>>) = (hits # {})
        BY <4>1
      <4>3. mode \in {"lines", "list"}
        BY <3>4 DEF ServerInv, RequestOK
      <4>4. response' = Response(IF mode = "lines" THEN Matches ELSE <<>>, 0, gathered # <<>>)
        BY <2>3, <4>3 DEF Respond
      <4> QED
        BY <3>1, <3>2, <3>4, <4>1, <4>2, <4>4, ReferenceIs
    <3> QED
      BY <3>3, <3>4
  <2>4. CASE \/ StartPool \/ Produce \/ CloseJobs \/ CloseOut \/ Gather \/ Finished
             \/ UNCHANGED vars
             \/ \E w \in 1..Workers : Take(w) \/ SendHit(w) \/ Leave(w) \/ SendCount(w)
    BY <2>4 DEF StartPool, Produce, CloseJobs, CloseOut, Gather, Finished, vars,
                Take, SendHit, Leave, SendCount
  <2> QED
    BY <2>1, <2>2, <2>3, <2>4 DEF Next
<1> QED
  BY <1>1, <1>2, ServerInvariance, PTL DEF Spec
=============================================================================
