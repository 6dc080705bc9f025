------------------------------ MODULE GrepProofs ------------------------------
(* mygrep (L4.2).  QuorumClient: a quorum is one of real answers, no answer  *)
(* in time is left out, the result is what the answering servers found in    *)
(* the order of the file, and the exit code says what the result says.       *)
(* ChunkSplit: no character is lost at a cut, and the servers see the lines  *)
(* under the numbers of the input.  DistributedGrep: both together and the   *)
(* lives of the servers; the output is grep's, and no request is lost        *)
(* without need.                                                             *)
EXTENDS DistributedGrep, FoldProofs

-----------------------------------------------------------------------------
(* The answers and the counters of Run.                                     *)

InChannel(s) == \E k \in DOMAIN resCh : resCh[k] = s

\* The servers whose result was received as a failure, or dropped.
Unsuccessful == {s \in Servers : pc[s] = "done" /\ ~InChannel(s) /\ s \notin successes}

CountersOK ==
    /\ quorumArg \in Int
    /\ pc \in [Servers -> {"post", "dialed", "backoff", "report", "done"}]
    /\ answer \in [Servers -> {"none", "ok", "refused", "error"}]
    /\ resCh \in Seq(Servers) /\ successes \subseteq Servers /\ failures \in Nat
    /\ main \in {"start", "collect", "returned", "exited"}

\* A result is sent once, by a goroutine that does nothing more.
OneResult ==
    /\ \A k, l \in DOMAIN resCh : resCh[k] = resCh[l] => k = l
    /\ \A k \in DOMAIN resCh : pc[resCh[k]] = "done" /\ resCh[k] \notin successes

SuccessIsAnswer == \A s \in successes : pc[s] = "done" /\ answer[s] = "ok"

FailuresCounted == ~expired => failures = Cardinality(Unsuccessful)

\* Run returns when every goroutine has ended and the channel is drained.
ReturnsLast ==
    /\ main = "start" => ~closed
    /\ closed => \A s \in Servers : pc[s] = "done"
    /\ Returned => closed /\ resCh = <<>>
    /\ main \in {"start", "collect"} => ~result.met
    /\ result.met => Cardinality(successes) >= Quorum

ClientInv == CountersOK /\ OneResult /\ SuccessIsAnswer /\ FailuresCounted /\ ReturnsLast

-----------------------------------------------------------------------------
\* The servers, and any set of them, are finitely many.
LEMMA ServersFinite ==
    /\ IsFiniteSet(Servers) /\ Cardinality(Servers) = N
    /\ \A T \in SUBSET Servers : IsFiniteSet(T) /\ Cardinality(T) \in Nat
<1>1. IsFiniteSet(Servers) /\ Cardinality(Servers) = N
  BY FS_Interval, ClientBounds DEF Servers
<1> QED
  BY <1>1, FS_Subset, FS_CardinalityType

\* The invariant holds at the start.
LEMMA ClientInit == Init => ClientInv
<1> SUFFICES ASSUME Init PROVE ClientInv
  OBVIOUS
<1>1. Unsuccessful = {}
  BY DEF Init, Unsuccessful
<1>2. CountersOK /\ OneResult /\ SuccessIsAnswer
  BY ClientBounds DEF Init, CountersOK, OneResult, SuccessIsAnswer
<1>3. FailuresCounted
  BY <1>1, FS_EmptySet DEF Init, FailuresCounted
<1>4. ReturnsLast
  BY DEF Init, ReturnsLast, Returned, NoResult
<1> QED
  BY <1>2, <1>3, <1>4 DEF ClientInv

\* The goroutine of a server changes nothing that is counted before it reports.
LEMMA PostStep ==
    ASSUME ClientInv, NEW s \in Servers, Posting(s), Running,
           NEW a \in {"none", "ok", "refused", "error"}, NEW p \in {"post", "dialed", "backoff", "report"},
           answer' = [answer EXCEPT ![s] = a] \/ answer' = answer,
           pc' = [pc EXCEPT ![s] = p],
           UNCHANGED <<config, expired, resCh, closed, main, successes, failures, result>>
    PROVE  ClientInv'
<1>1. /\ pc \in [Servers -> {"post", "dialed", "backoff", "report", "done"}]
      /\ answer \in [Servers -> {"none", "ok", "refused", "error"}]
      /\ resCh \in Seq(Servers)
  BY DEF ClientInv, CountersOK
<1>2. /\ pc'[s] # "done" /\ pc[s] # "done"
      /\ \A t \in Servers \ {s} : pc'[t] = pc[t] /\ answer'[t] = answer[t]
      /\ pc' \in [Servers -> {"post", "dialed", "backoff", "report", "done"}]
      /\ answer' \in [Servers -> {"none", "ok", "refused", "error"}]
  BY <1>1 DEF Posting
<1>3. \A t \in Servers : pc'[t] = "done" <=> pc[t] = "done"
  BY <1>2
<1>4. CountersOK'
  BY <1>2 DEF ClientInv, CountersOK, config
<1>5. OneResult'
  <2>1. \A k \in DOMAIN resCh : resCh[k] \in Servers
    BY <1>1
  <2> QED
    BY <1>3, <2>1 DEF ClientInv, OneResult
<1>6. SuccessIsAnswer'
  BY <1>2, <1>3 DEF ClientInv, SuccessIsAnswer, CountersOK
<1>7. Unsuccessful' = Unsuccessful
  BY <1>3 DEF Unsuccessful, InChannel
<1>8. FailuresCounted'
  BY <1>7 DEF ClientInv, FailuresCounted
<1>9. ReturnsLast'
  BY <1>2, <1>3 DEF ClientInv, ReturnsLast, Returned, Running, Quorum, config
<1> QED
  BY <1>4, <1>5, <1>6, <1>8, <1>9 DEF ClientInv

\* A report, or a drop: the goroutine is done.
LEMMA ReportStep ==
    ASSUME ClientInv, NEW s \in Servers, Report(s) \/ Drop(s)
    PROVE  ClientInv'
<1>1. /\ pc \in [Servers -> {"post", "dialed", "backoff", "report", "done"}] /\ pc[s] = "report"
      /\ pc' = [pc EXCEPT ![s] = "done"] /\ resCh \in Seq(Servers)
      /\ UNCHANGED <<config, answer, expired, closed, main, successes, failures, result>>
      /\ main = "collect"
  BY DEF ClientInv, CountersOK, Report, Drop, Running
<1>2. pc'[s] = "done" /\ \A t \in Servers \ {s} : pc'[t] = pc[t]
  BY <1>1
<1>3. s \notin successes /\ ~InChannel(s)
  BY <1>1 DEF ClientInv, SuccessIsAnswer, OneResult, InChannel
<1>4. \/ resCh' = Append(resCh, s)
      \/ resCh' = resCh /\ expired
  BY DEF Report, Drop
<1>5. /\ SuccessIsAnswer' /\ ReturnsLast'
      /\ pc' \in [Servers -> {"post", "dialed", "backoff", "report", "done"}]
  <2>1. SuccessIsAnswer'
    BY <1>1, <1>2, <1>3 DEF ClientInv, CountersOK, SuccessIsAnswer
  <2>2. ReturnsLast'
    BY <1>1, <1>2 DEF ClientInv, ReturnsLast, Returned, Quorum, config
  <2> QED
    BY <1>1, <2>1, <2>2
<1>6. CASE resCh' = Append(resCh, s)
  <2>1. /\ resCh' \in Seq(Servers) /\ DOMAIN resCh = 1..Len(resCh) /\ Len(resCh) \in Nat
        /\ DOMAIN resCh' = 1..(Len(resCh) + 1)
        /\ \A k \in 1..Len(resCh) : resCh'[k] = resCh[k] /\ resCh[k] \in Servers
        /\ resCh'[Len(resCh) + 1] = s
    BY <1>1, <1>6
  <2>2. \A k \in 1..Len(resCh) : resCh[k] # s
    BY <1>3, <2>1 DEF InChannel
  <2>3. OneResult'
    BY <1>1, <1>2, <1>3, <2>1, <2>2 DEF ClientInv, OneResult
  <2>4. \A t \in Servers : InChannel(t)' <=> (InChannel(t) \/ t = s)
    BY <2>1 DEF InChannel
  <2>5. Unsuccessful' = Unsuccessful
    BY <1>1, <1>2, <2>4 DEF Unsuccessful
  <2> QED
    BY <1>1, <1>5, <2>1, <2>3, <2>5 DEF ClientInv, CountersOK, FailuresCounted, config
<1>7. CASE resCh' = resCh /\ expired
  <2>1. \A k \in DOMAIN resCh : resCh[k] \in Servers
    BY <1>1
  <2>2. OneResult'
    BY <1>1, <1>2, <1>7, <2>1 DEF ClientInv, OneResult
  <2> QED
    BY <1>1, <1>5, <1>7, <2>2 DEF ClientInv, CountersOK, FailuresCounted, config
<1> QED
  BY <1>4, <1>6, <1>7

\* The receiver counts one result, on one side.
LEMMA CollectStep == ASSUME ClientInv, Collect PROVE ClientInv'
<1>1. /\ resCh \in Seq(Servers) /\ resCh # <<>> /\ resCh' = Tail(resCh)
      /\ UNCHANGED <<config, pc, answer, expired, closed, main, result>>
      /\ main = "collect" /\ failures \in Nat /\ successes \subseteq Servers
  BY DEF ClientInv, CountersOK, Collect, Running
<1>2. PICK s \in Servers : s = Head(resCh)
  BY <1>1
<1>3. /\ DOMAIN resCh = 1..Len(resCh) /\ Len(resCh) \in Nat \ {0} /\ resCh[1] = s
      /\ resCh' \in Seq(Servers) /\ DOMAIN resCh' = 1..(Len(resCh) - 1)
      /\ \A k \in 1..(Len(resCh) - 1) : resCh'[k] = resCh[k + 1]
  BY <1>1, <1>2
<1>4. pc[s] = "done" /\ s \notin successes /\ InChannel(s)
  BY <1>3 DEF ClientInv, OneResult, InChannel
<1>5. ~InChannel(s)'
  BY <1>3 DEF ClientInv, OneResult, InChannel
<1>6. ASSUME NEW t \in Servers, t # s PROVE InChannel(t)' <=> InChannel(t)
  <2>1. ASSUME InChannel(t) PROVE InChannel(t)'
    <3>1. PICK k \in 1..Len(resCh) : resCh[k] = t
      BY <1>3, <2>1 DEF InChannel
    <3>2. k - 1 \in 1..(Len(resCh) - 1) /\ (k - 1) + 1 = k
      BY <1>3, <1>6, <3>1
    <3> QED
      BY <1>3, <3>1, <3>2 DEF InChannel
  <2>2. ASSUME InChannel(t)' PROVE InChannel(t)
    BY <1>3, <2>2 DEF InChannel
  <2> QED
    BY <2>1, <2>2
<1>7. \/ answer[s] = "ok" /\ successes' = successes \cup {s} /\ failures' = failures
      \/ answer[s] # "ok" /\ successes' = successes /\ failures' = failures + 1
  BY <1>2 DEF Collect
<1>8. OneResult'
  <2>1. ASSUME NEW k \in 1..(Len(resCh) - 1)
        PROVE  /\ k + 1 \in DOMAIN resCh /\ resCh'[k] = resCh[k + 1] /\ resCh[k + 1] # s
    BY <1>3, <2>1 DEF ClientInv, OneResult
  <2>2. ASSUME NEW k \in 1..(Len(resCh) - 1), NEW l \in 1..(Len(resCh) - 1),
               resCh'[k] = resCh'[l]
        PROVE  k = l
    <3>1. k + 1 = l + 1
      BY <2>1, <2>2 DEF ClientInv, OneResult
    <3> QED
      BY <3>1
  <2> QED
    BY <1>1, <1>3, <1>7, <2>1, <2>2 DEF ClientInv, OneResult
<1>9. SuccessIsAnswer' /\ CountersOK'
  BY <1>1, <1>3, <1>4, <1>7 DEF ClientInv, SuccessIsAnswer, CountersOK, config
<1>10. ReturnsLast'
  BY <1>1 DEF ClientInv, ReturnsLast, Returned, config, Quorum
<1>11. FailuresCounted'
  <2>1. CASE answer[s] = "ok" /\ successes' = successes \cup {s} /\ failures' = failures
    <3>1. Unsuccessful' = Unsuccessful
      BY <1>1, <1>4, <1>6, <2>1 DEF Unsuccessful
    <3> QED
      BY <1>1, <2>1, <3>1 DEF ClientInv, FailuresCounted
  <2>2. CASE answer[s] # "ok" /\ successes' = successes /\ failures' = failures + 1
    <3>1. Unsuccessful' = Unsuccessful \cup {s} /\ s \notin Unsuccessful
      BY <1>1, <1>4, <1>5, <1>6, <2>2 DEF Unsuccessful
    <3>2. IsFiniteSet(Unsuccessful)
      BY ServersFinite DEF Unsuccessful
    <3>3. Cardinality(Unsuccessful') = Cardinality(Unsuccessful) + 1
      BY <3>1, <3>2, FS_AddElement
    <3> QED
      BY <1>1, <2>2, <3>3 DEF ClientInv, FailuresCounted
  <2> QED
    BY <1>7, <2>1, <2>2
<1> QED
  BY <1>8, <1>9, <1>10, <1>11 DEF ClientInv

\* Every step keeps the invariant.
LEMMA ClientKept == ClientInv /\ [Next]_vars => ClientInv'
<1> SUFFICES ASSUME ClientInv, [Next]_vars PROVE ClientInv'
  OBVIOUS
<1>1. ASSUME NEW s \in Servers,
             \/ Answered(s) \/ Refused(s) \/ Failed(s)
             \/ DialFails(s) \/ TriesAgain(s) \/ GivesUp(s)
             \/ BackoffEnds(s) \/ BackoffCancelled(s)
      PROVE  ClientInv'
  <2>1. ASSUME NEW a \in {"ok", "refused", "error"},
               NEW from \in {"post", "dialed", "backoff"}, Returns(s, from, a)
        PROVE  ClientInv'
    BY <2>1, PostStep DEF Returns, Posting
  <2>2. ASSUME NEW from \in {"post", "dialed", "backoff"},
               NEW to \in {"post", "dialed", "backoff"}, Turns(s, from, to)
        PROVE  ClientInv'
    BY <2>2, PostStep DEF Turns, Posting
  <2>3. CASE Answered(s) \/ Refused(s) \/ Failed(s) \/ GivesUp(s) \/ BackoffCancelled(s)
    BY <2>1, <2>3 DEF Answered, Refused, Failed, GivesUp, BackoffCancelled
  <2>4. CASE DialFails(s) \/ TriesAgain(s) \/ BackoffEnds(s)
    BY <2>2, <2>4 DEF DialFails, TriesAgain, BackoffEnds
  <2> QED
    BY <1>1, <2>3, <2>4
<1>2. ASSUME NEW s \in Servers, Report(s) \/ Drop(s) PROVE ClientInv'
  BY <1>2, ReportStep
<1>3. ASSUME Collect PROVE ClientInv'
  BY <1>3, CollectStep
<1>4. ASSUME UNCHANGED <<config, pc, answer, resCh, successes, failures>>,
             expired' = expired \/ expired'
      PROVE  /\ OneResult' /\ SuccessIsAnswer' /\ FailuresCounted'
             /\ main' \in {"start", "collect", "returned", "exited"} => CountersOK'
  BY <1>4 DEF ClientInv, CountersOK, OneResult, SuccessIsAnswer, FailuresCounted,
              Unsuccessful, InChannel, config
<1>5. ASSUME Close PROVE ClientInv'
  <2>1. ReturnsLast'
    BY <1>5 DEF Close, Running, ClientInv, ReturnsLast, Returned, config, Quorum
  <2> QED
    BY <1>4, <1>5, <2>1 DEF Close, ClientInv, CountersOK
<1>6. ASSUME Return PROVE ClientInv'
  <2>1. result'.met = QuorumMet
    BY <1>6 DEF Return
  <2>2. ReturnsLast'
    BY <1>6, <2>1 DEF Return, Running, ClientInv, ReturnsLast, Returned, config, Quorum, QuorumMet
  <2> QED
    BY <1>4, <1>6, <2>2 DEF Return, ClientInv, CountersOK
<1>7. ASSUME Reject \/ Dispatch \/ Exit PROVE ClientInv'
  <2>1. N \in Int /\ Quorum \in Int
    BY ClientBounds DEF Quorum, ClientInv, CountersOK
  <2>2. ReturnsLast'
    BY <1>7, <2>1 DEF Reject, Dispatch, Exit, ClientInv, ReturnsLast, Returned, config, Quorum
  <2> QED
    BY <1>4, <1>7, <2>2 DEF Reject, Dispatch, Exit, ClientInv, CountersOK
<1>8. ASSUME \/ Expire \/ Terminated \/ UNCHANGED vars
             \/ \E s \in Servers : WindowCloses(s)
      PROVE  ClientInv'
  <2>1. /\ UNCHANGED <<config, pc, answer, resCh, successes, failures, closed, main, result>>
        /\ expired' = expired \/ expired'
    BY <1>8 DEF Expire, Terminated, WindowCloses, vars
  <2>2. ReturnsLast'
    BY <2>1 DEF ClientInv, ReturnsLast, Returned, config, Quorum
  <2> QED
    BY <1>4, <2>1, <2>2 DEF ClientInv, CountersOK
<1> QED
  BY <1>1, <1>2, <1>3, <1>5, <1>6, <1>7, <1>8 DEF Next

\* The invariant holds in every reachable state.
LEMMA ClientInvariance == Spec => []ClientInv
<1> QED
  BY ClientInit, ClientKept, PTL DEF Spec

-----------------------------------------------------------------------------
\* A reached quorum is one of servers that processed their chunk, whatever the
\* number of servers and the quorum asked for.
THEOREM QuorumOfAnswers == Spec => []QuorumIsReal
<1>1. ClientInv => QuorumIsReal
  <2> SUFFICES ASSUME ClientInv, result.met
               PROVE  Cardinality({s \in Servers : answer[s] = "ok"}) >= Quorum
    BY DEF QuorumIsReal
  <2> DEFINE Answering == {s \in Servers : answer[s] = "ok"}
  <2>1. successes \subseteq Answering /\ IsFiniteSet(Answering)
    BY ServersFinite DEF ClientInv, CountersOK, SuccessIsAnswer
  <2>2. Cardinality(successes) <= Cardinality(Answering)
    BY <2>1, FS_Subset
  <2>3. Cardinality(successes) \in Nat /\ Cardinality(Answering) \in Nat /\ Quorum \in Int
    BY <2>1, ServersFinite, ClientBounds DEF ClientInv, CountersOK, Quorum
  <2> QED
    BY <2>2, <2>3 DEF ClientInv, ReturnsLast
<1> QED
  BY <1>1, ClientInvariance, PTL

-----------------------------------------------------------------------------
(* The result.                                                              *)

Increasing(q) == \A k, m \in DOMAIN q : k < m => q[k] < q[m]

\* Every number of u is smaller than every number of v.
AllBefore(u, v) == \A x \in ToSet(u), y \in ToSet(v) : x < y

\* Ascending sequences, one behind the other.
LEMMA JoinOrdered ==
    ASSUME NEW u \in Seq(Nat), NEW v \in Seq(Nat),
           Increasing(u), Increasing(v), AllBefore(u, v)
    PROVE  u \o v \in Seq(Nat) /\ Increasing(u \o v) /\ ToSet(u \o v) = ToSet(u) \cup ToSet(v)
<1>1. PICK a \in Nat, b \in Nat :
          /\ a = Len(u) /\ b = Len(v) /\ DOMAIN u = 1..a /\ DOMAIN v = 1..b
          /\ (\A k \in 1..a : u[k] \in Nat) /\ (\A k \in 1..b : v[k] \in Nat)
  OBVIOUS
<1>2. PICK w \in Seq(Nat) :
          /\ w = u \o v /\ DOMAIN w = 1..(a + b)
          /\ \A k \in 1..(a + b) : w[k] = IF k <= a THEN u[k] ELSE v[k - a]
  <2>1. u \o v \in Seq(Nat)
    OBVIOUS
  <2>2. Len(u \o v) = a + b
    BY <1>1
  <2>3. DOMAIN (u \o v) = 1..(a + b)
    BY <1>1, <2>1, <2>2
  <2>4. ASSUME NEW k \in 1..(a + b)
        PROVE  (u \o v)[k] = IF k <= a THEN u[k] ELSE v[k - a]
    BY <1>1
  <2> QED
    BY <2>1, <2>3, <2>4
<1>3. \A k \in 1..(a + b) : IF k <= a THEN k \in 1..a ELSE k - a \in 1..b
  BY <1>1
<1>4. ASSUME NEW k \in 1..(a + b), NEW m \in 1..(a + b), k < m PROVE w[k] < w[m]
  <2>1. CASE m <= a
    <3>1. k \in 1..a /\ m \in 1..a /\ w[k] = u[k] /\ w[m] = u[m]
      BY <1>1, <1>2, <1>4, <2>1
    <3> QED
      BY <1>1, <1>4, <3>1 DEF Increasing
  <2>2. CASE ~(k <= a)
    <3>1. k - a \in 1..b /\ m - a \in 1..b /\ k - a < m - a /\ w[k] = v[k - a] /\ w[m] = v[m - a]
      BY <1>1, <1>2, <1>4, <2>2
    <3> QED
      BY <1>1, <3>1 DEF Increasing
  <2>3. CASE k <= a /\ ~(m <= a)
    <3>1. k \in 1..a /\ m - a \in 1..b /\ w[k] = u[k] /\ w[m] = v[m - a]
      BY <1>1, <1>2, <1>4, <2>3
    <3>2. u[k] \in ToSet(u) /\ v[m - a] \in ToSet(v)
      BY <1>1, <3>1 DEF ToSet
    <3> QED
      BY <3>1, <3>2 DEF AllBefore
  <2> QED
    BY <1>1, <1>4, <2>1, <2>2, <2>3
<1>5. ToSet(w) = ToSet(u) \cup ToSet(v)
  <2>1. ASSUME NEW x \in ToSet(w) PROVE x \in ToSet(u) \cup ToSet(v)
    <3>1. PICK k \in 1..(a + b) : x = w[k]
      BY <1>2 DEF ToSet
    <3> QED
      BY <1>1, <1>2, <1>3, <3>1 DEF ToSet
  <2>2. ASSUME NEW x \in ToSet(u) PROVE x \in ToSet(w)
    <3>1. PICK k \in 1..a : x = u[k]
      BY <1>1 DEF ToSet
    <3>2. k \in 1..(a + b) /\ w[k] = x
      BY <1>1, <1>2, <3>1
    <3> QED
      BY <1>2, <3>2 DEF ToSet
  <2>3. ASSUME NEW x \in ToSet(v) PROVE x \in ToSet(w)
    <3>1. PICK k \in 1..b : x = v[k]
      BY <1>1 DEF ToSet
    <3>2. k + a \in 1..(a + b) /\ ~(k + a <= a) /\ (k + a) - a = k
      BY <1>1
    <3>3. w[k + a] = x
      BY <1>2, <3>1, <3>2
    <3> QED
      BY <1>2, <3>2, <3>3 DEF ToSet
  <2> QED
    BY <2>1, <2>2, <2>3
<1> QED
  BY <1>2, <1>4, <1>5 DEF Increasing

\* The numbers of the lines that the answering servers found.
Seen == UNION {found[s] : s \in successes}

\* The lines that are found: finitely many for each chunk, in the order of the
\* chunks.
FoundOK ==
    /\ found \in [Servers -> SUBSET Nat] /\ InOrder(found)
    /\ \A s \in Servers : IsFiniteSet(found[s])

\* The request, and the servers that have answered it.
Asked == mode \in Modes /\ FoundOK /\ successes \subseteq Servers

\* What the assumption says about the input.
LEMMA InputFacts ==
    ASSUME Asked
    PROVE  /\ \A s \in Servers : found[s] \in SUBSET Nat /\ IsFiniteSet(found[s])
           /\ \A s, t \in Servers : s < t => \A k \in found[s], l \in found[t] : k < l
           /\ \A s, t \in Servers : s # t => found[s] \cap found[t] = {}
           /\ IsFiniteSet(successes) /\ successes \in SUBSET Int
<1>1. /\ \A s \in Servers : found[s] \in SUBSET Nat /\ IsFiniteSet(found[s])
      /\ \A s, t \in Servers : s < t => \A k \in found[s], l \in found[t] : k < l
  BY DEF Asked, FoundOK, InOrder
<1>2. N \in Int /\ 1 \in Int
  BY ClientBounds
<1>3. IsFiniteSet(Servers) /\ Servers \subseteq Int
  BY <1>2, FS_Interval DEF Servers
<1>4. ASSUME NEW s \in Servers, NEW t \in Servers, s # t PROVE found[s] \cap found[t] = {}
  <2>1. s < t \/ t < s
    BY <1>3, <1>4
  <2>2. \A k \in found[s] \cap found[t] : k < k /\ k \in Int
    BY <1>1, <2>1
  <2> QED
    BY <2>2
<1> QED
  BY <1>1, <1>3, <1>4, FS_Subset DEF Asked

\* What a server answers.
LEMMA ReplyIs ==
    ASSUME Asked, NEW s \in Servers
    PROVE  /\ Reply(s).matches = IF mode = "lines" THEN Ascending(found[s]) ELSE <<>>
           /\ Reply(s).count = IF mode = "count" THEN Cardinality(found[s]) ELSE 0
           /\ Reply(s).hasMatch = (found[s] # {})
<1>1. {0 + i : i \in found[s]} = found[s]
  <2>1. \A i \in found[s] : 0 + i = i
    BY InputFacts
  <2> QED
    BY <2>1
<1> QED
  BY <1>1 DEF Reply, ResponseTo

\* The matches of a reply are the found lines in order.
LEMMA ReplyMatches ==
    ASSUME Asked, NEW s \in Servers
    PROVE  /\ Reply(s).matches \in Seq(Nat) /\ Increasing(Reply(s).matches)
           /\ ToSet(Reply(s).matches) = IF mode = "lines" THEN found[s] ELSE {}
<1>1. found[s] \in SUBSET Int /\ found[s] \in SUBSET Nat /\ IsFiniteSet(found[s])
  BY InputFacts
<1>2. PICK q : q = Ascending(found[s]) /\ Ascends(q, found[s])
  BY <1>1, AscendingAscends
<1>3. q \in Seq(found[s]) /\ DOMAIN q = 1..Len(q)
  BY <1>2 DEF Ascends
<1>4. q \in Seq(Nat) /\ Increasing(q) /\ ToSet(q) = found[s]
  <2>1. q \in Seq(Nat)
    <3>1. Len(q) \in Nat /\ \A k \in 1..Len(q) : q[k] \in Nat
      BY <1>1, <1>3
    <3> QED
      BY <1>3, <3>1
  <2>2. Increasing(q)
    BY <1>2, <1>3 DEF Ascends, Increasing
  <2>3. ToSet(q) = found[s]
    BY <1>2, <1>3 DEF Ascends, ToSet
  <2> QED
    BY <2>1, <2>2, <2>3
<1>5. CASE mode = "lines"
  BY <1>2, <1>4, <1>5, ReplyIs
<1>6. CASE mode # "lines"
  <2>1. Reply(s).matches = <<>>
    BY <1>6, ReplyIs
  <2>2. <<>> \in Seq(Nat) /\ Increasing(<<>>) /\ ToSet(<<>>) = {}
    BY DEF Increasing, ToSet
  <2> QED
    BY <1>6, <2>1, <2>2
<1> QED
  BY <1>5, <1>6

\* The lines of the result: all that were found, in ascending order.
LEMMA AssembleIs ==
    ASSUME Asked
    PROVE  /\ Assemble \in Seq(Nat) /\ Increasing(Assemble)
           /\ ToSet(Assemble) = IF mode = "lines" THEN Seen ELSE {}
<1>1. PICK order : /\ order = Ascending(successes) /\ Ascends(order, successes)
  BY InputFacts, AscendingAscends
<1>2. PICK d \in Nat : /\ d = Len(order) /\ DOMAIN order = 1..d
                       /\ \A k \in 1..d : order[k] \in successes /\ order[k] \in Servers
                       /\ \A k, m \in 1..d : k < m => order[k] < order[m]
                       /\ \A s \in successes : \E k \in 1..d : order[k] = s
  <2>1. order \in Seq(successes)
    BY <1>1 DEF Ascends
  <2>2. Len(order) \in Nat /\ DOMAIN order = 1..Len(order)
        /\ \A k \in 1..Len(order) : order[k] \in successes
    BY <2>1
  <2> QED
    BY <1>1, <2>2 DEF Ascends, Asked
<1> DEFINE Step(t, e) == IF t = {} THEN <<>> ELSE e[t \ {Max(t)}] \o Reply(order[Max(t)]).matches
<1>3. PICK r : \A k \in 1..d : /\ r[k] = Reply(order[k]).matches /\ r[k] \in Seq(Nat)
                               /\ Increasing(r[k])
                               /\ ToSet(r[k]) = IF mode = "lines" THEN found[order[k]] ELSE {}
  <2>1. PICK R : R = [k \in 1..d |-> Reply(order[k]).matches]
    OBVIOUS
  <2>2. ASSUME NEW k \in 1..d
        PROVE  /\ R[k] = Reply(order[k]).matches /\ R[k] \in Seq(Nat)
               /\ Increasing(R[k])
               /\ ToSet(R[k]) = IF mode = "lines" THEN found[order[k]] ELSE {}
    <3>1. PICK s \in Servers : s = order[k]
      BY <1>2
    <3> QED
      BY <2>1, <3>1, ReplyMatches
  <2> QED
    BY <2>2
<1>4. PICK G : \A k \in 1..d, v \in Seq(Nat) : G[<<k, v>>] = v \o r[k]
  <2> DEFINE H == [x \in (1..d) \X Seq(Nat) |-> x[2] \o r[x[1]]]
  <2>1. ASSUME NEW k \in 1..d, NEW v \in Seq(Nat) PROVE H[<<k, v>>] = v \o r[k]
    <3>1. <<k, v>> \in (1..d) \X Seq(Nat) /\ <<k, v>>[1] = k /\ <<k, v>>[2] = v
      OBVIOUS
    <3> QED
      BY <3>1
  <2> HIDE DEF H
  <2> QED
    BY <2>1
<1>5. PICK f, c : Unfolds(f, c, d, Seq(Nat), <<>>, G)
  <2>1. ASSUME NEW k \in 1..d, NEW v \in Seq(Nat) PROVE G[<<k, v>>] \in Seq(Nat)
    <3>1. PICK w \in Seq(Nat) : w = r[k]
      BY <1>3
    <3>2. v \o w \in Seq(Nat)
      OBVIOUS
    <3> QED
      BY <1>4, <3>1, <3>2
  <2>2. StepOn(G, 1..d, Seq(Nat))
    BY <2>1 DEF StepOn
  <2>3. <<>> \in Seq(Nat)
    OBVIOUS
  <2> QED
    BY <2>2, <2>3, IndexRecursion
<1>6. PICK g : /\ Assemble = g[1..d]
               /\ g = CHOOSE e : e = [t \in SUBSET (1..d) |-> Step(t, e)]
  <2>1. Assemble = FoldLeft(LAMBDA m, s : m \o Reply(s).matches, <<>>, order)
    BY <1>1 DEF Assemble
  <2>2. PICK g :
            /\ FoldLeft(LAMBDA m, s : m \o Reply(s).matches, <<>>, order) = g[DOMAIN order]
            /\ g = CHOOSE h : h = [t \in SUBSET (DOMAIN order) |->
                     IF t = {} THEN <<>>
                     ELSE h[t \ {Max(t)}] \o Reply(order[Max(t)]).matches]
    BY DEF FoldLeft, MapThenFoldSet
  <2>3. g = CHOOSE h : h = [t \in SUBSET (1..d) |->
                     IF t = {} THEN <<>>
                     ELSE h[t \ {Max(t)}] \o Reply(order[Max(t)]).matches]
    BY <1>2, <2>2
  <2>4. g = CHOOSE e : e = [t \in SUBSET (1..d) |-> Step(t, e)]
    BY <2>3
  <2> QED
    BY <1>2, <2>1, <2>2, <2>4
<1>7. f = [t \in SUBSET (1..d) |-> Step(t, f)]
  <2>1. ASSUME NEW t \in SUBSET (1..d) PROVE f[t] = Step(t, f)
    <3>1. t # {} => Max(t) \in 1..d /\ f[t \ {Max(t)}] \in Seq(Nat)
      BY <1>5, LastElement DEF Unfolds
    <3> QED
      BY <1>3, <1>4, <1>5, <3>1 DEF Unfolds
  <2> HIDE DEF Step
  <2> QED
    BY <1>5, <2>1 DEF Unfolds
<1>8. g = [t \in SUBSET (1..d) |-> Step(t, g)]
  <2> HIDE DEF Step
  <2> QED
    BY <1>6, <1>7
<1>9. Assemble = c[d]
  <2>1. MapsSubsets(g, 1..d) /\ g[{}] = <<>>
    BY <1>8 DEF MapsSubsets
  <2>2. AgreeAtLast(f, g, d)
    <3> SUFFICES ASSUME NEW t \in SUBSET (1..d), t # {},
                        f[t \ {Max(t)}] = g[t \ {Max(t)}]
                 PROVE  f[t] = g[t]
      BY DEF AgreeAtLast
    <3>1. /\ f[t] = f[t \ {Max(t)}] \o Reply(order[Max(t)]).matches
          /\ g[t] = g[t \ {Max(t)}] \o Reply(order[Max(t)]).matches
      BY <1>7, <1>8
    <3> QED
      BY <3>1
  <2> QED
    BY <1>5, <1>6, <2>1, <2>2, FoldSolved
<1>10. /\ c[0] = <<>>
       /\ \A k \in 1..d : c[k - 1] \in Seq(Nat) /\ c[k] = c[k - 1] \o r[k]
  <2>1. c[0] = <<>> /\ \A k \in 0..d : c[k] \in Seq(Nat)
    BY <1>5 DEF Unfolds
  <2>2. \A k \in 1..d : k - 1 \in 0..d /\ c[k] = G[<<k, c[k - 1]>>]
    BY <1>5 DEF Unfolds
  <2> QED
    BY <1>4, <2>1, <2>2
<1> HIDE DEF Step
<1> DEFINE UpTo(k) == IF mode = "lines" THEN UNION {found[order[j]] : j \in 1..k} ELSE {}
           T == {k \in Nat : k <= d => /\ c[k] \in Seq(Nat) /\ Increasing(c[k])
                                       /\ ToSet(c[k]) = UpTo(k)}
<1>11. 0 \in T
  <2>1. <<>> \in Seq(Nat) /\ Increasing(<<>>) /\ ToSet(<<>>) = {}
    BY DEF Increasing, ToSet
  <2>2. UpTo(0) = {}
    OBVIOUS
  <2> QED
    BY <1>10, <2>1, <2>2
<1>12. ASSUME NEW k \in Nat, k \in T PROVE k + 1 \in T
  <2> SUFFICES ASSUME k + 1 <= d
               PROVE  /\ c[k + 1] \in Seq(Nat) /\ Increasing(c[k + 1])
                      /\ ToSet(c[k + 1]) = UpTo(k + 1)
    OBVIOUS
  <2>1. k + 1 \in 1..d /\ (k + 1) - 1 = k /\ k <= d
    BY <1>2
  <2>2. PICK u \in Seq(Nat), v \in Seq(Nat) :
            /\ u = c[k] /\ v = r[k + 1] /\ c[k + 1] = u \o v
            /\ Increasing(u) /\ Increasing(v)
            /\ ToSet(u) = UpTo(k)
            /\ ToSet(v) = IF mode = "lines" THEN found[order[k + 1]] ELSE {}
    <3>1. c[k] \in Seq(Nat) /\ Increasing(c[k]) /\ ToSet(c[k]) = UpTo(k)
      BY <1>12, <2>1
    <3>2. c[k + 1] = c[k] \o r[k + 1]
      BY <1>10, <2>1
    <3> HIDE DEF UpTo
    <3> QED
      BY <1>3, <2>1, <3>1, <3>2
  <2>3. AllBefore(u, v)
    <3> SUFFICES ASSUME NEW x \in ToSet(u), NEW y \in ToSet(v) PROVE x < y
      BY DEF AllBefore
    <3>1. mode = "lines" /\ y \in found[order[k + 1]]
      BY <2>2
    <3>2. PICK j \in 1..k : x \in found[order[j]]
      BY <2>2, <3>1
    <3>3. j \in 1..d /\ j < k + 1
      BY <2>1
    <3>4. PICK s \in Servers, t \in Servers : s = order[j] /\ t = order[k + 1] /\ s < t
      BY <1>2, <2>1, <3>3
    <3> QED
      BY <3>1, <3>2, <3>4, InputFacts
  <2>4. UpTo(k + 1) = UpTo(k) \cup (IF mode = "lines" THEN found[order[k + 1]] ELSE {})
    <3>1. 1..(k + 1) = (1..k) \cup {k + 1}
      OBVIOUS
    <3> QED
      BY <3>1
  <2> HIDE DEF UpTo
  <2>5. PICK w : w = u \o v /\ c[k + 1] = w
    BY <2>2
  <2>6. w \in Seq(Nat) /\ Increasing(w) /\ ToSet(w) = ToSet(u) \cup ToSet(v)
    BY <2>2, <2>3, <2>5, JoinOrdered
  <2>7. ToSet(w) = UpTo(k + 1)
    BY <2>2, <2>4, <2>6
  <2> QED
    BY <2>5, <2>6, <2>7
<1> HIDE DEF T
<1>13. d \in T
  BY <1>11, <1>12, NatSetInduction
<1>14. UpTo(d) = IF mode = "lines" THEN Seen ELSE {}
  <2>1. UNION {found[order[j]] : j \in 1..d} = Seen
    BY <1>2 DEF Seen
  <2> QED
    BY <2>1
<1> HIDE DEF UpTo
<1>15. c[d] \in Seq(Nat) /\ Increasing(c[d]) /\ ToSet(c[d]) = UpTo(d)
  BY <1>13 DEF T
<1> QED
  BY <1>9, <1>14, <1>15

\* The lines that the servers of t found.
LinesFrom(t) == UNION {found[s] : s \in t}

\* A server more adds as many lines as it found.
LEMMA LinesGrow ==
    ASSUME Asked, NEW t \in SUBSET successes, NEW x \in t, IsFiniteSet(LinesFrom(t \ {x}))
    PROVE  /\ IsFiniteSet(LinesFrom(t))
           /\ Cardinality(LinesFrom(t)) = Cardinality(found[x]) + Cardinality(LinesFrom(t \ {x}))
<1>1. x \in Servers /\ \A s \in t : s \in Servers
  BY DEF Asked
<1>2. IsFiniteSet(found[x])
  BY <1>1, InputFacts
<1>3. LinesFrom(t) = found[x] \cup LinesFrom(t \ {x})
  BY DEF LinesFrom
<1>4. found[x] \cap LinesFrom(t \ {x}) = {}
  <2> SUFFICES ASSUME NEW k \in found[x], k \in LinesFrom(t \ {x}) PROVE FALSE
    OBVIOUS
  <2>1. PICK s \in t \ {x} : k \in found[s]
    BY DEF LinesFrom
  <2>2. found[x] \cap found[s] = {}
    BY <1>1, <2>1, InputFacts
  <2> QED
    BY <2>1, <2>2
<1>5. /\ IsFiniteSet(found[x] \cup LinesFrom(t \ {x}))
      /\ Cardinality(found[x] \cup LinesFrom(t \ {x})) =
             Cardinality(found[x]) + Cardinality(LinesFrom(t \ {x}))
                 - Cardinality(found[x] \cap LinesFrom(t \ {x}))
  BY <1>2, FS_Union
<1>6. /\ Cardinality(found[x] \cap LinesFrom(t \ {x})) = 0
      /\ Cardinality(found[x]) \in Nat /\ Cardinality(LinesFrom(t \ {x})) \in Nat
  BY <1>2, <1>4, FS_EmptySet, FS_CardinalityType
<1> QED
  BY <1>3, <1>5, <1>6

\* Under -c the counts of the servers add up to the number of the lines.
LEMMA CountIs ==
    ASSUME Asked
    PROVE  /\ MapThenSumSet(LAMBDA s : Reply(s).count, successes) =
                  IF mode = "count" THEN Cardinality(Seen) ELSE 0
           /\ IsFiniteSet(Seen)
<1>1. PICK D : D = successes /\ IsFiniteSet(D)
  BY InputFacts
<1>2. PICK h : \A s \in D : /\ h[s] = Reply(s).count /\ h[s] \in Int
                            /\ h[s] = IF mode = "count" THEN Cardinality(found[s]) ELSE 0
  <2> DEFINE H == [s \in D |-> Reply(s).count]
  <2>1. ASSUME NEW s \in D
        PROVE  /\ H[s] = Reply(s).count /\ H[s] \in Int
               /\ H[s] = IF mode = "count" THEN Cardinality(found[s]) ELSE 0
    <3>1. s \in Servers
      BY <1>1 DEF Asked
    <3>2. Cardinality(found[s]) \in Nat
      BY <3>1, InputFacts, FS_CardinalityType
    <3> QED
      BY <3>1, <3>2, ReplyIs
  <2> HIDE DEF H
  <2> QED
    BY <2>1
<1>3. PICK f : Additive(f, D, h)
  BY <1>1, <1>2, SumExists DEF Summable
<1>4. PICK c : c = [t \in SUBSET D |-> CHOOSE x \in t : TRUE]
  OBVIOUS
<1>5. Chooses(c, D)
  BY <1>4 DEF Chooses
<1>6. PICK g : /\ MapThenSumSet(LAMBDA s : Reply(s).count, D) = g[D]
               /\ g = CHOOSE e : e = [t \in SUBSET D |->
                          IF t = {} THEN 0
                          ELSE Reply(CHOOSE x \in t : TRUE).count + e[t \ {CHOOSE x \in t : TRUE}]]
  BY DEF MapThenSumSet, MapThenFoldSet
<1> DEFINE Step(t, e) == IF t = {} THEN 0
                         ELSE Reply(CHOOSE x \in t : TRUE).count + e[t \ {CHOOSE x \in t : TRUE}]
<1>7. f = [t \in SUBSET D |-> Step(t, f)]
  <2>1. ASSUME NEW t \in SUBSET D PROVE f[t] = Step(t, f)
    <3>1. t # {} => (CHOOSE x \in t : TRUE) \in t /\ (CHOOSE x \in t : TRUE) \in D
      OBVIOUS
    <3>2. t # {} => h[CHOOSE x \in t : TRUE] = Reply(CHOOSE x \in t : TRUE).count
      BY <1>2, <3>1
    <3> QED
      BY <1>3, <3>1, <3>2 DEF Additive
  <2> HIDE DEF Step
  <2> QED
    BY <1>3, <2>1 DEF Additive
<1>8. g = [t \in SUBSET D |-> Step(t, g)]
  <2>1. g = CHOOSE e : e = [t \in SUBSET D |-> Step(t, e)]
    BY <1>6
  <2> HIDE DEF Step
  <2> QED
    BY <1>7, <2>1
<1>9. MapsSubsets(g, D) /\ g[{}] = 0 /\ AddsChosen(g, D, h, c)
  <2>1. g[{}] = 0 /\ \A t \in SUBSET D : g[t] = Step(t, g)
    BY <1>8
  <2>2. ASSUME NEW t \in SUBSET D, t # {}
        PROVE  g[t] = h[c[t]] + g[t \ {c[t]}]
    <3>1. PICK x \in D : x = c[t] /\ x = CHOOSE y \in t : TRUE
      BY <1>4, <2>2
    <3>2. h[x] = Reply(x).count
      BY <1>2
    <3>3. g[t] = Reply(CHOOSE y \in t : TRUE).count + g[t \ {CHOOSE y \in t : TRUE}]
      BY <2>1, <2>2
    <3> QED
      BY <3>1, <3>2, <3>3
  <2>3. MapsSubsets(g, D)
    BY <1>8 DEF MapsSubsets
  <2> QED
    BY <2>1, <2>2, <2>3 DEF AddsChosen
<1> HIDE DEF Step
<1>10. g = f
  BY <1>1, <1>3, <1>5, <1>9, SumIsAdditive
<1> DEFINE T == {t \in SUBSET D : /\ IsFiniteSet(LinesFrom(t))
                                  /\ f[t] = IF mode = "count" THEN Cardinality(LinesFrom(t)) ELSE 0}
<1>11. {} \in T
  <2>1. LinesFrom({}) = {} /\ IsFiniteSet({}) /\ Cardinality({}) = 0
    BY FS_EmptySet DEF LinesFrom
  <2>2. f[{}] = 0
    BY <1>3 DEF Additive
  <2> QED
    BY <2>1, <2>2
<1>12. Grows(T, D, c)
  <2> SUFFICES ASSUME NEW t \in SUBSET D, t # {}, t \ {c[t]} \in T PROVE t \in T
    BY DEF Grows
  <2>1. PICK x \in t : x = c[t]
    BY <1>5 DEF Chooses
  <2>2. IsFiniteSet(LinesFrom(t \ {x}))
    BY <2>1
  <2>3. /\ IsFiniteSet(LinesFrom(t))
        /\ Cardinality(LinesFrom(t)) = Cardinality(found[x]) + Cardinality(LinesFrom(t \ {x}))
    BY <1>1, <2>2, LinesGrow
  <2>4. f[t] = h[x] + f[t \ {x}]
    BY <1>3 DEF Additive
  <2>5. f[t \ {x}] = IF mode = "count" THEN Cardinality(LinesFrom(t \ {x})) ELSE 0
    BY <2>1
  <2>6. h[x] = IF mode = "count" THEN Cardinality(found[x]) ELSE 0
    BY <1>2
  <2> QED
    BY <2>3, <2>4, <2>5, <2>6
<1>13. D \in T
  <2> HIDE DEF T
  <2> QED
    BY <1>1, <1>5, <1>11, <1>12, SubsetInduction
<1>14. LinesFrom(D) = Seen
  BY <1>1 DEF LinesFrom, Seen
<1> QED
  BY <1>1, <1>6, <1>10, <1>13, <1>14

-----------------------------------------------------------------------------
(* The request, the result and the exit code.                               *)

RequestOK ==
    /\ quorumArg \in Quorums /\ retry \in Retries /\ mode \in Modes /\ FoundOK
    /\ windowOpen \in [Servers -> BOOLEAN] /\ expired \in BOOLEAN /\ closed \in BOOLEAN

Ended == {s \in Servers : pc[s] = "done"}

\* Every goroutine that ended is in at most one place of one counter.
Bounded == failures + Len(resCh) + Cardinality(successes) <= Cardinality(Ended)

\* The result that Run returns.
ResultOK ==
    /\ result \in [matches : Seq(Nat), count : Nat, hasMatch : BOOLEAN, met : BOOLEAN]
    /\ Increasing(result.matches)
    /\ ToSet(result.matches) = IF mode = "lines" THEN Seen ELSE {}
    /\ mode = "count" => result.count = Cardinality(Seen)
    /\ result.hasMatch <=> Seen # {}
    /\ result.met <=> Cardinality(successes) >= Quorum

CodeOf(r) ==
    IF ~r.met THEN 2
    ELSE IF (IF mode = "count" THEN r.count > 0 ELSE r.hasMatch) THEN 0 ELSE 1

\* The result is set once, and the exit code from it.
MainOK ==
    /\ main = "start" => successes = {}
    /\ main \in {"start", "collect"} => result = NoResult
    /\ main \in {"collect", "returned"} => Quorum <= N
    /\ main # "exited" => exitCode = -1
    /\ Returned => ResultOK
    /\ main = "exited" =>
           IF Quorum <= N THEN exitCode = CodeOf(result)
           ELSE exitCode = 2 /\ successes = {} /\ result = NoResult

ResultInv == RequestOK /\ Bounded /\ MainOK

-----------------------------------------------------------------------------
\* What Return assembles is right.
LEMMA ReturnStep ==
    ASSUME ClientInv, RequestOK, Return
    PROVE  ResultOK'
<1>1. Asked
  BY DEF ClientInv, CountersOK, RequestOK, Asked
<1>2. UNCHANGED <<config, successes>>
  BY DEF Return
<1>3. PICK m, k, h, q : /\ m = Assemble
                        /\ k = MapThenSumSet(LAMBDA s : Reply(s).count, successes)
                        /\ h = (\E s \in successes : Reply(s).hasMatch)
                        /\ q = QuorumMet
  OBVIOUS
<1>4. result' = [matches |-> m, count |-> k, hasMatch |-> h, met |-> q]
  BY <1>3 DEF Return
<1>5. /\ m \in Seq(Nat) /\ Increasing(m)
      /\ ToSet(m) = IF mode = "lines" THEN Seen ELSE {}
  BY <1>1, <1>3, AssembleIs
<1>6. /\ k \in Nat /\ k = IF mode = "count" THEN Cardinality(Seen) ELSE 0
  BY <1>1, <1>3, CountIs, FS_CardinalityType
<1>7. h \in BOOLEAN /\ (h <=> Seen # {})
  <2>1. \A s \in successes : Reply(s).hasMatch = (found[s] # {})
    BY <1>1, ReplyIs DEF Asked
  <2> QED
    BY <1>3, <2>1 DEF Seen
<1>8. q \in BOOLEAN /\ (q <=> Cardinality(successes) >= Quorum)
  <2>1. QuorumMet \in BOOLEAN /\ (QuorumMet <=> Cardinality(successes) >= Quorum)
    BY DEF QuorumMet
  <2> QED
    BY <1>3, <2>1
<1>9. /\ result' \in [matches : Seq(Nat), count : Nat, hasMatch : BOOLEAN, met : BOOLEAN]
      /\ result'.matches = m /\ result'.count = k /\ result'.hasMatch = h /\ result'.met = q
  BY <1>4, <1>5, <1>6, <1>7, <1>8
<1>10. Seen' = Seen /\ mode' = mode /\ successes' = successes /\ Quorum' = Quorum
  BY <1>2 DEF config, Seen, Quorum
<1> QED
  BY <1>5, <1>6, <1>7, <1>8, <1>9, <1>10 DEF ResultOK

\* The invariant holds at the start.
LEMMA ResultInit == Init => ResultInv
<1> SUFFICES ASSUME Init PROVE ResultInv
  OBVIOUS
<1>1. RequestOK
  BY ClientBounds DEF Init, RequestOK, FoundOK
<1>2. Bounded
  <2>1. Ended = {} /\ successes = {} /\ failures = 0 /\ resCh = <<>>
    BY DEF Init, Ended
  <2>2. Cardinality({}) = 0 /\ Len(<<>>) = 0
    BY FS_EmptySet
  <2> QED
    BY <2>1, <2>2 DEF Bounded
<1>3. MainOK
  BY DEF Init, MainOK, Returned
<1> QED
  BY <1>1, <1>2, <1>3 DEF ResultInv

\* While Run waits, only a goroutine that ends or a result that is received
\* touches the counters.
LEMMA BoundedKept ==
    ASSUME ClientInv, Bounded, [Next]_vars
    PROVE  Bounded'
<1> USE DEF Bounded
<1>1. /\ pc \in [Servers -> {"post", "dialed", "backoff", "report", "done"}]
      /\ resCh \in Seq(Servers) /\ successes \subseteq Servers /\ failures \in Nat
  BY DEF ClientInv, CountersOK
<1>2. /\ Len(resCh) \in Nat /\ Cardinality(successes) \in Nat
      /\ IsFiniteSet(Ended) /\ Cardinality(Ended) \in Nat
  <2>1. Ended \in SUBSET Servers
    BY DEF Ended
  <2> QED
    BY <1>1, <2>1, ServersFinite
<1>3. ASSUME UNCHANGED <<resCh, successes, failures>>, Ended' = Ended PROVE Bounded'
  BY <1>3
<1>4. ASSUME NEW s \in Servers, pc[s] # "done", NEW p, p # "done",
             pc' = [pc EXCEPT ![s] = p], UNCHANGED <<resCh, successes, failures>>
      PROVE  Bounded'
  <2>1. Ended' = Ended
    BY <1>1, <1>4 DEF Ended
  <2> QED
    BY <1>3, <1>4, <2>1
<1>5. ASSUME NEW s \in Servers, Report(s) \/ Drop(s) PROVE Bounded'
  <2>1. /\ pc[s] = "report" /\ pc' = [pc EXCEPT ![s] = "done"]
        /\ UNCHANGED <<successes, failures>>
        /\ resCh' = Append(resCh, s) \/ resCh' = resCh
    BY <1>5 DEF Report, Drop
  <2>2. Ended' = Ended \cup {s} /\ s \notin Ended
    BY <1>1, <2>1 DEF Ended
  <2>3. Cardinality(Ended') = Cardinality(Ended) + 1
    BY <1>2, <2>2, FS_AddElement
  <2>4. Len(resCh') = Len(resCh) + 1 \/ Len(resCh') = Len(resCh)
    BY <1>1, <2>1
  <2> QED
    BY <1>1, <1>2, <2>1, <2>3, <2>4
<1>6. ASSUME Collect PROVE Bounded'
  <2>1. /\ resCh # <<>> /\ resCh' = Tail(resCh) /\ UNCHANGED pc
        /\ \/ successes' = successes \cup {Head(resCh)} /\ UNCHANGED failures
           \/ failures' = failures + 1 /\ UNCHANGED successes
    BY <1>6 DEF Collect
  <2>2. Len(resCh') = Len(resCh) - 1 /\ Head(resCh) = resCh[1] /\ 1 \in DOMAIN resCh
    BY <1>1, <2>1
  <2>3. resCh[1] \notin successes /\ IsFiniteSet(successes)
    BY <1>1, <2>2, ServersFinite DEF ClientInv, OneResult
  <2>4. Cardinality(successes \cup {Head(resCh)}) = Cardinality(successes) + 1
    BY <2>2, <2>3, FS_AddElement
  <2>5. Cardinality(Ended)' = Cardinality(Ended) /\ Len(resCh)' = Len(resCh) - 1
    BY <2>1, <2>2 DEF Ended
  <2>6. \/ /\ Cardinality(successes)' = Cardinality(successes) + 1
           /\ failures' = failures
        \/ /\ failures' = failures + 1
           /\ Cardinality(successes)' = Cardinality(successes)
    BY <2>1, <2>4
  <2> QED
    BY <1>1, <1>2, <2>5, <2>6
<1>7. ASSUME NEW s \in Servers,
             \/ Answered(s) \/ Refused(s) \/ Failed(s)
             \/ DialFails(s) \/ TriesAgain(s) \/ GivesUp(s)
             \/ BackoffEnds(s) \/ BackoffCancelled(s)
      PROVE  Bounded'
  <2>1. \E p \in {"post", "dialed", "backoff", "report"} :
            /\ pc[s] # "done" /\ pc' = [pc EXCEPT ![s] = p]
            /\ UNCHANGED <<resCh, successes, failures>>
    BY <1>7 DEF Answered, Refused, Failed, DialFails, TriesAgain, GivesUp, BackoffEnds,
                BackoffCancelled, Returns, Turns
  <2> QED
    BY <1>4, <2>1
<1>8. ASSUME \/ Reject \/ Dispatch \/ Return \/ Exit \/ Close \/ Expire
             \/ Terminated \/ UNCHANGED vars
             \/ \E s \in Servers : WindowCloses(s)
      PROVE  Bounded'
  <2>1. UNCHANGED <<resCh, successes, failures, pc>>
    BY <1>8 DEF Reject, Dispatch, Return, Exit, Close, Expire, Terminated, WindowCloses, vars
  <2> QED
    BY <1>3, <2>1 DEF Ended
<1> QED
  BY <1>5, <1>6, <1>7, <1>8 DEF Next

\* The request is fixed, and the deadlines are flags.
LEMMA RequestKept ==
    ASSUME RequestOK, [Next]_vars
    PROVE  RequestOK'
<1>1. CASE \E s \in Servers : WindowCloses(s)
  BY <1>1 DEF WindowCloses, RequestOK, FoundOK, config
<1>2. CASE Close \/ Expire
  BY <1>2 DEF Close, Expire, RequestOK, FoundOK, config
<1>3. CASE \/ Reject \/ Dispatch \/ Collect \/ Return \/ Exit \/ Terminated \/ UNCHANGED vars
  BY <1>3 DEF Reject, Dispatch, Collect, Return, Exit, Terminated, vars, RequestOK, FoundOK, config
<1>4. CASE \E s \in Servers :
               \/ Answered(s) \/ Refused(s) \/ Failed(s)
               \/ DialFails(s) \/ TriesAgain(s) \/ GivesUp(s)
               \/ BackoffEnds(s) \/ BackoffCancelled(s) \/ Report(s) \/ Drop(s)
  <2>1. UNCHANGED <<config, windowOpen, expired, closed>>
    BY <1>4 DEF Answered, Refused, Failed, DialFails, TriesAgain, GivesUp, BackoffEnds,
                BackoffCancelled, Returns, Turns, Report, Drop
  <2> QED
    BY <2>1 DEF RequestOK, FoundOK, config
<1> QED
  BY <1>1, <1>2, <1>3, <1>4 DEF Next

\* The result and the exit code are set by Return, Reject and Exit only.
LEMMA MainKept ==
    ASSUME ClientInv, RequestOK, MainOK, [Next]_vars
    PROVE  MainOK'
<1>1. N \in Int /\ Quorum \in Int
  BY ClientBounds DEF Quorum, ClientInv, CountersOK
<1>2. CASE Reject
  BY <1>1, <1>2 DEF Reject, MainOK, Returned, Quorum, config
<1>3. CASE Dispatch
  BY <1>1, <1>3 DEF Dispatch, MainOK, Returned, Quorum, config
<1>4. CASE Return
  <2>1. ResultOK'
    BY <1>4, ReturnStep DEF ClientInv
  <2>2. main = "collect" /\ main' = "returned" /\ UNCHANGED <<config, exitCode>>
    BY <1>4 DEF Return, Running
  <2> QED
    BY <2>1, <2>2 DEF MainOK, Returned, Quorum, config
<1>5. CASE Exit
  <2>1. /\ main = "returned" /\ main' = "exited" /\ exitCode' = CodeOf(result)
        /\ UNCHANGED <<config, successes, result>>
    BY <1>5 DEF Exit, CodeOf
  <2>2. ResultOK' /\ CodeOf(result)' = CodeOf(result) /\ Quorum' = Quorum /\ Quorum <= N
    BY <2>1 DEF MainOK, Returned, ResultOK, CodeOf, Quorum, Seen, config
  <2> QED
    BY <2>1, <2>2 DEF MainOK, Returned
<1>6. ASSUME main = "collect", UNCHANGED <<config, main, result, exitCode>>
      PROVE  MainOK'
  BY <1>6 DEF MainOK, Returned, Quorum, config
<1>7. CASE \/ Collect \/ Close \/ Expire
           \/ \E s \in Servers :
                  \/ Answered(s) \/ Refused(s) \/ Failed(s)
                  \/ DialFails(s) \/ TriesAgain(s) \/ GivesUp(s)
                  \/ WindowCloses(s) \/ BackoffEnds(s) \/ BackoffCancelled(s)
                  \/ Report(s) \/ Drop(s)
  <2>1. main = "collect" /\ UNCHANGED <<config, main, result, exitCode>>
    BY <1>7 DEF Collect, Close, Expire, Answered, Refused, Failed, DialFails, TriesAgain,
                GivesUp, WindowCloses, BackoffEnds, BackoffCancelled, Report, Drop, Returns, Turns,
                Running
  <2> QED
    BY <1>6, <2>1
<1>8. CASE Terminated \/ UNCHANGED vars
  <2>1. UNCHANGED <<config, main, successes, result, exitCode>>
    BY <1>8 DEF Terminated, vars
  <2>2. ResultOK' <=> ResultOK
    BY <2>1 DEF ResultOK, Seen, Quorum, config
  <2> QED
    BY <2>1, <2>2 DEF MainOK, Returned, CodeOf, Quorum, config
<1> QED
  BY <1>2, <1>3, <1>4, <1>5, <1>7, <1>8 DEF Next

\* Both invariants hold in every reachable state.
LEMMA ResultInvariance == Spec => [](ClientInv /\ ResultInv)
<1>1. Init => ClientInv /\ ResultInv
  BY ClientInit, ResultInit
<1>2. ClientInv /\ ResultInv /\ [Next]_vars => (ClientInv /\ ResultInv)'
  <2> SUFFICES ASSUME ClientInv, ResultInv, [Next]_vars PROVE (ClientInv /\ ResultInv)'
    OBVIOUS
  <2>1. ClientInv'
    BY ClientKept
  <2>2. RequestOK' /\ Bounded' /\ MainOK'
    BY RequestKept, BoundedKept, MainKept DEF ResultInv
  <2> QED
    BY <2>1, <2>2 DEF ResultInv
<1> QED
  BY <1>1, <1>2, PTL DEF Spec

\* The counters and the channel never hold more results than there are servers.
LEMMA CountedOnce ==
    ASSUME ClientInv, ResultInv
    PROVE  /\ failures + Len(resCh) + Cardinality(successes) <= N
           /\ failures \in Nat /\ Len(resCh) \in Nat /\ Cardinality(successes) \in Nat
<1>1. Ended \in SUBSET Servers /\ successes \in SUBSET Servers
  BY DEF Ended, ClientInv, CountersOK
<1>2. /\ Cardinality(Ended) <= N /\ Cardinality(Ended) \in Nat
      /\ Cardinality(successes) \in Nat /\ N \in Nat
  BY <1>1, ServersFinite, FS_Subset, ClientBounds
<1>3. failures \in Nat /\ Len(resCh) \in Nat
  BY DEF ClientInv, CountersOK
<1> QED
  BY <1>2, <1>3 DEF ResultInv, Bounded

\* The counters never add up to more than the servers, and until the timeout
\* to no less, for every number of servers and every quorum.
THEOREM EveryServerCounted == Spec => []AllCountedInTime
<1>1. ClientInv /\ ResultInv => AllCountedInTime
  <2> SUFFICES ASSUME ClientInv, ResultInv, Returned PROVE AllCountedInTime
    BY DEF AllCountedInTime
  <2>1. successes \subseteq Servers /\ failures \in Nat
    BY DEF ClientInv, CountersOK
  <2>2. Cardinality(successes) + failures <= N
    BY CountedOnce, ClientBounds
  <2>3. ASSUME ~expired PROVE Cardinality(successes) + failures = N
    <3>1. Unsuccessful = Servers \ successes
      BY <2>3 DEF ClientInv, ReturnsLast, Unsuccessful, InChannel
    <3>2. failures = Cardinality(Servers \ successes)
      BY <2>3, <3>1 DEF ClientInv, FailuresCounted
    <3>3. Cardinality(Servers \ successes) = Cardinality(Servers) - Cardinality(Servers \cap successes)
      BY ServersFinite, FS_Difference
    <3>4. Servers \cap successes = successes
      BY <2>1
    <3>5. Cardinality(Servers) = N /\ N \in Nat /\ Cardinality(successes) \in Nat
      BY <2>1, ServersFinite, ClientBounds
    <3>6. failures = N - Cardinality(successes)
      BY <3>2, <3>3, <3>4, <3>5
    <3> QED
      BY <3>5, <3>6
  <2> QED
    BY <2>2, <2>3 DEF AllCountedInTime
<1> QED
  BY <1>1, ResultInvariance, PTL

-----------------------------------------------------------------------------
\* The types follow from the invariants.
LEMMA TypesFollow == ClientInv /\ ResultInv => TypeOK
<1> SUFFICES ASSUME ClientInv, ResultInv PROVE TypeOK
  OBVIOUS
<1>1. found \in [Servers -> SUBSET Nat]
  BY DEF ResultInv, RequestOK, FoundOK
<1>2. Len(resCh) <= N /\ failures \in 0..N
  BY CountedOnce, ClientBounds
<1>3. /\ result \in [matches : Seq(Nat), count : Nat, hasMatch : BOOLEAN, met : BOOLEAN]
      /\ exitCode \in {-1, 0, 1, 2}
  <2>1. NoResult \in [matches : Seq(Nat), count : Nat, hasMatch : BOOLEAN, met : BOOLEAN]
    BY DEF NoResult
  <2>2. N \in Int /\ Quorum \in Int
    BY ClientBounds DEF Quorum, ClientInv, CountersOK
  <2>3. CodeOf(result) \in {0, 1, 2}
    BY DEF CodeOf
  <2> QED
    BY <2>1, <2>2, <2>3 DEF ResultInv, MainOK, Returned, ResultOK, ClientInv, CountersOK
<1> QED
  BY <1>1, <1>2, <1>3 DEF TypeOK, ClientInv, CountersOK, ResultInv, RequestOK

\* Every variable keeps its type: in particular, the channel never holds more
\* results than it has room for, and no more failures than servers are counted.
THEOREM ClientTypes == Spec => []TypeOK
<1> QED
  BY TypesFollow, ResultInvariance, PTL

\* The result is what the answering servers found, in the order of the file,
\* for every number of servers, every input and every order of the answers.
THEOREM ResultRight == Spec => []ResultInFileOrder
<1>1. ClientInv /\ ResultInv => ResultInFileOrder
  <2> SUFFICES ASSUME ClientInv, ResultInv, Returned PROVE ResultInFileOrder
    BY DEF ResultInFileOrder
  <2>1. ResultOK
    BY DEF ResultInv, MainOK
  <2> QED
    BY <2>1 DEF ResultOK, ResultInFileOrder, Increasing, Seen
<1> QED
  BY <1>1, ResultInvariance, PTL

\* Exit code 0 means that the input has a match, and the code is right when
\* every server answered.
THEOREM ExitCodeRight == Spec => []ExitCodeSound
<1>1. ClientInv /\ ResultInv => ExitCodeSound
  <2> SUFFICES ASSUME ClientInv, ResultInv, main = "exited"
               PROVE  /\ exitCode = 0 => \E s \in Servers : found[s] # {}
                      /\ successes = Servers =>
                             exitCode = IF \A s \in Servers : found[s] = {} THEN 1 ELSE 0
    BY DEF ExitCodeSound
  <2>1. CASE ~(Quorum <= N)
    <3>1. exitCode = 2 /\ successes = {}
      BY <2>1 DEF ResultInv, MainOK
    <3>2. Servers # {}
      BY ClientBounds DEF Servers
    <3> QED
      BY <3>1, <3>2
  <2>2. CASE Quorum <= N
    <3>1. ResultOK /\ exitCode = CodeOf(result)
      BY <2>2 DEF ResultInv, MainOK, Returned
    <3>2. successes \subseteq Servers
      BY DEF ClientInv, CountersOK
    <3>3. mode = "count" => (result.count > 0 <=> Seen # {})
      <4>1. Asked
        BY <3>2 DEF Asked, ResultInv, RequestOK
      <4>2. IsFiniteSet(Seen)
        BY <4>1, CountIs
      <4>3. Cardinality(Seen) \in Nat /\ (Cardinality(Seen) = 0 <=> Seen = {})
        BY <4>2, FS_CardinalityType, FS_EmptySet
      <4> QED
        BY <3>1, <4>3 DEF ResultOK
    <3>4. exitCode = IF ~result.met THEN 2 ELSE IF Seen # {} THEN 0 ELSE 1
      BY <3>1, <3>3 DEF CodeOf, ResultOK
    <3>5. Seen # {} => \E s \in Servers : found[s] # {}
      BY <3>2 DEF Seen
    <3>6. successes = Servers =>
              result.met /\ (Seen = {} <=> \A s \in Servers : found[s] = {})
      BY <2>2, <3>1, ServersFinite DEF ResultOK, Seen
    <3> QED
      BY <3>4, <3>5, <3>6
  <2> QED
    BY <2>1, <2>2
<1> QED
  BY <1>1, ResultInvariance, PTL

-----------------------------------------------------------------------------
(* Where the chunks begin.                                                  *)

\* The lines that the first k of m chunks have of l lines.
Offset(k, l, m) == k * (l \div m) + (IF k < l % m THEN k ELSE l % m)

\* How many lines chunk k + 1 has.
Share(k, l, m) == l \div m + (IF k < l % m THEN 1 ELSE 0)

\* The quotient and the rest of a division.
LEMMA Division ==
    ASSUME NEW l \in Nat, NEW m \in Nat \ {0}
    PROVE  \E q \in Nat, r \in 0..(m - 1) : q = l \div m /\ r = l % m /\ l = m * q + r
<1>1. l \div m \in Int /\ l % m \in 0..(m - 1)
  OBVIOUS
<1>2. l = m * (l \div m) + (l % m)
  OBVIOUS
<1>3. l \div m >= 0
  OBVIOUS
<1> QED
  BY <1>1, <1>2, <1>3

\* The shares of the chunks fill up the offsets, from none to all lines.
LEMMA OffsetSteps ==
    ASSUME NEW l \in Nat, NEW m \in Nat \ {0}
    PROVE  /\ Offset(0, l, m) = 0 /\ Offset(m, l, m) = l
           /\ \A k \in 0..(m - 1) : /\ Share(k, l, m) \in Nat
                                    /\ Offset(k + 1, l, m) = Offset(k, l, m) + Share(k, l, m)
           /\ \A j, k \in 0..m : j <= k => Offset(j, l, m) <= Offset(k, l, m)
           /\ \A k \in 0..m : Offset(k, l, m) \in 0..l
<1>1. PICK q \in Nat, r \in 0..(m - 1) : q = l \div m /\ r = l % m /\ l = m * q + r
  BY Division
<1> DEFINE F(k) == k * q + (IF k < r THEN k ELSE r)
<1>2. \A k \in 0..m : Offset(k, l, m) = F(k) /\ Share(k, l, m) = q + (IF k < r THEN 1 ELSE 0)
  BY <1>1 DEF Offset, Share
<1>3. F(0) = 0
  OBVIOUS
<1>4. F(m) = l
  BY <1>1
<1>5. ASSUME NEW k \in 0..(m - 1) PROVE F(k + 1) = F(k) + q + (IF k < r THEN 1 ELSE 0)
  <2>1. (k + 1) * q = k * q + q
    OBVIOUS
  <2>2. (IF k + 1 < r THEN k + 1 ELSE r) = (IF k < r THEN k ELSE r) + (IF k < r THEN 1 ELSE 0)
    OBVIOUS
  <2>3. k * q \in Int
    OBVIOUS
  <2> QED
    BY <2>1, <2>2, <2>3
<1>6. ASSUME NEW j \in 0..m, NEW k \in 0..m, j <= k PROVE F(j) <= F(k)
  <2>1. PICK d \in Nat : k = j + d
    <3>1. k - j \in Nat /\ k = j + (k - j)
      BY <1>6
    <3> QED
      BY <3>1
  <2>2. k * q = j * q + d * q
    BY <2>1
  <2>3. d * q >= 0 /\ d * q \in Int /\ j * q \in Int
    OBVIOUS
  <2>4. (IF j < r THEN j ELSE r) <= (IF k < r THEN k ELSE r)
    BY <1>6
  <2> QED
    BY <2>2, <2>3, <2>4
<1>7. \A k \in 0..m : F(k) \in Int
  <2> SUFFICES ASSUME NEW k \in 0..m PROVE F(k) \in Int
    OBVIOUS
  <2>1. k * q \in Int
    OBVIOUS
  <2> QED
    BY <2>1
<1>8. \A k \in 0..m : F(k) \in 0..l
  <2> SUFFICES ASSUME NEW k \in 0..m PROVE F(k) \in 0..l
    OBVIOUS
  <2>1. 0 \in 0..m /\ m \in 0..m
    OBVIOUS
  <2>2. F(0) <= F(k) /\ F(k) <= F(m)
    BY <1>6, <2>1
  <2> HIDE DEF F
  <2> QED
    BY <1>3, <1>4, <1>7, <2>2
<1> HIDE DEF F
<1>9. ASSUME NEW k \in 0..(m - 1)
      PROVE  /\ Share(k, l, m) \in Nat
             /\ Offset(k + 1, l, m) = Offset(k, l, m) + Share(k, l, m)
  <2>1. k \in 0..m /\ k + 1 \in 0..m
    OBVIOUS
  <2>2. PICK a \in Int : a = F(k)
    BY <1>7, <2>1
  <2> QED
    BY <1>2, <1>5, <2>1, <2>2
<1>10. 0 \in 0..m /\ m \in 0..m
  OBVIOUS
<1>11. Offset(0, l, m) = 0 /\ Offset(m, l, m) = l
  BY <1>2, <1>3, <1>4, <1>10
<1>12. \A j, k \in 0..m : j <= k => Offset(j, l, m) <= Offset(k, l, m)
  BY <1>2, <1>6
<1>13. \A k \in 0..m : Offset(k, l, m) \in 0..l
  BY <1>2, <1>8
<1> QED
  BY <1>9, <1>11, <1>12, <1>13

\* The chunks that have lines are the first ones, and they have all lines.
LEMMA FullChunks ==
    ASSUME NEW l \in Nat, NEW m \in Nat \ {0}
    PROVE  \E f \in 0..m : /\ Offset(f, l, m) = l
                           /\ \A k \in 0..(m - 1) : Share(k, l, m) > 0 <=> k < f
<1>1. PICK q \in Nat, r \in 0..(m - 1) : q = l \div m /\ r = l % m /\ l = m * q + r
  BY Division
<1>2. CASE q = 0
  <2>1. r \in 0..m /\ l = r
    BY <1>1, <1>2
  <2>2. Offset(r, l, m) = l
    BY <1>1, <1>2, <2>1 DEF Offset
  <2>3. \A k \in 0..(m - 1) : Share(k, l, m) > 0 <=> k < r
    BY <1>1, <1>2 DEF Share
  <2> QED
    BY <2>1, <2>2, <2>3
<1>3. CASE q # 0
  <2>1. m \in 0..m /\ Offset(m, l, m) = l
    BY OffsetSteps
  <2>2. \A k \in 0..(m - 1) : Share(k, l, m) > 0 <=> k < m
    BY <1>1, <1>3 DEF Share
  <2> QED
    BY <2>1, <2>2
<1> QED
  BY <1>2, <1>3

\* The lines of chunk k of m.
Piece(ls, m, k) == SubSeq(ls, Offset(k - 1, Len(ls), m) + 1, Offset(k, Len(ls), m))

\* The piece p has the lines after the first a, up to the line b.
IsPiece(p, a, b, ls, m, k, S) ==
    /\ a = Offset(k - 1, Len(ls), m) /\ b = Offset(k, Len(ls), m)
    /\ a <= b /\ b <= Len(ls) /\ b = a + Share(k - 1, Len(ls), m)
    /\ p = Piece(ls, m, k) /\ Len(p) = b - a
    /\ \A j \in 1..(b - a) : p[j] = ls[a + j]
    /\ SubSeq(ls, 1, a) \in Seq(S) /\ SubSeq(ls, b + 1, Len(ls)) \in Seq(S)
    /\ SubSeq(ls, 1, a) \o p = SubSeq(ls, 1, b)
    /\ SubSeq(ls, 1, b) \o SubSeq(ls, b + 1, Len(ls)) = ls

\* A piece is a part of the lines.
LEMMA PieceIs ==
    ASSUME NEW S, NEW ls \in Seq(S), NEW m \in Nat \ {0}, NEW k \in 1..m
    PROVE  \E a \in Nat, b \in Nat, p \in Seq(S) : IsPiece(p, a, b, ls, m, k, S)
<1>1. PICK l \in Nat : l = Len(ls) /\ \A i \in 1..l : ls[i] \in S
  OBVIOUS
<1>2. k - 1 \in 0..(m - 1) /\ (k - 1) + 1 = k /\ k - 1 \in 0..m /\ k \in 0..m
  OBVIOUS
<1>3. PICK a \in 0..l, b \in 0..l :
          a = Offset(k - 1, l, m) /\ b = Offset(k, l, m) /\ b = a + Share(k - 1, l, m) /\ a <= b
  <2>1. /\ Offset(k - 1, l, m) \in 0..l /\ Offset(k, l, m) \in 0..l
        /\ Offset(k, l, m) = Offset(k - 1, l, m) + Share(k - 1, l, m)
        /\ Share(k - 1, l, m) \in Nat
    BY <1>2, OffsetSteps
  <2> QED
    BY <2>1
<1>4. PICK p : p = Piece(ls, m, k) /\ p = SubSeq(ls, a + 1, b)
  BY <1>1, <1>3 DEF Piece
<1>5. p \in Seq(S) /\ Len(p) = b - a /\ \A j \in 1..(b - a) : p[j] = ls[a + j]
  <2>1. \A i \in (a + 1)..b : ls[i] \in S
    BY <1>1, <1>3
  <2>2. a + 1 \in Int /\ b \in Int
    OBVIOUS
  <2>3. /\ SubSeq(ls, a + 1, b) \in Seq(S)
        /\ Len(SubSeq(ls, a + 1, b)) = IF a + 1 <= b THEN b - (a + 1) + 1 ELSE 0
        /\ \A i \in 1..(b - (a + 1) + 1) : SubSeq(ls, a + 1, b)[i] = ls[(a + 1) + i - 1]
    BY <2>1, <2>2, SubSeqProperties
  <2>4. b - (a + 1) + 1 = b - a /\ \A i \in 1..(b - a) : (a + 1) + i - 1 = a + i
    OBVIOUS
  <2>5. Len(p) = b - a
    BY <1>3, <1>4, <2>3, <2>4
  <2>6. \A i \in 1..(b - a) : p[i] = ls[a + i]
    BY <1>4, <2>3, <2>4
  <2> QED
    BY <1>4, <2>3, <2>5, <2>6
<1>6. SubSeq(ls, 1, a) \in Seq(S) /\ SubSeq(ls, b + 1, l) \in Seq(S)
  <2>1. (\A i \in 1..a : ls[i] \in S) /\ (\A i \in (b + 1)..l : ls[i] \in S)
    BY <1>1
  <2>2. 1 \in Int /\ a \in Int /\ b + 1 \in Int /\ l \in Int
    OBVIOUS
  <2> QED
    BY <2>1, <2>2, SubSeqProperties
<1>7. SubSeq(ls, 1, a) \o p = SubSeq(ls, 1, b)
  <2>1. 1 \in 1..(Len(ls) + 1) /\ a \in (1 - 1)..Len(ls) /\ b \in a..Len(ls)
    BY <1>1, <1>3
  <2> QED
    BY <1>4, <2>1, ConcatAdjacentSubSeq
<1>8. SubSeq(ls, 1, b) \o SubSeq(ls, b + 1, l) = ls
  <2>1. 1 \in 1..(Len(ls) + 1) /\ b \in (1 - 1)..Len(ls) /\ Len(ls) \in b..Len(ls)
    BY <1>1, <1>3
  <2>2. SubSeq(ls, 1, b) \o SubSeq(ls, b + 1, Len(ls)) = SubSeq(ls, 1, Len(ls))
    BY <2>1, ConcatAdjacentSubSeq
  <2>3. SubSeq(ls, 1, Len(ls)) = ls
    BY SubSeqFull
  <2> QED
    BY <1>1, <2>2, <2>3
<1>9. /\ a = Offset(k - 1, Len(ls), m) /\ b = Offset(k, Len(ls), m)
      /\ a <= b /\ b <= Len(ls) /\ b = a + Share(k - 1, Len(ls), m)
      /\ SubSeq(ls, b + 1, Len(ls)) \in Seq(S)
      /\ SubSeq(ls, 1, b) \o SubSeq(ls, b + 1, Len(ls)) = ls
  BY <1>1, <1>3, <1>6, <1>8
<1>10. a \in Nat /\ b \in Nat
  OBVIOUS
<1>11. IsPiece(p, a, b, ls, m, k, S)
  BY <1>4, <1>5, <1>6, <1>7, <1>9 DEF IsPiece
<1> QED
  BY <1>5, <1>10, <1>11

-----------------------------------------------------------------------------
(* The lines of the input.                                                  *)

\* The texts are bounded.
LEMMA TextsAre ==
    ASSUME MaxLen \in Nat
    PROVE  \A t : t \in Texts <=> t \in Seq(Chars) /\ Len(t) <= MaxLen
<1>1. Texts = UNION {[1..m -> Chars] : m \in 0..MaxLen}
  BY DEF Texts, BoundedSeq, SeqOf
<1>2. ASSUME NEW t \in Texts PROVE t \in Seq(Chars) /\ Len(t) <= MaxLen
  <2>1. PICK m \in 0..MaxLen : t \in [1..m -> Chars]
    BY <1>1
  <2>2. t \in Seq(Chars) /\ Len(t) = m
    BY <2>1
  <2> QED
    BY <2>2
<1>3. ASSUME NEW t \in Seq(Chars), Len(t) <= MaxLen PROVE t \in Texts
  <2>1. Len(t) \in 0..MaxLen /\ t \in [1..Len(t) -> Chars]
    BY <1>3
  <2> QED
    BY <1>1, <2>1
<1> QED
  BY <1>2, <1>3

\* What is dealt out: the lines that grep sees, if there are any.
TextLines(ls, t) ==
    /\ ls \in Seq(Texts) /\ ls \in Seq(Seq(Chars)) /\ Len(ls) <= MaxLen /\ AllPlain(ls)
    /\ Join(ls) = Trim(Normalize(t)) /\ Join(ls) \in Texts
    /\ ls # <<>> => GrepLines(Normalize(t)) = ls

\* A text that is not empty and has no line end at its end has no empty last line.
LEMMA LastNotEmpty ==
    ASSUME NEW t \in Seq(Chars), t # <<>>, Last(t) # LF
    PROVE  Last(Cut(t)) # <<>>
<1>1. PICK u \in Seq(Chars), c \in Chars : t = Append(u, c) /\ c # LF
  BY FrontLast
<1>2. PICK ls \in Seq(Seq(Chars)) : ls = Cut(u) /\ ls # <<>>
  BY CutSteps DEF ManyLines
<1>3. PICK f \in Seq(Seq(Chars)), l \in Seq(Chars) : f = Front(ls) /\ l = Last(ls)
  BY <1>2, FrontLast
<1>4. PICK m \in Seq(Chars) : m = Append(l, c) /\ m # <<>>
  BY LastOfAppend
<1>5. Cut(t) = Append(f, m)
  BY <1>1, <1>2, <1>3, <1>4, CutSteps DEF Scanned
<1>6. Last(Append(f, m)) = m
  BY LastOfAppend
<1> QED
  BY <1>4, <1>5, <1>6

\* Prepare makes such lines.
LEMMA PrepareLines ==
    ASSUME MaxLen \in Nat, NEW t \in Texts
    PROVE  TextLines(LinesOf(Trim(Normalize(t))), t)
<1>1. PICK v \in Seq(Chars) : v = Normalize(t) /\ Len(v) <= MaxLen
  <2>1. t \in Seq(Chars) /\ Len(t) <= MaxLen
    BY TextsAre
  <2>2. Normalize(t) \in Seq(Chars) /\ Len(Normalize(t)) <= Len(t)
    BY <2>1, NormalizeSteps, NormalizeShorter
  <2>3. Len(Normalize(t)) \in Nat /\ Len(t) \in Nat
    BY <2>1, <2>2
  <2> QED
    BY <2>1, <2>2, <2>3
<1>2. PICK u \in Seq(Chars) : u = Trim(v) /\ Len(u) <= MaxLen
  <2>1. Trim(v) \in Seq(Chars) /\ Len(Trim(v)) <= Len(v)
    BY TrimIs
  <2>2. Len(Trim(v)) \in Nat /\ Len(v) \in Nat
    BY <2>1
  <2> QED
    BY <1>1, <2>1, <2>2
<1>3. u \in Texts
  BY <1>2, TextsAre
<1>4. CASE u = <<>>
  <2>1. PICK z \in Seq(Seq(Chars)) : z = <<>> /\ z \in Seq(Texts) /\ Len(z) = 0
    BY EmptySeq
  <2>2. LinesOf(u) = z /\ Join(z) = u
    BY <1>4, <2>1, JoinSteps DEF LinesOf
  <2>3. AllPlain(z)
    BY <2>1 DEF AllPlain
  <2>4. TextLines(z, t)
    BY <1>1, <1>2, <1>3, <2>1, <2>2, <2>3 DEF TextLines
  <2> QED
    BY <1>1, <1>2, <2>2, <2>4
<1>5. CASE u # <<>>
  <2>1. PICK ls \in Seq(Seq(Chars)) : ls = Cut(u) /\ ls # <<>>
    BY CutSteps DEF ManyLines
  <2>2. LinesOf(u) = ls /\ Join(ls) = u /\ AllPlain(ls) /\ FitsIn(ls, Len(u))
    BY <1>5, <2>1, JoinOfCut, LinesPlain, CutSmall DEF LinesOf
  <2>3. PICK d \in Nat, m \in Nat : d = Len(ls) /\ m = Len(u) /\ d <= m + 1 /\ m <= MaxLen
    BY <1>2, <2>2 DEF FitsIn
  <2>4. v # <<>> /\ u = IF Last(v) = LF THEN Front(v) ELSE v
    <3>1. CASE v # <<>>
      BY <1>2, <3>1 DEF Trim
    <3>2. CASE v = <<>>
      BY <1>2, <1>5, <3>2 DEF Trim
    <3> QED
      BY <3>1, <3>2
  <2>5. d <= MaxLen
    <3>1. CASE Last(v) = LF
      <4>1. Len(Front(v)) = Len(v) - 1 /\ Len(v) \in Nat
        BY <2>4, FrontLast
      <4>2. m = Len(v) - 1
        BY <2>3, <2>4, <3>1, <4>1
      <4> QED
        BY <1>1, <2>3, <4>1, <4>2
    <3>2. CASE Last(v) # LF
      <4>1. Last(ls) # <<>>
        BY <1>5, <2>1, <2>4, <3>2, LastNotEmpty
      <4>2. d <= m
        BY <2>2, <2>3, <4>1 DEF FitsIn
      <4> QED
        BY <2>3, <4>2
    <3> QED
      BY <3>1, <3>2
  <2>6. ls \in Seq(Texts)
    <3>1. ASSUME NEW j \in 1..d PROVE ls[j] \in Texts
      <4>1. ls[j] \in Seq(Chars) /\ Len(ls[j]) <= m
        BY <2>2, <2>3 DEF FitsIn
      <4>2. Len(ls[j]) \in Nat
        BY <4>1
      <4>3. Len(ls[j]) <= MaxLen
        BY <2>3, <4>1, <4>2
      <4> QED
        BY <4>1, <4>3, TextsAre
    <3>2. ls \in [1..d -> Seq(Chars)]
      BY <2>3
    <3>3. ls \in [1..d -> Texts]
      BY <3>1, <3>2
    <3> QED
      BY <3>3
  <2>7. GrepLines(v) = ls
    BY <2>1, <2>4 DEF GrepLines
  <2>8. TextLines(ls, t)
    BY <1>1, <1>2, <1>3, <2>2, <2>3, <2>5, <2>6, <2>7 DEF TextLines
  <2> QED
    BY <1>1, <1>2, <2>2, <2>8
<1> QED
  BY <1>4, <1>5

\* What travels to a server is a text.
LEMMA PieceText ==
    ASSUME MaxLen \in Nat, NEW t, NEW ls, TextLines(ls, t), NEW m \in Nat \ {0}, NEW k \in 1..m
    PROVE  Join(Piece(ls, m, k)) \in Texts
<1>1. ls \in Seq(Seq(Chars)) /\ Join(ls) \in Texts
  BY DEF TextLines
<1>2. PICK p \in Seq(Seq(Chars)), x \in Seq(Seq(Chars)), y \in Seq(Seq(Chars)) :
          p = Piece(ls, m, k) /\ (x \o p) \o y = ls
  <2>1. PICK a \in Nat, b \in Nat, p \in Seq(Seq(Chars)) : IsPiece(p, a, b, ls, m, k, Seq(Chars))
    BY <1>1, PieceIs
  <2> QED
    BY <2>1 DEF IsPiece
<1>3. Join(p) \in Seq(Chars) /\ Len(Join(p)) <= Len(Join(ls))
  BY <1>2, JoinPart
<1>4. Len(Join(ls)) <= MaxLen /\ Len(Join(ls)) \in Nat /\ Len(Join(p)) \in Nat
  BY <1>1, <1>3, TextsAre
<1>5. Len(Join(p)) <= MaxLen
  BY <1>3, <1>4
<1> QED
  BY <1>2, <1>3, <1>5, TextsAre

-----------------------------------------------------------------------------
(* chunk.Split.                                                             *)

\* Chunk k of m, made of the lines ls.
Cutting(ls, m, k) ==
    [startLine |-> Offset(k - 1, Len(ls), m) + 1, data |-> Join(Piece(ls, m, k))]

SplitArguments ==
    text \in Texts /\ n \in 1..Max({1, MaxN}) /\ n \in Nat \ {0}
        /\ splitPc \in {"prepare", "deal", "done"}

\* The lines are those of the text, once there are any.
LinesReady ==
    /\ splitPc = "prepare" => lines = <<>> /\ chunks = <<>>
    /\ splitPc # "prepare" => TextLines(lines, text)

\* The chunks that are dealt out are pieces of the lines, one behind the other.
ChunksDealt ==
    /\ chunks \in Seq(Chunk) /\ Len(chunks) <= n
    /\ splitPc = "done" => Len(chunks) = n
    /\ start = Offset(Len(chunks), Len(lines), n) /\ startLine = start + 1
    /\ \A k \in 1..Len(chunks) : chunks[k] = Cutting(lines, n, k)

SplitInv == SplitArguments /\ LinesReady /\ ChunksDealt

\* Chunks have their types.
LEMMA CuttingType ==
    ASSUME MaxLen \in Nat, NEW t, NEW ls, TextLines(ls, t), NEW m \in Nat \ {0}, NEW k \in 1..m
    PROVE  Cutting(ls, m, k) \in Chunk
<1>1. PICK l \in Nat : l = Len(ls) /\ l <= MaxLen
  BY DEF TextLines
<1>2. k - 1 \in 0..m
  OBVIOUS
<1>3. Offset(k - 1, l, m) \in 0..l
  BY <1>2, OffsetSteps
<1>4. Offset(k - 1, l, m) + 1 \in 1..(MaxLen + 1)
  BY <1>1, <1>3
<1>5. Join(Piece(ls, m, k)) \in Texts
  BY PieceText
<1> QED
  BY <1>1, <1>4, <1>5 DEF Cutting, Chunk

\* Without lines all chunks are empty.
LEMMA NothingDealt ==
    ASSUME NEW m \in Nat \ {0}, NEW k \in 1..m
    PROVE  Cutting(<<>>, m, k) = [startLine |-> 1, data |-> <<>>] /\ Offset(k, 0, m) = 0
<1>1. PICK z \in Seq(Seq(Chars)) : z = <<>> /\ Len(z) = 0
  BY EmptySeq
<1>2. k - 1 \in 0..m /\ k \in 0..m
  OBVIOUS
<1>3. Offset(k - 1, 0, m) \in 0..0 /\ Offset(k, 0, m) \in 0..0
  BY <1>2, OffsetSteps
<1>4. Offset(k - 1, 0, m) = 0 /\ Offset(k, 0, m) = 0
  BY <1>3
<1>5. Piece(z, m, k) = <<>>
  BY <1>1, <1>4, SubSeqEmpty DEF Piece
<1>6. Join(Piece(z, m, k)) = <<>>
  BY <1>5, JoinSteps
<1> QED
  BY <1>1, <1>4, <1>6 DEF Cutting

\* Split starts with nothing dealt out.
LEMMA SplitStarts == ASSUME MaxLen \in Nat, MaxN \in Nat, SplitInit PROVE SplitInv
<1>1. PICK m \in Nat : m = Max({1, MaxN}) /\ 1 <= m /\ MaxN <= m
  <2>1. \E m \in {1, MaxN} : \A y \in {1, MaxN} : m >= y
    BY DEF SplitInit
  <2>2. PICK m \in {1, MaxN} : \A y \in {1, MaxN} : m >= y
    BY <2>1
  <2>3. Max({1, MaxN}) = m
    <3>1. {1, MaxN} \in SUBSET Int
      OBVIOUS
    <3> QED
      BY <2>2, <3>1, MaxIs
  <2> QED
    BY <2>2, <2>3
<1>2. PICK k \in 0..MaxN : n = IF k <= 0 THEN 1 ELSE k
  BY DEF SplitInit
<1>3. n \in 1..m /\ n \in Nat \ {0}
  BY <1>1, <1>2
<1>4. SplitArguments /\ LinesReady
  BY <1>1, <1>3 DEF SplitInit, SplitArguments, LinesReady
<1>5. Offset(0, 0, n) = 0
  BY <1>3, OffsetSteps
<1>6. chunks \in Seq(Chunk) /\ Len(chunks) = 0 /\ Len(lines) = 0
  BY DEF SplitInit
<1>7. ChunksDealt
  BY <1>3, <1>5, <1>6 DEF SplitInit, ChunksDealt
<1> QED
  BY <1>4, <1>7 DEF SplitInv

\* The lines are made once.
LEMMA PrepareKeeps == ASSUME MaxLen \in Nat, SplitInv, Prepare PROVE SplitInv'
<1>1. SplitArguments' /\ text \in Texts /\ n \in Nat \ {0}
  BY DEF SplitInv, SplitArguments, Prepare
<1>2. PICK ls : ls = LinesOf(Trim(Normalize(text))) /\ TextLines(ls, text)
  BY <1>1, PrepareLines
<1>3. lines' = ls /\ splitPc' = "deal" /\ text' = text /\ n' = n /\ chunks' = chunks
      /\ start' = start /\ startLine' = startLine
  BY <1>2 DEF Prepare
<1>4. LinesReady'
  BY <1>2, <1>3 DEF LinesReady
<1>5. chunks = <<>> /\ lines = <<>>
  BY DEF SplitInv, LinesReady, Prepare
<1>6. PICK l \in Nat : l = Len(ls)
  BY <1>2 DEF TextLines
<1>7. Offset(0, 0, n) = 0 /\ Offset(0, l, n) = 0
  BY <1>1, OffsetSteps
<1>8. start = 0 /\ startLine = 1
  BY <1>5, <1>7 DEF SplitInv, ChunksDealt
<1>9. chunks' \in Seq(Chunk) /\ Len(chunks') = 0
  BY <1>3, <1>5
<1>10. ChunksDealt'
  BY <1>1, <1>3, <1>6, <1>7, <1>8, <1>9 DEF ChunksDealt
<1> QED
  BY <1>1, <1>4, <1>10 DEF SplitInv

\* Without lines Split ends at once.
LEMMA NoLinesKeeps == ASSUME MaxLen \in Nat, SplitInv, NoLines PROVE SplitInv'
<1>1. SplitArguments' /\ n \in Nat \ {0} /\ lines = <<>> /\ Len(lines) = 0
  BY DEF SplitInv, SplitArguments, NoLines
<1>2. /\ chunks' = [k \in 1..n |-> [startLine |-> 1, data |-> <<>>]]
      /\ lines' = lines /\ splitPc' = "done" /\ text' = text /\ n' = n
      /\ start' = start /\ startLine' = startLine
  BY DEF NoLines
<1>3. TextLines(lines, text)
  BY DEF SplitInv, LinesReady, NoLines
<1>4. LinesReady'
  BY <1>2, <1>3 DEF LinesReady
<1>5. PICK e \in Chunk : e = [startLine |-> 1, data |-> <<>>]
  <2>1. <<>> \in Texts
    <3>1. <<>> \in Seq(Chars) /\ Len(<<>>) <= MaxLen
      BY EmptyText
    <3> QED
      BY <3>1, TextsAre
  <2>2. 1 \in 1..(MaxLen + 1)
    OBVIOUS
  <2>3. [startLine |-> 1, data |-> <<>>] \in Chunk
    BY <2>1, <2>2 DEF Chunk
  <2> QED
    BY <2>3
<1>6. PICK cs \in Seq(Chunk) : cs = chunks' /\ Len(cs) = n /\ \A k \in 1..n : cs[k] = e
  BY <1>1, <1>2, <1>5
<1>7. \A k \in 1..n : cs[k] = Cutting(lines, n, k)
  BY <1>1, <1>5, <1>6, NothingDealt
<1>8. start = 0 /\ Offset(n, 0, n) = 0
  <2>1. Offset(0, 0, n) = 0 /\ \A k \in 0..n : Offset(k, 0, n) \in 0..0
    BY <1>1, OffsetSteps
  <2>2. Len(chunks) \in 0..n /\ n \in 0..n
    BY <1>1 DEF SplitInv, ChunksDealt
  <2>3. Offset(Len(chunks), 0, n) \in 0..0 /\ Offset(n, 0, n) \in 0..0
    BY <2>1, <2>2
  <2>4. start = Offset(Len(chunks), 0, n)
    BY <1>1 DEF SplitInv, ChunksDealt
  <2> QED
    BY <2>3, <2>4
<1>9. startLine = start + 1
  BY DEF SplitInv, ChunksDealt
<1>10. ChunksDealt'
  BY <1>1, <1>2, <1>6, <1>7, <1>8, <1>9 DEF ChunksDealt
<1> QED
  BY <1>1, <1>4, <1>10 DEF SplitInv

\* One chunk more is dealt out.
LEMMA DealKeeps == ASSUME MaxLen \in Nat, SplitInv, DealChunk PROVE SplitInv'
<1>1. SplitArguments' /\ n \in Nat \ {0}
  BY DEF SplitInv, SplitArguments, DealChunk
<1>2. PICK d \in Nat, l \in Nat : d = Len(chunks) /\ l = Len(lines) /\ d < n /\ TextLines(lines, text)
  <2>1. TextLines(lines, text) /\ chunks \in Seq(Chunk) /\ Len(chunks) < n
    BY DEF SplitInv, LinesReady, ChunksDealt, DealChunk
  <2> QED
    BY <2>1 DEF TextLines
<1>3. d \in 0..(n - 1) /\ d + 1 \in 1..n /\ (d + 1) - 1 = d /\ d \in 0..n
  BY <1>1, <1>2
<1>4. PICK a \in Nat, b \in Nat : /\ a = Offset(d, l, n) /\ b = Offset(d + 1, l, n)
                                  /\ b = a + Size(d)
  <2>1. Offset(d, l, n) \in 0..l /\ Share(d, l, n) \in Nat
        /\ Offset(d + 1, l, n) = Offset(d, l, n) + Share(d, l, n)
    BY <1>1, <1>3, OffsetSteps
  <2>2. Size(d) = Share(d, l, n)
    BY <1>2 DEF Size, Share
  <2> QED
    BY <2>1, <2>2
<1>5. start = a /\ startLine = a + 1
  BY <1>2, <1>4 DEF SplitInv, ChunksDealt
<1>6. PICK c \in Chunk : c = Cutting(lines, n, d + 1)
  BY <1>1, <1>2, <1>3, CuttingType
<1>7. c = [startLine |-> a + 1, data |-> Join(SubSeq(lines, a + 1, b))]
  BY <1>2, <1>3, <1>4, <1>6 DEF Cutting, Piece
<1>8. /\ chunks' = Append(chunks, c) /\ start' = b /\ startLine' = b + 1
      /\ lines' = lines /\ splitPc' = splitPc /\ text' = text /\ n' = n /\ splitPc = "deal"
  <2>1. /\ chunks' = Append(chunks, [startLine |-> startLine,
                        data |-> Join(SubSeq(lines, start + 1, start + Size(d)))])
        /\ start' = start + Size(d) /\ startLine' = startLine + Size(d)
    BY <1>2 DEF DealChunk
  <2>2. start' = b /\ start + Size(d) = b
    BY <1>4, <1>5, <2>1
  <2>3. startLine' = b + 1
    <3>1. Size(d) = b - a
      <4>1. Size(d) \in Int
        <5>1. Share(d, l, n) \in Nat
          BY <1>1, <1>3, OffsetSteps
        <5> QED
          BY <1>2, <5>1 DEF Size, Share
      <4> QED
        BY <1>4, <4>1
    <3> QED
      BY <1>5, <2>1, <3>1
  <2> QED
    BY <1>5, <1>7, <2>1, <2>2, <2>3 DEF DealChunk
<1>9. LinesReady'
  BY <1>2, <1>8 DEF LinesReady
<1>10. chunks' \in Seq(Chunk) /\ Len(chunks') = d + 1 /\ chunks'[d + 1] = c
       /\ \A k \in 1..d : chunks'[k] = chunks[k]
  <2>1. chunks \in Seq(Chunk)
    BY DEF SplitInv, ChunksDealt
  <2> QED
    BY <1>2, <1>8, <2>1
<1>11. \A k \in 1..(d + 1) : chunks'[k] = Cutting(lines, n, k)
  <2> SUFFICES ASSUME NEW k \in 1..(d + 1) PROVE chunks'[k] = Cutting(lines, n, k)
    OBVIOUS
  <2>1. CASE k = d + 1
    BY <1>6, <1>10, <2>1
  <2>2. CASE k # d + 1
    <3>1. k \in 1..d
      BY <2>2
    <3> QED
      BY <1>2, <1>10, <3>1 DEF SplitInv, ChunksDealt
  <2> QED
    BY <2>1, <2>2
<1>12. ChunksDealt'
  BY <1>1, <1>2, <1>3, <1>4, <1>8, <1>10, <1>11 DEF ChunksDealt
<1> QED
  BY <1>1, <1>9, <1>12 DEF SplitInv

\* Every step of Split keeps the invariant.
LEMMA SplitKeeps ==
    ASSUME MaxLen \in Nat, SplitInv, [SplitNext]_splitVars
    PROVE  SplitInv'
<1>1. CASE SplitReturn
  BY <1>1 DEF SplitInv, SplitArguments, LinesReady, ChunksDealt, SplitReturn
<1>2. CASE UNCHANGED splitVars
  BY <1>2 DEF SplitInv, SplitArguments, LinesReady, ChunksDealt, splitVars
<1> QED
  BY <1>1, <1>2, PrepareKeeps, NoLinesKeeps, DealKeeps DEF SplitNext, SplitEnded

\* The invariant gives the types.
LEMMA SplitTypes ==
    ASSUME MaxLen \in Nat, SplitInv
    PROVE  SplitTypeOK
<1>1. lines \in Seq(Texts) /\ Len(lines) \in Nat
  <2>1. CASE splitPc = "prepare"
    BY <2>1 DEF SplitInv, LinesReady
  <2>2. CASE splitPc # "prepare"
    BY <2>2 DEF SplitInv, LinesReady, TextLines
  <2> QED
    BY <2>1, <2>2
<1>2. Len(chunks) \in 0..n /\ n \in Nat \ {0}
  BY DEF SplitInv, SplitArguments, ChunksDealt
<1>3. Offset(Len(chunks), Len(lines), n) \in 0..Len(lines)
  BY <1>1, <1>2, OffsetSteps
<1>4. start \in 0..Len(lines) /\ startLine \in 1..(Len(lines) + 1)
  BY <1>1, <1>3 DEF SplitInv, ChunksDealt
<1> QED
  BY <1>1, <1>4 DEF SplitTypeOK, SplitInv, SplitArguments, ChunksDealt

-----------------------------------------------------------------------------
(* What the chunks have.                                                    *)

\* The fields of a chunk.
LEMMA CuttingFields ==
    ASSUME NEW c, NEW ls, NEW m, NEW k, c = Cutting(ls, m, k)
    PROVE  /\ c.startLine = Offset(k - 1, Len(ls), m) + 1
           /\ c.data = Join(Piece(ls, m, k))
<1>1. \A x, y : [startLine |-> x, data |-> y].startLine = x
                /\ [startLine |-> x, data |-> y].data = y
  OBVIOUS
<1> QED
  BY <1>1 DEF Cutting

\* The lines that a chunk stands for are its piece of the lines.
LEMMA LinesAre ==
    ASSUME MaxLen \in Nat, SplitInv, SplitDone, NEW k \in 1..n
    PROVE  /\ Lines(k) = Piece(lines, n, k) /\ chunks[k] = Cutting(lines, n, k)
           /\ TextLines(lines, text) /\ n \in Nat \ {0} /\ lines \in Seq(Seq(Chars))
<1>1. /\ TextLines(lines, text) /\ n \in Nat \ {0} /\ lines \in Seq(Seq(Chars))
      /\ \A j \in 1..n : chunks[j] = Cutting(lines, n, j)
  BY DEF SplitInv, SplitArguments, LinesReady, ChunksDealt, SplitDone, TextLines
<1>2. PICK l \in Nat : l = Len(lines)
  BY <1>1
<1>3. CASE lines = <<>>
  <2>1. k - 1 \in 0..n /\ k \in 0..n /\ l = 0
    BY <1>1, <1>2, <1>3
  <2>2. Offset(k - 1, 0, n) \in 0..0 /\ Offset(k, 0, n) \in 0..0
    BY <1>1, <2>1, OffsetSteps
  <2>3. Offset(k - 1, 0, n) = 0 /\ Offset(k, 0, n) = 0
    BY <2>2
  <2>4. Piece(lines, n, k) = <<>>
    BY <1>2, <2>1, <2>3, SubSeqEmpty DEF Piece
  <2> QED
    BY <1>1, <1>3, <2>4 DEF Lines
<1>4. CASE lines # <<>>
  <2>1. chunks[k].startLine = Offset(k - 1, l, n) + 1
    BY <1>1, <1>2, CuttingFields
  <2>2. (IF k < n THEN chunks[k + 1].startLine - 1 ELSE l) = Offset(k, l, n)
    <3>1. CASE k < n
      <4>1. k + 1 \in 1..n /\ (k + 1) - 1 = k /\ k \in 0..n
        BY <1>1, <3>1
      <4>2. chunks[k + 1] = Cutting(lines, n, k + 1)
        BY <1>1, <4>1
      <4>3. chunks[k + 1].startLine = Offset(k, l, n) + 1
        BY <1>2, <4>1, <4>2, CuttingFields
      <4>4. Offset(k, l, n) \in 0..l
        BY <1>1, <4>1, OffsetSteps
      <4> QED
        BY <3>1, <4>3, <4>4
    <3>2. CASE ~(k < n)
      <4>1. k = n
        BY <1>1, <3>2
      <4> QED
        BY <1>1, <3>2, <4>1, OffsetSteps
    <3> QED
      BY <3>1, <3>2
  <2> QED
    BY <1>1, <1>2, <1>4, <2>1, <2>2 DEF Lines, Piece
<1> QED
  BY <1>3, <1>4

\* The lines that belong together when pieces are joined: one piece more.
LEMMA PieceJoined ==
    ASSUME NEW ls \in Seq(Seq(Chars)), NEW m \in Nat \ {0}, NEW k \in 1..m,
           Share(0, Len(ls), m) > 0, Share(k - 1, Len(ls), m) > 0
    PROVE  \E a \in Nat, b \in Nat, x \in Seq(Chars) :
               /\ a = Offset(k - 1, Len(ls), m) /\ b = Offset(k, Len(ls), m)
               /\ x = Join(Piece(ls, m, k))
               /\ k = 1 => x = Join(SubSeq(ls, 1, b))
               /\ k # 1 => Join(SubSeq(ls, 1, b)) = Joined(Join(SubSeq(ls, 1, a)), x)
<1>1. PICK a \in Nat, b \in Nat, p \in Seq(Seq(Chars)) : IsPiece(p, a, b, ls, m, k, Seq(Chars))
  BY PieceIs
<1>2. PICK g \in Seq(Seq(Chars)) : g = SubSeq(ls, 1, a) /\ SubSeq(ls, 1, b) = g \o p
  BY <1>1 DEF IsPiece
<1>3. p # <<>>
  <2>1. PICK d \in Nat : d = Share(k - 1, Len(ls), m) /\ d > 0
    <3>1. k - 1 \in 0..(m - 1) /\ Len(ls) \in Nat
      OBVIOUS
    <3> QED
      BY <3>1, OffsetSteps
  <2>2. Len(p) = b - a /\ b = a + d
    BY <1>1, <2>1 DEF IsPiece
  <2> QED
    BY <2>1, <2>2
<1>4. PICK x \in Seq(Chars) : x = Join(p)
  BY <1>3, JoinSteps DEF ManyLines
<1>5. CASE k = 1
  <2>1. a = 0
    BY <1>1, <1>5, OffsetSteps DEF IsPiece
  <2>2. g = <<>>
    BY <1>2, <2>1, SubSeqEmpty
  <2>3. g \o p = p
    BY <2>2, ConcatEmptySeq
  <2>4. x = Join(SubSeq(ls, 1, b))
    BY <1>2, <1>4, <2>3
  <2> QED
    BY <1>1, <1>4, <1>5, <2>4 DEF IsPiece
<1>6. CASE k # 1
  <2>1. PICK l \in Nat : l = Len(ls)
    OBVIOUS
  <2>2. /\ 0 \in 0..(m - 1) /\ 0 + 1 = 1 /\ 1 \in 0..m /\ k - 1 \in 0..m /\ 1 <= k - 1
    BY <1>6
  <2>3. /\ Offset(0 + 1, l, m) = Offset(0, l, m) + Share(0, l, m) /\ Offset(0, l, m) = 0
        /\ Share(0, l, m) \in Nat
    BY <2>2, OffsetSteps
  <2>4. Offset(1, l, m) <= Offset(k - 1, l, m) /\ Offset(1, l, m) \in 0..l
    BY <2>2, OffsetSteps
  <2>5. Offset(1, l, m) > 0
    BY <2>1, <2>2, <2>3
  <2>6. a = Offset(k - 1, l, m) /\ a <= b /\ b <= l
    BY <1>1, <2>1 DEF IsPiece
  <2>7. a > 0 /\ a <= l
    BY <2>1, <2>4, <2>5, <2>6
  <2>8. Len(g) = a
    <3>1. \A i \in 1..a : ls[i] \in Seq(Chars)
      BY <2>1, <2>7
    <3>2. 1 \in Int /\ a \in Int
      OBVIOUS
    <3>3. Len(SubSeq(ls, 1, a)) = IF 1 <= a THEN a - 1 + 1 ELSE 0
      BY <3>1, <3>2, SubSeqProperties
    <3> QED
      BY <1>2, <2>7, <3>3
  <2>9. g # <<>>
    BY <2>7, <2>8
  <2>10. Join(g \o p) = Joined(Join(g), x)
    BY <1>3, <1>4, <2>9, JoinConcat DEF ManyLines
  <2> QED
    BY <1>1, <1>2, <1>4, <1>6, <2>10 DEF IsPiece
<1> QED
  BY <1>5, <1>6

\* The texts of the chunks that have lines, joined, are the joined lines.
LEMMA ComesBack ==
    ASSUME NEW ls \in Seq(Seq(Chars)), NEW m \in Nat \ {0}, NEW f \in 0..m,
           \A k \in 0..(m - 1) : Share(k, Len(ls), m) > 0 <=> k < f,
           Offset(f, Len(ls), m) = Len(ls)
    PROVE  Join([j \in 1..f |-> Join(Piece(ls, m, j))]) = Join(ls)
<1> DEFINE Front1(k) == [j \in 1..k |-> Join(Piece(ls, m, j))]
           Upto(k) == Join(SubSeq(ls, 1, Offset(k, Len(ls), m)))
           T == {k \in Nat : k <= f => Join(Front1(k)) = Upto(k)}
<1>1. 0 \in T
  <2>1. Front1(0) = <<>>
    OBVIOUS
  <2>2. Offset(0, Len(ls), m) = 0
    BY OffsetSteps
  <2>3. SubSeq(ls, 1, 0) = <<>>
    BY SubSeqEmpty
  <2>4. Join(Front1(0)) = Upto(0)
    BY <2>1, <2>2, <2>3
  <2> QED
    BY <2>4
<1>2. ASSUME NEW k \in Nat, k \in T PROVE k + 1 \in T
  <2> SUFFICES ASSUME k + 1 <= f PROVE Join(Front1(k + 1)) = Upto(k + 1)
    OBVIOUS
  <2>1. k + 1 \in 1..m /\ (k + 1) - 1 = k /\ k \in 0..(m - 1) /\ 0 \in 0..(m - 1) /\ k < f /\ 0 < f
    OBVIOUS
  <2>2. Share(0, Len(ls), m) > 0 /\ Share((k + 1) - 1, Len(ls), m) > 0
    BY <2>1
  <2>3. PICK h \in 1..m : h = k + 1
    BY <2>1
  <2>4. PICK x \in Seq(Chars) :
            /\ x = Join(Piece(ls, m, h))
            /\ h = 1 => x = Upto(h)
            /\ h # 1 => Upto(h) = Joined(Upto(h - 1), x)
    BY <2>2, <2>3, PieceJoined
  <2>5. h - 1 = k
    BY <2>3
  <2>6. CASE k = 0
    <3>1. Front1(k + 1) = <<x>>
      <4>1. 1..1 = {1} /\ h = 1 /\ k + 1 = 1
        BY <2>3, <2>6
      <4>2. Front1(1) = [j \in {1} |-> x]
        BY <2>4, <4>1
      <4> QED
        BY <4>1, <4>2
    <3>2. Join(<<x>>) = x
      BY JoinSteps
    <3> HIDE DEF Front1, Upto
    <3> QED
      BY <2>3, <2>4, <2>6, <3>1, <3>2
  <2>7. CASE k # 0
    <3>1. ASSUME NEW i \in 0..m, NEW j \in 1..i PROVE Join(Piece(ls, m, j)) \in Seq(Chars)
      <4>1. j \in 1..m
        OBVIOUS
      <4>2. PICK a \in Nat, b \in Nat, p \in Seq(Seq(Chars)) : IsPiece(p, a, b, ls, m, j, Seq(Chars))
        BY <4>1, PieceIs
      <4>3. p = Piece(ls, m, j)
        BY <4>2 DEF IsPiece
      <4> QED
        BY <4>3, JoinSteps, EmptyText DEF ManyLines
    <3>2. \A i \in 0..m : Front1(i) \in Seq(Seq(Chars)) /\ Len(Front1(i)) = i
                          /\ \A j \in 1..i : Front1(i)[j] = Join(Piece(ls, m, j))
      <4> SUFFICES ASSUME NEW i \in 0..m
                   PROVE  Front1(i) \in Seq(Seq(Chars)) /\ Len(Front1(i)) = i
                          /\ \A j \in 1..i : Front1(i)[j] = Join(Piece(ls, m, j))
        OBVIOUS
      <4>1. Front1(i) \in [1..i -> Seq(Chars)]
        BY <3>1
      <4>2. i \in Nat
        OBVIOUS
      <4>3. Front1(i) \in Seq(Seq(Chars)) /\ Len(Front1(i)) = i
        BY <4>1, <4>2
      <4> QED
        BY <4>3
    <3> HIDE DEF Front1
    <3>3. PICK bs \in Seq(Seq(Chars)) :
              /\ bs = Front1(k) /\ Len(bs) = k /\ bs # <<>>
              /\ \A j \in 1..k : bs[j] = Join(Piece(ls, m, j))
      <4>1. k \in 0..m
        BY <2>1
      <4>2. PICK bs \in Seq(Seq(Chars)) :
              /\ bs = Front1(k) /\ Len(bs) = k
              /\ \A j \in 1..k : bs[j] = Join(Piece(ls, m, j))
        BY <3>2, <4>1
      <4>3. bs # <<>>
        BY <2>7, <4>2
      <4> QED
        BY <4>2, <4>3
    <3>4. PICK cs \in Seq(Seq(Chars)) :
              /\ cs = Front1(h) /\ Len(cs) = k + 1
              /\ \A j \in 1..(k + 1) : cs[j] = Join(Piece(ls, m, j))
      <4>1. h \in 0..m
        OBVIOUS
      <4> QED
        BY <2>3, <3>2, <4>1
    <3>5. PICK us \in Seq(Seq(Chars)) : us = Append(bs, x) /\ Len(us) = k + 1 /\ Longer(us, bs, k, x)
      <4>1. PICK us \in Seq(Seq(Chars)), i \in Nat :
                us = Append(bs, x) /\ i = Len(bs) /\ Len(us) = i + 1 /\ Longer(us, bs, i, x)
        BY AppendLonger
      <4> QED
        BY <3>3, <4>1
    <3>6. cs = us
      <4>1. ASSUME NEW j \in 1..(k + 1) PROVE cs[j] = us[j]
        <5>1. CASE j = k + 1
          BY <2>3, <2>4, <3>4, <3>5, <5>1 DEF Longer
        <5>2. CASE j # k + 1
          <6>1. j \in 1..k
            BY <5>2
          <6> QED
            BY <3>3, <3>4, <3>5, <6>1 DEF Longer
        <5> QED
          BY <5>1, <5>2
      <4> QED
        BY <3>4, <3>5, <4>1, SeqEqual
    <3>7. Join(us) = Joined(Join(bs), x)
      BY <3>3, <3>5, JoinSteps DEF ManyLines
    <3>8. Join(bs) = Upto(k)
      BY <1>2, <2>1, <3>3
    <3> HIDE DEF Upto
    <3>9. Upto(h) = Joined(Upto(k), x)
      BY <2>3, <2>4, <2>5, <2>7
    <3> QED
      BY <2>3, <3>4, <3>6, <3>7, <3>8, <3>9
  <2> QED
    BY <2>6, <2>7
<1> HIDE DEF T
<1>3. f \in T
  <2>1. Nat \subseteq T
    BY <1>1, <1>2, NatSetInduction
  <2>2. f \in Nat
    OBVIOUS
  <2> QED
    BY <2>1, <2>2
<1>4. Join(Front1(f)) = Upto(f)
  BY <1>3 DEF T
<1>5. Upto(f) = Join(ls)
  BY SubSeqFull
<1> QED
  BY <1>4, <1>5

\* The first numbers, in order.
LEMMA FirstAscending == ASSUME NEW f \in Nat PROVE Ascending(1..f) = [k \in 1..f |-> k]
<1>1. PICK q \in Seq(1..f) : q = [k \in 1..f |-> k] /\ Len(q) = f /\ \A k \in 1..f : q[k] = k
  <2>1. [k \in 1..f |-> k] \in [1..f -> 1..f]
    OBVIOUS
  <2>2. [k \in 1..f |-> k] \in Seq(1..f) /\ Len([k \in 1..f |-> k]) = f
    BY <2>1
  <2> QED
    BY <2>2
<1>2. 1 \in Int /\ f \in Int
  OBVIOUS
<1>3. IsFiniteSet(1..f) /\ Cardinality(1..f) = IF 1 > f THEN 0 ELSE f - 1 + 1
  BY <1>2, FS_Interval
<1>4. Cardinality(1..f) = f
  BY <1>3
<1>5. Ascends(q, 1..f)
  BY <1>1, <1>4 DEF Ascends
<1>6. 1..f \in SUBSET Int
  OBVIOUS
<1> QED
  BY <1>1, <1>3, <1>5, <1>6, OneAscending

\* Split loses nothing.
LEMMA NothingIsLost == ASSUME MaxLen \in Nat, SplitInv PROVE LosesNothing
<1> SUFFICES ASSUME SplitDone
             PROVE  LET full == Ascending({k \in 1..n : Lines(k) # <<>>})
                        back == Join([j \in DOMAIN full |-> chunks[full[j]].data])
                    IN  Normalize(text) \in {back, back \o <<LF>>}
  BY DEF LosesNothing
<1>1. /\ n \in Nat \ {0} /\ 1 \in 1..n
      /\ \A k \in 1..n : Lines(k) = Piece(lines, n, k) /\ chunks[k] = Cutting(lines, n, k)
  <2>1. n \in Nat \ {0}
    BY DEF SplitInv, SplitArguments
  <2> QED
    BY <2>1, LinesAre
<1>2. TextLines(lines, text) /\ lines \in Seq(Seq(Chars)) /\ text \in Texts
  BY <1>1, LinesAre DEF SplitInv, SplitArguments
<1>3. PICK l \in Nat : l = Len(lines)
  BY <1>2
<1>4. PICK f \in 0..n : Offset(f, l, n) = l /\ \A k \in 0..(n - 1) : Share(k, l, n) > 0 <=> k < f
  BY <1>1, FullChunks
<1>5. {k \in 1..n : Lines(k) # <<>>} = 1..f
  <2>1. ASSUME NEW k \in 1..n PROVE Lines(k) # <<>> <=> k \in 1..f
    <3>1. PICK a \in Nat, b \in Nat, p \in Seq(Seq(Chars)) : IsPiece(p, a, b, lines, n, k, Seq(Chars))
      BY <1>1, <1>2, PieceIs
    <3>2. Lines(k) = p /\ Len(p) = b - a /\ b = a + Share(k - 1, l, n)
      BY <1>1, <1>3, <3>1 DEF IsPiece
    <3>3. p # <<>> <=> Len(p) > 0
      BY EmptySeq
    <3>4. k - 1 \in 0..(n - 1) /\ (k - 1 < f <=> k \in 1..f)
      BY <1>1
    <3>5. Share(k - 1, l, n) \in Nat
      BY <1>1, <3>4, OffsetSteps
    <3>6. Len(p) = Share(k - 1, l, n)
      BY <3>2, <3>5
    <3> QED
      BY <1>4, <3>2, <3>3, <3>4, <3>6
  <2>2. 1..f \subseteq 1..n
    BY <1>1
  <2> QED
    BY <2>1, <2>2
<1>6. PICK full : full = [k \in 1..f |-> k] /\ full = Ascending({k \in 1..n : Lines(k) # <<>>})
  <2>1. PICK full : full = Ascending({k \in 1..n : Lines(k) # <<>>})
    OBVIOUS
  <2>2. f \in Nat
    BY <1>1
  <2>3. full = Ascending(1..f)
    BY <1>5, <2>1
  <2>4. full = [k \in 1..f |-> k]
    BY <2>2, <2>3, FirstAscending
  <2> QED
    BY <2>1, <2>4
<1>7. [j \in DOMAIN full |-> chunks[full[j]].data] = [j \in 1..f |-> Join(Piece(lines, n, j))]
  <2>1. ASSUME NEW j \in 1..f PROVE chunks[full[j]].data = Join(Piece(lines, n, j))
    <3>1. full[j] = j /\ j \in 1..n
      BY <1>1, <1>6
    <3> QED
      BY <1>1, <3>1, CuttingFields
  <2> QED
    BY <1>6, <2>1
<1>8. Join([j \in 1..f |-> Join(Piece(lines, n, j))]) = Join(lines)
  BY <1>1, <1>2, <1>3, <1>4, ComesBack
<1>9. Normalize(text) \in {Join(lines), Join(lines) \o <<LF>>}
  <2>1. Normalize(text) \in Seq(Chars)
    BY <1>2, TextsAre, NormalizeSteps DEF SplitInv
  <2>2. Join(lines) = Trim(Normalize(text))
    BY <1>2 DEF TextLines
  <2> QED
    BY <2>1, <2>2, TrimIs
<1> QED
  BY <1>6, <1>7, <1>8, <1>9

\* The lines p after line a of the file, as a server sees them: all of them,
\* but for an only one that is empty, each with its carriage return or without.
SeenAt(seen, p, a, file) ==
    /\ p = <<<<>>>> => seen = <<>>
    /\ p # <<<<>>>> =>
           /\ Len(seen) = Len(p)
           /\ \A j \in 1..Len(p) : /\ file[a + j] = p[j] /\ seen[j] \in Seq(Chars)
                                   /\ seen[j] = p[j] \/ p[j] = Append(seen[j], CR)

\* Pieces of the lines have no line feed either.
LEMMA PiecePlain ==
    ASSUME NEW ls \in Seq(Seq(Chars)), AllPlain(ls), NEW m \in Nat \ {0}, NEW k \in 1..m,
           NEW a \in Nat, NEW b \in Nat, NEW p \in Seq(Seq(Chars)),
           IsPiece(p, a, b, ls, m, k, Seq(Chars))
    PROVE  AllPlain(p)
<1>1. PICK l \in Nat : l = Len(ls) /\ a <= b /\ b <= l /\ Len(p) = b - a
  BY DEF IsPiece
<1>2. ASSUME NEW j \in 1..(b - a) PROVE Plain(p[j])
  <2>1. a + j \in 1..l
    BY <1>1
  <2>2. p[j] = ls[a + j]
    BY DEF IsPiece
  <2> QED
    BY <1>1, <2>1, <2>2 DEF AllPlain
<1> QED
  BY <1>1, <1>2 DEF AllPlain

\* What a server makes of its chunk.
LEMMA ServerSees ==
    ASSUME NEW t, NEW ls, TextLines(ls, t), NEW m \in Nat \ {0}, NEW k \in 1..m,
           NEW c, c = Cutting(ls, m, k)
    PROVE  \E seen \in Seq(Seq(Chars)), p \in Seq(Seq(Chars)), a \in Nat, b \in Nat :
               /\ seen = ServerLines(c.data) /\ c.startLine = a + 1
               /\ IsPiece(p, a, b, ls, m, k, Seq(Chars))
               /\ SeenAt(seen, p, a, GrepLines(Normalize(t)))
<1>1. ls \in Seq(Seq(Chars)) /\ AllPlain(ls) /\ (ls # <<>> => GrepLines(Normalize(t)) = ls)
  BY DEF TextLines
<1>2. PICK a \in Nat, b \in Nat, p \in Seq(Seq(Chars)) : IsPiece(p, a, b, ls, m, k, Seq(Chars))
  BY <1>1, PieceIs
<1>3. c.startLine = a + 1 /\ c.data = Join(p)
  <2>1. /\ c.startLine = Offset(k - 1, Len(ls), m) + 1
        /\ c.data = Join(Piece(ls, m, k))
    BY CuttingFields
  <2>2. a = Offset(k - 1, Len(ls), m) /\ p = Piece(ls, m, k)
    BY <1>2 DEF IsPiece
  <2> QED
    BY <2>1, <2>2
<1>4. AllPlain(p)
  BY <1>1, <1>2, PiecePlain
<1>5. PICK z \in Seq(Seq(Chars)) : z = <<>> /\ Len(z) = 0
  BY EmptySeq
<1>6. CASE p = <<>>
  <2>1. ServerLines(c.data) = z
    BY <1>3, <1>5, <1>6, JoinSteps DEF ServerLines
  <2>2. <<>> # <<<<>>>> /\ Len(p) = 0
    BY <1>6
  <2>3. SeenAt(z, p, a, GrepLines(Normalize(t)))
    BY <1>5, <1>6, <2>2 DEF SeenAt
  <2> QED
    BY <1>2, <1>3, <2>1, <2>3
<1>7. CASE p = <<<<>>>>
  <2>1. c.data = <<>>
    BY <1>3, <1>7, EmptyText, JoinSteps
  <2>2. ServerLines(c.data) = z
    BY <1>5, <2>1 DEF ServerLines
  <2>3. SeenAt(z, p, a, GrepLines(Normalize(t)))
    BY <1>5, <1>7 DEF SeenAt
  <2> QED
    BY <1>2, <1>3, <2>2, <2>3
<1>8. CASE p # <<>> /\ p # <<<<>>>>
  <2>1. c.data # <<>>
    BY <1>3, <1>8, JoinNotEmpty
  <2>2. PICK seen \in Seq(Seq(Chars)), d \in Nat :
            /\ seen = Cut(Normalize(Join(p))) /\ d = Len(p) /\ Len(seen) = d
            /\ Sees(seen, p, d)
    BY <1>4, <1>8, SeenLines DEF ManyLines
  <2>3. ServerLines(c.data) = seen
    BY <1>3, <2>1, <2>2 DEF ServerLines
  <2>4. Len(p) = b - a /\ a <= b /\ b <= Len(ls) /\ \A j \in 1..(b - a) : p[j] = ls[a + j]
    BY <1>2 DEF IsPiece
  <2>5. ls # <<>>
    <3>1. d # 0
      BY <1>8, <2>2
    <3>2. Len(ls) # 0
      BY <2>2, <2>4, <3>1
    <3> QED
      BY <3>2
  <2>6. \A j \in 1..d : GrepLines(Normalize(t))[a + j] = p[j] /\ seen[j] \in Seq(Chars)
    <3>1. GrepLines(Normalize(t)) = ls
      BY <1>1, <2>5
    <3>2. \A j \in 1..d : ls[a + j] = p[j]
      BY <2>2, <2>4
    <3>3. \A j \in 1..d : seen[j] \in Seq(Chars)
      BY <2>2
    <3> QED
      BY <3>1, <3>2, <3>3
  <2>7. SeenAt(seen, p, a, GrepLines(Normalize(t)))
    BY <1>8, <2>2, <2>6 DEF SeenAt, Sees
  <2> QED
    BY <1>2, <1>3, <2>3, <2>7
<1> QED
  BY <1>6, <1>7, <1>8

\* The servers see the lines under the numbers of the input.
LEMMA NumbersAreKept == ASSUME MaxLen \in Nat, SplitInv PROVE KeepsNumbers
<1> SUFFICES ASSUME SplitDone, NEW k \in 1..n, Lines(k) # <<<<>>>>
             PROVE  LET seen == ServerLines(chunks[k].data)
                        file == GrepLines(Normalize(text))
                        from == chunks[k].startLine
                    IN  /\ Len(seen) = Len(Lines(k))
                        /\ \A j \in DOMAIN seen :
                              file[from + j - 1] \in {seen[j], seen[j] \o <<CR>>}
  BY DEF KeepsNumbers
<1>1. Lines(k) = Piece(lines, n, k) /\ chunks[k] = Cutting(lines, n, k)
      /\ TextLines(lines, text) /\ n \in Nat \ {0}
  BY LinesAre
<1>2. PICK seen \in Seq(Seq(Chars)), p \in Seq(Seq(Chars)), a \in Nat, b \in Nat :
          /\ seen = ServerLines(chunks[k].data) /\ chunks[k].startLine = a + 1
          /\ IsPiece(p, a, b, lines, n, k, Seq(Chars))
          /\ SeenAt(seen, p, a, GrepLines(Normalize(text)))
  BY <1>1, ServerSees
<1>3. p = Lines(k)
  BY <1>1, <1>2 DEF IsPiece
<1>4. PICK d \in Nat : d = Len(p) /\ DOMAIN seen = 1..d /\ Len(seen) = d
  <2>1. Len(seen) = Len(p)
    BY <1>2, <1>3 DEF SeenAt
  <2> QED
    BY <2>1
<1>5. ASSUME NEW j \in 1..d
      PROVE  GrepLines(Normalize(text))[(a + 1) + j - 1] \in {seen[j], seen[j] \o <<CR>>}
  <2>1. (a + 1) + j - 1 = a + j
    OBVIOUS
  <2>2. PICK q \in Seq(Chars) : /\ q = seen[j] /\ GrepLines(Normalize(text))[a + j] = p[j]
                                /\ q = p[j] \/ p[j] = Append(q, CR)
    BY <1>2, <1>3, <1>4 DEF SeenAt
  <2>3. Append(q, CR) = q \o <<CR>>
    <3>1. CR \in Chars
      BY DEF Chars
    <3> QED
      BY <3>1, AppendIsConcat
  <2> QED
    BY <2>1, <2>2, <2>3
<1> QED
  BY <1>2, <1>3, <1>4, <1>5

-----------------------------------------------------------------------------
(* The whole search.                                                        *)

\* A step of the client does not change what it was asked.
LEMMA AskedKept == ASSUME [Next]_vars PROVE UNCHANGED config
<1>1. CASE \/ Reject \/ Dispatch \/ Collect \/ Return \/ Exit \/ Close \/ Expire
           \/ Terminated \/ UNCHANGED vars
  BY <1>1 DEF Reject, Dispatch, Collect, Return, Exit, Close, Expire, Terminated, vars
<1>2. CASE \E s \in Servers :
               \/ Answered(s) \/ Refused(s) \/ Failed(s)
               \/ DialFails(s) \/ TriesAgain(s) \/ GivesUp(s)
               \/ WindowCloses(s) \/ BackoffEnds(s) \/ BackoffCancelled(s)
               \/ Report(s) \/ Drop(s)
  BY <1>2 DEF Answered, Refused, Failed, DialFails, TriesAgain, GivesUp, WindowCloses,
              BackoffEnds, BackoffCancelled, Returns, Turns, Report, Drop
<1> QED
  BY <1>1, <1>2 DEF Next

\* What a step of the search is to the client, apart from the cutting of the
\* input: one of its own steps or none, and main goes on only with the chunks
\* at hand, or refuses a quorum there cannot be.
ClientMoves ==
    /\ [Next]_vars /\ UNCHANGED <<splitVars, flags>>
    /\ \/ main' = main
       \/ splitPc = "done" /\ Searched
       \/ Reject

\* Every step of the search is a cut or a move of the client.
LEMMA StepKinds == ASSUME [SearchNext]_searchVars PROVE SplitStep \/ ClientMoves
<1>1. CASE RejectQuorum
  BY <1>1 DEF RejectQuorum, ClientMoves, Next
<1>2. CASE ClientStep
  BY <1>2 DEF ClientStep, ClientMoves, Next
<1>3. ASSUME NEW s \in Servers, DialFindsNoServer(s) PROVE ClientMoves
  BY <1>3 DEF DialFindsNoServer, DialFails, Turns, ClientMoves, Next
<1>4. ASSUME NEW s \in Servers, PostEnds(s) PROVE ClientMoves
  BY <1>4 DEF PostEnds, Answered, Refused, Failed, Returns, ClientMoves, Next
<1>5. ASSUME UNCHANGED <<splitVars, vars, flags>> PROVE ClientMoves
  BY <1>5 DEF ClientMoves, vars
<1>6. ASSUME NEW s \in Servers, Connect(s) \/ ServerStep(s) \/ ServerFault(s) PROVE ClientMoves
  <2>1. UNCHANGED <<splitVars, vars, flags>>
    BY <1>6 DEF Connect, ServerStep, ServerFault
  <2> QED
    BY <1>5, <2>1
<1>7. CASE Finished \/ UNCHANGED searchVars
  BY <1>5, <1>7 DEF Finished, searchVars
<1> QED
  BY <1>1, <1>2, <1>3, <1>4, <1>6, <1>7 DEF SearchNext

\* What is found is what the servers find in their chunks, once all are cut,
\* and before that main does not dispatch.
FoundInv ==
    /\ main # "start" /\ Quorum <= N => splitPc = "done" /\ Searched
    /\ found = IF splitPc = "done" /\ Searched
               THEN [s \in Servers |-> NumbersOf(chunks[s])] ELSE NothingFound

CutInv == SplitInv /\ quorumArg \in Int /\ FoundInv

\* Nothing is cut and nothing is found when the search begins.
LEMMA CutStarts == SearchInit => CutInv
<1> SUFFICES ASSUME SearchInit PROVE CutInv
  OBVIOUS
<1>1. SplitInv
  BY SearchBounds, SplitStarts DEF SearchInit
<1>2. quorumArg \in Int /\ main = "start" /\ found = NothingFound /\ splitPc # "done"
  BY ClientBounds DEF SearchInit, Init, SplitInit
<1> QED
  BY <1>1, <1>2 DEF CutInv, FoundInv

\* Cuts and moves of the client keep the chunks right and what is found in them.
LEMMA CutKept == ASSUME CutInv, [SearchNext]_searchVars PROVE CutInv'
<1>1. CASE SplitStep
  <2>1. SplitInv'
    <3>1. SplitNext
      BY <1>1 DEF SplitStep, SplitNext
    <3> QED
      BY <3>1, SearchBounds, SplitKeeps DEF CutInv
  <2>2. /\ main = "start" /\ main' = "start" /\ UNCHANGED <<quorumArg, invert, text, n>>
    BY <1>1 DEF SplitStep, Prepare, DealChunk, NoLines, SplitReturn, flags
  <2>3. Searched' = Searched
    BY <2>2 DEF Searched
  <2>4. CASE (Prepare \/ DealChunk) /\ UNCHANGED found
    <3>1. splitPc # "done" /\ splitPc' # "done"
      BY <2>4 DEF Prepare, DealChunk
    <3> QED
      BY <2>1, <2>2, <2>4, <3>1 DEF CutInv, FoundInv
  <2>5. CASE /\ NoLines \/ SplitReturn
             /\ found' = IF Searched THEN [s \in Servers |-> NumbersOf(chunks'[s])] ELSE found
    <3>1. splitPc # "done" /\ splitPc' = "done"
      BY <2>5 DEF NoLines, SplitReturn
    <3>2. found = NothingFound
      BY <3>1 DEF CutInv, FoundInv
    <3>3. [s \in Servers |-> NumbersOf(chunks'[s])] = [s \in Servers |-> NumbersOf(chunks[s])]'
      BY <2>2 DEF NumbersOf, Matches
    <3>4. found' = (IF splitPc = "done" /\ Searched
               THEN [s \in Servers |-> NumbersOf(chunks[s])] ELSE NothingFound)'
      BY <2>3, <2>5, <3>1, <3>2, <3>3
    <3> QED
      BY <2>1, <2>2, <3>4 DEF CutInv, FoundInv
  <2> QED
    BY <1>1, <2>4, <2>5 DEF SplitStep
<1>2. CASE ClientMoves
  <2>1. UNCHANGED splitVars /\ UNCHANGED config /\ UNCHANGED invert
    BY <1>2, AskedKept DEF ClientMoves, flags
  <2>2. SplitInv'
    BY <2>1, SearchBounds, SplitKeeps DEF CutInv
  <2>3. UNCHANGED <<text, n, splitPc, chunks, quorumArg, found>>
    BY <2>1 DEF splitVars, config
  <2>4. Searched' = Searched /\ Quorum' = Quorum
    BY <2>3 DEF Searched, Quorum
  <2>5. [s \in Servers |-> NumbersOf(chunks[s])]' = [s \in Servers |-> NumbersOf(chunks[s])]
    BY <2>1, <2>3 DEF NumbersOf, Matches
  <2>6. found' = (IF splitPc = "done" /\ Searched
             THEN [s \in Servers |-> NumbersOf(chunks[s])] ELSE NothingFound)'
    BY <2>3, <2>4, <2>5 DEF CutInv, FoundInv
  <2>7. (main # "start" /\ Quorum <= N => splitPc = "done" /\ Searched)'
    <3>1. CASE main' = main
      BY <2>3, <2>4, <3>1 DEF CutInv, FoundInv
    <3>2. CASE splitPc = "done" /\ Searched
      BY <2>3, <2>4, <3>2
    <3>3. CASE Reject
      <4>1. N \in Int /\ Quorum \in Int
        BY ClientBounds DEF Quorum, CutInv
      <4>2. ~(Quorum <= N)
        BY <3>3, <4>1 DEF Reject
      <4> QED
        BY <2>4, <4>2
    <3> QED
      BY <1>2, <3>1, <3>2, <3>3 DEF ClientMoves
  <2> QED
    BY <2>2, <2>3, <2>6, <2>7 DEF CutInv, FoundInv
<1> QED
  BY <1>1, <1>2, StepKinds

\* The invariant of the cut holds in every state of every search.
LEMMA CutInvariance == SearchSpec => []CutInv
<1> QED
  BY CutStarts, CutKept, PTL DEF SearchSpec

\* Whatever the text and the number of servers, no character is lost, doubled
\* or moved when chunk.Split cuts a text.
THEOREM TextComesBack == SearchSpec => []NothingLost
<1>1. CutInv => NothingLost
  BY SearchBounds, NothingIsLost DEF CutInv, NothingLost
<1> QED
  BY <1>1, CutInvariance, PTL

\* Whatever the text and the number of servers, every line reaches its server
\* under the number it has in the input.
THEOREM NumbersComeRight == SearchSpec => []NumbersRight
<1>1. CutInv => NumbersRight
  BY SearchBounds, NumbersAreKept DEF CutInv, NumbersRight
<1> QED
  BY <1>1, CutInvariance, PTL

-----------------------------------------------------------------------------
(* What is found.                                                           *)

\* A carriage return does not change whether a line matches.
LEMMA ReturnNoMatch ==
    ASSUME NEW q \in Seq(Chars)
    PROVE  Matches(Append(q, CR)) = Matches(q)
<1>1. PICK d \in Nat : d = Len(q) /\ DOMAIN q = 1..d
  OBVIOUS
<1>2. /\ DOMAIN Append(q, CR) = 1..(d + 1) /\ Append(q, CR)[d + 1] = CR
      /\ \A k \in 1..d : Append(q, CR)[k] = q[k]
  <2>1. CR \in Chars
    BY DEF Chars
  <2> QED
    BY <1>1, <2>1
<1>3. (\E k \in 1..(d + 1) : Append(q, CR)[k] = "x") <=> (\E k \in 1..d : q[k] = "x")
  <2>1. CR # "x"
    BY DEF CR
  <2>2. \A k \in 1..(d + 1) : k \in 1..d \/ k = d + 1
    OBVIOUS
  <2>3. \A k \in 1..d : k \in 1..(d + 1)
    OBVIOUS
  <2> QED
    BY <1>2, <2>1, <2>2, <2>3
<1> QED
  BY <1>1, <1>2, <1>3 DEF Matches

\* The numbers of the lines of a chunk.
Between(s) == (Offset(s - 1, Len(lines), N) + 1)..Offset(s, Len(lines), N)

\* Chunks of a greater number have lines of greater numbers.
LEMMA BetweenOrdered ==
    ASSUME MaxLen \in Nat, SplitInv, SplitDone, n = N
    PROVE  /\ \A s \in Servers : Between(s) \in SUBSET (Nat \ {0}) /\ IsFiniteSet(Between(s))
           /\ \A s, u \in Servers : s < u => \A k \in Between(s), l \in Between(u) : k < l
<1>1. PICK h \in Nat, m \in Nat \ {0} : h = Len(lines) /\ m = N
  BY ClientBounds DEF SplitInv, SplitDone, LinesReady, TextLines
<1>2. \A k \in 0..m : Offset(k, h, m) \in 0..h
  BY <1>1, OffsetSteps
<1>3. \A s \in Servers : s \in 1..m /\ s \in 0..m /\ s - 1 \in 0..m
  BY <1>1 DEF Servers
<1>4. ASSUME NEW s \in Servers
      PROVE  Between(s) \in SUBSET (Nat \ {0}) /\ IsFiniteSet(Between(s))
  <2>1. PICK i \in Nat, j \in Nat : /\ i = Offset(s - 1, Len(lines), N)
                                    /\ j = Offset(s, Len(lines), N)
    BY <1>1, <1>2, <1>3
  <2>2. Between(s) = (i + 1)..j
    BY <2>1 DEF Between
  <2>3. IsFiniteSet((i + 1)..j)
    BY FS_Interval
  <2>4. \A x \in (i + 1)..j : x \in Nat \ {0}
    OBVIOUS
  <2> QED
    BY <2>2, <2>3, <2>4
<1>5. ASSUME NEW s \in Servers, NEW u \in Servers, s < u,
             NEW k \in Between(s), NEW l \in Between(u)
      PROVE  k < l
  <2>1. s \in 0..m /\ u - 1 \in 0..m /\ s <= u - 1 /\ u \in 0..m /\ s - 1 \in 0..m
    BY <1>3, <1>5 DEF Servers
  <2>2. PICK x \in Int, y \in Int : x = Offset(s, h, m) /\ y = Offset(u - 1, h, m) /\ x <= y
    <3>1. Offset(s, h, m) \in 0..h /\ Offset(u - 1, h, m) \in 0..h
      BY <1>2, <2>1
    <3>2. \A i, j \in 0..m : i <= j => Offset(i, h, m) <= Offset(j, h, m)
      BY OffsetSteps
    <3>3. Offset(s, h, m) <= Offset(u - 1, h, m)
      BY <2>1, <3>2
    <3> QED
      BY <3>1, <3>3
  <2>3. PICK w \in Int, z \in Int : w = Offset(s - 1, h, m) /\ z = Offset(u, h, m)
    BY <1>2, <2>1
  <2>4. k \in (w + 1)..x /\ l \in (y + 1)..z
    BY <1>1, <2>2, <2>3 DEF Between
  <2> QED
    BY <2>2, <2>4
<1> QED
  BY <1>4, <1>5

\* The lines of a chunk are the lines of the input with the numbers between the
\* beginning of the chunk and that of the next one.
LEMMA ChunkLines ==
    ASSUME MaxLen \in Nat, SplitInv, SplitDone, n = N, NEW s \in Servers,
           NEW p \in Seq(Seq(Chars)), NEW a \in Nat, NEW b \in Nat,
           IsPiece(p, a, b, lines, n, s, Seq(Chars))
    PROVE  /\ Lines(s) = p /\ Len(p) = b - a
           /\ LinesAt(s) = (a + 1)..b /\ Between(s) = (a + 1)..b
<1>1. s \in 1..n
  BY DEF Servers
<1>2. Lines(s) = Piece(lines, n, s) /\ chunks[s] = Cutting(lines, n, s)
  BY <1>1, LinesAre
<1>3. /\ p = Piece(lines, n, s) /\ Len(p) = b - a /\ a <= b
      /\ a = Offset(s - 1, Len(lines), n) /\ b = Offset(s, Len(lines), n)
  BY DEF IsPiece
<1>4. chunks[s].startLine = a + 1
  BY <1>2, <1>3, CuttingFields
<1>5. LinesAt(s) = {(a + 1) + i - 1 : i \in 1..(b - a)}
  <2>1. DOMAIN p = 1..(b - a)
    BY <1>3
  <2> QED
    BY <1>2, <1>3, <1>4, <2>1 DEF LinesAt
<1>6. {(a + 1) + i - 1 : i \in 1..(b - a)} = (a + 1)..b
  <2>1. ASSUME NEW l \in (a + 1)..b PROVE l \in {(a + 1) + i - 1 : i \in 1..(b - a)}
    <3>1. l - a \in 1..(b - a) /\ (a + 1) + (l - a) - 1 = l
      BY <1>3
    <3> QED
      BY <3>1
  <2>2. \A i \in 1..(b - a) : (a + 1) + i - 1 \in (a + 1)..b
    BY <1>3
  <2> QED
    BY <2>1, <2>2
<1>7. Between(s) = (a + 1)..b
  BY <1>3 DEF Between
<1> QED
  BY <1>2, <1>3, <1>5, <1>6, <1>7

\* The lines that grep reads are dealt out, or there is at most an empty one.
LEMMA FileIs ==
    ASSUME MaxLen \in Nat, SplitInv, SplitDone
    PROVE  /\ lines # <<>> => File = lines
           /\ lines = <<>> => \A l \in DOMAIN File : File[l] = <<>>
<1>1. TextLines(lines, text)
  BY DEF SplitInv, LinesReady, SplitDone
<1>2. lines # <<>> => File = lines
  BY <1>1 DEF TextLines, File
<1>3. ASSUME lines = <<>> PROVE \A l \in DOMAIN File : File[l] = <<>>
  <2>1. Trim(Normalize(text)) = <<>>
    BY <1>1, <1>3, JoinSteps DEF TextLines
  <2>2. CASE Normalize(text) = <<>>
    BY <2>2 DEF File, GrepLines
  <2>3. CASE Normalize(text) # <<>>
    <3>1. GrepLines(Normalize(text)) = Cut(Trim(Normalize(text)))
      BY <2>1, <2>3 DEF GrepLines, Trim
    <3>2. File = <<<<>>>>
      BY <2>1, <3>1, CutSteps DEF File
    <3> QED
      BY <3>2
  <2> QED
    BY <2>2, <2>3
<1> QED
  BY <1>2, <1>3

\* Every number of a line is the number of a line of one of m chunks.
LEMMA SomeShare ==
    ASSUME NEW l \in Nat, NEW m \in Nat \ {0}, NEW x \in 1..l
    PROVE  \E k \in 1..m : x \in (Offset(k - 1, l, m) + 1)..Offset(k, l, m)
<1> DEFINE S == {k \in 0..m : x <= Offset(k, l, m)}
<1>1. Offset(0, l, m) = 0 /\ Offset(m, l, m) = l /\ \A k \in 0..m : Offset(k, l, m) \in Int
  BY OffsetSteps
<1>2. m \in S /\ 0 \notin S
  BY <1>1
<1>3. S \in SUBSET Int /\ IsFiniteSet(S) /\ S # {}
  <2>1. IsFiniteSet(0..m)
    BY FS_Interval
  <2> QED
    BY <1>2, <2>1, FS_Subset
<1>4. PICK k \in 0..m : k \in S /\ \A y \in S : k <= y
  BY <1>3, MinOfFinite
<1>5. k \in 1..m /\ k - 1 \in 0..m /\ k - 1 \notin S
  BY <1>2, <1>4
<1>6. ~(x <= Offset(k - 1, l, m)) /\ x <= Offset(k, l, m)
  BY <1>4, <1>5
<1>7. x \in (Offset(k - 1, l, m) + 1)..Offset(k, l, m)
  <2>1. Offset(k - 1, l, m) \in Int /\ Offset(k, l, m) \in Int
    BY <1>1, <1>5
  <2> QED
    BY <1>6, <2>1
<1> QED
  BY <1>5, <1>7

\* Every line that grep selects and that does not remain unsent is in a chunk.
LEMMA SomeChunk ==
    ASSUME MaxLen \in Nat, SplitInv, SplitDone, n = N, NEW l \in DOMAIN File \ Unsent
    PROVE  \E s \in Servers : l \in LinesAt(s)
<1>1. CASE File[l] = <<>>
  BY <1>1 DEF Unsent
<1>2. CASE File[l] # <<>>
  <2>1. File = lines /\ lines \in Seq(Seq(Chars))
    BY <1>2, FileIs DEF SplitInv, LinesReady, SplitDone, TextLines
  <2>2. PICK h \in Nat, m \in Nat \ {0} : h = Len(lines) /\ m = N /\ DOMAIN File = 1..h
    BY <2>1, ClientBounds
  <2>3. PICK s \in 1..m : l \in (Offset(s - 1, h, m) + 1)..Offset(s, h, m)
    BY <2>2, SomeShare
  <2>4. s \in Servers /\ l \in Between(s)
    BY <2>2, <2>3 DEF Servers, Between
  <2>5. PICK a \in Nat, b \in Nat, p \in Seq(Seq(Chars)) :
            IsPiece(p, a, b, lines, n, s, Seq(Chars))
    <3>1. n \in Nat \ {0} /\ s \in 1..n
      BY <2>2
    <3> QED
      BY <2>1, <3>1, PieceIs
  <2>6. LinesAt(s) = Between(s)
    BY <2>4, <2>5, ChunkLines
  <2> QED
    BY <2>4, <2>6
<1> QED
  BY <1>1, <1>2

\* What the server of a chunk finds are the lines of the chunk that grep selects
\* in the input, under their numbers, without an only one that is empty.
LEMMA ChunkNumbers ==
    ASSUME MaxLen \in Nat, SplitInv, SplitDone, n = N, NEW s \in Servers
    PROVE  /\ NumbersOf(chunks[s]) = {l \in Selected \ Unsent : l \in LinesAt(s)}
           /\ NumbersOf(chunks[s]) \subseteq Between(s)
<1>1. s \in 1..n
  BY DEF Servers
<1>2. /\ chunks[s] = Cutting(lines, n, s) /\ TextLines(lines, text) /\ n \in Nat \ {0}
      /\ lines \in Seq(Seq(Chars))
  BY <1>1, LinesAre
<1>3. PICK seen \in Seq(Seq(Chars)), p \in Seq(Seq(Chars)), a \in Nat, b \in Nat :
          /\ seen = ServerLines(chunks[s].data) /\ chunks[s].startLine = a + 1
          /\ IsPiece(p, a, b, lines, n, s, Seq(Chars))
          /\ SeenAt(seen, p, a, File)
  BY <1>1, <1>2, ServerSees DEF File
<1>4. /\ Lines(s) = p /\ Len(p) = b - a
      /\ LinesAt(s) = (a + 1)..b /\ Between(s) = (a + 1)..b
  BY <1>3, ChunkLines
<1>5. ASSUME NEW l \in (a + 1)..b
      PROVE  l \in DOMAIN File /\ l - a \in DOMAIN p /\ File[l] = p[l - a]
  <2>1. PICK h \in Nat : h = Len(lines) /\ DOMAIN lines = 1..h /\ b <= h
    <3>1. b <= Len(lines)
      BY <1>3 DEF IsPiece
    <3> QED
      BY <1>2, <3>1
  <2>2. l \in 1..h /\ l - a \in 1..(b - a) /\ a + (l - a) = l
    BY <2>1
  <2>3. File = lines
    <3>1. lines # <<>>
      BY <2>1, <2>2
    <3> QED
      BY <3>1, FileIs
  <2>4. \A j \in 1..(b - a) : p[j] = lines[a + j]
    BY <1>3 DEF IsPiece
  <2>5. DOMAIN p = 1..(b - a)
    BY <1>4
  <2>6. p[l - a] = lines[a + (l - a)]
    BY <2>2, <2>4
  <2> QED
    BY <2>1, <2>2, <2>3, <2>5, <2>6
<1>6. CASE p = <<<<>>>>
  <2>1. NumbersOf(chunks[s]) = {}
    <3>1. DOMAIN seen = {}
      BY <1>3, <1>6 DEF SeenAt
    <3> QED
      BY <1>3, <3>1 DEF NumbersOf
  <2>2. ASSUME NEW l \in LinesAt(s) PROVE l \in Unsent
    <3>1. b - a = 1 /\ Len(p) = 1
      BY <1>4, <1>6
    <3>2. b = a + 1
      BY <3>1
    <3>3. LinesAt(s) = {l} /\ l = a + 1
      BY <1>4, <2>2, <3>2
    <3>4. l \in DOMAIN File /\ File[l] = <<>>
      <4>1. l - a = 1
        BY <3>3
      <4> QED
        BY <1>4, <1>5, <1>6, <2>2, <4>1
    <3>5. ASSUME NEW u \in Servers, l \in LinesAt(u) PROVE u = s
      <4>1. l \in Between(u) /\ l \in Between(s)
        <5>1. u \in 1..n
          BY DEF Servers
        <5>2. PICK d \in Nat, e \in Nat, q \in Seq(Seq(Chars)) :
                  IsPiece(q, d, e, lines, n, u, Seq(Chars))
          BY <1>2, <5>1, PieceIs
        <5>3. LinesAt(u) = Between(u)
          BY <5>2, ChunkLines
        <5> QED
          BY <1>4, <2>2, <3>5, <5>3
      <4>2. \A v, w \in Servers : v < w => \A x \in Between(v), y \in Between(w) : x < y
        BY BetweenOrdered
      <4>3. ~(l < l)
        BY <3>3
      <4>4. ~(u < s) /\ ~(s < u)
        BY <4>1, <4>2, <4>3
      <4> QED
        BY <4>4 DEF Servers
    <3> QED
      BY <3>3, <3>4, <3>5 DEF Unsent
  <2> QED
    BY <2>1, <2>2
<1>7. CASE p # <<<<>>>>
  <2>1. PICK d \in Nat : d = Len(p) /\ DOMAIN seen = 1..d /\ DOMAIN p = 1..d /\ d = b - a
    <3>1. Len(seen) = Len(p)
      BY <1>3, <1>7 DEF SeenAt
    <3> QED
      BY <1>4, <3>1
  <2>2. \A j \in 1..d : Matches(seen[j]) = Matches(File[a + j])
    <3> SUFFICES ASSUME NEW j \in 1..d PROVE Matches(seen[j]) = Matches(File[a + j])
      OBVIOUS
    <3>1. PICK q \in Seq(Chars) : /\ q = seen[j] /\ File[a + j] = p[j]
                                  /\ q = p[j] \/ p[j] = Append(q, CR)
      BY <1>3, <1>7, <2>1 DEF SeenAt
    <3>2. Matches(Append(q, CR)) = Matches(q)
      BY ReturnNoMatch
    <3> QED
      BY <3>1, <3>2
  <2>3. NumbersOf(chunks[s]) = {a + i : i \in {j \in 1..d : Matches(seen[j])}}
    <3>1. NumbersOf(chunks[s]) =
              {chunks[s].startLine + i - 1 : i \in {j \in 1..d : Matches(seen[j])}}
      BY <1>3, <2>1 DEF NumbersOf
    <3>2. \A i \in 1..d : chunks[s].startLine + i - 1 = a + i
      <4>1. \A i \in 1..d : (a + 1) + i - 1 = a + i
        OBVIOUS
      <4> QED
        BY <1>3, <4>1
    <3> QED
      BY <3>1, <3>2
  <2>4. ASSUME NEW l \in (a + 1)..b PROVE l \notin Unsent
    <3>1. l \in DOMAIN File /\ l - a \in DOMAIN p /\ File[l] = p[l - a]
      BY <1>5
    <3>2. SUFFICES ASSUME File[l] = <<>>, (a + 1)..b = {l} PROVE FALSE
      BY <1>4 DEF Unsent
    <3>3. a + 1 = b /\ l = a + 1
      <4>1. a + 1 \in (a + 1)..b /\ b \in (a + 1)..b
        OBVIOUS
      <4> QED
        BY <3>2, <4>1
    <3>4. Len(p) = 1 /\ p[1] = <<>>
      <4>1. l - a = 1 /\ b - a = 1
        BY <3>3
      <4> QED
        BY <1>4, <3>1, <3>2, <4>1
    <3>5. p = <<<<>>>>
      BY <3>4
    <3> QED
      BY <1>7, <3>5
  <2>5. ASSUME NEW l \in NumbersOf(chunks[s])
        PROVE  l \in (a + 1)..b /\ l \in Selected
    <3>1. PICK i \in 1..d : l = a + i /\ Matches(seen[i])
      BY <2>3
    <3>2. l \in (a + 1)..b
      BY <2>1, <3>1
    <3>3. l \in DOMAIN File /\ Matches(File[l])
      BY <1>5, <2>2, <3>1, <3>2
    <3> QED
      BY <3>2, <3>3 DEF Selected
  <2>6. ASSUME NEW l \in (a + 1)..b, l \in Selected PROVE l \in NumbersOf(chunks[s])
    <3>1. l - a \in 1..d /\ a + (l - a) = l
      BY <2>1
    <3>2. Matches(File[l])
      BY <2>6 DEF Selected
    <3>3. Matches(seen[l - a])
      BY <2>2, <3>1, <3>2
    <3> QED
      BY <2>3, <3>1, <3>3
  <2> QED
    BY <1>4, <2>4, <2>5, <2>6
<1>8. NumbersOf(chunks[s]) \subseteq LinesAt(s)
  BY <1>6, <1>7
<1> QED
  BY <1>4, <1>6, <1>7

\* What is found is in the order of the chunks.
LEMMA FoundOrdered == CutInv => FoundOK
<1> SUFFICES ASSUME CutInv PROVE FoundOK
  OBVIOUS
<1>1. CASE splitPc = "done" /\ Searched
  <2>1. MaxLen \in Nat /\ SplitInv /\ SplitDone /\ n = N
    BY <1>1, SearchBounds DEF CutInv, SplitDone, Searched
  <2>2. found = [s \in Servers |-> NumbersOf(chunks[s])]
    BY <1>1 DEF CutInv, FoundInv
  <2>3. \A s \in Servers : found[s] \subseteq Between(s)
    BY <2>1, <2>2, ChunkNumbers
  <2>4. \A s \in Servers : Between(s) \in SUBSET (Nat \ {0}) /\ IsFiniteSet(Between(s))
    BY <2>1, BetweenOrdered
  <2>5. \A s \in Servers : found[s] \in SUBSET Nat /\ IsFiniteSet(found[s])
    BY <2>3, <2>4, FS_Subset
  <2>6. InOrder(found)
    BY <2>1, <2>3, BetweenOrdered DEF InOrder
  <2> QED
    BY <2>2, <2>5, <2>6 DEF FoundOK
<1>2. CASE ~(splitPc = "done" /\ Searched)
  <2>1. found = NothingFound
    BY <1>2 DEF CutInv, FoundInv
  <2>2. \A s \in Servers : found[s] = {}
    BY <2>1 DEF NothingFound
  <2>3. IsFiniteSet({})
    BY FS_EmptySet
  <2> QED
    BY <2>1, <2>2, <2>3 DEF FoundOK, InOrder, NothingFound
<1> QED
  BY <1>1, <1>2

-----------------------------------------------------------------------------
(* The client of the search.                                                *)

\* The same after a step.
LEMMA FoundOrderedNext == CutInv' => FoundOK'
<1> QED
  BY FoundOrdered, PTL

\* A cut of the input leaves the client where it is.
LEMMA CutLeavesClient ==
    ASSUME CutInv, CutInv', ClientInv, ResultInv, SplitStep
    PROVE  ClientInv' /\ ResultInv'
<1>1. /\ UNCHANGED <<quorumArg, retry, mode, pc, answer, windowOpen, expired, resCh>>
      /\ UNCHANGED <<closed, main, successes, failures, result, exitCode>>
      /\ main = "start"
  BY DEF SplitStep
<1>2. Quorum' = Quorum /\ FoundOK'
  BY <1>1, FoundOrderedNext DEF Quorum
<1>3. ClientInv'
  <2>1. CountersOK' /\ OneResult' /\ SuccessIsAnswer'
    BY <1>1 DEF ClientInv, CountersOK, OneResult, SuccessIsAnswer
  <2>2. FailuresCounted'
    BY <1>1 DEF ClientInv, FailuresCounted, Unsuccessful, InChannel
  <2>3. ReturnsLast'
    BY <1>1, <1>2 DEF ClientInv, ReturnsLast, Returned
  <2> QED
    BY <2>1, <2>2, <2>3 DEF ClientInv
<1>4. RequestOK' /\ Bounded'
  BY <1>1, <1>2 DEF ResultInv, RequestOK, Bounded, Ended
<1>5. MainOK'
  BY <1>1, <1>2 DEF ResultInv, MainOK, Returned
<1> QED
  BY <1>3, <1>4, <1>5 DEF ResultInv

\* What is proved of the client holds in every search.
ClientWorks == CutInv /\ ClientInv /\ ResultInv

\* The client begins the search as it begins alone.
LEMMA ClientWorksStart == SearchInit => ClientWorks
<1>1. SearchInit => Init
  BY DEF SearchInit
<1> QED
  BY <1>1, CutStarts, ClientInit, ResultInit DEF ClientWorks

\* The moves of the client are steps it has alone, and a cut leaves it where it is.
LEMMA ClientWorksKept == ASSUME ClientWorks, [SearchNext]_searchVars PROVE ClientWorks'
<1>1. CutInv /\ ClientInv /\ ResultInv /\ CutInv'
  BY CutKept DEF ClientWorks
<1>2. CASE SplitStep
  BY <1>1, <1>2, CutLeavesClient DEF ClientWorks
<1>3. CASE ClientMoves
  <2>1. [Next]_vars
    BY <1>3 DEF ClientMoves
  <2>2. ClientInv'
    BY <1>1, <2>1, ClientKept
  <2>3. RequestOK' /\ Bounded' /\ MainOK'
    BY <1>1, <2>1, RequestKept, BoundedKept, MainKept DEF ResultInv
  <2> QED
    BY <1>1, <2>2, <2>3 DEF ClientWorks, ResultInv
<1> QED
  BY <1>2, <1>3, StepKinds

\* The invariants of the client hold in every state of every search.
LEMMA ClientWorksAlways == SearchSpec => []ClientWorks
<1> QED
  BY ClientWorksStart, ClientWorksKept, PTL DEF SearchSpec

\* There is one ascending order of the members of a sequence.
LEMMA OneOrder ==
    ASSUME NEW q \in Seq(Nat), Increasing(q)
    PROVE  q = Ascending(ToSet(q))
<1>1. PICK d \in Nat : /\ d = Len(q) /\ DOMAIN q = 1..d /\ q \in [1..d -> Nat]
                       /\ \A k \in 1..d : q[k] \in Nat
  OBVIOUS
<1>2. PICK S \in SUBSET Nat : S = ToSet(q) /\ S = {q[k] : k \in 1..d}
  <2>1. ToSet(q) = {q[k] : k \in 1..d} /\ {q[k] : k \in 1..d} \in SUBSET Nat
    BY <1>1 DEF ToSet
  <2> QED
    BY <2>1
<1>3. IsFiniteSet(S) /\ Cardinality(S) = d
  <2>1. q \in Bijection(1..d, S)
    <3>1. q \in [1..d -> S]
      BY <1>1, <1>2
    <3>2. \A k, m \in 1..d : q[k] = q[m] => k = m
      <4> SUFFICES ASSUME NEW k \in 1..d, NEW m \in 1..d, q[k] = q[m], k # m PROVE FALSE
        OBVIOUS
      <4>1. k < m \/ m < k
        OBVIOUS
      <4>2. q[k] < q[m] \/ q[m] < q[k]
        BY <1>1, <4>1 DEF Increasing
      <4>3. q[k] \in Nat
        BY <1>1
      <4> QED
        BY <4>2, <4>3
    <3>3. \A x \in S : \E k \in 1..d : q[k] = x
      BY <1>2
    <3> QED
      BY <3>1, <3>2, <3>3, Fun_IsBij
  <2>2. 1 \in Int /\ d \in Int
    OBVIOUS
  <2>3. IsFiniteSet(1..d)
    BY <2>2, FS_Interval
  <2>4. Cardinality(1..d) = IF 1 > d THEN 0 ELSE d - 1 + 1
    BY <2>2, FS_Interval
  <2>5. Cardinality(S) = Cardinality(1..d) /\ IsFiniteSet(S)
    BY <2>1, <2>3, FS_Bijection DEF ExistsBijection
  <2> QED
    BY <2>4, <2>5
<1>4. Ascends(q, S)
  <2>1. q \in Seq(S) /\ Len(q) = Cardinality(S)
    <3>1. \A k \in 1..d : q[k] \in S
      BY <1>2
    <3>2. q \in [1..d -> S]
      BY <1>1, <3>1
    <3>3. q \in Seq(S)
      BY <3>2
    <3> QED
      BY <1>1, <1>3, <3>3
  <2>2. \A k, m \in 1..Len(q) : k < m => q[k] < q[m]
    BY <1>1 DEF Increasing
  <2>3. \A x \in S : \E k \in 1..Len(q) : q[k] = x
    BY <1>1, <1>2
  <2> QED
    BY <2>1, <2>2, <2>3 DEF Ascends
<1>5. S \in SUBSET Int
  OBVIOUS
<1> QED
  BY <1>2, <1>3, <1>4, <1>5, OneAscending

-----------------------------------------------------------------------------
(* The output.                                                              *)

\* The lines that grep selects, those of the chunks that were answered.
Hits == {l \in Selected \ Unsent : \E s \in successes : l \in LinesAt(s)}

\* What the answering servers found is what grep selects in their chunks, and
\* that is all but the unsent lines when all of them answered.
LEMMA HitsAreSeen ==
    ASSUME ClientWorks, Returned
    PROVE  Hits = Seen /\ (successes = Servers => Hits = Selected \ Unsent)
<1>1. MaxLen \in Nat /\ SplitInv /\ SplitDone /\ n = N /\ Searched
  BY SearchBounds DEF ClientWorks, CutInv, FoundInv, Returned, SplitDone, Searched
<1>2. found = [s \in Servers |-> NumbersOf(chunks[s])]
  BY <1>1 DEF ClientWorks, CutInv, FoundInv, SplitDone
<1>3. successes \subseteq Servers
  BY DEF ClientWorks, ClientInv, CountersOK
<1>4. \A s \in successes : found[s] = {l \in Selected \ Unsent : l \in LinesAt(s)}
  BY <1>1, <1>2, <1>3, ChunkNumbers
<1>5. Hits = Seen
  BY <1>4 DEF Hits, Seen
<1>6. ASSUME successes = Servers PROVE Hits = Selected \ Unsent
  <2>1. \A l \in DOMAIN File \ Unsent : \E s \in Servers : l \in LinesAt(s)
    BY <1>1, SomeChunk
  <2> QED
    BY <1>6, <2>1 DEF Hits, Selected
<1> QED
  BY <1>5, <1>6

\* What main prints and its exit code, from the invariants.
LEMMA OutputRight == ASSUME ClientWorks PROVE PrintedIsGrep
<1> SUFFICES ASSUME Returned PROVE PrintedIsGrep
  BY DEF PrintedIsGrep
<1>1. PICK hits : /\ hits = Hits /\ hits = Seen
                  /\ successes = Servers => hits = Selected \ Unsent
  BY HitsAreSeen
<1>2. ResultOK /\ mode \in Modes
  BY DEF ClientWorks, ResultInv, MainOK, RequestOK
<1>3. IsFiniteSet(Seen)
  <2>1. Asked
    BY DEF Asked, ClientWorks, ClientInv, CountersOK, ResultInv, RequestOK
  <2> QED
    BY <2>1, CountIs
<1>4. Cardinality(hits) \in Nat /\ (Cardinality(hits) = 0 <=> hits = {})
  BY <1>1, <1>3, FS_CardinalityType, FS_EmptySet
<1>5. mode = "lines" => result.matches = Ascending(hits)
  <2> SUFFICES ASSUME mode = "lines" PROVE result.matches = Ascending(hits)
    OBVIOUS
  <2>1. result.matches \in Seq(Nat) /\ Increasing(result.matches)
    BY <1>2 DEF ResultOK
  <2>2. ToSet(result.matches) = hits
    BY <1>1, <1>2 DEF ResultOK
  <2> QED
    BY <2>1, <2>2, OneOrder
<1>6. Printed = CASE mode = "count" -> <<Cardinality(hits)>>
                  [] mode = "list"  -> IF hits # {} /\ named THEN <<"file">> ELSE <<>>
                  [] mode = "lines" -> Ascending(hits)
  <2>1. CASE mode = "count"
    BY <1>1, <1>2, <2>1 DEF Printed, ResultOK
  <2>2. CASE mode = "list"
    BY <1>1, <1>2, <2>2 DEF Printed, ResultOK
  <2>3. CASE mode = "lines"
    BY <1>5, <2>3 DEF Printed
  <2> QED
    BY <1>2, <2>1, <2>2, <2>3 DEF Modes
<1>7. main = "exited" => exitCode = IF ~result.met THEN 2 ELSE IF hits # {} THEN 0 ELSE 1
  <2> SUFFICES ASSUME main = "exited"
               PROVE  exitCode = IF ~result.met THEN 2 ELSE IF hits # {} THEN 0 ELSE 1
    OBVIOUS
  <2>1. exitCode = CodeOf(result)
    BY DEF ClientWorks, ResultInv, MainOK, Returned
  <2>2. mode = "count" => (result.count > 0 <=> hits # {})
    BY <1>1, <1>2, <1>4 DEF ResultOK
  <2>3. result.hasMatch <=> hits # {}
    BY <1>1, <1>2 DEF ResultOK
  <2> QED
    BY <2>1, <2>2, <2>3 DEF CodeOf
<1>8. exitCode = 0 => hits # {}
  <2>1. CASE main = "exited"
    BY <1>7, <2>1
  <2>2. CASE main # "exited"
    BY <2>2 DEF ClientWorks, ResultInv, MainOK
  <2> QED
    BY <2>1, <2>2
<1>9. main = "exited" /\ successes = Servers => exitCode = IF hits # {} THEN 0 ELSE 1
  <2>1. successes = Servers => result.met
    BY <1>2, ServersFinite DEF ResultOK, Returned
  <2> QED
    BY <1>7, <2>1
<1>10. hits = {l \in Selected \ Unsent : \E s \in successes : l \in LinesAt(s)}
  BY <1>1 DEF Hits
<1>11. main = "exited" /\ successes = Servers =>
           exitCode = IF Selected \ Unsent # {} THEN 0 ELSE 1
  BY <1>1, <1>9
<1> HIDE DEF Hits
<1> QED
  BY <1>6, <1>8, <1>10, <1>11 DEF PrintedIsGrep

\* What main prints is what grep selects in the chunks that were answered, and
\* when all were, the exit code says whether grep selects a line at all, for
\* every text, every number of servers and whatever happens to them.  The
\* exceptions are those of PrintedIsGrep: -v does not select the unsent lines,
\* and -l prints no name for stdin.
THEOREM OutputIsGrep == SearchSpec => []PrintedIsGrep
<1>1. ClientWorks => PrintedIsGrep
  BY OutputRight
<1> QED
  BY <1>1, ClientWorksAlways, PTL

-----------------------------------------------------------------------------
(* The servers that fail, and those that are excused.                       *)

\* A step of the server of s.
ServerMoves(s) ==
    \/ Server!Connect(s) \/ Server!Accept(s) \/ Server!Respond(s) \/ Server!Start(s)
    \/ Server!Listen(s) \/ Server!ListenFails(s) \/ Server!ShutdownReturns(s)

ServerBreaks(s) == Server!Signal(s) \/ Server!ShutdownTimesOut(s) \/ Server!Crash(s)

\* The types of what the client's invariants do not speak of.
LivesInv ==
    /\ Server!LivesOK
    /\ valid \in BOOLEAN /\ invert \in BOOLEAN /\ named \in BOOLEAN
    /\ excused \subseteq Servers

\* Every step of the search leaves the servers alone, is one of theirs, or breaks
\* one; then those whose connection is cut are excused.
LEMMA ServerKinds ==
    ASSUME [SearchNext]_searchVars
    PROVE  /\ UNCHANGED flags
           /\ \/ UNCHANGED serverVars
              \/ \E s \in Servers : ServerMoves(s)
              \/ (\E s \in Servers : ServerBreaks(s))
                     /\ \A s \in Servers : conn'[s] = "cut" => s \in excused'
<1>1. CASE RejectQuorum \/ SplitStep \/ ClientStep
  BY <1>1 DEF RejectQuorum, SplitStep, ClientStep
<1>2. ASSUME NEW s \in Servers, Connect(s) \/ DialFindsNoServer(s) \/ PostEnds(s) \/ ServerStep(s)
      PROVE  UNCHANGED flags /\ (UNCHANGED serverVars \/ ServerMoves(s))
  BY <1>2 DEF Connect, DialFindsNoServer, PostEnds, ServerStep, ServerMoves
<1>3. CASE /\ \E s \in Servers : ServerFault(s)
           /\ excused' = excused \cup {s \in Servers : DialedTooLate(s)' \/ conn'[s] = "cut"}
  <2>1. UNCHANGED flags /\ \E s \in Servers : ServerBreaks(s)
    BY <1>3 DEF ServerFault, ServerBreaks
  <2>2. \A s \in Servers : conn'[s] = "cut" => s \in excused'
    BY <1>3
  <2> QED
    BY <2>1, <2>2
<1>4. CASE Finished \/ UNCHANGED searchVars
  BY <1>4 DEF Finished, searchVars, flags, serverVars
<1> QED
  BY <1>1, <1>2, <1>3, <1>4 DEF SearchNext

\* An excuse stays, and who was dialed too late is excused by the step.
LEMMA ExcusedGrows ==
    ASSUME [SearchNext]_searchVars, excused \subseteq Servers
    PROVE  /\ excused \subseteq excused' /\ excused' \subseteq Servers
           /\ \/ \A s \in Servers : DialedTooLate(s)' => s \in excused'
              \/ UNCHANGED searchVars
<1>1. CASE excused' = excused \cup {s \in Servers : DialedTooLate(s)'}
  BY <1>1
<1>2. CASE excused' = excused \cup {s \in Servers : DialedTooLate(s)' \/ conn'[s] = "cut"}
  BY <1>2
<1>3. CASE Finished \/ UNCHANGED searchVars
  BY <1>3 DEF Finished, searchVars
<1> QED
  BY <1>1, <1>2, <1>3 DEF SearchNext

\* The servers are down or up when the search begins, and nobody is excused.
LEMMA LivesStart == SearchInit => LivesInv
<1> SUFFICES ASSUME SearchInit PROVE LivesInv
  OBVIOUS
<1>1. /\ Server!LivesInit /\ valid \in BOOLEAN /\ invert \in BOOLEAN
      /\ named \in BOOLEAN /\ excused = {}
  BY DEF SearchInit
<1>2. 0 \in 0..MaxStarts
  BY SearchBounds
<1>3. Server!LivesOK
  BY <1>1, <1>2 DEF Server!LivesInit, Server!LivesOK
<1> QED
  BY <1>1, <1>3 DEF LivesInv

\* Starts, stops and crashes keep the types; no server is started too often.
LEMMA LivesKept == ASSUME LivesInv, [SearchNext]_searchVars PROVE LivesInv'
<1>1. UNCHANGED flags /\ excused' \subseteq Servers
  BY ServerKinds, ExcusedGrows DEF LivesInv
<1>2. Server!LivesOK'
  <2>1. CASE UNCHANGED serverVars
    BY <2>1 DEF LivesInv, Server!LivesOK, serverVars
  <2>2. ASSUME NEW s \in Servers, Server!Start(s) PROVE Server!LivesOK'
    <3>1. starts[s] + 1 \in 0..MaxStarts
      BY <2>2, SearchBounds DEF LivesInv, Server!LivesOK, Server!Start
    <3> QED
      BY <2>2, <3>1 DEF LivesInv, Server!LivesOK, Server!Start, Server!Becomes
  <2>3. ASSUME NEW s \in Servers,
               \/ Server!Connect(s) \/ Server!Accept(s) \/ Server!Respond(s)
               \/ Server!Listen(s) \/ Server!ListenFails(s) \/ Server!ShutdownReturns(s)
        PROVE  Server!LivesOK'
    BY <2>3 DEF LivesInv, Server!LivesOK, Server!Connect, Server!Accept, Server!Respond,
                Server!Listen, Server!ListenFails, Server!ShutdownReturns,
                Server!Becomes, Server!Connection
  <2>4. ASSUME NEW s \in Servers, ServerBreaks(s) PROVE Server!LivesOK'
    BY <2>4 DEF LivesInv, Server!LivesOK, ServerBreaks, Server!Signal,
                Server!ShutdownTimesOut, Server!Crash, Server!Becomes, Server!Cut
  <2> QED
    BY <2>1, <2>2, <2>3, <2>4, ServerKinds DEF ServerMoves
<1> QED
  BY <1>1, <1>2 DEF LivesInv, flags

\* A server whose connection was cut is excused, and so is one that was not up
\* at its last dial.
Excused ==
    /\ \A s \in Servers : conn[s] = "cut" => s \in excused
    /\ \A s \in Servers : DialedTooLate(s) => s \in excused

\* No connection is cut, and no last dial is in vain, without an excuse.
LEMMA ExcusedKept ==
    ASSUME LivesInv, Excused, [SearchNext]_searchVars
    PROVE  Excused'
<1>1. ASSUME NEW s \in Servers, conn'[s] = "cut" PROVE s \in excused'
  <2>1. excused \subseteq excused'
    BY ExcusedGrows DEF LivesInv
  <2>2. CASE UNCHANGED serverVars
    BY <1>1, <2>1, <2>2 DEF Excused, serverVars
  <2>3. ASSUME NEW u \in Servers, ServerMoves(u) PROVE conn[s] = "cut"
    BY <1>1, <2>3 DEF LivesInv, Server!LivesOK, ServerMoves, Server!Connect, Server!Accept,
                      Server!Respond, Server!Start, Server!Listen, Server!ListenFails,
                      Server!ShutdownReturns, Server!Becomes, Server!Connection
  <2> QED
    BY <1>1, <2>1, <2>2, <2>3, ServerKinds DEF Excused
<1>2. CASE \A s \in Servers : DialedTooLate(s)' => s \in excused'
  BY <1>1, <1>2 DEF Excused
<1>3. CASE UNCHANGED searchVars
  <2>1. UNCHANGED <<pc, windowOpen, conn, excused>>
    BY <1>3 DEF searchVars, vars, serverVars
  <2> QED
    BY <2>1 DEF Excused, DialedTooLate
<1> QED
  BY <1>2, <1>3, ExcusedGrows DEF LivesInv

-----------------------------------------------------------------------------
(* The answers.                                                             *)

\* What an answer says of its server, and where it is until it is counted.
AnswerOK(s) ==
    /\ pc[s] \in {"report", "done"} => answer[s] # "none"
    /\ answer[s] = "error" => expired \/ s \in excused
    /\ answer[s] = "ok" => valid
    /\ answer[s] = "refused" => ~valid
    /\ pc[s] = "done" /\ ~expired /\ answer[s] = "ok" => InChannel(s) \/ s \in successes

AnswersOK == \A s \in Servers : AnswerOK(s)

\* A goroutine gets its answer.
LEMMA AnswerArrives ==
    ASSUME ClientInv, AnswersOK, NEW s \in Servers, NEW a \in {"ok", "refused", "error"},
           excused \subseteq excused',
           a = "error" => expired \/ s \in excused', a = "ok" => valid, a = "refused" => ~valid,
           answer' = [answer EXCEPT ![s] = a], pc' = [pc EXCEPT ![s] = "report"],
           UNCHANGED <<expired, resCh, successes, valid>>
    PROVE  AnswersOK'
<1> SUFFICES ASSUME NEW u \in Servers PROVE AnswerOK(u)'
  BY DEF AnswersOK
<1>1. answer \in [Servers -> {"none", "ok", "refused", "error"}]
      /\ pc \in [Servers -> {"post", "dialed", "backoff", "report", "done"}]
  BY DEF ClientInv, CountersOK
<1>2. InChannel(u)' <=> InChannel(u)
  BY DEF InChannel
<1>3. AnswerOK(u)
  BY DEF AnswersOK
<1>4. CASE u = s
  BY <1>1, <1>4 DEF AnswerOK
<1>5. CASE u # s
  <2>1. answer'[u] = answer[u] /\ pc'[u] = pc[u]
    BY <1>1, <1>5
  <2> QED
    BY <1>2, <1>3, <2>1 DEF AnswerOK
<1> QED
  BY <1>4, <1>5

\* A goroutine ends, with its answer in the channel or after the timeout.
LEMMA AnswerReported ==
    ASSUME ClientInv, AnswersOK, NEW s \in Servers, Report(s) \/ Drop(s),
           excused \subseteq excused', valid' = valid
    PROVE  AnswersOK'
<1> SUFFICES ASSUME NEW u \in Servers PROVE AnswerOK(u)'
  BY DEF AnswersOK
<1>1. /\ pc \in [Servers -> {"post", "dialed", "backoff", "report", "done"}] /\ resCh \in Seq(Servers)
      /\ pc[s] = "report" /\ pc' = [pc EXCEPT ![s] = "done"]
      /\ UNCHANGED <<answer, expired, successes>>
  BY DEF ClientInv, CountersOK, Report, Drop
<1>2. AnswerOK(u) /\ AnswerOK(s)
  BY DEF AnswersOK
<1>3. CASE Report(s)
  <2>1. resCh' = Append(resCh, s)
    BY <1>3 DEF Report
  <2>2. PICK d \in Nat : d = Len(resCh) /\ DOMAIN resCh = 1..d
    BY <1>1
  <2>3. /\ DOMAIN resCh' = 1..(d + 1) /\ resCh'[d + 1] = s
        /\ \A k \in 1..d : resCh'[k] = resCh[k]
    BY <1>1, <2>1, <2>2
  <2>4. InChannel(s)' /\ (InChannel(u) => InChannel(u)')
    <3>1. d + 1 \in 1..(d + 1) /\ \A k \in 1..d : k \in 1..(d + 1)
      OBVIOUS
    <3> QED
      BY <2>2, <2>3, <3>1 DEF InChannel
  <2>5. CASE u = s
    BY <1>1, <1>2, <2>4, <2>5 DEF AnswerOK
  <2>6. CASE u # s
    <3>1. pc'[u] = pc[u]
      BY <1>1, <2>6
    <3> QED
      BY <1>1, <1>2, <2>4, <3>1 DEF AnswerOK
  <2> QED
    BY <2>5, <2>6
<1>4. CASE Drop(s)
  <2>1. expired /\ resCh' = resCh
    BY <1>4 DEF Drop
  <2>2. pc'[u] \in {"report", "done"} => pc[u] \in {"report", "done"}
    BY <1>1
  <2> QED
    BY <1>1, <1>2, <2>1, <2>2 DEF AnswerOK
<1> QED
  BY <1>3, <1>4

\* Run takes an answer from the channel.
LEMMA AnswerCollected ==
    ASSUME ClientInv, AnswersOK, Collect, excused \subseteq excused', valid' = valid
    PROVE  AnswersOK'
<1> SUFFICES ASSUME NEW u \in Servers PROVE AnswerOK(u)'
  BY DEF AnswersOK
<1>1. resCh \in Seq(Servers) /\ resCh # <<>> /\ resCh' = Tail(resCh)
      /\ UNCHANGED <<pc, answer, expired>>
      /\ successes' = (IF answer[Head(resCh)] = "ok" THEN successes \cup {Head(resCh)} ELSE successes)
  BY DEF ClientInv, CountersOK, Collect
<1>2. AnswerOK(u)
  BY DEF AnswersOK
<1>3. PICK d \in Nat : Len(resCh) = d + 1 /\ DOMAIN resCh = 1..(d + 1) /\ resCh[1] = Head(resCh)
  <2>1. Len(resCh) \in Nat \ {0} /\ DOMAIN resCh = 1..Len(resCh) /\ resCh[1] = Head(resCh)
    BY <1>1
  <2>2. Len(resCh) - 1 \in Nat /\ Len(resCh) = (Len(resCh) - 1) + 1
    BY <2>1
  <2> QED
    BY <2>1, <2>2
<1>4. DOMAIN resCh' = 1..d /\ \A k \in 1..d : resCh'[k] = resCh[k + 1]
  BY <1>1, <1>3
<1>5. ASSUME InChannel(u), answer[u] = "ok" PROVE InChannel(u)' \/ u \in successes'
  <2>1. PICK k \in 1..(d + 1) : resCh[k] = u
    BY <1>3, <1>5 DEF InChannel
  <2>2. CASE k = 1
    BY <1>1, <1>3, <1>5, <2>1, <2>2
  <2>3. CASE k # 1
    <3>1. PICK j \in 1..d : k = j + 1
      <4>1. k - 1 \in 1..d /\ k = (k - 1) + 1
        BY <2>3
      <4> QED
        BY <4>1
    <3>2. resCh'[j] = u
      BY <1>4, <2>1, <3>1
    <3> QED
      BY <1>4, <3>2 DEF InChannel
  <2> QED
    BY <2>2, <2>3
<1>6. successes \subseteq successes'
  BY <1>1
<1> QED
  BY <1>1, <1>2, <1>5, <1>6 DEF AnswerOK

\* Before an answer arrives, nothing is said of it.
LEMMA NoNewAnswer ==
    ASSUME ClientInv, AnswersOK, excused \subseteq excused', valid' = valid,
           expired => expired', UNCHANGED <<answer, resCh, successes>>,
           \A s \in Servers : pc'[s] = pc[s] \/ pc'[s] \in {"post", "dialed", "backoff"}
    PROVE  AnswersOK'
<1> SUFFICES ASSUME NEW u \in Servers PROVE AnswerOK(u)'
  BY DEF AnswersOK
<1>1. InChannel(u)' <=> InChannel(u)
  BY DEF InChannel
<1>2. AnswerOK(u)
  BY DEF AnswersOK
<1>3. pc'[u] \in {"report", "done"} => pc'[u] = pc[u]
  <2>1. pc'[u] = pc[u] \/ pc'[u] \in {"post", "dialed", "backoff"}
    OBVIOUS
  <2> QED
    BY <2>1
<1> QED
  BY <1>1, <1>2, <1>3 DEF AnswerOK

\* Every step of the search keeps what is known of the answers.
LEMMA AnswersKept ==
    ASSUME ClientWorks, LivesInv, Excused, AnswersOK, [SearchNext]_searchVars
    PROVE  AnswersOK'
<1>1. ClientInv /\ excused \subseteq excused' /\ valid' = valid
  BY ExcusedGrows, ServerKinds DEF ClientWorks, LivesInv, flags
<1>2. /\ pc \in [Servers -> {"post", "dialed", "backoff", "report", "done"}]
      /\ answer \in [Servers -> {"none", "ok", "refused", "error"}]
  BY <1>1 DEF ClientInv, CountersOK
<1>3. ASSUME NEW s \in Servers, NEW from, NEW to \in {"post", "dialed", "backoff"},
             Turns(s, from, to)
      PROVE  AnswersOK'
  <2>1. \A u \in Servers : pc'[u] = pc[u] \/ pc'[u] \in {"post", "dialed", "backoff"}
    BY <1>2, <1>3 DEF Turns
  <2>2. UNCHANGED <<answer, expired, resCh, successes>>
    BY <1>3 DEF Turns
  <2> QED
    BY <1>1, <2>1, <2>2, NoNewAnswer
<1>4. ASSUME NEW s \in Servers, PostEnds(s) PROVE AnswersOK'
  <2>1. conn[s] = "cut" => s \in excused'
    BY <1>1 DEF Excused
  <2>2. PICK a \in {"ok", "refused", "error"} :
            /\ Returns(s, "post", a)
            /\ a = "error" => expired \/ s \in excused'
            /\ a = "ok" => valid
            /\ a = "refused" => ~valid
    <3>1. CASE valid /\ Answered(s)
      BY <3>1 DEF Answered
    <3>2. CASE ~valid /\ Refused(s)
      BY <3>2 DEF Refused
    <3>3. CASE (conn[s] = "cut" \/ expired) /\ Failed(s)
      BY <2>1, <3>3 DEF Failed
    <3> QED
      BY <1>4, <3>1, <3>2, <3>3 DEF PostEnds
  <2> QED
    BY <1>1, <2>2, AnswerArrives DEF Returns
<1>5. CASE ClientStep
  <2>1. ASSUME NEW s \in Servers, GivesUp(s) \/ BackoffCancelled(s) PROVE AnswersOK'
    <3>1. GivesUp(s) => s \in excused
      BY DEF GivesUp, Returns, Excused, DialedTooLate
    <3>2. expired \/ s \in excused'
      BY <1>1, <2>1, <3>1 DEF BackoffCancelled
    <3>3. /\ answer' = [answer EXCEPT ![s] = "error"] /\ pc' = [pc EXCEPT ![s] = "report"]
          /\ UNCHANGED <<expired, resCh, successes>>
      BY <2>1 DEF GivesUp, BackoffCancelled, Returns
    <3> QED
      BY <1>1, <3>2, <3>3, AnswerArrives
  <2>2. ASSUME NEW s \in Servers, TriesAgain(s) \/ WindowCloses(s) \/ BackoffEnds(s)
        PROVE  AnswersOK'
    <3>1. CASE TriesAgain(s) \/ BackoffEnds(s)
      BY <1>3, <3>1 DEF TriesAgain, BackoffEnds
    <3>2. CASE WindowCloses(s)
      <4>1. UNCHANGED <<answer, pc, expired, resCh, successes>>
        BY <3>2 DEF WindowCloses
      <4> QED
        BY <1>1, <4>1, NoNewAnswer
    <3> QED
      BY <2>2, <3>1, <3>2
  <2>3. CASE Dispatch \/ Return \/ Exit \/ Close \/ Expire
    <3>1. UNCHANGED <<answer, pc, resCh, successes>> /\ (expired => expired')
      BY <2>3 DEF Dispatch, Return, Exit, Close, Expire
    <3> QED
      BY <1>1, <3>1, NoNewAnswer
  <2>4. ASSUME NEW s \in Servers, Report(s) \/ Drop(s) PROVE AnswersOK'
    BY <1>1, <2>4, AnswerReported
  <2>5. CASE Collect
    BY <1>1, <2>5, AnswerCollected
  <2> QED
    BY <1>5, <2>1, <2>2, <2>3, <2>4, <2>5 DEF ClientStep
<1>6. ASSUME UNCHANGED <<answer, pc, expired, resCh, successes>> PROVE AnswersOK'
  BY <1>1, <1>6, NoNewAnswer
<1>7. CASE RejectQuorum \/ SplitStep
  BY <1>6, <1>7 DEF RejectQuorum, Reject, SplitStep
<1>8. ASSUME NEW s \in Servers, Connect(s) \/ ServerStep(s) \/ ServerFault(s) PROVE AnswersOK'
  BY <1>6, <1>8 DEF Connect, ServerStep, ServerFault, vars
<1>9. CASE Finished \/ UNCHANGED searchVars
  BY <1>6, <1>9 DEF Finished, searchVars, vars
<1>10. ASSUME NEW s \in Servers, DialFindsNoServer(s) PROVE AnswersOK'
  BY <1>3, <1>10 DEF DialFindsNoServer, DialFails
<1> QED
  BY <1>4, <1>5, <1>7, <1>8, <1>9, <1>10 DEF SearchNext

\* The inductive invariant of the whole search.
SearchInv == ClientWorks /\ LivesInv /\ Excused /\ AnswersOK

\* The invariant of the search holds in its first states.
LEMMA SearchStarts == SearchInit => SearchInv
<1> SUFFICES ASSUME SearchInit PROVE SearchInv
  OBVIOUS
<1>1. ClientWorks /\ LivesInv
  BY ClientWorksStart, LivesStart
<1>2. Excused
  BY DEF SearchInit, Init, Server!LivesInit, Excused, DialedTooLate
<1>3. AnswersOK
  BY DEF SearchInit, Init, AnswersOK, AnswerOK
<1> QED
  BY <1>1, <1>2, <1>3 DEF SearchInv

\* Every step of the search keeps its invariant.
LEMMA SearchKept == ASSUME SearchInv, [SearchNext]_searchVars PROVE SearchInv'
<1>1. ClientWorks /\ LivesInv /\ Excused /\ AnswersOK
  BY DEF SearchInv
<1>2. ClientWorks' /\ LivesInv' /\ Excused' /\ AnswersOK'
  BY <1>1, ClientWorksKept, LivesKept, ExcusedKept, AnswersKept
<1> QED
  BY <1>2 DEF SearchInv

\* The invariant of the search holds in every reachable state.
LEMMA SearchInvariance == SearchSpec => []SearchInv
<1> QED
  BY SearchStarts, SearchKept, PTL DEF SearchSpec

\* Before the timeout a request is lost only through its server: one that was not
\* up at the last dial, or that broke with the request.  The last dial is one after
\* which the window is found over, so a server that comes up in the window, but
\* after that dial, is lost too; no other order of the steps costs a request.
THEOREM FailuresAreNeeded == SearchSpec => []NoNeedlessFailure
<1>1. SearchInv => NoNeedlessFailure
  <2> SUFFICES ASSUME SearchInv, Returned, ~expired, NEW s \in Servers \ excused
               PROVE  IF valid THEN s \in successes ELSE answer[s] = "refused"
    BY DEF NoNeedlessFailure
  <2>1. AnswerOK(s) /\ ClientInv
    BY DEF SearchInv, AnswersOK, ClientWorks
  <2>2. pc[s] = "done" /\ resCh = <<>> /\ answer[s] \in {"none", "ok", "refused", "error"}
    BY <2>1 DEF ClientInv, ReturnsLast, CountersOK
  <2>3. ~InChannel(s)
    BY <2>2 DEF InChannel
  <2> QED
    BY <2>1, <2>2, <2>3 DEF AnswerOK
<1> QED
  BY <1>1, SearchInvariance, PTL

\* Every variable of the search keeps its type.
THEOREM SearchTypes == SearchSpec => []SearchTypeOK
<1>1. SearchInv => SearchTypeOK
  <2> SUFFICES ASSUME SearchInv PROVE SearchTypeOK
    OBVIOUS
  <2>1. SplitTypeOK
    BY SearchBounds, SplitTypes DEF SearchInv, ClientWorks, CutInv
  <2>2. TypeOK
    BY TypesFollow DEF SearchInv, ClientWorks
  <2> QED
    BY <2>1, <2>2 DEF SearchTypeOK, SearchInv, LivesInv
<1> QED
  BY <1>1, SearchInvariance, PTL

-----------------------------------------------------------------------------
(* The search and the client alone.                                         *)

\* Before Run dispatches, the input becomes known; nothing else changes.
InputArrives ==
    /\ main = "start"
    /\ UNCHANGED <<quorumArg, retry, mode, pc, answer, windowOpen, expired, resCh, closed,
                   main, successes, failures, result, exitCode>>

\* The search gives the client what QuorumClient assumes: an input whose chunks
\* have their lines in the order of the file.  It is there before the client
\* dispatches, and all the client does is what it does in QuorumClient.
THEOREM SearchRunsClient ==
    SearchSpec => []FoundOK /\ [][Next \/ InputArrives]_vars
<1>1. ClientWorks => FoundOK
  BY FoundOrdered DEF ClientWorks
<1>2. [SearchNext]_searchVars => [Next \/ InputArrives]_vars
  <2> SUFFICES ASSUME [SearchNext]_searchVars PROVE [Next \/ InputArrives]_vars
    OBVIOUS
  <2>1. CASE SplitStep
    BY <2>1 DEF SplitStep, InputArrives
  <2>2. CASE ClientMoves
    BY <2>2 DEF ClientMoves
  <2> QED
    BY <2>1, <2>2, StepKinds
<1> QED
  BY <1>1, <1>2, ClientWorksAlways, PTL DEF SearchSpec
=============================================================================
