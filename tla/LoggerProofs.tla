----------------------------- MODULE LoggerProofs -----------------------------
(* The logger: every entry is in one place, drain writes what had reached    *)
(* the channel, and every step is a step of the abstract log.                *)
EXTENDS AsyncLogger, FiniteSetTheorems, SequenceTheorems, TLAPS

Distinct(s) == \A k, l \in DOMAIN s : s[k] = s[l] => k = l

\* An issued entry is in exactly one of four places, once.
InOnePlace ==
    /\ Distinct(ch) /\ Distinct(parked) /\ Distinct(written)
    /\ ToSet(ch) \cap ToSet(parked) = {}
    /\ (ToSet(ch) \cup ToSet(parked)) \cap ToSet(written) = {}
    /\ spawned \cap (ToSet(ch) \cup ToSet(parked) \cup ToSet(written)) = {}
    /\ Issued = ToSet(ch) \cup ToSet(parked) \cup ToSet(written) \cup spawned

\* A goroutine parks only behind a full buffer.
ParkedBehindFull == parked # <<>> => Len(ch) = LogBuffer

QueuedKept ==
    /\ run # "select" \/ exited => cancelled
    /\ cancelled => queued \subseteq ToSet(ch) \cup ToSet(parked) \cup ToSet(written)
    /\ run = "returned" /\ ~timedOut => queued \subseteq ToSet(written)

LoggerInv == TypeOK /\ InOnePlace /\ ParkedBehindFull /\ QueuedKept

-----------------------------------------------------------------------------
\* A send adds one entry to the sequence.
LEMMA AppendSet ==
    ASSUME NEW S, NEW s \in Seq(S), NEW e \in S
    PROVE  /\ Append(s, e) \in Seq(S) /\ Len(Append(s, e)) = Len(s) + 1
           /\ ToSet(Append(s, e)) = ToSet(s) \cup {e}
           /\ Distinct(s) /\ e \notin ToSet(s) => Distinct(Append(s, e))
<1>1. /\ Append(s, e) \in Seq(S) /\ Len(Append(s, e)) = Len(s) + 1 /\ Len(s) \in Nat
      /\ DOMAIN s = 1..Len(s) /\ DOMAIN Append(s, e) = 1..(Len(s) + 1)
      /\ \A k \in 1..Len(s) : Append(s, e)[k] = s[k]
      /\ Append(s, e)[Len(s) + 1] = e
  OBVIOUS
<1>2. ToSet(Append(s, e)) = ToSet(s) \cup {e}
  <2>1. ASSUME NEW x \in ToSet(Append(s, e)) PROVE x \in ToSet(s) \cup {e}
    BY <1>1 DEF ToSet
  <2>2. ASSUME NEW x \in ToSet(s) PROVE x \in ToSet(Append(s, e))
    BY <1>1 DEF ToSet
  <2>3. e \in ToSet(Append(s, e))
    BY <1>1 DEF ToSet
  <2> QED
    BY <2>1, <2>2, <2>3
<1>3. Distinct(s) /\ e \notin ToSet(s) => Distinct(Append(s, e))
  BY <1>1 DEF Distinct, ToSet
<1> QED
  BY <1>1, <1>2, <1>3

\* A receive takes the first entry out of the sequence.
LEMMA TailSet ==
    ASSUME NEW S, NEW s \in Seq(S), s # <<>>, Distinct(s)
    PROVE  /\ Head(s) \in S /\ Head(s) \in ToSet(s)
           /\ Tail(s) \in Seq(S) /\ Len(Tail(s)) = Len(s) - 1
           /\ ToSet(Tail(s)) = ToSet(s) \ {Head(s)}
           /\ Distinct(Tail(s))
<1>1. /\ Len(s) \in Nat \ {0} /\ Head(s) = s[1] /\ Head(s) \in S
      /\ Tail(s) \in Seq(S) /\ Len(Tail(s)) = Len(s) - 1
      /\ DOMAIN s = 1..Len(s) /\ DOMAIN Tail(s) = 1..(Len(s) - 1)
      /\ \A k \in 1..(Len(s) - 1) : Tail(s)[k] = s[k + 1]
  OBVIOUS
<1>2. Head(s) \in ToSet(s)
  BY <1>1 DEF ToSet
<1>3. ToSet(Tail(s)) = ToSet(s) \ {Head(s)}
  <2>1. ASSUME NEW x \in ToSet(Tail(s)) PROVE x \in ToSet(s) \ {Head(s)}
    <3>1. PICK k \in 1..(Len(s) - 1) : s[k + 1] = x
      BY <1>1 DEF ToSet
    <3>2. k + 1 \in 1..Len(s) /\ k + 1 # 1 /\ 1 \in 1..Len(s)
      BY <1>1
    <3> QED
      BY <1>1, <3>1, <3>2 DEF ToSet, Distinct
  <2>2. ASSUME NEW x \in ToSet(s), x # Head(s) PROVE x \in ToSet(Tail(s))
    <3>1. PICK k \in 1..Len(s) : s[k] = x
      BY <1>1 DEF ToSet
    <3>2. k - 1 \in 1..(Len(s) - 1) /\ (k - 1) + 1 = k
      BY <1>1, <2>2, <3>1
    <3>3. Tail(s)[k - 1] = x
      BY <1>1, <3>1, <3>2
    <3> QED
      BY <1>1, <3>2, <3>3 DEF ToSet
  <2> QED
    BY <2>1, <2>2
<1>4. Distinct(Tail(s))
  <2> SUFFICES ASSUME NEW k \in 1..(Len(s) - 1), NEW l \in 1..(Len(s) - 1),
                      Tail(s)[k] = Tail(s)[l]
               PROVE  k = l
    BY <1>1 DEF Distinct
  <2>1. k + 1 \in 1..Len(s) /\ l + 1 \in 1..Len(s) /\ s[k + 1] = s[l + 1]
    BY <1>1
  <2> QED
    BY <1>1, <2>1 DEF Distinct
<1> QED
  BY <1>1, <1>2, <1>3, <1>4

\* Info issues one entry, and no other.
LEMMA IssueOne ==
    ASSUME TypeOK, NEW c \in Callers, issued[c] < PerCaller,
           issued' = [issued EXCEPT ![c] = @ + 1]
    PROVE  LET e == <<c, issued[c] + 1>> IN
           /\ issued' \in [Callers -> 0..PerCaller]
           /\ e \in Entries /\ e \notin Issued /\ Issued' = Issued \cup {e}
<1> DEFINE e == <<c, issued[c] + 1>>
<1>1. issued \in [Callers -> 0..PerCaller] /\ PerCaller \in Nat
  BY LogBounds DEF TypeOK
<1>2. e \in Entries /\ e \notin Issued
  BY <1>1 DEF Entries, Issued
<1>3. issued'[c] = issued[c] + 1 /\ \A d \in Callers \ {c} : issued'[d] = issued[d]
  BY <1>1
<1>4. ASSUME NEW f \in Entries
      PROVE  f[2] <= issued'[f[1]] <=> (f[2] <= issued[f[1]] \/ f = e)
  <2>1. PICK d \in Callers, k \in 1..PerCaller : f = <<d, k>>
    BY DEF Entries
  <2>2. CASE d = c
    BY <1>1, <1>3, <2>1, <2>2
  <2>3. CASE d # c
    BY <1>1, <1>3, <2>1, <2>3
  <2> QED
    BY <2>2, <2>3
<1>5. Issued' = Issued \cup {e}
  BY <1>2, <1>4 DEF Issued
<1> QED
  BY <1>1, <1>2, <1>3, <1>5

-----------------------------------------------------------------------------
\* Every step keeps the invariant.
LEMMA LoggerStep == LoggerInv /\ [Next]_vars => LoggerInv'
<1> SUFFICES ASSUME LoggerInv, [Next]_vars PROVE LoggerInv'
  OBVIOUS
<1> USE DEF vars, history
<1>t. /\ ch \in Seq(Entries) /\ parked \in Seq(Entries) /\ written \in Seq(Entries)
      /\ spawned \subseteq Entries /\ Len(ch) <= LogBuffer /\ Len(ch) \in Nat
      /\ LogBuffer \in Nat \ {0}
  BY LogBounds DEF LoggerInv, TypeOK
<1>1. ASSUME NEW c \in Callers, Info(c) PROVE LoggerInv'
  <2>0. /\ <<c, issued[c] + 1>> \in Entries /\ <<c, issued[c] + 1>> \notin Issued
        /\ Issued' = Issued \cup {<<c, issued[c] + 1>>}
        /\ issued' \in [Callers -> 0..PerCaller]
    BY <1>1, IssueOne DEF Info, LoggerInv
  <2>e. PICK e \in Entries : e = <<c, issued[c] + 1>>
    BY <2>0
  <2>1. CASE /\ Len(ch) < LogBuffer /\ ch' = Append(ch, e) /\ spawned' = spawned
             /\ direct' = direct \cup {e}
             /\ UNCHANGED <<parked, run, cancelled, exited, written, timedOut, queued>>
    <3>1. /\ ch' \in Seq(Entries) /\ Len(ch') = Len(ch) + 1 /\ ToSet(ch') = ToSet(ch) \cup {e}
          /\ Distinct(ch')
      <4>1. e \notin ToSet(ch) /\ Distinct(ch)
        BY <2>0, <2>e DEF LoggerInv, InOnePlace
      <4>2. /\ Append(ch, e) \in Seq(Entries) /\ Len(Append(ch, e)) = Len(ch) + 1
            /\ ToSet(Append(ch, e)) = ToSet(ch) \cup {e} /\ Distinct(Append(ch, e))
        BY <1>t, <4>1, AppendSet
      <4> QED
        BY <2>1, <4>2
    <3>2. TypeOK'
      BY <1>t, <2>0, <2>1, <3>1 DEF LoggerInv, TypeOK
    <3>3. InOnePlace'
      BY <2>0, <2>e, <2>1, <3>1 DEF LoggerInv, InOnePlace
    <3>4. ParkedBehindFull'
      BY <1>t, <2>1 DEF LoggerInv, ParkedBehindFull
    <3>5. QueuedKept'
      BY <2>1, <3>1 DEF LoggerInv, QueuedKept
    <3> QED
      BY <3>2, <3>3, <3>4, <3>5 DEF LoggerInv
  <2>2. CASE /\ Len(ch) >= LogBuffer /\ spawned' = spawned \cup {e} /\ ch' = ch
             /\ direct' = direct
             /\ UNCHANGED <<parked, run, cancelled, exited, written, timedOut, queued>>
    <3>1. TypeOK'
      BY <1>t, <2>0, <2>2 DEF LoggerInv, TypeOK
    <3>2. InOnePlace'
      BY <2>0, <2>e, <2>2 DEF LoggerInv, InOnePlace
    <3>3. ParkedBehindFull' /\ QueuedKept'
      BY <2>2 DEF LoggerInv, ParkedBehindFull, QueuedKept
    <3> QED
      BY <3>1, <3>2, <3>3 DEF LoggerInv
  <2> QED
    BY <1>1, <2>e, <2>1, <2>2 DEF Info
<1>2. ASSUME NEW e \in Entries, OverflowSends(e) PROVE LoggerInv'
  <2>0. /\ e \in spawned /\ spawned' = spawned \ {e}
        /\ UNCHANGED <<issued, run, cancelled, exited, written, direct, timedOut, queued>>
        /\ e \notin ToSet(ch) /\ e \notin ToSet(parked) /\ e \notin ToSet(written)
        /\ Issued' = Issued
    BY <1>2 DEF OverflowSends, LoggerInv, InOnePlace, Issued
  <2>1. CASE Len(ch) < LogBuffer /\ ch' = Append(ch, e) /\ parked' = parked
    <3>1. /\ ch' \in Seq(Entries) /\ Len(ch') = Len(ch) + 1 /\ ToSet(ch') = ToSet(ch) \cup {e}
          /\ Distinct(ch')
      BY <1>t, <2>0, <2>1, AppendSet DEF LoggerInv, InOnePlace
    <3>2. TypeOK'
      BY <1>t, <2>0, <2>1, <3>1 DEF LoggerInv, TypeOK
    <3>3. InOnePlace'
      BY <2>0, <2>1, <3>1 DEF LoggerInv, InOnePlace
    <3>4. ParkedBehindFull'
      BY <1>t, <2>1 DEF LoggerInv, ParkedBehindFull
    <3>5. QueuedKept'
      BY <2>0, <2>1, <3>1 DEF LoggerInv, QueuedKept
    <3> QED
      BY <3>2, <3>3, <3>4, <3>5 DEF LoggerInv
  <2>2. CASE Len(ch) >= LogBuffer /\ parked' = Append(parked, e) /\ ch' = ch
    <3>1. /\ parked' \in Seq(Entries) /\ ToSet(parked') = ToSet(parked) \cup {e}
          /\ Distinct(parked')
      BY <1>t, <2>0, <2>2, AppendSet DEF LoggerInv, InOnePlace
    <3>2. TypeOK'
      BY <1>t, <2>0, <2>2, <3>1 DEF LoggerInv, TypeOK
    <3>3. InOnePlace'
      BY <2>0, <2>2, <3>1 DEF LoggerInv, InOnePlace
    <3>4. ParkedBehindFull'
      BY <1>t, <2>2 DEF ParkedBehindFull
    <3>5. QueuedKept'
      BY <2>0, <2>2, <3>1 DEF LoggerInv, QueuedKept
    <3> QED
      BY <3>2, <3>3, <3>4, <3>5 DEF LoggerInv
  <2> QED
    BY <1>2, <2>1, <2>2 DEF OverflowSends
<1>3. ASSUME RunWrites PROVE LoggerInv'
  <2>0. /\ ch # <<>> /\ written' = Append(written, Head(ch)) /\ run \in {"select", "drain"}
        /\ UNCHANGED <<issued, spawned, run, cancelled, exited, direct, timedOut, queued>>
        /\ Issued' = Issued
    BY <1>3 DEF RunWrites, Receive, Issued
  <2>1. /\ Head(ch) \in Entries /\ Head(ch) \in ToSet(ch)
        /\ Tail(ch) \in Seq(Entries) /\ Len(Tail(ch)) = Len(ch) - 1
        /\ ToSet(Tail(ch)) = ToSet(ch) \ {Head(ch)} /\ Distinct(Tail(ch))
    BY <1>t, <2>0, TailSet DEF LoggerInv, InOnePlace
  <2>h. PICK h \in Entries : h = Head(ch)
    BY <2>1
  <2>2. /\ written' \in Seq(Entries) /\ ToSet(written') = ToSet(written) \cup {h}
        /\ Distinct(written')
    <3>1. h \notin ToSet(written)
      BY <2>1, <2>h DEF LoggerInv, InOnePlace
    <3> QED
      BY <1>t, <2>0, <2>h, <3>1, AppendSet DEF LoggerInv, InOnePlace
  <2>3. CASE parked = <<>> /\ ch' = Tail(ch) /\ parked' = parked
    <3>1. TypeOK'
      <4>1. ch' \in Seq(Entries) /\ Len(ch') = Len(ch) - 1
        BY <2>1, <2>3, Zenon
      <4>2. Len(ch') <= LogBuffer
        BY <1>t, <4>1
      <4> QED
        BY <1>t, <2>0, <2>2, <2>3, <4>1, <4>2 DEF LoggerInv, TypeOK
    <3>2. InOnePlace'
      BY <2>0, <2>1, <2>h, <2>2, <2>3 DEF LoggerInv, InOnePlace
    <3>3. ParkedBehindFull'
      BY <2>3 DEF ParkedBehindFull
    <3>4. QueuedKept'
      BY <2>0, <2>1, <2>h, <2>2, <2>3 DEF LoggerInv, QueuedKept
    <3> QED
      BY <3>1, <3>2, <3>3, <3>4 DEF LoggerInv
  <2>4. CASE /\ parked # <<>> /\ ch' = Append(Tail(ch), Head(parked))
             /\ parked' = Tail(parked)
    <3>1. /\ Head(parked) \in Entries /\ Head(parked) \in ToSet(parked)
          /\ Tail(parked) \in Seq(Entries)
          /\ ToSet(Tail(parked)) = ToSet(parked) \ {Head(parked)} /\ Distinct(Tail(parked))
      BY <1>t, <2>4, TailSet DEF LoggerInv, InOnePlace
    <3>p. PICK p \in Entries : p = Head(parked)
      BY <3>1
    <3>2. p \notin ToSet(ch) /\ p # h /\ p \notin ToSet(written)
      BY <2>1, <2>h, <3>1, <3>p DEF LoggerInv, InOnePlace
    <3>3. /\ ch' \in Seq(Entries) /\ Len(ch') = Len(Tail(ch)) + 1
          /\ ToSet(ch') = ToSet(Tail(ch)) \cup {p} /\ Distinct(ch')
      <4>1. p \notin ToSet(Tail(ch)) /\ Distinct(Tail(ch)) /\ Tail(ch) \in Seq(Entries)
        BY <2>1, <3>2
      <4>2. PICK rest \in Seq(Entries) : rest = Tail(ch)
        BY <4>1
      <4>3. /\ Append(rest, p) \in Seq(Entries) /\ Len(Append(rest, p)) = Len(rest) + 1
            /\ ToSet(Append(rest, p)) = ToSet(rest) \cup {p} /\ Distinct(Append(rest, p))
        BY <4>1, <4>2, AppendSet
      <4>4. ch' = Append(rest, p)
        BY <2>4, <3>p, <4>2
      <4> QED
        BY <4>2, <4>3, <4>4
    <3>4. TypeOK'
      BY <1>t, <2>0, <2>1, <2>2, <2>4, <3>1, <3>3 DEF LoggerInv, TypeOK
    <3>5. InOnePlace'
      <4>1. /\ ToSet(ch') = (ToSet(ch) \ {h}) \cup {p}
            /\ ToSet(parked') = ToSet(parked) \ {p}
            /\ h \in ToSet(ch) /\ p \in ToSet(parked)
        BY <2>1, <2>h, <2>4, <3>1, <3>p, <3>3
      <4>2. Distinct(ch') /\ Distinct(parked') /\ Distinct(written')
        BY <2>2, <2>4, <3>1, <3>3
      <4>3. /\ ToSet(ch') \cap ToSet(parked') = {}
            /\ (ToSet(ch') \cup ToSet(parked')) \cap ToSet(written') = {}
        BY <2>2, <3>2, <4>1 DEF LoggerInv, InOnePlace
      <4>4. /\ spawned \cap (ToSet(ch') \cup ToSet(parked') \cup ToSet(written')) = {}
            /\ Issued = ToSet(ch') \cup ToSet(parked') \cup ToSet(written') \cup spawned
        BY <2>2, <3>2, <4>1 DEF LoggerInv, InOnePlace
      <4> QED
        BY <2>0, <4>2, <4>3, <4>4 DEF InOnePlace
    <3>6. ParkedBehindFull'
      BY <1>t, <2>1, <2>4, <3>3 DEF LoggerInv, ParkedBehindFull
    <3>7. QueuedKept'
      BY <2>0, <2>1, <2>h, <2>2, <2>4, <3>1, <3>p, <3>3 DEF LoggerInv, QueuedKept
    <3> QED
      BY <3>4, <3>5, <3>6, <3>7 DEF LoggerInv
  <2> QED
    BY <1>3, <2>3, <2>4 DEF RunWrites, Receive
<1>4. ASSUME UNCHANGED <<issued, ch, parked, spawned, written, direct>>
      PROVE  /\ InOnePlace' /\ ParkedBehindFull'
             /\ (/\ run' \in {"select", "drain", "returned"} /\ cancelled' \in BOOLEAN
                 /\ exited' \in BOOLEAN /\ timedOut' \in BOOLEAN
                 /\ queued' \subseteq Entries) => TypeOK'
  BY <1>4 DEF LoggerInv, TypeOK, InOnePlace, ParkedBehindFull, Issued
<1>5. ASSUME RunSeesDone \/ DrainTimesOut \/ MainReturns \/ Finished \/ UNCHANGED vars
      PROVE  LoggerInv'
  <2>1. TypeOK' /\ InOnePlace' /\ ParkedBehindFull'
    BY <1>4, <1>5 DEF RunSeesDone, DrainTimesOut, MainReturns, Finished, LoggerInv, TypeOK
  <2>2. QueuedKept'
    BY <1>5 DEF RunSeesDone, DrainTimesOut, MainReturns, Finished, LoggerInv, QueuedKept
  <2> QED
    BY <2>1, <2>2 DEF LoggerInv
<1>6. ASSUME DrainEnds PROVE LoggerInv'
  <2>1. TypeOK' /\ InOnePlace' /\ ParkedBehindFull'
    BY <1>4, <1>6 DEF DrainEnds, LoggerInv, TypeOK
  <2>2. ToSet(ch) = {} /\ ToSet(parked) = {}
    <3>1. ch = <<>> /\ parked = <<>>
      BY <1>6, <1>t DEF DrainEnds, LoggerInv, ParkedBehindFull
    <3> QED
      BY <3>1 DEF ToSet
  <2>3. QueuedKept'
    BY <1>6, <2>2 DEF DrainEnds, LoggerInv, QueuedKept
  <2> QED
    BY <2>1, <2>3 DEF LoggerInv
<1>7. ASSUME Cancel PROVE LoggerInv'
  <2>1. ToSet(ch) \subseteq Entries /\ ToSet(parked) \subseteq Entries
    BY <1>t DEF ToSet
  <2>2. TypeOK' /\ InOnePlace' /\ ParkedBehindFull'
    BY <1>4, <1>7, <2>1 DEF Cancel, LoggerInv, TypeOK
  <2>3. QueuedKept'
    BY <1>7 DEF Cancel, LoggerInv, QueuedKept
  <2> QED
    BY <2>2, <2>3 DEF LoggerInv
<1> QED
  BY <1>1, <1>2, <1>3, <1>5, <1>6, <1>7 DEF Next

\* The invariant holds at the start.
LEMMA LoggerInit == Init => LoggerInv
<1> SUFFICES ASSUME Init PROVE LoggerInv
  OBVIOUS
<1>1. TypeOK
  <2>1. <<>> \in Seq(Entries) /\ Len(<<>>) = 0
    OBVIOUS
  <2>2. 0 \in 0..PerCaller /\ 0 <= LogBuffer
    BY LogBounds
  <2>3. issued \in [Callers -> 0..PerCaller]
    BY <2>2 DEF Init
  <2> QED
    BY <2>1, <2>2, <2>3 DEF Init, TypeOK
<1>2. ToSet(<<>>) = {} /\ Distinct(<<>>)
  BY DEF ToSet, Distinct
<1>3. Issued = {}
  BY LogBounds DEF Init, Issued, Entries
<1> QED
  BY <1>1, <1>2, <1>3 DEF Init, LoggerInv, InOnePlace, ParkedBehindFull, QueuedKept

\* The invariant holds in every reachable state.
LEMMA LoggerInvariance == Spec => []LoggerInv
<1> QED
  BY LoggerInit, LoggerStep, PTL DEF Spec

-----------------------------------------------------------------------------
\* What had reached the channel at the cancellation is written before Run
\* returns, unless drain times out.
THEOREM QueuedIsWritten == Spec => []DrainWritesQueued
<1>1. LoggerInv => DrainWritesQueued
  BY DEF LoggerInv, QueuedKept, DrainWritesQueued
<1> QED
  BY <1>1, LoggerInvariance, PTL

\* How often an entry is in a sequence without repetitions.
LEMMA Occurrences ==
    ASSUME NEW S, NEW s \in Seq(S), Distinct(s), NEW e
    PROVE  Cardinality({k \in DOMAIN s : s[k] = e}) = IF e \in ToSet(s) THEN 1 ELSE 0
<1>1. CASE e \in ToSet(s)
  <2>1. PICK k \in DOMAIN s : s[k] = e
    BY <1>1 DEF ToSet
  <2>2. {l \in DOMAIN s : s[l] = e} = {k}
    BY <2>1 DEF Distinct
  <2> QED
    BY <1>1, <2>2, FS_Singleton
<1>2. CASE e \notin ToSet(s)
  <2>1. {k \in DOMAIN s : s[k] = e} = {}
    BY <1>2 DEF ToSet
  <2> QED
    BY <1>2, <2>1, FS_EmptySet
<1> QED
  BY <1>1, <1>2

\* Info, the overflow goroutines, Run and drain neither lose nor duplicate an
\* entry, whatever the buffer and the number of callers.
THEOREM EntriesConserved == Spec => []Conserved
<1>1. LoggerInv => Conserved
  <2> SUFFICES ASSUME LoggerInv, NEW e \in Entries
               PROVE  Cardinality({k \in DOMAIN ch : ch[k] = e})
                      + Cardinality({k \in DOMAIN parked : parked[k] = e})
                      + Cardinality({k \in DOMAIN written : written[k] = e})
                      + (IF e \in spawned THEN 1 ELSE 0)
                          = (IF e \in Issued THEN 1 ELSE 0)
    BY DEF Conserved
  <2>1. /\ Cardinality({k \in DOMAIN ch : ch[k] = e}) = IF e \in ToSet(ch) THEN 1 ELSE 0
        /\ Cardinality({k \in DOMAIN parked : parked[k] = e})
               = IF e \in ToSet(parked) THEN 1 ELSE 0
        /\ Cardinality({k \in DOMAIN written : written[k] = e})
               = IF e \in ToSet(written) THEN 1 ELSE 0
    BY Occurrences DEF LoggerInv, TypeOK, InOnePlace
  <2>2. /\ e \in ToSet(ch) => e \notin ToSet(parked) /\ e \notin ToSet(written) /\ e \notin spawned
        /\ e \in ToSet(parked) => e \notin ToSet(written) /\ e \notin spawned
        /\ e \in ToSet(written) => e \notin spawned
        /\ e \in Issued <=> \/ e \in ToSet(ch) \/ e \in ToSet(parked)
                            \/ e \in ToSet(written) \/ e \in spawned
    BY DEF LoggerInv, InOnePlace
  <2> QED
    BY <2>1, <2>2
<1> QED
  BY <1>1, LoggerInvariance, PTL

\* Every step of the logger is a step of the abstract log, or none: nothing is
\* written that was not handed over, nothing twice, nothing after the close, and
\* the log closes only when it was told to.
THEOREM RefinesEntryLog == Spec => Log!LogInit /\ [][Log!LogNext]_(Log!logVars)
<1>1. Init => Log!LogInit
  <2> SUFFICES ASSUME Init PROVE Log!LogInit
    OBVIOUS
  <2>1. Issued = {}
    BY LogBounds DEF Init, Issued, Entries
  <2> QED
    BY <2>1 DEF Init, Log!LogInit
<1>2. LoggerInv /\ [Next]_vars => [Log!LogNext]_(Log!logVars)
  <2> SUFFICES ASSUME LoggerInv, [Next]_vars PROVE [Log!LogNext]_(Log!logVars)
    OBVIOUS
  <2> USE DEF vars, history
  <2>1. ASSUME NEW c \in Callers, Info(c) PROVE Log!LogNext
    <3>0. /\ <<c, issued[c] + 1>> \in Entries /\ <<c, issued[c] + 1>> \notin Issued
          /\ Issued' = Issued \cup {<<c, issued[c] + 1>>}
      BY <2>1, IssueOne DEF Info, LoggerInv
    <3>1. PICK e \in Entries : e = <<c, issued[c] + 1>>
      BY <3>0
    <3>2. UNCHANGED <<written, cancelled, run, exited>>
      BY <2>1 DEF Info
    <3>3. Log!Accept(e)
      BY <3>0, <3>1, <3>2 DEF Log!Accept
    <3> QED
      BY <3>3 DEF Log!LogNext
  <2>2. ASSUME RunWrites PROVE Log!LogNext
    <3>1. Head(ch) \in Entries /\ Head(ch) \in ToSet(ch)
      BY <2>2, TailSet DEF RunWrites, Receive, LoggerInv, TypeOK, InOnePlace
    <3>2. PICK h \in Entries : h = Head(ch)
      BY <3>1
    <3>3. h \in Issued \ ToSet(written)
      BY <3>1, <3>2 DEF LoggerInv, InOnePlace
    <3>4. /\ written' = Append(written, h) /\ run \in {"select", "drain"} /\ ~exited
          /\ UNCHANGED <<issued, cancelled, run, exited>> /\ Issued' = Issued
      BY <2>2, <3>2 DEF RunWrites, Receive, Issued
    <3>5. Log!Write(h)
      <4>1. ~(run = "returned" \/ exited)
        BY <3>4
      <4>2. (run = "returned" \/ exited)' = (run = "returned" \/ exited)
        BY <3>4
      <4> QED
        BY <3>3, <3>4, <4>1, <4>2 DEF Log!Write, Log!Waiting, Log!ToSet, ToSet
    <3> QED
      BY <3>5 DEF Log!LogNext
  <2>3. ASSUME Cancel PROVE Log!LogNext
    BY <2>3 DEF Cancel, Issued, Log!LogNext, Log!BeginClose
  <2>4. ASSUME DrainEnds \/ DrainTimesOut PROVE Log!LogNext
    <3>1. cancelled
      BY <2>4 DEF DrainEnds, DrainTimesOut, LoggerInv, QueuedKept
    <3> QED
      BY <2>4, <3>1 DEF DrainEnds, DrainTimesOut, Issued, Log!LogNext, Log!Close
  <2>5. ASSUME MainReturns PROVE [Log!LogNext]_(Log!logVars)
    BY <2>5 DEF MainReturns, Issued, Log!LogNext, Log!Close, Log!logVars
  <2>6. ASSUME \/ \E e \in Entries : OverflowSends(e)
               \/ RunSeesDone \/ Finished \/ UNCHANGED vars
        PROVE  UNCHANGED Log!logVars
    BY <2>6 DEF OverflowSends, RunSeesDone, Finished, Issued, Log!logVars
  <2> QED
    BY <2>1, <2>2, <2>3, <2>4, <2>5, <2>6 DEF Next
<1> QED
  BY <1>1, <1>2, LoggerInvariance, PTL DEF Spec

-----------------------------------------------------------------------------
\* The entries as they come out: what is written, then what is in the buffer.
Output == written \o ch

DirectSorted(s, d) ==
    \A k, l \in DOMAIN s :
        (k < l /\ s[k] \in d /\ s[l] \in d /\ s[k][1] = s[l][1]) => s[k][2] < s[l][2]

\* Whoever took the overflow path was not sent directly.
OrderInv ==
    /\ DirectSorted(Output, direct)
    /\ direct \subseteq Issued
    /\ direct \cap (ToSet(parked) \cup spawned) = {}

\* A receive moves the border between the two parts of the output, a send
\* makes it longer.
LEMMA OutputSeq ==
    ASSUME NEW S, NEW w \in Seq(S), NEW c \in Seq(S)
    PROVE  /\ w \o c \in Seq(S) /\ Len(w \o c) = Len(w) + Len(c)
           /\ \A k \in 1..(Len(w) + Len(c)) :
                  (w \o c)[k] = IF k <= Len(w) THEN w[k] ELSE c[k - Len(w)]
           /\ \A e \in S : w \o Append(c, e) = Append(w \o c, e)
           /\ c # <<>> => Append(w, Head(c)) \o Tail(c) = w \o c
<1>1. /\ w \o c \in Seq(S) /\ Len(w \o c) = Len(w) + Len(c)
      /\ \A k \in 1..(Len(w) + Len(c)) :
             (w \o c)[k] = IF k <= Len(w) THEN w[k] ELSE c[k - Len(w)]
  OBVIOUS
<1>2. ASSUME NEW e \in S PROVE w \o Append(c, e) = Append(w \o c, e)
  OBVIOUS
<1>3. ASSUME c # <<>> PROVE Append(w, Head(c)) \o Tail(c) = w \o c
  <2>1. /\ Append(w, Head(c)) \in Seq(S) /\ Tail(c) \in Seq(S)
        /\ Len(Append(w, Head(c))) = Len(w) + 1 /\ Len(Tail(c)) = Len(c) - 1
        /\ Len(c) \in Nat \ {0} /\ Len(w) \in Nat
    BY <1>3
  <2>2. /\ \A k \in 1..Len(w) : Append(w, Head(c))[k] = w[k]
        /\ Append(w, Head(c))[Len(w) + 1] = c[1]
        /\ \A k \in 1..(Len(c) - 1) : Tail(c)[k] = c[k + 1]
    BY <1>3
  <2> DEFINE s == Append(w, Head(c))
             r == Tail(c)
  <2>3. /\ s \o r \in Seq(S) /\ Len(s \o r) = Len(w) + Len(c)
        /\ \A k \in 1..(Len(w) + Len(c)) :
               (s \o r)[k] = IF k <= Len(s) THEN s[k] ELSE r[k - Len(s)]
    <3> HIDE DEF s, r
    <3> QED
      BY <2>1 DEF s, r
  <2>4. ASSUME NEW k \in 1..(Len(w) + Len(c)) PROVE (s \o r)[k] = (w \o c)[k]
    <3>1. CASE k <= Len(w)
      BY <1>1, <2>1, <2>2, <2>3, <3>1
    <3>2. CASE k = Len(w) + 1
      BY <1>1, <2>1, <2>2, <2>3, <3>2
    <3>3. CASE k > Len(w) + 1
      <4>1. k - (Len(w) + 1) \in 1..(Len(c) - 1) /\ (k - (Len(w) + 1)) + 1 = k - Len(w)
        BY <2>1, <3>3
      <4> QED
        BY <1>1, <2>1, <2>2, <2>3, <3>3, <4>1
    <3> QED
      BY <2>1, <3>1, <3>2, <3>3
  <2> HIDE DEF s, r
  <2>5. s \o r = w \o c
    BY <1>1, <2>1, <2>3, <2>4, SeqEqual
  <2> QED
    BY <2>5 DEF s, r
<1> QED
  BY <1>1, <1>2, <1>3

\* Every entry of the output was issued.
LEMMA OutputIssued ==
    ASSUME LoggerInv
    PROVE  /\ Output \in Seq(Entries)
           /\ \A k \in DOMAIN Output : Output[k] \in Issued
<1>1. written \in Seq(Entries) /\ ch \in Seq(Entries)
  BY DEF LoggerInv, TypeOK
<1>2. /\ Output \in Seq(Entries) /\ Len(Output) = Len(written) + Len(ch)
      /\ \A k \in 1..(Len(written) + Len(ch)) :
             Output[k] = IF k <= Len(written) THEN written[k] ELSE ch[k - Len(written)]
  BY <1>1, OutputSeq DEF Output
<1>3. ASSUME NEW k \in DOMAIN Output PROVE Output[k] \in ToSet(written) \cup ToSet(ch)
  <2>1. k \in 1..(Len(written) + Len(ch)) /\ Len(written) \in Nat /\ Len(ch) \in Nat
    BY <1>1, <1>2
  <2>2. CASE k <= Len(written)
    <3>1. k \in DOMAIN written /\ Output[k] = written[k]
      BY <1>1, <1>2, <2>1, <2>2
    <3> QED
      BY <3>1 DEF ToSet
  <2>3. CASE k > Len(written)
    <3>1. k - Len(written) \in DOMAIN ch /\ Output[k] = ch[k - Len(written)]
      BY <1>1, <1>2, <2>1, <2>3
    <3> QED
      BY <3>1 DEF ToSet
  <2> QED
    BY <2>1, <2>2, <2>3
<1>4. ToSet(written) \cup ToSet(ch) \subseteq Issued
  BY DEF LoggerInv, InOnePlace
<1> QED
  BY <1>2, <1>3, <1>4

\* An entry at the end that was not sent directly, or is the youngest of its
\* caller, leaves the order alone.
LEMMA SortedAppend ==
    ASSUME NEW s \in Seq(Entries), NEW e \in Entries, NEW d, DirectSorted(s, d)
    PROVE  /\ e \notin d => DirectSorted(Append(s, e), d)
           /\ (\A k \in DOMAIN s : s[k] # e /\ (s[k][1] = e[1] => s[k][2] < e[2]))
                  => DirectSorted(Append(s, e), d \cup {e})
<1>1. /\ Len(s) \in Nat /\ DOMAIN s = 1..Len(s) /\ DOMAIN Append(s, e) = 1..(Len(s) + 1)
      /\ \A k \in 1..Len(s) : Append(s, e)[k] = s[k]
      /\ Append(s, e)[Len(s) + 1] = e
  OBVIOUS
<1>2. PICK t : t = Append(s, e)
  OBVIOUS
<1>3. ASSUME NEW k \in DOMAIN t, NEW l \in DOMAIN t, k < l
      PROVE  k \in DOMAIN s /\ t[k] = s[k] /\ ((l \in DOMAIN s /\ t[l] = s[l]) \/ t[l] = e)
  BY <1>1, <1>2, <1>3
<1>4. e \notin d => DirectSorted(t, d)
  BY <1>3 DEF DirectSorted
<1>5. ASSUME \A k \in DOMAIN s : s[k] # e /\ (s[k][1] = e[1] => s[k][2] < e[2])
      PROVE  DirectSorted(t, d \cup {e})
  BY <1>3, <1>5 DEF DirectSorted
<1> QED
  BY <1>2, <1>4, <1>5

\* Every step keeps the order.
LEMMA OrderStep == LoggerInv /\ OrderInv /\ [Next]_vars => OrderInv'
<1> SUFFICES ASSUME LoggerInv, OrderInv, [Next]_vars PROVE OrderInv'
  OBVIOUS
<1> USE DEF vars, history
<1>t. /\ ch \in Seq(Entries) /\ parked \in Seq(Entries) /\ written \in Seq(Entries)
      /\ spawned \subseteq Entries
  BY DEF LoggerInv, TypeOK
<1>o. Output \in Seq(Entries) /\ \A k \in DOMAIN Output : Output[k] \in Issued
  BY OutputIssued
<1>1. ASSUME NEW c \in Callers, Info(c) PROVE OrderInv'
  <2>0. /\ <<c, issued[c] + 1>> \in Entries /\ <<c, issued[c] + 1>> \notin Issued
        /\ Issued' = Issued \cup {<<c, issued[c] + 1>>}
    BY <1>1, IssueOne DEF Info, LoggerInv
  <2>e. PICK e \in Entries : e = <<c, issued[c] + 1>>
    BY <2>0
  <2>p. parked' = parked /\ written' = written
    BY <1>1 DEF Info
  <2>d. e \notin ToSet(parked) /\ e \notin spawned
    BY <2>0, <2>e DEF LoggerInv, InOnePlace
  <2>1. CASE ch' = Append(ch, e) /\ direct' = direct \cup {e} /\ spawned' = spawned
    <3>1. Output' = Append(Output, e)
      BY <1>t, <2>p, <2>1, OutputSeq DEF Output
    <3>2. ASSUME NEW k \in DOMAIN Output
          PROVE  Output[k] # e /\ (Output[k][1] = e[1] => Output[k][2] < e[2])
      <4>1. PICK f \in Entries : f = Output[k] /\ f \in Issued /\ f[2] <= issued[f[1]]
        BY <1>o DEF Issued
      <4>2. issued[c] \in Nat /\ f[2] \in Nat /\ e[1] = c /\ e[2] = issued[c] + 1
        BY <2>e, LogBounds DEF LoggerInv, TypeOK, Entries
      <4> QED
        BY <2>0, <2>e, <4>1, <4>2
    <3>3. DirectSorted(Append(Output, e), direct \cup {e})
      BY <1>o, <3>2, SortedAppend DEF OrderInv
    <3> QED
      BY <2>0, <2>e, <2>p, <2>d, <2>1, <3>1, <3>3 DEF OrderInv
  <2>2. CASE ch' = ch /\ direct' = direct /\ spawned' = spawned \cup {e}
    <3>1. e \notin direct
      BY <2>0, <2>e DEF OrderInv
    <3> QED
      BY <2>0, <2>e, <2>p, <2>2, <3>1 DEF OrderInv, Output
  <2> QED
    BY <1>1, <2>e, <2>1, <2>2 DEF Info
<1>2. ASSUME NEW e \in Entries, OverflowSends(e) PROVE OrderInv'
  <2>0. /\ e \in spawned /\ e \notin direct /\ spawned' = spawned \ {e}
        /\ direct' = direct /\ written' = written /\ Issued' = Issued
    BY <1>2 DEF OverflowSends, OrderInv, Issued
  <2>1. CASE ch' = Append(ch, e) /\ parked' = parked
    <3>1. Output' = Append(Output, e)
      BY <1>t, <2>0, <2>1, OutputSeq DEF Output
    <3>2. DirectSorted(Append(Output, e), direct)
      BY <1>o, <2>0, SortedAppend DEF OrderInv
    <3> QED
      BY <2>0, <2>1, <3>1, <3>2 DEF OrderInv
  <2>2. CASE ch' = ch /\ parked' = Append(parked, e)
    <3>1. ToSet(parked') = ToSet(parked) \cup {e}
      BY <1>t, <2>2, AppendSet
    <3> QED
      BY <2>0, <2>2, <3>1 DEF OrderInv, Output
  <2> QED
    BY <1>2, <2>1, <2>2 DEF OverflowSends
<1>3. ASSUME RunWrites PROVE OrderInv'
  <2>0. ch # <<>> /\ written' = Append(written, Head(ch)) /\ UNCHANGED <<spawned, direct>>
        /\ Issued' = Issued
    BY <1>3 DEF RunWrites, Receive, Issued
  <2>1. Append(written, Head(ch)) \o Tail(ch) = Output /\ Append(written, Head(ch)) \in Seq(Entries)
        /\ Tail(ch) \in Seq(Entries)
    BY <1>t, <2>0, OutputSeq DEF Output
  <2>2. CASE ch' = Tail(ch) /\ parked' = parked
    BY <2>0, <2>1, <2>2 DEF OrderInv, Output
  <2>3. CASE parked # <<>> /\ ch' = Append(Tail(ch), Head(parked)) /\ parked' = Tail(parked)
    <3>1. /\ Head(parked) \in Entries /\ Head(parked) \in ToSet(parked)
          /\ ToSet(Tail(parked)) = ToSet(parked) \ {Head(parked)}
      BY <1>t, <2>3, TailSet DEF LoggerInv, InOnePlace
    <3>p. PICK p \in Entries : p = Head(parked)
      BY <3>1
    <3>2. p \notin direct
      BY <3>1, <3>p DEF OrderInv
    <3>3. Output' = Append(Output, p)
      <4>1. PICK w \in Seq(Entries), r \in Seq(Entries) :
                w = Append(written, Head(ch)) /\ r = Tail(ch)
        BY <2>1
      <4>2. w \o Append(r, p) = Append(w \o r, p)
        BY OutputSeq
      <4> QED
        BY <2>0, <2>1, <2>3, <3>p, <4>1, <4>2 DEF Output
    <3>4. DirectSorted(Append(Output, p), direct)
      BY <1>o, <3>2, SortedAppend DEF OrderInv
    <3> QED
      BY <2>0, <2>3, <3>1, <3>3, <3>4 DEF OrderInv
  <2> QED
    BY <1>3, <2>2, <2>3 DEF RunWrites, Receive
<1>4. ASSUME RunSeesDone \/ DrainEnds \/ DrainTimesOut \/ Cancel \/ MainReturns
             \/ Finished \/ UNCHANGED vars
      PROVE  OrderInv'
  <2>1. UNCHANGED <<ch, parked, spawned, written, direct>> /\ Issued' = Issued
    BY <1>4 DEF Issued, RunSeesDone, DrainEnds, DrainTimesOut, Cancel, MainReturns, Finished
  <2> QED
    BY <2>1 DEF OrderInv, Output
<1> QED
  BY <1>1, <1>2, <1>3, <1>4 DEF Next

\* Entries that a caller sent directly are written in the order of its calls,
\* whatever the buffer, the callers and the entries that overflow in between.
THEOREM DirectKeepOrder == Spec => []DirectInOrder
<1>1. Init => OrderInv
  BY DEF Init, OrderInv, Output, DirectSorted, ToSet
<1>2. LoggerInv /\ OrderInv => DirectInOrder
  <2> SUFFICES ASSUME LoggerInv, OrderInv, NEW k \in DOMAIN written, NEW l \in DOMAIN written,
                      k < l, {written[k], written[l]} \subseteq direct,
                      written[k][1] = written[l][1]
               PROVE  written[k][2] < written[l][2]
    BY DEF DirectInOrder
  <2>1. written \in Seq(Entries) /\ ch \in Seq(Entries)
    BY DEF LoggerInv, TypeOK
  <2>2. /\ \A m \in DOMAIN written : m \in DOMAIN Output /\ Output[m] = written[m]
    BY <2>1, OutputSeq DEF Output
  <2> QED
    BY <2>2 DEF OrderInv, DirectSorted
<1> QED
  BY <1>1, <1>2, OrderStep, LoggerInvariance, PTL DEF Spec

\* Every variable keeps its type, for any callers and any size of the buffer.
THEOREM LoggerTypes == Spec => []TypeOK
<1>1. LoggerInv => TypeOK
  BY DEF LoggerInv
<1> QED
  BY <1>1, LoggerInvariance, PTL
=============================================================================
