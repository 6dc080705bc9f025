--------------------------- MODULE StatisticsProofs ---------------------------
(* Calculate, for every length and every order of the numbers.  The          *)
(* percentile: quickselect never gives up the side of the pivot that holds   *)
(* the answer, and finds the number of that rank.  The aggregation: slices   *)
(* lie in the input, and count, sum, min and max are those of the input      *)
(* whatever the number of processors and the order of the goroutines.        *)
EXTENDS Statistics, FoldProofs, FiniteSetTheorems, FunctionTheorems,
        SequenceTheorems, TLAPS

\* How many of the numbers of v do not exceed x.
UpTo(v, x) == Cardinality({k \in DOMAIN v : v[k] <= x})

\* v holds the numbers of the request, in some order.
Rearranged(v) ==
    /\ v \in [0..(Length - 1) -> Values]
    /\ \A x \in Int : UpTo(v, x) = UpTo(numbers, x)

\* What is outside of lo..hi is on the right side of what is inside.
Sides(v, lo, hi) ==
    \A k, m \in 0..(Length - 1) :
        (k < lo /\ m >= lo) \/ (k <= hi /\ m > hi) => v[k] <= v[m]

\* Between store and i the numbers are not less than the pivot at right.
Partitioned ==
    /\ left < right /\ left <= store /\ store <= i /\ i <= right
    /\ \A k \in left..(store - 1) : values[k] < values[right]
    /\ \A k \in store..(i - 1) : values[k] >= values[right]

\* The number at index k has its final place in the range lo..hi.
Placed(k, lo, hi) ==
    /\ k \in lo..hi
    /\ \A m \in lo..(k - 1) : values[m] <= values[k]
    /\ \A m \in (k + 1)..hi : values[m] >= values[k]

SelectInv ==
    /\ numbers \in Seq(Values)
    /\ phase \in {"idle", "select", "partition", "compare", "done"}
    /\ phase # "done" => p95 = NoValue
    /\ phase = "idle" => i = 0 /\ store = 0
    /\ phase # "idle" =>
          /\ Length > 0
          /\ percent \in Percents /\ target = Select!PercentileIndex(percent, Length)
          /\ 0 <= left /\ left <= target /\ target <= right /\ right < Length
          /\ left \in Int /\ right \in Int
          /\ i \in 0..(Length - 1) /\ store \in 0..(Length - 1)
          /\ Rearranged(values) /\ Sides(values, left, right)
    /\ phase = "partition" => Partitioned
    /\ phase = "compare" => Placed(store, left, right)
    /\ phase = "done" => p95 = values[target] /\ Placed(target, 0, Length - 1)

-----------------------------------------------------------------------------
\* As many numbers do not exceed x after a swap as before.
LEMMA SwapCounts ==
    ASSUME NEW n \in Nat, NEW v \in [0..(n - 1) -> Int],
           NEW a \in 0..(n - 1), NEW b \in 0..(n - 1), NEW x \in Int
    PROVE  UpTo(Select!Swap(v, a, b), x) = UpTo(v, x)
<1>1. PICK w \in [0..(n - 1) -> Int] :
          /\ w = Select!Swap(v, a, b)
          /\ \A k \in 0..(n - 1) : w[k] = IF k = a THEN v[b]
                                         ELSE IF k = b THEN v[a] ELSE v[k]
  <2>1. PICK D : D = 0..(n - 1)
    OBVIOUS
  <2>2. /\ Select!Swap(v, a, b) \in [D -> Int]
        /\ \A k \in D : Select!Swap(v, a, b)[k] = IF k = a THEN v[b]
                                                  ELSE IF k = b THEN v[a] ELSE v[k]
    <3>1. v \in [D -> Int] /\ a \in D /\ b \in D
      BY <2>1
    <3> QED
      BY <3>1 DEF Select!Swap
  <2> QED
    BY <2>1, <2>2
<1> DEFINE S == {k \in 0..(n - 1) : v[k] <= x}
           T == {k \in 0..(n - 1) : w[k] <= x}
           f == [k \in S |-> IF k = a THEN b ELSE IF k = b THEN a ELSE k]
<1>2. IsFiniteSet(S)
  <2>1. IsFiniteSet(0..(n - 1))
    BY FS_Interval
  <2> QED
    BY <2>1, FS_Subset
<1>3. f \in Bijection(S, T)
  <2>1. \A k \in S : (IF k = a THEN b ELSE IF k = b THEN a ELSE k) \in T
    BY <1>1
  <2>2. f \in [S -> T] /\ \A k, m \in S : f[k] = f[m] => k = m
    BY <2>1
  <2>3. ASSUME NEW m \in T PROVE \E k \in S : f[k] = m
    <3> DEFINE k == IF m = a THEN b ELSE IF m = b THEN a ELSE m
    <3>1. k \in S /\ f[k] = m
      BY <1>1
    <3> QED
      BY <3>1
  <2> HIDE DEF f
  <2> QED
    BY <2>2, <2>3, Fun_IsBij
<1>4. Cardinality(T) = Cardinality(S)
  BY <1>2, <1>3, FS_Bijection DEF ExistsBijection
<1> QED
  BY <1>1, <1>4 DEF UpTo

\* A swap inside the range keeps the numbers and their sides.
LEMMA SwapKeeps ==
    ASSUME Length \in Nat, Values \subseteq Int, NEW lo \in Int, NEW hi \in Int, 0 <= lo, hi < Length,
           NEW v, Rearranged(v), Sides(v, lo, hi), NEW a \in lo..hi, NEW b \in lo..hi
    PROVE  /\ Rearranged(Select!Swap(v, a, b)) /\ Sides(Select!Swap(v, a, b), lo, hi)
           /\ \A k \in 0..(Length - 1) :
                  Select!Swap(v, a, b)[k] = IF k = a THEN v[b]
                                            ELSE IF k = b THEN v[a] ELSE v[k]
<1>1. a \in 0..(Length - 1) /\ b \in 0..(Length - 1)
  OBVIOUS
<1>2. v \in [0..(Length - 1) -> Values] /\ v \in [0..(Length - 1) -> Int]
  BY DEF Rearranged
<1>3. PICK w \in [0..(Length - 1) -> Values] :
          /\ w = Select!Swap(v, a, b)
          /\ \A k \in 0..(Length - 1) : w[k] = IF k = a THEN v[b]
                                              ELSE IF k = b THEN v[a] ELSE v[k]
  <2>1. PICK D : D = 0..(Length - 1)
    OBVIOUS
  <2>2. /\ Select!Swap(v, a, b) \in [D -> Values]
        /\ \A k \in D : Select!Swap(v, a, b)[k] = IF k = a THEN v[b]
                                                  ELSE IF k = b THEN v[a] ELSE v[k]
    <3>1. v \in [D -> Values] /\ a \in D /\ b \in D
      BY <1>1, <1>2, <2>1
    <3> QED
      BY <3>1 DEF Select!Swap
  <2> QED
    BY <2>1, <2>2
<1>4. \A x \in Int : UpTo(w, x) = UpTo(v, x)
  BY <1>1, <1>2, <1>3, SwapCounts
<1>5. Rearranged(w)
  <2>1. \A x \in Int : UpTo(v, x) = UpTo(numbers, x)
    BY DEF Rearranged
  <2>2. \A x \in Int : UpTo(w, x) = UpTo(numbers, x)
    BY <1>4, <2>1
  <2> QED
    BY <1>3, <2>2 DEF Rearranged
<1>6. Sides(w, lo, hi)
  <2> SUFFICES ASSUME NEW k \in 0..(Length - 1), NEW m \in 0..(Length - 1),
                      (k < lo /\ m >= lo) \/ (k <= hi /\ m > hi)
               PROVE  w[k] <= w[m]
    BY DEF Sides
  <2> DEFINE from(j) == IF j = a THEN b ELSE IF j = b THEN a ELSE j
  <2>1. /\ from(k) \in 0..(Length - 1) /\ from(m) \in 0..(Length - 1)
        /\ (from(k) < lo /\ from(m) >= lo) \/ (from(k) <= hi /\ from(m) > hi)
    BY <1>1
  <2>2. w[k] = v[from(k)] /\ w[m] = v[from(m)]
    BY <1>3
  <2> QED
    BY <2>1, <2>2 DEF Sides
<1> QED
  BY <1>3, <1>5, <1>6

\* So does an exchange that is made only for numbers in the wrong order.
LEMMA SwapIfGreaterKeeps ==
    ASSUME Length \in Nat, Values \subseteq Int, NEW lo \in Int, NEW hi \in Int, 0 <= lo, hi < Length,
           NEW v, Rearranged(v), Sides(v, lo, hi), NEW a \in lo..hi, NEW b \in lo..hi
    PROVE  /\ Rearranged(Select!SwapIfGreater(v, a, b))
           /\ Sides(Select!SwapIfGreater(v, a, b), lo, hi)
<1>1. CASE v[a] > v[b]
  BY <1>1, SwapKeeps DEF Select!SwapIfGreater
<1>2. CASE ~(v[a] > v[b])
  BY <1>2 DEF Select!SwapIfGreater
<1> QED
  BY <1>1, <1>2

\* The index of the percentile: percent of the numbers end there, and not
\* before.
LEMMA IndexOfPercentile ==
    ASSUME NEW n \in Nat \ {0}, NEW p \in 1..100
    PROVE  LET t == Select!PercentileIndex(p, n)
           IN  t \in 0..(n - 1) /\ 100 * (t + 1) >= p * n /\ 100 * t < p * n
<1>1. PICK q \in Int : q = p * n
  OBVIOUS
<1>2. 1 <= q /\ q <= 100 * n
  <2>1. \A c, d, e \in Nat : c <= d => c * e <= d * e
    OBVIOUS
  <2>2. 1 * n <= p * n /\ p * n <= 100 * n
    BY <2>1
  <2> QED
    BY <1>1, <2>2
<1>3. (q + 99) \div 100 - 1 \in 0..(n - 1)
  BY <1>2
<1>4. Select!PercentileIndex(p, n) = (q + 99) \div 100 - 1
  BY <1>1, <1>3 DEF Select!PercentileIndex
<1>5. 100 * ((q + 99) \div 100) >= q /\ 100 * ((q + 99) \div 100 - 1) < q
  OBVIOUS
<1> QED
  BY <1>1, <1>3, <1>4, <1>5

\* While a percentile is selected, the target is its index.
LEMMA TargetIndex ==
    ASSUME SelectInv, phase # "idle"
    PROVE  /\ Length \in Nat \ {0} /\ percent \in 1..100 /\ target \in 0..(Length - 1)
           /\ 100 * (target + 1) >= percent * Length /\ 100 * target < percent * Length
<1>1. Length \in Nat \ {0}
  <2>1. numbers \in Seq(Values) /\ Length > 0
    BY DEF SelectInv
  <2> QED
    BY <2>1 DEF Length
<1>2. percent \in 1..100 /\ target = Select!PercentileIndex(percent, Length)
  BY PercentBounds DEF SelectInv
<1> QED
  BY <1>1, <1>2, IndexOfPercentile

\* The copy holds the numbers of the request.
LEMMA CopyCounts ==
    ASSUME NEW S, S \subseteq Int, NEW s \in Seq(S), NEW x \in Int
    PROVE  UpTo([k \in 0..(Len(s) - 1) |-> s[k + 1]], x) = UpTo(s, x)
<1> DEFINE v == [k \in 0..(Len(s) - 1) |-> s[k + 1]]
           A == {k \in 1..Len(s) : s[k] <= x}
           B == {k \in 0..(Len(s) - 1) : s[k + 1] <= x}
           f == [k \in A |-> k - 1]
<1>1. Len(s) \in Nat /\ DOMAIN s = 1..Len(s)
  OBVIOUS
<1>2. IsFiniteSet(A)
  <2>1. IsFiniteSet(1..Len(s))
    BY <1>1, FS_Interval
  <2> QED
    BY <2>1, FS_Subset
<1>3. f \in Bijection(A, B)
  <2>1. \A k \in A : k - 1 \in B /\ k \in Int
    BY <1>1
  <2>2. f \in [A -> B] /\ \A k, m \in A : f[k] = f[m] => k = m
    BY <2>1
  <2>3. ASSUME NEW m \in B PROVE \E k \in A : f[k] = m
    <3>1. m + 1 \in A /\ (m + 1) - 1 = m
      BY <1>1
    <3> QED
      BY <3>1
  <2> HIDE DEF f
  <2> QED
    BY <2>2, <2>3, Fun_IsBij
<1>4. Cardinality(B) = Cardinality(A)
  BY <1>2, <1>3, FS_Bijection DEF ExistsBijection
<1>5. {k \in DOMAIN v : v[k] <= x} = B /\ {k \in DOMAIN s : s[k] <= x} = A
  BY <1>1
<1> HIDE DEF A, B, v
<1> QED
  BY <1>4, <1>5 DEF UpTo, v

-----------------------------------------------------------------------------
(* The steps of quickselect.                                                *)

\* A request with numbers begins with the whole copy as the range.
LEMMA BeginStep == ASSUME SelectInv, Select!Begin PROVE SelectInv'
<1>0. /\ numbers' = numbers /\ i' = i /\ store' = store /\ p95' = p95 /\ phase = "idle"
      /\ Length > 0 /\ left' = 0 /\ right' = Length - 1 /\ phase' = "select"
      /\ values' = [k \in 0..(Length - 1) |-> numbers[k + 1]]
  BY DEF Select!Begin, Select!Length, Select!Index, Length
<1>1. PICK p \in Percents : percent' = p /\ target' = Select!PercentileIndex(p, Length)
  BY DEF Select!Begin, Select!Length, Length
<1>2. /\ numbers \in Seq(Values) /\ Values \subseteq Int /\ Length \in Nat \ {0} /\ p \in 1..100
      /\ Length' = Length
  BY <1>0, StatsBounds, PercentBounds DEF SelectInv, Length
<1>3. target' \in 0..(Length - 1)
  BY <1>1, <1>2, IndexOfPercentile
<1>4. Rearranged(values)'
  <2>1. values' \in [0..(Length - 1) -> Values]
    BY <1>0, <1>2 DEF Length
  <2>2. \A x \in Int : UpTo(values', x) = UpTo(numbers, x)
    BY <1>0, <1>2, CopyCounts DEF Length
  <2> QED
    BY <1>0, <1>2, <2>1, <2>2 DEF Rearranged
<1>5. Sides(values, left, right)'
  BY <1>0, <1>2 DEF Sides
<1> QED
  BY <1>0, <1>1, <1>2, <1>3, <1>4, <1>5 DEF SelectInv

\* What a step that moves numbers inside the range has to show.
LEMMA InsideRange ==
    ASSUME SelectInv, phase # "idle", phase' \in {"partition", "compare"},
           UNCHANGED <<numbers, percent, target, left, right, p95>>, phase # "done",
           i' \in 0..(Length - 1), store' \in 0..(Length - 1),
           NEW w, values' = w, Rearranged(w), Sides(w, left, right),
           phase' = "partition" => Partitioned',
           phase' = "compare" => Placed(store, left, right)'
    PROVE  SelectInv'
<1>1. Length' = Length
  BY DEF Length
<1>2. Rearranged(values)' /\ Sides(values, left, right)'
  BY <1>1 DEF Rearranged, Sides
<1> QED
  BY <1>1, <1>2 DEF SelectInv

\* medianOfThree and the swap of the pivot stay inside the range.
LEMMA BeginPartitionStep == ASSUME SelectInv, Select!BeginPartition PROVE SelectInv'
<1>0. /\ phase = "select" /\ left < right /\ i' = left /\ store' = left /\ phase' = "partition"
      /\ values' = Select!Swap(Select!MedianOfThree, Select!Middle, right)
      /\ UNCHANGED <<numbers, percent, target, left, right, p95>>
  BY DEF Select!BeginPartition
<1>1. /\ Values \subseteq Int /\ Length \in Nat /\ left \in Int /\ right \in Int
      /\ 0 <= left /\ right < Length /\ Rearranged(values) /\ Sides(values, left, right)
  BY <1>0, StatsBounds DEF SelectInv, Length
<1>2. PICK middle \in left..right : middle = Select!Middle
  BY <1>0, <1>1 DEF Select!Middle
<1>3. left \in left..right /\ right \in left..right
  BY <1>0, <1>1
<1>4. PICK v1 : /\ v1 = Select!SwapIfGreater(values, left, middle)
                /\ Rearranged(v1) /\ Sides(v1, left, right)
  BY <1>1, <1>3, SwapIfGreaterKeeps
<1>5. PICK v2 : /\ v2 = Select!SwapIfGreater(v1, left, right)
                /\ Rearranged(v2) /\ Sides(v2, left, right)
  BY <1>1, <1>3, <1>4, SwapIfGreaterKeeps
<1>6. PICK v3 : /\ v3 = Select!SwapIfGreater(v2, middle, right)
                /\ Rearranged(v3) /\ Sides(v3, left, right)
  BY <1>1, <1>3, <1>5, SwapIfGreaterKeeps
<1>7. PICK w : /\ w = Select!Swap(v3, middle, right)
               /\ Rearranged(w) /\ Sides(w, left, right)
  BY <1>1, <1>3, <1>6, SwapKeeps
<1>8. values' = w
  BY <1>0, <1>2, <1>4, <1>5, <1>6, <1>7 DEF Select!MedianOfThree
<1>9. Partitioned'
  BY <1>0, <1>1 DEF Partitioned
<1>10. left \in 0..(Length - 1)
  BY <1>0, <1>1
<1> QED
  BY <1>0, <1>7, <1>8, <1>9, <1>10, InsideRange

\* One turn of the loop of partition.
LEMMA ScanStep == ASSUME SelectInv, Select!Scan PROVE SelectInv'
<1>0. /\ phase = "partition" /\ i < right /\ i' = i + 1 /\ phase' = "partition"
      /\ UNCHANGED <<numbers, percent, target, left, right, p95>>
  BY DEF Select!Scan
<1>1. /\ Values \subseteq Int /\ Length \in Nat /\ left \in Int /\ right \in Int
      /\ 0 <= left /\ right < Length /\ Rearranged(values) /\ Sides(values, left, right)
      /\ i \in Int /\ store \in Int /\ Partitioned
  BY <1>0, StatsBounds DEF SelectInv, Length
<1>2. left <= store /\ store <= i /\ i \in left..right /\ store \in left..right
  BY <1>0, <1>1 DEF Partitioned
<1>3. \A k \in 0..(Length - 1) : values[k] \in Int
  BY <1>1 DEF Rearranged
<1>4. CASE values[i] < values[right] /\ values' = Select!Swap(values, store, i) /\ store' = store + 1
  <2>1. PICK w : /\ w = Select!Swap(values, store, i) /\ Rearranged(w) /\ Sides(w, left, right)
                 /\ \A k \in 0..(Length - 1) : w[k] = IF k = store THEN values[i]
                                                     ELSE IF k = i THEN values[store] ELSE values[k]
    BY <1>1, <1>2, SwapKeeps
  <2>2. w[right] = values[right]
    BY <1>0, <1>1, <1>2, <2>1
  <2>3. ASSUME NEW k \in left..store PROVE w[k] < w[right]
    BY <1>0, <1>1, <1>2, <1>4, <2>1, <2>2, <2>3 DEF Partitioned
  <2>4. ASSUME NEW k \in (store + 1)..i PROVE w[k] >= w[right]
    <3>1. k \in 0..(Length - 1) /\ k # store /\ k \in store..i
      BY <1>0, <1>1, <1>2, <2>4
    <3>2. CASE k = i
      BY <1>0, <1>1, <1>2, <2>1, <2>2, <3>1, <3>2 DEF Partitioned
    <3>3. CASE k # i
      BY <1>0, <1>1, <1>2, <2>1, <2>2, <3>1, <3>3 DEF Partitioned
    <3> QED
      BY <3>2, <3>3
  <2>5. Partitioned'
    <3>1. left < right /\ left <= store + 1 /\ store + 1 <= i + 1 /\ i + 1 <= right
      BY <1>0, <1>1, <1>2
    <3>2. (store + 1) - 1 = store /\ (i + 1) - 1 = i
      BY <1>1
    <3> QED
      BY <1>0, <1>4, <2>1, <2>3, <2>4, <3>1, <3>2 DEF Partitioned
  <2>6. i + 1 \in 0..(Length - 1) /\ store + 1 \in 0..(Length - 1)
    BY <1>0, <1>1, <1>2
  <2> QED
    BY <1>0, <1>4, <2>1, <2>5, <2>6, InsideRange
<1>5. CASE ~(values[i] < values[right]) /\ values' = values /\ store' = store
  <2>1. i \in 0..(Length - 1) /\ right \in 0..(Length - 1)
    BY <1>0, <1>1, <1>2
  <2>2. Partitioned'
    <3>1. left < right /\ left <= store /\ store <= i + 1 /\ i + 1 <= right
      BY <1>0, <1>1, <1>2
    <3>2. \A k \in store..((i + 1) - 1) : values[k] >= values[right]
      BY <1>1, <1>2, <1>3, <1>5, <2>1 DEF Partitioned
    <3> QED
      BY <1>0, <1>1, <1>5, <3>1, <3>2 DEF Partitioned
  <2>3. i + 1 \in 0..(Length - 1) /\ store \in 0..(Length - 1)
    BY <1>0, <1>1, <1>2
  <2> QED
    BY <1>0, <1>1, <1>5, <2>2, <2>3, InsideRange
<1> QED
  BY <1>4, <1>5 DEF Select!Scan

\* The pivot comes to its final place.
LEMMA EndPartitionStep == ASSUME SelectInv, Select!EndPartition PROVE SelectInv'
<1>0. /\ phase = "partition" /\ i = right /\ phase' = "compare"
      /\ values' = Select!Swap(values, right, store)
      /\ UNCHANGED <<numbers, percent, target, left, right, i, store, p95>>
  BY DEF Select!EndPartition
<1>1. /\ Values \subseteq Int /\ Length \in Nat /\ left \in Int /\ right \in Int
      /\ 0 <= left /\ right < Length /\ Rearranged(values) /\ Sides(values, left, right)
      /\ i \in 0..(Length - 1) /\ store \in 0..(Length - 1) /\ Partitioned
  BY <1>0, StatsBounds DEF SelectInv, Length
<1>2. store \in left..right /\ right \in left..right /\ left < right
  BY <1>0, <1>1 DEF Partitioned
<1>3. PICK w : /\ w = Select!Swap(values, right, store) /\ Rearranged(w) /\ Sides(w, left, right)
               /\ \A k \in 0..(Length - 1) : w[k] = IF k = right THEN values[store]
                                                   ELSE IF k = store THEN values[right] ELSE values[k]
  BY <1>1, <1>2, SwapKeeps
<1>4. \A k \in 0..(Length - 1) : values[k] \in Int
  BY <1>1 DEF Rearranged
<1>5. w[store] = values[right]
  BY <1>1, <1>2, <1>3
<1>6. ASSUME NEW m \in left..(store - 1) PROVE w[m] <= w[store]
  <2>1. m \in 0..(Length - 1) /\ m # right /\ m # store /\ right \in 0..(Length - 1)
    BY <1>1, <1>2
  <2>2. values[m] < values[right]
    BY <1>1 DEF Partitioned
  <2> QED
    BY <1>3, <1>4, <1>5, <2>1, <2>2
<1>7. ASSUME NEW m \in (store + 1)..right PROVE w[m] >= w[store]
  <2>1. m \in 0..(Length - 1) /\ m # store /\ right \in 0..(Length - 1) /\ store < right
    BY <1>1, <1>2
  <2>2. \A k \in store..(right - 1) : values[k] >= values[right]
    BY <1>0, <1>1 DEF Partitioned
  <2>3. CASE m = right
    BY <1>2, <1>3, <1>5, <2>1, <2>2, <2>3
  <2>4. CASE m # right
    <3>1. m \in store..(right - 1)
      BY <1>1, <1>2, <2>4
    <3> QED
      BY <1>3, <1>5, <2>1, <2>2, <2>4, <3>1
  <2> QED
    BY <2>3, <2>4
<1>8. Placed(store, left, right)'
  BY <1>0, <1>2, <1>3, <1>6, <1>7 DEF Placed
<1> QED
  BY <1>0, <1>1, <1>3, <1>8, InsideRange

\* The range shrinks to the side of the pivot that holds the target.
LEMMA NarrowStep == ASSUME SelectInv, Select!Narrow PROVE SelectInv'
<1>0. /\ phase = "compare" /\ store # target /\ phase' = "select"
      /\ UNCHANGED <<numbers, values, percent, target, i, store, p95>>
      /\ \/ store < target /\ left' = store + 1 /\ right' = right
         \/ ~(store < target) /\ right' = store - 1 /\ left' = left
  BY DEF Select!Narrow
<1>1. /\ Values \subseteq Int /\ Length \in Nat /\ left \in Int /\ right \in Int
      /\ 0 <= left /\ left <= target /\ target <= right /\ right < Length
      /\ Rearranged(values) /\ Sides(values, left, right) /\ Length' = Length
      /\ store \in 0..(Length - 1) /\ Placed(store, left, right) /\ target \in Int
  <2>1. target \in Int
    BY <1>0, TargetIndex
  <2> QED
    BY <1>0, <2>1, StatsBounds DEF SelectInv, Length
<1>2. \A k \in 0..(Length - 1) : values[k] \in Int
  BY <1>1 DEF Rearranged
<1>3. /\ store \in left..right
      /\ \A k \in left..store : values[k] <= values[store]
      /\ \A k \in store..right : values[store] <= values[k]
  BY <1>1, <1>2 DEF Placed
<1>4. Sides(values, store + 1, right) /\ Sides(values, left, store - 1)
  <2>1. ASSUME NEW k \in 0..(Length - 1), NEW m \in 0..(Length - 1), k <= store, m >= store
        PROVE  values[k] <= values[m]
    <3>1. CASE k < left \/ m > right
      BY <1>1, <1>3, <2>1, <3>1 DEF Sides
    <3>2. CASE k >= left /\ m <= right
      <4>1. values[k] <= values[store] /\ values[store] <= values[m]
        BY <1>1, <1>3, <2>1, <3>2
      <4> QED
        BY <1>1, <1>2, <4>1
    <3> QED
      BY <1>1, <3>1, <3>2
  <2>2. Sides(values, store + 1, right)
    BY <1>1, <2>1 DEF Sides
  <2>3. Sides(values, left, store - 1)
    BY <1>1, <2>1 DEF Sides
  <2> QED
    BY <2>2, <2>3
<1>5. Sides(values, left, right)'
  BY <1>0, <1>1, <1>4 DEF Sides
<1>6. Rearranged(values)'
  BY <1>0, <1>1 DEF Rearranged
<1>7. 0 <= left' /\ left' <= target /\ target <= right' /\ right' < Length
      /\ left' \in Int /\ right' \in Int
  BY <1>0, <1>1, <1>3
<1> QED
  BY <1>0, <1>1, <1>5, <1>6, <1>7 DEF SelectInv

\* The result has its final place in all of the numbers.
LEMMA FoundStep == ASSUME SelectInv, Select!Found \/ Select!ReturnLast PROVE SelectInv'
<1>0. /\ phase \in {"select", "compare"} /\ phase' = "done"
      /\ UNCHANGED <<numbers, values, percent, target, left, right, i, store>>
  BY DEF Select!Found, Select!ReturnLast
<1>1. /\ Values \subseteq Int /\ Length \in Nat /\ left \in Int /\ right \in Int
      /\ 0 <= left /\ left <= target /\ target <= right /\ right < Length /\ target \in Int
      /\ Rearranged(values) /\ Sides(values, left, right) /\ Length' = Length
  <2>1. target \in Int
    BY <1>0, TargetIndex
  <2> QED
    BY <1>0, <2>1, StatsBounds DEF SelectInv, Length
<1>2. \A k \in 0..(Length - 1) : values[k] \in Int
  BY <1>1 DEF Rearranged
<1>3. p95' = values[target] /\ Placed(target, left, right)
  <2>1. CASE Select!Found
    BY <2>1 DEF Select!Found, SelectInv
  <2>2. CASE Select!ReturnLast
    <3>1. left = target /\ right = target /\ p95' = values[target]
      BY <1>1, <2>2 DEF Select!ReturnLast
    <3> QED
      BY <1>1, <3>1 DEF Placed
  <2> QED
    BY <2>1, <2>2
<1>4. Placed(target, 0, Length - 1)
  <2>1. ASSUME NEW m \in 0..(target - 1) PROVE values[m] <= values[target]
    <3>1. CASE m < left
      BY <1>1, <3>1 DEF Sides
    <3>2. CASE m >= left
      BY <1>1, <1>3, <3>2 DEF Placed
    <3> QED
      BY <1>1, <3>1, <3>2
  <2>2. ASSUME NEW m \in (target + 1)..(Length - 1) PROVE values[m] >= values[target]
    <3>1. CASE m > right
      BY <1>1, <1>2, <3>1 DEF Sides
    <3>2. CASE m <= right
      BY <1>1, <1>3, <3>2 DEF Placed
    <3> QED
      BY <1>1, <3>1, <3>2
  <2> QED
    BY <1>1, <2>1, <2>2 DEF Placed
<1>5. Placed(target, 0, Length - 1)' /\ Rearranged(values)' /\ Sides(values, left, right)'
  BY <1>0, <1>1, <1>4 DEF Placed, Rearranged, Sides
<1> QED
  BY <1>0, <1>1, <1>3, <1>5 DEF SelectInv

\* The aggregation leaves the selection alone.
LEMMA OutsideStep ==
    ASSUME SelectInv, Aggregate \/ Returned \/ UNCHANGED <<vars, selection>>
    PROVE  SelectInv'
<1>1. UNCHANGED <<numbers, values, percent, target, left, right, phase, i, store, p95>>
  BY DEF Aggregate, Returned, selection, vars, Next, RejectEmpty, Sequential, BeginParallel,
         Launch, StopLaunching, Work, Merge
<1> QED
  BY <1>1 DEF SelectInv, Length, Rearranged, Sides, Partitioned, Placed

\* Every step keeps the invariant.
LEMMA SelectStep == SelectInv /\ [CalculateNext]_<<vars, selection>> => SelectInv'
  BY BeginStep, BeginPartitionStep, ScanStep, EndPartitionStep, NarrowStep, FoundStep, OutsideStep
  DEF CalculateNext, SelectPercentile, Select!Next

\* The invariant holds at the start.
LEMMA SelectInit == CalculateInit => SelectInv
<1> SUFFICES ASSUME CalculateInit PROVE SelectInv
  OBVIOUS
<1>1. numbers \in Seq(Values)
  BY StatsBounds DEF CalculateInit, Init, BoundedSeq, SeqOf
<1> QED
  BY <1>1 DEF CalculateInit, Select!Init, SelectInv

\* The invariant holds in every reachable state.
LEMMA SelectInvariance == CalculateSpec => []SelectInv
  BY SelectInit, SelectStep, PTL DEF CalculateSpec

-----------------------------------------------------------------------------
\* The instance counts as this module does.
LEMMA SameCardinality == \A S : Select!Cardinality(S) = Cardinality(S)
  BY DEF Select!Cardinality, Cardinality, Select!IsFiniteSet, IsFiniteSet

\* Giving up one side of the pivot never gives up the answer, for every input.
THEOREM NeverGivesUpTarget == CalculateSpec => []TargetInRange
<1>1. SelectInv => TargetInRange
  BY DEF SelectInv, TargetInRange, Select!TargetInRange, Sides, Select!Index, Select!Length, Length
<1> QED
  BY <1>1, SelectInvariance, PTL

\* The result of quickselect is the percentile of the numbers, with equal
\* numbers and in every order, for every length and percentile.
THEOREM SelectsPercentile == CalculateSpec => []PercentileRank
<1>1. ASSUME SelectInv, p95 # NoValue
      PROVE  /\ 100 * UpTo(numbers, p95) >= percent * Length
             /\ \A x \in Int : x < p95 => 100 * UpTo(numbers, x) < percent * Length
  <2>0. /\ phase = "done" /\ p95 = values[target] /\ Placed(target, 0, Length - 1)
        /\ Rearranged(values)
    BY <1>1 DEF SelectInv
  <2>1. /\ Length \in Nat \ {0} /\ percent \in 1..100 /\ target \in 0..(Length - 1)
        /\ 100 * (target + 1) >= percent * Length /\ 100 * target < percent * Length
    BY <1>1, <2>0, TargetIndex
  <2>2. values \in [0..(Length - 1) -> Int]
    BY <2>0, StatsBounds DEF Rearranged
  <2>3. \A x \in Int : UpTo(numbers, x) = UpTo(values, x)
    BY <2>0 DEF Rearranged
  <2>4. p95 \in Int
    BY <2>0, <2>1, <2>2
  <2>5. PICK q \in Int :
            q = percent * Length /\ 100 * (target + 1) >= q /\ 100 * target < q
    BY <2>1
  <2>6. ASSUME NEW x \in Int
        PROVE  /\ IsFiniteSet({k \in DOMAIN values : values[k] <= x})
               /\ UpTo(values, x) \in Nat
    <3>1. IsFiniteSet(0..(Length - 1))
      BY <2>1, FS_Interval
    <3>2. {k \in DOMAIN values : values[k] <= x} \subseteq 0..(Length - 1)
      BY <2>2
    <3>3. IsFiniteSet({k \in DOMAIN values : values[k] <= x})
      BY <3>1, <3>2, FS_Subset
    <3> QED
      BY <3>3, FS_CardinalityType DEF UpTo
  <2>7. UpTo(values, p95) >= target + 1
    <3>1. \A m \in 0..target : m \in 0..(Length - 1) /\ values[m] <= p95
      <4> SUFFICES ASSUME NEW m \in 0..target PROVE m \in 0..(Length - 1) /\ values[m] <= p95
        OBVIOUS
      <4>1. CASE m = target
        BY <2>0, <2>1, <2>4, <4>1
      <4>2. CASE m # target
        BY <2>0, <2>1, <4>2 DEF Placed
      <4> QED
        BY <4>1, <4>2
    <3>2. 0..target \subseteq {k \in DOMAIN values : values[k] <= p95}
      BY <2>2, <3>1
    <3>3. target \in Int /\ 0 \in Int /\ 0 <= target
      BY <2>1
    <3>4. Cardinality(0..target) = target + 1
      BY <3>3, FS_Interval
    <3>5. Cardinality(0..target) <= UpTo(values, p95)
      BY <2>4, <2>6, <3>2, FS_Subset DEF UpTo
    <3> QED
      BY <3>4, <3>5
  <2>8. ASSUME NEW x \in Int, x < p95 PROVE UpTo(values, x) <= target
    <3>1. {k \in DOMAIN values : values[k] <= x} \subseteq 0..(target - 1)
      <4> SUFFICES ASSUME NEW k \in 0..(Length - 1), values[k] <= x, k >= target PROVE FALSE
        BY <2>1, <2>2
      <4>1. values[k] >= p95
        <5>1. CASE k = target
          BY <2>0, <2>4, <5>1
        <5>2. CASE k # target
          BY <2>0, <2>1, <5>2 DEF Placed
        <5> QED
          BY <5>1, <5>2
      <4>2. values[k] \in Int /\ p95 \in Int
        BY <2>2, <2>4
      <4> QED
        BY <2>8, <4>1, <4>2
    <3>2. IsFiniteSet(0..(target - 1)) /\ Cardinality(0..(target - 1)) = target
      <4>1. target \in Nat /\ 0 \in Int /\ target - 1 \in Int
        BY <2>1
      <4>2. IsFiniteSet(0..(target - 1))
        BY <4>1, FS_Interval
      <4>3. Cardinality(0..(target - 1)) = IF 0 > target - 1 THEN 0 ELSE target - 1 - 0 + 1
        BY <4>1, FS_Interval
      <4> QED
        BY <4>1, <4>2, <4>3
    <3>3. Cardinality({k \in DOMAIN values : values[k] <= x}) <= Cardinality(0..(target - 1))
      BY <3>1, <3>2, FS_Subset
    <3> QED
      BY <3>2, <3>3 DEF UpTo
  <2>9. 100 * UpTo(numbers, p95) >= percent * Length
    <3>1. PICK u \in Nat : u = UpTo(numbers, p95) /\ u >= target + 1
      BY <2>3, <2>4, <2>6, <2>7
    <3>2. 100 * u >= q
      BY <2>1, <2>5, <3>1
    <3> QED
      BY <2>5, <3>1, <3>2
  <2>10. ASSUME NEW x \in Int, x < p95 PROVE 100 * UpTo(numbers, x) < percent * Length
    <3>1. PICK u \in Nat : u = UpTo(numbers, x) /\ u <= target
      BY <2>3, <2>6, <2>8, <2>10
    <3>2. 100 * u < q
      BY <2>1, <2>5, <3>1
    <3> QED
      BY <2>5, <3>1, <3>2
  <2> QED
    BY <2>9, <2>10
<1>2. ASSUME SelectInv, NEW x \in ToSet(numbers) PROVE x \in Int
  <2>1. numbers \in Seq(Values)
    BY <1>2 DEF SelectInv
  <2>2. PICK k \in 1..Len(numbers) : x = numbers[k]
    BY <2>1 DEF ToSet
  <2>3. numbers[k] \in Values
    BY <2>1
  <2> QED
    BY <2>2, <2>3, StatsBounds
<1>3. SelectInv => PercentileRank
  <2> SUFFICES ASSUME SelectInv, p95 # NoValue
               PROVE  /\ 100 * UpTo(numbers, p95) >= percent * Length
                      /\ \A x \in ToSet(numbers) :
                             x < p95 => 100 * UpTo(numbers, x) < percent * Length
    BY SameCardinality DEF PercentileRank, Select!PercentileRank, UpTo, Select!Length, Length,
       Select!ToSet, ToSet
  <2> QED
    BY <1>1, <1>2
<1> QED
  BY <1>3, SelectInvariance, PTL

-----------------------------------------------------------------------------
(* The aggregation: one pass.                                               *)

\* A partial result.
Partial == [sum : Int, min : Int, max : Int]

\* r is the sum, the least and the greatest number of s.
Summary(r, s) ==
    /\ r \in Partial
    /\ \A q \in SumsOf(s) : r.sum = q[Len(s)]
    /\ \A k \in 1..Len(s) : r.min <= s[k] /\ s[k] <= r.max
    /\ \E k \in 1..Len(s) : r.min = s[k]
    /\ \E k \in 1..Len(s) : r.max = s[k]

\* One number more.
Extend(r, x) == [sum |-> r.sum + x,
                 min |-> IF x < r.min THEN x ELSE r.min,
                 max |-> IF x > r.max THEN x ELSE r.max]

\* A pass that takes one more number still gives a partial result.
LEMMA ExtendType == ASSUME NEW r \in Partial, NEW x \in Int PROVE Extend(r, x) \in Partial
  BY DEF Extend, Partial

\* One pass over a slice with numbers gives its summary.
LEMMA PassSummary ==
    ASSUME NEW s \in Seq(Int), s # <<>>
    PROVE  Summary(Pass(s), s)
<1> DEFINE base == [sum |-> 0, min |-> s[1], max |-> s[1]]
           Step(t, g) == IF t = {} THEN base ELSE Extend(g[t \ {Max(t)}], s[Max(t)])
<1>1. PICK n \in Nat \ {0} : n = Len(s) /\ DOMAIN s = 1..n /\ \A k \in 1..n : s[k] \in Int
  BY EmptySeq
<1>2. PICK G : \A k \in 1..n, v \in Partial : G[<<k, v>>] = Extend(v, s[k])
  <2> DEFINE H == [x \in (1..n) \X Partial |-> Extend(x[2], s[x[1]])]
  <2>1. ASSUME NEW k \in 1..n, NEW v \in Partial PROVE H[<<k, v>>] = Extend(v, s[k])
    <3>1. <<k, v>> \in (1..n) \X Partial /\ <<k, v>>[1] = k /\ <<k, v>>[2] = v
      OBVIOUS
    <3> QED
      BY <3>1
  <2> HIDE DEF H
  <2> QED
    BY <2>1
<1>3. base \in Partial
  BY <1>1 DEF Partial
<1>4. PICK f, p : Unfolds(f, p, n, Partial, base, G)
  <2>1. ASSUME NEW k \in 1..n, NEW v \in Partial PROVE G[<<k, v>>] \in Partial
    BY <1>1, <1>2, ExtendType
  <2>2. StepOn(G, 1..n, Partial)
    BY <2>1 DEF StepOn
  <2> HIDE DEF base
  <2> QED
    BY <1>3, <2>2, IndexRecursion
<1>5. PICK g : /\ Pass(s) = g[DOMAIN s]
               /\ g = CHOOSE h : h = [t \in SUBSET (DOMAIN s) |->
                         IF t = {} THEN [sum |-> 0, min |-> s[1], max |-> s[1]]
                         ELSE [sum |-> h[t \ {Max(t)}].sum + s[Max(t)],
                               min |-> IF s[Max(t)] < h[t \ {Max(t)}].min THEN s[Max(t)]
                                       ELSE h[t \ {Max(t)}].min,
                               max |-> IF s[Max(t)] > h[t \ {Max(t)}].max THEN s[Max(t)]
                                       ELSE h[t \ {Max(t)}].max]]
  BY DEF Pass, FoldLeft, MapThenFoldSet
<1>5a. g = CHOOSE h : h = [t \in SUBSET (1..n) |-> Step(t, h)]
  BY <1>1, <1>5 DEF Extend
<1>6. f = [t \in SUBSET (1..n) |-> Step(t, f)]
  <2>1. ASSUME NEW t \in SUBSET (1..n) PROVE f[t] = Step(t, f)
    <3>1. t # {} => Max(t) \in 1..n /\ f[t \ {Max(t)}] \in Partial
      BY <1>4, LastElement DEF Unfolds
    <3> HIDE DEF base
    <3> QED
      BY <1>2, <1>4, <3>1 DEF Unfolds
  <2> HIDE DEF Step
  <2> QED
    BY <1>4, <2>1 DEF Unfolds
<1>7. g = [t \in SUBSET (1..n) |-> Step(t, g)]
  <2> HIDE DEF Step
  <2> QED
    BY <1>5a, <1>6
<1> HIDE DEF base
<1>8. g[1..n] = p[n]
  <2>1. MapsSubsets(g, 1..n) /\ g[{}] = base
    BY <1>7 DEF MapsSubsets
  <2>2. AgreeAtLast(f, g, n)
    <3> SUFFICES ASSUME NEW t \in SUBSET (1..n), t # {},
                        f[t \ {Max(t)}] = g[t \ {Max(t)}]
                 PROVE  f[t] = g[t]
      BY DEF AgreeAtLast
    <3>1. /\ f[t] = Extend(f[t \ {Max(t)}], s[Max(t)])
          /\ g[t] = Extend(g[t \ {Max(t)}], s[Max(t)])
      BY <1>6, <1>7
    <3> QED
      BY <3>1
  <2> QED
    BY <1>4, <2>1, <2>2, FoldSolved
<1>9. PICK q \in SumsOf(s) : q \in [0..n -> Int] /\ q[0] = 0
                              /\ \A k \in 1..n : q[k] = q[k - 1] + s[k]
  BY <1>1, FoldLeftAdds DEF SumsOf
<1>10. /\ p \in [0..n -> Partial] /\ p[0] = base
       /\ \A k \in 1..n : p[k] = Extend(p[k - 1], s[k])
  <2>1. p \in [0..n -> Partial] /\ p[0] = base /\ \A k \in 1..n : p[k] = G[<<k, p[k - 1]>>]
    BY <1>4 DEF Unfolds
  <2>2. \A k \in 1..n : p[k - 1] \in Partial
    BY <2>1
  <2> QED
    BY <1>2, <2>1, <2>2
<1> DEFINE Good(k) == /\ p[k].sum = q[k]
                      /\ \A j \in 1..k : p[k].min <= s[j] /\ s[j] <= p[k].max
                      /\ \E j \in 1..k : p[k].min = s[j]
                      /\ \E j \in 1..k : p[k].max = s[j]
           T == {k \in Nat : k + 1 <= n => Good(k + 1)}
<1>11. 0 \in T
  <2>1. 1 \in 1..n /\ 1 - 1 = 0 /\ s[1] \in Int
    BY <1>1
  <2>2. p[1] = Extend(base, s[1]) /\ q[1] = q[0] + s[1]
    BY <1>9, <1>10, <2>1
  <2>3. p[1].sum = s[1] /\ p[1].min = s[1] /\ p[1].max = s[1] /\ q[1] = s[1]
    BY <1>9, <2>1, <2>2 DEF Extend, base
  <2>4. \A j \in 1..1 : j = 1
    OBVIOUS
  <2>5. Good(1)
    BY <2>1, <2>3, <2>4
  <2> QED
    BY <2>5
<1>12. ASSUME NEW k \in Nat, k \in T PROVE k + 1 \in T
  <2> SUFFICES ASSUME (k + 1) + 1 <= n PROVE Good((k + 1) + 1)
    OBVIOUS
  <2>1. PICK m \in 1..n : m = (k + 1) + 1 /\ m - 1 = k + 1 /\ m - 1 \in 1..n /\ m \in Nat
    BY <1>1
  <2>2. Good(m - 1)
    BY <1>12, <2>1
  <2>3. PICK r \in Partial : r = p[m - 1]
    BY <1>10, <2>1
  <2>4. PICK x \in Int : x = s[m]
    BY <1>1
  <2>5. r.sum \in Int /\ r.min \in Int /\ r.max \in Int
    BY DEF Partial
  <2>6. p[m] = Extend(r, x) /\ q[m] = q[m - 1] + x
    BY <1>9, <1>10, <2>3, <2>4
  <2>7. /\ p[m].sum = r.sum + x
        /\ p[m].min = IF x < r.min THEN x ELSE r.min
        /\ p[m].max = IF x > r.max THEN x ELSE r.max
    BY <2>6 DEF Extend
  <2>8. \A j \in 1..m : j \in 1..(m - 1) \/ j = m
    BY <2>1
  <2>9. \A j \in 1..(m - 1) : j \in 1..m /\ s[j] \in Int
    BY <1>1, <2>1
  <2>10. p[m].sum = q[m]
    BY <2>2, <2>3, <2>6, <2>7
  <2>11. \A j \in 1..(m - 1) : r.min <= s[j] /\ s[j] <= r.max
    BY <2>2, <2>3
  <2>12. ASSUME NEW j \in 1..m PROVE p[m].min <= s[j] /\ s[j] <= p[m].max
    <3>1. CASE j = m
      BY <2>4, <2>5, <2>7, <3>1
    <3>2. CASE j \in 1..(m - 1)
      <4>1. r.min <= s[j] /\ s[j] <= r.max /\ s[j] \in Int
        BY <2>9, <2>11, <3>2
      <4> QED
        BY <2>4, <2>5, <2>7, <4>1
    <3> QED
      BY <2>8, <3>1, <3>2
  <2>13. \E j \in 1..m : p[m].min = s[j]
    <3>1. CASE x < r.min
      BY <2>1, <2>4, <2>7, <3>1
    <3>2. CASE ~(x < r.min)
      <4>1. PICK j \in 1..(m - 1) : r.min = s[j]
        BY <2>2, <2>3
      <4> QED
        BY <2>7, <2>9, <3>2, <4>1
    <3> QED
      BY <3>1, <3>2
  <2>14. \E j \in 1..m : p[m].max = s[j]
    <3>1. CASE x > r.max
      BY <2>1, <2>4, <2>7, <3>1
    <3>2. CASE ~(x > r.max)
      <4>1. PICK j \in 1..(m - 1) : r.max = s[j]
        BY <2>2, <2>3
      <4> QED
        BY <2>7, <2>9, <3>2, <4>1
    <3> QED
      BY <3>1, <3>2
  <2> QED
    BY <2>1, <2>10, <2>12, <2>13, <2>14
<1> HIDE DEF T
<1>13. Nat \subseteq T
  BY <1>11, <1>12, NatSetInduction
<1>14. Good(n)
  <2>1. n - 1 \in T /\ (n - 1) + 1 = n
    BY <1>13
  <2> QED
    BY <2>1 DEF T
<1>15. Pass(s) = p[n] /\ p[n] \in Partial
  BY <1>1, <1>5, <1>8, <1>10
<1>16. \A u \in SumsOf(s) : u = q
  BY OnePrefix
<1> QED
  BY <1>1, <1>14, <1>15, <1>16 DEF Summary

-----------------------------------------------------------------------------
(* The slices.                                                              *)

\* All chunks together are long enough, and none is empty.
LEMMA ChunksCover ==
    ASSUME Length \in Nat \ {0}, procs \in Nat \ {0}
    PROVE  /\ Workers \in 1..Length /\ ChunkSize \in Nat \ {0}
           /\ Workers * ChunkSize >= Length
<1>1. Workers \in 1..Length
  BY DEF Workers
<1>2. PICK n \in Nat \ {0}, W \in Nat \ {0}, a \in Nat :
          n = Length /\ W = Workers /\ a = n + W - 1 /\ a >= W
  BY <1>1
<1>3. PICK d \in Int, r \in Int : d = a \div W /\ r = a % W /\ a = W * d + r /\ 0 <= r /\ r < W
  BY <1>2
<1>4. d = ChunkSize
  BY <1>2, <1>3 DEF ChunkSize
<1>5. W * d >= n
  BY <1>2, <1>3
<1>6. d >= 1
  <2>1. ASSUME d <= 0 PROVE W * d <= 0
    BY <2>1
  <2> QED
    BY <1>2, <1>5, <2>1
<1> QED
  BY <1>1, <1>2, <1>3, <1>4, <1>5, <1>6

\* The numbers before worker w: its slice begins there, if it has one.
Bound(w) == IF w * ChunkSize > Length THEN Length ELSE w * ChunkSize

\* The slices follow one another from 0 to the length: each ends where the next
\* begins, and a worker has one unless the numbers are used up.
LEMMA Bounds ==
    ASSUME Length \in Nat \ {0}, procs \in Nat \ {0}
    PROVE  /\ Bound(0) = 0 /\ Bound(Workers) = Length
           /\ \A w \in Nat :
                 /\ Bound(w) \in 0..Length /\ Bound(w) <= Bound(w + 1)
                 /\ End(w) = Bound(w + 1)
                 /\ First(w) \in Nat
                 /\ First(w) < End(w) <=> First(w) < Length
                 /\ First(w) < Length => Bound(w) = First(w)
                 /\ ~(First(w) < Length) => Bound(w) = Length /\ Bound(w + 1) = Length
                 /\ ~(First(w) < Length) => \A v \in Nat : v >= w => ~(First(v) < Length)
<1>1. PICK n \in Nat \ {0}, W \in Nat \ {0}, C \in Nat \ {0} :
          n = Length /\ W = Workers /\ C = ChunkSize /\ W * C >= n
  BY ChunksCover
<1>2. Bound(0) = 0 /\ Bound(Workers) = Length
  BY <1>1 DEF Bound
<1>3. ASSUME NEW w \in Nat
      PROVE  /\ Bound(w) \in 0..Length /\ Bound(w) <= Bound(w + 1)
             /\ End(w) = Bound(w + 1)
             /\ First(w) \in Nat
             /\ First(w) < End(w) <=> First(w) < Length
             /\ First(w) < Length => Bound(w) = First(w)
             /\ ~(First(w) < Length) => Bound(w) = Length /\ Bound(w + 1) = Length
  <2>1. PICK a \in Nat : a = w * C /\ (w + 1) * C = a + C
    BY <1>1
  <2> QED
    BY <1>1, <2>1 DEF Bound, First, End
<1>4. ASSUME NEW w \in Nat, NEW v \in Nat, v >= w, ~(First(w) < Length)
      PROVE  ~(First(v) < Length)
  <2>1. w * C <= v * C
    BY <1>1, <1>4
  <2> QED
    BY <1>1, <1>4, <2>1 DEF First
<1> QED
  BY <1>2, <1>3, <1>4

\* The prefix sums of a slice.
LEMMA SliceSummary ==
    ASSUME NEW s \in Seq(Int), NEW q \in SumsOf(s),
           NEW a \in 0..Len(s), NEW b \in 0..Len(s), a < b
    PROVE  LET r == Pass(SubSeq(s, a + 1, b)) IN
           /\ r \in Partial /\ r.sum = q[b] - q[a]
           /\ \A k \in (a + 1)..b : r.min <= s[k] /\ s[k] <= r.max
           /\ \E k \in (a + 1)..b : r.min = s[k]
           /\ \E k \in (a + 1)..b : r.max = s[k]
<1>0. PICK n \in Nat, l \in Nat \ {0} :
          n = Len(s) /\ l = b - a /\ a \in Nat /\ b \in Nat /\ a + l = b /\ b <= n
  OBVIOUS
<1>1. PICK u \in Seq(Int) :
          /\ u = SubSeq(s, a + 1, b) /\ Len(u) = l
          /\ \A k \in 1..l : u[k] = s[a + k]
  <2>1. /\ SubSeq(s, a + 1, b) \in Seq(Int)
        /\ Len(SubSeq(s, a + 1, b)) = b - (a + 1) + 1
    BY <1>0, SubSeqProperties
  <2>2. \A k \in 1..(b - (a + 1) + 1) : SubSeq(s, a + 1, b)[k] = s[(a + 1) + k - 1]
    BY <1>0, SubSeqProperties
  <2>3. b - (a + 1) + 1 = l /\ \A k \in 1..l : (a + 1) + k - 1 = a + k
    BY <1>0
  <2> QED
    BY <2>1, <2>2, <2>3
<1>2. u # <<>>
  BY <1>0, <1>1, EmptySeq
<1>3. Summary(Pass(u), u)
  BY <1>2, PassSummary
<1>4. PICK r : r = Pass(u) /\ Summary(r, u)
  BY <1>3
<1> DEFINE p == [k \in 0..l |-> q[a + k] - q[a]]
<1>5. /\ q \in [0..n -> Int]
      /\ \A k \in 1..n : q[k] = q[k - 1] + s[k]
      /\ \A k \in 0..l : a + k \in 0..n
  BY <1>0 DEF SumsOf
<1>5a. a \in 0..n /\ q[a] \in Int /\ \A k \in 0..l : q[a + k] \in Int
  <2>1. \A k \in 0..n : q[k] \in Int
    BY <1>5
  <2>2. a \in 0..n
    BY <1>0
  <2> QED
    BY <1>5, <2>1, <2>2
<1>6. p \in SumsOf(u)
  <2>1. p \in [0..l -> Int]
    <3>1. ASSUME NEW k \in 0..l PROVE q[a + k] - q[a] \in Int
      <4>1. q[a + k] \in Int /\ q[a] \in Int
        BY <1>5a
      <4> QED
        BY <4>1
    <3> QED
      BY <3>1
  <2>2. p[0] = 0
    <3>1. q[a] \in Int /\ a + 0 = a /\ 0 \in 0..l
      BY <1>0, <1>5a
    <3> QED
      BY <3>1
  <2>3. ASSUME NEW k \in 1..l PROVE p[k] = p[k - 1] + u[k]
    <3>1. /\ k \in 0..l /\ k - 1 \in 0..l /\ a + k \in 1..n
          /\ a + (k - 1) = (a + k) - 1 /\ u[k] = s[a + k]
      BY <1>0, <1>1
    <3>2. q[a + k] = q[a + (k - 1)] + u[k]
      BY <1>5, <3>1
    <3>3. q[a + k] \in Int /\ q[a + (k - 1)] \in Int /\ q[a] \in Int /\ u[k] \in Int
      <4>1. k - 1 \in 0..l /\ k \in 0..l
        BY <3>1
      <4>2. q[a + k] \in Int /\ q[a + (k - 1)] \in Int
        BY <1>5a, <4>1
      <4> QED
        BY <1>0, <1>1, <1>5a, <4>2
    <3> QED
      BY <3>1, <3>2, <3>3
  <2> HIDE DEF p
  <2> QED
    BY <1>1, <2>1, <2>2, <2>3 DEF SumsOf
<1>7. r.sum = q[b] - q[a]
  <2>1. r.sum = p[l]
    BY <1>1, <1>4, <1>6 DEF Summary
  <2> QED
    BY <1>0, <2>1
<1> HIDE DEF p
<1>8. \A k \in (a + 1)..b : k - a \in 1..l /\ u[k - a] = s[k]
  <2> SUFFICES ASSUME NEW k \in (a + 1)..b PROVE k - a \in 1..l /\ u[k - a] = s[k]
    OBVIOUS
  <2>1. k - a \in 1..l /\ a + (k - a) = k
    BY <1>0
  <2> QED
    BY <1>1, <2>1
<1>9. \A k \in 1..l : a + k \in (a + 1)..b /\ u[k] = s[a + k]
  BY <1>0, <1>1
<1>10. /\ \A k \in 1..l : r.min <= u[k] /\ u[k] <= r.max
       /\ \E k \in 1..l : r.min = u[k]
       /\ \E k \in 1..l : r.max = u[k]
       /\ r \in Partial
  BY <1>1, <1>4 DEF Summary
<1>11. /\ \A k \in (a + 1)..b : r.min <= s[k] /\ s[k] <= r.max
       /\ \E k \in (a + 1)..b : r.min = s[k]
       /\ \E k \in (a + 1)..b : r.max = s[k]
  BY <1>8, <1>9, <1>10
<1> QED
  BY <1>1, <1>4, <1>7, <1>10, <1>11

-----------------------------------------------------------------------------
(* The invariant.                                                           *)

\* The numbers of worker w's slice.
Slice(w) == (Bound(w) + 1)..Bound(w + 1)

\* r is the partial result of worker w's slice.
OfSlice(r, w) ==
    /\ \A q \in SumsOf(numbers) : r.sum = q[Bound(w + 1)] - q[Bound(w)]
    /\ \A k \in Slice(w) : r.min <= numbers[k] /\ numbers[k] <= r.max
    /\ \E k \in Slice(w) : r.min = numbers[k]
    /\ \E k \in Slice(w) : r.max = numbers[k]

\* The partial result of w is that of its slice.
Computed(w) == OfSlice(partials[w], w)

\* What Calculate promises of r.
Right(r) ==
    /\ r \in [count : Nat, sum : Int, min : Int, max : Int]
    /\ r.count = Length /\ r.sum = Total(numbers)
    /\ Length < Threshold \/ AllBusy => Extremes(r)

AggregateInv ==
    /\ numbers \in BoundedSeq(Values, MaxLen) /\ procs \in 1..MaxProcs
    /\ pc \in {"start", "launch", "wait", "done"}
    /\ worker \in 0..Workers /\ running \subseteq 0..(worker - 1)
    /\ pc = "start" => worker = 0
    /\ pc \notin {"launch", "wait"} => running = {}
    /\ pc # "done" => result = None
    /\ pc \in {"launch", "wait"} =>
          Length > 0 /\ Length >= Threshold /\ DOMAIN partials = 0..(Workers - 1)
    /\ partials \in [DOMAIN partials -> Partial]
    /\ \A w \in 0..(worker - 1) : First(w) < Length
    /\ pc \in {"launch", "wait"} =>
          \A w \in 0..(Workers - 1) :
              IF w < worker /\ w \notin running THEN Computed(w) ELSE partials[w] = Zero
    /\ pc = "wait" => worker = Workers \/ ~(First(worker) < Length)
    /\ result # None => Right(result)

\* The numbers of a request.
LEMMA NumbersType ==
    ASSUME numbers \in BoundedSeq(Values, MaxLen), procs \in 1..MaxProcs
    PROVE  /\ numbers \in Seq(Int) /\ Length \in Nat /\ procs \in Nat \ {0}
           /\ Workers \in Nat /\ Workers <= Length
           /\ Length > 0 => Workers > 0
<1>1. numbers \in Seq(Values) /\ Values \subseteq Int
  BY StatsBounds DEF BoundedSeq, SeqOf
<1>2. numbers \in Seq(Int)
  <2>1. numbers \in [1..Len(numbers) -> Values] /\ Len(numbers) \in Nat
    BY <1>1
  <2>2. numbers \in [1..Len(numbers) -> Int]
    BY <1>1, <2>1
  <2> QED
    BY <2>1, <2>2
<1> QED
  BY <1>2, StatsBounds DEF Length, Workers

\* The pass over all the numbers is right.
LEMMA PassRight ==
    ASSUME numbers \in Seq(Int), Length > 0
    PROVE  Right(Result(Pass(numbers)))
<1>1. numbers # <<>> /\ Len(numbers) = Length /\ Length \in Nat
  BY EmptySeq DEF Length
<1>2. Summary(Pass(numbers), numbers)
  BY <1>1, PassSummary
<1>3. PICK r : r = Pass(numbers) /\ Summary(r, numbers)
  BY <1>2
<1>4. PICK q \in SumsOf(numbers) : Total(numbers) = q[Len(numbers)]
  BY FoldLeftAdds DEF Total
<1>5. r \in Partial /\ r.sum = Total(numbers)
  BY <1>3, <1>4 DEF Summary
<1>6. PICK S \in SUBSET Int : S = ToSet(numbers) /\ S = {numbers[k] : k \in 1..Len(numbers)}
  <2>1. DOMAIN numbers = 1..Len(numbers) /\ \A k \in 1..Len(numbers) : numbers[k] \in Int
    OBVIOUS
  <2>2. ToSet(numbers) = {numbers[k] : k \in 1..Len(numbers)}
    BY <2>1 DEF ToSet
  <2> QED
    BY <2>1, <2>2
<1>7. r.min = Min(S) /\ r.max = Max(S)
  <2>1. /\ \A k \in 1..Len(numbers) : r.min <= numbers[k] /\ numbers[k] <= r.max
        /\ \E k \in 1..Len(numbers) : r.min = numbers[k]
        /\ \E k \in 1..Len(numbers) : r.max = numbers[k]
    BY <1>3 DEF Summary
  <2>2. r.min \in S /\ r.max \in S /\ r.min \in Int /\ r.max \in Int
    BY <1>5, <1>6, <2>1 DEF Partial
  <2>3. \A y \in S : r.min <= y /\ r.max >= y
    <3> SUFFICES ASSUME NEW y \in S PROVE r.min <= y /\ r.max >= y
      OBVIOUS
    <3>1. PICK k \in 1..Len(numbers) : y = numbers[k]
      BY <1>6
    <3>2. y \in Int /\ r.min <= y /\ y <= r.max
      BY <2>1, <3>1
    <3> QED
      BY <2>2, <3>2
  <2>4. PICK a \in S, b \in S : a = r.min /\ b = r.max /\ \A y \in S : a <= y /\ b >= y
    BY <2>2, <2>3
  <2>5. Min(S) = a
    BY <2>4, MinIs
  <2>6. Max(S) = b
    BY <2>4, MaxIs
  <2> QED
    BY <2>4, <2>5, <2>6
<1>8. Right(Result(r))
  BY <1>1, <1>5, <1>6, <1>7 DEF Right, Result, Partial, Extremes
<1> QED
  BY <1>3, <1>8

\* The merge adds up the slices.
LEMMA MergedSum ==
    ASSUME NEW n \in Nat, NEW P \in [0..(n - 1) -> Partial],
           NEW b, \A k \in 0..n : b[k] \in Int, b[0] = 0,
           \A w \in 0..(n - 1) : P[w].sum = b[w + 1] - b[w]
    PROVE  MapThenSumSet(LAMBDA w : P[w].sum, DOMAIN P) = b[n]
<1>1. PICK D : D = 0..(n - 1) /\ IsFiniteSet(D) /\ DOMAIN P = D
  <2>1. IsFiniteSet(0..(n - 1))
    BY FS_Interval
  <2> QED
    BY <2>1
<1>2. PICK h : \A w \in D : h[w] = P[w].sum /\ h[w] \in Int
  <2> DEFINE H == [w \in D |-> P[w].sum]
  <2>1. \A w \in D : H[w] = P[w].sum /\ P[w].sum \in Int
    BY <1>1 DEF Partial
  <2> HIDE DEF H
  <2> QED
    BY <2>1
<1>3. PICK f : Additive(f, D, h)
  BY <1>1, <1>2, SumExists DEF Summable
<1>4. PICK c : c = [t \in SUBSET D |-> CHOOSE x \in t : TRUE]
  OBVIOUS
<1>5. Chooses(c, D)
  BY <1>4 DEF Chooses
<1>6. PICK g : /\ MapThenSumSet(LAMBDA w : P[w].sum, DOMAIN P) = g[D]
               /\ g = CHOOSE e : e = [t \in SUBSET D |->
                          IF t = {} THEN 0
                          ELSE P[CHOOSE x \in t : TRUE].sum + e[t \ {CHOOSE x \in t : TRUE}]]
  BY <1>1 DEF MapThenSumSet, MapThenFoldSet
<1> DEFINE Step(t, e) == IF t = {} THEN 0
                         ELSE P[CHOOSE x \in t : TRUE].sum + e[t \ {CHOOSE x \in t : TRUE}]
<1>7. f = [t \in SUBSET D |-> Step(t, f)]
  <2>1. ASSUME NEW t \in SUBSET D PROVE f[t] = Step(t, f)
    <3>1. t # {} => (CHOOSE x \in t : TRUE) \in t /\ (CHOOSE x \in t : TRUE) \in D
      OBVIOUS
    <3>2. t # {} => h[CHOOSE x \in t : TRUE] = P[CHOOSE x \in t : TRUE].sum
      BY <1>2, <3>1
    <3> QED
      BY <1>3, <3>1, <3>2 DEF Additive
  <2> HIDE DEF Step
  <2> QED
    BY <1>3, <2>1 DEF Additive
<1>8. g = [t \in SUBSET D |-> Step(t, g)]
  <2>1. g = CHOOSE e : e = [t \in SUBSET D |-> Step(t, e)]
    BY <1>6
  <2> HIDE DEF Step
  <2> QED
    BY <1>7, <2>1
<1>9. MapsSubsets(g, D) /\ g[{}] = 0 /\ AddsChosen(g, D, h, c)
  <2>1. g[{}] = 0 /\ \A t \in SUBSET D : g[t] = Step(t, g)
    BY <1>8
  <2>2. ASSUME NEW t \in SUBSET D, t # {}
        PROVE  g[t] = h[c[t]] + g[t \ {c[t]}]
    <3>1. PICK x \in D : x = c[t] /\ x = CHOOSE y \in t : TRUE
      BY <1>4, <2>2
    <3>2. h[x] = P[x].sum
      BY <1>2
    <3>3. g[t] = P[CHOOSE y \in t : TRUE].sum + g[t \ {CHOOSE y \in t : TRUE}]
      BY <2>1, <2>2
    <3> QED
      BY <3>1, <3>2, <3>3
  <2>3. MapsSubsets(g, D)
    <3> HIDE DEF Step
    <3> QED
      BY <1>8 DEF MapsSubsets
  <2> HIDE DEF Step
  <2> QED
    BY <2>1, <2>2, <2>3 DEF AddsChosen
<1>10. g = f
  BY <1>1, <1>3, <1>5, <1>9, SumIsAdditive
<1> DEFINE T == {k \in Nat : k <= n => f[0..(k - 1)] = b[k]}
<1>11. 0 \in T
  <2>1. 0..(0 - 1) = {}
    OBVIOUS
  <2> QED
    BY <1>3, <2>1 DEF Additive
<1>12. ASSUME NEW k \in Nat, k \in T PROVE k + 1 \in T
  <2> SUFFICES ASSUME k + 1 <= n PROVE f[0..((k + 1) - 1)] = b[k + 1]
    OBVIOUS
  <2>1. PICK t \in SUBSET D : t = 0..((k + 1) - 1)
    BY <1>1
  <2>2. k \in t /\ t \ {k} = 0..(k - 1) /\ k \in D /\ k \in 0..(n - 1)
    BY <1>1, <2>1
  <2>3. f[t] = h[k] + f[t \ {k}]
    BY <1>3, <2>2 DEF Additive
  <2>4. f[t \ {k}] = b[k]
    <3>1. k <= n
      OBVIOUS
    <3>2. f[0..(k - 1)] = b[k]
      BY <1>12, <3>1
    <3> QED
      BY <2>2, <3>2
  <2>5. h[k] = b[k + 1] - b[k] /\ b[k] \in Int /\ b[k + 1] \in Int
    BY <1>2, <2>2
  <2> QED
    BY <2>1, <2>3, <2>4, <2>5
<1> HIDE DEF T
<1>13. Nat \subseteq T
  BY <1>11, <1>12, NatSetInduction
<1>14. f[D] = b[n]
  <2>1. n \in T
    BY <1>13
  <2> QED
    BY <1>1, <2>1 DEF T
<1> QED
  BY <1>6, <1>10, <1>14

\* Every number is in a slice.
LEMMA SlicesCover ==
    ASSUME Length \in Nat \ {0}, procs \in Nat \ {0}
    PROVE  \A k \in 1..Length : \E w \in 0..(Workers - 1) : k \in Slice(w)
<1>1. PICK n \in Nat \ {0}, W \in Nat \ {0} : n = Length /\ W = Workers
  BY ChunksCover
<1>2. /\ Bound(0) = 0 /\ Bound(W) = n
      /\ \A w \in Nat : Bound(w) \in 0..n
  BY <1>1, Bounds
<1> DEFINE T == {j \in Nat : \A k \in 1..Bound(j) : \E w \in 0..(j - 1) : k \in Slice(w)}
<1>3. 0 \in T
  BY <1>2
<1>4. ASSUME NEW j \in Nat, j \in T PROVE j + 1 \in T
  <2> SUFFICES ASSUME NEW k \in 1..Bound(j + 1)
               PROVE  \E w \in 0..((j + 1) - 1) : k \in Slice(w)
    OBVIOUS
  <2>1. PICK x \in Nat, y \in Nat : x = Bound(j) /\ y = Bound(j + 1)
    BY <1>2
  <2>2. CASE k <= x
    <3>1. k \in 1..Bound(j)
      BY <2>1, <2>2
    <3>2. PICK w \in 0..(j - 1) : k \in Slice(w)
      BY <1>4, <3>1
    <3> QED
      BY <3>2
  <2>3. CASE ~(k <= x)
    <3>1. k \in Slice(j) /\ j \in 0..((j + 1) - 1)
      BY <2>1, <2>3 DEF Slice
    <3> QED
      BY <3>1
  <2> QED
    BY <2>2, <2>3
<1> HIDE DEF T
<1>5. Nat \subseteq T
  BY <1>3, <1>4, NatSetInduction
<1>6. W \in T
  BY <1>5
<1> QED
  BY <1>1, <1>2, <1>6 DEF T

\* The merge is right when every goroutine has finished.
LEMMA MergeRight ==
    ASSUME AggregateInv, pc = "wait", running = {}
    PROVE  Right(Result(Merged))
<1>1. /\ numbers \in Seq(Int) /\ Length \in Nat \ {0} /\ procs \in Nat \ {0}
      /\ Workers \in Nat \ {0}
  BY NumbersType DEF AggregateInv
<1>2. PICK n \in Nat \ {0} : n = Workers
  BY <1>1
<1>2a. PICK D : D = 0..(n - 1)
  OBVIOUS
<1>3. /\ partials \in [D -> Partial] /\ DOMAIN partials = D
      /\ worker \in 0..n
      /\ \A w \in D : IF w < worker THEN Computed(w) ELSE partials[w] = Zero
      /\ worker = n \/ ~(First(worker) < Length)
  BY <1>2, <1>2a DEF AggregateInv
<1>4. PICK q \in SumsOf(numbers) : Total(numbers) = q[Len(numbers)]
  BY <1>1, FoldLeftAdds DEF Total
<1>5. /\ q \in [0..Length -> Int] /\ q[0] = 0 /\ Total(numbers) = q[Length]
      /\ q[Length] \in Int
  <2>1. q \in [0..Length -> Int] /\ q[0] = 0 /\ Total(numbers) = q[Length]
    BY <1>4 DEF SumsOf, Length
  <2>2. Length \in 0..Length
    BY <1>1
  <2> QED
    BY <2>1, <2>2
<1>6. /\ Bound(0) = 0 /\ Bound(n) = Length
      /\ \A w \in Nat : Bound(w) \in 0..Length
  BY <1>1, <1>2, <1>2a, Bounds
<1>7. ASSUME NEW w \in D PROVE partials[w].sum = q[Bound(w + 1)] - q[Bound(w)]
  <2>0. w \in Nat /\ worker \in Nat
    BY <1>2, <1>2a, <1>3
  <2>1. CASE w < worker
    BY <1>3, <2>1 DEF Computed, OfSlice
  <2>2. CASE ~(w < worker)
    <3>1. ~(First(worker) < Length) /\ w >= worker
      BY <1>2, <1>2a, <1>3, <2>2
    <3>2. ~(First(w) < Length)
      BY <1>1, <2>0, <3>1, Bounds
    <3>3. Bound(w) = Length /\ Bound(w + 1) = Length
      BY <1>1, <2>0, <3>2, Bounds
    <3>4. partials[w].sum = 0
      BY <1>3, <2>2 DEF Zero
    <3>5. PICK x \in Int : x = q[Length]
      BY <1>5
    <3>6. q[Bound(w + 1)] = x /\ q[Bound(w)] = x
      BY <3>3, <3>5
    <3> QED
      BY <3>4, <3>6
  <2> QED
    BY <2>1, <2>2
<1>8. MapThenSumSet(LAMBDA w : partials[w].sum, DOMAIN partials) = q[Length]
  <2>1. PICK b : b = [k \in 0..n |-> q[Bound(k)]]
    OBVIOUS
  <2>2. \A k \in 0..n : b[k] \in Int
    <3>1. \A k \in 0..n : b[k] = q[Bound(k)] /\ Bound(k) \in 0..Length
      BY <1>6, <2>1
    <3> QED
      BY <1>5, <3>1
  <2>3. b[0] = 0 /\ b[n] = q[Length]
    <3>1. 0 \in 0..n /\ n \in 0..n
      OBVIOUS
    <3>2. b[0] = q[Bound(0)] /\ b[n] = q[Bound(n)]
      BY <2>1, <3>1
    <3> QED
      BY <1>5, <1>6, <3>2
  <2>4. \A w \in 0..(n - 1) : partials[w].sum = b[w + 1] - b[w]
    <3> SUFFICES ASSUME NEW w \in 0..(n - 1) PROVE partials[w].sum = b[w + 1] - b[w]
      OBVIOUS
    <3>1. w \in 0..n /\ w + 1 \in 0..n
      OBVIOUS
    <3>2. b[w + 1] = q[Bound(w + 1)] /\ b[w] = q[Bound(w)]
      BY <2>1, <3>1
    <3> QED
      BY <1>2, <1>2a, <1>7, <3>2
  <2>5. partials \in [0..(n - 1) -> Partial]
    BY <1>2, <1>2a, <1>3
  <2> QED
    BY <2>2, <2>3, <2>4, <2>5, MergedSum
<1>9. PICK L \in SUBSET Int : /\ L = {partials[w].min : w \in DOMAIN partials}
                              /\ IsFiniteSet(L) /\ L # {}
  <2>1. PICK h \in [D -> Int] : \A w \in D : h[w] = partials[w].min
    <3>1. \A w \in D : partials[w].min \in Int
      BY <1>3 DEF Partial
    <3>2. [w \in D |-> partials[w].min] \in [D -> Int]
      BY <3>1
    <3> QED
      BY <3>2
  <2>2. IsFiniteSet(D) /\ 0 \in D
    BY <1>2, <1>2a, FS_Interval
  <2>3. PICK M \in SUBSET Int : M = {h[w] : w \in D} /\ IsFiniteSet(M) /\ M # {}
    BY <2>2, FiniteImage
  <2>4. M = {partials[w].min : w \in DOMAIN partials}
    BY <1>3, <2>1, <2>3
  <2> QED
    BY <2>3, <2>4
<1>10. PICK H \in SUBSET Int : /\ H = {partials[w].max : w \in DOMAIN partials}
                              /\ IsFiniteSet(H) /\ H # {}
  <2>1. PICK h \in [D -> Int] : \A w \in D : h[w] = partials[w].max
    <3>1. \A w \in D : partials[w].max \in Int
      BY <1>3 DEF Partial
    <3>2. [w \in D |-> partials[w].max] \in [D -> Int]
      BY <3>1
    <3> QED
      BY <3>2
  <2>2. IsFiniteSet(D) /\ 0 \in D
    BY <1>2, <1>2a, FS_Interval
  <2>3. PICK M \in SUBSET Int : M = {h[w] : w \in D} /\ IsFiniteSet(M) /\ M # {}
    BY <2>2, FiniteImage
  <2>4. M = {partials[w].max : w \in DOMAIN partials}
    BY <1>3, <2>1, <2>3
  <2> QED
    BY <2>3, <2>4
<1>11. PICK lo \in L : lo = Min(L) /\ \A y \in L : lo <= y
  BY <1>9, MinOfFinite
<1>12. PICK hi \in H : hi = Max(H) /\ \A y \in H : y <= hi
  BY <1>10, MaxOfFinite
<1>13. Merged = [sum |-> q[Length], min |-> lo, max |-> hi]
  BY <1>8, <1>9, <1>10, <1>11, <1>12 DEF Merged
<1>14. ASSUME AllBusy PROVE lo = Min(ToSet(numbers)) /\ hi = Max(ToSet(numbers))
  <2>1. \A w \in D : Computed(w)
    <3>1. \A w \in D : First(w) < Length
      BY <1>2, <1>2a, <1>14 DEF AllBusy
    <3>2. worker = n
      <4>1. CASE worker \in D
        BY <1>3, <3>1, <4>1
      <4>2. CASE worker \notin D
        BY <1>2, <1>2a, <1>3, <4>2
      <4> QED
        BY <4>1, <4>2
    <3> QED
      BY <1>2, <1>2a, <1>3, <3>2
  <2>2. \A k \in 1..Length : \E w \in D : k \in Slice(w)
    BY <1>1, <1>2, <1>2a, SlicesCover
  <2>3. PICK S \in SUBSET Int : S = ToSet(numbers) /\ S = {numbers[k] : k \in 1..Length}
    <3>1. DOMAIN numbers = 1..Length /\ \A k \in 1..Length : numbers[k] \in Int
      BY <1>1 DEF Length
    <3>2. ToSet(numbers) = {numbers[k] : k \in 1..Length}
      BY <3>1 DEF ToSet
    <3> QED
      BY <3>1, <3>2
  <2>4. ASSUME NEW y \in S PROVE lo <= y /\ hi >= y
    <3>1. PICK k \in 1..Length : y = numbers[k]
      BY <2>3
    <3>2. PICK w \in D : k \in Slice(w)
      BY <2>2
    <3>3. partials[w].min <= y /\ y <= partials[w].max
      BY <2>1, <3>1, <3>2 DEF Computed, OfSlice
    <3>4. PICK u \in L, v \in H : u = partials[w].min /\ v = partials[w].max
      BY <1>3, <1>9, <1>10
    <3>5. lo <= u /\ v <= hi
      BY <1>11, <1>12
    <3> QED
      BY <3>3, <3>4, <3>5
  <2>5. ASSUME NEW w \in D, NEW k \in Slice(w) PROVE numbers[k] \in S
    <3>1. w \in Nat /\ w + 1 \in Nat
      BY <1>2, <1>2a
    <3>2. Bound(w) \in 0..Length /\ Bound(w + 1) \in 0..Length
      BY <1>6, <3>1
    <3>3. k \in 1..Length
      BY <1>1, <2>5, <3>2 DEF Slice
    <3> QED
      BY <2>3, <3>3
  <2>6. lo \in S /\ hi \in S
    <3>1. PICK v \in D, w \in D : lo = partials[v].min /\ hi = partials[w].max
      BY <1>3, <1>9, <1>10, <1>11, <1>12
    <3>2. PICK k \in Slice(v), j \in Slice(w) : lo = numbers[k] /\ hi = numbers[j]
      BY <2>1, <3>1 DEF Computed, OfSlice
    <3> QED
      BY <2>5, <3>2
  <2>7. lo = Min(S)
    BY <2>4, <2>6, MinIs
  <2>8. hi = Max(S)
    BY <2>4, <2>6, MaxIs
  <2> QED
    BY <2>3, <2>7, <2>8
<1>15. ~(Length < Threshold)
  BY <1>1, StatsBounds DEF AggregateInv
<1> QED
  BY <1>1, <1>5, <1>13, <1>14, <1>15 DEF Right, Result, Extremes

-----------------------------------------------------------------------------
(* The steps.                                                               *)

\* A step that leaves the request alone leaves its slices and what is right.
LEMMA SameRequest ==
    ASSUME numbers' = numbers, procs' = procs
    PROVE  /\ Length' = Length /\ Workers' = Workers
           /\ \A w : First(w)' = First(w)
           /\ \A r, w : OfSlice(r, w) => OfSlice(r, w)'
           /\ \A w : Computed(w) /\ partials'[w] = partials[w] => Computed(w)'
           /\ \A r : Right(r) => Right(r)'
<1>1. Length' = Length
  BY DEF Length
<1>2. Workers' = Workers
  BY <1>1 DEF Workers
<1>3. ChunkSize' = ChunkSize
  BY <1>1, <1>2 DEF ChunkSize
<1>4. \A w : First(w)' = First(w)
  BY <1>3 DEF First
<1>5. \A w : Bound(w)' = Bound(w)
  BY <1>1, <1>3 DEF Bound
<1>6. \A w : Slice(w)' = Slice(w)
  BY <1>5 DEF Slice
<1>7. ASSUME NEW r, NEW w, OfSlice(r, w) PROVE OfSlice(r, w)'
  <2>1. SumsOf(numbers)' = SumsOf(numbers)
    BY DEF SumsOf
  <2> QED
    BY <1>5, <1>6, <1>7, <2>1 DEF OfSlice
<1>7a. ASSUME NEW w, Computed(w), partials'[w] = partials[w] PROVE Computed(w)'
  BY <1>7, <1>7a DEF Computed
<1>8. AllBusy' <=> AllBusy
  BY <1>1, <1>2, <1>4 DEF AllBusy
<1>9. ASSUME NEW r, Right(r) PROVE Right(r)'
  BY <1>1, <1>8, <1>9 DEF Right, Extremes
<1> QED
  BY <1>1, <1>2, <1>4, <1>7, <1>7a, <1>9

\* Every step of Calculate keeps the invariant of the aggregation.
LEMMA AggregateStep == AggregateInv /\ [CalculateNext]_<<vars, selection>> => AggregateInv'
<1> SUFFICES ASSUME AggregateInv, [CalculateNext]_<<vars, selection>> PROVE AggregateInv'
  OBVIOUS
<1>1. /\ numbers \in Seq(Int) /\ Length \in Nat /\ procs \in Nat \ {0}
      /\ Workers \in Nat /\ Workers <= Length /\ (Length > 0 => Workers > 0)
      /\ worker \in 0..Workers /\ running \subseteq 0..(worker - 1)
  BY NumbersType DEF AggregateInv
<1>2. numbers' = numbers /\ procs' = procs
  BY DEF CalculateNext, Aggregate, Next, SelectPercentile, Returned, RejectEmpty, Sequential,
         BeginParallel, Launch, StopLaunching, Work, Merge, vars
<1>3. /\ Length' = Length /\ Workers' = Workers
      /\ \A w : First(w)' = First(w)
      /\ \A r, w : OfSlice(r, w) => OfSlice(r, w)'
      /\ \A w : Computed(w) /\ partials'[w] = partials[w] => Computed(w)'
      /\ \A r : Right(r) => Right(r)'
  BY <1>2, SameRequest
<1>4. CASE RejectEmpty
  BY <1>2, <1>3, <1>4 DEF RejectEmpty, AggregateInv
<1>5. CASE Sequential
  <2>1. Right(Result(Pass(numbers)))
    BY <1>1, <1>5, PassRight DEF Sequential
  <2>2. result' = Result(Pass(numbers))
    BY <1>5 DEF Sequential
  <2>3. result' # None => Right(result)'
    BY <1>2, <1>3, <2>1, <2>2
  <2> QED
    BY <1>2, <1>3, <1>5, <2>3 DEF Sequential, AggregateInv
<1>6. CASE BeginParallel
  <2>1. PICK D : D = 0..(Workers - 1)
    OBVIOUS
  <2>2. partials' = [w \in D |-> Zero] /\ Zero \in Partial
    BY <1>6, <2>1 DEF BeginParallel, Zero, Partial
  <2>3. /\ DOMAIN partials' = D /\ partials' \in [D -> Partial]
        /\ \A w \in D : partials'[w] = Zero
    BY <2>2
  <2>4. worker' = 0 /\ running' = {} /\ pc' = "launch" /\ result' = None
    BY <1>6 DEF BeginParallel, AggregateInv
  <2> QED
    BY <1>1, <1>2, <1>3, <1>6, <2>1, <2>3, <2>4 DEF BeginParallel, AggregateInv
<1>7. CASE Launch
  <2>1. /\ pc = "launch" /\ pc' = "launch" /\ worker < Workers
        /\ running' = running \cup {worker} /\ worker' = worker + 1
        /\ partials' = partials /\ result' = result
    BY <1>7 DEF Launch
  <2>2. First(worker) < Length
    BY <1>1, <1>7, Bounds DEF Launch
  <2>3. \A w \in 0..(Workers - 1) :
            IF w < worker' /\ w \notin running' THEN Computed(w)' ELSE partials'[w] = Zero
    <3> SUFFICES ASSUME NEW w \in 0..(Workers - 1)
                 PROVE  IF w < worker' /\ w \notin running' THEN Computed(w)'
                        ELSE partials'[w] = Zero
      OBVIOUS
    <3>1. IF w < worker /\ w \notin running THEN Computed(w) ELSE partials[w] = Zero
      BY <2>1 DEF AggregateInv
    <3>2. w < worker' /\ w \notin running' <=> w < worker /\ w \notin running
      BY <1>1, <2>1
    <3> QED
      BY <1>3, <2>1, <3>1, <3>2
  <2>4. \A w \in 0..(worker' - 1) : First(w) < Length
    BY <1>1, <2>1, <2>2 DEF AggregateInv
  <2>5. worker' \in 0..Workers /\ running' \subseteq 0..(worker' - 1)
    BY <1>1, <2>1
  <2> QED
    BY <1>1, <1>2, <1>3, <2>1, <2>3, <2>4, <2>5 DEF AggregateInv
<1>8. CASE StopLaunching
  <2>1. /\ pc = "launch" /\ pc' = "wait" /\ worker' = worker /\ running' = running
        /\ partials' = partials /\ result' = result
        /\ worker = Workers \/ First(worker) >= End(worker)
    BY <1>8 DEF StopLaunching
  <2>2. worker = Workers \/ ~(First(worker) < Length)
    <3>1. CASE worker = Workers
      BY <3>1
    <3>2. CASE First(worker) >= End(worker)
      <4>1. Length > 0 /\ worker \in Nat
        BY <1>1, <2>1 DEF AggregateInv
      <4>2. First(worker) < End(worker) <=> First(worker) < Length
        BY <1>1, <4>1, Bounds
      <4>3. First(worker) \in Int /\ End(worker) \in Int
        <5>1. PICK m \in Nat : m = worker /\ m + 1 \in Nat
          BY <4>1
        <5>2. Length \in Nat \ {0}
          BY <1>1, <4>1
        <5>3. End(m) = Bound(m + 1) /\ First(m) \in Nat
          BY <1>1, <5>2, Bounds
        <5>4. Bound(m + 1) \in 0..Length
          BY <1>1, <5>1, <5>2, Bounds
        <5> QED
          BY <5>1, <5>2, <5>3, <5>4
      <4> QED
        BY <3>2, <4>2, <4>3
    <3> QED
      BY <2>1, <3>1, <3>2
  <2> QED
    BY <1>1, <1>2, <1>3, <2>1, <2>2 DEF AggregateInv
<1>9. ASSUME NEW w \in 0..(MaxProcs - 1), Work(w) PROVE AggregateInv'
  <2>1. /\ w \in running /\ running' = running \ {w} /\ worker' = worker /\ pc' = pc
        /\ result' = result
        /\ partials' = [partials EXCEPT ![w] = Pass(SubSeq(numbers, First(w) + 1, End(w)))]
    BY <1>9 DEF Work
  <2>2. /\ pc \in {"launch", "wait"} /\ Length > 0 /\ w \in 0..(worker - 1)
        /\ First(w) < Length /\ w \in 0..(Workers - 1)
    BY <1>1, <2>1 DEF AggregateInv
  <2>3. PICK a \in 0..Len(numbers), b \in 0..Len(numbers) :
            /\ a = First(w) /\ b = End(w) /\ a < b
            /\ a = Bound(w) /\ b = Bound(w + 1)
    <3>1. w \in Nat /\ w + 1 \in Nat /\ Len(numbers) = Length
      BY <2>2 DEF Length
    <3>2. /\ Bound(w) \in 0..Length /\ Bound(w + 1) \in 0..Length /\ End(w) = Bound(w + 1)
          /\ First(w) < End(w) <=> First(w) < Length
          /\ First(w) < Length => Bound(w) = First(w)
      BY <1>1, <2>2, <3>1, Bounds
    <3> QED
      BY <2>2, <3>1, <3>2
  <2>4. PICK r \in Partial :
            /\ r = Pass(SubSeq(numbers, a + 1, b))
            /\ \A q \in SumsOf(numbers) : r.sum = q[b] - q[a]
            /\ \A k \in (a + 1)..b : r.min <= numbers[k] /\ numbers[k] <= r.max
            /\ \E k \in (a + 1)..b : r.min = numbers[k]
            /\ \E k \in (a + 1)..b : r.max = numbers[k]
    <3>1. PICK p \in SumsOf(numbers) : TRUE
      BY <1>1, FoldLeftAdds
    <3>2. \A q \in SumsOf(numbers) : q = p
      BY <1>1, OnePrefix
    <3>3. PICK r : r = Pass(SubSeq(numbers, a + 1, b))
      OBVIOUS
    <3>4. /\ r \in Partial /\ r.sum = p[b] - p[a]
          /\ \A k \in (a + 1)..b : r.min <= numbers[k] /\ numbers[k] <= r.max
          /\ \E k \in (a + 1)..b : r.min = numbers[k]
          /\ \E k \in (a + 1)..b : r.max = numbers[k]
      <4>1. numbers \in Seq(Int)
        BY <1>1
      <4> QED
        BY <2>3, <3>3, <4>1, SliceSummary
    <3> QED
      BY <3>2, <3>3, <3>4
  <2>5. PICK D : DOMAIN partials = D /\ D = 0..(Workers - 1)
    BY <2>2 DEF AggregateInv
  <2>6. /\ partials' \in [D -> Partial] /\ DOMAIN partials' = D /\ partials'[w] = r
        /\ \A v \in D : v # w => partials'[v] = partials[v]
    <3>1. partials \in [D -> Partial] /\ w \in D
      BY <2>2, <2>5 DEF AggregateInv
    <3> QED
      BY <2>1, <2>3, <2>4, <3>1
  <2>7. Computed(w)'
    <3>1. OfSlice(r, w)
      BY <2>3, <2>4 DEF OfSlice, Slice
    <3> QED
      BY <1>3, <2>6, <3>1 DEF Computed
  <2>8. \A v \in 0..(Workers - 1) :
            IF v < worker' /\ v \notin running' THEN Computed(v)' ELSE partials'[v] = Zero
    <3> SUFFICES ASSUME NEW v \in 0..(Workers - 1)
                 PROVE  IF v < worker' /\ v \notin running' THEN Computed(v)'
                        ELSE partials'[v] = Zero
      OBVIOUS
    <3>1. CASE v = w
      BY <1>1, <2>1, <2>2, <2>7, <3>1
    <3>2. CASE v # w
      <4>1. IF v < worker /\ v \notin running THEN Computed(v) ELSE partials[v] = Zero
        BY <2>2 DEF AggregateInv
      <4>2. partials'[v] = partials[v]
        BY <2>5, <2>6, <3>2
      <4>3. v < worker' /\ v \notin running' <=> v < worker /\ v \notin running
        BY <2>1, <3>2
      <4> QED
        BY <1>3, <4>1, <4>2, <4>3
    <3> QED
      BY <3>1, <3>2
  <2> QED
    BY <1>1, <1>2, <1>3, <2>1, <2>2, <2>5, <2>6, <2>8 DEF AggregateInv
<1>10. CASE Merge
  <2>1. /\ pc = "wait" /\ running = {} /\ result' = Result(Merged) /\ pc' = "done"
        /\ worker' = worker /\ running' = running /\ partials' = partials
    BY <1>10 DEF Merge
  <2>2. Right(Result(Merged))
    BY <2>1, MergeRight
  <2>3. result' # None => Right(result)'
    BY <1>2, <1>3, <2>1, <2>2
  <2> QED
    BY <1>1, <1>2, <1>3, <2>1, <2>3 DEF AggregateInv
<1>11. CASE UNCHANGED vars
  BY <1>2, <1>3, <1>11 DEF vars, AggregateInv
<1> QED
  BY <1>4, <1>5, <1>6, <1>7, <1>8, <1>9, <1>10, <1>11
     DEF CalculateNext, Aggregate, Next, SelectPercentile, Returned

\* The invariant holds from the start and in every step.
LEMMA AggregateInvariance == CalculateSpec => []AggregateInv
<1>1. CalculateInit => AggregateInv
  <2> SUFFICES ASSUME CalculateInit PROVE AggregateInv
    OBVIOUS
  <2>1. /\ numbers \in BoundedSeq(Values, MaxLen) /\ procs \in 1..MaxProcs
        /\ pc = "start" /\ worker = 0 /\ running = {}
        /\ partials = <<>> /\ result = None
    BY DEF CalculateInit, Init
  <2>2. Workers \in Nat
    BY <2>1, NumbersType
  <2>3. partials \in [DOMAIN partials -> Partial]
    BY <2>1
  <2> QED
    BY <2>1, <2>2, <2>3 DEF AggregateInv
<1> QED
  BY <1>1, AggregateStep, PTL DEF CalculateSpec

\* Count and sum are those of the input, however it is cut and in whatever
\* order the goroutines finish.
THEOREM SumsTheInput == CalculateSpec => []SumAndCount
<1>1. AggregateInv => SumAndCount
  BY DEF AggregateInv, Right, SumAndCount, HasResult, Total
<1> QED
  BY <1>1, AggregateInvariance, PTL

\* Min and max are right on the sequential path and when every worker has
\* numbers.
THEOREM FindsExtremes == CalculateSpec => []ExtremesWhenBusy
<1>1. AggregateInv => ExtremesWhenBusy
  BY DEF AggregateInv, Right, ExtremesWhenBusy, HasResult
<1> QED
  BY <1>1, AggregateInvariance, PTL

\* Both parts of Calculate keep their types.
THEOREM CalculateTypes == CalculateSpec => []WellTyped
<1>1. AggregateInv => TypeOK
  BY DEF AggregateInv, TypeOK, Right, Partial
<1>2. SelectInv => Select!TypeOK
  <2> SUFFICES ASSUME SelectInv PROVE Select!TypeOK
    OBVIOUS
  <2>1. Length \in Nat /\ Select!Length = Length /\ Select!Index = 0..(Length - 1)
    BY DEF SelectInv, Length, Select!Length, Select!Index
  <2>2. phase # "idle" =>
          /\ values \in [0..(Length - 1) -> Values] /\ target \in 0..(Length - 1)
          /\ left \in 0..Length /\ right \in -1..(Length - 1)
          /\ i \in 0..(Length - 1) /\ store \in 0..(Length - 1)
    <3> SUFFICES ASSUME phase # "idle"
                 PROVE  /\ values \in [0..(Length - 1) -> Values] /\ target \in 0..(Length - 1)
                        /\ left \in 0..Length /\ right \in -1..(Length - 1)
                        /\ i \in 0..(Length - 1) /\ store \in 0..(Length - 1)
      OBVIOUS
    <3>1. target \in Int
      BY TargetIndex DEF SelectInv
    <3> QED
      BY <2>1, <3>1 DEF SelectInv, Rearranged
  <2>3. p95 \in Values \cup {NoValue}
    <3>1. CASE phase = "done"
      <4>1. p95 = values[target]
        BY <3>1 DEF SelectInv
      <4> QED
        BY <2>2, <3>1, <4>1
    <3>2. CASE phase # "done"
      BY <3>2 DEF SelectInv
    <3> QED
      BY <3>1, <3>2
  <2> QED
    BY <2>1, <2>2, <2>3 DEF SelectInv, Select!TypeOK, Partitioned
<1> QED
  BY <1>1, <1>2, AggregateInvariance, SelectInvariance, PTL DEF WellTyped
=============================================================================
