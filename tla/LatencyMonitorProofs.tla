------------------------- MODULE LatencyMonitorProofs -------------------------
(***************************************************************************)
(* What memlat.cpp tells the kernel module is an average of latencies that *)
(* were sampled, for every machine, mix of latencies and interleaving of   *)
(* the kernel's records with memlat's reads; and a sample of a miss counts *)
(* once, on the side of its page.  TypeOK is not inductive: that a sum is  *)
(* at most its count times the highest latency has to be known before the  *)
(* average is.                                                             *)
(***************************************************************************)
EXTENDS LatencyMonitor, FiniteSetTheorems, WellFoundedInduction, TLAPS

TopLocal == Max(Lats(MIN_LOCAL_LAT))
TopRemote == Max(Lats(MIN_REMOTE_LAT))

\* Latencies that raise no average above its limit.
Sampled == {lat \in Nat : lat <= TopLocal /\ lat <= TopRemote}
Samples == [kind : Kinds \cup {"hit"}, lat : Sampled]

\* Every record holds a latency of the workload.
RecordsSampled ==
    /\ ring \in [Rings -> Seq(Samples)]
    /\ ps.rec \in Samples

\* The averages of both sides are at most the highest latency.
SumsBounded ==
    /\ local_lat_sum <= local_lat_count * TopLocal
    /\ remote_lat_sum <= remote_lat_count * TopRemote

\* What is still to be counted of the sample that is read.
Pending(side) == IF Reading /\ ps.rec.kind = side THEN 1 ELSE 0

\* A sample of a miss is read as one of its side, and is the only one missing.
Books ==
    ~disturbed =>
        /\ Reading => ps.rec.kind \in Misses \cup {"hit"}
        /\ Reading /\ ps.rec.kind \in Misses => pfn = ps.rec.kind
        /\ pc = "weight" => ps.rec.kind \in Misses
        /\ local_lat_count + Pending("local") = missed["local"]
        /\ remote_lat_count + Pending("remote") = missed["remote"]

\* What is read is on one side or the other.
Sided == Reading => pfn \in Misses

IInv == TypeOK /\ RecordsSampled /\ SumsBounded /\ Books /\ Sided

-----------------------------------------------------------------------------
(* The highest latency *)

LEMMA SmallestExists ==
    ASSUME NEW S \in SUBSET Nat, S # {}
    PROVE  \E i \in S : \A j \in S : i <= j
<1>1. IsWellFoundedOn(OpToRel(<, Nat), Nat)
  BY NatLessThanWellFounded
<1>2. PICK i \in S : \A j \in S : ~(<<j, i>> \in OpToRel(<, Nat))
  BY <1>1, WFMin
<1>3. \A j \in S : ~(j < i)
  BY <1>2 DEF OpToRel
<1> QED
  BY <1>3

\* A finite list of numbers has an upper bound: else there is a shortest
\* beginning without one, and its last number bounds it.
LEMMA ListBounded ==
    ASSUME NEW n \in Nat, NEW f \in [1..n -> Nat]
    PROVE  \E bound \in Nat : \A i \in 1..n : f[i] <= bound
<1> DEFINE Has(m) == \E bound \in Nat : \A i \in 1..m : f[i] <= bound
           Without == {m \in 0..n : ~Has(m)}
<1>1. Has(0)
  OBVIOUS
<1>2. ASSUME NEW m \in 1..n, Has(m - 1) PROVE Has(m)
  <2>1. PICK bound \in Nat : \A i \in 1..(m - 1) : f[i] <= bound
    BY <1>2
  <2>2. \A i \in 1..m : f[i] <= bound + f[m]
    <3>1. f[m] \in Nat /\ \A i \in 1..m : i # m => i \in 1..(m - 1)
      OBVIOUS
    <3>2. QED
      BY <2>1, <3>1
  <2>3. bound + f[m] \in Nat
    OBVIOUS
  <2>4. QED
    BY <2>2, <2>3
<1>3. Without = {}
  <2>1. SUFFICES ASSUME Without # {} PROVE FALSE
    OBVIOUS
  <2>2. PICK m \in Without : \A j \in Without : m <= j
    <3>1. Without \in SUBSET Nat
      OBVIOUS
    <3>2. QED
      BY <2>1, <3>1, SmallestExists
  <2> HIDE DEF Has
  <2>3. m \in 1..n /\ m - 1 \in 0..n /\ m - 1 \notin Without
    BY <1>1, <2>2
  <2>4. QED
    BY <1>2, <2>2, <2>3
<1>4. Has(n)
  <2> HIDE DEF Has
  <2>1. n \in 0..n /\ n \notin Without
    BY <1>3
  <2>2. QED
    BY <2>1
<1> QED
  BY <1>4

\* The members of a finite set are the numbers of a list.
LEMMA SetBounded ==
    ASSUME NEW S \in SUBSET Nat, IsFiniteSet(S)
    PROVE  \E bound \in Nat : \A x \in S : x <= bound
<1>1. PICK n \in Nat : ExistsSurjection(1..n, S)
  BY FS_NatSurjection
<1>2. PICK f \in [1..n -> S] : \A x \in S : \E i \in 1..n : f[i] = x
  BY <1>1 DEF ExistsSurjection, Surjection
<1>3. f \in [1..n -> Nat]
  BY <1>2
<1>4. PICK bound \in Nat : \A i \in 1..n : f[i] <= bound
  BY <1>3, ListBounded
<1> QED
  BY <1>2, <1>4

LEMMA MaxIsHighest ==
    ASSUME NEW S \in SUBSET Nat, S # {}, NEW bound \in Nat, \A x \in S : x <= bound
    PROVE  Max(S) \in S /\ \A x \in S : x <= Max(S)
<1> DEFINE Below == {bound - x : x \in S}
<1>1. Below \in SUBSET Nat /\ Below # {}
  <2>1. \A x \in S : x \in Nat /\ x <= bound
    OBVIOUS
  <2>2. \A x \in S : bound - x \in Nat
    BY <2>1
  <2>3. QED
    BY <2>2
<1>2. PICK low \in Below : \A y \in Below : low <= y
  BY <1>1, SmallestExists
<1>3. PICK top \in S : low = bound - top
  BY <1>2
<1>4. \A x \in S : top >= x
  <2>1. SUFFICES ASSUME NEW x \in S PROVE top >= x
    OBVIOUS
  <2>2. low <= bound - x
    BY <1>2
  <2>3. QED
    BY <1>3, <2>2
<1>5. QED
  BY <1>4 DEF Max

\* The higher of two numbers.
LEMMA MaxOfTwo ==
    ASSUME NEW a \in Nat, NEW b \in Nat
    PROVE  Max({a, b}) = IF a >= b THEN a ELSE b
<1>1. {a, b} \in SUBSET Nat /\ {a, b} # {} /\ \A x \in {a, b} : x <= a + b
  OBVIOUS
<1>2. Max({a, b}) \in {a, b} /\ \A x \in {a, b} : x <= Max({a, b})
  BY <1>1, MaxIsHighest
<1>3. a <= Max({a, b}) /\ b <= Max({a, b}) /\ (Max({a, b}) = a \/ Max({a, b}) = b)
  BY <1>2
<1> QED
  BY <1>3

\* Mixes has finitely many latencies, so there is a highest one.
LEMMA TopOfLats ==
    ASSUME NEW min \in Nat
    PROVE  /\ Max(Lats(min)) \in Nat
           /\ \A lat \in Lats(min) : lat <= Max(Lats(min))
<1> DEFINE L == {m.local : m \in Mixes}
           R == {m.remote : m \in Mixes}
<1>1. IsFiniteSet(Mixes) /\ Word \in Nat /\ \A m \in Mixes : m.local \in Nat /\ m.remote \in Nat
  BY MonitorAssumption
<1>2. IsFiniteSet(L)
  <2>1. [m \in Mixes |-> m.local] \in Surjection(Mixes, L)
    BY DEF Surjection
  <2>2. QED
    BY <1>1, <2>1, FS_Surjection
<1>3. IsFiniteSet(R)
  <2>1. [m \in Mixes |-> m.remote] \in Surjection(Mixes, R)
    BY DEF Surjection
  <2>2. QED
    BY <1>1, <2>1, FS_Surjection
<1>4. L \in SUBSET Nat /\ R \in SUBSET Nat
  BY <1>1
<1> HIDE DEF L, R
<1>5. PICK l \in Nat : \A x \in L : x <= l
  BY <1>2, <1>4, SetBounded
<1>6. PICK r \in Nat : \A x \in R : x <= r
  BY <1>3, <1>4, SetBounded
<1>7. Lats(min) = {min, Word} \cup L \cup R
  BY DEF Lats, L, R
<1> DEFINE bound == min + Word + l + r
<1>8. bound \in Nat /\ \A x \in Lats(min) : x <= bound
  <2>1. bound \in Nat /\ min <= bound /\ Word <= bound /\ l <= bound /\ r <= bound
    BY <1>1
  <2> HIDE DEF bound
  <2>2. \A x \in L : x <= bound
    BY <1>4, <1>5, <2>1
  <2>3. \A x \in R : x <= bound
    BY <1>4, <1>6, <2>1
  <2>4. QED
    BY <1>7, <2>1, <2>2, <2>3
<1> HIDE DEF bound
<1>9. Lats(min) \in SUBSET Nat /\ min \in Lats(min)
  BY <1>1, <1>4, <1>7
<1> QED
  BY <1>8, <1>9, MaxIsHighest

LEMMA Tops ==
    /\ TopLocal \in Nat /\ TopRemote \in Nat
    /\ MIN_LOCAL_LAT <= TopLocal /\ MIN_REMOTE_LAT <= TopRemote
    /\ Word \in Sampled /\ 0 \in Sampled
    /\ \A m \in Mixes : m.local \in Sampled /\ m.remote \in Sampled
<1>1. MIN_LOCAL_LAT \in Nat /\ MIN_REMOTE_LAT \in Nat /\ Word \in Nat
      /\ \A m \in Mixes : m.local \in Nat /\ m.remote \in Nat
  BY MonitorAssumption
<1>2. TopLocal \in Nat /\ \A lat \in Lats(MIN_LOCAL_LAT) : lat <= TopLocal
  BY <1>1, TopOfLats DEF TopLocal
<1>3. TopRemote \in Nat /\ \A lat \in Lats(MIN_REMOTE_LAT) : lat <= TopRemote
  BY <1>1, TopOfLats DEF TopRemote
<1>4. \A min : min \in Lats(min) /\ Word \in Lats(min)
               /\ \A m \in Mixes : m.local \in Lats(min) /\ m.remote \in Lats(min)
  BY DEF Lats
<1> QED
  BY <1>1, <1>2, <1>3, <1>4 DEF Sampled

-----------------------------------------------------------------------------
(* The averages *)

\* A quotient is at most top when the sum is at most count times top.
LEMMA AverageBounded ==
    ASSUME NEW sum \in Nat, NEW count \in Nat, count > 0, NEW top \in Nat,
           sum <= count * top
    PROVE  sum \div count \in Nat /\ sum \div count <= top
<1> DEFINE q == sum \div count
<1>1. q \in Nat /\ count * q <= sum
  OBVIOUS
<1> HIDE DEF q
<1>2. SUFFICES ASSUME q > top PROVE FALSE
  BY <1>1 DEF q
<1>3. count * q >= count * (top + 1)
  BY <1>1, <1>2
<1>4. count * (top + 1) = count * top + count
  OBVIOUS
<1>5. count * q \in Nat /\ count * top \in Nat /\ count * (top + 1) \in Nat
  BY <1>1
<1> QED
  BY <1>1, <1>3, <1>4, <1>5

LEMMA LatencyBounded ==
    ASSUME NEW sum \in Nat, NEW count \in Nat, NEW min \in Nat, NEW top \in Nat,
           min <= top, sum <= count * top
    PROVE  Latency(sum, count, min) \in min..top
<1> DEFINE average == IF count > 0 THEN sum \div count ELSE 0
<1>1. average \in Nat /\ average <= top
  BY AverageBounded
<1> HIDE DEF average
<1>2. Max({min, average}) \in min..top
  BY <1>1, MaxOfTwo
<1> QED
  BY <1>2 DEF Latency, average

\* A weighted mean lies between its two terms, and so does its floor.
LEMMA MeanBounded ==
    ASSUME NEW w \in Nat \ {0}, NEW low \in Nat, NEW top \in Nat,
           NEW lat \in low..top, NEW old \in low..top
    PROVE  (lat + (w - 1) * old) \div w \in low..top
<1> DEFINE s == lat + (w - 1) * old
           q == s \div w
<1>1. (w - 1) * low <= (w - 1) * old /\ (w - 1) * old <= (w - 1) * top
  OBVIOUS
<1>2. low + (w - 1) * low = w * low /\ top + (w - 1) * top = w * top
  OBVIOUS
<1>3. (w - 1) * low \in Nat /\ (w - 1) * old \in Nat /\ (w - 1) * top \in Nat
      /\ w * low \in Nat /\ w * top \in Nat
  OBVIOUS
<1>4. s \in Nat /\ w * low <= s /\ s <= w * top
  BY <1>1, <1>2, <1>3
<1> HIDE DEF s
<1>5. q \in Nat /\ q <= top
  BY <1>4, AverageBounded
<1>6. s < w * (q + 1) /\ w * (q + 1) \in Nat
  BY <1>4, <1>5
<1> HIDE DEF q
<1>7. q >= low
  <2>1. SUFFICES ASSUME q < low PROVE FALSE
    BY <1>5
  <2>2. w * (q + 1) <= w * low
    BY <1>5, <2>1
  <2>3. QED
    BY <1>3, <1>4, <1>6, <2>2
<1> QED
  BY <1>5, <1>7 DEF q, s

LEMMA SmoothBounded ==
    ASSUME NEW low \in Nat, NEW top \in Nat, NEW lat \in low..top, NEW old \in low..top
    PROVE  Smooth(lat, old) \in low..top
  BY MonitorAssumption, MeanBounded DEF Smooth

-----------------------------------------------------------------------------
(* The steps *)

\* What the proofs of the steps use of the constants.
LEMMA Buffers ==
    /\ Len(Cpus) \in Nat \ {0} /\ \A i \in 1..Len(Cpus) : Cpus[i] \in Rings
    /\ Capacity \in Nat \ {0}
    /\ Kinds \subseteq {"local", "remote", "hit", "nopage", "throttle"}
    /\ MIN_LOCAL_LAT \in Nat /\ MIN_REMOTE_LAT \in Nat
  BY MonitorAssumption DEF Rings

LEMMA RecordSampled ==
    ASSUME mix \in Mixes, NEW kind \in Kinds
    PROVE  Record(kind) \in Samples
<1>1. Record(kind).lat \in {mix.local, mix.remote, Word}
  BY DEF Record
<1>2. Record(kind).lat \in Sampled
  BY <1>1, Tops
<1> QED
  BY <1>2 DEF Record, Samples

LEMMA SamplesAreRecords == Samples \subseteq Records
  BY DEF Samples, Records, Sampled

LEMMA InitIInv == Init => IInv
<1> SUFFICES ASSUME Init PROVE IInv
  OBVIOUS
<1> USE DEF Init
<1>1. Garbage.rec \in Samples /\ Garbage \in [cpu : Rings \cup {None}, rec : Records, left : 0..Capacity]
  <2>1. Garbage.rec \in Samples
    BY Tops DEF Garbage, Samples
  <2>2. QED
    BY <2>1, SamplesAreRecords, Buffers DEF Garbage
<1>2. ring \in [Rings -> Seq(Records)] /\ ring \in [Rings -> Seq(Samples)]
      /\ \A c \in Rings : Len(ring[c]) <= Capacity
  BY Buffers
<1>3. smoothed_local_lat \in MIN_LOCAL_LAT..TopLocal
      /\ smoothed_remote_lat \in MIN_REMOTE_LAT..TopRemote
  BY Tops, Buffers
<1>4. TypeOK
  <2>1. missed \in [Misses -> Nat] /\ k \in 1..Len(Cpus)
    BY Buffers
  <2>2. smoothed_local_lat \in MIN_LOCAL_LAT..Max(Lats(MIN_LOCAL_LAT))
        /\ smoothed_remote_lat \in MIN_REMOTE_LAT..Max(Lats(MIN_REMOTE_LAT))
    BY <1>3 DEF TopLocal, TopRemote
  <2>3. QED
    BY <1>1, <1>2, <2>1, <2>2 DEF TypeOK
<1>5. RecordsSampled
  BY <1>1, <1>2 DEF RecordsSampled
<1>6. SumsBounded
  BY Tops DEF SumsBounded
<1>7. Books /\ Sided
  BY DEF Books, Sided, Reading, Pending, Misses
<1> QED
  BY <1>4, <1>5, <1>6, <1>7 DEF IInv

LEMMA SampleStep ==
    ASSUME IInv, NEW c \in Rings, NEW kind \in Kinds, Sample(c, kind)
    PROVE  IInv'
<1> USE DEF IInv
<1>1. /\ Record(kind) \in Samples /\ Record(kind) \in Records
  BY RecordSampled, SamplesAreRecords DEF TypeOK
<1>2. /\ ring' \in [Rings -> Seq(Records)] /\ ring' \in [Rings -> Seq(Samples)]
      /\ \A d \in Rings : Len(ring'[d]) <= Capacity
  <2>1. ring \in [Rings -> Seq(Records)] /\ ring \in [Rings -> Seq(Samples)]
        /\ \A d \in Rings : Len(ring[d]) <= Capacity
    BY DEF TypeOK, RecordsSampled
  <2>2. Append(ring[c], Record(kind)) \in Seq(Records)
        /\ Append(ring[c], Record(kind)) \in Seq(Samples)
        /\ Len(Append(ring[c], Record(kind))) = Len(ring[c]) + 1
    BY <1>1, <2>1
  <2>3. Len(ring[c]) \in Nat /\ Len(ring[c]) < Capacity
    BY <2>1 DEF Sample
  <2>4. ring' = [ring EXCEPT ![c] = Append(@, Record(kind))]
    BY DEF Sample
  <2>5. QED
    BY <2>1, <2>2, <2>3, <2>4, Buffers
<1>3. /\ ps' \in [cpu : Rings \cup {None}, rec : Records, left : 0..Capacity]
      /\ ps'.rec \in Samples
  <2>1. ps \in [cpu : Rings \cup {None}, rec : Records, left : 0..Capacity] /\ ps.rec \in Samples
    BY DEF TypeOK, RecordsSampled
  <2>2. CASE ps.cpu = c /\ ps.left = 0
    <3>1. ps' = [cpu |-> c, rec |-> Record(kind), left |-> Capacity - 1]
      BY <2>2 DEF Sample
    <3>2. QED
      BY <1>1, <3>1, Buffers
  <2>3. CASE ps.cpu = c /\ ps.left # 0
    <3>1. ps' = [ps EXCEPT !.left = @ - 1]
      BY <2>3 DEF Sample
    <3>2. ps.left - 1 \in 0..Capacity
      BY <2>1, <2>3, Buffers
    <3>3. QED
      BY <2>1, <3>1, <3>2
  <2>4. CASE ps.cpu # c
    BY <2>1, <2>4 DEF Sample
  <2>5. QED
    BY <2>2, <2>3, <2>4
<1>4. TypeOK'
  BY <1>2, <1>3 DEF TypeOK, Sample, sums, smoothed
<1>5. RecordsSampled'
  BY <1>2, <1>3 DEF RecordsSampled
<1>6. SumsBounded'
  BY DEF SumsBounded, Sample, sums
<1>7. Books'
  <2>1. SUFFICES ASSUME ~disturbed' PROVE Books'
    BY DEF Books
  <2>2. ~disturbed /\ (Reading => ps'.rec = ps.rec)
    BY <2>1 DEF Sample, TypeOK
  <2>3. Reading' = Reading /\ pc' = pc /\ pfn' = pfn /\ missed' = missed
        /\ local_lat_count' = local_lat_count /\ remote_lat_count' = remote_lat_count
    BY DEF Sample, Reading, sums
  <2>4. Pending("local")' = Pending("local") /\ Pending("remote")' = Pending("remote")
    BY <2>2, <2>3 DEF Pending
  <2>5. QED
    BY <2>2, <2>3, <2>4 DEF Books, Reading
<1>8. Sided'
  BY DEF Sided, Sample, Reading
<1> QED
  BY <1>4, <1>5, <1>6, <1>7, <1>8

\* The steps that touch no record, no sum and no book.
LEMMA QuietStep ==
    ASSUME IInv,
           mix' \in Mixes, due' \in BOOLEAN, UNCHANGED <<ring, local_gt_remote, ps>>,
           pc' \in {"off", "open", "map", "top", "scan", "level", "weight"},
           k' \in 1..Len(Cpus), pfn' = pfn,
           UNCHANGED <<sums, smoothed, ghosts>>,
           Reading' = Reading, pc' = "weight" => pc = "weight"
    PROVE  IInv'
<1> USE DEF IInv
<1>1. TypeOK'
  BY DEF TypeOK, sums, smoothed, ghosts
<1>2. RecordsSampled' /\ SumsBounded' /\ Sided'
  BY DEF RecordsSampled, SumsBounded, Sided, sums
<1>3. Books'
  <2>1. Pending("local")' = Pending("local") /\ Pending("remote")' = Pending("remote")
    BY DEF Pending
  <2>2. QED
    BY <2>1 DEF Books, sums, ghosts
<1> QED
  BY <1>1, <1>2, <1>3

LEMMA QuietSteps ==
    ASSUME IInv, Shift \/ Elapse \/ Start \/ Open \/ Map \/ Turn \/ Empty \/ UNCHANGED vars
    PROVE  IInv'
<1>1. /\ mix \in Mixes /\ due \in BOOLEAN /\ k \in 1..Len(Cpus)
      /\ pc \in {"off", "open", "map", "top", "scan", "level", "weight"}
  BY DEF IInv, TypeOK
<1>2. k # Len(Cpus) => k + 1 \in 1..Len(Cpus)
  BY <1>1, Buffers
<1>3. 1 \in 1..Len(Cpus)
  BY Buffers
<1>4. CASE Shift
  BY <1>1, <1>4, QuietStep DEF Shift, Reading
<1>5. CASE Elapse
  BY <1>1, <1>5, QuietStep DEF Elapse, Reading
<1>6. CASE Start
  BY <1>1, <1>6, QuietStep DEF Start, Reading, environment
<1>7. CASE Open
  BY <1>1, <1>2, <1>3, <1>7, QuietStep DEF Open, ForEachCpu, Reading, environment
<1>8. CASE Map
  BY <1>1, <1>2, <1>3, <1>8, QuietStep DEF Map, ForEachCpu, Reading, environment
<1>9. CASE Turn
  BY <1>1, <1>9, QuietStep DEF Turn, Reading, environment
<1>10. CASE Empty
  BY <1>1, <1>2, <1>3, <1>10, QuietStep DEF Empty, NextRing, Reading, environment
<1>11. CASE UNCHANGED vars
  BY <1>1, <1>11, QuietStep DEF vars, Reading, environment
<1> QED
  BY <1>4, <1>5, <1>6, <1>7, <1>8, <1>9, <1>10, <1>11

LEMMA GoneStep ==
    ASSUME IInv, Gone
    PROVE  IInv'
<1> USE DEF IInv
<1>1. ps' \in [cpu : Rings \cup {None}, rec : Records, left : 0..Capacity] /\ ps'.rec \in Samples
  <2>1. Garbage.rec \in Samples
    BY Tops DEF Garbage, Samples
  <2>2. Garbage \in [cpu : Rings \cup {None}, rec : Records, left : 0..Capacity]
    BY <2>1, SamplesAreRecords, Buffers DEF Garbage
  <2>3. QED
    BY <2>1, <2>2 DEF Gone
<1>2. ring' \in [Rings -> Seq(Records)] /\ ring' \in [Rings -> Seq(Samples)]
      /\ \A c \in Rings : Len(ring'[c]) <= Capacity
  BY Buffers DEF Gone
<1>3. smoothed_local_lat' \in MIN_LOCAL_LAT..Max(Lats(MIN_LOCAL_LAT))
      /\ smoothed_remote_lat' \in MIN_REMOTE_LAT..Max(Lats(MIN_REMOTE_LAT))
  <2>1. smoothed_local_lat' \in MIN_LOCAL_LAT..TopLocal
        /\ smoothed_remote_lat' \in MIN_REMOTE_LAT..TopRemote
    BY Tops, Buffers DEF Gone
  <2>2. QED
    BY <2>1 DEF TopLocal, TopRemote
<1>4. missed' \in [Misses -> Nat] /\ k' \in 1..Len(Cpus)
  BY Buffers DEF Gone, Zero
<1>5. TypeOK'
  BY <1>1, <1>2, <1>3, <1>4 DEF TypeOK, Gone, Zero
<1>6. RecordsSampled'
  BY <1>1, <1>2 DEF RecordsSampled
<1>7. SumsBounded'
  BY Tops DEF SumsBounded, Gone, Zero
<1>8. Books' /\ Sided'
  BY DEF Books, Sided, Reading, Pending, Misses, Gone, Zero
<1> QED
  BY <1>5, <1>6, <1>7, <1>8

\* The averages that are smoothed are averages of what was sampled.
LEMMA AggregateStep ==
    ASSUME IInv, Aggregate
    PROVE  IInv'
<1> USE DEF IInv
<1>1. smoothed_local_lat' \in MIN_LOCAL_LAT..Max(Lats(MIN_LOCAL_LAT))
  <2>1. Latency(local_lat_sum, local_lat_count, MIN_LOCAL_LAT) \in MIN_LOCAL_LAT..TopLocal
    BY Tops, Buffers, LatencyBounded DEF TypeOK, SumsBounded
  <2>2. smoothed_local_lat \in MIN_LOCAL_LAT..TopLocal
    BY DEF TypeOK, TopLocal
  <2>3. QED
    BY <2>1, <2>2, Tops, Buffers, SmoothBounded DEF Aggregate, TopLocal
<1>2. smoothed_remote_lat' \in MIN_REMOTE_LAT..Max(Lats(MIN_REMOTE_LAT))
  <2>1. Latency(remote_lat_sum, remote_lat_count, MIN_REMOTE_LAT) \in MIN_REMOTE_LAT..TopRemote
    BY Tops, Buffers, LatencyBounded DEF TypeOK, SumsBounded
  <2>2. smoothed_remote_lat \in MIN_REMOTE_LAT..TopRemote
    BY DEF TypeOK, TopRemote
  <2>3. QED
    BY <2>1, <2>2, Tops, Buffers, SmoothBounded DEF Aggregate, TopRemote
<1>3. local_gt_remote' \in BOOLEAN
  BY DEF Aggregate, LocalIsSlower
<1>4. missed' \in [Misses -> Nat]
  BY DEF Aggregate, Zero
<1>5. TypeOK'
  BY <1>1, <1>2, <1>3, <1>4 DEF TypeOK, Aggregate, Zero
<1>6. RecordsSampled'
  BY DEF RecordsSampled, Aggregate
<1>7. SumsBounded'
  BY Tops DEF SumsBounded, Aggregate, Zero
<1>8. Books' /\ Sided'
  BY DEF Books, Sided, Reading, Pending, Misses, Aggregate, Zero
<1> QED
  BY <1>5, <1>6, <1>7, <1>8

LEMMA NextRingTyped ==
    ASSUME k \in 1..Len(Cpus), NextRing
    PROVE  pc' \in {"top", "scan"} /\ k' \in 1..Len(Cpus)
  BY Buffers DEF NextRing

\* The oldest record of a buffer is taken: a sample of a miss is not counted
\* yet, and its page is on the side the record says.
LEMMA TakeStep ==
    ASSUME IInv, Take
    PROVE  IInv'
<1> USE DEF IInv
<1> DEFINE c == Cpus[k]
           rec == Head(ring[c])
<1>1. k \in 1..Len(Cpus) /\ c \in Rings /\ ring[c] # <<>>
  BY Buffers DEF TypeOK, Take
<1>2. /\ ring \in [Rings -> Seq(Records)] /\ ring \in [Rings -> Seq(Samples)]
      /\ \A d \in Rings : Len(ring[d]) <= Capacity
  BY DEF TypeOK, RecordsSampled
<1>3. /\ rec \in Records /\ rec \in Samples
      /\ Tail(ring[c]) \in Seq(Records) /\ Tail(ring[c]) \in Seq(Samples)
      /\ Len(Tail(ring[c])) = Len(ring[c]) - 1 /\ Len(ring[c]) \in 1..Capacity
  <2>1. ring[c] \in Seq(Records) /\ ring[c] \in Seq(Samples) /\ Len(ring[c]) <= Capacity
    BY <1>1, <1>2
  <2>2. QED
    BY <1>1, <2>1, Buffers
<1>4. /\ ring' = [ring EXCEPT ![c] = Tail(@)]
      /\ ps' = IF rec.kind # "throttle"
               THEN [cpu |-> c, rec |-> rec, left |-> Capacity - Len(ring[c])] ELSE ps
      /\ missed' = IF rec.kind \in Misses THEN [missed EXCEPT ![rec.kind] = @ + 1] ELSE missed
      /\ disturbed' = (disturbed \/ rec.kind = "throttle")
      /\ IF pfn' \in Misses THEN pc' = "level" /\ k' = k ELSE NextRing
      /\ pc = "scan"
  BY DEF Take
<1>5. rec.kind \in {"local", "remote", "hit", "nopage", "throttle"}
  BY <1>3, Buffers DEF Samples
<1>6. /\ rec.kind = "throttle" => pfn' = pfn
      /\ rec.kind = "nopage" => pfn' = "zero"
      /\ rec.kind = "hit" => pfn' \in Misses
      /\ rec.kind \in Misses => pfn' = rec.kind
  BY <1>5 DEF Take, Misses
<1>7. pfn' \in {None, "zero"} \cup Misses
  BY <1>5, <1>6 DEF TypeOK, Misses
<1> HIDE DEF rec, c
<1>8. pc' \in {"top", "scan", "level"} /\ k' \in 1..Len(Cpus) /\ (pc' = "level" <=> pfn' \in Misses)
  BY <1>1, <1>4, NextRingTyped
<1>9. ring' \in [Rings -> Seq(Records)] /\ ring' \in [Rings -> Seq(Samples)]
      /\ \A d \in Rings : Len(ring'[d]) <= Capacity
  BY <1>1, <1>2, <1>3, <1>4, Buffers
<1>10. ps' \in [cpu : Rings \cup {None}, rec : Records, left : 0..Capacity] /\ ps'.rec \in Samples
  <2>1. Capacity - Len(ring[c]) \in 0..Capacity
    BY <1>3, Buffers
  <2>2. CASE rec.kind # "throttle"
    BY <1>1, <1>3, <1>4, <2>1, <2>2
  <2>3. CASE rec.kind = "throttle"
    BY <1>4, <2>3 DEF TypeOK, RecordsSampled
  <2>4. QED
    BY <2>2, <2>3
<1>11. missed' \in [Misses -> Nat] /\ disturbed' \in BOOLEAN
  BY <1>4 DEF TypeOK
<1>12. TypeOK'
  BY <1>7, <1>8, <1>9, <1>10, <1>11 DEF TypeOK, Take, sums, smoothed
<1>13. RecordsSampled'
  BY <1>9, <1>10 DEF RecordsSampled
<1>14. SumsBounded'
  BY DEF SumsBounded, Take, sums
<1>15. Sided'
  BY <1>8 DEF Sided, Reading
<1>16. Books'
  <2>1. SUFFICES ASSUME ~disturbed' PROVE Books'
    BY DEF Books
  <2>2. ~disturbed /\ rec.kind # "throttle" /\ ps'.rec = rec
    BY <1>4, <2>1
  <2>3. local_lat_count = missed["local"] /\ remote_lat_count = missed["remote"]
        /\ local_lat_count' = local_lat_count /\ remote_lat_count' = remote_lat_count
    <3>1. Pending("local") = 0 /\ Pending("remote") = 0
      BY <1>4 DEF Pending, Reading
    <3>2. QED
      BY <2>2, <3>1 DEF Books, TypeOK, Misses, Take, sums
  <2>4. missed \in [Misses -> Nat]
    BY DEF TypeOK
  <2>5. CASE rec.kind \in Misses
    <3>1. pc' = "level" /\ pfn' = rec.kind
      BY <1>6, <1>8, <2>5
    <3>2. \A side \in Misses : missed'[side] = missed[side] + (IF side = rec.kind THEN 1 ELSE 0)
      BY <1>4, <2>4, <2>5
    <3>3. Pending("local")' = (IF rec.kind = "local" THEN 1 ELSE 0)
          /\ Pending("remote")' = (IF rec.kind = "remote" THEN 1 ELSE 0)
      BY <2>2, <3>1 DEF Pending, Reading
    <3>4. QED
      BY <2>2, <2>3, <2>5, <3>1, <3>2, <3>3 DEF Books, Reading, Misses
  <2>6. CASE rec.kind \notin Misses
    <3>1. missed' = missed
      BY <1>4, <2>6
    <3>2. Pending("local")' = 0 /\ Pending("remote")' = 0
      BY <2>2, <2>6 DEF Pending, Misses
    <3>3. Reading' => rec.kind = "hit"
      BY <1>5, <1>6, <1>8, <2>2, <2>6 DEF Reading, Misses
    <3>4. QED
      BY <1>8, <2>2, <2>3, <2>6, <3>1, <3>2, <3>3 DEF Books, TypeOK, Misses
  <2>7. QED
    BY <2>5, <2>6
<1> QED
  BY <1>12, <1>13, <1>14, <1>15, <1>16

\* A sample that missed goes on to be counted, one that hit is dropped.
LEMMA LevelStep ==
    ASSUME IInv, Level
    PROVE  IInv'
<1> USE DEF IInv
<1>1. PICK miss \in L3Missed(ps.rec) :
        IF miss THEN pc' = "weight" /\ k' = k ELSE NextRing
  BY DEF Level
<1>2. /\ pc = "level" /\ k \in 1..Len(Cpus)
      /\ UNCHANGED <<mix, ring, due, local_gt_remote, pfn, ps, sums, smoothed, ghosts>>
  BY DEF Level, environment, TypeOK
<1>3. pc' \in {"top", "scan", "weight"} /\ k' \in 1..Len(Cpus)
  BY <1>1, <1>2, NextRingTyped
<1>4. TypeOK'
  BY <1>2, <1>3 DEF TypeOK, sums, smoothed, ghosts
<1>5. RecordsSampled' /\ SumsBounded' /\ Sided'
  BY <1>2, <1>3 DEF RecordsSampled, SumsBounded, Sided, Reading, sums
<1>6. Books'
  <2>1. SUFFICES ASSUME ~disturbed PROVE Books'
    BY <1>2 DEF Books, ghosts
  <2>2. ps.rec.kind \in Misses \cup {"hit"} /\ (ps.rec.kind \in Misses => pfn = ps.rec.kind)
        /\ local_lat_count + Pending("local") = missed["local"]
        /\ remote_lat_count + Pending("remote") = missed["remote"]
    BY <1>2, <2>1 DEF Books, Reading
  <2>3. pc' = "weight" <=> ps.rec.kind \in Misses
    <3>1. miss = (ps.rec.kind # "hit")
      BY <2>2 DEF L3Missed, Misses
    <3>2. miss <=> pc' = "weight"
      BY <1>1, <1>2, <3>1, NextRingTyped
    <3>3. QED
      BY <2>2, <3>1, <3>2 DEF Misses
  <2>4. Pending("local")' = Pending("local") /\ Pending("remote")' = Pending("remote")
    BY <1>2, <1>3, <2>2, <2>3 DEF Pending, Reading, Misses
  <2>5. QED
    BY <1>2, <1>3, <2>2, <2>3, <2>4 DEF Books, Reading, sums, ghosts
<1> QED
  BY <1>4, <1>5, <1>6

\* One latency more on one side, and one more in its count.
LEMMA OneMore ==
    ASSUME NEW sum \in Nat, NEW count \in Nat, NEW top \in Nat, NEW lat \in Nat,
           lat <= top, sum <= count * top
    PROVE  sum + lat <= (count + 1) * top
<1>1. (count + 1) * top = count * top + top /\ count * top \in Nat
  OBVIOUS
<1> QED
  BY <1>1

LEMMA WeightStep ==
    ASSUME IInv, Weight
    PROVE  IInv'
<1> USE DEF IInv
<1>1. /\ pc = "weight" /\ k \in 1..Len(Cpus) /\ NextRing
      /\ UNCHANGED <<mix, ring, due, local_gt_remote, pfn, ps, smoothed, ghosts>>
  BY DEF Weight, environment, TypeOK
<1>2. pc' \in {"top", "scan"} /\ k' \in 1..Len(Cpus)
  BY <1>1, NextRingTyped
<1>3. ps.rec.lat \in Nat /\ ps.rec.lat <= TopLocal /\ ps.rec.lat <= TopRemote
  BY DEF RecordsSampled, Samples, Sampled
<1>4. /\ local_lat_sum \in Nat /\ local_lat_count \in Nat
      /\ remote_lat_sum \in Nat /\ remote_lat_count \in Nat
  BY DEF TypeOK
<1>5. IF pfn = "local"
      THEN /\ local_lat_sum' = local_lat_sum + ps.rec.lat
           /\ local_lat_count' = local_lat_count + 1
           /\ remote_lat_sum' = remote_lat_sum /\ remote_lat_count' = remote_lat_count
      ELSE /\ remote_lat_sum' = remote_lat_sum + ps.rec.lat
           /\ remote_lat_count' = remote_lat_count + 1
           /\ local_lat_sum' = local_lat_sum /\ local_lat_count' = local_lat_count
  BY DEF Weight
<1>6. /\ local_lat_sum' \in Nat /\ local_lat_count' \in Nat
      /\ remote_lat_sum' \in Nat /\ remote_lat_count' \in Nat
  BY <1>3, <1>4, <1>5
<1>7. TypeOK'
  BY <1>1, <1>2, <1>6 DEF TypeOK, smoothed, ghosts
<1>8. SumsBounded'
  <2>1. /\ local_lat_sum + ps.rec.lat <= (local_lat_count + 1) * TopLocal
        /\ remote_lat_sum + ps.rec.lat <= (remote_lat_count + 1) * TopRemote
    BY <1>3, <1>4, OneMore, Tops DEF SumsBounded
  <2>2. QED
    BY <1>5, <2>1 DEF SumsBounded, TopLocal, TopRemote
<1>9. RecordsSampled' /\ Sided'
  BY <1>1, <1>2 DEF RecordsSampled, Sided, Reading
<1>10. Books'
  <2>1. SUFFICES ASSUME ~disturbed PROVE Books'
    BY <1>1 DEF Books, ghosts
  <2>2. ps.rec.kind \in Misses /\ pfn = ps.rec.kind
        /\ local_lat_count + Pending("local") = missed["local"]
        /\ remote_lat_count + Pending("remote") = missed["remote"]
    BY <1>1, <2>1 DEF Books, Reading
  <2>3. Pending("local") = (IF pfn = "local" THEN 1 ELSE 0)
        /\ Pending("remote") = (IF pfn = "local" THEN 0 ELSE 1)
    BY <1>1, <2>2 DEF Pending, Reading, Misses
  <2>4. Pending("local")' = 0 /\ Pending("remote")' = 0 /\ ~Reading'
    BY <1>2 DEF Pending, Reading
  <2>5. local_lat_count' = missed["local"] /\ remote_lat_count' = missed["remote"]
    BY <1>4, <1>5, <2>2, <2>3
  <2>6. QED
    BY <1>1, <1>2, <1>6, <2>4, <2>5 DEF Books, ghosts
<1> QED
  BY <1>7, <1>8, <1>9, <1>10

LEMMA IInvInductive == IInv /\ [Next]_vars => IInv'
<1> SUFFICES ASSUME IInv, [Next]_vars PROVE IInv'
  OBVIOUS
<1>1. CASE \E c \in Rings, kind \in Kinds : Sample(c, kind)
  BY <1>1, SampleStep
<1>2. CASE Shift \/ Elapse \/ Start \/ UNCHANGED vars
  BY <1>2, QuietSteps
<1>3. CASE Gone
  BY <1>3, GoneStep
<1>4. CASE memlat
  BY <1>4, QuietSteps, AggregateStep, TakeStep, LevelStep, WeightStep DEF memlat
<1> QED
  BY <1>1, <1>2, <1>3, <1>4 DEF Next

-----------------------------------------------------------------------------
\* What is smoothed, and so what the kernel module is told, stays between the
\* minimum and the highest latency of the workload, for any CPUs, buffers,
\* latencies and smoothing.
THEOREM TypeCorrect == Spec => []TypeOK
<1>1. IInv => TypeOK
  BY DEF IInv
<1> QED
  BY <1>1, InitIInv, IInvInductive, PTL DEF Spec

\* In an interval without throttle records and without overwritten buffers,
\* each sample of a miss is counted once, on the side of its page, whenever the
\* kernel writes and wherever memlat is.
THEOREM SamplesCountOnce == Spec => []CountedOnce
<1>1. IInv => CountedOnce
  <2>1. SUFFICES ASSUME IInv, ~disturbed, ~Reading
                 PROVE  local_lat_count = missed["local"] /\ remote_lat_count = missed["remote"]
    BY DEF CountedOnce
  <2>2. Pending("local") = 0 /\ Pending("remote") = 0
    BY <2>1 DEF Pending
  <2>3. QED
    BY <2>1, <2>2 DEF IInv, Books, TypeOK
<1> QED
  BY <1>1, InitIInv, IInvInductive, PTL DEF Spec
=============================================================================
