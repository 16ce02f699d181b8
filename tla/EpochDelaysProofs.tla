-------------------------- MODULE EpochDelaysProofs --------------------------
(* Counters and delays, for any number of processes, threads and CPUs. *)
EXTENDS EpochDelays, FiniteSetTheorems, WellFoundedInduction, TLAPS

(***************************************************************************)
(* The argument.  What an epoch injects and what it keeps of the overhead  *)
(* add up to what they are made of, so owed and tls_overhead of a thread   *)
(* together are what its epochs cost.  That the delay is no negative       *)
(* number needs the rest: a thread reads only while its process runs, a    *)
(* process runs only after the targets were compared with the hardware and *)
(* all its events have counters, and the counters are numbers of 40 bits.  *)
(*                                                                         *)
(* The processes share the counters of the host without knowing of each    *)
(* other.  That goes well because an event has the same number in all of   *)
(* them (Numbering), so a process programs for its own event a counter     *)
(* that counts the same event for the others or nothing.  Covered says on  *)
(* which CPUs an event is counted, and CountersCount and SamplesCount what *)
(* the counters and the values read from them count.                       *)
(***************************************************************************)

\* The events before the one a process is at have their counters.
Assigned ==
    \A p \in Processes :
        /\ pc[p] # "running" => next[p] \in 1..Len(Wanted)
        /\ pc[p] = "running" => next[p] = Len(Wanted) + 1
        /\ \A n \in 1..Len(Wanted) :
             n < next[p] \/ (n = next[p] /\ pc[p] = "program")
               => cntr_id[p][Wanted[n]] # None

ReadersRun == \A t \in Threads : rd[t] # "idle" => Running(t)

TargetsChecked ==
    \A p \in Processes : pc[p] # "off" => check_target_latency_against_hw_latency

Books ==
    \A t \in Threads : owed[t] \in Nat /\ owed[t] + tls_overhead[t] = spent[t]

IInv == TypeOK /\ Assigned /\ ReadersRun /\ TargetsChecked /\ Books

(* The counter that is found is one of the host's.                          *)
LEMMA SmallestExists ==
    ASSUME NEW S \in SUBSET Nat, S # {}
    PROVE  \E i \in S : \A j \in S : i <= j
<1>1. IsWellFoundedOn(OpToRel(<, Nat), Nat)
  BY NatLessThanWellFounded
<1>2. PICK i \in S : \A j \in S : ~(<<j, i>> \in OpToRel(<, Nat))
  BY <1>1, WFMin
<1>3. \A j \in S : ~(j < i)
  BY <1>2 DEF OpToRel
<1> QED
  BY <1>3

LEMMA FoundCounter ==
    ASSUME TypeOK, NEW p \in Processes, get_avail_hw_cntr_id(p) # None
    PROVE  get_avail_hw_cntr_id(p) \in Ids
<1> USE CountersAssumption
<1> DEFINE F == Ids \ Used(p)
<1>1. num_avail_hw_cntrs \in Nat
  BY DEF TypeOK
<1>2. Used(p) \subseteq Ids
  BY DEF TypeOK, Used
<1>3. Cardinality(Ids) = num_avail_hw_cntrs
  BY <1>1, FS_Interval DEF Ids
<1>4. Cardinality(Used(p)) # num_avail_hw_cntrs
  BY DEF get_avail_hw_cntr_id
<1>5. F # {}
  BY <1>2, <1>3, <1>4
<1>6. F \in SUBSET Nat
  BY <1>1 DEF Ids
<1>7. \E i \in F : \A j \in F : i <= j
  BY <1>5, <1>6, SmallestExists
<1> QED
  BY <1>4, <1>7 DEF get_avail_hw_cntr_id

-----------------------------------------------------------------------------
(* Delays are natural numbers. *)

LEMMA QuotientNat ==
    ASSUME NEW a \in Nat, NEW b \in Nat, b > 0
    PROVE  a \div b \in Nat
  OBVIOUS

LEMMA ProductNat ==
    ASSUME NEW a \in Nat, NEW b \in Nat
    PROVE  a * b \in Nat
  OBVIOUS

LEMMA StallsNat ==
    ASSUME NEW l2 \in Nat, NEW hit \in Nat, NEW remote \in Nat, NEW local \in Nat,
           NEW m \in {"sandybridge", "ivybridge", "haswell"}
    PROVE  stall_cycles(m, l2, hit, remote, local) \in Nat
<1> DEFINE num == 7 * (remote + local)
<1>1. num \in Nat /\ num + hit \in Nat
  OBVIOUS
<1>2. l2 * num \in Nat
  BY <1>1, ProductNat
<1>3. num + hit > 0 => (l2 * num) \div (num + hit) \in Nat
  BY <1>1, <1>2, QuotientNat
<1> HIDE DEF num
<1>4. sandybridge_stall_cycles(l2, hit, remote + local) \in Nat
  BY <1>1, <1>3 DEF sandybridge_stall_cycles, L3_FACTOR, num
<1>5. ~(remote = 0 /\ local = 0) => num > 0
  BY DEF num
<1>6. ivybridge_stall_cycles(l2, hit, remote, local) \in Nat
  BY <1>1, <1>3, <1>5 DEF ivybridge_stall_cycles, L3_FACTOR, num
<1> QED
  BY <1>4, <1>6 DEF stall_cycles, haswell_stall_cycles

LEMMA DiffNat ==
    ASSUME TypeOK, NEW t \in Threads
    PROVE  diff(t) \in Nat
<1> USE CountersAssumption
<1>1. cur[t].val \in 0..(CounterLimit - 1) /\ last[t].val \in 0..(CounterLimit - 1)
  BY DEF TypeOK, Samples
<1> QED
  BY <1>1, SMTT(20) DEF diff, RDPMC_MAX_VALUE

LEMMA DelayNat ==
    ASSUME TypeOK, NEW t \in Threads, check_target_latency_against_hw_latency,
           NEW stalls \in Nat
    PROVE  delay_cycles(t, stalls) \in Nat
<1> USE CountersAssumption, DelaysAssumption
<1> DEFINE lat == Latency[CpuOf[t]]
<1>1. CpuOf[t] \in Cpus
  OBVIOUS
<1>2. lat \in Nat /\ lat > 0 /\ lat < target /\ target \in Nat
  BY <1>1 DEF TypeOK, check_target_latency_against_hw_latency
<1> HIDE DEF lat
<1>3. target - lat \in Nat
  BY <1>2
<1>4. stalls * (target - lat) \in Nat
  BY <1>3, ProductNat
<1>5. (stalls * (target - lat)) \div lat \in Nat
  BY <1>2, <1>4, QuotientNat
<1> QED
  BY <1>5 DEF delay_cycles, lat

-----------------------------------------------------------------------------
LEMMA InitIInv == EInit => IInv
<1> SUFFICES ASSUME EInit PROVE IInv
  OBVIOUS
<1> USE CountersAssumption, DelaysAssumption DEF EInit, Init
<1>1. Zero \in Samples
  BY DEF Zero, Samples
<1>2. TypeOK
  BY <1>1 DEF TypeOK
<1>3. Assigned
  BY DEF Assigned
<1>4. ReadersRun /\ TargetsChecked /\ Books
  BY DEF ReadersRun, TargetsChecked, Books
<1> QED
  BY <1>2, <1>3, <1>4 DEF IInv

-----------------------------------------------------------------------------
(* The steps *)

LEMMA ReachTypes ==
    ASSUME TypeOK, NEW cs \in SUBSET Cpus, NEW i \in Ids,
           NEW cmd \in {"disable", "clear", "set"}, NEW e \in HwEvents,
           Reach(cs, i, cmd, e)
    PROVE  /\ Ids' = Ids /\ num_avail_hw_cntrs' \in NumCounters
           /\ sel' \in [Cpus -> [Ids -> HwEvents \cup {Off}]]
           /\ ctr' \in [Cpus -> [Ids -> 0..(CounterLimit - 1)]]
           /\ happened' \in [Cpus -> Nat] /\ base' \in [Cpus -> [Ids -> Nat]]
<1> USE CountersAssumption DEF Reach
<1>1. Ids' = Ids /\ num_avail_hw_cntrs' \in NumCounters /\ happened' \in [Cpus -> Nat]
  BY DEF TypeOK, Ids
<1>2. 0 \in 0..(CounterLimit - 1)
  OBVIOUS
<1>3. ctr' \in [Cpus -> [Ids -> 0..(CounterLimit - 1)]]
  BY <1>2 DEF TypeOK
<1>4. base' \in [Cpus -> [Ids -> Nat]]
  BY DEF TypeOK
<1>5. sel' \in [Cpus -> [Ids -> HwEvents \cup {Off}]]
  BY DEF TypeOK
<1> QED
  BY <1>1, <1>3, <1>4, <1>5

LEMMA HappenSafe ==
    ASSUME IInv, NEW c \in Cpus, Happen(c), UNCHANGED delays
    PROVE  IInv'
<1> USE CountersAssumption DEF Happen, library, reading, delays
<1>1. Ids' = Ids
  BY DEF Ids
<1>2. ctr' \in [Cpus -> [Ids -> 0..(CounterLimit - 1)]]
  <2>1. \A v \in 0..(CounterLimit - 1) : (v + 1) % CounterLimit \in 0..(CounterLimit - 1)
    OBVIOUS
  <2> QED
    BY <2>1 DEF IInv, TypeOK
<1>3. base' \in [Cpus -> [Ids -> Nat]] /\ happened' \in [Cpus -> Nat]
  BY DEF IInv, TypeOK
<1>4. TypeOK'
  BY <1>1, <1>2, <1>3 DEF IInv, TypeOK
<1>5. Assigned' /\ ReadersRun' /\ TargetsChecked' /\ Books'
  BY DEF IInv, Assigned, ReadersRun, Running, TargetsChecked,
         check_target_latency_against_hw_latency, Books
<1> QED
  BY <1>4, <1>5 DEF IInv

LEMMA StartSafe ==
    ASSUME IInv, NEW p \in Processes, InitLatencyModel(p)
    PROVE  IInv'
<1> USE CountersAssumption DEF InitLatencyModel, Start, hardware, reading
<1>1. TypeOK'
  <2>1. tls_overhead' \in [Threads -> Nat] /\ owed' \in [Threads -> Int]
        /\ spent' \in [Threads -> Nat]
    BY DEF IInv, TypeOK
  <2>2. Ids' = Ids
    BY DEF Ids
  <2>3. pc' \in [Processes -> {"off", "assign", "program", "running"}] /\ starts' \in Nat
    BY DEF IInv, TypeOK
  <2> QED
    BY <2>1, <2>2, <2>3 DEF IInv, TypeOK
<1>2. Assigned'
  BY DEF IInv, Assigned, TypeOK
<1>3. ReadersRun'
  BY DEF IInv, ReadersRun, Running, TypeOK
<1>4. TargetsChecked'
  BY DEF IInv, TargetsChecked, check_target_latency_against_hw_latency
<1>5. Books'
  BY DEF IInv, Books, TypeOK
<1> QED
  BY <1>1, <1>2, <1>3, <1>4, <1>5 DEF IInv

(* What a process advances to. *)
LEMMA AdvanceSafe ==
    ASSUME IInv, NEW p \in Processes, Advance(p), pc[p] \in {"assign", "program"},
           cntr_id[p][Wanted[next[p]]] # None, UNCHANGED cntr_id
    PROVE  /\ pc' \in [Processes -> {"off", "assign", "program", "running"}]
           /\ next' \in [Processes -> Nat]
           /\ Assigned'
           /\ \A q \in Processes : pc[q] = "running" => pc'[q] = "running"
           /\ \A q \in Processes : pc'[q] # "off" => pc[q] # "off"
<1> USE CountersAssumption DEF Advance
<1>1. Len(Wanted) \in Nat
  OBVIOUS
<1>2. next[p] \in 1..Len(Wanted)
  BY DEF IInv, Assigned
<1>3. pc' \in [Processes -> {"off", "assign", "program", "running"}]
      /\ next' \in [Processes -> Nat]
  BY DEF IInv, TypeOK
<1>4. ASSUME NEW q \in Processes
      PROVE  /\ pc'[q] # "running" => next'[q] \in 1..Len(Wanted)
             /\ pc'[q] = "running" => next'[q] = Len(Wanted) + 1
             /\ \A n \in 1..Len(Wanted) :
                  n < next'[q] \/ (n = next'[q] /\ pc'[q] = "program")
                    => cntr_id[q][Wanted[n]] # None
  <2>1. CASE q = p
    <3>1. /\ next'[p] = next[p] + 1
          /\ pc'[p] = IF next[p] = Len(Wanted) THEN "running" ELSE "assign"
      BY DEF IInv, TypeOK
    <3>2. next[p] # Len(Wanted) => next[p] + 1 \in 1..Len(Wanted)
      BY <1>1, <1>2
    <3>3. \A n \in 1..Len(Wanted) : n < next[p] + 1 => cntr_id[p][Wanted[n]] # None
      BY <1>1, <1>2 DEF IInv, Assigned
    <3> QED
      BY <2>1, <3>1, <3>2, <3>3
  <2>2. CASE q # p
    BY <2>2 DEF IInv, TypeOK, Assigned
  <2> QED
    BY <2>1, <2>2
<1>5. Assigned'
  BY <1>4 DEF Assigned
<1> QED
  BY <1>3, <1>5 DEF IInv, TypeOK

LEMMA ReuseSafe ==
    ASSUME IInv, NEW p \in Processes, Reuse(p), UNCHANGED delays
    PROVE  IInv'
<1> USE DEF Reuse, hardware, reading, delays
<1>1. /\ pc' \in [Processes -> {"off", "assign", "program", "running"}]
      /\ next' \in [Processes -> Nat] /\ Assigned'
      /\ \A q \in Processes : pc[q] = "running" => pc'[q] = "running"
      /\ \A q \in Processes : pc'[q] # "off" => pc[q] # "off"
  BY AdvanceSafe
<1>2. TypeOK'
  BY <1>1 DEF IInv, TypeOK, Ids
<1>3. ReadersRun'
  BY <1>1, CountersAssumption DEF IInv, ReadersRun, Running
<1>4. TargetsChecked' /\ Books'
  BY <1>1 DEF IInv, TargetsChecked, check_target_latency_against_hw_latency, Books
<1> QED
  BY <1>1, <1>2, <1>3, <1>4 DEF IInv

LEMMA AssignSafe ==
    ASSUME IInv, NEW p \in Processes, Assign(p), UNCHANGED delays
    PROVE  IInv'
<1> USE CountersAssumption DEF Assign, hardware, delays
<1>1. get_avail_hw_cntr_id(p) \in Ids
  BY FoundCounter DEF IInv
<1>2. Ids' = Ids /\ Ids \subseteq Nat
  BY DEF Ids, IInv, TypeOK
<1>3. next[p] \in 1..Len(Wanted) /\ Wanted[next[p]] \in HwEvents
  BY DEF IInv, Assigned
<1>4. cntr_id' \in [Processes -> [HwEvents -> Ids \cup {None}]]
  BY <1>1 DEF IInv, TypeOK
<1>5. Zero \in Samples
  BY DEF Zero, Samples
<1>6. last_val' \in [Processes -> [Cpus -> Samples]]
  BY <1>5 DEF IInv, TypeOK
<1>7. TypeOK'
  BY <1>2, <1>4, <1>6 DEF IInv, TypeOK
<1>8. Assigned'
  <2>1. \A q \in Processes, e \in HwEvents :
          cntr_id[q][e] # None => cntr_id'[q][e] # None
    BY <1>1, <1>2 DEF IInv, TypeOK
  <2>2. cntr_id'[p][Wanted[next[p]]] # None
    BY <1>1, <1>2, <1>3 DEF IInv, TypeOK
  <2>3. \A n \in 1..Len(Wanted) : Wanted[n] \in HwEvents
    OBVIOUS
  <2>4. \A q \in Processes : pc'[q] = (IF q = p THEN "program" ELSE pc[q])
    BY DEF IInv, TypeOK
  <2> QED
    BY <2>1, <2>2, <2>3, <2>4 DEF IInv, Assigned
<1>9. ReadersRun' /\ TargetsChecked' /\ Books'
  BY DEF IInv, TypeOK, ReadersRun, Running, TargetsChecked,
         check_target_latency_against_hw_latency, Books
<1> QED
  BY <1>7, <1>8, <1>9 DEF IInv

(* The memory of a process is gone. *)
LEMMA GoneSafe ==
    ASSUME IInv, NEW p \in Processes, Gone(p), UNCHANGED <<hardware, starts, command, half, delays>>
    PROVE  IInv'
<1> USE CountersAssumption DEF Gone, hardware, delays
<1>1. Ids' = Ids
  BY DEF Ids
<1>2. Zero \in Samples
  BY DEF Zero, Samples
<1>3. /\ pc' \in [Processes -> {"off", "assign", "program", "running"}]
      /\ next' \in [Processes -> Nat]
      /\ cntr_id' \in [Processes -> [HwEvents -> Ids \cup {None}]]
  BY DEF IInv, TypeOK
<1>4. last_val' \in [Processes -> [Cpus -> Samples]]
  BY <1>2 DEF IInv, TypeOK
<1>5. /\ rd' \in [Threads -> {"idle", "cur", "last"}]
      /\ cur' \in [Threads -> Samples] /\ last' \in [Threads -> Samples]
  BY <1>2 DEF IInv, TypeOK
<1>6. TypeOK'
  BY <1>1, <1>3, <1>4, <1>5 DEF IInv, TypeOK
<1>7. Assigned'
  <2>1. Len(Wanted) \in Nat /\ Len(Wanted) > 0
    OBVIOUS
  <2>2. pc'[p] = "off" /\ next'[p] = 1
    BY DEF IInv, TypeOK
  <2>3. \A q \in Processes : q # p =>
          pc'[q] = pc[q] /\ next'[q] = next[q] /\ cntr_id'[q] = cntr_id[q]
    BY DEF IInv, TypeOK
  <2>4. Assigned
    BY DEF IInv
  <2> HIDE DEF Gone, hardware, delays
  <2> QED
    BY <2>1, <2>2, <2>3, <2>4 DEF Assigned
<1>8. ReadersRun'
  BY DEF IInv, TypeOK, ReadersRun, Running
<1>9. TargetsChecked'
  <2>1. \A q \in Processes : pc'[q] # "off" => pc[q] # "off"
    BY DEF IInv, TypeOK
  <2>2. check_target_latency_against_hw_latency' = check_target_latency_against_hw_latency
    BY DEF check_target_latency_against_hw_latency
  <2> QED
    BY <2>1, <2>2 DEF IInv, TargetsChecked
<1>10. Books'
  BY DEF IInv, Books
<1> QED
  BY <1>6, <1>7, <1>8, <1>9, <1>10 DEF IInv

(* A process that programs a counter has one. *)
LEMMA ProgramsCounter ==
    ASSUME IInv, NEW p \in Processes, pc[p] = "program"
    PROVE  /\ Wanted[next[p]] \in HwEvents
           /\ cntr_id[p][Wanted[next[p]]] \in Ids /\ cntr_id[p][Wanted[next[p]]] # None
<1>1. next[p] \in 1..Len(Wanted)
  BY DEF IInv, Assigned
<1>2. Wanted[next[p]] \in HwEvents
  BY <1>1, CountersAssumption
<1>3. cntr_id[p][Wanted[next[p]]] # None
  BY <1>1 DEF IInv, Assigned
<1> QED
  BY <1>2, <1>3 DEF IInv, TypeOK

LEMMA HereSafe ==
    ASSUME IInv, NEW p \in Processes, Here(p), UNCHANGED delays
    PROVE  IInv'
<1> USE DEF Here, reading, delays
<1>1. PICK c \in Cpus : Reach({c}, cntr_id[p][Wanted[next[p]]], command[p], Wanted[next[p]])
  OBVIOUS
<1>2. command[p] \in {"disable", "clear", "set"}
  BY DEF IInv, TypeOK
<1>3. /\ Ids' = Ids /\ num_avail_hw_cntrs' \in NumCounters
      /\ sel' \in [Cpus -> [Ids -> HwEvents \cup {Off}]]
      /\ ctr' \in [Cpus -> [Ids -> 0..(CounterLimit - 1)]]
      /\ happened' \in [Cpus -> Nat] /\ base' \in [Cpus -> [Ids -> Nat]]
  BY <1>1, <1>2, ProgramsCounter, ReachTypes DEF IInv
<1>4. TypeOK'
  BY <1>3 DEF IInv, TypeOK
<1>5. Assigned' /\ ReadersRun' /\ TargetsChecked' /\ Books'
  BY DEF IInv, Assigned, ReadersRun, Running, TargetsChecked,
         check_target_latency_against_hw_latency, Books
<1> QED
  BY <1>4, <1>5 DEF IInv

LEMMA OthersSafe ==
    ASSUME IInv, NEW p \in Processes, Others(p), UNCHANGED delays
    PROVE  IInv'
<1> USE DEF Others, reading, delays
<1>1. PICK c \in Cpus :
        Reach(Cpus \ {c}, cntr_id[p][Wanted[next[p]]], command[p], Wanted[next[p]])
  OBVIOUS
<1>2. command[p] \in {"disable", "clear", "set"}
  BY DEF IInv, TypeOK
<1>3. /\ Ids' = Ids /\ num_avail_hw_cntrs' \in NumCounters
      /\ sel' \in [Cpus -> [Ids -> HwEvents \cup {Off}]]
      /\ ctr' \in [Cpus -> [Ids -> 0..(CounterLimit - 1)]]
      /\ happened' \in [Cpus -> Nat] /\ base' \in [Cpus -> [Ids -> Nat]]
  BY <1>1, <1>2, ProgramsCounter, ReachTypes DEF IInv
<1>4. command' \in [Processes -> {"disable", "clear", "set"}]
      /\ half' \in [Processes -> {"here", "others"}]
  BY <1>2 DEF IInv, TypeOK, After
<1>5. /\ pc' \in [Processes -> {"off", "assign", "program", "running"}]
      /\ next' \in [Processes -> Nat] /\ Assigned'
      /\ \A q \in Processes : pc[q] = "running" => pc'[q] = "running"
      /\ \A q \in Processes : pc'[q] # "off" => pc[q] # "off"
  <2>1. CASE command[p] = "set"
    BY <2>1, ProgramsCounter, AdvanceSafe
  <2>2. CASE command[p] # "set"
    BY <2>2 DEF IInv, TypeOK, Assigned
  <2> QED
    BY <2>1, <2>2
<1>6. TypeOK'
  BY <1>3, <1>4, <1>5 DEF IInv, TypeOK
<1>7. ReadersRun'
  BY <1>5, CountersAssumption DEF IInv, ReadersRun, Running
<1>8. TargetsChecked' /\ Books'
  BY <1>5 DEF IInv, TargetsChecked, check_target_latency_against_hw_latency, Books
<1> QED
  BY <1>5, <1>6, <1>7, <1>8 DEF IInv

(* A process that runs has a counter for its stalls. *)
LEMMA ReadsCounter ==
    ASSUME IInv, NEW p \in Processes, pc[p] = "running"
    PROVE  cntr_id[p][Stalls] \in Ids
<1>1. PICK n \in 1..Len(Wanted) : Wanted[n] = Stalls
  BY CountersAssumption
<1>2. Len(Wanted) \in Nat /\ next[p] = Len(Wanted) + 1
  BY CountersAssumption DEF IInv, Assigned
<1>3. n < next[p]
  BY <1>2
<1>4. cntr_id[p][Stalls] # None
  BY <1>1, <1>3 DEF IInv, Assigned
<1> QED
  BY <1>4, CountersAssumption DEF IInv, TypeOK

LEMMA ReadSafe ==
    ASSUME IInv, NEW t \in Threads, Read(t)
    PROVE  IInv'
<1> USE CountersAssumption DEF Read, hardware, library, delays
<1>1. Ids' = Ids
  BY DEF Read, ReadCounter, LoadLast, Ids
<1>2. ProcessOf[t] \in Processes /\ CpuOf[t] \in Cpus
  OBVIOUS
<1>3. CASE ReadCounter(t)
  <2>1. cntr_id[ProcessOf[t]][Stalls] \in Ids
    BY <1>2, <1>3, ReadsCounter DEF ReadCounter, Running
  <2>2. cur' \in [Threads -> Samples] /\ rd' \in [Threads -> {"idle", "cur", "last"}]
    <3>1. /\ ctr[CpuOf[t]][cntr_id[ProcessOf[t]][Stalls]] \in 0..(CounterLimit - 1)
          /\ happened[CpuOf[t]] \in Nat
          /\ base[CpuOf[t]][cntr_id[ProcessOf[t]][Stalls]] \in Nat
      BY <1>2, <2>1 DEF IInv, TypeOK
    <3>2. PICK v \in Samples : cur' = [cur EXCEPT ![t] = v]
      BY <1>3, <3>1 DEF ReadCounter, Samples
    <3> QED
      BY <1>3, <3>2, SMTT(30) DEF ReadCounter, IInv, TypeOK
  <2>3. TypeOK'
    BY <1>1, <1>3, <2>2 DEF ReadCounter, IInv, TypeOK
  <2>4. ReadersRun'
    BY <1>3 DEF ReadCounter, IInv, TypeOK, ReadersRun, Running
  <2>5. Assigned' /\ TargetsChecked' /\ Books'
    BY <1>3 DEF ReadCounter, IInv, Assigned, TargetsChecked,
                check_target_latency_against_hw_latency, Books
  <2> QED
    BY <2>3, <2>4, <2>5 DEF IInv
<1>4. CASE LoadLast(t)
  <2>1. last' \in [Threads -> Samples] /\ rd' \in [Threads -> {"idle", "cur", "last"}]
    BY <1>2, <1>4 DEF LoadLast, IInv, TypeOK
  <2>2. TypeOK'
    BY <1>1, <1>4, <2>1 DEF LoadLast, IInv, TypeOK
  <2>3. ReadersRun'
    BY <1>4 DEF LoadLast, IInv, TypeOK, ReadersRun, Running
  <2>4. Assigned' /\ TargetsChecked' /\ Books'
    BY <1>4 DEF LoadLast, IInv, Assigned, TargetsChecked,
                check_target_latency_against_hw_latency, Books
  <2> QED
    BY <2>2, <2>3, <2>4 DEF IInv
<1> QED
  BY <1>3, <1>4 DEF Read

(* What is injected and what is kept of the overhead add up. *)
LEMMA SplitOverhead ==
    ASSUME NEW delay \in Nat, NEW overhead \in Nat
    PROVE  /\ Injected(delay, overhead) \in Nat /\ Remaining(delay, overhead) \in Nat
           /\ Injected(delay, overhead) <= delay
           /\ delay - Injected(delay, overhead) + Remaining(delay, overhead) = overhead
  BY DEF Injected, Remaining

LEMMA AmortiseSafe ==
    ASSUME TypeOK, Books, NEW t \in Threads, NEW delay \in Nat, NEW cost \in Nat,
           Amortise(t, delay, cost)
    PROVE  /\ tls_overhead' \in [Threads -> Nat] /\ owed' \in [Threads -> Int]
           /\ spent' \in [Threads -> Nat]
           /\ Books'
<1> DEFINE overhead == tls_overhead[t] + cost
           injected == Injected(delay, overhead)
           remaining == Remaining(delay, overhead)
<1>1. tls_overhead[t] \in Nat /\ spent[t] \in Nat /\ owed[t] \in Nat
      /\ owed[t] + tls_overhead[t] = spent[t]
  BY DEF TypeOK, Books
<1>2. overhead \in Nat
  BY <1>1
<1>3. injected \in Nat /\ remaining \in Nat /\ injected <= delay
      /\ delay - injected + remaining = overhead
  BY <1>2, SplitOverhead
<1>4. /\ owed' = [owed EXCEPT ![t] = @ + delay - injected]
      /\ tls_overhead' = [tls_overhead EXCEPT ![t] = remaining]
      /\ spent' = [spent EXCEPT ![t] = @ + cost]
  BY DEF Amortise
<1> HIDE DEF injected, remaining
<1>5. /\ owed[t] + delay - injected \in Nat
      /\ owed[t] + delay - injected + remaining = spent[t] + cost
  BY <1>1, <1>3
<1>6. tls_overhead' \in [Threads -> Nat] /\ owed' \in [Threads -> Int]
      /\ spent' \in [Threads -> Nat]
  BY <1>1, <1>3, <1>4, <1>5 DEF TypeOK
<1>7. Books'
  BY <1>3, <1>4, <1>5 DEF TypeOK, Books
<1> QED
  BY <1>6, <1>7

LEMMA CloseSafe ==
    ASSUME IInv, NEW t \in Threads, CloseEpoch(t)
    PROVE  IInv'
<1> USE CountersAssumption DEF CloseEpoch, StoreLast, Returned, hardware, library
<1>1. PICK hit \in Hits, remote \in Misses, local \in Misses, cost \in Costs :
        Amortise(t, delay_cycles(t, stall_cycles(microarch, diff(t), hit, remote, local)), cost)
  OBVIOUS
<1>2. hit \in Nat /\ remote \in Nat /\ local \in Nat /\ cost \in Nat
  BY DelaysAssumption
<1>3. ProcessOf[t] \in Processes /\ CpuOf[t] \in Cpus
  OBVIOUS
<1>4. check_target_latency_against_hw_latency
  BY <1>3 DEF IInv, ReadersRun, Running, TargetsChecked
<1>5. stall_cycles(microarch, diff(t), hit, remote, local) \in Nat
  BY <1>2, DiffNat, StallsNat DEF IInv, TypeOK
<1>6. delay_cycles(t, stall_cycles(microarch, diff(t), hit, remote, local)) \in Nat
  BY <1>4, <1>5, DelayNat DEF IInv
<1>7. /\ tls_overhead' \in [Threads -> Nat] /\ owed' \in [Threads -> Int]
      /\ spent' \in [Threads -> Nat]
      /\ Books'
  BY <1>1, <1>2, <1>6, AmortiseSafe DEF IInv
<1>8. Zero \in Samples
  BY DEF Zero, Samples
<1>9. /\ last_val' \in [Processes -> [Cpus -> Samples]]
      /\ rd' \in [Threads -> {"idle", "cur", "last"}]
      /\ cur' \in [Threads -> Samples] /\ last' \in [Threads -> Samples]
  BY <1>3, <1>8 DEF IInv, TypeOK
<1>10. Ids' = Ids /\ epochs' \in Nat
  BY DEF Ids, IInv, TypeOK
<1>11. TypeOK'
  BY <1>7, <1>9, <1>10 DEF IInv, TypeOK
<1>12. Assigned' /\ TargetsChecked'
  BY DEF IInv, Assigned, TargetsChecked, check_target_latency_against_hw_latency
<1>13. ReadersRun'
  BY DEF IInv, TypeOK, ReadersRun, Running
<1> QED
  BY <1>7, <1>11, <1>12, <1>13 DEF IInv

LEMMA NextIInv == IInv /\ [ENext]_allvars => IInv'
<1> SUFFICES ASSUME IInv, [ENext]_allvars PROVE IInv'
  OBVIOUS
<1>1. CASE Hardware /\ UNCHANGED delays
  <2>1. PICK c \in {CpuOf[t] : t \in Threads} : Happen(c)
    BY <1>1 DEF Hardware
  <2> QED
    BY <1>1, <2>1, HappenSafe, CountersAssumption
<1>2. ASSUME NEW p \in Processes, InitLatencyModel(p) PROVE IInv'
  BY <1>2, StartSafe
<1>3. ASSUME NEW p \in Processes, Driver(p), UNCHANGED delays PROVE IInv'
  <2>1. CASE Reuse(p)
    BY <1>3, <2>1, ReuseSafe
  <2>2. CASE Assign(p)
    BY <1>3, <2>2, AssignSafe
  <2>3. CASE Exhausted(p) \/ End(p)
    BY <1>3, <2>3, GoneSafe DEF Exhausted, End
  <2>4. CASE Here(p)
    BY <1>3, <2>4, HereSafe
  <2>5. CASE Others(p)
    BY <1>3, <2>5, OthersSafe
  <2> QED
    BY <1>3, <2>1, <2>2, <2>3, <2>4, <2>5 DEF Driver
<1>4. ASSUME NEW t \in Threads, Read(t) PROVE IInv'
  BY <1>4, ReadSafe
<1>5. ASSUME NEW t \in Threads, CloseEpoch(t) PROVE IInv'
  BY <1>5, CloseSafe
<1>6. CASE UNCHANGED allvars
  BY <1>6 DEF allvars, vars, hardware, library, reading, delays, IInv, TypeOK, Ids, Assigned,
              ReadersRun, Running, TargetsChecked, check_target_latency_against_hw_latency, Books
<1> QED
  BY <1>1, <1>2, <1>3, <1>4, <1>5, <1>6 DEF ENext

-----------------------------------------------------------------------------
LEMMA InvariantHolds == ESpec => []IInv
<1>1. EInit => IInv
  BY InitIInv
<1>2. IInv /\ [ENext]_allvars => IInv'
  BY NextIInv
<1> QED
  BY <1>1, <1>2, PTL DEF ESpec

(* The counter a process is given exists, whatever the order of the events   *)
(* and however few counters there are, and no difference or delay leaves its *)
(* range (enable_pmc_hw_event, read_pmc_hw_event_diff, create_latency_epoch). *)
THEOREM TypeCorrect == ESpec => []TypeOK
<1>1. IInv => TypeOK
  BY DEF IInv
<1> QED
  BY <1>1, InvariantHolds, PTL

(* However the readings of threads and the programming of processes are      *)
(* interleaved, the epochs of a thread keep back what they cost and nothing  *)
(* else (create_latency_epoch, model_lat.c:240-247).                         *)
THEOREM OverheadAmortised == ESpec => []OverheadIsAmortised
<1>1. IInv => OverheadIsAmortised
  <2> SUFFICES ASSUME IInv, NEW t \in Threads PROVE owed[t] \in 0..spent[t]
    BY DEF OverheadIsAmortised
  <2>1. /\ owed[t] \in Nat /\ tls_overhead[t] \in Nat /\ spent[t] \in Nat
        /\ owed[t] + tls_overhead[t] = spent[t]
    BY DEF IInv, TypeOK, Books
  <2> QED
    BY <2>1
<1> QED
  BY <1>1, InvariantHolds, PTL
-----------------------------------------------------------------------------
(***************************************************************************)
(* Every process assigns the same events in the same order, so an event    *)
(* has the counter whose number is that of the different events before it, *)
(* in every process: what one process programs is what the others want.    *)
(***************************************************************************)
Events == {Wanted[n] : n \in 1..Len(Wanted)}

\* The events that are assigned before e is.
Before(e) == {Wanted[n] : n \in {k \in 1..Len(Wanted) : \A j \in 1..k : Wanted[j] # e}}

IdOf(e) == Cardinality(Before(e))

\* The events that have a counter in p.
Done(p) == {n \in 1..Len(Wanted) : n < next[p] \/ (n = next[p] /\ pc[p] = "program")}
Active(p) == {Wanted[n] : n \in Done(p)}

Numbered(p) ==
    /\ \A e \in HwEvents : cntr_id[p][e] # None <=> e \in Active(p)
    /\ \A e \in Active(p) : cntr_id[p][e] = IdOf(e)
    /\ Used(p) = 0..(Cardinality(Active(p)) - 1)

\* A counter that is on counts the event with its number.
SelNumbered ==
    \A c \in Cpus, i \in Ids :
        sel[c][i] # Off => sel[c][i] \in Events /\ IdOf(sel[c][i]) = i

Numbering == (\A p \in Processes : Numbered(p)) /\ SelNumbered

LEMMA EventsFinite == IsFiniteSet(Events) /\ Events \subseteq HwEvents
<1> USE CountersAssumption
<1> DEFINE f == [n \in 1..Len(Wanted) |-> Wanted[n]]
<1>1. Len(Wanted) \in Nat /\ \A n \in 1..Len(Wanted) : Wanted[n] \in HwEvents
  OBVIOUS
<1>2. f \in Surjection(1..Len(Wanted), Events)
  BY <1>1 DEF Events, Surjection
<1>3. IsFiniteSet(1..Len(Wanted))
  BY <1>1, FS_Interval
<1>4. IsFiniteSet(Events)
  BY <1>2, <1>3, FS_Surjection
<1> QED
  BY <1>1, <1>4 DEF Events

LEMMA IdNat ==
    ASSUME NEW e
    PROVE  IsFiniteSet(Before(e)) /\ IdOf(e) \in Nat
<1>1. Before(e) \in SUBSET Events
  BY DEF Before, Events
<1>2. IsFiniteSet(Before(e))
  BY <1>1, EventsFinite, FS_Subset
<1> QED
  BY <1>2, FS_CardinalityType DEF IdOf

LEMMA FirstIsSmaller ==
    ASSUME NEW e, NEW f, e # f, NEW m \in 1..Len(Wanted), Wanted[m] = e,
           \A j \in 1..Len(Wanted) : Wanted[j] \in {e, f} => m <= j
    PROVE  IdOf(e) < IdOf(f)
<1>1. Len(Wanted) \in Nat
  BY CountersAssumption
<1>2. Before(e) \subseteq Before(f)
  <2> SUFFICES ASSUME NEW n \in 1..Len(Wanted), \A j \in 1..n : Wanted[j] # e
               PROVE  \A j \in 1..n : Wanted[j] # f
    BY DEF Before
  <2>1. n < m
    BY <1>1
  <2> QED
    BY <1>1, <2>1
<1>3. e \in Before(f)
  <2>1. \A j \in 1..m : Wanted[j] # f
    BY <1>1
  <2> QED
    BY <2>1 DEF Before
<1>4. e \notin Before(e)
  BY <1>1 DEF Before
<1>5. Before(e) \cup {e} \in SUBSET Before(f)
  BY <1>2, <1>3
<1>6. Cardinality(Before(e) \cup {e}) = IdOf(e) + 1
  BY <1>4, IdNat, FS_AddElement DEF IdOf
<1>7. Cardinality(Before(e) \cup {e}) <= IdOf(f)
  BY <1>5, IdNat, FS_Subset DEF IdOf
<1>8. IdOf(e) \in Nat /\ IdOf(f) \in Nat
  BY IdNat
<1> QED
  BY <1>6, <1>7, <1>8

(* Different events have different counters. *)
LEMMA IdsDiffer ==
    ASSUME NEW e \in Events, NEW f \in Events, e # f
    PROVE  IdOf(e) # IdOf(f)
<1> DEFINE S == {n \in 1..Len(Wanted) : Wanted[n] \in {e, f}}
<1>1. S # {} /\ S \in SUBSET Nat
  BY CountersAssumption DEF Events
<1>2. PICK m \in S : \A j \in S : m <= j
  BY <1>1, SmallestExists
<1>3. m \in 1..Len(Wanted) /\ \A j \in 1..Len(Wanted) : Wanted[j] \in {e, f} => m <= j
  BY <1>2
<1>4. IdOf(e) \in Nat /\ IdOf(f) \in Nat
  BY IdNat
<1>5. CASE Wanted[m] = e
  <2>1. IdOf(e) < IdOf(f)
    BY <1>3, <1>5, FirstIsSmaller
  <2> QED
    BY <1>4, <2>1
<1>6. CASE Wanted[m] = f
  <2>1. IdOf(f) < IdOf(e)
    BY <1>3, <1>6, FirstIsSmaller
  <2> QED
    BY <1>4, <2>1
<1> QED
  BY <1>2, <1>5, <1>6

LEMMA ActiveFinite ==
    ASSUME NEW p
    PROVE  /\ Active(p) \subseteq Events /\ IsFiniteSet(Active(p))
           /\ Cardinality(Active(p)) \in Nat
<1>1. Active(p) \in SUBSET Events
  BY DEF Active, Done, Events
<1>2. IsFiniteSet(Active(p))
  BY <1>1, EventsFinite, FS_Subset
<1> QED
  BY <1>1, <1>2, FS_CardinalityType

(* The counter that is free is the next one. *)
LEMMA NextCounter ==
    ASSUME IInv, NEW p \in Processes, Numbered(p), get_avail_hw_cntr_id(p) # None
    PROVE  get_avail_hw_cntr_id(p) = Cardinality(Active(p))
<1> DEFINE K == Cardinality(Active(p))
           N == num_avail_hw_cntrs
<1>1. K \in Nat /\ N \in Nat /\ Used(p) = 0..(K - 1)
  BY ActiveFinite, CountersAssumption DEF IInv, TypeOK, Numbered
<1>2. Used(p) \subseteq Ids
  BY DEF IInv, TypeOK, Used
<1> HIDE DEF K, N
<1>3. K <= N
  BY <1>1, <1>2 DEF Ids, N
<1>4. Cardinality(Used(p)) = K
  BY <1>1, FS_Interval
<1>5. K # N
  BY <1>4 DEF get_avail_hw_cntr_id, N
<1>6. K \in Ids \ Used(p) /\ \A j \in Ids \ Used(p) : K <= j
  BY <1>1, <1>3, <1>5 DEF Ids, N
<1>7. \A i \in Ids \ Used(p) : (\A j \in Ids \ Used(p) : i <= j) => i = K
  BY <1>1, <1>6 DEF Ids, N
<1>8. (CHOOSE i \in Ids \ Used(p) : \A j \in Ids \ Used(p) : i <= j) = K
  BY <1>6, <1>7
<1> QED
  BY <1>8, <1>4, <1>5 DEF get_avail_hw_cntr_id, K, N

(* What stays as it is. *)
LEMMA NumberedKept ==
    ASSUME NEW p, Numbered(p), cntr_id'[p] = cntr_id[p], Active(p)' = Active(p)
    PROVE  Numbered(p)'
  BY DEF Numbered, Used, IdOf, Before

LEMMA SelKept ==
    ASSUME Numbering, UNCHANGED <<sel, num_avail_hw_cntrs>>
    PROVE  SelNumbered'
<1>1. Ids' = Ids
  BY DEF Ids
<1>2. \A c \in Cpus, i \in Ids :
        sel'[c][i] # Off => sel'[c][i] \in Events /\ IdOf(sel'[c][i]) = i
  BY DEF Numbering, SelNumbered
<1> QED
  BY <1>1, <1>2 DEF SelNumbered, Events, IdOf, Before

LEMMA AdvanceNumbered ==
    ASSUME IInv, NEW p \in Processes, Advance(p), Numbering, UNCHANGED cntr_id,
           \/ pc[p] = "assign" /\ cntr_id[p][Wanted[next[p]]] # None
           \/ pc[p] = "program"
    PROVE  \A q \in Processes : Numbered(q)'
<1> TAKE q \in Processes
<1>1. CASE q # p
  <2>1. pc'[q] = pc[q] /\ next'[q] = next[q]
    BY <1>1 DEF Advance, IInv, TypeOK
  <2>2. Active(q)' = Active(q)
    BY <2>1 DEF Active, Done
  <2> QED
    BY <2>2, NumberedKept DEF Numbering
<1>2. CASE q = p
  <2>1. next[p] \in 1..Len(Wanted) /\ Len(Wanted) \in Nat
    BY CountersAssumption DEF IInv, Assigned
  <2>2. next'[p] = next[p] + 1 /\ pc'[p] # "program"
    BY DEF Advance, IInv, TypeOK
  <2>3. Done(p)' = Done(p) \cup {next[p]}
    BY <2>1, <2>2 DEF Done
  <2>4. Active(p)' = Active(p) \cup {Wanted[next[p]]}
    BY <2>3 DEF Active
  <2>5. Wanted[next[p]] \in Active(p)
    <3>1. CASE pc[p] = "assign" /\ cntr_id[p][Wanted[next[p]]] # None
      BY <2>1, <3>1, CountersAssumption DEF Numbering, Numbered
    <3>2. CASE pc[p] = "program"
      BY <2>1, <3>2 DEF Active, Done
    <3> QED
      BY <3>1, <3>2
  <2> QED
    BY <1>2, <2>4, <2>5, NumberedKept DEF Numbering
<1> QED
  BY <1>1, <1>2

LEMMA AssignNumbered ==
    ASSUME IInv, NEW p \in Processes, Assign(p), Numbering
    PROVE  Numbering'
<1> DEFINE e == Wanted[next[p]]
           K == Cardinality(Active(p))
<1> USE CountersAssumption
<1>1. next[p] \in 1..Len(Wanted) /\ Len(Wanted) \in Nat /\ pc[p] = "assign"
  BY DEF IInv, Assigned, Assign
<1>2. /\ e \in HwEvents /\ Numbered(p) /\ e \notin Active(p) /\ cntr_id[p][e] = None
      /\ get_avail_hw_cntr_id(p) = K
  BY <1>1, NextCounter DEF Assign, Numbering, Numbered
<1>3. /\ cntr_id' = [cntr_id EXCEPT ![p][e] = K]
      /\ UNCHANGED <<next, hardware>> /\ pc' = [pc EXCEPT ![p] = "program"]
  BY <1>2 DEF Assign
<1>4. ASSUME NEW q \in Processes, q # p PROVE Numbered(q)'
  <2>1. pc'[q] = pc[q] /\ next'[q] = next[q] /\ cntr_id'[q] = cntr_id[q]
    BY <1>3, <1>4 DEF IInv, TypeOK
  <2>2. Active(q)' = Active(q)
    BY <2>1 DEF Active, Done
  <2> QED
    BY <2>1, <2>2, NumberedKept DEF Numbering
<1>5. Active(p)' = Active(p) \cup {e}
  <2>1. pc'[p] = "program" /\ next'[p] = next[p]
    BY <1>3 DEF IInv, TypeOK
  <2>2. Done(p)' = Done(p) \cup {next[p]}
    BY <1>1, <2>1 DEF Done
  <2> QED
    BY <2>2 DEF Active
<1>6. Before(e) = Active(p)
  <2>1. \A n \in 1..Len(Wanted) : (\A j \in 1..n : Wanted[j] # e) => n < next[p]
    BY <1>1
  <2>2. \A n \in 1..Len(Wanted) : n < next[p] => \A j \in 1..n : Wanted[j] # e
    BY <1>1, <1>2 DEF Active, Done
  <2>3. Done(p) = {k \in 1..Len(Wanted) : \A j \in 1..k : Wanted[j] # e}
    BY <1>1, <2>1, <2>2 DEF Done
  <2> QED
    BY <2>3 DEF Before, Active
<1>7. IdOf(e) = K /\ K \in Nat /\ Cardinality(Active(p)') = K + 1
  <2>1. Cardinality(Active(p) \cup {e}) = K + 1
    BY <1>2, ActiveFinite, FS_AddElement
  <2> QED
    BY <1>5, <1>6, <2>1, ActiveFinite DEF IdOf
<1> HIDE DEF e, K
<1>8. /\ cntr_id'[p][e] = K
      /\ \A f \in HwEvents : f # e => cntr_id'[p][f] = cntr_id[p][f]
  BY <1>2, <1>3 DEF IInv, TypeOK
<1>9. Numbered(p)'
  <2>1. K # None
    BY <1>7
  <2>2. \A f \in HwEvents : cntr_id'[p][f] # None <=> f \in Active(p)'
    BY <1>2, <1>5, <1>8, <2>1 DEF Numbered
  <2>3. \A f \in Active(p)' : cntr_id'[p][f] = IdOf(f)
    <3>1. Active(p) \subseteq HwEvents
      BY ActiveFinite, EventsFinite
    <3> QED
      BY <1>2, <1>5, <1>7, <1>8, <3>1 DEF Numbered
  <2>4. Used(p)' = Used(p) \cup {K}
    BY <1>2, <1>8, <2>1 DEF Used
  <2>5. Used(p) = 0..(K - 1)
    BY <1>2 DEF Numbered, K
  <2>6. Used(p)' = 0..(Cardinality(Active(p)') - 1)
    BY <1>7, <2>4, <2>5
  <2> QED
    BY <2>2, <2>3, <2>6 DEF Numbered, IdOf, Before
<1>10. UNCHANGED <<sel, num_avail_hw_cntrs>>
  BY <1>3 DEF hardware
<1> QED
  BY <1>4, <1>9, <1>10, SelKept DEF Numbering

LEMMA GoneNumbered ==
    ASSUME IInv, NEW p \in Processes, Gone(p), UNCHANGED hardware, Numbering
    PROVE  Numbering'
<1> USE CountersAssumption
<1>1. ASSUME NEW q \in Processes, q # p PROVE Numbered(q)'
  <2>1. pc'[q] = pc[q] /\ next'[q] = next[q] /\ cntr_id'[q] = cntr_id[q]
    BY <1>1 DEF IInv, TypeOK, Gone
  <2>2. Active(q)' = Active(q)
    BY <2>1 DEF Active, Done
  <2> QED
    BY <2>1, <2>2, NumberedKept DEF Numbering
<1>2. Numbered(p)'
  <2>1. /\ pc'[p] = "off" /\ next'[p] = 1
        /\ \A e \in HwEvents : cntr_id'[p][e] = None
    BY DEF IInv, TypeOK, Gone
  <2>2. Done(p)' = {}
    BY <2>1 DEF Done
  <2>3. Active(p)' = {}
    BY <2>2 DEF Active
  <2>4. Used(p)' = {}
    BY <2>1 DEF Used
  <2>5. Cardinality(Active(p)') = 0
    BY <2>3, FS_EmptySet
  <2>6. Used(p)' = 0..(Cardinality(Active(p)') - 1)
    BY <2>4, <2>5
  <2> QED
    BY <2>1, <2>3, <2>6 DEF Numbered
<1>3. UNCHANGED <<sel, num_avail_hw_cntrs>>
  BY DEF hardware
<1> QED
  BY <1>1, <1>2, <1>3, SelKept DEF Numbering

(* The driver sets the counter of the event to that event or to none. *)
LEMMA ReachNumbered ==
    ASSUME IInv, NEW p \in Processes, pc[p] = "program", Numbering,
           NEW cs \in SUBSET Cpus, Reach(cs, cntr_id[p][Wanted[next[p]]], command[p], Wanted[next[p]])
    PROVE  SelNumbered'
<1> DEFINE e == Wanted[next[p]]
           k == cntr_id[p][e]
<1>1. next[p] \in 1..Len(Wanted)
  BY DEF IInv, Assigned
<1>2. e \in Active(p)
  BY <1>1 DEF Active, Done
<1>3. e \in Events /\ k = IdOf(e) /\ k \in Ids
  BY <1>2, ActiveFinite, ProgramsCounter DEF Numbering, Numbered
<1> HIDE DEF e, k
<1>4. /\ UNCHANGED num_avail_hw_cntrs
      /\ sel' = [c \in Cpus |->
                   IF c \in cs /\ command[p] # "clear"
                     THEN [sel[c] EXCEPT ![k] = IF command[p] = "set" THEN e ELSE Off]
                     ELSE sel[c]]
  BY DEF Reach, e, k
<1>5. Ids' = Ids
  BY <1>4 DEF Ids
<1>6. ASSUME NEW c \in Cpus, NEW i \in Ids PROVE sel'[c][i] \in {sel[c][i], Off} \/ (i = k /\ sel'[c][i] = e)
  BY <1>3, <1>4 DEF IInv, TypeOK
<1>7. \A c \in Cpus, i \in Ids : sel'[c][i] # Off => sel'[c][i] \in Events /\ IdOf(sel'[c][i]) = i
  BY <1>3, <1>6 DEF Numbering, SelNumbered
<1> QED
  BY <1>5, <1>7 DEF SelNumbered, Events, IdOf, Before

LEMMA NumberingStep ==
    ASSUME IInv, Numbering, [ENext]_allvars
    PROVE  Numbering'
<1> USE CountersAssumption
<1>1. CASE UNCHANGED <<pc, next, cntr_id, sel, num_avail_hw_cntrs>>
  BY <1>1, NumberedKept, SelKept DEF Numbering, Active, Done
<1>2. ASSUME NEW p \in Processes, InitLatencyModel(p) PROVE Numbering'
  <2>1. /\ pc[p] = "off" /\ pc' = [pc EXCEPT ![p] = "assign"]
        /\ UNCHANGED <<next, cntr_id, sel, num_avail_hw_cntrs>>
    BY <1>2 DEF InitLatencyModel, Start, hardware
  <2>2. ASSUME NEW q \in Processes PROVE Active(q)' = Active(q)
    BY <2>1 DEF IInv, TypeOK, Active, Done
  <2> QED
    BY <2>1, <2>2, NumberedKept, SelKept DEF Numbering
<1>3. ASSUME NEW p \in Processes, Driver(p) PROVE Numbering'
  <2>1. CASE Reuse(p)
    BY <2>1, AdvanceNumbered, SelKept DEF Reuse, hardware, Numbering
  <2>2. CASE Assign(p)
    BY <2>2, AssignNumbered
  <2>3. CASE Exhausted(p) \/ End(p)
    BY <2>3, GoneNumbered DEF Exhausted, End
  <2>4. CASE Here(p)
    <3>1. PICK c \in Cpus : Reach({c}, cntr_id[p][Wanted[next[p]]], command[p], Wanted[next[p]])
      BY <2>4 DEF Here
    <3>2. \A q \in Processes : Numbered(q)'
      BY <2>4, NumberedKept DEF Here, Numbering, Active, Done
    <3>3. pc[p] = "program" /\ {c} \in SUBSET Cpus
      BY <2>4 DEF Here
    <3>4. SelNumbered'
      BY <3>1, <3>3, ReachNumbered
    <3> QED
      BY <3>2, <3>4 DEF Numbering
  <2>5. CASE Others(p)
    <3>1. PICK c \in Cpus :
            Reach(Cpus \ {c}, cntr_id[p][Wanted[next[p]]], command[p], Wanted[next[p]])
      BY <2>5 DEF Others
    <3>2. \A q \in Processes : Numbered(q)'
      <4>1. CASE command[p] = "set"
        BY <2>5, <4>1, AdvanceNumbered DEF Others
      <4>2. CASE command[p] # "set"
        BY <2>5, <4>2, NumberedKept DEF Others, Numbering, Active, Done
      <4> QED
        BY <4>1, <4>2
    <3>3. pc[p] = "program" /\ Cpus \ {c} \in SUBSET Cpus
      BY <2>5 DEF Others
    <3>4. SelNumbered'
      BY <3>1, <3>3, ReachNumbered
    <3> QED
      BY <3>2, <3>4 DEF Numbering
  <2> QED
    BY <1>3, <2>1, <2>2, <2>3, <2>4, <2>5 DEF Driver
<1>4. CASE Hardware /\ UNCHANGED delays
  <2>1. PICK c \in {CpuOf[t] : t \in Threads} : Happen(c)
    BY <1>4 DEF Hardware
  <2> QED
    BY <1>1, <2>1 DEF Happen, library
<1>5. ASSUME NEW t \in Threads, Read(t) \/ CloseEpoch(t) PROVE Numbering'
  BY <1>1, <1>5 DEF Read, ReadCounter, LoadLast, CloseEpoch, StoreLast, hardware, library
<1>6. CASE UNCHANGED allvars
  BY <1>1, <1>6 DEF allvars, vars, hardware, library
<1> QED
  BY <1>2, <1>3, <1>4, <1>5, <1>6 DEF ENext

LEMMA InitNumbering == EInit => Numbering
<1> SUFFICES ASSUME EInit PROVE Numbering
  OBVIOUS
<1> USE CountersAssumption DEF EInit, Init
<1>1. ASSUME NEW p \in Processes PROVE Numbered(p)
  <2>1. Done(p) = {} /\ Used(p) = {}
    BY DEF Done, Used
  <2>2. Active(p) = {}
    BY <2>1 DEF Active
  <2>3. Cardinality(Active(p)) = 0
    BY <2>2, FS_EmptySet
  <2>4. Used(p) = 0..(Cardinality(Active(p)) - 1)
    BY <2>1, <2>3
  <2> QED
    BY <2>2, <2>4 DEF Numbered
<1> QED
  BY <1>1 DEF Numbering, SelNumbered

LEMMA NumberingHolds == ESpec => [](IInv /\ Numbering)
<1>1. EInit => IInv /\ Numbering
  BY InitIInv, InitNumbering
<1>2. IInv /\ Numbering /\ [ENext]_allvars => (IInv /\ Numbering)'
  BY NextIInv, NumberingStep
<1> QED
  BY <1>1, <1>2, PTL DEF ESpec

LEMMA RunningHasAll ==
    ASSUME IInv, NEW p \in Processes, pc[p] = "running"
    PROVE  Active(p) = Events
<1>1. next[p] = Len(Wanted) + 1 /\ Len(Wanted) \in Nat
  BY CountersAssumption DEF IInv, Assigned
<1>2. Done(p) = 1..Len(Wanted)
  BY <1>1 DEF Done
<1> QED
  BY <1>2 DEF Active, Events

(* The counters belong to the host, and every process programs them without  *)
(* a look at the others; but as get_avail_hw_cntr_id starts from nothing in  *)
(* every process and the events are enabled in one order, no process ever    *)
(* makes a counter that another one reads count something else               *)
(* (lib/cpu/pmc.c:48, dev/pmc.c).                                            *)
THEOREM EventsAreTheOnesAskedFor == ESpec => []NoForeignEvents
<1>1. IInv /\ Numbering => NoForeignEvents
  <2> SUFFICES ASSUME IInv, Numbering,
                      NEW p \in Processes, NEW c \in Cpus, NEW e \in HwEvents,
                      pc[p] = "running", cntr_id[p][e] # None, sel[c][cntr_id[p][e]] # Off
               PROVE  sel[c][cntr_id[p][e]] = e
    BY DEF NoForeignEvents
  <2>1. e \in Events /\ cntr_id[p][e] = IdOf(e)
    BY ActiveFinite DEF Numbering, Numbered
  <2>2. cntr_id[p][e] \in Ids
    BY DEF IInv, TypeOK
  <2>3. /\ sel[c][cntr_id[p][e]] \in Events
        /\ IdOf(sel[c][cntr_id[p][e]]) = cntr_id[p][e]
    BY <2>2 DEF Numbering, SelNumbered
  <2> QED
    BY <2>1, <2>3, IdsDiffer
<1> QED
  BY <1>1, NumberingHolds, PTL

-----------------------------------------------------------------------------
(* Where an event is counted: unless a process is about to program it, on   *)
(* all CPUs but the one that the last call of smp_call_function left out.   *)
Programming(e) == \E q \in Processes : pc[q] = "program" /\ Wanted[next[q]] = e

AllButOne(i, e) == \E c \in Cpus : \A d \in Cpus \ {c} : sel[d][i] = e

Covered ==
    \A p \in Processes, e \in HwEvents :
        cntr_id[p][e] # None /\ ~Programming(e) => AllButOne(cntr_id[p][e], e)

(* The events that are not programmed now stay where they are counted. *)
LEMMA CoveredKept ==
    ASSUME Covered,
           UNCHANGED sel,
           \A q \in Processes, e \in HwEvents :
             cntr_id'[q][e] # None => cntr_id'[q][e] = cntr_id[q][e] \/ Programming(e)',
           \A e : Programming(e) => Programming(e)'
    PROVE  Covered'
<1> SUFFICES ASSUME NEW q \in Processes, NEW e \in HwEvents,
                    cntr_id'[q][e] # None, ~Programming(e)'
             PROVE  AllButOne(cntr_id[q][e], e)'
  BY DEF Covered
<1>1. cntr_id'[q][e] = cntr_id[q][e] /\ ~Programming(e)
  OBVIOUS
<1>2. AllButOne(cntr_id[q][e], e)
  BY <1>1 DEF Covered
<1> QED
  BY <1>1, <1>2 DEF AllButOne

(* A call of the driver for one event leaves the counters of the others. *)
LEMMA ReachCovered ==
    ASSUME IInv, Numbering, Covered, NEW p \in Processes, pc[p] = "program",
           NEW e, e = Wanted[next[p]],
           NEW cs \in SUBSET Cpus, Reach(cs, cntr_id[p][e], command[p], e), UNCHANGED cntr_id,
           \A f : f # e /\ Programming(f) => Programming(f)',
           Programming(e)' \/ (command[p] = "set" /\ \E c \in Cpus : cs = Cpus \ {c})
    PROVE  Covered'
<1> DEFINE k == cntr_id[p][e]
<1>1. next[p] \in 1..Len(Wanted)
  BY DEF IInv, Assigned
<1>2. e \in Active(p)
  BY <1>1 DEF Active, Done
<1>3. e \in Events /\ k = IdOf(e) /\ k \in Ids
  BY <1>2, ActiveFinite, ProgramsCounter DEF Numbering, Numbered
<1>4. sel' = [c \in Cpus |->
                IF c \in cs /\ command[p] # "clear"
                  THEN [sel[c] EXCEPT ![k] = IF command[p] = "set" THEN e ELSE Off]
                  ELSE sel[c]]
  BY DEF Reach
<1> HIDE DEF k
<1> SUFFICES ASSUME NEW q \in Processes, NEW f \in HwEvents,
                    cntr_id[q][f] # None, ~Programming(f)'
             PROVE  \E c \in Cpus : \A d \in Cpus \ {c} : sel'[d][cntr_id[q][f]] = f
  BY DEF Covered, AllButOne
<1>5. f \in Events /\ cntr_id[q][f] = IdOf(f) /\ cntr_id[q][f] \in Ids
  BY ActiveFinite DEF Numbering, Numbered, IInv, TypeOK
<1>6. CASE f = e
  <2>1. PICK c \in Cpus : cs = Cpus \ {c} /\ command[p] = "set"
    BY <1>6
  <2>2. \A d \in Cpus \ {c} : sel'[d][k] = e
    BY <1>3, <1>4, <2>1 DEF IInv, TypeOK
  <2> QED
    BY <1>3, <1>5, <1>6, <2>2
<1>7. CASE f # e
  <2>1. cntr_id[q][f] # k
    BY <1>3, <1>5, <1>7, IdsDiffer
  <2>2. \A d \in Cpus : sel'[d][cntr_id[q][f]] = sel[d][cntr_id[q][f]]
    BY <1>4, <1>5, <2>1 DEF IInv, TypeOK
  <2>3. ~Programming(f)
    BY <1>7
  <2>4. AllButOne(cntr_id[q][f], f)
    BY <2>3 DEF Covered
  <2> QED
    BY <2>2, <2>4 DEF AllButOne
<1> QED
  BY <1>6, <1>7

LEMMA CoveredStep ==
    ASSUME IInv, Numbering, Covered, [ENext]_allvars
    PROVE  Covered'
<1> USE CountersAssumption
<1>1. CASE UNCHANGED <<pc, next, cntr_id, sel>>
  BY <1>1, CoveredKept DEF Programming
<1>2. ASSUME NEW p \in Processes, InitLatencyModel(p) PROVE Covered'
  <2>1. /\ pc[p] = "off" /\ pc' = [pc EXCEPT ![p] = "assign"]
        /\ UNCHANGED <<next, cntr_id, sel>>
    BY <1>2 DEF InitLatencyModel, Start, hardware
  <2>2. \A e : Programming(e) => Programming(e)'
    BY <2>1 DEF IInv, TypeOK, Programming
  <2> QED
    BY <2>1, <2>2, CoveredKept
<1>3. ASSUME NEW p \in Processes, Driver(p) PROVE Covered'
  <2>1. CASE Reuse(p)
    <3>1. /\ pc[p] = "assign" /\ UNCHANGED <<sel, cntr_id>>
          /\ \A q \in Processes : q # p => pc'[q] = pc[q] /\ next'[q] = next[q]
      BY <2>1 DEF Reuse, Advance, hardware, IInv, TypeOK
    <3>2. \A e : Programming(e) => Programming(e)'
      BY <3>1 DEF Programming
    <3> QED
      BY <3>1, <3>2, CoveredKept
  <2>2. CASE Assign(p)
    <3>1. PICK f : f = Wanted[next[p]]
      OBVIOUS
    <3>2. /\ pc[p] = "assign" /\ pc' = [pc EXCEPT ![p] = "program"]
          /\ UNCHANGED <<sel, next>>
          /\ cntr_id' = [cntr_id EXCEPT ![p][Wanted[next[p]]] = get_avail_hw_cntr_id(p)]
      BY <2>2 DEF Assign, hardware
    <3>3. Programming(f)' /\ \A e : Programming(e) => Programming(e)'
      BY <3>1, <3>2 DEF IInv, TypeOK, Programming
    <3>4. \A q \in Processes, e \in HwEvents : cntr_id'[q][e] = cntr_id[q][e] \/ e = f
      BY <3>1, <3>2 DEF IInv, TypeOK
    <3>5. \A q \in Processes, e \in HwEvents :
            cntr_id'[q][e] # None => cntr_id'[q][e] = cntr_id[q][e] \/ Programming(e)'
      BY <3>3, <3>4
    <3> QED
      BY <3>2, <3>3, <3>5, CoveredKept
  <2>3. CASE Exhausted(p) \/ End(p)
    <3>1. /\ pc[p] # "program" /\ UNCHANGED sel
          /\ \A q \in Processes : q # p => pc'[q] = pc[q] /\ next'[q] = next[q]
      BY <2>3 DEF Exhausted, End, Gone, hardware, IInv, TypeOK
    <3>2. cntr_id' = [cntr_id EXCEPT ![p] = [e \in HwEvents |-> None]]
      BY <2>3 DEF Exhausted, End, Gone
    <3>3. \A q \in Processes, e \in HwEvents :
            cntr_id'[q][e] # None => cntr_id'[q][e] = cntr_id[q][e]
      BY <3>2 DEF IInv, TypeOK
    <3>4. \A e : Programming(e) => Programming(e)'
      BY <3>1 DEF Programming
    <3> QED
      BY <3>1, <3>3, <3>4, CoveredKept
  <2>4. CASE Here(p)
    <3>1. PICK f : f = Wanted[next[p]]
      OBVIOUS
    <3>2. PICK c \in Cpus : Reach({c}, cntr_id[p][f], command[p], f)
      BY <2>4, <3>1 DEF Here
    <3>3. pc[p] = "program" /\ {c} \in SUBSET Cpus /\ UNCHANGED <<pc, next, cntr_id>>
      BY <2>4 DEF Here
    <3>4. Programming(f)' /\ \A e : Programming(e) => Programming(e)'
      BY <3>1, <3>3 DEF Programming
    <3> QED
      BY <3>1, <3>2, <3>3, <3>4, ReachCovered
  <2>5. CASE Others(p)
    <3>1. PICK f : f = Wanted[next[p]]
      OBVIOUS
    <3>2. PICK c \in Cpus : Reach(Cpus \ {c}, cntr_id[p][f], command[p], f)
      BY <2>5, <3>1 DEF Others
    <3>3. pc[p] = "program" /\ Cpus \ {c} \in SUBSET Cpus /\ UNCHANGED cntr_id
      BY <2>5 DEF Others
    <3>4. \A q \in Processes : q # p => pc'[q] = pc[q] /\ next'[q] = next[q]
      BY <2>5 DEF Others, Advance, IInv, TypeOK
    <3>5. \A e : e # f /\ Programming(e) => Programming(e)'
      BY <3>1, <3>4 DEF Programming
    <3>6. command[p] # "set" => Programming(f)'
      BY <2>5, <3>1, <3>3 DEF Others, Programming
    <3> QED
      BY <3>1, <3>2, <3>3, <3>5, <3>6, ReachCovered
  <2> QED
    BY <1>3, <2>1, <2>2, <2>3, <2>4, <2>5 DEF Driver
<1>4. CASE Hardware /\ UNCHANGED delays
  <2>1. PICK c \in {CpuOf[t] : t \in Threads} : Happen(c)
    BY <1>4 DEF Hardware
  <2> QED
    BY <1>1, <2>1 DEF Happen, library
<1>5. ASSUME NEW t \in Threads, Read(t) \/ CloseEpoch(t) PROVE Covered'
  BY <1>1, <1>5 DEF Read, ReadCounter, LoadLast, CloseEpoch, StoreLast, hardware, library
<1>6. CASE UNCHANGED allvars
  BY <1>1, <1>6 DEF allvars, vars, hardware, library
<1> QED
  BY <1>2, <1>3, <1>4, <1>5, <1>6 DEF ENext

(* smp_call_function leaves out the CPU of its caller, and the direct call   *)
(* before it may have been made on another one; still, when no call of the   *)
(* driver is under way, at most one CPU does not count what a process reads  *)
(* (dev/pmc.c, set_counter), with any number of CPUs and processes.          *)
THEOREM CpusCount == ESpec => []AtMostOneCpuMissed
<1>1. EInit => Covered
  BY CountersAssumption DEF EInit, Init, Covered
<1>2. IInv /\ Numbering /\ Covered /\ [ENext]_allvars => Covered'
  BY CoveredStep
<1>3. IInv /\ Covered => AtMostOneCpuMissed
  <2> SUFFICES ASSUME IInv, Covered, \A q \in Processes : pc[q] # "program",
                      NEW p \in Processes, NEW e \in HwEvents, cntr_id[p][e] # None
               PROVE  Cardinality({c \in Cpus : sel[c][cntr_id[p][e]] # e}) <= 1
    BY DEF AtMostOneCpuMissed
  <2> DEFINE Missed == {c \in Cpus : sel[c][cntr_id[p][e]] # e}
  <2>1. AllButOne(cntr_id[p][e], e)
    BY DEF Covered, Programming
  <2>2. PICK c \in Cpus : \A d \in Cpus \ {c} : sel[d][cntr_id[p][e]] = e
    BY <2>1 DEF AllButOne
  <2>3. Missed \in SUBSET {c}
    BY <2>2
  <2>4. IsFiniteSet({c}) /\ Cardinality({c}) = 1
    BY FS_Singleton
  <2> QED
    BY <2>3, <2>4, FS_Subset
<1> QED
  BY <1>1, <1>2, <1>3, NumberingHolds, PTL DEF ESpec

-----------------------------------------------------------------------------
(* What the counters count, and the samples that were taken of them.        *)
LEMMA ModBasics ==
    ASSUME NEW L \in Nat \ {0}, NEW a \in Nat
    PROVE  /\ a % L \in 0..(L - 1) /\ a \div L \in Nat
           /\ a = L * (a \div L) + (a % L)
  OBVIOUS

LEMMA ModSum ==
    ASSUME NEW L \in Nat \ {0}, NEW a \in Nat, NEW h \in 0..(L - 1)
    PROVE  (a + h) % L = IF (a % L) + h < L THEN (a % L) + h ELSE (a % L) + h - L
<1> DEFINE q == a \div L  r == a % L
           qq == (a + h) \div L  rr == (a + h) % L
<1>0. a + h \in Nat
  OBVIOUS
<1>1. /\ r \in 0..(L - 1) /\ q \in Nat /\ a = L * q + r
      /\ rr \in 0..(L - 1) /\ qq \in Nat /\ a + h = L * qq + rr
  BY <1>0, ModBasics
<1> HIDE DEF q, r, qq, rr
<1>2. L * (qq - q) = r + h - rr
  BY <1>1
<1>3. qq - q \in Int /\ r + h - rr < 2 * L /\ r + h - rr > -L
  BY <1>1
<1>4. qq - q = 0 \/ qq - q = 1
  BY <1>2, <1>3
<1>5. rr = r + h \/ rr = r + h - L
  BY <1>1, <1>2, <1>4
<1>6. rr = IF r + h < L THEN r + h ELSE r + h - L
  BY <1>1, <1>5
<1> QED
  BY <1>6 DEF r, rr

LEMMA ModSmall ==
    ASSUME NEW L \in Nat \ {0}, NEW h \in 0..(L - 1)
    PROVE  h % L = h
  OBVIOUS

LEMMA ModNext ==
    ASSUME NEW L \in Nat \ {0}, NEW a \in Nat
    PROVE  ((a % L) + 1) % L = (a + 1) % L
<1>1. a % L \in 0..(L - 1) /\ L = L
  BY ModBasics
<1>2. CASE L = 1
  <2>1. \A b \in Nat : b % L = 0
    BY <1>2
  <2> QED
    BY <1>1, <2>1
<1>3. CASE L # 1
  <2>1. 1 \in 0..(L - 1)
    BY <1>3
  <2>2. (a + 1) % L = IF (a % L) + 1 < L THEN (a % L) + 1 ELSE (a % L) + 1 - L
    BY <2>1, ModSum
  <2> DEFINE r == a % L
  <2> HIDE DEF r
  <2>3. r \in 0..(L - 1)
    BY <1>1 DEF r
  <2>4. r + 1 < L => (r + 1) % L = r + 1
    BY <2>3, ModSmall
  <2>5. ~(r + 1 < L) => r + 1 = L
    BY <2>3
  <2>6. L % L = 0
    OBVIOUS
  <2> QED
    BY <2>2, <2>3, <2>4, <2>5, <2>6 DEF r
<1> QED
  BY <1>2, <1>3

\* A value of the counter is what happened since the base, as far as it fits.
Counted(s) ==
    /\ s.at \in Nat /\ s.base \in Nat /\ s.base <= s.at
    /\ s.val = (s.at - s.base) % CounterLimit

CountersCount ==
    \A c \in Cpus, i \in Ids :
        /\ base[c][i] <= happened[c]
        /\ ctr[c][i] = (happened[c] - base[c][i]) % CounterLimit

SamplesCount ==
    /\ \A p \in Processes, c \in Cpus : last_val[p][c] = Zero \/ Counted(last_val[p][c])
    /\ \A t \in Threads : last[t] = Zero \/ Counted(last[t])
    /\ \A t \in Threads : rd[t] # "idle" => Counted(cur[t])

LEMMA HappenCounts ==
    ASSUME IInv, CountersCount, NEW c \in Cpus, Happen(c)
    PROVE  CountersCount'
<1> USE CountersAssumption
<1>1. Ids' = Ids
  BY DEF Happen, Ids
<1> SUFFICES ASSUME NEW d \in Cpus, NEW i \in Ids
             PROVE  /\ base'[d][i] <= happened'[d]
                    /\ ctr'[d][i] = (happened'[d] - base'[d][i]) % CounterLimit
  BY <1>1 DEF CountersCount
<1> DEFINE h == happened[d]  b == base[d][i]  v == ctr[d][i]
<1>2. h \in Nat /\ b \in Nat /\ b <= h /\ v = (h - b) % CounterLimit
  BY DEF IInv, TypeOK, CountersCount
<1>3. CASE d # c
  <2>1. happened'[d] = h /\ base'[d][i] = b /\ ctr'[d][i] = v
    BY <1>3 DEF Happen, IInv, TypeOK
  <2> QED
    BY <1>2, <2>1
<1>4. CASE d = c /\ sel[c][i] = Stalls
  <2>1. happened'[d] = h + 1 /\ base'[d][i] = b /\ ctr'[d][i] = (v + 1) % CounterLimit
    BY <1>4 DEF Happen, IInv, TypeOK
  <2> HIDE DEF h, b, v
  <2>2. h - b \in Nat /\ h + 1 - b = (h - b) + 1 /\ b <= h + 1
    BY <1>2
  <2>3. (v + 1) % CounterLimit = (h + 1 - b) % CounterLimit
    BY <1>2, <2>2, ModNext
  <2>4. happened'[d] - base'[d][i] = h + 1 - b /\ base'[d][i] <= happened'[d]
    BY <1>2, <2>1, <2>2
  <2> QED
    BY <2>1, <2>3, <2>4
<1>5. CASE d = c /\ sel[c][i] # Stalls
  <2>1. happened'[d] = h + 1 /\ base'[d][i] = b + 1 /\ ctr'[d][i] = v
    BY <1>5 DEF Happen, IInv, TypeOK
  <2> HIDE DEF h, b, v
  <2>2. (h + 1) - (b + 1) = h - b /\ b + 1 <= h + 1
    BY <1>2
  <2> QED
    BY <1>2, <2>1, <2>2
<1> QED
  BY <1>3, <1>4, <1>5

LEMMA ReachCounts ==
    ASSUME IInv, CountersCount, NEW cs \in SUBSET Cpus, NEW i \in Ids, NEW cmd, NEW e,
           Reach(cs, i, cmd, e)
    PROVE  CountersCount'
<1> USE CountersAssumption
<1>1. Ids' = Ids /\ happened' = happened
  BY DEF Reach, Ids
<1> SUFFICES ASSUME NEW d \in Cpus, NEW j \in Ids
             PROVE  /\ base'[d][j] <= happened[d]
                    /\ ctr'[d][j] = (happened[d] - base'[d][j]) % CounterLimit
  BY <1>1 DEF CountersCount
<1>2. happened[d] \in Nat /\ base[d][j] \in Nat
  BY DEF IInv, TypeOK
<1>3. CASE d \in cs /\ i = j
  <2>1. base'[d][j] = happened[d] /\ ctr'[d][j] = 0
    BY <1>3 DEF Reach, IInv, TypeOK
  <2>2. happened[d] - happened[d] = 0 /\ 0 % CounterLimit = 0
    BY <1>2
  <2> QED
    BY <1>2, <2>1, <2>2
<1>4. CASE ~(d \in cs /\ i = j)
  <2>1. base'[d][j] = base[d][j] /\ ctr'[d][j] = ctr[d][j]
    BY <1>4 DEF Reach, IInv, TypeOK
  <2> QED
    BY <2>1 DEF CountersCount
<1> QED
  BY <1>3, <1>4

LEMMA CountersStep ==
    ASSUME IInv, CountersCount, [ENext]_allvars
    PROVE  CountersCount'
<1> USE CountersAssumption
<1>1. CASE UNCHANGED hardware
  BY <1>1 DEF hardware, CountersCount, Ids
<1>2. ASSUME NEW p \in Processes, InitLatencyModel(p) PROVE CountersCount'
  BY <1>1, <1>2 DEF InitLatencyModel, Start
<1>3. ASSUME NEW p \in Processes, Driver(p) PROVE CountersCount'
  <2>1. CASE Reuse(p) \/ Assign(p) \/ Exhausted(p) \/ End(p)
    BY <1>1, <2>1 DEF Reuse, Assign, Exhausted, End
  <2>2. CASE Here(p)
    <3>1. PICK c \in Cpus : Reach({c}, cntr_id[p][Wanted[next[p]]], command[p], Wanted[next[p]])
      BY <2>2 DEF Here
    <3>2. pc[p] = "program" /\ {c} \in SUBSET Cpus
      BY <2>2 DEF Here
    <3> QED
      BY <3>1, <3>2, ProgramsCounter, ReachCounts
  <2>3. CASE Others(p)
    <3>1. PICK c \in Cpus :
            Reach(Cpus \ {c}, cntr_id[p][Wanted[next[p]]], command[p], Wanted[next[p]])
      BY <2>3 DEF Others
    <3>2. pc[p] = "program" /\ Cpus \ {c} \in SUBSET Cpus
      BY <2>3 DEF Others
    <3> QED
      BY <3>1, <3>2, ProgramsCounter, ReachCounts
  <2> QED
    BY <1>3, <2>1, <2>2, <2>3 DEF Driver
<1>4. CASE Hardware /\ UNCHANGED delays
  <2>1. PICK c \in {CpuOf[t] : t \in Threads} : Happen(c)
    BY <1>4 DEF Hardware
  <2> QED
    BY <2>1, HappenCounts
<1>5. ASSUME NEW t \in Threads, Read(t) \/ CloseEpoch(t) PROVE CountersCount'
  BY <1>1, <1>5 DEF Read, ReadCounter, LoadLast, CloseEpoch, StoreLast
<1>6. CASE UNCHANGED allvars
  BY <1>1, <1>6 DEF allvars, vars, hardware
<1> QED
  BY <1>2, <1>3, <1>4, <1>5, <1>6 DEF ENext

LEMMA SamplesNext ==
    ASSUME \A p \in Processes, c \in Cpus : last_val'[p][c] = Zero \/ Counted(last_val'[p][c]),
           \A t \in Threads : last'[t] = Zero \/ Counted(last'[t]),
           \A t \in Threads : rd'[t] # "idle" => Counted(cur'[t])
    PROVE  SamplesCount'
  BY DEF SamplesCount, Counted, Zero

LEMMA SamplesStep ==
    ASSUME IInv, CountersCount, SamplesCount, [ENext]_allvars
    PROVE  SamplesCount'
<1> USE CountersAssumption
<1>1. CASE UNCHANGED reading
  BY <1>1 DEF reading, SamplesCount, Counted, Zero
<1>2. ASSUME NEW p \in Processes, InitLatencyModel(p) PROVE SamplesCount'
  BY <1>1, <1>2 DEF InitLatencyModel, Start
<1>3. ASSUME NEW p \in Processes, Driver(p) PROVE SamplesCount'
  <2>1. CASE Reuse(p) \/ Here(p) \/ Others(p)
    BY <1>1, <2>1 DEF Reuse, Here, Others
  <2>2. CASE Assign(p)
    <3>1. UNCHANGED <<rd, cur, last>>
      BY <2>2 DEF Assign
    <3>2. CASE last_val' = [last_val EXCEPT ![p] = [c \in Cpus |-> Zero]]
      <4>1. \A q \in Processes, c \in Cpus :
              last_val'[q][c] = (IF q = p THEN Zero ELSE last_val[q][c])
        BY <3>2 DEF IInv, TypeOK
      <4> QED
        BY <3>1, <4>1, SamplesNext DEF SamplesCount
    <3>3. CASE last_val' = last_val
      BY <1>1, <3>1, <3>3 DEF reading
    <3> QED
      BY <2>2, <3>2, <3>3 DEF Assign
  <2>3. CASE Exhausted(p) \/ End(p)
    <3>1. Gone(p)
      BY <2>3 DEF Exhausted, End
    <3>2. \A q \in Processes, c \in Cpus :
            last_val'[q][c] = (IF q = p THEN Zero ELSE last_val[q][c])
      BY <3>1 DEF Gone, IInv, TypeOK
    <3>3. \A t \in Threads : /\ last'[t] \in {last[t], Zero}
                             /\ rd'[t] = "idle" \/ (rd'[t] = rd[t] /\ cur'[t] = cur[t])
      BY <3>1 DEF Gone, IInv, TypeOK
    <3> QED
      BY <3>2, <3>3, SamplesNext DEF SamplesCount
  <2> QED
    BY <1>3, <2>1, <2>2, <2>3 DEF Driver
<1>4. CASE Hardware /\ UNCHANGED delays
  <2>1. PICK c \in {CpuOf[t] : t \in Threads} : Happen(c)
    BY <1>4 DEF Hardware
  <2> QED
    BY <1>1, <2>1 DEF Happen
<1>5. ASSUME NEW t \in Threads, Read(t) \/ CloseEpoch(t) PROVE SamplesCount'
  <2>1. ProcessOf[t] \in Processes /\ CpuOf[t] \in Cpus
    OBVIOUS
  <2>2. CASE ReadCounter(t)
    <3> DEFINE c == CpuOf[t]
               i == cntr_id[ProcessOf[t]][Stalls]
               v == [val |-> ctr[c][i], at |-> happened[c], base |-> base[c][i]]
    <3>1. /\ cur' = [cur EXCEPT ![t] = v] /\ rd' = [rd EXCEPT ![t] = "cur"]
          /\ UNCHANGED <<last_val, last>> /\ pc[ProcessOf[t]] = "running"
      BY <2>2 DEF ReadCounter, Running
    <3>2. i \in Ids
      BY <2>1, <3>1, ReadsCounter
    <3> HIDE DEF c, i
    <3>3. c \in Cpus
      BY <2>1 DEF c
    <3>4. happened[c] \in Nat /\ base[c][i] \in Nat
      BY <3>2, <3>3 DEF IInv, TypeOK
    <3>5. /\ base[c][i] <= happened[c]
          /\ ctr[c][i] = (happened[c] - base[c][i]) % CounterLimit
      BY <3>2, <3>3 DEF CountersCount
    <3>6. Counted(v)
      BY <3>4, <3>5 DEF Counted
    <3> HIDE DEF v
    <3>7. \A u \in Threads : rd'[u] # "idle" => Counted(cur'[u])
      BY <3>1, <3>6 DEF SamplesCount, IInv, TypeOK
    <3> QED
      BY <3>1, <3>7, SamplesNext DEF SamplesCount
  <2>3. CASE LoadLast(t)
    <3> DEFINE v == last_val[ProcessOf[t]][CpuOf[t]]
    <3>1. /\ last' = [last EXCEPT ![t] = v] /\ rd' = [rd EXCEPT ![t] = "last"]
          /\ UNCHANGED <<last_val, cur>> /\ rd[t] = "cur"
      BY <2>3 DEF LoadLast
    <3>2. v = Zero \/ Counted(v)
      BY <2>1 DEF SamplesCount
    <3> HIDE DEF v
    <3>3. \A u \in Threads : /\ last'[u] = Zero \/ Counted(last'[u])
                             /\ rd'[u] # "idle" => rd[u] # "idle"
      BY <3>1, <3>2 DEF SamplesCount, IInv, TypeOK
    <3> QED
      BY <3>1, <3>3, SamplesNext DEF SamplesCount
  <2>4. CASE CloseEpoch(t)
    <3> DEFINE v == cur[t]
    <3>1. /\ last_val' = [last_val EXCEPT ![ProcessOf[t]][CpuOf[t]] = v]
          /\ rd' = [rd EXCEPT ![t] = "idle"] /\ cur' = [cur EXCEPT ![t] = Zero]
          /\ last' = [last EXCEPT ![t] = Zero] /\ rd[t] = "last"
      BY <2>4 DEF CloseEpoch, StoreLast, Returned
    <3>2. Counted(v)
      BY <3>1 DEF SamplesCount
    <3> HIDE DEF v
    <3>3. \A q \in Processes, c \in Cpus : last_val'[q][c] = v \/ last_val'[q][c] = last_val[q][c]
      BY <3>1 DEF IInv, TypeOK
    <3>4. \A u \in Threads : /\ last'[u] = Zero \/ last'[u] = last[u]
                             /\ rd'[u] # "idle" => rd[u] # "idle" /\ cur'[u] = cur[u]
      BY <3>1 DEF IInv, TypeOK
    <3> QED
      BY <3>2, <3>3, <3>4, SamplesNext DEF SamplesCount
  <2> QED
    BY <1>5, <2>2, <2>3, <2>4 DEF Read
<1>6. CASE UNCHANGED allvars
  BY <1>1, <1>6 DEF allvars, vars
<1> QED
  BY <1>2, <1>3, <1>4, <1>5, <1>6 DEF ENext

LEMMA CountingHolds == ESpec => [](IInv /\ CountersCount /\ SamplesCount)
<1>1. EInit => CountersCount /\ SamplesCount
  <2> SUFFICES ASSUME EInit PROVE CountersCount /\ SamplesCount
    OBVIOUS
  <2>1. 0 - 0 = 0 /\ 0 % CounterLimit = 0
    BY CountersAssumption
  <2> QED
    BY <2>1 DEF EInit, Init, CountersCount, SamplesCount
<1>2. IInv /\ CountersCount /\ SamplesCount /\ [ENext]_allvars => (CountersCount /\ SamplesCount)'
  BY CountersStep, SamplesStep
<1> QED
  BY <1>1, <1>2, InvariantHolds, PTL DEF ESpec

(* The difference of two values of a counter that h happened between. *)
LEMMA CountedDiff ==
    ASSUME NEW L \in Nat \ {0}, NEW a \in Nat, NEW h \in 0..(L - 1)
    PROVE  LET x == (a + h) % L  y == a % L IN
           (IF x < y THEN x + (L - 1 - y) ELSE x - y) = h - (IF x < y THEN 1 ELSE 0)
<1> DEFINE x == (a + h) % L
           y == a % L
<1>1. y \in 0..(L - 1) /\ x = IF y + h < L THEN y + h ELSE y + h - L
  BY ModBasics, ModSum
<1> HIDE DEF x, y
<1>2. (IF x < y THEN x + (L - 1 - y) ELSE x - y) = h - (IF x < y THEN 1 ELSE 0)
  BY <1>1
<1> QED
  BY <1>2 DEF x, y

(* Across a clear, a wrap or a switch of the event a difference can be       *)
(* anything; with none of them in between, read_pmc_hw_event_diff            *)
(* (lib/cpu/pmc.c:189-205) returns what happened, and one less than that if  *)
(* the counter of 40 bits wrapped, however readings and programming of       *)
(* others fall between its two accesses.                                     *)
THEOREM DiffIsWhatHappened == ESpec => []UndisturbedDiff
<1> USE CountersAssumption
<1>1. IInv /\ SamplesCount => UndisturbedDiff
  <2> SUFFICES ASSUME IInv, SamplesCount, NEW t \in Threads, rd[t] = "last",
                      Undisturbed(t), Happened(t) < CounterLimit
               PROVE  diff(t) = Happened(t) - (IF cur[t].val < last[t].val THEN 1 ELSE 0)
    BY DEF UndisturbedDiff
  <2>1. Counted(cur[t]) /\ (last[t] = Zero \/ Counted(last[t]))
    BY DEF SamplesCount
  <2>2. CASE last[t].at = None
    <3>1. last[t].val = 0
      BY <2>1, <2>2 DEF Counted, Zero
    <3>2. /\ Happened(t) = cur[t].at - cur[t].base /\ Happened(t) \in 0..(CounterLimit - 1)
          /\ cur[t].val = Happened(t) % CounterLimit
      BY <2>1, <2>2 DEF Happened, Counted
    <3>3. cur[t].val = Happened(t)
      BY <3>2, ModSmall
    <3> QED
      BY <3>1, <3>2, <3>3 DEF diff
  <2>3. CASE last[t].at # None
    <3>1. Counted(last[t]) /\ last[t].base = cur[t].base /\ last[t].at <= cur[t].at
      BY <2>1, <2>3 DEF Zero, Undisturbed
    <3>2. Happened(t) = cur[t].at - last[t].at
      BY <2>3 DEF Happened
    <3>3. CounterLimit - 1 - last[t].val = RDPMC_MAX_VALUE - last[t].val
      BY DEF RDPMC_MAX_VALUE
    <3> DEFINE a == last[t].at - last[t].base
               h == cur[t].at - last[t].at
    <3>4. /\ cur[t].at \in Nat /\ last[t].at \in Nat /\ last[t].base \in Nat
          /\ last[t].base <= last[t].at /\ last[t].base = cur[t].base
          /\ last[t].at <= cur[t].at /\ cur[t].at - last[t].at < CounterLimit
      BY <2>1, <3>1, <3>2 DEF Counted
    <3>5. a \in Nat /\ h \in 0..(CounterLimit - 1) /\ cur[t].at - cur[t].base = a + h
      BY <3>4, SMTT(30)
    <3>6. cur[t].val = (a + h) % CounterLimit /\ last[t].val = a % CounterLimit
      BY <2>1, <3>1, <3>5 DEF Counted
    <3> HIDE DEF a, h
    <3>7. LET x == (a + h) % CounterLimit  y == a % CounterLimit IN
          (IF x < y THEN x + (CounterLimit - 1 - y) ELSE x - y) = h - (IF x < y THEN 1 ELSE 0)
      BY <3>5, CountedDiff
    <3>8. (IF cur[t].val < last[t].val THEN cur[t].val + (CounterLimit - 1 - last[t].val)
           ELSE cur[t].val - last[t].val) = h - (IF cur[t].val < last[t].val THEN 1 ELSE 0)
      BY <3>6, <3>7
    <3> QED
      BY <3>2, <3>3, <3>8 DEF diff, h
  <2> QED
    BY <2>2, <2>3
<1> QED
  BY <1>1, CountingHolds, PTL

=============================================================================
