----------------------------- MODULE EpochDelays -----------------------------
(***************************************************************************)
(* The cycles of an epoch: create_latency_epoch of                         *)
(* src/quartz/src/lib/model_lat.c reads the stalls of the thread's CPU,    *)
(* turns them into the delay that memory of the target latency would have  *)
(* caused, pays the emulator's own overhead out of it and injects the      *)
(* rest.  When an epoch is created is the subject of EpochThreads.         *)
(***************************************************************************)
EXTENDS HardwareCounters

CONSTANTS
    Microarchs,     \* of "sandybridge", "ivybridge", "haswell"
    Latency,        \* the measured latency of each CPU's node
    Targets,        \* the read and write latencies to emulate
    Hits, Misses,   \* bounds: LLC hits, and misses per node, of an epoch
    Costs,          \* bound: cycles an epoch costs
    MaxEpochs       \* bound: epochs of all threads together

ASSUME DelaysAssumption ==
    /\ Microarchs \subseteq {"sandybridge", "ivybridge", "haswell"}
    /\ Latency \in [Cpus -> Nat \ {0}] /\ Targets \subseteq Nat
    /\ Hits \subseteq Nat /\ Misses \subseteq Nat /\ Costs \subseteq Nat
    /\ MaxEpochs \in Nat

VARIABLES
    microarch,
    target,         \* latency_model.read_latency
    write_target,   \* latency_model.write_latency
    tls_overhead,   \* cycles of overhead not paid for yet
    epochs,         \* the epochs created so far
    owed,           \* delay cycles the stalls called for and no epoch injected
    spent           \* cycles the epochs of a thread cost

delays == <<microarch, target, write_target, tls_overhead, epochs, owed, spent>>
allvars == <<vars, delays>>

EInit ==
    /\ Init
    /\ microarch \in Microarchs /\ target \in Targets /\ write_target \in Targets
    /\ tls_overhead = [t \in Threads |-> 0]
    /\ epochs = 0
    /\ owed = [t \in Threads |-> 0]
    /\ spent = [t \in Threads |-> 0]

-----------------------------------------------------------------------------
(* From counters to delay *)

L3_FACTOR == 7

sandybridge_stall_cycles(l2_pending, llc_hit, llc_miss) ==
    LET num == L3_FACTOR * llc_miss  den == num + llc_hit IN
    IF den = 0 THEN 0 ELSE (l2_pending * num) \div den

ivybridge_stall_cycles(l2_pending, llc_hit, remote_dram, local_dram) ==
    LET num == L3_FACTOR * (remote_dram + local_dram) IN
    IF remote_dram = 0 /\ local_dram = 0 THEN 0
    ELSE (l2_pending * num) \div (num + llc_hit)

haswell_stall_cycles(l2_pending, llc_hit, remote_dram, local_dram) ==
    ivybridge_stall_cycles(l2_pending, llc_hit, remote_dram, local_dram)

\* The dram and the nvram node of a virtual node are the same
\* (topology.c:494), so the event for remote memory is never read.
stall_cycles(m, l2_pending, llc_hit, remote_dram, local_dram) ==
    CASE m = "sandybridge" ->
           sandybridge_stall_cycles(l2_pending, llc_hit, remote_dram + local_dram)
      [] m = "ivybridge" ->
           ivybridge_stall_cycles(l2_pending, llc_hit, remote_dram, local_dram)
      [] m = "haswell" ->
           haswell_stall_cycles(l2_pending, llc_hit, remote_dram, local_dram)

delay_cycles(t, stalls) ==
    (stalls * (target - Latency[CpuOf[t]])) \div Latency[CpuOf[t]]

-----------------------------------------------------------------------------
\* init_latency_model refuses targets the hardware does not stay below.  That is
\* all the write latency is used for.
check_target_latency_against_hw_latency ==
    \A c \in Cpus : Latency[c] < target /\ Latency[c] < write_target

\* A new process, and its threads with it.
InitLatencyModel(p) ==
    /\ Start(p)
    /\ check_target_latency_against_hw_latency
    /\ tls_overhead' = [t \in Threads |-> IF ProcessOf[t] = p THEN 0 ELSE tls_overhead[t]]
    /\ owed' = [t \in Threads |-> IF ProcessOf[t] = p THEN 0 ELSE owed[t]]
    /\ spent' = [t \in Threads |-> IF ProcessOf[t] = p THEN 0 ELSE spent[t]]
    /\ UNCHANGED <<microarch, target, write_target, epochs>>

\* tls_overhead after an epoch.
Remaining(delay, overhead) == IF delay > overhead THEN 0 ELSE overhead - delay

\* Mutant: the difference of unsigned numbers (here of 10 bits) is not guarded.
Injected_Underflows(delay, overhead) == (delay - overhead) % 2^10

\* The delay of an epoch once the overhead is deducted from it.  Without
\* latency.inject_delay the busy wait for it is skipped, which changes no variable.
Injected(delay, overhead) == IF delay > overhead THEN delay - overhead ELSE 0

Amortise(t, delay, cost) ==
    LET overhead == tls_overhead[t] + cost IN
    /\ owed' = [owed EXCEPT ![t] = @ + delay - Injected(delay, overhead)]
    /\ tls_overhead' = [tls_overhead EXCEPT ![t] = Remaining(delay, overhead)]
    /\ spent' = [spent EXCEPT ![t] = @ + cost]

\* The end of the reading and the rest of create_latency_epoch.
CloseEpoch(t) ==
    /\ StoreLast(t)
    /\ epochs < MaxEpochs /\ epochs' = epochs + 1
    /\ \E hit \in Hits, remote \in Misses, local \in Misses, cost \in Costs :
         Amortise(t, delay_cycles(t, stall_cycles(microarch, diff(t), hit, remote, local)), cost)
    /\ UNCHANGED <<microarch, target, write_target>>

Read(t) == (ReadCounter(t) \/ LoadLast(t)) /\ UNCHANGED delays

ENext ==
    \/ Hardware /\ UNCHANGED delays
    \/ \E p \in Processes : InitLatencyModel(p) \/ (Driver(p) /\ UNCHANGED delays)
    \/ \E t \in Threads : Read(t) \/ CloseEpoch(t)

ESpec == EInit /\ [][ENext]_allvars

-----------------------------------------------------------------------------
(* Properties *)

TypeOK ==
    /\ num_avail_hw_cntrs \in NumCounters
    /\ sel \in [Cpus -> [Ids -> HwEvents \cup {Off}]]
    /\ ctr \in [Cpus -> [Ids -> 0..(CounterLimit - 1)]]
    /\ happened \in [Cpus -> Nat] /\ base \in [Cpus -> [Ids -> Nat]]
    /\ pc \in [Processes -> {"off", "assign", "program", "running"}]
    /\ starts \in Nat /\ next \in [Processes -> Nat]
    /\ command \in [Processes -> {"disable", "clear", "set"}]
    /\ half \in [Processes -> {"here", "others"}]
    /\ cntr_id \in [Processes -> [HwEvents -> Ids \cup {None}]]
    /\ last_val \in [Processes -> [Cpus -> Samples]]
    /\ rd \in [Threads -> {"idle", "cur", "last"}]
    /\ cur \in [Threads -> Samples] /\ last \in [Threads -> Samples]
    /\ microarch \in {"sandybridge", "ivybridge", "haswell"} /\ target \in Nat
    /\ epochs \in Nat /\ tls_overhead \in [Threads -> Nat]
    /\ owed \in [Threads -> Int] /\ spent \in [Threads -> Nat]

\* A counter that a process reads counts its event or nothing, whoever else
\* programs the counters of the host in the meantime.
NoForeignEvents ==
    \A p \in Processes, c \in Cpus, e \in HwEvents :
        pc[p] = "running" /\ cntr_id[p][e] # None => sel[c][cntr_id[p][e]] \in {e, Off}

\* Once all calls of the driver have returned at most one CPU does not count:
\* the one a process left, or went to, between the two halves of the last call.
AtMostOneCpuMissed ==
    (\A p \in Processes : pc[p] # "program") =>
        \A p \in Processes, e \in HwEvents :
            pc[p] = "running" /\ cntr_id[p][e] # None =>
                Cardinality({c \in Cpus : sel[c][cntr_id[p][e]] # e}) <= 1

\* What really happened between the two values a thread subtracts.
Happened(t) ==
    cur[t].at - (IF last[t].at = None THEN cur[t].base ELSE last[t].at)

\* Nobody cleared or stopped the counter between the two values, and the
\* older one is the one that was read first.
Undisturbed(t) ==
    \/ last[t].at = None
    \/ last[t].base = cur[t].base /\ last[t].at <= cur[t].at

\* The difference is what happened, or one less across a wrap, unless another
\* process programmed the counter or another thread of the CPU read in between.
UndisturbedDiff ==
    \A t \in Threads :
        rd[t] = "last" /\ Undisturbed(t) /\ Happened(t) < CounterLimit =>
            diff(t) = Happened(t) - (IF cur[t].val < last[t].val THEN 1 ELSE 0)

\* The overhead of an epoch is deducted from its delay or carried on to later
\* epochs, once and whole: what a thread's epochs inject falls short of the
\* delays they computed by no more than they cost, and never exceeds them.
\* Whether a computed delay was called for is another question: two threads of
\* one CPU that load the same last_val are charged the same stalls.
OverheadIsAmortised == \A t \in Threads : owed[t] \in 0..spent[t]

\* "array to keep per processor last read values (useful to calculate the diff
\* since the last read)" (pmc.c:141): a thread is not charged for more stalls
\* than happened on its CPU since the value it subtracts was read.
NoMoreThanHappened ==
    \A t \in Threads :
        rd[t] = "last" /\ last[t].at # None /\ last[t].at <= cur[t].at =>
            diff(t) <= cur[t].at - last[t].at
=============================================================================
