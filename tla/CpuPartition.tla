----------------------------- MODULE CpuPartition -----------------------------
(***************************************************************************)
(* quartz/src/lib/topology.c, thread.c: the emulated processes of a host   *)
(* divide its CPUs by rank, each on its own copy of the nodes' CPU masks,  *)
(* and bind their threads round robin.  One process per rank; how a rank   *)
(* is obtained is ProcessRank.                                             *)
(***************************************************************************)
EXTENDS Integers, Sequences, FiniteSetsExt

CONSTANTS
    Machines,       \* records of nodes, the CPUs of each of topology.physical_nodes
                    \* in order; online, the CPUs of the host; and hyperthreading
    ProcessLimits,  \* values of EMUL_LOCAL_PROCESSES
    MaxThreads      \* bound: threads a process registers

ASSUME PartitionAssumption ==
    /\ \A m \in Machines :
         /\ m.hyperthreading \in BOOLEAN /\ m.online \in Nat
         /\ m.nodes \in Seq(SUBSET Nat) /\ m.nodes # <<>>
         /\ \A n \in DOMAIN m.nodes : m.nodes[n] # {} /\ IsFiniteSet(m.nodes[n])
    /\ ProcessLimits \subseteq Nat
    /\ MaxThreads \in Nat

VARIABLES
    machine,
    n_procs,        \* latency_model.max_local_processe_ranks
    pc,             \* "init", "registering" or, after a failed bind, "dead"
    cpu_bitmask,    \* of the nodes, per process
    next,           \* next_virtual_node_id and next_cpu_id, per process
    bound           \* the CPUs a process bound its threads to, oldest first

vars == <<machine, n_procs, pc, cpu_bitmask, next, bound>>

\* The ranks set_process_local_rank gives out.
Ranks == IF n_procs < 2 THEN {0} ELSE 0..(n_procs - 2)

-----------------------------------------------------------------------------
(* init_virtual_topology: every physical node is a virtual node *)

\* Without hyperthreading the bits of the upper half of the processors are
\* cleared, counted from the node's first CPU.
NodeMask(m, n) ==
    LET cpus  == m.nodes[n]
        upper == Min(cpus) + m.online \div 2
    IN  IF m.hyperthreading THEN cpus
        ELSE {c \in cpus : c < upper \/ c >= upper + Cardinality(cpus) \div 2}

NodeCpus(m, n) ==
    IF m.hyperthreading THEN Cardinality(m.nodes[n]) ELSE Cardinality(m.nodes[n]) \div 2

NumCpus ==
    LET sum[n \in 0..Len(machine.nodes)] ==
            IF n = 0 THEN 0 ELSE sum[n - 1] + NodeCpus(machine, n)
    IN  sum[Len(machine.nodes)]

\* The first CPU from cpu on whose bit is set, or -1.
next_cpu(mask, cpu) ==
    LET rest == {c \in mask : c >= cpu} IN IF rest = {} THEN -1 ELSE Min(rest)

-----------------------------------------------------------------------------
(* Round robin *)

\* Mutant: the search starts again from CPU 0 of the node.
rr_next_cpu_id_Restarts(masks, at) ==
    LET other == (at.node % Len(masks)) + 1
        cpu   == next_cpu(masks[at.node] \ {at.cpu}, 0)
    IN  IF cpu >= 0 THEN [at EXCEPT !.cpu = cpu]
        ELSE [node |-> other, cpu |-> next_cpu(masks[other], 0)]

\* Mutant: next_virtual_node_id is not set.
rr_next_cpu_id_KeepsNode(masks, at) ==
    LET other == (at.node % Len(masks)) + 1
        cpu   == next_cpu(masks[at.node], at.cpu + 1)
    IN  [at EXCEPT !.cpu = IF cpu >= 0 THEN cpu ELSE next_cpu(masks[other], 0)]

\* Mutant: the masks are those from before the partition.
rr_next_cpu_id_OldMasks(masks, at) ==
    LET other == (at.node % Len(masks)) + 1
        cpu   == next_cpu(machine.nodes[at.node], at.cpu + 1)
    IN  IF cpu >= 0 THEN [at EXCEPT !.cpu = cpu]
        ELSE [node |-> other, cpu |-> next_cpu(machine.nodes[other], 0)]

\* Where next_virtual_node_id and next_cpu_id move on to.
rr_next_cpu_id(masks, at) ==
    LET other == (at.node % Len(masks)) + 1
        cpu   == next_cpu(masks[at.node], at.cpu + 1)
    IN  IF cpu >= 0 THEN [at EXCEPT !.cpu = cpu]
        ELSE [node |-> other, cpu |-> next_cpu(masks[other], 0)]

\* partition_cpus_based_on_rank and rr_set_next_cpu_based_on_rank both start
\* at CPU 0, whichever node that CPU is on.
Start == [node |-> 1, cpu |-> 0]

\* Mutant: the share of a rank has one CPU too many.
InShare_TooLong(rank, i) ==
    LET part_size == NumCpus \div n_procs
    IN  i >= rank * part_size /\ i <= rank * part_size + part_size

InShare(rank, i) ==
    LET part_size == NumCpus \div n_procs
    IN  i >= rank * part_size /\ i <= rank * part_size + part_size - 1

\* The loop of partition_cpus_based_on_rank over all CPUs: the position moves on
\* before the bit of the CPU it leaves is cleared.
Partition(rank) ==
    LET loop[i \in 0..NumCpus] ==
            IF i = 0
            THEN [masks |-> [n \in DOMAIN machine.nodes |-> NodeMask(machine, n)],
                  at |-> Start]
            ELSE LET s == loop[i - 1]
                 IN  [masks |-> IF InShare(rank, i - 1) THEN s.masks
                                ELSE [s.masks EXCEPT ![s.at.node] = @ \ {s.at.cpu}],
                      at |-> rr_next_cpu_id(s.masks, s.at)]
    IN  loop[NumCpus]

\* Mutant: every rank makes one step.
SetNextCpu_NoRank(rank) ==
    LET masks == [n \in DOMAIN machine.nodes |-> NodeMask(machine, n)]
    IN  [masks |-> masks, at |-> rr_next_cpu_id(masks, Start)]

\* rr_set_next_cpu_based_on_rank: rank + 1 steps, no bit is cleared.
SetNextCpu(rank) ==
    LET masks == [n \in DOMAIN machine.nodes |-> NodeMask(machine, n)]
        at[i \in 0..(rank + 1)] ==
            IF i = 0 THEN Start ELSE rr_next_cpu_id(masks, at[i - 1])
    IN  [masks |-> masks, at |-> at[rank + 1]]

\* init_thread_manager starts at the first CPU of the first node.
WholeMachine ==
    LET masks == [n \in DOMAIN machine.nodes |-> NodeMask(machine, n)]
    IN  [masks |-> masks, at |-> [node |-> 1, cpu |-> next_cpu(masks[1], 0)]]

Partitioned == n_procs > 1 /\ n_procs <= NumCpus \div 2

-----------------------------------------------------------------------------

Init ==
    /\ machine \in Machines
    /\ n_procs \in ProcessLimits
    /\ pc = [r \in Ranks |-> "init"]
    /\ cpu_bitmask = [r \in Ranks |-> <<>>]
    /\ next = [r \in Ranks |-> Start]
    /\ bound = [r \in Ranks |-> <<>>]

\* partition_cpus, before the first thread is registered.
partition_cpus(r) ==
    /\ pc[r] = "init"
    /\ LET result == IF n_procs <= 1 THEN WholeMachine
                     ELSE IF Partitioned THEN Partition(r) ELSE SetNextCpu(r)
       IN  /\ cpu_bitmask' = [cpu_bitmask EXCEPT ![r] = result.masks]
           /\ next' = [next EXCEPT ![r] = result.at]
    /\ pc' = [pc EXCEPT ![r] = "registering"]
    /\ UNCHANGED <<machine, n_procs, bound>>

\* register_thread takes the next CPU and moves on.
RegisterThread(r) ==
    /\ pc[r] = "registering" /\ Len(bound[r]) < MaxThreads
    /\ next[r].cpu >= 0
    /\ bound' = [bound EXCEPT ![r] = Append(@, next[r].cpu)]
    /\ next' = [next EXCEPT ![r] = rr_next_cpu_id(cpu_bitmask[r], @)]
    /\ UNCHANGED <<machine, n_procs, pc, cpu_bitmask>>

\* Setting bit -1 leaves the affinity mask empty, the kernel refuses it, and the
\* error ends the process.
FailToBind(r) ==
    /\ pc[r] = "registering" /\ Len(bound[r]) < MaxThreads
    /\ next[r].cpu < 0
    /\ pc' = [pc EXCEPT ![r] = "dead"]
    /\ UNCHANGED <<machine, n_procs, cpu_bitmask, next, bound>>

Next == \E r \in Ranks : partition_cpus(r) \/ RegisterThread(r) \/ FailToBind(r)

Spec == Init /\ [][Next]_vars

-----------------------------------------------------------------------------
(* Properties *)

\* A machine whose CPUs the walk reaches: it starts at CPU 0, which is on the
\* first node; no CPU is on two nodes; and clearing the upper half of the
\* processors leaves a node as many bits as it is said to have CPUs.
Numbered ==
    \A m \in Machines :
        /\ 0 \in NodeMask(m, 1)
        /\ \A n \in DOMAIN m.nodes :
             NodeMask(m, n) # {} /\ Cardinality(NodeMask(m, n)) = NodeCpus(m, n)
        /\ \A n, o \in DOMAIN m.nodes : n # o => m.nodes[n] \cap m.nodes[o] = {}

Share(r) == UNION {cpu_bitmask[r][n] : n \in DOMAIN machine.nodes}
Ready == {r \in Ranks : pc[r] # "init"}

\* The next CPU, if there is one, is on the next node.
TypeOK ==
    /\ machine \in Machines /\ n_procs \in ProcessLimits
    /\ pc \in [Ranks -> {"init", "registering", "dead"}]
    /\ \A r \in Ranks :
         /\ next[r].node \in DOMAIN machine.nodes
         /\ next[r].cpu \in machine.nodes[next[r].node] \cup {-1}
    /\ \A r \in Ready : \A n \in DOMAIN machine.nodes :
         cpu_bitmask[r][n] \subseteq machine.nodes[n]

\* On Numbered machines processes of different ranks never have a CPU in common
\* and none gets more or less than its part, whatever the number of processes:
\* the position that walks over the CPUs, wraps from node to node and clears bits
\* behind it meets every CPU once.  On other machines it is false: where CPU 0 is
\* not on the first node the shares move by one and all keep the last CPU.
SharesDisjoint ==
    Partitioned =>
        /\ \A r, q \in Ready : r # q => Share(r) \cap Share(q) = {}
        /\ \A r \in Ready : Cardinality(Share(r)) = NumCpus \div n_procs

Load(r, c) == Cardinality({i \in DOMAIN bound[r] : bound[r][i] = c})

\* Threads never run on a CPU of another process, although the position of the
\* round robin was taken before the last bit was cleared, and their round over
\* the nodes and masks of the share gives no CPU two threads more than another.
RoundRobinBalances ==
    \A r \in Ready :
        /\ \A i \in DOMAIN bound[r] : bound[r][i] \in Share(r)
        /\ \A c, d \in Share(r) : Load(r, c) <= Load(r, d) + 1

\* More processes than half the CPUs share them all, and still start on
\* different ones: their first threads are bound apart.
FirstThreadsApart ==
    n_procs <= NumCpus =>
        \A r, q \in Ready : bound[r] # <<>> /\ bound[q] # <<>> /\ r # q
            => bound[r][1] # bound[q][1]
=============================================================================
