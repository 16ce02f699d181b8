---------------------------- MODULE MCCpuPartition ----------------------------
(* Machines of one and two nodes.  CPU 0 is on the first node, and without   *)
(* hyperthreading the second threads of the cores have the upper numbers.    *)
EXTENDS CpuPartition
Machine(n, cpus, ht) == [nodes |-> n, online |-> cpus, hyperthreading |-> ht]
MCMachines ==
    {Machine(<<0..5>>, 6, TRUE), Machine(<<0..3, 4..7>>, 8, TRUE),
     Machine(<<{0, 1, 4, 5}, {2, 3, 6, 7}>>, 8, TRUE),
     Machine(<<{0, 2, 4, 6}, {1, 3, 5, 7}>>, 8, TRUE),
     Machine(<<{0, 1, 2, 3, 8, 9, 10, 11}>>, 16, FALSE),
     Machine(<<{0, 1, 2, 6, 7, 8}, {3, 4, 5, 9, 10, 11}>>, 12, FALSE)}
MCProcessLimits == {0, 2, 3, 4, 5}
\* The theorems of CpuPartitionProofs are about such machines.
ASSUME MCMachinesNumbered == Numbered
=============================================================================
