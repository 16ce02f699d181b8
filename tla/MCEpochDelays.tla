---------------------------- MODULE MCEpochDelays ----------------------------
(* Two processes on three CPUs; the threads of the first one share a CPU. *)
EXTENDS EpochDelays, TLC
CONSTANTS p1, p2, t1, t2, c1, c2, c3, stalls, misses
MCProcesses == {p1, p2}
MCThreads == {t1, t2}
MCCpus == {c1, c2, c3}
MCProcessOf == [t \in MCThreads |-> p1]
MCCpuOf == [t \in MCThreads |-> c1]
MCProcessOf1 == [t \in {t1} |-> p1]
MCCpuOf1 == [t \in {t1} |-> c1]
MCWanted == <<stalls, misses, stalls>>
MCLatency == [c \in MCCpus |-> 1]
\* The two threads are alike, and so are the two CPUs without threads.
MCSymmetry == Permutations(MCThreads) \cup Permutations({c2, c3})
MCMicroarchs == {"ivybridge"}

\* On every microarchitecture the stalls that are charged are a share of the
\* stalls that were counted, and the whole of them when nothing hit the cache.
ASSUME StallsAreAShare ==
    \A m \in {"sandybridge", "ivybridge", "haswell"}, l2 \in 0..6, hit \in 0..4,
      remote \in 0..2, local \in 0..2 :
        LET stall == stall_cycles(m, l2, hit, remote, local) IN
        /\ stall \in 0..l2
        /\ hit = 0 /\ remote + local > 0 => stall = l2
=============================================================================
