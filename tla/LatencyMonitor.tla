---------------------------- MODULE LatencyMonitor ----------------------------
(***************************************************************************)
(* tools/memlat.cpp: the kernel samples the latency of loads into a ring   *)
(* buffer for each CPU of node 0; memlat empties the buffers, averages the *)
(* latencies of local and of remote memory over an interval, smooths the   *)
(* averages, and tells the colloid kernel module which is higher.          *)
(***************************************************************************)
EXTENDS Integers, Sequences, FiniteSetsExt

CONSTANTS
    Cpus,           \* cpus of node 0, in order (a sequence)
    Capacity,       \* records a ring buffer holds (1024 pages in the code)
    MIN_LOCAL_LAT, MIN_REMOTE_LAT, EWMA_EXP,
    Mixes,          \* the latencies the workload sees: [local, remote]
    Kinds,          \* of records the kernel writes
    Word,           \* what a throttle record has where a sample has its weight
    None,
    MaxCharges      \* bound: charges in an interval

ASSUME MonitorAssumption ==
    /\ Cpus \in Seq(STRING) /\ Cpus # <<>> /\ Capacity \in Nat \ {0}
    /\ MIN_LOCAL_LAT \in Nat /\ MIN_REMOTE_LAT \in Nat
    /\ EWMA_EXP \in Nat /\ 2 ^ EWMA_EXP \in Nat \ {0}   \* (the provers do not know ^)
    /\ MIN_LOCAL_LAT < MIN_REMOTE_LAT
    /\ Mixes \subseteq [local : Nat, remote : Nat] /\ IsFiniteSet(Mixes)
    /\ Kinds \subseteq {"local", "remote", "hit", "nopage", "throttle"}
    /\ Word \in Nat
    /\ None \notin {Cpus[i] : i \in 1..Len(Cpus)}
    /\ MaxCharges \in Nat

VARIABLES
    mix,            \* the workload's latencies now (environment)
    ring,           \* records not yet read, for each CPU
    due,            \* agg_interval has passed since start_time
    local_gt_remote,\* the flag of the kernel module
    pc, k,          \* where memlat is, and at which buffer
    pfn, ps,        \* its locals: the page's side, the sample in the buffer
    local_lat_sum, local_lat_count, remote_lat_sum, remote_lat_count,
    smoothed_local_lat, smoothed_remote_lat,
    missed,         \* samples of misses taken in this interval (for the properties)
    disturbed       \* in it, a record was no sample or was overwritten too early

sums == <<local_lat_sum, local_lat_count, remote_lat_sum, remote_lat_count>>
smoothed == <<smoothed_local_lat, smoothed_remote_lat>>
ghosts == <<missed, disturbed>>
environment == <<mix, ring, due, local_gt_remote>>
vars == <<environment, pc, k, pfn, ps, sums, smoothed, ghosts>>

Misses == {"local", "remote"}
Rings == {Cpus[i] : i \in 1..Len(Cpus)}
Zero == /\ local_lat_sum' = 0 /\ local_lat_count' = 0
        /\ remote_lat_sum' = 0 /\ remote_lat_count' = 0
        /\ missed' = [side \in Misses |-> 0] /\ disturbed' = FALSE

\* ps before a record was read: not initialized.
Garbage == [cpu |-> None, rec |-> [kind |-> "hit", lat |-> 0], left |-> 0]

Init ==
    /\ mix \in Mixes /\ ring = [c \in Rings |-> <<>>] /\ due = FALSE
    /\ local_gt_remote \in BOOLEAN  \* as an earlier run left it
    /\ pc = "off" /\ k = 1 /\ pfn = None /\ ps = Garbage
    /\ local_lat_sum = 0 /\ local_lat_count = 0
    /\ remote_lat_sum = 0 /\ remote_lat_count = 0
    /\ smoothed_local_lat = MIN_LOCAL_LAT /\ smoothed_remote_lat = MIN_REMOTE_LAT
    /\ missed = [side \in Misses |-> 0] /\ disturbed = FALSE

-----------------------------------------------------------------------------
(* The kernel *)

Alive == pc \notin {"off", "open", "map"}

\* A CPU whose buffer is mapped is sampled, the other ones not being ready yet.
Mapped(c) ==
    \/ Alive
    \/ pc = "map" /\ \E i \in 1..(k - 1) : c = Cpus[i]

Record(kind) ==
    [kind |-> kind, lat |-> CASE kind = "remote" -> mix.remote
                              [] kind = "throttle" -> Word
                              [] OTHER -> mix.local]

Reading == pc \in {"level", "weight"}

\* A record is written unless the buffer is full.  left counts the records that
\* fit before the one ps points to, which memlat has released, is overwritten.
Sample(c, kind) ==
    /\ Mapped(c) /\ Len(ring[c]) < Capacity
    /\ ring' = [ring EXCEPT ![c] = Append(@, Record(kind))]
    /\ IF ps.cpu = c /\ ps.left = 0
         THEN /\ ps' = [cpu |-> c, rec |-> Record(kind), left |-> Capacity - 1]
              /\ disturbed' = (disturbed \/ Reading)
         ELSE /\ ps' = IF ps.cpu = c THEN [ps EXCEPT !.left = @ - 1] ELSE ps
              /\ UNCHANGED disturbed
    /\ UNCHANGED <<mix, due, local_gt_remote, pc, k, pfn, sums, smoothed, missed>>

Shift ==
    /\ mix' \in Mixes \ {mix}
    /\ UNCHANGED <<ring, due, local_gt_remote, pc, k, pfn, ps, sums, smoothed, ghosts>>

Elapse ==
    /\ Alive /\ ~due /\ due' = TRUE
    /\ UNCHANGED <<mix, ring, local_gt_remote, pc, k, pfn, ps, sums, smoothed, ghosts>>

-----------------------------------------------------------------------------
(* memlat *)

Start ==
    /\ pc = "off" /\ pc' = "open"
    /\ UNCHANGED <<environment, k, pfn, ps, sums, smoothed, ghosts>>

ForEachCpu(loc) ==
    IF k = Len(Cpus) THEN pc' = loc /\ k' = 1 ELSE k' = k + 1 /\ UNCHANGED pc

\* perf_sample_open: the event counts at once, but its samples have no buffer.
Open ==
    /\ pc = "open" /\ ForEachCpu("map")
    /\ UNCHANGED <<environment, pfn, ps, sums, smoothed, ghosts>>

\* The interval begins when the last buffer is mapped.
Map ==
    /\ pc = "map" /\ ForEachCpu("top")
    /\ UNCHANGED <<environment, pfn, ps, sums, smoothed, ghosts>>

\* An event or a buffer cannot be opened; kill -9 by the script; a use of the
\* uninitialized ps.  The flag stays as it is.
Gone ==
    /\ pc # "off" /\ pc' = "off" /\ k' = 1 /\ pfn' = None /\ ps' = Garbage
    /\ ring' = [c \in Rings |-> <<>>] /\ due' = FALSE
    /\ Zero
    /\ smoothed_local_lat' = MIN_LOCAL_LAT /\ smoothed_remote_lat' = MIN_REMOTE_LAT
    /\ UNCHANGED <<mix, local_gt_remote>>

\* Mutant: the average is not brought to the minimum.
Latency_NoMinimum(sum, count, min) == IF count > 0 THEN sum \div count ELSE 0

Latency(sum, count, min) ==
    Max({min, IF count > 0 THEN sum \div count ELSE 0})

\* Mutant: the quotient is rounded up.
Smooth_RoundsUp(lat, old) ==
    (lat + (2 ^ EWMA_EXP - 1) * old + 2 ^ EWMA_EXP - 1) \div 2 ^ EWMA_EXP

Smooth(lat, old) == (lat + (2 ^ EWMA_EXP - 1) * old) \div 2 ^ EWMA_EXP

\* Mutant: the difference must exceed the smallest remote latency.
LocalIsSlower_Margin(l, r) == l > r + MIN_REMOTE_LAT

LocalIsSlower(l, r) == l > r

Aggregate ==
    /\ pc = "top" /\ due
    /\ smoothed_local_lat' =
         Smooth(Latency(local_lat_sum, local_lat_count, MIN_LOCAL_LAT), smoothed_local_lat)
    /\ smoothed_remote_lat' =
         Smooth(Latency(remote_lat_sum, remote_lat_count, MIN_REMOTE_LAT), smoothed_remote_lat)
    /\ local_gt_remote' = LocalIsSlower(smoothed_local_lat', smoothed_remote_lat')
    /\ Zero
    /\ due' = FALSE /\ pc' = "scan"
    /\ UNCHANGED <<mix, ring, k, pfn, ps>>

\* The interval is not over yet.
Turn ==
    /\ pc = "top" /\ ~due
    /\ local_lat_count + remote_lat_count < MaxCharges
    /\ missed["local"] + missed["remote"] < MaxCharges
    /\ pc' = "scan"
    /\ UNCHANGED <<environment, k, pfn, ps, sums, smoothed, ghosts>>

NextRing ==
    IF k = Len(Cpus) THEN pc' = "top" /\ k' = 1 ELSE pc' = "scan" /\ k' = k + 1

Empty ==
    /\ pc = "scan" /\ ring[Cpus[k]] = <<>>
    /\ NextRing
    /\ UNCHANGED <<environment, pfn, ps, sums, smoothed, ghosts>>

\* The buffer's oldest record is released before it is used.  A record that is
\* no sample leaves pfn and ps as they were, in this turn or an earlier one; the
\* very first finds them uninitialized: pfn may be 0, or ps is wild (Gone).
Take ==
    /\ pc = "scan" /\ ring[Cpus[k]] # <<>>
    /\ LET c == Cpus[k]
           rec == Head(ring[c])
           sample == rec.kind # "throttle"
       IN /\ ring' = [ring EXCEPT ![c] = Tail(@)]
          /\ pfn' \in CASE rec.kind = "throttle" -> {pfn}
                        [] rec.kind = "nopage" -> {"zero"}
                        [] rec.kind = "hit" -> Misses
                        [] OTHER -> {rec.kind}
          /\ ps' = IF sample THEN [cpu |-> c, rec |-> rec,
                                   left |-> Capacity - Len(ring[c])]
                   ELSE ps
          /\ missed' = IF rec.kind \in Misses THEN [missed EXCEPT ![rec.kind] = @ + 1]
                       ELSE missed
          /\ disturbed' = (disturbed \/ ~sample)
          /\ IF pfn' \in Misses THEN pc' = "level" /\ UNCHANGED k ELSE NextRing
    /\ UNCHANGED <<mix, due, local_gt_remote, sums, smoothed>>

\* Mutant: any load counts.
L3Missed_Any(rec) == {TRUE}

\* A throttle record has arbitrary bits where a sample has its level.
L3Missed(rec) == IF rec.kind = "throttle" THEN BOOLEAN ELSE {rec.kind # "hit"}

Level ==
    /\ pc = "level"
    /\ \E miss \in L3Missed(ps.rec) :
         IF miss THEN pc' = "weight" /\ UNCHANGED k ELSE NextRing
    /\ UNCHANGED <<environment, pfn, ps, sums, smoothed, ghosts>>

Weight ==
    /\ pc = "weight"
    /\ IF pfn = "local"
         THEN /\ local_lat_sum' = local_lat_sum + ps.rec.lat
              /\ local_lat_count' = local_lat_count + 1
              /\ UNCHANGED <<remote_lat_sum, remote_lat_count>>
         ELSE /\ remote_lat_sum' = remote_lat_sum + ps.rec.lat
              /\ remote_lat_count' = remote_lat_count + 1
              /\ UNCHANGED <<local_lat_sum, local_lat_count>>
    /\ NextRing
    /\ UNCHANGED <<environment, pfn, ps, smoothed, ghosts>>

memlat == Open \/ Map \/ Aggregate \/ Turn \/ Empty \/ Take \/ Level \/ Weight

Next ==
    \/ \E c \in Rings, kind \in Kinds : Sample(c, kind)
    \/ Shift \/ Elapse
    \/ Start \/ Gone
    \/ memlat

\* memlat runs, and time passes.
Fairness == WF_vars(memlat) /\ WF_vars(Elapse)

Spec == Init /\ [][Next]_vars /\ Fairness

-----------------------------------------------------------------------------
(* Properties *)

Lats(min) == {min, Word} \cup {m.local : m \in Mixes} \cup {m.remote : m \in Mixes}

Records == [kind : Kinds \cup {"hit"}, lat : Nat]

\* The smoothed latencies stay between the minimum and the highest latency that
\* was ever sampled: what the kernel module is told is never an artefact of a
\* sum and a count that belong to different samples.
TypeOK ==
    /\ mix \in Mixes /\ due \in BOOLEAN /\ local_gt_remote \in BOOLEAN
    /\ ring \in [Rings -> Seq(Records)] /\ \A c \in Rings : Len(ring[c]) <= Capacity
    /\ pc \in {"off", "open", "map", "top", "scan", "level", "weight"} /\ k \in 1..Len(Cpus)
    /\ pfn \in {None, "zero"} \cup Misses
    /\ ps \in [cpu : Rings \cup {None}, rec : Records, left : 0..Capacity]
    /\ local_lat_sum \in Nat /\ local_lat_count \in Nat
    /\ remote_lat_sum \in Nat /\ remote_lat_count \in Nat
    /\ smoothed_local_lat \in MIN_LOCAL_LAT..Max(Lats(MIN_LOCAL_LAT))
    /\ smoothed_remote_lat \in MIN_REMOTE_LAT..Max(Lats(MIN_REMOTE_LAT))
    /\ missed \in [Misses -> Nat] /\ disturbed \in BOOLEAN

\* In an interval without throttle records and without overwritten buffers,
\* each sample of a miss is counted once, on the side of its page.
CountedOnce ==
    ~disturbed /\ ~Reading =>
        local_lat_count = missed["local"] /\ remote_lat_count = missed["remote"]

\* From now on memlat is not killed and reads samples only.
Undisturbed ==
    /\ <>[]Alive
    /\ <>[](\A c \in Rings : \A i \in 1..Len(ring[c]) : ring[c][i].kind # "throttle")
    /\ <>[][Reading /\ pc' = pc => UNCHANGED ps]_vars

Brought(lat, min) == Max({lat, min})

\* When latencies settle, and differ by more than the smoothing loses by
\* rounding down, the flag of the kernel module is right in the end, if there
\* are samples of both sides in every interval.
SteadyLatencyIsPublished ==
    \A m \in Mixes :
        LET l == Brought(m.local, MIN_LOCAL_LAT)
            r == Brought(m.remote, MIN_REMOTE_LAT)
        IN /\ l >= r + 2 ^ EWMA_EXP \/ r >= l + 2 ^ EWMA_EXP
           /\ Undisturbed
           /\ <>[](mix = m)
           /\ <>[][Aggregate => local_lat_count > 0 /\ remote_lat_count > 0]_vars
           => <>[](local_gt_remote = (l > r))

\* When no local memory is accessed any more, the flag goes down: an interval
\* without samples counts as one of the lowest latency.
IdleLowersTheFlag ==
    <>[]Alive /\ <>[][Aggregate => local_lat_count = 0]_vars => <>[]~local_gt_remote
=============================================================================
