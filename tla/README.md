# Specifications of cipp-workspace

TLA+ specifications, TLC models and TLAPS proofs for the programs of this
repository: the controllers that split new pages between a local and a remote
memory node (`tools/`), and quartz, the memory emulator their experiments can
run on (`quartz/`). Paths below are relative to `src/`.

## 1. The system

### Components

| component | state it keeps | operations | interacts through |
|---|---|---|---|
| `tools/cipp.cpp` | `bw_history` and `interleave_ratio` of main, four statics of `adjust_interleave_ratio` | sample, adjust, write two weights | perf counters (in), `/sys/kernel/mm/mempolicy/weighted_interleave/node{0,1}` (out) |
| `tools/cipp_total_bw.cpp` | the same | the same, another judgement | the same, counters of all sockets |
| `tools/memlat.cpp`, `perf.cpp` | a ring buffer per CPU, sums, smoothed latencies | open, map, consume records, aggregate | rings written by the kernel, the file `local_gt_remote` of colloid |
| `tools/bwmon.cpp`, `meminfo.cpp`, `fbmm_wrapper.c` | perf descriptors | poll, report | a pidfd |
| `runner/`, `*.sh`, `scripts/` | processes of an experiment | write weights, start workload and controller, kill the controller | shell, signals, files |
| quartz threads (`thread.c`, `interpose.c`) | list of thread records under a mutex, `tls_thread`, `signaled` flags | register, unregister, interrupt, two tests on the age of the last epoch | SIGUSR1 from the monitor to the threads; the interposed pthread functions |
| quartz latency epochs (`model_lat.c`, `cpu/*.h`) | timestamps of the last epoch, `tls_overhead` | `create_latency_epoch`: stalls to cycles, overhead, injection | called by the handler and by mutex operations; reads the counters |
| quartz process ranks (`process_rank.c`) | lock file and rank file in `/tmp` | `set_process_local_rank`, `unset_process_local_rank` | files shared by the emulated processes of a host |
| quartz CPU partition (`topology.c`, `thread.c`) | CPU masks of the nodes, next CPU | take the share of a rank, next CPU round robin | reads the rank, is read by registration |
| quartz counters (`cpu/pmc.c`, `dev/pmc.c`) | bitmap of hardware counters, last values per CPU; event and value of each counter of the host | allocate, program on every CPU, read a difference | ioctls of the kernel driver |
| quartz memory controllers and bandwidth model (`topology.c`, `model_bw.c`, `measure_bw.c`, `cpu/xeon-ex.h`) | throttle registers, topology file, model file | discover, train, load, save, find a point, set the throttle | registers and files shared by the processes of a host |
| quartz latency measurement (`measure_lat.c`) | the chains of one measurement | shuffle, link, chase | called once per node by the start |
| quartz start and end (`init.c`, `config.c`, `debug.c`, `stat.c`) | configuration, counters for the report | `init`, `finalize`, `stats_report` | calls everything above in order |

`libscail/` and `numactl/` are submodules without contents here; `results` and
`scripts/` are logs and their offline processing.

### What is hard in it

* cipp and cipp_total_bw are feedback loops with memory in static variables: a
  step is judged by the previous one, the arithmetic is in `int`, truncates and can
  leave its range. Two weights are written by two `system()` calls and the program
  is killed anywhere.
* A thread of quartz is interrupted by the monitor's signal anywhere outside an
  epoch: while it registers, while it decides to make an epoch, while it
  unregisters. The monitor remembers in `signaled` that it has asked; the flag is
  cleared at three places.
* Emulated processes coordinate by files. A process ends in the middle of the
  critical section when it logs an error (`DBG_LOG(ERROR)` calls `exit`, and the
  destructor is not registered yet while the constructor runs), when it finds an
  empty file (`abort`), or when it is killed.
* Performance counters and throttle registers belong to the host and are programmed
  by every process, counter by counter, CPU by CPU, channel by channel, without a lock;
  a process that ends or dies leaves them, or resets them under the others.
* The memory latency monitor reads records the kernel may overwrite, some of which are
  no samples, into variables that keep what an earlier record left.

### What makes each part correct

* controllers: the weights are those of a ratio (or of two neighbouring ones between
  the writes), except while the first adjustment of a process that was started by hand meets
  what another one left; unsaturated bandwidth leads to local memory; constant bandwidth leads
  to rest; the program parks at the better ratio.
* threads and epochs: epochs at least `min_epoch_duration_us` apart and coming for
  ever; an epoch runs on its own thread's record; a raised flag is answered.
* ranks: the lock excludes; the file counts every process; running processes have
  different ranks; the given number of processes is admitted; nobody waits for ever; all of
  it looks like joins and leaves that are one step each.
* CPU partition: processes of different ranks get disjoint CPUs, threads stay in the
  share and are balanced over its CPUs. The code achieves it on machines numbered as it expects
  (`Numbered`), not on all.
* counters: one event per counter on all CPUs; a difference is what happened.
* delays: the overhead of an epoch is deducted from its delay or carried on, once and whole.
  (That each stall is charged once does not hold: two threads of one CPU may load the same last value.)
* throttle: what an undisturbed process saves is true; the point the search says is closest is in
  the registers (it compares all but the first); the last process lifts the throttle.
* latency monitor: a sample counts once and on its side; the flag follows the latencies.
* latency measurement: a chain leads through every element once, whatever the shuffle does.

## 2. Modules

| module | models | correspondence |
|---|---|---|
| `InterleaveControl` | what the two controllers share | `Sample`, `IntervalEnds`: turns of main's loop; `UnsaturatedStep`, `ParkedStep`, `BoundStep`, `Baseline`, `ClampRatio`: branches of `adjust_interleave_ratio`; `TakeStep`: its assignments and first `system()`; `WriteNode1`: the second; `Restart`: kill and start by the scripts |
| `Cipp`, `CippTotalBw` | the two programs | `StepChoices`, `Accelerate`, `NextRatio`, `Adjust`; in `CippTotalBw` with the prefix `Total`, so that one module can extend both |
| `EpochThreads` | threads, handler, monitor and clock of quartz | one action per atomic part of a function; the critical sections of `register_thread` and `unregister_thread` are `Link` and `Unlink`; `create_latency_epoch` is `BlockNewEpoch`, `BeginEpoch`/`RefuseEpoch`/`LoseThread`, `Stamp`, `EndEpoch` |
| `ProcessRank` | `process_rank.c` over all processes of a host | `Acquire`, `Retry`, `GiveUp`, `Release` for both functions; `CheckRankFile`, `CreateRankFile`, `ReadRank`, `Refuse`, `Abort`, `ReadCount`, `WriteRankFile`: the steps between; `Crash`, and `CleanUp` as the README of quartz describes it |
| `CpuPartition` | the CPU masks of `init_virtual_topology`, the partition by rank and the round robin of `register_thread`, for one process of every rank | `NodeMask`, `next_cpu`, `rr_next_cpu_id`, `Partition`, `SetNextCpu`: the functions; `partition_cpus`, `RegisterThread`, `FailToBind`: what a process does |
| `RankService` | what `process_rank.c` promises: a count, and atomic `Join`, `Part`, `Leave`; `Lose` (a crash or a refusal) and `Reset` (the clean-up) | `ProcessRank!Service` instantiates it |
| `HardwareCounters` | `cpu/pmc.c` and the counters of `dev/pmc.c`, for several processes and their threads | `Assign`, `Reuse`, `Exhausted`: `enable_pmc_hw_event`; `Here`, `Others`: the two halves of each call of the driver; `ReadCounter`, `LoadLast`, `StoreLast`: `read_pmc_hw_event_diff`; `Happen`: the hardware |
| `EpochDelays` | the cycles of `create_latency_epoch`, on top of the counters | `InitLatencyModel`; `Read` and `CloseEpoch`; the stall formulas of the three CPU headers |
| `MemoryThrottle` | discovery of the memory controllers, bandwidth model, throttle, start and end of a process | one action per turn of a loop (`Probe`, `Compare`, `Attach`, `ResetBus`, `TrainSet`, `TrainMeasure`, `set_read_bw`, `Finalize`), per step on a file (`Load*`, `OpenTopology`, `SaveTopology`, `SaveModel`) and per call of `set_pci` |
| `LatencyMonitor` | `memlat.cpp` with the kernel's side of the ring buffers | `Open`, `Map`: the two loops of the setup; `Aggregate`/`Turn`: a turn of the main loop; `Empty`, `Take`, `Level`, `Weight`: what it does with a buffer; `Sample`: a record is written |
| `PointerChain` | `alloc_chain` and `__measure_latency` | `Shuffle`, `Link`, `Close`, `Chase`, `Ended`: turns and ends of the loops |
| `*Proofs` | theorems about the module they are named after; `ControllerProofs` about `Cipp` and `CippTotalBw` | |
| `MC*` | constants for TLC | |

Definitions whose names contain an underscore and start with "Mutant:" in their
comment are faulty versions of the definition that follows them. They are not part
of any specification; putting one in the place of its original makes a property
fail, which shows that the property depends on it.

### Choices of abstraction

*Controllers.* `get_bw` returns any member of `Bandwidths`. The list is halved, sorted
and indexed in the code; the model says which member that is (`IsPercentile`) without
sorting. `BwChange` is exact: the 64-bit quotient of `10000 * (last - cur) / last` is
stored in an `int` and wraps at most once below 400000 MB/s (`ControlAssumption`;
the cutoffs in the scripts are at most 250000). A product that overflows an `int`
afterwards has an undefined result and is any value (`IntRatios`), of which only the
ones with a different effect are enumerated. Printing is left out. `main`'s ratio is
updated with the first weight: nothing happens between that and its return except the
second write.

*Threads.* A thread is a stack of two frames, the application's and the handler's. A
signal is delivered when the thread may be interrupted; `pthread_sigmask` delivers a
waiting one before it returns, so `UnblockAndReturn` goes straight into the handler.
A pending signal is delivered before a thread leaves through the kernel. Time is kept
as the age of the last epoch of each record, up to `MaxEpoch`, because the code
compares only ages with two durations. Without statistics the timestamp of a new
record is 0, which is the distant past: its age starts at `MaxEpoch`. The monitor
walks the list in any order (`todo`), holding the mutex. The model stops a thread whose
handler dereferences NULL; the program dies.

*Ranks.* The lock file exists or not; the rank file is absent, `Empty` (created, and
not written before `fclose`) or a number. `access`, `fopen` with `fread`, and the write at
`fclose` are steps of their own, with the number in between in `count` (the code's `process_id`);
nothing but the lock keeps two processes from reading the same number. A process is a member of `Processes` that can
be started again. Values of `EMUL_LOCAL_PROCESSES` below 2 make both functions return at
once and are excluded by `RankAssumption`.

*CPUs.* A process works on its own copy of the masks and is known by its rank, so processes
interact only by the CPUs they take. The loop that partitions is a recursive function over
its turns, in which the position moves on before a bit is cleared, as in the code. Which
machine and how many processes there are is chosen in the initial state. Threads that end
do not give a CPU back in the code, so only registrations are counted.

*Counters.* All events are allocated and programmed; one, `Stalls`, is counted and read. The
width of a counter is `CounterLimit`, 2^40 in the hardware. Each of the three calls of
`pmc_ioctl_setcounter` acts on the CPU it runs on, then on all others; the process may be moved
in between. A value carries the history in which it was read (`at`, `base`), which only the
properties use. The delay and the overhead are integers as in the code; the stall formulas,
which compute in doubles, round down. The check of the
targets (`model_lat.c:85-107`) covers read and write latency; only the read latency enters a delay. The
calibration's `inject_delay` only skips the busy wait, which has no state. The debug counters of `MEMLAT_SUPPORT` are left out.

*Throttle.* A register is a number for each channel of a bus, read from the first channel and
written channel by channel. What a measurement returns is decided by the channel that is
throttled most. `alone`, `overlap` and `lost` remember which other processes interfered; they
occur in the properties only. Files are read in one step. The topology file is emptied
when it is opened and has its lines when it is closed (`OpenTopology`, `SaveTopology`): a load in between,
or after a kill there, finds a topology without buses and accepts it. The model file is written in at
most two parts (stdio's buffer). `MaxTraining` bounds how many processes train at once. `slope` is compared exactly, with the
`abs` of an `int` that the code calls.

*Latency monitor.* A sample is a record with a side and a latency; other kinds are a cache hit,
a sample without an address and a throttle record. `Take` moves the tail before the sample is
used: `left` counts the records that fit before the kernel overwrites it. An uninitialised
`pfn` or `ps` is any value the model can tell apart (`Gone` when it is a wild pointer). The kernel
samples no CPU before its buffer is mapped.

*Chains.* The random number is any index, so the model covers every seed. The cache is trashed
between the two loops without effect on the chains.

## 3. Runs

| run | question | bounds |
|---|---|---|
| `cipp` | weights consistent, unsaturated goes local, constant bandwidth settles | five bandwidths, `MaxListSize` 2 |
| `cipp_total_bw` | weights consistent, constant bandwidth parks; reversals damped, parks at the better ratio | the same |
| `cipp_parks` | cipp does not park at the better ratio (counterexample) | the same |
| `epochs` | minimum distance, answered flags, epochs for ever | one thread, two records, durations 2 and 3, statistics on |
| `epoch_null` | an epoch on a NULL thread (counterexample) | the same, statistics off |
| `ranks` | exclusion; counting and compact ranks with test, read and write as separate steps; starting ends; atomic joins and leaves | three processes, limit 3, two retries |
| `cpus` | disjoint shares, balance, first threads apart | six machines, all `Numbered`, 0 to 5 processes, four threads each |
| `counters` | allocation, no foreign events, at most one CPU missed, differences, overhead | two processes, three CPUs, two threads on one CPU, counters of 1 bit, two stalls, two starts, two epochs |
| `counter_reset` | a cleared counter is taken for a wrap (counterexample) | the same, one thread, counters of 4 bits |
| `throttle` | true files, closest point after the first, last one unthrottles | two processes, two nodes, buses and channels, three starts, one training at a time |
| `memlat` | each miss counted once, steady latency published, idle memory lowers the flag | one CPU, one record per buffer, two workloads, two charges per interval |
| `chain` | every element once, the chase ends | two chains of four elements |

Why the bounds are enough:

* Bandwidths 0, 900, 1000, 1060 and 250000 with a cutoff of 1000: nothing measured; below
  the cutoff; at it; a change of 5.7 percent, over the 4 percent that wakes a parked
  controller from a high ratio and under it from a low one; a rise from 1 MB/s whose
  quotient wraps. With two samples per interval the percentile
  is the smaller of the two; one sample is the special case of the index -1 and has the result
  of the only one. Ratio, steps and counters are not bounded by the model: they keep
  their real ranges.
* One thread (what is proved in section 4 holds for any number): threads share only the
  mutex and the monitor. The mutex protects the
  linking and unlinking of list elements and the monitor's walk; a monitor that is busy
  stands for every delay another thread could cause. Two records are the most a thread
  has (a registration interrupted by a handler that registers again); no registration
  was ever blocked by `Slots` in a run that looked for it. Ages 1, 2, 3 are too
  young, old enough and overdue; a new stamp lowers each of them visibly.
* Three processes is the least with which one leaves between two others; a limit of 3
  has a rank that is admitted beside the first, and one that is refused. Two retries
  separate the first failure from the last.
* Machines have one or two nodes with contiguous, split or alternating numbers; 6 to 12 CPUs
  with up to 5 processes give shares of 1 to 6 CPUs, shares across nodes, parts that do not
  divide, and more processes than half the CPUs. Four threads wrap around every share but the
  largest ones; the theorems cover all other numbers. A model stops when every process has its
  threads, so deadlock is not checked there.
  In the passing run CPU 0 is on the first node; where it is not, the shares overlap
  (see below).
* Two processes interfere in every way the driver and the registers allow: each is at any
  point of its calls while the other is at any of its own. Three CPUs are the one of the first half,
  the one of the second, and one that both reach; the threads that read are on one of
  them. A counter of one bit wraps with every second stall. The run has the stalls of Ivy Bridge;
  that on all three microarchitectures what is charged is a share of what was counted is an assumption
  TLC evaluates (`StallsAreAShare`). Three wanted events, two of
  them equal, are found used, free and exhausted with one or two counters.
* Two buses listed in the other order than their nodes tell a true topology from a guess. The
  bandwidth curve rises and becomes flat, so training ends both ways; two channels show a
  register half written; the third start is one with files that two others left. Two trainings at
  once multiply the tables and have more states than a run can visit (over eight million, with
  the search unfinished), so `throttle` has one at a time. The theorems hold for any `MaxTraining`.
* A buffer of one record is full after one and overwritten by the next: the hardest case. The
  workloads differ by just the amount the smoothing leaves, in both directions. `EWMA_EXP`
  is 2, as in the code.
* Four elements give all 24 orders and chains; theorems cover every number.

### Fairness

* Controllers: `WF(Loop)`. Neither program waits for anything but `usleep` and `system`.
  Liveness is claimed only for a process that is no longer restarted, and for bandwidth
  that stays as the property says: the environment is not fair in any way.
* Threads: the scheduler runs every thread that can go on (`Proceed`), the kernel
  delivers signals (`Deliver`), the monitor runs and time passes. Weak fairness does not
  promise a thread the mutex, which the monitor takes again and again, and a pthread
  mutex does not either: `EpochsKeepComing` is about threads whose record is linked, and
  holds even for one that then waits for the mutex to unregister. The application is not
  fair: it may compute for ever.
* Ranks: a process that has begun goes on. Crashes, starts and clean-ups are not fair.
* Latency monitor: the program runs (`WF(memlat)`) and time passes (`WF(Elapse)`). The kernel
  samples, the workload shifts and the scripts start and kill as they like; what is needed of
  them is a premise of the property.
* Chains: the loop goes on.
* Counters and throttle: no liveness is claimed.

### What the counterexamples show

* `cipp_parks`: `cipp.cpp:173` tests `last_bw > cur_bw` after `last_bw` was overwritten;
  the controller stays at the ratio whose step lost bandwidth.
* `epoch_null`: `register_thread` links a record before it publishes `tls_thread`. With
  statistics off (the default of `nvmemul.ini`) the record looks overdue, the monitor
  signals the thread, and the handler makes an epoch with a NULL record.
* `counter_reset`: `pmc.c:201` takes a value below the last one for a wrap, and `pmc.c:203` adds the
  range of the counter. A second process that starts clears the counters of the first.

Other disagreements between the code and what is said of it, which the models reproduce but no
run is kept for, because each is plain from the lines it is at (the constants named show it in TLC):

* `process_rank.c:102` compares the next rank with the limit, so one process fewer than
  `EMUL_LOCAL_PROCESSES` runs; the refused one leaves the lock file.
* `process_rank.c:165`: the rank file is a counter; a process that ends takes the last
  number off it, not its own. `CompactWhileInOrder` says when ranks are still unique.
* `thread.c:52`: with two nodes and a limit of 4, the share of the third process lies on the
  second node; after the partition the next CPU is `first_cpu` of an empty mask. A process
  whose share is on the first node fails the same way at the thread after its last CPU.
* `thread.c:91-92` starts the walk at CPU 0 of the first node. When `topology.physical_nodes` names
  another node first (`nodes |-> <<4..7, 0..3>>`), the first turn goes to a CPU that is not there, every
  share moves by one, and the last CPU stays in the mask of every process, although
  `quartz/README.md:325-327` promises a coordinated partition.
* `model_bw.c:169-171` starts with point 0 and an error as large as the target, and compares
  from point 1 on, although line 168 says "all points". With a curve twice as steep as that of the run
  the first value is 1 away from the target and the one that is set 3.
* `model_bw.c:258-260` trains when there is no model, without a lock, and `model_bw.c:147`
  appends, although "the model is built once" (`quartz/README.md:373`). With `MaxTraining` 2
  two processes leave two tables in one file, measured while they disturbed each other.
* `topology.c:403` clears a range of numbers. With alternating numbers half of
  them belong to the other node, and CPUs are left that no turn of the partition reaches.

## 4. Proofs

All of them hold for every value of the constants that satisfies the assumptions of the module;
`LocalMovesSafe`, `FilesStayTrue` and those of `CpuPartitionProofs` have a further hypothesis, named
below.

* `ControllerProofs`: `TypeOK` and `WeightsTrackRatio` of both programs for all bandwidths up
  to 400000 MB/s, every cutoff and every interval. The lemmas both use come first: truncating
  division, ranges of a bounded step, what an adjustment and
  a second write do to the weights. The invariant is the conjunction of the two
  properties: the distance of the weights needs the bound on a step that `TypeOK` gives,
  and after a restart `last_bw = 0` marks weights that may come from another process. What is proved of
  those is only that they never add up to less than 92: started by hand on the 60/40 of a killed
  process, the first adjustment shows 92/40 for a moment.
  Of the action properties, `LocalOnlyWhenBandwidthFalls` of `cipp` needs that a parked controller
  was saturated before (`ParkedSaturated`) and has the hypothesis `Cutoff > 1`: with a
  cutoff of 1 a rise from 1 MB/s past 214748 MB/s wraps and looks like a fall.
  `ReversalsDamped` of `cipp_total_bw` needs no more than `TypeOK`; `ParksAtTheBetterRatio` needs that
  the last step led from the last ratio to this one (`StepTaken`).
* `ProcessRankProofs`: `TypeOK`, `MutualExclusion` and `CountsEveryProcess` for every number of
  processes, limit and number of retries. Testing, reading and writing the rank file are separate steps,
  so the count is safe only if what a process has read is still in the file when it writes:
  `ReadsAreCurrent` says so, and is inductive because of `MutualExclusion` (the mutant `Acquire_Shared`,
  two processes inside, breaks the counting and the refinement in the run). The invariant is the conjunction
  of these and of `StartsAt0`. The counting step compares cardinalities of `Ranked`
  before and after each action: a process enters it only with the increment, leaves it with a decrement, or
  is lost, which only makes the file count more. `RanksRefine` is the refinement: under the
  mapping of `Service` every step is a step of `RankService` or changes nothing in it. Joining is
  the write of the number a process read and raised (`JoinStep`), leaving the write of the one it read and
  lowered (`LeaveStep`), and both are steps of the service only because the number is current.
  The service promises no more than the limit (`number < MaxProcesses`); that the code admits one process
  fewer, comparing the next rank with the limit, is allowed by it and described in section 3.
  `RanksStayCompact` is the action property `CompactWhileInOrder`: a rank is
  taken or given back at the end of the range, by the process that holds the lock and read the count.

* `EpochThreadsProofs`: `TypeOK` and `EpochsMinApart` for every number of threads and records
  and all durations, with statistics on or off; the runs have one thread. The invariant adds
  to `TypeOK` that a frame that registers has a record (`Registering`), that a sleeping
  monitor has nothing to do (`Idle`, without which unlinking could take a record from under
  it), and that a frame about to take a timestamp has a record that is old enough
  (`StampIsDue`). That no other thread can spoil the last one is the reason why `TypeOK` says
  that a thread holds records of its own only, and that no epoch is interrupted.
  `FlagsAnswered` is `RaisedFlagIsAnswered`. Its invariant `FInv` says of each
  thread that the records it registers are not the one it runs with (`Separate`), that its record is
  linked until it unregisters (`Linked`), and that a record flagged before it became the thread's
  is answered by then or leaves another one the monitor can still flag (`FlagSeen`).

* `PointerChainProofs`: `TypeOK` and `EveryElementOnce` for every number of elements and chains.
  The order of a chain stays a bijection from the indices to 1..N under any swap; the links made
  so far lead along a prefix of that order, which begins with element 0, and the last one leads back;
  the chase has seen the elements of the order before the one it is at, in every chain the same
  number of them, up to the turn. What is summed by the code is replaced by the set `seen`: a
  chain that ends has seen all.

* `EpochDelaysProofs`: `TypeOK` and `OverheadIsAmortised` for every number of processes, threads,
  CPUs, counters and events, and every width of a counter. What an epoch injects and what it keeps of
  the overhead add up (`SplitOverhead`), so `owed[t] + tls_overhead[t] = spent[t]` (`Books`) is
  inductive as soon as no delay is negative. This is about the overhead only: it does not say that a
  computed delay was called for, and two threads of one CPU that load the same last value are both charged. That needs the rest of the invariant: a
  thread reads only while its process runs (`ReadersRun`), a process starts only when all targets
  exceed the hardware's latency (`TargetsChecked`), and events before the one at hand have counters
  (`Assigned`); the lowest free counter exists because the used ones are fewer than all.
  The other three properties are about what processes do to each other's counters. `NoForeignEvents`: all
  processes assign in the same order, so an event has one number (`Numbering`).
  `AtMostOneCpuMissed`: an event that nobody is programming is counted on all CPUs but the one the
  last call left out (`Covered`). `UndisturbedDiff`: a counter is what happened on its CPU since it
  was cleared, modulo its range, and a sample carries the history it was read in
  (`CountersCount`, `SamplesCount`).

* `MemoryThrottleProofs`: all four properties of the throttle, for every number of processes, nodes,
  controllers, channels and points, every bandwidth curve and every target. Each has an invariant
  of its own:
  * `IInv`: `TypeOK` and, for each process, what its place in the program says of its loop
    indices and of the topology and the model it has in memory.
  * `Applied` for `ThrottledToClosestAfterFirst`: while a process is alone, a controller it
    has set either holds the value of its point on every channel, or the calls of `set_pci` it is in
    the middle of write just that (`Settles`, `Pending`). `FindsClosestAfterFirst` shows that the
    scan of `find_data_point`, a recursive function, ends at a closest one of the points after the first: if it did not, there
    would be a least index where it goes wrong.
  * `Orderly` for `LastOneUnthrottles`: while processes set up one after the other
    (`OneSetsUp`) they agree on the topology (`Worlds`), so what one throttles the others would lift
    as well; and every channel that is not at `Full` is owed a write of `Full` by a process that has
    not ended (`Owed`), because what a process still writes when it ends, or ends its search,
    is `Full` (`CallsOK`).
  * `TrainedWell` and `SearchedWell` for `FilesAreTrue`: the points measured so
    far form a chain of increments with what the node delivers at each (`Chain`, `Measured`), and in the
    search the controllers before the one at hand are at the levels the comparison expects
    (`AtLevels`), so the nodes attached so far are attached to their own (`AttachedBefore`).
    `FilesStayTrue` has two hypotheses about the hardware: `OneControllerPerNode` (as many
    controllers are listed as there are nodes, each node's own among them) and `ThrottlingShows` (a
    throttled node measures slower than one that is not, whatever the jitter). Without the first the
    search attaches a node to a wrong controller or none (`topology.c:174`); without the second
    no comparison tells anything. Both hold in the run.

* `LatencyMonitorProofs`: `TypeOK` and `CountedOnce` for every number of CPUs, capacity of the
  buffers, finite set of latencies and exponent of the smoothing; the run has one CPU. The limits `TypeOK`
  sets to the smoothed latencies are not inductive: an average is within them because its sum
  is at most its count times the highest latency (`SumsBounded`), which holds because every record
  in a buffer or in `ps` carries a latency of the workload (`RecordsSampled`), and a floored mean of two
  numbers lies between them (`MeanBounded`). `CountedOnce` needs to know what is missing while a sample is
  read (`Books`): one, on the side the record and the page agree on. That `2 ^ EWMA_EXP` is a positive
  number is an assumption, because the provers have no facts about `^`.

* `CpuPartitionProofs`: all four properties, for every number of nodes, CPUs, processes and threads.
  The partition is a loop of as many turns as there are CPUs, and induction over data is out of
  reach; instead `RecursionExists` shows from the least counterexample that a recursion has a value,
  and what the value is follows the same way. A CPU is described by how many come before it in
  the order of the walk (`Index`, a bijection to 0..NumCpus - 1): after i turns the
  position is at number i, the bits of numbers below i are cleared unless the rank's share has them
  (`Kept`, `PartitionLoop`), and the shares are disjoint intervals of numbers (`ShareOfRank`). The turn
  after the last, taken before the last bit is cleared, still ends on a CPU of the share or on
  none (`PartitionNext`). The invariant of the round robin is that the threads of a CPU, and one more if
  it comes before the place where the round began, are k, and one more if it comes before the
  position (`Rounds`): no CPU can then have two threads more than another.
  The hypothesis is `Numbered`: CPU 0 is on the first node, where `thread.c:92` starts without looking;
  no CPU is on two nodes; and what `topology.c:403` clears leaves a node as many bits as `num_cpus` says.
  On other machines the properties can fail (section 3). TLC evaluates `Numbered` for the machines of
  the run.

Only model-checked:

* liveness (`EpochsKeepComing` and the others of `cipp`, `cipp_total_bw`, `ranks`, `memlat` and `chain`):
  fairness and ENABLED are out of the prover's reach.

The percentile of the controllers is a predicate and not an algorithm; that a sort computes it is not
proved.

## 5. Not modelled, and why

* `latency_calibration` and everything under `CALIBRATION_SUPPORT`, `MEMLAT_SUPPORT` and
  `USE_PAPI`, and the SSE variant of `measure_bw.c`: not compiled.
* The time a measurement takes, the placement of its pages, the report of statistics, the log,
  the parsing of the configuration, of CPU lists and of sysfs: I/O and hardware without state of
  the program that a property could be about.
* `pmalloc.c`, `pflush.c`, `misc.c`: libnuma calls and a delay loop.
* Loading of the kernel module and the bit that allows `rdpmc`: once, before any process.
* `bwmon.cpp`, `meminfo.cpp`, `fbmm_wrapper.c`: one loop or one pass that prints.
* `runner/` and the scripts appear only by what they do to a program of `tools/`.
* fork: a child inherits rank and registration, and returns both at its exit. quartz does not
  interpose fork.

`PROJECT.json` has the list part by part, and the hazards with the properties that cover
them, or the reason why none does.

## 6. Plan

1. `CpuPartition` composed with `ProcessRank`: shares follow the ranks as they are given back.
2. The report of statistics, which reads the thread list after its mutex is released
   (`stat.c:140`), as an action of `EpochThreads`.
