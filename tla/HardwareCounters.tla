--------------------------- MODULE HardwareCounters ---------------------------
(***************************************************************************)
(* The performance counters of quartz.  src/quartz/src/lib/cpu/pmc.c gives *)
(* every hardware event a counter and reads differences from it;           *)
(* src/quartz/src/dev/pmc.c, the kernel driver, programs one counter on    *)
(* all CPUs.  The counters belong to the host: every emulated process      *)
(* programs and reads the same ones.                                       *)
(*                                                                         *)
(* Of the hardware events one, Stalls, is counted and read here; the other *)
(* events are allocated and programmed like it.                            *)
(***************************************************************************)
EXTENDS Integers, Sequences, FiniteSets

CONSTANTS
    Processes, Threads, Cpus,
    ProcessOf,      \* the process of a thread
    CpuOf,          \* thread->cpu_id, the CPU the thread is bound to
    HwEvents, Stalls,
    Wanted,         \* the events the create functions assign, one after the other
    NumCounters,    \* the numbers of counters a host may have
    CounterLimit,   \* 2^40: the counters are 40 bits wide
    Off, None,
    MaxHappened,    \* bound: stalls per CPU
    MaxStarts       \* bound: starts of processes

ASSUME CountersAssumption ==
    /\ IsFiniteSet(Cpus) /\ Cpus # {}
    /\ ProcessOf \in [Threads -> Processes] /\ CpuOf \in [Threads -> Cpus]
    /\ Stalls \in HwEvents /\ Off \notin HwEvents
    /\ Wanted \in Seq(HwEvents) /\ \E n \in 1..Len(Wanted) : Wanted[n] = Stalls
    /\ NumCounters \subseteq Nat \ {0} /\ CounterLimit \in Nat \ {0}
    /\ None \notin Nat
    /\ MaxHappened \in Nat /\ MaxStarts \in Nat

VARIABLES
    num_avail_hw_cntrs,
    sel,        \* PERFEVENTSEL: the event each counter of each CPU counts
    ctr,        \* PERFCTR: what it has counted
    happened,   \* the stalls of each CPU, counted or not (for the properties)
    base,       \* those of them that are not in the counter (for the properties)
    pc,         \* where each process is in init_latency_model
    starts,
    next,       \* the event of Wanted it assigns
    command,    \* the call pmc_ioctl_setcounter makes: disable, clear or set
    half,       \* whether that call is at its own CPU or at the others
    cntr_id,    \* hw_cntr_id of the active events, None of the others
    last_val,   \* last_val of Stalls, per process and CPU
    rd,         \* where a thread is in read_pmc_hw_event_diff
    cur, last   \* cur_val and last_val of that function

hardware == <<num_avail_hw_cntrs, sel, ctr, happened, base>>
library == <<pc, starts, next, command, half, cntr_id>>
reading == <<last_val, rd, cur, last>>
vars == <<hardware, library, reading>>

Ids == 0..(num_avail_hw_cntrs - 1)

\* A value of the counter, with what had happened when it was read.
Zero == [val |-> 0, at |-> None, base |-> None]
Samples == [val : 0..(CounterLimit - 1), at : Nat \cup {None}, base : Nat \cup {None}]

Init ==
    /\ num_avail_hw_cntrs \in NumCounters
    /\ sel = [c \in Cpus |-> [i \in Ids |-> Off]]
    /\ ctr = [c \in Cpus |-> [i \in Ids |-> 0]]
    /\ happened = [c \in Cpus |-> 0]
    /\ base = [c \in Cpus |-> [i \in Ids |-> 0]]
    /\ pc = [p \in Processes |-> "off"] /\ starts = 0
    /\ next = [p \in Processes |-> 1]
    /\ command = [p \in Processes |-> "disable"]
    /\ half = [p \in Processes |-> "here"]
    /\ cntr_id = [p \in Processes |-> [e \in HwEvents |-> None]]
    /\ last_val = [p \in Processes |-> [c \in Cpus |-> Zero]]
    /\ rd = [t \in Threads |-> "idle"]
    /\ cur = [t \in Threads |-> Zero]
    /\ last = [t \in Threads |-> Zero]

-----------------------------------------------------------------------------
(* The hardware *)

\* A load stalls on c: the counter set to it advances, and wraps.
Happen(c) ==
    /\ happened[c] < MaxHappened
    /\ happened' = [happened EXCEPT ![c] = @ + 1]
    /\ ctr' = [ctr EXCEPT ![c] = [i \in Ids |->
                 IF sel[c][i] = Stalls THEN (@[i] + 1) % CounterLimit ELSE @[i]]]
    /\ base' = [base EXCEPT ![c] = [i \in Ids |->
                 IF sel[c][i] = Stalls THEN @[i] ELSE @[i] + 1]]
    /\ UNCHANGED <<num_avail_hw_cntrs, sel, library, reading>>

\* What a call of the driver does on the CPUs it reaches.  set_counter clears
\* the counter before it selects the event.
Reach(cs, i, cmd, e) ==
    /\ ctr' = [c \in Cpus |-> IF c \in cs THEN [ctr[c] EXCEPT ![i] = 0] ELSE ctr[c]]
    /\ base' = [c \in Cpus |-> IF c \in cs THEN [base[c] EXCEPT ![i] = happened[c]] ELSE base[c]]
    /\ sel' = [c \in Cpus |->
                 IF c \in cs /\ cmd # "clear"
                   THEN [sel[c] EXCEPT ![i] = IF cmd = "set" THEN e ELSE Off]
                   ELSE sel[c]]
    /\ UNCHANGED <<num_avail_hw_cntrs, happened>>

-----------------------------------------------------------------------------
(* A process enables its events *)

\* get_avail_hw_cntr_id: the first counter no active event has.
Used(p) == {cntr_id[p][e] : e \in HwEvents} \ {None}

\* Mutant: the counters in use are not marked.
get_avail_hw_cntr_id_Unmarked(p) == 0

\* Mutant: the loop passes the end.
get_avail_hw_cntr_id_Past(p) ==
    IF Cardinality(Used(p)) > num_avail_hw_cntrs THEN None ELSE Cardinality(Used(p))

get_avail_hw_cntr_id(p) ==
    IF Cardinality(Used(p)) = num_avail_hw_cntrs THEN None
    ELSE CHOOSE i \in Ids \ Used(p) : \A j \in Ids \ Used(p) : i <= j

\* The library is loaded into a new process.
Start(p) ==
    /\ pc[p] = "off"
    /\ starts < MaxStarts /\ starts' = starts + 1
    /\ pc' = [pc EXCEPT ![p] = "assign"]
    /\ UNCHANGED <<hardware, next, command, half, cntr_id, reading>>

\* Its memory is gone with the process.
Gone(p) ==
    /\ pc' = [pc EXCEPT ![p] = "off"]
    /\ next' = [next EXCEPT ![p] = 1]
    /\ cntr_id' = [cntr_id EXCEPT ![p] = [e \in HwEvents |-> None]]
    /\ last_val' = [last_val EXCEPT ![p] = [c \in Cpus |-> Zero]]
    /\ rd' = [t \in Threads |-> IF ProcessOf[t] = p THEN "idle" ELSE rd[t]]
    /\ cur' = [t \in Threads |-> IF ProcessOf[t] = p THEN Zero ELSE cur[t]]
    /\ last' = [t \in Threads |-> IF ProcessOf[t] = p THEN Zero ELSE last[t]]

Advance(p) ==
    /\ next' = [next EXCEPT ![p] = @ + 1]
    /\ pc' = [pc EXCEPT ![p] = IF next[p] = Len(Wanted) THEN "running" ELSE "assign"]

\* enable_pmc_hw_event for an event that is active already.
Reuse(p) ==
    /\ pc[p] = "assign" /\ cntr_id[p][Wanted[next[p]]] # None
    /\ Advance(p)
    /\ UNCHANGED <<hardware, starts, command, half, cntr_id, reading>>

\* A counter is found, the last values are zeroed and the driver is called; on
\* which CPU is the scheduler's choice.
Assign(p) ==
    /\ pc[p] = "assign" /\ cntr_id[p][Wanted[next[p]]] = None
    /\ get_avail_hw_cntr_id(p) # None
    /\ cntr_id' = [cntr_id EXCEPT ![p][Wanted[next[p]]] = get_avail_hw_cntr_id(p)]
    /\ last_val' = IF Wanted[next[p]] = Stalls
                     THEN [last_val EXCEPT ![p] = [c \in Cpus |-> Zero]]
                     ELSE last_val
    /\ pc' = [pc EXCEPT ![p] = "program"]
    /\ UNCHANGED <<hardware, starts, next, command, half, rd, cur, last>>

\* "No available hardware performance counters": the error ends the process.
Exhausted(p) ==
    /\ pc[p] = "assign" /\ cntr_id[p][Wanted[next[p]]] = None
    /\ get_avail_hw_cntr_id(p) = None
    /\ Gone(p)
    /\ UNCHANGED <<hardware, starts, command, half>>

After(cmd) ==
    CASE cmd = "disable" -> "clear" [] cmd = "clear" -> "set" [] cmd = "set" -> "disable"

\* The direct call of pmc_clear or set_counter, on the CPU the process is on.
Here(p) ==
    /\ pc[p] = "program" /\ half[p] = "here"
    /\ \E c \in Cpus : Reach({c}, cntr_id[p][Wanted[next[p]]], command[p], Wanted[next[p]])
    /\ half' = [half EXCEPT ![p] = "others"]
    /\ UNCHANGED <<pc, starts, next, command, cntr_id, reading>>

\* Mutant: smp_call_function is left out.
Others_Unsent(p) ==
    /\ pc[p] = "program" /\ half[p] = "others"
    /\ half' = [half EXCEPT ![p] = "here"]
    /\ command' = [command EXCEPT ![p] = After(@)]
    /\ IF command[p] = "set" THEN Advance(p) ELSE UNCHANGED <<pc, next>>
    /\ UNCHANGED <<hardware, starts, cntr_id, reading>>

\* smp_call_function: all CPUs but the one it is called on, which need not be
\* that of the first half: the scheduler may move the process in between.
Others(p) ==
    /\ pc[p] = "program" /\ half[p] = "others"
    /\ \E c \in Cpus : Reach(Cpus \ {c}, cntr_id[p][Wanted[next[p]]], command[p], Wanted[next[p]])
    /\ half' = [half EXCEPT ![p] = "here"]
    /\ command' = [command EXCEPT ![p] = After(@)]
    /\ IF command[p] = "set" THEN Advance(p) ELSE UNCHANGED <<pc, next>>
    /\ UNCHANGED <<starts, cntr_id, reading>>

\* A process ends or dies, but not inside a call of the driver; nothing
\* switches its counters off.
End(p) ==
    /\ pc[p] \in {"assign", "running"}
    /\ Gone(p)
    /\ UNCHANGED <<hardware, starts, command, half>>

-----------------------------------------------------------------------------
(* A thread reads the stalls since the last reading on its CPU *)

Running(t) == pc[ProcessOf[t]] = "running"

\* rdpmc on the thread's CPU.
ReadCounter(t) ==
    LET c == CpuOf[t]  i == cntr_id[ProcessOf[t]][Stalls] IN
    /\ Running(t) /\ rd[t] = "idle"
    /\ cur' = [cur EXCEPT ![t] = [val |-> ctr[c][i], at |-> happened[c], base |-> base[c][i]]]
    /\ rd' = [rd EXCEPT ![t] = "cur"]
    /\ UNCHANGED <<hardware, library, last_val, last>>

LoadLast(t) ==
    /\ rd[t] = "cur"
    /\ last' = [last EXCEPT ![t] = last_val[ProcessOf[t]][CpuOf[t]]]
    /\ rd' = [rd EXCEPT ![t] = "last"]
    /\ UNCHANGED <<hardware, library, last_val, cur>>

Returned(t) ==
    /\ rd' = [rd EXCEPT ![t] = "idle"]
    /\ cur' = [cur EXCEPT ![t] = Zero] /\ last' = [last EXCEPT ![t] = Zero]

StoreLast(t) ==
    /\ rd[t] = "last"
    /\ last_val' = [last_val EXCEPT ![ProcessOf[t]][CpuOf[t]] = cur[t]]
    /\ Returned(t)
    /\ UNCHANGED <<hardware, library>>

\* RDPMC_MAX_VALUE is the largest value, so a difference across a wrap is one
\* too small; any smaller value is taken for a wrap.
RDPMC_MAX_VALUE == CounterLimit - 1

\* Mutant: no wrap is expected; the difference is of 64-bit unsigned numbers.
diff_NoWrap(t) == IF cur[t].val < last[t].val THEN 2 * CounterLimit ELSE cur[t].val - last[t].val

diff(t) ==
    IF cur[t].val < last[t].val THEN cur[t].val + (RDPMC_MAX_VALUE - last[t].val)
    ELSE cur[t].val - last[t].val

-----------------------------------------------------------------------------
\* Stalls are of interest where there is a thread to read them.
Hardware == \E c \in {CpuOf[t] : t \in Threads} : Happen(c)

\* What a process does after its start.
Driver(p) ==
    \/ Reuse(p) \/ Assign(p) \/ Exhausted(p)
    \/ Here(p) \/ Others(p)
    \/ End(p)
=============================================================================
