---------------------------- MODULE MemoryThrottle ----------------------------
(***************************************************************************)
(* The bandwidth emulation of quartz throttles the memory controllers      *)
(* through PCI registers that all processes of the host share.             *)
(*   topology.c  finds out which controller (PCI bus) belongs to which     *)
(*               node, once, and keeps it in a file,                       *)
(*   model_bw.c  measures the bandwidth of each register value, once, and  *)
(*               keeps it in a file; picks the value of the target,        *)
(*   init.c      calls both in init, and lifts the throttle in finalize.   *)
(* A register has one copy per channel of its controller, each written by  *)
(* a call of the kernel driver of its own; nothing is locked.              *)
(***************************************************************************)
EXTENDS Integers, Sequences, FiniteSets, FiniteSetsExt

CONSTANTS
    Processes, Nodes, Buses,
    NodeList,       \* physical_nodes, in the order of the configuration
    BusList,        \* regs_addr, in the order lspci prints them
    BusOf,          \* the controller a node really has (hardware)
    Channels,       \* channels of a controller
    TargetBw,       \* bandwidth.read
    InitialValue, Increment, Full,  \* 0x800f, 15 and 0x8fff
    MinPoints,      \* min_number_throttle_points
    MaxPoints,      \* MAX_THROTTLE_VALUE
    Bandwidth,      \* what a node reaches at a register value (hardware)
    Jitter,         \* how far a measurement is off
    None,
    MaxStarts,      \* bound: starts of processes
    MaxTraining     \* bound: processes that train the model at once

\* The nodes are those of the configuration, at least one: without one there is no
\* node for a thread to run on.
ASSUME ThrottleAssumption ==
    /\ NodeList \in Seq(Nodes) /\ NodeList # <<>> /\ BusList \in Seq(Buses)
    /\ \A n \in Nodes : \E i \in 1..Len(NodeList) : NodeList[i] = n
    /\ BusOf \in [Nodes -> Buses] /\ Channels \in Nat \ {0}
    /\ TargetBw \in Nat
    /\ InitialValue \in Nat /\ Full \in Nat /\ InitialValue < Full
    /\ Increment \in Nat \ {0} /\ MinPoints \in Nat \ {0, 1} /\ MaxPoints \in Nat
    /\ Bandwidth \in [0..(Full + Increment) -> Nat] /\ Jitter \subseteq Nat
    /\ MaxStarts \in Nat /\ MaxTraining \in Nat
ASSUME NoneAssumption == None \notin Nodes \cup Buses \cup [Nodes -> Buses \cup {None}]

VARIABLES
    reg,            \* the throttle register of each channel of each bus
    mc_pci_file,    \* the saved topology: a bus or None per node, None if absent
    model_file,     \* the points saved, in the order they were appended
    pc,             \* where each process is
    writes,         \* the calls of set_pci a process is in the middle of
    b, k,           \* loop indices
    mc_pci_regs,    \* the bus of each node, None if not known
    max_local_rbw, local_node, count,   \* locals of discover_mc_pci_topology
    table,          \* read_bw_model: points [reg, bw]
    enabled,        \* bandwidth.enable of the process
    starts,
    alone,          \* no other process wrote a register since (for the properties)
    overlap,        \* a process started while another was setting up (same)
    lost            \* a process ended without finalize (same)

host == <<reg, mc_pci_file, model_file>>
search == <<max_local_rbw, local_node, count>>
ghosts == <<starts, alone, overlap, lost>>
config == <<enabled, ghosts>>
vars == <<host, pc, writes, b, k, mc_pci_regs, search, table, config>>

Chs == 1..Channels
Unknown == [n \in Nodes |-> None]

Init ==
    /\ reg = [x \in Buses |-> [c \in Chs |-> Full]]
    /\ mc_pci_file \in {None, BusOf}  \* found by an earlier process, or not
    /\ model_file = <<>>
    /\ pc = [p \in Processes |-> "off"]
    /\ writes = [p \in Processes |-> <<>>]
    /\ b = [p \in Processes |-> 1] /\ k = [p \in Processes |-> 1]
    /\ mc_pci_regs = [p \in Processes |-> Unknown]
    /\ max_local_rbw = [p \in Processes |-> 0]
    /\ local_node = [p \in Processes |-> None]
    /\ count = [p \in Processes |-> 0]
    /\ table = [p \in Processes |-> <<>>]
    /\ enabled = [p \in Processes |-> FALSE]
    /\ starts = 0 /\ overlap = FALSE /\ alone = [p \in Processes |-> TRUE] /\ lost = FALSE

-----------------------------------------------------------------------------
(* Registers *)

get_pci(x, c) == reg[x][c]

\* intel_xeon_ex_get_throttle_register reads the first channel.
get_throttle_register(x) == get_pci(x, 1)

\* The calls intel_xeon_ex_set_throttle_register makes: one per channel.
set_throttle_register(x, v) == [c \in Chs |-> [bus |-> x, channel |-> c, val |-> v]]

\* The next of them reaches the driver.
set_pci(p) ==
    /\ writes[p] # <<>>
    /\ LET w == Head(writes[p]) IN
       reg' = [reg EXCEPT ![w.bus][w.channel] = w.val]
    /\ alone' = [q \in Processes |-> alone[q] /\ q = p]
    /\ writes' = [writes EXCEPT ![p] = Tail(@)]
    /\ UNCHANGED <<mc_pci_file, model_file, pc, b, k, mc_pci_regs, search, table, enabled,
                   starts, overlap, lost>>

At(p, loc) == pc[p] = loc /\ writes[p] = <<>>
GoTo(p, loc) == pc' = [pc EXCEPT ![p] = loc]
Write(p, ws) == writes' = [writes EXCEPT ![p] = ws]

\* "if (throttle_reg_val < 0x8fff)": only a throttled bus is written.
Reset(x) == IF get_throttle_register(x) < Full THEN set_throttle_register(x, Full) ELSE <<>>

\* What measure_read_bw may return: the channel that is throttled most decides.
measure_read_bw(n) ==
    {Bandwidth[Min({reg[BusOf[n]][c] : c \in Chs})] + d : d \in Jitter}

Memory == <<mc_pci_regs, search, table>>

\* A process is gone, and its memory with it.
Vanish(p) ==
    /\ GoTo(p, "off") /\ Write(p, <<>>)
    /\ b' = [b EXCEPT ![p] = 1] /\ k' = [k EXCEPT ![p] = 1]
    /\ mc_pci_regs' = [mc_pci_regs EXCEPT ![p] = Unknown]
    /\ max_local_rbw' = [max_local_rbw EXCEPT ![p] = 0]
    /\ local_node' = [local_node EXCEPT ![p] = None]
    /\ count' = [count EXCEPT ![p] = 0]
    /\ table' = [table EXCEPT ![p] = <<>>]
    /\ enabled' = [enabled EXCEPT ![p] = FALSE]

-----------------------------------------------------------------------------
(* init, init_virtual_topology *)

SettingUp(p) == pc[p] \notin {"off", "running", "ending"}

Start(p) ==
    /\ pc[p] = "off" /\ starts < MaxStarts
    /\ starts' = starts + 1
    /\ GoTo(p, "topology")
    /\ alone' = [alone EXCEPT ![p] = TRUE]
    /\ overlap' = (overlap \/ \E r \in Processes : SettingUp(r))
    /\ UNCHANGED <<host, writes, b, k, Memory, enabled, lost>>

\* Only now it matters whether the configuration enables the emulation.
LoadTopology(p) ==
    /\ At(p, "topology") /\ mc_pci_file # None
    /\ mc_pci_regs' = [mc_pci_regs EXCEPT ![p] = mc_pci_file]
    /\ \E e \in BOOLEAN : /\ enabled' = [enabled EXCEPT ![p] = e]
                         /\ GoTo(p, IF e THEN "model" ELSE "apply")
    /\ UNCHANGED <<host, writes, b, k, search, table, ghosts>>

NoTopology(p) ==
    /\ At(p, "topology") /\ mc_pci_file = None
    /\ GoTo(p, IF BusList = <<>> THEN "save_topology" ELSE "probe")
    /\ UNCHANGED <<host, writes, b, k, Memory, config>>

(* discover_mc_pci_topology *)

\* Bus k is throttled, bus b is not.
Probe(p) ==
    /\ At(p, "probe")
    /\ Write(p, IF k[p] = b[p] THEN Reset(BusList[k[p]])
                ELSE set_throttle_register(BusList[k[p]], InitialValue))
    /\ IF k[p] = Len(BusList)
         THEN k' = [k EXCEPT ![p] = 1] /\ GoTo(p, "compare")
         ELSE k' = [k EXCEPT ![p] = @ + 1] /\ UNCHANGED pc
    /\ UNCHANGED <<host, b, Memory, config>>

Better(rbw, max) == rbw > max

\* The local bandwidth of node k is compared with the highest so far.
Compare(p) ==
    /\ At(p, "compare")
    /\ \E rbw \in measure_read_bw(NodeList[k[p]]) :
         IF Better(rbw, max_local_rbw[p])
           THEN /\ max_local_rbw' = [max_local_rbw EXCEPT ![p] = rbw]
                /\ local_node' = [local_node EXCEPT ![p] = NodeList[k[p]]]
           ELSE UNCHANGED <<max_local_rbw, local_node>>
    /\ IF k[p] = Len(NodeList)
         THEN k' = [k EXCEPT ![p] = 1] /\ GoTo(p, "attach")
         ELSE k' = [k EXCEPT ![p] = @ + 1] /\ UNCHANGED pc
    /\ UNCHANGED <<host, writes, b, mc_pci_regs, count, table, config>>

\* Bus b belongs to that node.  The next bus starts with the node that was
\* found last, but with no bandwidth.
Attach(p) ==
    /\ At(p, "attach")
    /\ IF local_node[p] = None THEN UNCHANGED <<mc_pci_regs, count>>
       ELSE /\ mc_pci_regs' = [mc_pci_regs EXCEPT ![p][local_node[p]] = BusList[b[p]]]
            /\ count' = [count EXCEPT ![p] = @ + 1]
    /\ max_local_rbw' = [max_local_rbw EXCEPT ![p] = 0]
    /\ IF count'[p] = Len(NodeList) \/ b[p] = Len(BusList)
         THEN b' = [b EXCEPT ![p] = 1] /\ GoTo(p, "reset")
         ELSE b' = [b EXCEPT ![p] = @ + 1] /\ GoTo(p, "probe")
    /\ UNCHANGED <<host, writes, k, local_node, table, config>>

ResetBus(p) ==
    /\ At(p, "reset")
    /\ Write(p, Reset(BusList[k[p]]))
    /\ IF k[p] = Len(BusList)
         THEN k' = [k EXCEPT ![p] = 1] /\ GoTo(p, "save_topology")
         ELSE k' = [k EXCEPT ![p] = @ + 1] /\ UNCHANGED pc
    /\ UNCHANGED <<host, b, Memory, config>>

\* fopen("w") leaves a file without lines until fclose writes them: one that is
\* loaded in between, or found after a kill, names no bus.
OpenTopology(p) ==
    /\ At(p, "save_topology")
    /\ mc_pci_file' = Unknown
    /\ GoTo(p, "write_topology")
    /\ UNCHANGED <<reg, model_file, writes, b, k, Memory, config>>

\* "Topology MC PCI file saved, restart the process"
SaveTopology(p) ==
    /\ At(p, "write_topology")
    /\ mc_pci_file' = mc_pci_regs[p]
    /\ Vanish(p)
    /\ UNCHANGED <<reg, model_file, ghosts>>

-----------------------------------------------------------------------------
(* init_bandwidth_model.  k is the node, b the point. *)

NextNode(p, loc) ==
    IF k[p] = Len(NodeList) THEN k' = [k EXCEPT ![p] = 1] /\ GoTo(p, loc)
    ELSE k' = [k EXCEPT ![p] = @ + 1] /\ GoTo(p, "model")

LoadModel(p) ==
    /\ At(p, "model") /\ model_file # <<>>
    /\ table' = [table EXCEPT ![p] = model_file]
    /\ NextNode(p, "apply")
    /\ UNCHANGED <<host, writes, b, mc_pci_regs, search, config>>

\* The bus of the node whose model is trained.
Trained(p) == mc_pci_regs[p][NodeList[k[p]]]

Training == {p \in Processes : pc[p] \in {"train", "measure", "save"}}

\* train_model: "reset throttling"
TrainReset(p) ==
    /\ Cardinality(Training) < MaxTraining
    /\ At(p, "model") /\ model_file = <<>> /\ Trained(p) # None
    /\ Write(p, Reset(Trained(p)))
    /\ table' = [table EXCEPT ![p] = <<>>]
    /\ GoTo(p, "train")
    /\ UNCHANGED <<host, b, k, mc_pci_regs, search, config>>

\* Mutant: the largest value is not noticed.
NextValue_NoWrap(v) == v + Increment

\* Mutant: the values start anew from 0.
NextValue_NoStart(v) == (v + Increment) % (Full + Increment)

NextValue(v) == IF v >= Full THEN InitialValue ELSE v + Increment

\* The value that is measured next is derived from the register itself.
TrainSet(p) ==
    /\ At(p, "train")
    /\ LET v == NextValue(get_throttle_register(Trained(p))) IN
       /\ Write(p, set_throttle_register(Trained(p), v))
       /\ table' = [table EXCEPT ![p] = Append(@, [reg |-> v, bw |-> 0])]
    /\ GoTo(p, "measure")
    /\ UNCHANGED <<host, b, k, mc_pci_regs, search, config>>

\* slope and abs(m) < 0.1: abs takes an int, so the test is |m| < 1.
Flat(pts) ==
    LET n == Len(pts)
        Sum(op(_)) == MapThenSumSet(op, 1..n)
        x(j) == pts[j].reg
        xy == Sum(LAMBDA j : pts[j].reg * pts[j].bw)
        xx == Sum(LAMBDA j : pts[j].reg * pts[j].reg)
        sx == Sum(LAMBDA j : pts[j].reg)
        sy == Sum(LAMBDA j : pts[j].bw)
        num == n * xy - sx * sy
        den == n * xx - sx * sx
    IN (IF num < 0 THEN -num ELSE num) < den

\* The bandwidth of the value that was set; the table ends before the point at
\* which the curve was found flat.
TrainMeasure(p) ==
    /\ At(p, "measure")
    /\ LET n == Len(table[p])  \* i + 1
           stop == n > MinPoints + 1
                     /\ Flat(SubSeq(table[p], n - MinPoints, n - 1))
       IN \E rate \in measure_read_bw(NodeList[k[p]]) :
            IF stop
              THEN /\ table' = [table EXCEPT ![p] = SubSeq(@, 1, n - 1)]
                   /\ GoTo(p, "save")
              ELSE /\ table' = [table EXCEPT ![p][n].bw = rate]
                   /\ GoTo(p, IF n = MaxPoints THEN "save" ELSE "train")
    /\ UNCHANGED <<host, writes, b, k, mc_pci_regs, search, config>>

\* save_model appends; the part that fills the buffer is written before the rest.
SaveModel(p) ==
    /\ At(p, "save")
    /\ \E n \in {Len(table[p])} \cup {(b[p] + Len(table[p])) \div 2} :
         /\ model_file' = model_file \o SubSeq(table[p], b[p], n)
         /\ IF n = Len(table[p])
              THEN b' = [b EXCEPT ![p] = 1] /\ NextNode(p, "apply")
              ELSE b' = [b EXCEPT ![p] = n + 1] /\ UNCHANGED <<pc, k>>
    /\ UNCHANGED <<reg, mc_pci_file, writes, Memory, config>>

-----------------------------------------------------------------------------
(* The throttle of a target *)

Distance(pt) == IF pt.bw < TargetBw THEN TargetBw - pt.bw ELSE pt.bw - TargetBw

\* Mutant: the first point that is better than the first one wins.
find_data_point_First(pts) ==
    IF \E j \in 2..Len(pts) : Distance(pts[j]) < TargetBw
      THEN Min({j \in 2..Len(pts) : Distance(pts[j]) < TargetBw}) ELSE 1

\* The scan starts with point 0 and an error as large as the target.
find_data_point(pts) ==
    LET best[j \in 1..Len(pts)] ==
          IF j = 1 THEN [point |-> 1, error |-> TargetBw]
          ELSE IF Distance(pts[j]) < best[j - 1].error
                 THEN [point |-> j, error |-> Distance(pts[j])] ELSE best[j - 1]
    IN best[Len(pts)].point

\* __set_read_bw without a model takes the static value, 0.
ThrottleValue(p) ==
    IF ~enabled[p] THEN Full
    ELSE IF table[p] = <<>> THEN 0 ELSE table[p][find_data_point(table[p])].reg

\* A bus that is not known is left alone.
set_read_bw(p) ==
    /\ At(p, "apply")
    /\ LET x == mc_pci_regs[p][NodeList[k[p]]] IN
       Write(p, IF x = None THEN <<>> ELSE set_throttle_register(x, ThrottleValue(p)))
    /\ IF k[p] = Len(NodeList)
         THEN k' = [k EXCEPT ![p] = 1] /\ GoTo(p, "running")
         ELSE k' = [k EXCEPT ![p] = @ + 1] /\ UNCHANGED pc
    /\ UNCHANGED <<host, b, Memory, config>>

-----------------------------------------------------------------------------
(* The end *)

\* A process without bandwidth emulation writes no register when it ends.
Finish(p) ==
    /\ At(p, "running")
    /\ IF enabled[p]
         THEN GoTo(p, "ending") /\ UNCHANGED <<writes, b, k, Memory, enabled>>
         ELSE Vanish(p)
    /\ UNCHANGED <<host, ghosts>>

\* Mutant: only the first node is unthrottled.
Finalize_FirstNode(p) ==
    /\ At(p, "ending") /\ k[p] = 1
    /\ mc_pci_regs[p][NodeList[k[p]]] # None
    /\ Write(p, set_throttle_register(mc_pci_regs[p][NodeList[k[p]]], Full))
    /\ k' = [k EXCEPT ![p] = Len(NodeList) + 1]
    /\ UNCHANGED <<host, pc, b, Memory, config>>

\* finalize lifts the throttle of every node, whoever else still runs.
Finalize(p) ==
    /\ At(p, "ending") /\ k[p] <= Len(NodeList)
    /\ mc_pci_regs[p][NodeList[k[p]]] # None
    /\ Write(p, set_throttle_register(mc_pci_regs[p][NodeList[k[p]]], Full))
    /\ k' = [k EXCEPT ![p] = @ + 1]
    /\ UNCHANGED <<host, pc, b, Memory, config>>

Finalized(p) ==
    /\ At(p, "ending") /\ k[p] > Len(NodeList)
    /\ Vanish(p)
    /\ UNCHANGED <<host, ghosts>>

\* A process is killed, or uses the registers of a node it does not know.
Die(p) ==
    /\ pc[p] # "off"
    /\ lost' = TRUE
    /\ Vanish(p)
    /\ UNCHANGED <<host, starts, alone, overlap>>

Step(p) ==
    \/ set_pci(p) \/ Start(p)
    \/ LoadTopology(p) \/ NoTopology(p)
    \/ Probe(p) \/ Compare(p) \/ Attach(p) \/ ResetBus(p)
    \/ OpenTopology(p) \/ SaveTopology(p)
    \/ LoadModel(p) \/ TrainReset(p) \/ TrainSet(p) \/ TrainMeasure(p) \/ SaveModel(p)
    \/ set_read_bw(p)
    \/ Finish(p) \/ Finalize(p) \/ Finalized(p)
    \/ Die(p)

Next == \E p \in Processes : Step(p)

Spec == Init /\ [][Next]_vars

-----------------------------------------------------------------------------
(* Properties *)

Values == 0..(Full + Increment)
Points == [reg : Values, bw : Nat]
Locations == {"off", "topology", "probe", "compare", "attach", "reset", "save_topology",
              "write_topology", "model", "train", "measure", "save", "apply", "running", "ending"}

TypeOK ==
    /\ reg \in [Buses -> [Chs -> Values]]
    /\ mc_pci_file \in [Nodes -> Buses \cup {None}] \cup {None}
    /\ model_file \in Seq(Points)
    /\ pc \in [Processes -> Locations]
    /\ writes \in [Processes -> Seq([bus : Buses, channel : Chs, val : Values])]
    /\ b \in [Processes -> Nat] /\ k \in [Processes -> Nat]
    /\ mc_pci_regs \in [Processes -> [Nodes -> Buses \cup {None}]]
    /\ max_local_rbw \in [Processes -> Nat]
    /\ local_node \in [Processes -> Nodes \cup {None}]
    /\ count \in [Processes -> 0..Len(NodeList)]
    /\ table \in [Processes -> Seq(Points)]
    /\ enabled \in [Processes -> BOOLEAN]
    /\ starts \in Nat /\ alone \in [Processes -> BOOLEAN]
    /\ overlap \in BOOLEAN /\ lost \in BOOLEAN

Follows(pt, prev) ==
    \/ pt.reg = prev.reg + Increment
    \/ prev.reg >= Full /\ pt.reg = InitialValue

\* What is written to the two files is used for ever after.  A process whose
\* search no other one disturbed (none wrote a register since it started, none
\* ever set up at the same time, none died) saves the real topology.  A process
\* whose training no other one disturbed, and which goes by the real topology,
\* adds to the model file the bandwidth that all channels let through at each
\* value, the values rising from the initial one without a gap, also between the
\* parts it is written in.  Nothing is said of two processes that train at once:
\* each adds a table of its own to the file, measured on registers both wrote.
FilesAreTrue ==
    [][\A p \in Processes :
        /\ SaveTopology(p) /\ alone[p] /\ ~lost /\ ~overlap => mc_pci_file' = BusOf
        /\ SaveModel(p) /\ alone[p] /\ mc_pci_regs[p] = BusOf =>
             LET old == Len(model_file) IN
             \A j \in (old + 1)..Len(model_file') :
                /\ \E d \in Jitter : model_file'[j].bw = Bandwidth[model_file'[j].reg] + d
                /\ j > old + 1 => Follows(model_file'[j], model_file'[j - 1])
                /\ j = old + 1 /\ b[p] > 1 => Follows(model_file'[j], table[p][b[p] - 1])
                /\ j = old + 1 /\ b[p] = 1 => model_file'[j].reg = InitialValue]_vars

Holds(x, pt) == \A c \in Chs : reg[x][c] = pt.reg

\* While no other process writes a register, what a process has set holds.
Settled(p, n) == At(p, "running") /\ enabled[p] /\ mc_pci_regs[p][n] # None /\ alone[p]

\* What the search can end at: it compares every point but the first, which
\* stands in when all others are at least the target away from the target.
ClosestAfterFirst(pts, j) ==
    IF j = 1 THEN \A i \in 2..Len(pts) : Distance(pts[i]) >= TargetBw
    ELSE \A i \in 2..Len(pts) : Distance(pts[j]) <= Distance(pts[i])

\* While no other process writes a register, all channels of the controllers of
\* a process hold the value of the closest point to its target among the points
\* after the first.  It is not the "one closest" of "all points" (model_bw.c:168):
\* a first point that is closer still is passed over.
ThrottledToClosestAfterFirst ==
    \A p \in Processes, n \in Nodes :
        Settled(p, n) =>
            \E j \in 1..Len(table[p]) :
                ClosestAfterFirst(table[p], j) /\ Holds(mc_pci_regs[p][n], table[p][j])

\* The last process to end leaves no controller throttled, unless one died or
\* two were setting up at once.
LastOneUnthrottles ==
    (\A p \in Processes : pc[p] = "off") /\ ~lost /\ ~overlap =>
        \A x \in Buses, c \in Chs : reg[x][c] = Full
=============================================================================
