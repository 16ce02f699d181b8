------------------------ MODULE MemoryThrottleProofs ------------------------
(***************************************************************************)
(* Proofs about MemoryThrottle, for any number of processes, nodes,        *)
(* controllers and channels.                                               *)
(*   TypeCorrect      the types, with the ranges of the loop indices and   *)
(*                    the data a process must have (IInv),                 *)
(*   TargetsReached   the throttle of a target.  Settles(p, x, v) speaks   *)
(*                    of the calls of the driver p has still to make: once *)
(*                    they are made, bus x is at v on all channels,        *)
(*   LastUnthrottles  whatever is throttled has an owner that is going to  *)
(*                    lift it (Owed),                                      *)
(*   FilesStayTrue    the table is what was measured so far and the bus is *)
(*                    at its last value (TrainedWell); the buses before b  *)
(*                    are attached to their nodes (SearchedWell).          *)
(***************************************************************************)
EXTENDS MemoryThrottle, FiniteSetTheorems, SequenceTheorems, WellFoundedInduction, TLAPS

USE DEF Locations

\* A call of the driver that is still to be made.
Writings == [bus : Buses, channel : Chs, val : Values]

\* The loop indices are in their ranges.
InRange(p) ==
    /\ pc[p] \in {"probe", "reset"} => k[p] \in 1..Len(BusList)
    /\ pc[p] \in {"compare", "model", "train", "measure", "save", "apply"}
         => k[p] \in 1..Len(NodeList)
    /\ pc[p] = "ending" => k[p] \in 1..(Len(NodeList) + 1)
    /\ pc[p] \in {"off", "topology", "attach", "save_topology", "write_topology", "running"}
         => k[p] = 1
    /\ pc[p] \in {"probe", "compare", "attach"}
         => b[p] \in 1..Len(BusList) /\ count[p] < Len(NodeList)
    /\ pc[p] = "save" => b[p] \in 1..Len(table[p])
    /\ pc[p] \notin {"probe", "compare", "attach", "save"} => b[p] = 1

\* A process starts from nothing.
Fresh(p) ==
    pc[p] \in {"off", "topology"} =>
        /\ writes[p] = <<>> /\ mc_pci_regs[p] = Unknown /\ table[p] = <<>>
        /\ max_local_rbw[p] = 0 /\ local_node[p] = None /\ count[p] = 0 /\ ~enabled[p]

\* What a process uses is there.
HasData(p) ==
    /\ pc[p] \in {"train", "measure", "save"} => Trained(p) # None
    /\ pc[p] = "measure" => table[p] # <<>>
    /\ pc[p] = "write_topology" => writes[p] = <<>>
    /\ pc[p] = "model" /\ k[p] > 1 => table[p] # <<>>
    /\ pc[p] \in {"apply", "running"} /\ enabled[p] => table[p] # <<>>

Local(p) == InRange(p) /\ Fresh(p) /\ HasData(p)

IInv == TypeOK /\ \A p \in Processes : Local(p)

-----------------------------------------------------------------------------
LEMMA SmallestExists ==
    ASSUME NEW S \in SUBSET Nat, S # {}
    PROVE  \E i \in S : \A j \in S : i <= j
<1>1. IsWellFoundedOn(OpToRel(<, Nat), Nat)
  BY NatLessThanWellFounded
<1>2. PICK i \in S : \A j \in S : ~(<<j, i>> \in OpToRel(<, Nat))
  BY <1>1, WFMin
<1>3. \A j \in S : ~(j < i)
  BY <1>2 DEF OpToRel
<1> QED
  BY <1>3

LEMMA Lists ==
    /\ Len(NodeList) \in Nat \ {0} /\ \A i \in 1..Len(NodeList) : NodeList[i] \in Nodes
    /\ Len(BusList) \in Nat /\ \A i \in 1..Len(BusList) : BusList[i] \in Buses
  BY ThrottleAssumption

LEMMA Registers ==
    /\ Full \in Values /\ InitialValue \in Values /\ 0 \in Values
    /\ \A v \in Values : NextValue(v) \in Values
    /\ InitialValue < Full /\ Full \in Nat /\ InitialValue \in Nat /\ 1 \in Chs
  BY ThrottleAssumption DEF Values, NextValue, Chs

LEMMA NaturalValues == Values \in SUBSET Nat
  BY ThrottleAssumption DEF Values

(* The calls for one register. *)
LEMMA Calls ==
    ASSUME NEW x \in Buses, NEW v \in Values
    PROVE  /\ set_throttle_register(x, v) \in Seq(Writings)
           /\ Len(set_throttle_register(x, v)) = Channels
           /\ \A j \in 1..Channels :
                set_throttle_register(x, v)[j] = [bus |-> x, channel |-> j, val |-> v]
<1> DEFINE s == set_throttle_register(x, v)
<1>1. Channels \in Nat
  BY ThrottleAssumption
<1>2. s = [c \in 1..Channels |-> [bus |-> x, channel |-> c, val |-> v]]
  BY DEF set_throttle_register, Chs
<1>3. \A c \in 1..Channels : [bus |-> x, channel |-> c, val |-> v] \in Writings
  BY DEF Writings, Chs
<1> HIDE DEF s
<1>4. s \in [1..Channels -> Writings]
  BY <1>2, <1>3
<1>5. s \in Seq(Writings)
  BY <1>1, <1>4, SeqDef
<1>6. Len(s) = Channels
  BY <1>1, <1>4, <1>5, LenProperties
<1>7. \A j \in 1..Channels : s[j] = [bus |-> x, channel |-> j, val |-> v]
  BY <1>2
<1> QED
  BY <1>5, <1>6, <1>7 DEF s

LEMMA ResetCalls ==
    ASSUME NEW x \in Buses
    PROVE  Reset(x) \in Seq(Writings)
  BY Calls, Registers DEF Reset

LEMMA NextValueTyped ==
    ASSUME TypeOK, NEW x \in Buses
    PROVE  NextValue(get_throttle_register(x)) \in Values
<1>1. reg \in [Buses -> [Chs -> Values]] /\ 1 \in Chs
  BY Registers DEF TypeOK
<1>2. get_throttle_register(x) \in Values
  BY <1>1 DEF get_throttle_register, get_pci
<1> QED
  BY <1>2, Registers

LEMMA Measurement ==
    ASSUME TypeOK, NEW n \in Nodes, NEW rbw \in measure_read_bw(n)
    PROVE  rbw \in Nat
<1> DEFINE S == {reg[BusOf[n]][c] : c \in Chs}
<1>1. BusOf[n] \in Buses
  BY ThrottleAssumption
<1>2. Values \in SUBSET Nat
  BY NaturalValues
<1>3. \A c \in Chs : reg[BusOf[n]][c] \in Values
  BY <1>1 DEF TypeOK
<1>4. S \in SUBSET Values /\ S # {}
  BY <1>3, Registers
<1>5. S \in SUBSET Nat
  BY <1>2, <1>4
<1>6. PICK m \in S : \A j \in S : m <= j
  BY <1>4, <1>5, SmallestExists
<1>7. Min(S) \in Values
  BY <1>4, <1>6 DEF Min
<1>8. Bandwidth[Min(S)] \in Nat
  BY <1>7, ThrottleAssumption DEF Values
<1>9. rbw \in {Bandwidth[Min(S)] + d : d \in Jitter}
  BY DEF measure_read_bw
<1> HIDE DEF S
<1>10. PICK d \in Jitter : rbw = Bandwidth[Min(S)] + d
  BY <1>9
<1>11. d \in Nat
  BY ThrottleAssumption
<1> QED
  BY <1>8, <1>10, <1>11

(* A step of a process changes its own variables only. *)
LEMMA OthersKeep ==
    ASSUME TypeOK, NEW p \in Processes, Step(p), NEW q \in Processes, q # p
    PROVE  /\ pc'[q] = pc[q] /\ writes'[q] = writes[q] /\ b'[q] = b[q] /\ k'[q] = k[q]
           /\ mc_pci_regs'[q] = mc_pci_regs[q] /\ max_local_rbw'[q] = max_local_rbw[q]
           /\ local_node'[q] = local_node[q] /\ count'[q] = count[q]
           /\ table'[q] = table[q] /\ enabled'[q] = enabled[q]
<1> USE DEF TypeOK, GoTo, Write, Memory, search, config, host, ghosts
<1>1. ASSUME Vanish(p)
      PROVE  /\ pc'[q] = pc[q] /\ writes'[q] = writes[q] /\ b'[q] = b[q] /\ k'[q] = k[q]
             /\ mc_pci_regs'[q] = mc_pci_regs[q] /\ max_local_rbw'[q] = max_local_rbw[q]
             /\ local_node'[q] = local_node[q] /\ count'[q] = count[q]
             /\ table'[q] = table[q] /\ enabled'[q] = enabled[q]
  BY <1>1 DEF Vanish
<1>2. CASE set_pci(p)
  BY <1>2 DEF set_pci
<1>3. CASE Start(p)
  BY <1>3 DEF Start
<1>4. CASE LoadTopology(p)
  BY <1>4 DEF LoadTopology
<1>5. CASE NoTopology(p)
  BY <1>5 DEF NoTopology
<1>6. CASE Probe(p)
  BY <1>6 DEF Probe
<1>7. CASE Compare(p)
  <2>1. UNCHANGED <<writes, b, mc_pci_regs, count, table, enabled>>
    BY <1>7 DEF Compare
  <2>2. pc' = pc \/ pc' = [pc EXCEPT ![p] = "attach"]
    BY <1>7 DEF Compare
  <2>3. k' = [k EXCEPT ![p] = 1] \/ k' = [k EXCEPT ![p] = k[p] + 1]
    BY <1>7 DEF Compare
  <2>4. /\ max_local_rbw'[q] = max_local_rbw[q]
        /\ local_node'[q] = local_node[q]
    BY <1>7 DEF Compare
  <2> QED
    BY <2>1, <2>2, <2>3, <2>4
<1>8. CASE Attach(p)
  BY <1>8, SMTT(20) DEF Attach
<1>9. CASE ResetBus(p)
  BY <1>9 DEF ResetBus
<1>10. CASE SaveTopology(p) \/ Finalized(p) \/ Die(p)
  BY <1>1, <1>10 DEF SaveTopology, Finalized, Die
<1>19. CASE OpenTopology(p)
  BY <1>19 DEF OpenTopology
<1>11. CASE LoadModel(p)
  BY <1>11 DEF LoadModel, NextNode
<1>12. CASE TrainReset(p)
  BY <1>12 DEF TrainReset
<1>13. CASE TrainSet(p)
  BY <1>13 DEF TrainSet
<1>14. CASE TrainMeasure(p)
  BY <1>14, SMTT(20) DEF TrainMeasure
<1>15. CASE SaveModel(p)
  BY <1>15, SMTT(20) DEF SaveModel, NextNode
<1>16. CASE set_read_bw(p)
  BY <1>16 DEF set_read_bw
<1>17. CASE Finish(p)
  BY <1>1, <1>17 DEF Finish
<1>18. CASE Finalize(p)
  BY <1>18 DEF Finalize
<1> QED
  BY <1>2, <1>3, <1>4, <1>5, <1>6, <1>7, <1>8, <1>9, <1>10, <1>11, <1>12, <1>13, <1>14,
     <1>15, <1>16, <1>17, <1>18, <1>19 DEF Step

LEMMA OthersLocal ==
    ASSUME IInv, NEW p \in Processes, Step(p), NEW q \in Processes, q # p
    PROVE  Local(q)'
  BY OthersKeep DEF IInv, Local, InRange, Fresh, HasData, Trained

LEMMA InitIInv == Init => IInv
<1> SUFFICES ASSUME Init PROVE IInv
  OBVIOUS
<1> USE DEF Init
<1>1. TypeOK
  <2>1. reg \in [Buses -> [Chs -> Values]]
    BY Registers
  <2>2. mc_pci_file \in [Nodes -> Buses \cup {None}] \cup {None}
    BY ThrottleAssumption
  <2>3. Unknown \in [Nodes -> Buses \cup {None}]
    BY DEF Unknown
  <2>4. 0 \in 0..Len(NodeList)
    BY Lists
  <2> QED
    BY <2>1, <2>2, <2>3, <2>4, EmptySeq DEF TypeOK
<1>2. \A p \in Processes : Local(p)
  BY Lists DEF Local, InRange, Fresh, HasData
<1> QED
  BY <1>1, <1>2 DEF IInv

-----------------------------------------------------------------------------
(* The scan for the point that is closest to the target. *)

\* What find_data_point makes of point j, given the points before it.
BestAt(g, pts, j) ==
    IF j = 1 THEN [point |-> 1, error |-> TargetBw]
    ELSE IF Distance(pts[j]) < g[j - 1].error
           THEN [point |-> j, error |-> Distance(pts[j])] ELSE g[j - 1]

Scan(g, pts, n) == g = [j \in 1..n |-> BestAt(g, pts, j)]

\* What is known of the scan at point j.
Found(g, pts, j) ==
    /\ g[j].point \in 1..j /\ g[j].error \in Nat
    /\ g[j].point = 1 => g[j].error = TargetBw
    /\ g[j].point # 1 => g[j].error = Distance(pts[g[j].point])
    /\ \A i \in 2..j : g[j].error <= Distance(pts[i])

LEMMA ScanExists ==
    ASSUME NEW pts, NEW n \in Nat
    PROVE  \E g : Scan(g, pts, n)
<1> DEFINE S == {m \in Nat : ~ \E g : Scan(g, pts, m)}
<1> SUFFICES ASSUME n \in S PROVE FALSE
  OBVIOUS
<1>1. PICK m \in S : \A i \in S : m <= i
  BY SmallestExists
<1>2. m \in Nat /\ ~ \E g : Scan(g, pts, m)
  BY <1>1
<1>3. CASE m = 0
  <2>1. Scan([j \in 1..0 |-> 0], pts, 0)
    BY DEF Scan
  <2> QED
    BY <1>2, <1>3, <2>1
<1>4. CASE m # 0
  <2>1. m - 1 \in Nat /\ m - 1 \notin S
    BY <1>1, <1>2, <1>4
  <2>2. PICK h : Scan(h, pts, m - 1)
    BY <2>1
  <2> DEFINE g == [j \in 1..m |-> BestAt(h, pts, j)]
  <2>3. ASSUME NEW j \in 1..m
        PROVE  g[j] = BestAt(g, pts, j)
    <3>1. CASE j = 1
      BY <3>1 DEF BestAt
    <3>2. CASE j # 1
      <4>1. j - 1 \in 1..(m - 1) /\ j - 1 \in 1..m
        BY <1>2, <3>2
      <4>2. h[j - 1] = BestAt(h, pts, j - 1)
        BY <2>2, <4>1 DEF Scan
      <4>3. g[j - 1] = h[j - 1]
        BY <4>1, <4>2
      <4>4. BestAt(g, pts, j) = BestAt(h, pts, j)
        BY <4>3 DEF BestAt
      <4> QED
        BY <4>4
    <3> QED
      BY <3>1, <3>2
  <2>4. g = [j \in 1..m |-> g[j]]
    OBVIOUS
  <2> HIDE DEF g
  <2>5. Scan(g, pts, m)
    BY <2>3, <2>4 DEF Scan
  <2> QED
    BY <1>2, <2>5
<1> QED
  BY <1>3, <1>4

LEMMA Distances ==
    ASSUME NEW pt \in Points
    PROVE  Distance(pt) \in Nat
<1>1. pt.bw \in Nat /\ TargetBw \in Nat
  BY ThrottleAssumption DEF Points
<1> QED
  BY <1>1 DEF Distance

LEMMA ScanFinds ==
    ASSUME NEW pts \in Seq(Points), NEW g, Scan(g, pts, Len(pts)), NEW n \in 1..Len(pts)
    PROVE  Found(g, pts, n)
<1> DEFINE S == {m \in Nat : m \in 1..Len(pts) /\ ~Found(g, pts, m)}
<1>0. Len(pts) \in Nat /\ TargetBw \in Nat
  BY LenProperties, ThrottleAssumption
<1> SUFFICES ASSUME n \in S PROVE FALSE
  BY <1>0
<1>1. PICK m \in S : \A i \in S : m <= i
  BY SmallestExists
<1>2. m \in Nat /\ m \in 1..Len(pts) /\ ~Found(g, pts, m)
  BY <1>1
<1>3. g[m] = BestAt(g, pts, m)
  BY <1>2 DEF Scan
<1>4. CASE m = 1
  <2>1. g[m] = [point |-> 1, error |-> TargetBw]
    BY <1>3, <1>4 DEF BestAt
  <2>2. 2..m = {}
    BY <1>4
  <2>3. Found(g, pts, m)
    BY <1>0, <1>4, <2>1, <2>2 DEF Found
  <2> QED
    BY <1>2, <2>3
<1>5. CASE m # 1
  <2> DEFINE d == Distance(pts[m])  e == g[m - 1].error
  <2>1. m - 1 \in Nat /\ m - 1 \in 1..Len(pts) /\ m - 1 \notin S
    BY <1>0, <1>1, <1>2, <1>5
  <2>2. Found(g, pts, m - 1)
    BY <2>1
  <2>3. d \in Nat
    BY <1>2, Distances, ElementOfSeq
  <2>4. e \in Nat /\ \A i \in 2..(m - 1) : e <= Distance(pts[i])
    BY <2>2 DEF Found
  <2>5. \A i \in 2..(m - 1) : Distance(pts[i]) \in Nat
    BY <1>0, <1>2, Distances, ElementOfSeq
  <2>6. g[m] = IF d < e THEN [point |-> m, error |-> d] ELSE g[m - 1]
    BY <1>3, <1>5 DEF BestAt
  <2>7. \A i \in 2..m : i \in 2..(m - 1) \/ i = m
    BY <1>2
  <2>8. CASE d < e
    <3>1. g[m].point = m /\ g[m].error = d
      BY <2>6, <2>8
    <3>2. \A i \in 2..m : d <= Distance(pts[i])
      <4> TAKE i \in 2..m
      <4>1. CASE i = m
        BY <2>3, <4>1
      <4>2. CASE i \in 2..(m - 1)
        BY <2>3, <2>4, <2>5, <2>8, <4>2
      <4> QED
        BY <2>7, <4>1, <4>2
    <3>3. m \in 1..m
      BY <1>2
    <3> HIDE DEF d
    <3>4. \A i \in 2..m : g[m].error <= Distance(pts[i])
      BY <3>1, <3>2
    <3>5. g[m].error = Distance(pts[g[m].point])
      BY <3>1 DEF d
    <3>6. Found(g, pts, m)
      BY <1>5, <2>3, <3>1, <3>3, <3>4, <3>5 DEF Found
    <3> QED
      BY <1>2, <3>6
  <2>9. CASE ~(d < e)
    <3>1. g[m] = g[m - 1]
      BY <2>6, <2>9
    <3>2. \A i \in 2..m : e <= Distance(pts[i])
      BY <2>3, <2>4, <2>7, <2>9
    <3>3. \A i \in 1..(m - 1) : i \in 1..m
      BY <1>2
    <3>4. Found(g, pts, m)
      BY <2>2, <3>1, <3>2, <3>3 DEF Found
    <3> QED
      BY <1>2, <3>4
  <2> QED
    BY <2>8, <2>9
<1> QED
  BY <1>4, <1>5

\* find_data_point returns a point of the table: the closest after the first, or
\* the first when no other is less than the target away.
LEMMA FindsClosestAfterFirst ==
    ASSUME NEW pts \in Seq(Points), pts # <<>>
    PROVE  find_data_point(pts) \in 1..Len(pts) /\ ClosestAfterFirst(pts, find_data_point(pts))
<1> DEFINE n == Len(pts)
<1>1. n \in Nat \ {0}
  BY EmptySeq, LenProperties
<1> DEFINE g == CHOOSE h : h = [j \in 1..n |-> BestAt(h, pts, j)]
<1>2. \E h : h = [j \in 1..n |-> BestAt(h, pts, j)]
  BY <1>1, ScanExists DEF Scan
<1>3. Scan(g, pts, n)
  BY <1>2 DEF Scan
<1>4. find_data_point(pts) = g[n].point
  BY DEF find_data_point, BestAt
<1> HIDE DEF g
<1>5. Found(g, pts, n)
  BY <1>1, <1>3, ScanFinds
<1>6. \A i \in 2..n : Distance(pts[i]) \in Nat
  BY <1>1, Distances, ElementOfSeq
<1> QED
  BY <1>1, <1>4, <1>5, <1>6 DEF Found, ClosestAfterFirst

-----------------------------------------------------------------------------
(* Type correctness: one lemma per action. *)

LEMMA VanishTypes ==
    ASSUME IInv, NEW p \in Processes, Vanish(p)
    PROVE  /\ pc' \in [Processes -> Locations]
           /\ writes' \in [Processes -> Seq(Writings)]
           /\ b' \in [Processes -> Nat] /\ k' \in [Processes -> Nat]
           /\ mc_pci_regs' \in [Processes -> [Nodes -> Buses \cup {None}]]
           /\ max_local_rbw' \in [Processes -> Nat]
           /\ local_node' \in [Processes -> Nodes \cup {None}]
           /\ count' \in [Processes -> 0..Len(NodeList)]
           /\ table' \in [Processes -> Seq(Points)]
           /\ enabled' \in [Processes -> BOOLEAN]
           /\ Local(p)'
<1> USE DEF IInv, TypeOK, Vanish, GoTo, Write
<1>1. Unknown \in [Nodes -> Buses \cup {None}]
  BY DEF Unknown
<1>2. <<>> \in Seq(Writings) /\ <<>> \in Seq(Points)
  BY EmptySeq
<1>3. writes' \in [Processes -> Seq(Writings)]
  BY <1>2 DEF Writings
<1>4. table' \in [Processes -> Seq(Points)]
  BY <1>2
<1>5. mc_pci_regs' \in [Processes -> [Nodes -> Buses \cup {None}]]
  BY <1>1
<1>6. count' \in [Processes -> 0..Len(NodeList)]
  BY Lists
<1>7. Local(p)'
  BY Lists DEF Local, InRange, Fresh, HasData
<1> QED
  BY <1>3, <1>4, <1>5, <1>6, <1>7

LEMMA SetPciKeeps ==
    ASSUME IInv, NEW p \in Processes, set_pci(p)
    PROVE  TypeOK' /\ Local(p)'
<1> USE DEF IInv, TypeOK, set_pci
<1> DEFINE w == Head(writes[p])
<1>1. writes[p] \in Seq(Writings) /\ writes[p] # <<>>
  BY DEF Writings
<1>2. w \in Writings
  BY <1>1, HeadTailProperties
<1>3. Tail(writes[p]) \in Seq(Writings)
  BY <1>1, HeadTailProperties
<1>4. reg' = [reg EXCEPT ![w.bus][w.channel] = w.val]
  OBVIOUS
<1>5. w.bus \in Buses /\ w.channel \in Chs /\ w.val \in Values
  BY <1>2 DEF Writings
<1> HIDE DEF w
<1>6. reg' \in [Buses -> [Chs -> Values]]
  <2>1. reg \in [Buses -> [Chs -> Values]]
    OBVIOUS
  <2>2. [reg[w.bus] EXCEPT ![w.channel] = w.val] \in [Chs -> Values]
    BY <1>5, <2>1
  <2> QED
    BY <1>4, <1>5, <2>1, <2>2
<1>7. writes' \in [Processes -> Seq(Writings)]
  BY <1>3 DEF Writings
<1>8. alone' \in [Processes -> BOOLEAN]
  OBVIOUS
<1>9. TypeOK'
  BY <1>6, <1>7, <1>8 DEF search, Writings
<1>10. pc[p] \notin {"off", "topology"}
  BY <1>1 DEF Local, Fresh
<1>11. Local(p)'
  BY <1>10 DEF Local, InRange, Fresh, HasData, Trained, search
<1> QED
  BY <1>9, <1>11

LEMMA StartKeeps ==
    ASSUME IInv, NEW p \in Processes, Start(p)
    PROVE  TypeOK' /\ Local(p)'
<1> USE DEF IInv, TypeOK, Start, GoTo, host, Memory, search
<1>3. starts' \in Nat /\ overlap' \in BOOLEAN /\ alone' \in [Processes -> BOOLEAN]
  BY DEF SettingUp
<1>1. TypeOK'
  BY <1>3
<1>2. Local(p)'
  BY DEF Local, InRange, Fresh, HasData
<1> QED
  BY <1>1, <1>2

LEMMA LoadTopologyKeeps ==
    ASSUME IInv, NEW p \in Processes, LoadTopology(p)
    PROVE  TypeOK' /\ Local(p)'
<1> USE DEF IInv, TypeOK, LoadTopology, At, GoTo, host, search, ghosts
<1>1. mc_pci_regs' \in [Processes -> [Nodes -> Buses \cup {None}]]
  OBVIOUS
<1>2. PICK e \in BOOLEAN : /\ enabled' = [enabled EXCEPT ![p] = e]
                           /\ pc' = [pc EXCEPT ![p] = IF e THEN "model" ELSE "apply"]
  OBVIOUS
<1>3. TypeOK'
  BY <1>1, <1>2
<1>4. Local(p)'
  BY <1>2, Lists DEF Local, InRange, Fresh, HasData
<1> QED
  BY <1>3, <1>4

LEMMA NoTopologyKeeps ==
    ASSUME IInv, NEW p \in Processes, NoTopology(p)
    PROVE  TypeOK' /\ Local(p)'
<1> USE DEF IInv, TypeOK, NoTopology, At, GoTo, host, search, Memory, config, ghosts
<1>1. TypeOK'
  OBVIOUS
<1>2. BusList # <<>> => 1 \in 1..Len(BusList)
  BY ThrottleAssumption, EmptySeq, LenProperties
<1>3. count[p] = 0 /\ b[p] = 1 /\ k[p] = 1
  BY DEF Local, InRange, Fresh
<1>4. Local(p)'
  BY <1>2, <1>3, Lists DEF Local, InRange, Fresh, HasData
<1> QED
  BY <1>1, <1>4

LEMMA ProbeKeeps ==
    ASSUME IInv, NEW p \in Processes, Probe(p)
    PROVE  TypeOK' /\ Local(p)'
<1> USE DEF IInv, TypeOK, Probe, At, GoTo, Write, host, search, Memory, config, ghosts
<1>1. k[p] \in 1..Len(BusList) /\ BusList[k[p]] \in Buses
  BY Lists DEF Local, InRange
<1> DEFINE s == IF k[p] = b[p] THEN Reset(BusList[k[p]])
                ELSE set_throttle_register(BusList[k[p]], InitialValue)
<1>2. s \in Seq(Writings)
  BY <1>1, Calls, ResetCalls, Registers
<1>3. writes' = [writes EXCEPT ![p] = s]
  OBVIOUS
<1> HIDE DEF s
<1>4. writes' \in [Processes -> Seq(Writings)]
  BY <1>2, <1>3 DEF Writings
<1>5. k' \in [Processes -> Nat]
  <2>1. k[p] + 1 \in Nat /\ 1 \in Nat
    BY <1>1, Lists
  <2>2. k' = [k EXCEPT ![p] = 1] \/ k' = [k EXCEPT ![p] = k[p] + 1]
    OBVIOUS
  <2>3. k \in [Processes -> Nat]
    OBVIOUS
  <2> HIDE DEF IInv, TypeOK, Probe, At, GoTo, host, search, Memory, config, ghosts
  <2> QED
    BY <2>1, <2>2, <2>3
<1>6. TypeOK'
  <2>1. pc' = pc \/ pc' = [pc EXCEPT ![p] = "compare"]
    OBVIOUS
  <2>2. pc' \in [Processes -> Locations]
    BY <2>1 DEF Locations
  <2>3. UNCHANGED <<reg, mc_pci_file, model_file, b, mc_pci_regs, max_local_rbw, local_node, count, table, enabled, starts, alone, overlap, lost>>
    OBVIOUS
  <2> QED
    BY <1>4, <1>5, <2>2, <2>3 DEF Writings
<1>7. Local(p)'
  <2>1. InRange(p)'
    BY <1>1, Lists DEF Local, InRange
  <2>2. Fresh(p)'
    BY DEF Fresh
  <2>3. HasData(p)'
    BY DEF HasData
  <2> QED
    BY <2>1, <2>2, <2>3 DEF Local
<1> QED
  BY <1>6, <1>7

LEMMA CompareKeeps ==
    ASSUME IInv, NEW p \in Processes, Compare(p)
    PROVE  TypeOK' /\ Local(p)'
<1> USE DEF IInv, TypeOK, Compare, At, GoTo, host, config, ghosts
<1>1. k[p] \in 1..Len(NodeList) /\ NodeList[k[p]] \in Nodes
  BY Lists DEF Local, InRange
<1>2. PICK rbw \in measure_read_bw(NodeList[k[p]]) :
         IF Better(rbw, max_local_rbw[p])
           THEN /\ max_local_rbw' = [max_local_rbw EXCEPT ![p] = rbw]
                /\ local_node' = [local_node EXCEPT ![p] = NodeList[k[p]]]
           ELSE UNCHANGED <<max_local_rbw, local_node>>
  OBVIOUS
<1>3. rbw \in Nat
  BY <1>1, Measurement
<1>4. max_local_rbw' \in [Processes -> Nat]
  <2>1. max_local_rbw' = max_local_rbw \/ max_local_rbw' = [max_local_rbw EXCEPT ![p] = rbw]
    BY <1>2
  <2> QED
    BY <1>3, <2>1
<1>8. local_node' \in [Processes -> Nodes \cup {None}]
  <2>1. local_node' = local_node \/ local_node' = [local_node EXCEPT ![p] = NodeList[k[p]]]
    BY <1>2
  <2> QED
    BY <1>1, <2>1
<1>5. k' \in [Processes -> Nat]
  <2>1. k[p] + 1 \in Nat /\ 1 \in Nat
    BY <1>1, Lists
  <2>2. k' = [k EXCEPT ![p] = 1] \/ k' = [k EXCEPT ![p] = k[p] + 1]
    OBVIOUS
  <2>3. k \in [Processes -> Nat]
    OBVIOUS
  <2> HIDE DEF IInv, TypeOK, Compare, At, GoTo, host, search, Memory, config, ghosts
  <2> QED
    BY <2>1, <2>2, <2>3
<1>6. TypeOK'
  <2>1. pc' = pc \/ pc' = [pc EXCEPT ![p] = "attach"]
    OBVIOUS
  <2>2. pc' \in [Processes -> Locations]
    BY <2>1 DEF Locations
  <2>3. UNCHANGED <<reg, mc_pci_file, model_file, writes, b, mc_pci_regs, count, table, enabled, starts, alone, overlap, lost>>
    OBVIOUS
  <2> QED
    BY <1>4, <1>5, <1>8, <2>2, <2>3 DEF Writings
<1>7. Local(p)'
  <2>1. InRange(p)'
    <3>1. pc[p] = "compare" /\ b' = b /\ count' = count /\ table' = table
          /\ b[p] \in 1..Len(BusList) /\ count[p] < Len(NodeList)
      BY DEF Local, InRange
    <3>2. Len(NodeList) \in Nat
      BY Lists
    <3>3. \/ pc'[p] = "attach" /\ k'[p] = 1
          \/ pc'[p] = "compare" /\ k'[p] = k[p] + 1 /\ k[p] # Len(NodeList)
      BY <1>2, <3>1
    <3>4. \/ pc'[p] = "attach" /\ k'[p] = 1
          \/ pc'[p] = "compare" /\ k'[p] \in 1..Len(NodeList)
      BY <1>1, <3>2, <3>3
    <3> QED
      BY <3>1, <3>4 DEF InRange
  <2>2. Fresh(p)'
    BY DEF Fresh
  <2>3. HasData(p)'
    BY DEF HasData
  <2> QED
    BY <2>1, <2>2, <2>3 DEF Local
<1> QED
  BY <1>6, <1>7

LEMMA AttachKeeps ==
    ASSUME IInv, NEW p \in Processes, Attach(p)
    PROVE  TypeOK' /\ Local(p)'
<1> DEFINE last == count'[p] = Len(NodeList) \/ b[p] = Len(BusList)
           e == local_node[p]
           found == [mc_pci_regs[p] EXCEPT ![e] = BusList[b[p]]]
<1>1. b[p] \in 1..Len(BusList) /\ BusList[b[p]] \in Buses /\ count[p] < Len(NodeList)
      /\ k[p] = 1 /\ 1 \in 1..Len(BusList) /\ pc[p] = "attach"
  BY Lists DEF IInv, Local, InRange, Attach, At
<1>2. /\ b \in [Processes -> Nat] /\ e \in Nodes \cup {None} /\ count \in [Processes -> 0..Len(NodeList)]
      /\ mc_pci_regs \in [Processes -> [Nodes -> Buses \cup {None}]]
      /\ max_local_rbw \in [Processes -> Nat]
      /\ pc \in [Processes -> Locations]
  BY DEF IInv, TypeOK
<1>3. /\ e = None => mc_pci_regs' = mc_pci_regs /\ count' = count
      /\ e # None => /\ mc_pci_regs' = [mc_pci_regs EXCEPT ![p] = found]
                     /\ count' = [count EXCEPT ![p] = count[p] + 1]
      /\ max_local_rbw' = [max_local_rbw EXCEPT ![p] = 0]
      /\ last => b' = [b EXCEPT ![p] = 1] /\ pc' = [pc EXCEPT ![p] = "reset"]
      /\ ~last => b' = [b EXCEPT ![p] = b[p] + 1] /\ pc' = [pc EXCEPT ![p] = "probe"]
  BY DEF Attach, GoTo
<1>4. e # None => found \in [Nodes -> Buses \cup {None}]
  BY <1>1, <1>2
<1> HIDE DEF e, found
<1>5. mc_pci_regs' \in [Processes -> [Nodes -> Buses \cup {None}]]
  BY <1>2, <1>3, <1>4
<1>6. Len(NodeList) \in Nat /\ Len(BusList) \in Nat /\ b[p] \in Nat /\ count[p] + 1 \in 0..Len(NodeList)
  BY <1>1, <1>2, Lists
<1>7. count' \in [Processes -> 0..Len(NodeList)]
  <2> DEFINE C == 0..Len(NodeList)
  <2>1. count \in [Processes -> C] /\ count[p] + 1 \in C
    BY <1>2, <1>6
  <2>2. count' = count \/ count' = [count EXCEPT ![p] = count[p] + 1]
    BY <1>3
  <2> HIDE DEF C
  <2>3. count' \in [Processes -> C]
    BY <2>1, <2>2
  <2> QED
    BY <2>3 DEF C
<1>13. count'[p] <= Len(NodeList) /\ count'[p] \in Nat
  BY <1>6, <1>7
<1>8. \/ pc'[p] = "reset" /\ b'[p] = 1
      \/ pc'[p] = "probe" /\ b'[p] \in 1..Len(BusList) /\ count'[p] < Len(NodeList)
  <2>1. CASE last
    BY <1>2, <1>3, <2>1
  <2>2. CASE ~last
    BY <1>1, <1>2, <1>3, <1>6, <1>13, <2>2
  <2> QED
    BY <2>1, <2>2
<1> HIDE DEF last
<1>9. b' \in [Processes -> Nat] /\ max_local_rbw' \in [Processes -> Nat]
  <2>1. b[p] + 1 \in Nat
    BY <1>6
  <2>2. b' = [b EXCEPT ![p] = 1] \/ b' = [b EXCEPT ![p] = b[p] + 1]
    BY <1>3
  <2> DEFINE m == b[p] + 1
  <2>5. m \in Nat
    BY <2>1
  <2>6. b' = [b EXCEPT ![p] = 1] \/ b' = [b EXCEPT ![p] = m]
    BY <2>2
  <2>7. b \in [Processes -> Nat]
    BY <1>2
  <2> HIDE DEF m
  <2>3. b' \in [Processes -> Nat]
    BY <2>5, <2>6, <2>7
  <2>4. max_local_rbw' \in [Processes -> Nat]
    BY <1>2, <1>3
  <2> QED
    BY <2>3, <2>4
<1>10. pc' \in [Processes -> Locations]
  BY <1>2, <1>3
<1>11. TypeOK'
  BY <1>5, <1>7, <1>9, <1>10 DEF IInv, TypeOK, Attach, host, config, ghosts
<1>12. Local(p)'
  BY <1>1, <1>8 DEF IInv, Local, InRange, Fresh, HasData, Attach, At
<1> QED
  BY <1>11, <1>12

LEMMA ResetBusKeeps ==
    ASSUME IInv, NEW p \in Processes, ResetBus(p)
    PROVE  TypeOK' /\ Local(p)'
<1> USE DEF IInv, TypeOK, ResetBus, At, GoTo, Write, host, search, Memory, config, ghosts
<1>1. k[p] \in 1..Len(BusList) /\ BusList[k[p]] \in Buses
  BY Lists DEF Local, InRange
<1>2. Reset(BusList[k[p]]) \in Seq(Writings)
  BY <1>1, ResetCalls
<1>3. writes' \in [Processes -> Seq(Writings)]
  BY <1>2 DEF Writings
<1>4. k' \in [Processes -> Nat]
  <2>1. k[p] + 1 \in Nat /\ 1 \in Nat
    BY <1>1, Lists
  <2>2. k' = [k EXCEPT ![p] = 1] \/ k' = [k EXCEPT ![p] = k[p] + 1]
    OBVIOUS
  <2>3. k \in [Processes -> Nat]
    OBVIOUS
  <2> HIDE DEF IInv, TypeOK, ResetBus, At, GoTo, host, search, Memory, config, ghosts
  <2> QED
    BY <2>1, <2>2, <2>3
<1>5. TypeOK'
  <2>1. pc' = pc \/ pc' = [pc EXCEPT ![p] = "save_topology"]
    OBVIOUS
  <2>2. pc' \in [Processes -> Locations]
    BY <2>1 DEF Locations
  <2>3. UNCHANGED <<reg, mc_pci_file, model_file, b, mc_pci_regs, max_local_rbw, local_node, count, table, enabled, starts, alone, overlap, lost>>
    OBVIOUS
  <2> QED
    BY <1>3, <1>4, <2>2, <2>3 DEF Writings
<1>6. Local(p)'
  <2>1. InRange(p)'
    <3>1. pc[p] = "reset" /\ b[p] = 1 /\ b' = b
      BY DEF Local, InRange
    <3>2. Len(BusList) \in Nat
      BY Lists
    <3>3. \/ pc'[p] = "save_topology" /\ k'[p] = 1
          \/ pc'[p] = "reset" /\ k'[p] = k[p] + 1 /\ k[p] # Len(BusList)
      BY <3>1
    <3>4. \/ pc'[p] = "save_topology" /\ k'[p] = 1
          \/ pc'[p] = "reset" /\ k'[p] \in 1..Len(BusList)
      BY <1>1, <3>2, <3>3
    <3> QED
      BY <3>1, <3>4 DEF InRange
  <2>2. Fresh(p)'
    BY DEF Fresh
  <2>3. HasData(p)'
    BY DEF HasData
  <2> QED
    BY <2>1, <2>2, <2>3 DEF Local
<1> QED
  BY <1>5, <1>6

LEMMA OpenTopologyKeeps ==
    ASSUME IInv, NEW p \in Processes, OpenTopology(p)
    PROVE  TypeOK' /\ Local(p)'
<1>1. /\ pc' = [pc EXCEPT ![p] = "write_topology"] /\ mc_pci_file' = Unknown
      /\ pc[p] = "save_topology" /\ writes[p] = <<>>
      /\ UNCHANGED <<reg, model_file, writes, b, k, mc_pci_regs, max_local_rbw, local_node,
                      count, table, enabled, starts, alone, overlap, lost>>
  BY DEF OpenTopology, At, GoTo, Memory, search, config, ghosts
<1>2. Unknown \in [Nodes -> Buses \cup {None}]
  BY DEF Unknown
<1>3. pc' \in [Processes -> Locations]
  BY <1>1 DEF IInv, TypeOK
<1>4. TypeOK'
  BY <1>1, <1>2, <1>3 DEF IInv, TypeOK
<1>5. pc'[p] = "write_topology"
  BY <1>1 DEF IInv, TypeOK
<1>6. Local(p)'
  BY <1>1, <1>5 DEF IInv, Local, InRange, Fresh, HasData
<1> QED
  BY <1>4, <1>6

LEMMA EndKeeps ==
    ASSUME IInv, NEW p \in Processes, SaveTopology(p) \/ Finalized(p) \/ Die(p)
    PROVE  TypeOK' /\ Local(p)'
<1>1. Vanish(p)
  BY DEF SaveTopology, Finalized, Die
<1>4. mc_pci_regs[p] \in [Nodes -> Buses \cup {None}]
  BY DEF IInv, TypeOK
<1>2. /\ mc_pci_file' \in [Nodes -> Buses \cup {None}] \cup {None}
      /\ reg' = reg /\ model_file' = model_file
      /\ starts' = starts /\ alone' = alone /\ overlap' = overlap /\ lost' \in BOOLEAN
  BY <1>4 DEF IInv, TypeOK, SaveTopology, Finalized, Die, host, ghosts
<1>3. TypeOK'
  BY <1>1, <1>2, VanishTypes DEF IInv, TypeOK, Writings
<1> QED
  BY <1>1, <1>3, VanishTypes

LEMMA NextNodeKeeps ==
    ASSUME IInv, NEW p \in Processes, NEW loc, NextNode(p, loc), pc[p] \in {"model", "save"}
    PROVE  /\ k' \in [Processes -> Nat]
           /\ \/ pc' = [pc EXCEPT ![p] = loc] /\ k'[p] = 1
              \/ pc' = [pc EXCEPT ![p] = "model"] /\ k'[p] \in 1..Len(NodeList)
<1>1. k \in [Processes -> Nat] /\ k[p] \in 1..Len(NodeList) /\ Len(NodeList) \in Nat
  BY Lists DEF IInv, TypeOK, Local, InRange
<1> DEFINE m == k[p] + 1
<1>2. m \in Nat /\ 1 \in Nat
  BY <1>1
<1>3. \/ k[p] = Len(NodeList) /\ k' = [k EXCEPT ![p] = 1] /\ pc' = [pc EXCEPT ![p] = loc]
      \/ k[p] # Len(NodeList) /\ k' = [k EXCEPT ![p] = m] /\ pc' = [pc EXCEPT ![p] = "model"]
  BY DEF NextNode, GoTo
<1>4. k[p] # Len(NodeList) => m \in 1..Len(NodeList)
  BY <1>1
<1> HIDE DEF m
<1>5. k' \in [Processes -> Nat]
  BY <1>1, <1>2, <1>3
<1>6. CASE k[p] = Len(NodeList)
  BY <1>1, <1>3, <1>5, <1>6
<1>7. CASE k[p] # Len(NodeList)
  BY <1>1, <1>3, <1>4, <1>5, <1>7
<1> QED
  BY <1>5, <1>6, <1>7

LEMMA LoadModelKeeps ==
    ASSUME IInv, NEW p \in Processes, LoadModel(p)
    PROVE  TypeOK' /\ Local(p)'
<1> USE DEF IInv, TypeOK, LoadModel, At
<1>1. NextNode(p, "apply") /\ pc[p] = "model"
  OBVIOUS
<1>2. /\ k' \in [Processes -> Nat]
      /\ \/ pc' = [pc EXCEPT ![p] = "apply"] /\ k'[p] = 1
         \/ pc' = [pc EXCEPT ![p] = "model"] /\ k'[p] \in 1..Len(NodeList)
  BY <1>1, NextNodeKeeps
<1>3. pc' \in [Processes -> Locations]
  <2>1. pc \in [Processes -> Locations] /\ "apply" \in Locations /\ "model" \in Locations
    BY DEF Locations
  <2> HIDE DEF IInv, TypeOK, LoadModel, At
  <2> QED
    BY <1>2, <2>1
<1>4. table' \in [Processes -> Seq(Points)] /\ table'[p] # <<>>
  OBVIOUS
<1>5. TypeOK'
  BY <1>2, <1>3, <1>4 DEF host, search, config, ghosts
<1>6. Local(p)'
  <2>4. b'[p] = 1
    BY <1>1 DEF Local, InRange
  <2>5. 1 \in 1..Len(NodeList)
    BY Lists
  <2>6. /\ (pc'[p] = "apply" /\ k'[p] = 1) \/ pc'[p] = "model"
        /\ k'[p] \in 1..Len(NodeList)
    <3>1. pc \in [Processes -> Locations]
      OBVIOUS
    <3> HIDE DEF IInv, TypeOK, LoadModel, At
    <3>2. ASSUME pc' = [pc EXCEPT ![p] = "apply"] PROVE pc'[p] = "apply"
      BY <3>1, <3>2
    <3>3. ASSUME pc' = [pc EXCEPT ![p] = "model"] PROVE pc'[p] = "model"
      BY <3>1, <3>3
    <3> QED
      BY <1>2, <2>5, <3>2, <3>3
  <2>1. /\ (pc'[p] = "apply" /\ k'[p] = 1) \/ pc'[p] = "model"
        /\ k'[p] \in 1..Len(NodeList) /\ b'[p] = 1 /\ 1 \in 1..Len(NodeList)
    BY <2>4, <2>5, <2>6
  <2>2. InRange(p)' /\ Fresh(p)'
    BY <2>1 DEF InRange, Fresh
  <2>3. HasData(p)'
    BY <1>4, <2>1 DEF HasData
  <2> QED
    BY <2>2, <2>3 DEF Local
<1> QED
  BY <1>5, <1>6

LEMMA TrainResetKeeps ==
    ASSUME IInv, NEW p \in Processes, TrainReset(p)
    PROVE  TypeOK' /\ Local(p)'
<1> USE DEF IInv, TypeOK, TrainReset, At, GoTo, Write, host, search, config, ghosts
<1>1. k[p] \in 1..Len(NodeList) /\ NodeList[k[p]] \in Nodes
  BY Lists DEF Local, InRange
<1>2. Trained(p) \in Buses
  BY <1>1 DEF Trained
<1>3. Reset(Trained(p)) \in Seq(Writings)
  BY <1>2, ResetCalls
<1>4. writes' \in [Processes -> Seq(Writings)]
  BY <1>3 DEF Writings
<1>5. table' \in [Processes -> Seq(Points)]
  BY EmptySeq
<1>6. TypeOK'
  BY <1>4, <1>5 DEF Writings
<1>7. Trained(p)' = Trained(p)
  BY DEF Trained
<1>8. Local(p)'
  BY <1>1, <1>7 DEF Local, InRange, Fresh, HasData
<1> QED
  BY <1>6, <1>8

LEMMA TrainSetKeeps ==
    ASSUME IInv, NEW p \in Processes, TrainSet(p)
    PROVE  TypeOK' /\ Local(p)'
<1> USE DEF IInv, TypeOK, TrainSet, At, GoTo, Write
<1> DEFINE x == Trained(p)
           v == NextValue(get_throttle_register(x))
           pt == [reg |-> v, bw |-> 0]
           s == set_throttle_register(x, v)
           t == Append(table[p], pt)
<1>1. k[p] \in 1..Len(NodeList) /\ NodeList[k[p]] \in Nodes /\ x # None
  BY Lists DEF Local, InRange, HasData
<1>2. x \in Buses
  BY <1>1 DEF Trained
<1>3. v \in Values
  BY <1>2, NextValueTyped
<1>4. writes' = [writes EXCEPT ![p] = s] /\ table' = [table EXCEPT ![p] = t]
  OBVIOUS
<1>5. s \in Seq(Writings)
  BY <1>2, <1>3, Calls
<1>6. pt \in Points
  BY <1>3 DEF Points
<1>7. table[p] \in Seq(Points)
  OBVIOUS
<1> HIDE DEF x, v, s, pt
<1>8. t \in Seq(Points) /\ t # <<>>
  BY <1>6, <1>7, AppendProperties
<1> HIDE DEF t
<1>9. writes' \in [Processes -> Seq(Writings)]
  BY <1>4, <1>5 DEF Writings
<1>10. table' \in [Processes -> Seq(Points)] /\ table'[p] # <<>>
  BY <1>4, <1>8
<1>11. TypeOK'
  BY <1>9, <1>10 DEF Writings, host, search, config, ghosts
<1>12. Trained(p)' = x
  BY DEF Trained, x
<1>13. Local(p)'
  BY <1>1, <1>10, <1>12 DEF Local, InRange, Fresh, HasData, host, search, config, ghosts
<1> QED
  BY <1>11, <1>13

LEMMA TrainMeasureKeeps ==
    ASSUME IInv, NEW p \in Processes, TrainMeasure(p)
    PROVE  TypeOK' /\ Local(p)'
<1> DEFINE t == table[p]
           n == Len(t)
           stop == n > MinPoints + 1 /\ Flat(SubSeq(t, n - MinPoints, n - 1))
<1>1. k[p] \in 1..Len(NodeList) /\ NodeList[k[p]] \in Nodes /\ Trained(p) # None /\ pc[p] = "measure"
  BY Lists DEF IInv, Local, InRange, HasData, TrainMeasure, At
<1>2. t \in Seq(Points) /\ t # <<>>
  BY <1>1 DEF IInv, TypeOK, Local, HasData
<1>3. n \in Nat \ {0} /\ t[n] \in Points
  BY <1>2, EmptySeq, LenProperties, ElementOfSeq
<1>4. MinPoints \in Nat \ {0, 1}
  BY ThrottleAssumption
<1>5. PICK rate \in measure_read_bw(NodeList[k[p]]) :
            IF stop
              THEN /\ table' = [table EXCEPT ![p] = SubSeq(t, 1, n - 1)]
                   /\ pc' = [pc EXCEPT ![p] = "save"]
              ELSE /\ table' = [table EXCEPT ![p] = [t EXCEPT ![n].bw = rate]]
                   /\ pc' = [pc EXCEPT ![p] = IF n = MaxPoints THEN "save" ELSE "train"]
  BY DEF TrainMeasure, GoTo
<1>6. rate \in Nat
  BY <1>1, Measurement DEF IInv
<1>7. SubSeq(t, 1, n - 1) \in Seq(Points) /\ Len(SubSeq(t, 1, n - 1)) = n - 1
  BY <1>2, <1>3, SubSeqProperties
<1>8. [t EXCEPT ![n].bw = rate] \in Seq(Points) /\ Len([t EXCEPT ![n].bw = rate]) = n
  <2>1. [t[n] EXCEPT !.bw = rate] \in Points
    BY <1>3, <1>6 DEF Points
  <2>2. [t EXCEPT ![n] = [t[n] EXCEPT !.bw = rate]] \in Seq(Points)
        /\ Len([t EXCEPT ![n] = [t[n] EXCEPT !.bw = rate]]) = n
    BY <1>2, <1>3, <2>1, ExceptSeq
  <2> QED
    BY <2>2
<1>9. table \in [Processes -> Seq(Points)]
  BY DEF IInv, TypeOK
<1>10. stop => n > 2
  BY <1>3, <1>4
<1> DEFINE u == table'[p]
<1>11. table' \in [Processes -> Seq(Points)] /\ u \in Seq(Points)
       /\ (pc'[p] = "save" => Len(u) \in Nat \ {0})
       /\ pc' \in [Processes -> Locations]
       /\ pc'[p] \in {"save", "train"}
  <2>1. pc \in [Processes -> Locations]
    BY DEF IInv, TypeOK
  <2>2. CASE stop
    <3> DEFINE f == SubSeq(t, 1, n - 1)
    <3>1. f \in Seq(Points) /\ Len(f) \in Nat \ {0}
      BY <1>3, <1>7, <1>10, <2>2
    <3>2. /\ table' = [table EXCEPT ![p] = f]
          /\ pc' = [pc EXCEPT ![p] = "save"]
      BY <1>5, <2>2
    <3> HIDE DEF f
    <3> QED
      BY <1>9, <2>1, <3>1, <3>2
  <2>3. CASE ~stop
    <3> DEFINE f == [t EXCEPT ![n].bw = rate]
    <3>1. f \in Seq(Points) /\ Len(f) = n
      BY <1>8
    <3>2. /\ table' = [table EXCEPT ![p] = f]
          /\ pc' = [pc EXCEPT ![p] = IF n = MaxPoints THEN "save" ELSE "train"]
      BY <1>5, <2>3
    <3> HIDE DEF f
    <3> QED
      BY <1>3, <1>9, <2>1, <3>1, <3>2
  <2> QED
    BY <2>2, <2>3
<1>12. TypeOK'
  BY <1>11 DEF IInv, TypeOK, TrainMeasure, host, search, config, ghosts
<1>13. /\ k' = k /\ b' = b /\ writes' = writes /\ enabled' = enabled /\ Trained(p)' = Trained(p)
       /\ b[p] = 1
  BY <1>1 DEF TrainMeasure, config, Trained, IInv, Local, InRange
<1>14. Local(p)'
  BY <1>1, <1>11, <1>13 DEF Local, InRange, Fresh, HasData
<1> QED
  BY <1>12, <1>14

LEMMA SaveModelKeeps ==
    ASSUME IInv, NEW p \in Processes, SaveModel(p)
    PROVE  TypeOK' /\ Local(p)'
<1> DEFINE t == table[p]
           m == (b[p] + Len(t)) \div 2
<1>1. k[p] \in 1..Len(NodeList) /\ b[p] \in 1..Len(t) /\ Trained(p) # None /\ pc[p] = "save"
      /\ t \in Seq(Points) /\ Len(t) \in Nat /\ Len(NodeList) \in Nat
  BY Lists, LenProperties DEF IInv, TypeOK, Local, InRange, HasData, SaveModel, At
<1>2. m \in Nat /\ b[p] <= m /\ m <= Len(t)
  BY <1>1
<1>3. PICK n \in {Len(t)} \cup {m} :
         /\ model_file' = model_file \o SubSeq(t, b[p], n)
         /\ IF n = Len(t)
              THEN b' = [b EXCEPT ![p] = 1] /\ NextNode(p, "apply")
              ELSE b' = [b EXCEPT ![p] = n + 1] /\ UNCHANGED <<pc, k>>
  BY DEF SaveModel
<1> HIDE DEF m
<1>4. n \in Nat /\ b[p] <= n /\ n <= Len(t)
  BY <1>1, <1>2, <1>3
<1>5. SubSeq(t, b[p], n) \in Seq(Points)
  BY <1>1, <1>4, SubSeqProperties
<1>6. model_file' \in Seq(Points)
  BY <1>3, <1>5, ConcatProperties DEF IInv, TypeOK
<1>7. /\ table' = table /\ writes' = writes /\ mc_pci_regs' = mc_pci_regs /\ enabled' = enabled
      /\ t # <<>> /\ b \in [Processes -> Nat]
      /\ pc \in [Processes -> Locations]
      /\ k \in [Processes -> Nat]
  <2>1. /\ table' = table /\ writes' = writes /\ mc_pci_regs' = mc_pci_regs /\ enabled' = enabled
    BY DEF SaveModel, Memory, config
  <2>2. t # <<>>
    BY <1>1, EmptySeq, LenProperties
  <2>3. /\ b \in [Processes -> Nat] /\ pc \in [Processes -> Locations]
        /\ k \in [Processes -> Nat]
    BY DEF IInv, TypeOK
  <2> QED
    BY <2>1, <2>2, <2>3
<1>8. /\ b' \in [Processes -> Nat] /\ k' \in [Processes -> Nat]
      /\ pc' \in [Processes -> Locations]
      /\ \/ pc'[p] \in {"model", "apply"} /\ b'[p] = 1 /\ k'[p] \in 1..Len(NodeList)
         \/ pc'[p] = "save" /\ b'[p] \in 1..Len(t) /\ k'[p] = k[p]
  <2>1. CASE n = Len(t)
    <3>1. b' = [b EXCEPT ![p] = 1] /\ NextNode(p, "apply")
      BY <1>3, <2>1
    <3>2. /\ k' \in [Processes -> Nat]
          /\ \/ pc' = [pc EXCEPT ![p] = "apply"] /\ k'[p] = 1
             \/ pc' = [pc EXCEPT ![p] = "model"] /\ k'[p] \in 1..Len(NodeList)
      BY <1>1, <3>1, NextNodeKeeps
    <3>3. 1 \in 1..Len(NodeList)
      BY Lists
    <3>4. b' \in [Processes -> Nat] /\ b'[p] = 1
      BY <1>7, <3>1
    <3>5. /\ pc' \in [Processes -> Locations]
          /\ pc'[p] \in {"model", "apply"}
      BY <1>7, <3>2
    <3>6. k'[p] \in 1..Len(NodeList)
      BY <3>2, <3>3
    <3> QED
      BY <3>2, <3>4, <3>5, <3>6
  <2>2. CASE n # Len(t)
    <3> DEFINE a == n + 1
    <3>1. b' = [b EXCEPT ![p] = a] /\ pc' = pc /\ k' = k
      BY <1>3, <2>2
    <3>2. a \in Nat /\ a \in 1..Len(t)
      BY <1>1, <1>4, <2>2
    <3> HIDE DEF a
    <3> QED
      BY <1>1, <1>7, <3>1, <3>2
  <2> QED
    BY <2>1, <2>2
<1>9. TypeOK'
  BY <1>6, <1>8 DEF IInv, TypeOK, SaveModel, Memory, search, config, ghosts
<1>10. Local(p)'
  BY <1>1, <1>7, <1>8 DEF Local, InRange, Fresh, HasData, Trained
<1> QED
  BY <1>9, <1>10

LEMMA ThrottleValues ==
    ASSUME IInv, NEW p \in Processes
    PROVE  ThrottleValue(p) \in Values
<1> DEFINE t == table[p]
<1>1. t \in Seq(Points)
  BY DEF IInv, TypeOK
<1>2. CASE enabled[p] /\ t # <<>>
  <2>1. find_data_point(t) \in 1..Len(t)
    BY <1>1, <1>2, FindsClosestAfterFirst
  <2>2. t[find_data_point(t)] \in Points
    BY <1>1, <2>1, ElementOfSeq
  <2>3. ThrottleValue(p) = t[find_data_point(t)].reg
    BY <1>2 DEF ThrottleValue
  <2> QED
    BY <2>2, <2>3 DEF Points
<1>3. CASE ~(enabled[p] /\ t # <<>>)
  BY <1>3, Registers DEF ThrottleValue
<1> QED
  BY <1>2, <1>3

LEMMA SetReadBwKeeps ==
    ASSUME IInv, NEW p \in Processes, set_read_bw(p)
    PROVE  TypeOK' /\ Local(p)'
<1> DEFINE x == mc_pci_regs[p][NodeList[k[p]]]
           s == IF x = None THEN <<>> ELSE set_throttle_register(x, ThrottleValue(p))
           m == k[p] + 1
<1>1. k[p] \in 1..Len(NodeList) /\ NodeList[k[p]] \in Nodes /\ Len(NodeList) \in Nat
      /\ pc[p] = "apply"
  BY Lists DEF IInv, Local, InRange, set_read_bw, At
<1>2. x \in Buses \cup {None}
  BY <1>1 DEF IInv, TypeOK
<1>3. s \in Seq(Writings)
  <2>1. CASE x = None
    BY <2>1, EmptySeq
  <2>2. CASE x # None
    BY <1>2, <2>2, ThrottleValues, Calls
  <2> QED
    BY <2>1, <2>2
<1>4. /\ writes' = [writes EXCEPT ![p] = s]
      /\ \/ k[p] = Len(NodeList) /\ k' = [k EXCEPT ![p] = 1] /\ pc' = [pc EXCEPT ![p] = "running"]
         \/ k[p] # Len(NodeList) /\ k' = [k EXCEPT ![p] = m] /\ pc' = pc
  BY DEF set_read_bw, Write, GoTo
<1>5. m \in Nat /\ (k[p] # Len(NodeList) => m \in 1..Len(NodeList))
  BY <1>1
<1>6. /\ k \in [Processes -> Nat]
      /\ pc \in [Processes -> Locations]
      /\ writes \in [Processes -> Seq(Writings)]
  BY DEF IInv, TypeOK, Writings
<1> HIDE DEF m, s
<1>7. writes' \in [Processes -> Seq(Writings)]
  BY <1>3, <1>4, <1>6
<1>8. /\ k' \in [Processes -> Nat]
      /\ pc' \in [Processes -> Locations]
      /\ \/ pc'[p] = "running" /\ k'[p] = 1
         \/ pc'[p] = "apply" /\ k'[p] \in 1..Len(NodeList)
  <2>1. CASE k[p] = Len(NodeList)
    <3>1. k' = [k EXCEPT ![p] = 1] /\ pc' = [pc EXCEPT ![p] = "running"]
      BY <1>4, <2>1
    <3>2. k' \in [Processes -> Nat] /\ k'[p] = 1
      BY <1>6, <3>1
    <3>3. /\ pc' \in [Processes -> Locations]
          /\ pc'[p] = "running"
      BY <1>6, <3>1
    <3> QED
      BY <3>2, <3>3
  <2>2. CASE k[p] # Len(NodeList)
    <3>1. k' = [k EXCEPT ![p] = m] /\ pc' = pc
      BY <1>4, <2>2
    <3> QED
      BY <1>1, <1>5, <1>6, <2>2, <3>1
  <2> QED
    BY <2>1, <2>2
<1>9. TypeOK'
  BY <1>7, <1>8 DEF IInv, TypeOK, Writings, set_read_bw, host, Memory, search, config, ghosts
<1>10. Local(p)'
  BY <1>1, <1>8 DEF IInv, Local, InRange, Fresh, HasData, set_read_bw, Memory, search, config
<1> QED
  BY <1>9, <1>10

LEMMA FinishKeeps ==
    ASSUME IInv, NEW p \in Processes, Finish(p)
    PROVE  TypeOK' /\ Local(p)'
<1>1. CASE enabled[p]
  <2>1. /\ pc' = [pc EXCEPT ![p] = "ending"] /\ pc[p] = "running"
        /\ UNCHANGED <<writes, b, k, Memory, enabled, host, ghosts>>
    BY <1>1 DEF Finish, GoTo, At
  <2>2. TypeOK'
    BY <2>1 DEF IInv, TypeOK, Memory, search, host, ghosts
  <2>3. Local(p)'
    BY <2>1, Lists DEF IInv, TypeOK, Local, InRange, Fresh, HasData, Memory, search
  <2> QED
    BY <2>2, <2>3
<1>2. CASE ~enabled[p]
  <2>1. Vanish(p) /\ UNCHANGED <<host, ghosts>>
    BY <1>2 DEF Finish
  <2>2. TypeOK'
    BY <2>1, VanishTypes DEF IInv, TypeOK, Writings, host, ghosts
  <2> QED
    BY <2>1, <2>2, VanishTypes
<1> QED
  BY <1>1, <1>2

LEMMA FinalizeKeeps ==
    ASSUME IInv, NEW p \in Processes, Finalize(p)
    PROVE  TypeOK' /\ Local(p)'
<1> DEFINE x == mc_pci_regs[p][NodeList[k[p]]]
           s == set_throttle_register(x, Full)
           m == k[p] + 1
<1>1. k[p] \in 1..Len(NodeList) /\ NodeList[k[p]] \in Nodes /\ Len(NodeList) \in Nat
      /\ pc[p] = "ending" /\ x # None
  BY Lists DEF IInv, Local, InRange, Finalize, At
<1>2. x \in Buses
  BY <1>1 DEF IInv, TypeOK
<1>3. s \in Seq(Writings)
  BY <1>2, Registers, Calls
<1>4. writes' = [writes EXCEPT ![p] = s] /\ k' = [k EXCEPT ![p] = m]
  BY DEF Finalize, Write
<1>5. m \in Nat /\ m \in 1..(Len(NodeList) + 1)
  BY <1>1
<1>6. k \in [Processes -> Nat] /\ writes \in [Processes -> Seq(Writings)]
  BY DEF IInv, TypeOK, Writings
<1> HIDE DEF m, s
<1>7. writes' \in [Processes -> Seq(Writings)] /\ k' \in [Processes -> Nat]
      /\ k'[p] \in 1..(Len(NodeList) + 1)
  BY <1>3, <1>4, <1>5, <1>6
<1>8. TypeOK'
  BY <1>7 DEF IInv, TypeOK, Writings, Finalize, host, Memory, search, config, ghosts
<1>9. Local(p)'
  BY <1>1, <1>7 DEF IInv, Local, InRange, Fresh, HasData, Finalize, Memory, search, config
<1> QED
  BY <1>8, <1>9

LEMMA StepIInv ==
    ASSUME IInv, [Next]_vars
    PROVE  IInv'
<1>1. CASE UNCHANGED vars
  <2>1. TypeOK'
    BY <1>1 DEF vars, host, search, config, ghosts, IInv, TypeOK
  <2>2. \A p \in Processes : Local(p)'
    BY <1>1 DEF vars, search, config, IInv, Local, InRange, Fresh, HasData, Trained
  <2> QED
    BY <2>1, <2>2 DEF IInv
<1>2. CASE Next
  <2>1. PICK p \in Processes : Step(p)
    BY <1>2 DEF Next
  <2>2. TypeOK' /\ Local(p)'
    BY <2>1, SetPciKeeps, StartKeeps, LoadTopologyKeeps, NoTopologyKeeps, ProbeKeeps,
       CompareKeeps, AttachKeeps, ResetBusKeeps, OpenTopologyKeeps, EndKeeps, LoadModelKeeps, TrainResetKeeps,
       TrainSetKeeps, TrainMeasureKeeps, SaveModelKeeps, SetReadBwKeeps, FinishKeeps,
       FinalizeKeeps DEF Step
  <2>3. \A q \in Processes : Local(q)'
    BY <2>1, <2>2, OthersLocal
  <2> QED
    BY <2>2, <2>3 DEF IInv
<1> QED
  BY <1>1, <1>2

LEMMA Invariance == Spec => []IInv
<1>1. Init => IInv
  BY InitIInv
<1>2. IInv /\ [Next]_vars => IInv'
  BY StepIInv
<1> QED
  BY <1>1, <1>2, PTL DEF Spec

\* Every variable stays in its type, whatever the configuration and the hardware:
\* no index of init, discovery, training or finalize leaves its list.
THEOREM TypeCorrect == Spec => []TypeOK
<1>1. IInv => TypeOK
  BY DEF IInv
<1> QED
  BY <1>1, Invariance, PTL

-----------------------------------------------------------------------------
(* What a process has written, or is about to write. *)

Pending(p, x, c) ==
    \E j \in 1..Len(writes[p]) : writes[p][j].bus = x /\ writes[p][j].channel = c

\* Once p has made the calls it is in the middle of, bus x is at v.
Settles(p, x, v) ==
    /\ \A j \in 1..Len(writes[p]) : writes[p][j].bus = x => writes[p][j].val = v
    /\ \A c \in Chs : reg[x][c] = v \/ Pending(p, x, c)

\* A call that reaches the driver takes nothing away.
LEMMA SettlesSetPci ==
    ASSUME IInv, NEW p \in Processes, set_pci(p), NEW x \in Buses, NEW v, Settles(p, x, v)
    PROVE  Settles(p, x, v)'
<1> DEFINE s == writes[p]  w == Head(s)
<1>1. s \in Seq(Writings) /\ s # <<>> /\ Len(s) \in Nat \ {0}
  BY EmptySeq, LenProperties DEF IInv, TypeOK, Writings, set_pci
<1>2. reg \in [Buses -> [Chs -> Values]] /\ writes \in [Processes -> Seq(Writings)]
  BY DEF IInv, TypeOK, Writings
<1>3. w \in Writings /\ w = s[1] /\ Tail(s) \in Seq(Writings) /\ Len(Tail(s)) = Len(s) - 1
      /\ \A j \in 1..Len(Tail(s)) : Tail(s)[j] = s[j + 1]
  BY <1>1, HeadTailProperties
<1>4. w.bus \in Buses /\ w.channel \in Chs
  BY <1>3 DEF Writings
<1>5. reg' = [reg EXCEPT ![w.bus][w.channel] = w.val] /\ writes'[p] = Tail(s)
  BY <1>2 DEF set_pci
<1>6. \A c \in Chs : reg'[x][c] = IF w.bus = x /\ w.channel = c THEN w.val ELSE reg[x][c]
  BY <1>2, <1>4, <1>5
<1>7. w.bus = x => w.val = v
  BY <1>1, <1>3 DEF Settles
<1>8. ASSUME NEW j \in 1..Len(writes'[p]), writes'[p][j].bus = x
      PROVE  writes'[p][j].val = v
  <2>1. j + 1 \in 1..Len(s) /\ writes'[p][j] = s[j + 1]
    BY <1>1, <1>3, <1>5, <1>8
  <2> QED
    BY <1>8, <2>1 DEF Settles
<1>9. ASSUME NEW c \in Chs
      PROVE  \/ reg'[x][c] = v
             \/ \E j \in 1..Len(writes'[p]) : writes'[p][j].bus = x /\ writes'[p][j].channel = c
  <2>1. CASE w.bus = x /\ w.channel = c
    BY <1>6, <1>7, <2>1
  <2>2. CASE ~(w.bus = x /\ w.channel = c)
    <3>1. reg'[x][c] = reg[x][c]
      BY <1>6, <2>2
    <3>2. ASSUME reg[x][c] # v
          PROVE  \E j \in 1..Len(writes'[p]) : writes'[p][j].bus = x /\ writes'[p][j].channel = c
      <4>1. PICK i \in 1..Len(s) : s[i].bus = x /\ s[i].channel = c
        BY <3>2 DEF Settles, Pending
      <4>2. i # 1
        BY <1>3, <2>2, <4>1
      <4>3. i - 1 \in 1..Len(Tail(s)) /\ Tail(s)[i - 1] = s[i]
        BY <1>1, <1>3, <4>1, <4>2
      <4> QED
        BY <1>5, <4>1, <4>3
    <3> QED
      BY <3>1, <3>2
  <2> QED
    BY <2>1, <2>2
<1> QED
  BY <1>8, <1>9 DEF Settles, Pending

\* The calls for one bus settle it, and leave the others as they are.
LEMMA SettlesWrite ==
    ASSUME NEW p \in Processes, NEW x \in Buses, NEW v \in Values,
           writes[p] = <<>>, writes'[p] = set_throttle_register(x, v), reg' = reg
    PROVE  /\ Settles(p, x, v)'
           /\ \A y \in Buses, u \in Values : y # x /\ Settles(p, y, u) => Settles(p, y, u)'
<1> DEFINE s == set_throttle_register(x, v)
<1>1. /\ Len(s) = Channels /\ Channels \in Nat
      /\ \A j \in 1..Channels : s[j] = [bus |-> x, channel |-> j, val |-> v]
  BY Calls, ThrottleAssumption
<1>2. writes'[p] = s
  OBVIOUS
<1> HIDE DEF s
<1>3. Settles(p, x, v)'
  <2>1. \A j \in 1..Len(s) : s[j].val = v
    BY <1>1
  <2>2. \A c \in Chs : c \in 1..Len(s) /\ s[c].bus = x /\ s[c].channel = c
    BY <1>1 DEF Chs
  <2> QED
    BY <1>2, <2>1, <2>2 DEF Settles, Pending
<1>4. ASSUME NEW y \in Buses, NEW u \in Values, y # x, Settles(p, y, u)
      PROVE  Settles(p, y, u)'
  <2>1. \A c \in Chs : reg[y][c] = u
    BY <1>4, EmptySeq DEF Settles, Pending
  <2>2. \A j \in 1..Len(s) : s[j].bus = x
    BY <1>1
  <2> QED
    BY <1>2, <1>4, <2>1, <2>2 DEF Settles, Pending
<1> QED
  BY <1>3, <1>4

LEMMA SettlesKept ==
    ASSUME NEW p \in Processes, NEW x \in Buses, NEW v, Settles(p, x, v),
           writes'[p] = writes[p], reg' = reg
    PROVE  Settles(p, x, v)'
  BY DEF Settles, Pending

\* Only a call of the driver changes registers, and nobody is alone after it but the caller.
LEMMA RegistersKeep ==
    ASSUME IInv, NEW p \in Processes, Step(p)
    PROVE  /\ ~set_pci(p) => reg' = reg
           /\ \A q \in Processes : q # p /\ alone'[q] => alone[q] /\ reg' = reg
<1> USE DEF host, ghosts, config
<1>0. alone \in [Processes -> BOOLEAN]
  BY DEF IInv, TypeOK
<1>1. CASE set_pci(p)
  BY <1>0, <1>1 DEF set_pci
<1>2. CASE ~set_pci(p)
  <2>1. reg' = reg
    BY <1>2 DEF Step, Start, LoadTopology, NoTopology, Probe, Compare, Attach, ResetBus,
       OpenTopology, SaveTopology, LoadModel, TrainReset, TrainSet, TrainMeasure, SaveModel, set_read_bw,
       Finish, Finalize, Finalized, Die
  <2>2. alone' = alone \/ Start(p)
    BY <1>2 DEF Step, LoadTopology, NoTopology, Probe, Compare, Attach, ResetBus,
       OpenTopology, SaveTopology, LoadModel, TrainReset, TrainSet, TrainMeasure, SaveModel, set_read_bw,
       Finish, Finalize, Finalized, Die
  <2>3. \A q \in Processes : q # p => alone'[q] = alone[q]
    BY <1>0, <2>2 DEF Start
  <2> QED
    BY <1>2, <2>1, <2>3
<1> QED
  BY <1>1, <1>2

-----------------------------------------------------------------------------
(* The throttle of a target. *)

\* A process that nobody disturbs has set the nodes before k, or is at it.
AppliedTo(p, i) ==
    /\ pc[p] \in {"apply", "running"} /\ enabled[p] /\ alone[p]
    /\ pc[p] = "apply" => i < k[p]
    /\ mc_pci_regs[p][NodeList[i]] # None
    => Settles(p, mc_pci_regs[p][NodeList[i]], ThrottleValue(p))

Applied == \A p \in Processes, i \in 1..Len(NodeList) : AppliedTo(p, i)

LEMMA NodeBus ==
    ASSUME IInv, NEW p \in Processes, NEW i \in 1..Len(NodeList)
    PROVE  mc_pci_regs[p][NodeList[i]] \in Buses \cup {None}
<1>1. NodeList[i] \in Nodes
  BY Lists
<1>2. mc_pci_regs \in [Processes -> [Nodes -> Buses \cup {None}]]
  BY DEF IInv, TypeOK
<1>3. mc_pci_regs[p] \in [Nodes -> Buses \cup {None}]
  BY <1>2
<1> QED
  BY <1>1, <1>3

LEMMA AppliedByOthers ==
    ASSUME IInv, NEW p \in Processes, Step(p), NEW q \in Processes, q # p,
           NEW i \in 1..Len(NodeList), AppliedTo(q, i)
    PROVE  AppliedTo(q, i)'
<1>1. /\ pc'[q] = pc[q] /\ writes'[q] = writes[q] /\ k'[q] = k[q]
      /\ mc_pci_regs'[q] = mc_pci_regs[q] /\ table'[q] = table[q] /\ enabled'[q] = enabled[q]
  BY OthersKeep DEF IInv
<1>2. alone'[q] => alone[q] /\ reg' = reg
  BY RegistersKeep
<1>3. ThrottleValue(q)' = ThrottleValue(q)
  BY <1>1 DEF ThrottleValue
<1>4. PICK x : x = mc_pci_regs[q][NodeList[i]]
  OBVIOUS
<1>5. PICK v : v = ThrottleValue(q)
  OBVIOUS
<1>6. x \in Buses \cup {None}
  BY <1>4, NodeBus
<1>7. ASSUME pc[q] \in {"apply", "running"}, enabled[q], alone[q], pc[q] = "apply" => i < k[q],
             x # None, reg' = reg
      PROVE  Settles(q, x, v)'
  <2>1. Settles(q, x, v)
    BY <1>4, <1>5, <1>7 DEF AppliedTo
  <2> QED
    BY <1>1, <1>6, <1>7, <2>1, SettlesKept
<1> QED
  BY <1>1, <1>2, <1>3, <1>4, <1>5, <1>7 DEF AppliedTo, Settles, Pending

\* Process p itself, at a call of the driver.
LEMMA AppliedByCall ==
    ASSUME IInv, NEW p \in Processes, set_pci(p), NEW i \in 1..Len(NodeList), AppliedTo(p, i)
    PROVE  AppliedTo(p, i)'
<1>1. /\ pc'[p] = pc[p] /\ k'[p] = k[p] /\ mc_pci_regs'[p] = mc_pci_regs[p]
      /\ table'[p] = table[p] /\ enabled'[p] = enabled[p] /\ alone'[p] = alone[p]
  BY DEF set_pci, search, IInv, TypeOK
<1>2. PICK x : x = mc_pci_regs[p][NodeList[i]]
  OBVIOUS
<1>3. PICK v : v = ThrottleValue(p)
  OBVIOUS
<1>4. ThrottleValue(p)' = v
  BY <1>1, <1>3 DEF ThrottleValue
<1>5. x \in Buses \cup {None}
  BY <1>2, NodeBus
<1>6. ASSUME x # None, Settles(p, x, v)
      PROVE  Settles(p, x, v)'
  BY <1>5, <1>6, SettlesSetPci
<1> QED
  BY <1>1, <1>2, <1>3, <1>4, <1>6 DEF AppliedTo, Settles, Pending

LEMMA AppliedBySetReadBw ==
    ASSUME IInv, NEW p \in Processes, set_read_bw(p), NEW i \in 1..Len(NodeList), AppliedTo(p, i)
    PROVE  AppliedTo(p, i)'
<1>1. PICK y : y = mc_pci_regs[p][NodeList[k[p]]]
  OBVIOUS
<1>2. PICK x : x = mc_pci_regs[p][NodeList[i]]
  OBVIOUS
<1>3. PICK v : v = ThrottleValue(p)
  OBVIOUS
<1>4. /\ pc[p] = "apply" /\ writes[p] = <<>> /\ reg' = reg
      /\ mc_pci_regs'[p] = mc_pci_regs[p]
      /\ table'[p] = table[p] /\ enabled'[p] = enabled[p] /\ alone'[p] = alone[p]
      /\ writes'[p] = IF y = None THEN <<>> ELSE set_throttle_register(y, v)
  BY <1>1, <1>3 DEF set_read_bw, At, Write, host, Memory, search, config, ghosts, IInv, TypeOK
<1>5. ThrottleValue(p)' = v /\ v \in Values
  BY <1>3, <1>4, ThrottleValues DEF ThrottleValue
<1>6. k[p] \in 1..Len(NodeList) /\ Len(NodeList) \in Nat
  BY <1>4, Lists DEF IInv, Local, InRange
<1>7. x \in Buses \cup {None} /\ y \in Buses \cup {None}
  BY <1>1, <1>2, <1>6, NodeBus
<1>8. \/ pc'[p] = "running" /\ k[p] = Len(NodeList)
      \/ pc'[p] = "apply" /\ k'[p] = k[p] + 1
  BY <1>4 DEF set_read_bw, GoTo, IInv, TypeOK
<1>9. ASSUME enabled[p], alone[p], i < k[p] \/ i = k[p], x # None
      PROVE  Settles(p, x, v)'
  <2>1. CASE y = None
    <3>1. i < k[p]
      BY <1>1, <1>2, <1>9, <2>1
    <3>2. Settles(p, x, v)
      BY <1>2, <1>3, <1>4, <1>9, <3>1 DEF AppliedTo
    <3> QED
      BY <1>4, <1>7, <1>9, <2>1, <3>2, SettlesKept
  <2>2. CASE y # None /\ x = y
    BY <1>4, <1>5, <1>7, <2>2, SettlesWrite
  <2>3. CASE y # None /\ x # y
    <3>1. i < k[p]
      BY <1>1, <1>2, <1>9, <2>3
    <3>2. Settles(p, x, v)
      BY <1>2, <1>3, <1>4, <1>9, <3>1 DEF AppliedTo
    <3>3. /\ writes'[p] = set_throttle_register(y, v) /\ y \in Buses /\ x \in Buses
      BY <1>4, <1>7, <1>9, <2>3
    <3> QED
      BY <1>4, <1>5, <2>3, <3>2, <3>3, SettlesWrite
  <2> QED
    BY <2>1, <2>2, <2>3
<1>10. pc'[p] = "apply" /\ i < k'[p] => i < k[p] \/ i = k[p]
  BY <1>6, <1>8
<1>11. pc'[p] = "running" => i < k[p] \/ i = k[p]
  BY <1>6, <1>8
<1> QED
  BY <1>2, <1>4, <1>5, <1>9, <1>10, <1>11 DEF AppliedTo, Settles, Pending

\* No other step takes a process there with the emulation and a node done.
LEMMA AppliedByTheRest ==
    ASSUME IInv, NEW p \in Processes, Step(p), ~set_pci(p), ~set_read_bw(p),
           NEW i \in 1..Len(NodeList)
    PROVE  AppliedTo(p, i)'
<1> SUFFICES ~ (/\ pc'[p] \in {"apply", "running"} /\ enabled'[p]
                /\ pc'[p] = "apply" => i < k'[p])
  BY DEF AppliedTo
<1> USE DEF IInv, TypeOK, GoTo, Write, Memory, search, config, ghosts
<1>1. CASE Vanish(p)
  BY <1>1 DEF Vanish
<1>2. CASE Start(p)
  BY <1>2 DEF Start
<1>3. CASE LoadTopology(p)
  BY <1>3 DEF LoadTopology
<1>4. CASE NoTopology(p)
  BY <1>4 DEF NoTopology
<1>5. CASE Probe(p)
  BY <1>5 DEF Probe, At
<1>6. CASE Compare(p)
  BY <1>6 DEF Compare, At
<1>7. CASE Attach(p)
  BY <1>7 DEF Attach, At
<1>16. CASE OpenTopology(p)
  BY <1>16 DEF OpenTopology, At
<1>8. CASE ResetBus(p)
  BY <1>8 DEF ResetBus, At
<1>9. CASE LoadModel(p)
  BY <1>9 DEF LoadModel, NextNode, At
<1>10. CASE TrainReset(p)
  BY <1>10 DEF TrainReset
<1>11. CASE TrainSet(p)
  BY <1>11 DEF TrainSet
<1>12. CASE TrainMeasure(p)
  BY <1>12 DEF TrainMeasure
<1>13. CASE SaveModel(p)
  BY <1>13 DEF SaveModel, NextNode, At
<1>14. CASE Finish(p)
  BY <1>1, <1>14 DEF Finish
<1>15. CASE Finalize(p)
  BY <1>15 DEF Finalize, At
<1> QED
  BY <1>1, <1>2, <1>3, <1>4, <1>5, <1>6, <1>7, <1>8, <1>9, <1>10, <1>11, <1>12, <1>13,
     <1>14, <1>15, <1>16 DEF Step, SaveTopology, Finalized, Die

LEMMA StepApplied ==
    ASSUME IInv, Applied, [Next]_vars
    PROVE  Applied'
<1>1. CASE UNCHANGED vars
  <2>1. ASSUME NEW p \in Processes, NEW i \in 1..Len(NodeList), AppliedTo(p, i)
        PROVE  AppliedTo(p, i)'
    BY <1>1, <2>1 DEF AppliedTo, Settles, Pending, ThrottleValue, vars, host, config, ghosts
  <2> QED
    BY <2>1 DEF Applied
<1>2. CASE Next
  <2>1. PICK p \in Processes : Step(p)
    BY <1>2 DEF Next
  <2>2. ASSUME NEW q \in Processes, NEW i \in 1..Len(NodeList)
        PROVE  AppliedTo(q, i)'
    <3>1. AppliedTo(q, i)
      BY DEF Applied
    <3>2. CASE q # p
      BY <2>1, <3>1, <3>2, AppliedByOthers
    <3>3. CASE q = p
      BY <2>1, <3>1, <3>3, AppliedByCall, AppliedBySetReadBw, AppliedByTheRest
    <3> QED
      BY <3>2, <3>3
  <2> QED
    BY <2>2 DEF Applied
<1> QED
  BY <1>1, <1>2

LEMMA AppliedThrottles == IInv /\ Applied => ThrottledToClosestAfterFirst
<1> SUFFICES ASSUME IInv, Applied, NEW p \in Processes, NEW n \in Nodes,
                    At(p, "running"), enabled[p], mc_pci_regs[p][n] # None, alone[p]
             PROVE  \E j \in 1..Len(table[p]) :
                      /\ ClosestAfterFirst(table[p], j)
                      /\ \A c \in Chs : reg[mc_pci_regs[p][n]][c] = table[p][j].reg
  BY DEF ThrottledToClosestAfterFirst, Settled, Holds
<1>1. PICK i \in 1..Len(NodeList) : NodeList[i] = n
  BY ThrottleAssumption
<1> DEFINE x == mc_pci_regs[p][n]  t == table[p]  j == find_data_point(t)
<1>2. pc[p] = "running" /\ writes[p] = <<>>
  BY DEF At
<1>3. Settles(p, x, ThrottleValue(p))
  BY <1>1, <1>2 DEF Applied, AppliedTo
<1>4. t \in Seq(Points) /\ t # <<>>
  BY <1>2 DEF IInv, TypeOK, Local, HasData
<1>5. j \in 1..Len(t) /\ ClosestAfterFirst(t, j)
  BY <1>4, FindsClosestAfterFirst
<1>6. ThrottleValue(p) = t[j].reg
  BY <1>4 DEF ThrottleValue
<1>7. \A c \in Chs : reg[x][c] = t[j].reg
  BY <1>2, <1>3, <1>6, EmptySeq DEF Settles, Pending
<1> QED
  BY <1>5, <1>7

\* While nobody else writes, set_read_bw has brought all channels of the controllers
\* of a process to the point of its model that find_data_point ends at: the
\* closest to the target after the first, which is never compared
\* (ThrottledToClosestAfterFirst).
THEOREM TargetsReached == Spec => []ThrottledToClosestAfterFirst
<1>1. Init => Applied
  BY DEF Init, Applied, AppliedTo
<1>2. IInv /\ Applied /\ [Next]_vars => Applied'
  BY StepApplied
<1>3. IInv /\ Applied => ThrottledToClosestAfterFirst
  BY AppliedThrottles
<1> QED
  BY <1>1, <1>2, <1>3, Invariance, PTL DEF Spec

-----------------------------------------------------------------------------
(* What the last process leaves. *)

Loaded == {"model", "train", "measure", "save", "apply", "running", "ending"}
Discovering == {"probe", "compare", "attach", "reset", "save_topology"}

\* The calls a process is in the middle of.
CallsOK(p) ==
    \A j \in 1..Len(writes[p]) :
        /\ pc[p] \in {"reset", "save_topology", "ending"} \/ (pc[p] \in Loaded /\ ~enabled[p])
             => writes[p][j].val = Full
        /\ pc[p] \in Loaded =>
             \E i \in 1..Len(NodeList) : writes[p][j].bus = mc_pci_regs[p][NodeList[i]]
        /\ pc[p] \in Discovering => \E i \in 1..Len(BusList) : writes[p][j].bus = BusList[i]

Owner(p) ==
    /\ pc[p] \in {"model", "train", "measure", "save", "ending"} => enabled[p]
    /\ CallsOK(p)

LEMMA CallsOf ==
    ASSUME NEW x \in Buses, NEW v \in Values
    PROVE  /\ \A j \in 1..Len(set_throttle_register(x, v)) :
                /\ set_throttle_register(x, v)[j].bus = x
                /\ set_throttle_register(x, v)[j].val = v
           /\ \A j \in 1..Len(Reset(x)) : Reset(x)[j].bus = x /\ Reset(x)[j].val = Full
<1>1. ASSUME NEW u \in Values, NEW j \in 1..Len(set_throttle_register(x, u))
      PROVE  set_throttle_register(x, u)[j].bus = x /\ set_throttle_register(x, u)[j].val = u
  <2>1. j \in 1..Channels
    BY Calls
  <2>2. set_throttle_register(x, u)[j] = [bus |-> x, channel |-> j, val |-> u]
    BY <2>1, Calls
  <2> QED
    BY <2>2
<1>2. 1..Len(<<>>) = {}
  BY EmptySeq
<1> QED
  BY <1>1, <1>2, Registers DEF Reset

LEMMA OwnerKept ==
    ASSUME IInv, NEW p \in Processes, Owner(p), Step(p)
    PROVE  Owner(p)'
<1> USE DEF IInv, TypeOK, GoTo, Memory, search, config, ghosts, host, Loaded, Discovering
<1>0. 1..Len(<<>>) = {}
  BY EmptySeq
<1>1. CASE Vanish(p)
  BY <1>0, <1>1 DEF Vanish, Write, Owner, CallsOK
<1>2. CASE set_pci(p)
  <2>1. writes[p] \in Seq(Writings) /\ writes[p] # <<>>
    BY <1>2 DEF set_pci, Writings
  <2>2. writes'[p] = Tail(writes[p])
    BY <1>2 DEF set_pci
  <2>3. \A j \in 1..Len(writes'[p]) :
          j + 1 \in 1..Len(writes[p]) /\ writes'[p][j] = writes[p][j + 1]
    BY <2>1, <2>2, HeadTailProperties, EmptySeq, LenProperties
  <2>4. CallsOK(p)'
    BY <1>2, <2>3 DEF set_pci, Owner, CallsOK
  <2> QED
    BY <1>2, <2>4 DEF set_pci, Owner
<1>3. CASE Start(p)
  <2>1. writes'[p] = <<>> /\ pc'[p] = "topology"
    BY <1>3 DEF Start, Local, Fresh
  <2> QED
    BY <1>0, <2>1 DEF Owner, CallsOK
<1>4. CASE LoadTopology(p)
  <2>1. writes'[p] = <<>> /\ ((pc'[p] = "model" /\ enabled'[p]) \/ pc'[p] = "apply")
    BY <1>4 DEF LoadTopology, At
  <2> QED
    BY <1>0, <2>1 DEF Owner, CallsOK
<1>5. CASE NoTopology(p)
  <2>1. writes'[p] = <<>> /\ pc'[p] \in Discovering
    BY <1>5 DEF NoTopology, At
  <2> QED
    BY <1>0, <2>1 DEF Owner, CallsOK
<1>6. CASE Probe(p)
  <2>1. k[p] \in 1..Len(BusList) /\ pc'[p] \in {"probe", "compare"}
    BY <1>6 DEF Probe, At, Local, InRange
  <2>2. PICK x \in Buses : x = BusList[k[p]]
    BY <2>1, Lists
  <2>3. writes'[p] = Reset(x) \/ writes'[p] = set_throttle_register(x, InitialValue)
    BY <1>6, <2>2 DEF Probe, Write
  <2>4. \A j \in 1..Len(writes'[p]) : writes'[p][j].bus = x
    <3>1. InitialValue \in Values
      BY Registers
    <3> QED
      BY <2>3, <3>1, CallsOf
  <2> QED
    BY <2>1, <2>2, <2>4 DEF Owner, CallsOK
<1>7. CASE Compare(p)
  <2>1. writes'[p] = <<>> /\ pc'[p] \in Discovering
    BY <1>7 DEF Compare, At
  <2> QED
    BY <1>0, <2>1 DEF Owner, CallsOK
<1>8. CASE Attach(p)
  <2>1. writes'[p] = <<>> /\ pc'[p] \in Discovering
    BY <1>8 DEF Attach, At
  <2> QED
    BY <1>0, <2>1 DEF Owner, CallsOK
<1>18. CASE OpenTopology(p)
  <2>1. writes'[p] = <<>> /\ pc'[p] = "write_topology"
    BY <1>18 DEF OpenTopology, At
  <2> QED
    BY <1>0, <2>1 DEF Owner, CallsOK
<1>9. CASE ResetBus(p)
  <2>1. k[p] \in 1..Len(BusList) /\ pc'[p] \in {"reset", "save_topology"}
    BY <1>9 DEF ResetBus, At, Local, InRange
  <2>2. PICK x \in Buses : x = BusList[k[p]]
    BY <2>1, Lists
  <2>3. writes'[p] = Reset(x)
    BY <1>9, <2>2 DEF ResetBus, Write
  <2>4. \A j \in 1..Len(writes'[p]) : writes'[p][j].bus = x /\ writes'[p][j].val = Full
    BY <2>3, CallsOf, Registers
  <2> QED
    BY <2>1, <2>2, <2>4 DEF Owner, CallsOK
<1>10. CASE LoadModel(p)
  <2>1. writes'[p] = <<>> /\ pc'[p] \in {"model", "apply"} /\ pc[p] = "model" /\ enabled'[p] = enabled[p]
    BY <1>10 DEF LoadModel, NextNode, At
  <2> QED
    BY <1>0, <2>1 DEF Owner, CallsOK
<1>11. CASE TrainReset(p)
  <2>1. k[p] \in 1..Len(NodeList) /\ pc'[p] = "train" /\ enabled'[p] = enabled[p] /\ pc[p] = "model"
        /\ mc_pci_regs' = mc_pci_regs /\ Trained(p) # None
    BY <1>11 DEF TrainReset, At, Local, InRange
  <2>2. PICK x \in Buses : x = Trained(p)
    BY <2>1, Lists DEF Trained
  <2>3. writes'[p] = Reset(x)
    BY <1>11, <2>2 DEF TrainReset, Write
  <2>4. \A j \in 1..Len(writes'[p]) : writes'[p][j].bus = x
    BY <2>3, CallsOf, Registers
  <2> QED
    BY <2>1, <2>2, <2>4 DEF Owner, CallsOK, Trained
<1>12. CASE TrainSet(p)
  <2>1. k[p] \in 1..Len(NodeList) /\ pc'[p] = "measure" /\ enabled'[p] = enabled[p] /\ pc[p] = "train"
        /\ mc_pci_regs' = mc_pci_regs /\ Trained(p) # None
    BY <1>12 DEF TrainSet, At, Local, InRange, HasData
  <2>2. PICK x \in Buses : x = Trained(p)
    BY <2>1, Lists DEF Trained
  <2>3. PICK v : v = NextValue(get_throttle_register(x))
    OBVIOUS
  <2>4. v \in Values
    BY <2>3, NextValueTyped DEF IInv
  <2>5. writes'[p] = set_throttle_register(x, v)
    BY <1>12, <2>2, <2>3 DEF TrainSet, Write
  <2>6. \A j \in 1..Len(writes'[p]) : writes'[p][j].bus = x
    BY <2>4, <2>5, CallsOf
  <2> QED
    BY <2>1, <2>2, <2>6 DEF Owner, CallsOK, Trained
<1>13. CASE TrainMeasure(p)
  <2>1. writes'[p] = <<>> /\ pc'[p] \in {"train", "save"} /\ pc[p] = "measure" /\ enabled'[p] = enabled[p]
    BY <1>13 DEF TrainMeasure, At
  <2> QED
    BY <1>0, <2>1 DEF Owner, CallsOK
<1>14. CASE SaveModel(p)
  <2>1. writes'[p] = <<>> /\ pc'[p] \in {"save", "model", "apply"} /\ pc[p] = "save"
        /\ enabled'[p] = enabled[p]
    BY <1>14 DEF SaveModel, NextNode, At
  <2> QED
    BY <1>0, <2>1 DEF Owner, CallsOK
<1>15. CASE set_read_bw(p)
  <2>1. k[p] \in 1..Len(NodeList) /\ pc'[p] \in {"apply", "running"} /\ enabled'[p] = enabled[p]
        /\ mc_pci_regs' = mc_pci_regs
    BY <1>15 DEF set_read_bw, At, Local, InRange
  <2>2. PICK x \in Buses \cup {None} : x = mc_pci_regs[p][NodeList[k[p]]]
    BY <2>1, Lists
  <2>3. PICK v \in Values : v = ThrottleValue(p)
    BY ThrottleValues
  <2>4. writes'[p] = IF x = None THEN <<>> ELSE set_throttle_register(x, v)
    BY <1>15, <2>2, <2>3 DEF set_read_bw, Write
  <2>5. \A j \in 1..Len(writes'[p]) : writes'[p][j].bus = x /\ writes'[p][j].val = v
    BY <1>0, <2>4, CallsOf
  <2>6. ~enabled[p] => v = Full
    BY <2>3 DEF ThrottleValue
  <2> QED
    BY <2>1, <2>2, <2>5, <2>6 DEF Owner, CallsOK
<1>16. CASE Finish(p)
  <2>1. Vanish(p) \/ (writes'[p] = <<>> /\ pc'[p] = "ending" /\ enabled'[p])
    BY <1>16 DEF Finish, At
  <2> QED
    BY <1>0, <1>1, <2>1 DEF Owner, CallsOK
<1>17. CASE Finalize(p)
  <2>1. k[p] \in 1..Len(NodeList) /\ pc'[p] = "ending" /\ enabled'[p] = enabled[p] /\ pc[p] = "ending"
        /\ mc_pci_regs' = mc_pci_regs /\ mc_pci_regs[p][NodeList[k[p]]] # None
    BY <1>17, Lists DEF Finalize, At, Local, InRange
  <2>2. PICK x \in Buses : x = mc_pci_regs[p][NodeList[k[p]]]
    BY <2>1, Lists
  <2>3. writes'[p] = set_throttle_register(x, Full)
    BY <1>17, <2>2 DEF Finalize, Write
  <2>4. \A j \in 1..Len(writes'[p]) : writes'[p][j].bus = x /\ writes'[p][j].val = Full
    BY <2>3, CallsOf, Registers
  <2> QED
    BY <2>1, <2>2, <2>4 DEF Owner, CallsOK
<1> QED
  BY <1>1, <1>2, <1>3, <1>4, <1>5, <1>6, <1>7, <1>8, <1>9, <1>10, <1>11, <1>12, <1>13,
     <1>14, <1>15, <1>16, <1>17, <1>18 DEF Step, SaveTopology, Finalized, Die

\* Processes set up one after the other.
OneSetsUp == \A p, q \in Processes : SettingUp(p) /\ SettingUp(q) => p = q

LEMMA OneSetsUpKept ==
    ASSUME IInv, OneSetsUp, NEW p \in Processes, Step(p), ~overlap'
    PROVE  OneSetsUp'
<1>1. CASE Start(p)
  <2>1. \A r \in Processes : ~SettingUp(r)
    BY <1>1 DEF Start
  <2>2. \A r \in Processes : r # p => pc'[r] = pc[r]
    BY OthersKeep DEF IInv
  <2> QED
    BY <2>1, <2>2 DEF OneSetsUp, SettingUp
<1>2. CASE ~Start(p)
  <2>1. SettingUp(p)' => SettingUp(p)
    BY <1>2 DEF Step, set_pci, LoadTopology, NoTopology, Probe, Compare, Attach, ResetBus,
       OpenTopology, SaveTopology, LoadModel, TrainReset, TrainSet, TrainMeasure, SaveModel, set_read_bw,
       Finish, Finalize, Finalized, Die, Vanish, GoTo, NextNode, At, SettingUp, IInv, TypeOK
  <2>2. \A r \in Processes : r # p => pc'[r] = pc[r]
    BY OthersKeep DEF IInv
  <2> QED
    BY <2>1, <2>2 DEF OneSetsUp, SettingUp
<1> QED
  BY <1>1, <1>2

\* Either the topology is being discovered, or all go by the file.
World(p) ==
    /\ pc[p] \in Discovering => mc_pci_file = None
    /\ pc[p] = "write_topology" => \A q \in Processes : pc[q] \notin Loaded
    /\ pc[p] \in Loaded => mc_pci_file # None /\ mc_pci_regs[p] = mc_pci_file

Worlds == \A p \in Processes : World(p)

\* The file and the topology of a process once it is past "topology".
LEMMA TopologyKept ==
    ASSUME IInv, NEW p \in Processes, Step(p)
    PROVE  /\ mc_pci_file' = mc_pci_file \/ OpenTopology(p) \/ SaveTopology(p)
           /\ pc'[p] = "write_topology" => pc[p] = "write_topology" \/ OpenTopology(p)
           /\ pc'[p] \in Discovering => pc[p] \in Discovering \/ NoTopology(p)
           /\ pc'[p] \in Loaded =>
                \/ pc[p] \in Loaded /\ mc_pci_regs'[p] = mc_pci_regs[p]
                \/ LoadTopology(p)
<1> USE DEF IInv, TypeOK, GoTo, Memory, search, config, ghosts, host, Loaded, Discovering
<1>0. CASE Vanish(p)
  BY <1>0 DEF Vanish, Step, set_pci, Start, LoadTopology, NoTopology, Probe, Compare, Attach,
     ResetBus, OpenTopology, SaveTopology, LoadModel, TrainReset, TrainSet, TrainMeasure, SaveModel,
     set_read_bw, Finish, Finalize, Finalized, Die
<1>1. CASE set_pci(p)
  BY <1>1 DEF set_pci
<1>2. CASE Start(p)
  BY <1>2 DEF Start
<1>3. CASE LoadTopology(p) \/ NoTopology(p)
  BY <1>3 DEF LoadTopology, NoTopology
<1>4. CASE Probe(p) \/ Compare(p)
  BY <1>4 DEF Probe, Compare, At
<1>5. CASE Attach(p) \/ ResetBus(p)
  BY <1>5 DEF Attach, ResetBus, At
<1>6. CASE LoadModel(p) \/ SaveModel(p)
  BY <1>6 DEF LoadModel, SaveModel, NextNode, At
<1>7. CASE TrainReset(p) \/ TrainSet(p) \/ TrainMeasure(p)
  BY <1>7 DEF TrainReset, TrainSet, TrainMeasure, At
<1>8. CASE set_read_bw(p)
  BY <1>8 DEF set_read_bw, At
<1>9. CASE Finish(p) \/ Finalize(p)
  BY <1>0, <1>9 DEF Finish, Finalize, At
<1>10. CASE OpenTopology(p)
  BY <1>10 DEF OpenTopology, At
<1> QED
  BY <1>0, <1>1, <1>2, <1>3, <1>4, <1>5, <1>6, <1>7, <1>8, <1>9, <1>10
     DEF Step, SaveTopology, Finalized, Die

LEMMA WorldsKept ==
    ASSUME IInv, OneSetsUp, Worlds, NEW p \in Processes, Step(p), ~overlap'
    PROVE  Worlds'
<1>1. \A q \in Processes : q # p => pc'[q] = pc[q] /\ mc_pci_regs'[q] = mc_pci_regs[q]
  BY OthersKeep DEF IInv
<1>2. CASE OpenTopology(p)
  <2>1. /\ pc[p] \in Discovering /\ pc'[p] = "write_topology"
        /\ pc'[p] \notin Discovering /\ pc'[p] \notin Loaded
    BY <1>2 DEF OpenTopology, At, GoTo, Discovering, Loaded, IInv, TypeOK
  <2>2. mc_pci_file = None
    BY <2>1 DEF Worlds, World
  <2>3. ASSUME NEW q \in Processes, q # p
        PROVE  pc[q] \notin Discovering /\ pc[q] \notin Loaded /\ pc[q] # "write_topology"
    <3>1. pc[q] \notin Discovering /\ pc[q] # "write_topology"
      BY <2>1, <2>3 DEF OneSetsUp, SettingUp, Discovering
    <3> QED
      BY <2>2, <3>1 DEF Worlds, World
  <2>4. \A q \in Processes : pc'[q] \notin Discovering /\ pc'[q] \notin Loaded
    BY <1>1, <2>1, <2>3
  <2> QED
    BY <2>4 DEF Worlds, World
<1>4. CASE SaveTopology(p)
  <2>1. pc[p] = "write_topology" /\ pc'[p] = "off"
    BY <1>4 DEF SaveTopology, At, Vanish, GoTo, IInv, TypeOK
  <2>2. ASSUME NEW q \in Processes, q # p
        PROVE  pc[q] \notin Discovering /\ pc[q] \notin Loaded /\ pc[q] # "write_topology"
    <3>1. pc[q] \notin Discovering /\ pc[q] # "write_topology"
      BY <2>1, <2>2 DEF OneSetsUp, SettingUp, Discovering
    <3> QED
      BY <2>1, <3>1 DEF Worlds, World
  <2>3. \A q \in Processes :
          pc'[q] \notin Discovering /\ pc'[q] \notin Loaded /\ pc'[q] # "write_topology"
    BY <1>1, <2>1, <2>2 DEF Discovering, Loaded
  <2> QED
    BY <2>3 DEF Worlds, World
<1>3. CASE ~OpenTopology(p) /\ ~SaveTopology(p)
  <2>1. mc_pci_file' = mc_pci_file
    BY <1>3, TopologyKept
  <2>4. ASSUME NEW q \in Processes, pc'[q] = "write_topology", NEW r \in Processes
        PROVE  pc'[r] \notin Loaded
    <3>1. pc[q] = "write_topology"
      BY <1>1, <1>3, <2>4, TopologyKept
    <3>2. pc[r] \notin Loaded
      BY <3>1 DEF Worlds, World
    <3>3. ~LoadTopology(p)
      <4>1. CASE p = q
        BY <3>1, <4>1 DEF LoadTopology, At
      <4>2. CASE p # q
        BY <3>1, <4>2 DEF LoadTopology, At, OneSetsUp, SettingUp
      <4> QED
        BY <4>1, <4>2
    <3> QED
      BY <1>1, <3>2, <3>3, TopologyKept
  <2>2. ASSUME NEW q \in Processes, q # p PROVE World(q)'
    BY <1>1, <2>1, <2>2, <2>4 DEF Worlds, World
  <2>3. World(p)'
    <3>1. CASE LoadTopology(p)
      BY <2>1, <2>4, <3>1 DEF World, LoadTopology, IInv, TypeOK, Discovering, GoTo
    <3>2. CASE NoTopology(p)
      BY <2>1, <2>4, <3>2 DEF World, NoTopology, IInv, TypeOK, Loaded, GoTo
    <3>3. CASE ~LoadTopology(p) /\ ~NoTopology(p)
      BY <2>1, <2>4, <3>3, TopologyKept DEF Worlds, World
    <3> QED
      BY <3>1, <3>2, <3>3
  <2> QED
    BY <2>2, <2>3 DEF Worlds
<1> QED
  BY <1>2, <1>3, <1>4

\* Process p will lift the throttle of channel c of bus x before it ends.
Owes(p, x, c) ==
    \/ /\ enabled[p] /\ pc[p] \in Loaded
       /\ \/ \E i \in 1..Len(NodeList) :
               (pc[p] = "ending" => k[p] <= i) /\ mc_pci_regs[p][NodeList[i]] = x
          \/ pc[p] = "ending" /\ Pending(p, x, c)
    \/ /\ pc[p] \in {"probe", "compare", "attach", "reset"}
       /\ \E i \in 1..Len(BusList) : (pc[p] = "reset" => k[p] <= i) /\ BusList[i] = x
    \/ pc[p] \in {"reset", "save_topology"} /\ Pending(p, x, c)

Owed == \A x \in Buses, c \in Chs : reg[x][c] # Full => \E p \in Processes : Owes(p, x, c)

\* The search sets a bus to one of two values, on all channels.
SearchSettles ==
    \A p \in Processes : pc[p] \in Discovering =>
        \A x \in Buses : \E v \in {InitialValue, Full} : Settles(p, x, v)

\* Who owes does not depend on the others.
LEMMA OwesKept ==
    ASSUME IInv, NEW p \in Processes, Step(p), NEW q \in Processes, q # p,
           NEW x \in Buses, NEW c \in Chs, Owes(q, x, c)
    PROVE  Owes(q, x, c)'
  BY OthersKeep DEF IInv, Owes, Pending

LEMMA OwedByCall ==
    ASSUME IInv, Owed, NEW p \in Processes, Owner(p), set_pci(p)
    PROVE  Owed'
<1> DEFINE s == writes[p]  w == Head(s)
<1>1. s \in Seq(Writings) /\ s # <<>> /\ Len(s) \in Nat \ {0}
  BY EmptySeq, LenProperties DEF IInv, TypeOK, Writings, set_pci
<1>2. reg \in [Buses -> [Chs -> Values]] /\ writes \in [Processes -> Seq(Writings)]
  BY DEF IInv, TypeOK, Writings
<1>3. w \in Writings /\ w = s[1] /\ Tail(s) \in Seq(Writings) /\ Len(Tail(s)) = Len(s) - 1
      /\ \A j \in 1..Len(Tail(s)) : Tail(s)[j] = s[j + 1]
  BY <1>1, HeadTailProperties
<1>4. w.bus \in Buses /\ w.channel \in Chs
  BY <1>3 DEF Writings
<1>5. reg' = [reg EXCEPT ![w.bus][w.channel] = w.val] /\ writes'[p] = Tail(s)
      /\ pc' = pc /\ k' = k /\ enabled' = enabled /\ mc_pci_regs' = mc_pci_regs
  BY <1>2 DEF set_pci
<1> SUFFICES ASSUME NEW x \in Buses, NEW c \in Chs, reg'[x][c] # Full
             PROVE  \E r \in Processes : Owes(r, x, c)'
  BY DEF Owed
<1>6. reg'[x][c] = IF w.bus = x /\ w.channel = c THEN w.val ELSE reg[x][c]
  BY <1>2, <1>4, <1>5
<1>7. CASE w.bus = x /\ w.channel = c
  <2>1. w.val # Full /\ s[1].val # Full /\ s[1].bus = x /\ 1 \in 1..Len(s)
    BY <1>1, <1>3, <1>6, <1>7
  <2>2. pc[p] \notin {"off", "topology"}
    BY <1>1 DEF IInv, Local, Fresh
  <2>8. pc[p] # "write_topology"
    BY <1>1 DEF IInv, Local, HasData
  <2>3. pc[p] \in Discovering \/ pc[p] \in Loaded
    BY <2>2, <2>8 DEF IInv, TypeOK, Loaded, Discovering
  <2>7. pc[p] \in {"reset", "save_topology", "ending"} \/ (pc[p] \in Loaded /\ ~enabled[p])
          => s[1].val = Full
    BY <2>1 DEF Owner, CallsOK
  <2>4. pc[p] \notin {"reset", "save_topology", "ending"} /\ (pc[p] \in Loaded => enabled[p])
    BY <2>1, <2>7
  <2>5. CASE pc[p] \in Loaded
    <3>1. PICK i \in 1..Len(NodeList) : mc_pci_regs[p][NodeList[i]] = x
      BY <2>1, <2>5 DEF Owner, CallsOK
    <3>2. Owes(p, x, c)'
      BY <1>5, <2>4, <2>5, <3>1 DEF Owes
    <3> QED
      BY <3>2
  <2>6. CASE pc[p] \in Discovering
    <3>1. PICK i \in 1..Len(BusList) : BusList[i] = x
      BY <2>1, <2>6 DEF Owner, CallsOK
    <3>2. Owes(p, x, c)'
      BY <1>5, <2>4, <2>6, <3>1 DEF Owes, Discovering
    <3> QED
      BY <3>2
  <2> QED
    BY <2>3, <2>5, <2>6
<1>8. CASE ~(w.bus = x /\ w.channel = c)
  <2>1. PICK r \in Processes : Owes(r, x, c)
    BY <1>6, <1>8 DEF Owed
  <2>2. CASE r # p
    BY <2>1, <2>2, OwesKept DEF Step
  <2>3. CASE r = p
    <3>1. Pending(p, x, c) => Pending(p, x, c)'
      <4> SUFFICES ASSUME Pending(p, x, c) PROVE Pending(p, x, c)'
        OBVIOUS
      <4>1. PICK i \in 1..Len(s) : s[i].bus = x /\ s[i].channel = c
        BY DEF Pending
      <4>2. i # 1
        BY <1>3, <1>8, <4>1
      <4>3. i - 1 \in 1..Len(Tail(s)) /\ Tail(s)[i - 1] = s[i]
        BY <1>1, <1>3, <4>1, <4>2
      <4> QED
        BY <1>5, <4>1, <4>3 DEF Pending
    <3>2. Owes(p, x, c)'
      BY <1>5, <2>1, <2>3, <3>1 DEF Owes
    <3> QED
      BY <3>2
  <2> QED
    BY <2>2, <2>3
<1> QED
  BY <1>7, <1>8

\* During the search the first channel tells whether any channel is throttled.
LEMMA ResetSettles ==
    ASSUME IInv, NEW p \in Processes, NEW x \in Buses, NEW v \in {InitialValue, Full},
           Settles(p, x, v), writes[p] = <<>>, writes'[p] = Reset(x), reg' = reg
    PROVE  /\ Settles(p, x, Full)'
           /\ \A c \in Chs : reg[x][c] # Full => Pending(p, x, c)'
           /\ \A y \in Buses, u \in Values : y # x /\ Settles(p, y, u) => Settles(p, y, u)'
<1>1. \A c \in Chs : reg[x][c] = v
  BY EmptySeq DEF Settles, Pending
<1>2. get_throttle_register(x) = v
  BY <1>1, Registers DEF get_throttle_register, get_pci
<1>3. CASE v = Full
  <2>1. writes'[p] = writes[p]
    BY <1>2, <1>3, Registers DEF Reset
  <2> QED
    BY <1>1, <1>3, <2>1, SettlesKept
<1>4. CASE v = InitialValue
  <2>1. writes'[p] = set_throttle_register(x, Full)
    BY <1>2, <1>4, Registers DEF Reset
  <2>2. /\ Settles(p, x, Full)'
        /\ \A y \in Buses, u \in Values : y # x /\ Settles(p, y, u) => Settles(p, y, u)'
    BY <2>1, SettlesWrite, Registers
  <2>3. \A c \in Chs : reg[x][c] # Full
    BY <1>1, <1>4, Registers
  <2>4. \A c \in Chs : Pending(p, x, c)'
    BY <2>2, <2>3 DEF Settles
  <2> QED
    BY <2>2, <2>4
<1> QED
  BY <1>3, <1>4

LEMMA OwesStays ==
    ASSUME IInv, SearchSettles, NEW p \in Processes, Step(p), ~set_pci(p), ~lost',
           NEW x \in Buses, NEW c \in Chs, reg[x][c] # Full, Owes(p, x, c)
    PROVE  Owes(p, x, c)'
<1> USE DEF IInv, TypeOK, GoTo, Write, Memory, search, config, ghosts, host
<1>0. Len(NodeList) \in Nat \ {0} /\ Len(BusList) \in Nat
  BY Lists
<1>a. writes[p] = <<>> => ~Pending(p, x, c)
  BY EmptySeq DEF Pending
<1>1. CASE Start(p) \/ LoadTopology(p) \/ NoTopology(p)
  BY <1>1 DEF Start, LoadTopology, NoTopology, At, Owes, Loaded
<1>2. CASE Probe(p) \/ Compare(p)
  BY <1>2 DEF Probe, Compare, At, Owes, Loaded
<1>3. CASE Attach(p)
  <2>1. pc[p] = "attach" /\ pc'[p] \in {"probe", "reset"} /\ k'[p] = 1
    BY <1>3 DEF Attach, At, Local, InRange
  <2>2. \E i \in 1..Len(BusList) : BusList[i] = x
    BY <2>1 DEF Owes, Loaded
  <2> QED
    BY <1>0, <2>1, <2>2 DEF Owes
<1>4. CASE ResetBus(p)
  <2>1. pc[p] = "reset" /\ writes[p] = <<>> /\ k[p] \in 1..Len(BusList)
    BY <1>4 DEF ResetBus, At, Local, InRange
  <2>2. PICK i \in 1..Len(BusList) : k[p] <= i /\ BusList[i] = x
    BY <1>a, <2>1 DEF Owes, Loaded
  <2>3. pc'[p] \in {"reset", "save_topology"}
    BY <1>4, <2>1 DEF ResetBus
  <2>4. CASE i = k[p]
    <3>1. writes'[p] = Reset(x) /\ reg' = reg
      BY <1>4, <2>2, <2>4 DEF ResetBus
    <3>2. PICK v \in {InitialValue, Full} : Settles(p, x, v)
      BY <2>1 DEF SearchSettles, Discovering
    <3>3. Pending(p, x, c)'
      BY <2>1, <3>1, <3>2, ResetSettles
    <3> QED
      BY <2>3, <3>3 DEF Owes
  <2>5. CASE i # k[p]
    <3>1. pc'[p] = "reset" /\ k'[p] = k[p] + 1
      BY <1>0, <1>4, <2>1, <2>2, <2>5 DEF ResetBus
    <3>2. k'[p] <= i
      BY <1>0, <2>1, <2>2, <2>5, <3>1
    <3> QED
      BY <2>2, <3>1, <3>2 DEF Owes
  <2> QED
    BY <2>4, <2>5
<1>5. CASE OpenTopology(p) \/ SaveTopology(p)
  BY <1>0, <1>5, <1>a, EmptySeq DEF OpenTopology, SaveTopology, At, Owes, Loaded, Pending
<1>6. CASE LoadModel(p) \/ SaveModel(p)
  <2>1. pc[p] \in {"model", "save"} /\ pc'[p] \in {"model", "save", "apply"}
        /\ enabled' = enabled /\ mc_pci_regs' = mc_pci_regs
    BY <1>6 DEF LoadModel, SaveModel, NextNode, At
  <2> QED
    BY <2>1 DEF Owes, Loaded
<1>7. CASE TrainReset(p) \/ TrainSet(p) \/ TrainMeasure(p)
  <2>1. pc[p] \in {"model", "train", "measure"} /\ pc'[p] \in {"train", "measure", "save"}
        /\ enabled' = enabled /\ mc_pci_regs' = mc_pci_regs
    BY <1>7 DEF TrainReset, TrainSet, TrainMeasure, At
  <2> QED
    BY <2>1 DEF Owes, Loaded
<1>8. CASE set_read_bw(p)
  <2>1. pc[p] = "apply" /\ pc'[p] \in {"apply", "running"}
        /\ enabled' = enabled /\ mc_pci_regs' = mc_pci_regs
    BY <1>8 DEF set_read_bw, At
  <2> QED
    BY <2>1 DEF Owes, Loaded
<1>9. CASE Finish(p)
  <2>1. pc[p] = "running" /\ enabled[p]
    BY <1>9 DEF Finish, At, Owes
  <2>2. pc'[p] = "ending" /\ k'[p] = 1 /\ enabled'[p] /\ mc_pci_regs' = mc_pci_regs
    BY <1>9, <2>1 DEF Finish, Local, InRange
  <2> QED
    BY <1>0, <2>1, <2>2 DEF Owes, Loaded
<1>10. CASE Finalize(p)
  <2>1. pc[p] = "ending" /\ writes[p] = <<>> /\ k[p] \in 1..Len(NodeList) /\ pc' = pc
        /\ enabled' = enabled /\ mc_pci_regs' = mc_pci_regs /\ reg' = reg
    BY <1>10, <1>0 DEF Finalize, At, Local, InRange
  <2>2. PICK i \in 1..Len(NodeList) : k[p] <= i /\ mc_pci_regs[p][NodeList[i]] = x
    BY <1>a, <2>1 DEF Owes
  <2>3. CASE i = k[p]
    <3>1. writes'[p] = set_throttle_register(x, Full)
      BY <1>10, <2>2, <2>3 DEF Finalize
    <3>2. Settles(p, x, Full)'
      BY <2>1, <3>1, SettlesWrite, Registers
    <3>3. Pending(p, x, c)'
      BY <2>1, <3>2 DEF Settles
    <3> QED
      BY <2>1, <3>3 DEF Owes, Loaded
  <2>4. CASE i # k[p]
    <3>1. k'[p] = k[p] + 1
      BY <1>10 DEF Finalize
    <3>2. k'[p] <= i
      BY <1>0, <2>1, <2>2, <2>4, <3>1
    <3> QED
      BY <2>1, <2>2, <3>2 DEF Owes, Loaded
  <2> QED
    BY <2>3, <2>4
<1>11. CASE Finalized(p)
  BY <1>0, <1>11, <1>a DEF Finalized, At, Owes, Loaded
<1>12. CASE Die(p)
  BY <1>12 DEF Die
<1> QED
  BY <1>1, <1>2, <1>3, <1>4, <1>5, <1>6, <1>7, <1>8, <1>9, <1>10, <1>11, <1>12 DEF Step

LEMMA OwedKept ==
    ASSUME IInv, Owed, SearchSettles, NEW p \in Processes, Owner(p), Step(p), ~lost'
    PROVE  Owed'
<1>1. CASE set_pci(p)
  BY <1>1, OwedByCall
<1>2. CASE ~set_pci(p)
  <2>1. reg' = reg
    BY <1>2, RegistersKeep
  <2>2. ASSUME NEW x \in Buses, NEW c \in Chs, reg'[x][c] # Full
        PROVE  \E r \in Processes : Owes(r, x, c)'
    <3>1. PICK r \in Processes : Owes(r, x, c)
      BY <2>1, <2>2 DEF Owed
    <3>2. Owes(r, x, c)'
      BY <1>2, <2>1, <2>2, <3>1, OwesKept, OwesStays
    <3> QED
      BY <3>2
  <2> QED
    BY <2>2 DEF Owed
<1> QED
  BY <1>1, <1>2

\* Nobody owes anything when the search for the topology begins.
LEMMA SearchStarts ==
    ASSUME IInv, OneSetsUp, Worlds, Owed, NEW p \in Processes, NoTopology(p)
    PROVE  \A x \in Buses, c \in Chs : reg[x][c] = Full
<1>1. pc[p] = "topology" /\ mc_pci_file = None
  BY DEF NoTopology, At
<1>2. ASSUME NEW r \in Processes
      PROVE  pc[r] \notin Loaded /\ pc[r] \notin Discovering
  <2>1. pc[r] \notin Loaded
    BY <1>1 DEF Worlds, World
  <2>2. ASSUME pc[r] \in Discovering PROVE FALSE
    <3>1. SettingUp(r) /\ SettingUp(p)
      BY <1>1, <2>2 DEF SettingUp, Discovering
    <3>2. r = p
      BY <3>1 DEF OneSetsUp
    <3> QED
      BY <1>1, <2>2, <3>2 DEF Discovering
  <2> QED
    BY <2>1, <2>2
<1>3. \A r \in Processes, x \in Buses, c \in Chs : ~Owes(r, x, c)
  BY <1>2 DEF Owes, Loaded, Discovering
<1> QED
  BY <1>3 DEF Owed

LEMMA SearchSettlesKept ==
    ASSUME IInv, OneSetsUp, Worlds, Owed, SearchSettles, NEW p \in Processes, Step(p)
    PROVE  SearchSettles'
<1> SUFFICES ASSUME NEW q \in Processes, pc'[q] \in Discovering, NEW x \in Buses
             PROVE  \E v \in {InitialValue, Full} : Settles(q, x, v)'
  BY DEF SearchSettles, Discovering
<1>1. CASE q # p
  <2>1. pc[q] \in Discovering /\ writes'[q] = writes[q]
    BY <1>1, OthersKeep DEF IInv
  <2>2. PICK v \in {InitialValue, Full} : Settles(q, x, v)
    BY <2>1 DEF SearchSettles
  <2>3. ~set_pci(p)
    <3> SUFFICES ASSUME set_pci(p) PROVE FALSE
      OBVIOUS
    <3>1. pc[p] \notin {"off", "topology"}
      BY DEF set_pci, IInv, Local, Fresh
    <3>5. pc[p] # "write_topology"
      BY DEF set_pci, IInv, Local, HasData
    <3>2. pc[p] \in Discovering \/ pc[p] \in Loaded
      BY <3>1, <3>5 DEF IInv, TypeOK, Loaded, Discovering
    <3>3. pc[p] \notin Loaded
      BY <2>1 DEF Worlds, World
    <3>4. SettingUp(p) /\ SettingUp(q)
      BY <2>1, <3>2, <3>3 DEF SettingUp, Discovering
    <3> QED
      BY <1>1, <3>4 DEF OneSetsUp
  <2>4. reg' = reg
    BY <2>3, RegistersKeep
  <2> QED
    BY <2>1, <2>2, <2>4, SettlesKept
<1>2. CASE q = p /\ NoTopology(p)
  <2>1. reg' = reg /\ writes'[p] = <<>>
    BY <1>2 DEF NoTopology, At, host
  <2>2. \A c \in Chs : reg[x][c] = Full
    BY <1>2, SearchStarts
  <2>3. Settles(p, x, Full)'
    BY <2>1, <2>2, EmptySeq DEF Settles
  <2> QED
    BY <1>2, <2>3
<1>3. CASE q = p /\ ~NoTopology(p)
  <2>1. pc[p] \in Discovering /\ pc'[p] \in Discovering
    BY <1>3, TopologyKept
  <2>2. PICK v \in {InitialValue, Full} : Settles(p, x, v)
    BY <2>1 DEF SearchSettles
  <2>3. InitialValue \in Values /\ Full \in Values
    BY Registers
  <2>4. CASE set_pci(p)
    BY <1>3, <2>2, <2>4, SettlesSetPci
  <2>5. CASE ~set_pci(p)
    <3>1. reg' = reg
      BY <2>5, RegistersKeep
    <3>2. writes'[p] = writes[p] \/ Probe(p) \/ ResetBus(p)
      <4>1. pc'[p] # "off"
        BY <2>1 DEF Discovering
      <4>2. ~Vanish(p)
        BY <4>1 DEF Vanish, GoTo, IInv, TypeOK
      <4>3. Compare(p) \/ Attach(p) => writes'[p] = writes[p]
        BY DEF Compare, Attach
      <4>4. ~Start(p) /\ ~LoadTopology(p) /\ ~LoadModel(p) /\ ~TrainReset(p) /\ ~TrainSet(p)
            /\ ~TrainMeasure(p) /\ ~SaveModel(p) /\ ~set_read_bw(p) /\ ~Finish(p) /\ ~Finalize(p)
        BY <2>1 DEF Start, LoadTopology, LoadModel, TrainReset, TrainSet, TrainMeasure, SaveModel,
           set_read_bw, Finish, Finalize, At, Discovering
      <4> QED
        BY <1>3, <2>5, <4>2, <4>3, <4>4 DEF Step, OpenTopology, SaveTopology, Finalized, Die
    <3>3. CASE writes'[p] = writes[p]
      BY <1>3, <2>2, <3>1, <3>3, SettlesKept
    <3>4. CASE Probe(p) \/ ResetBus(p)
      <4>1. writes[p] = <<>> /\ k[p] \in 1..Len(BusList)
        BY <3>4 DEF Probe, ResetBus, At, IInv, Local, InRange
      <4>2. PICK y \in Buses : y = BusList[k[p]]
        BY <4>1, Lists
      <4>3. writes'[p] = Reset(y) \/ writes'[p] = set_throttle_register(y, InitialValue)
        BY <3>4, <4>2 DEF Probe, ResetBus, Write, IInv, TypeOK
      <4>4. PICK u \in {InitialValue, Full} : Settles(p, y, u)
        BY <2>1 DEF SearchSettles
      <4>5. CASE x = y
        BY <1>3, <2>3, <3>1, <4>1, <4>3, <4>4, <4>5, ResetSettles, SettlesWrite
      <4>6. CASE x # y
        BY <1>3, <2>2, <2>3, <3>1, <4>1, <4>3, <4>4, <4>6, ResetSettles, SettlesWrite
      <4> QED
        BY <4>5, <4>6
    <3> QED
      BY <3>2, <3>3, <3>4
  <2> QED
    BY <2>4, <2>5
<1> QED
  BY <1>1, <1>2, <1>3

\* Unless a process died, or two were setting up at once.
Orderly ==
    /\ \A p \in Processes : Owner(p)
    /\ ~overlap => OneSetsUp /\ Worlds
    /\ ~overlap /\ ~lost => Owed /\ SearchSettles

LEMMA GhostsStay ==
    ASSUME NEW p \in Processes, Step(p)
    PROVE  (overlap => overlap') /\ (lost => lost')
<1>1. Start(p) \/ UNCHANGED <<overlap, lost>> \/ Die(p)
  BY DEF Step, set_pci, LoadTopology, NoTopology, Probe, Compare, Attach, ResetBus,
     OpenTopology, SaveTopology, LoadModel, TrainReset, TrainSet, TrainMeasure, SaveModel, set_read_bw,
     Finish, Finalize, Finalized, config, ghosts
<1>2. CASE Start(p)
  <2>1. (overlap => overlap') /\ lost' = lost
    BY <1>2 DEF Start
  <2> QED
    BY <2>1
<1>3. CASE Die(p)
  <2>1. overlap' = overlap /\ (lost' = TRUE)
    BY <1>3 DEF Die
  <2> QED
    BY <2>1
<1>4. CASE UNCHANGED <<overlap, lost>>
  BY <1>4
<1> QED
  BY <1>1, <1>2, <1>3, <1>4

LEMMA OrderlyKept ==
    ASSUME IInv, Orderly, [Next]_vars
    PROVE  Orderly'
<1>1. CASE UNCHANGED vars
  <2>1. \A p \in Processes : Owner(p)'
    BY <1>1 DEF Orderly, Owner, CallsOK, vars, config
  <2>2. ~overlap => OneSetsUp' /\ Worlds'
    BY <1>1 DEF Orderly, OneSetsUp, SettingUp, Worlds, World, vars, host
  <2>3. \A p \in Processes, x \in Buses, c \in Chs : Owes(p, x, c) => Owes(p, x, c)'
    BY <1>1 DEF Owes, Pending, vars, config
  <2>4. \A p \in Processes, x \in Buses, v \in {InitialValue, Full} :
          Settles(p, x, v) => Settles(p, x, v)'
    BY <1>1 DEF Settles, Pending, vars, host
  <2>5. ~overlap /\ ~lost => Owed'
    BY <1>1, <2>3 DEF Orderly, Owed, vars, host
  <2>6. ~overlap /\ ~lost => SearchSettles'
    BY <1>1, <2>4 DEF Orderly, SearchSettles, vars
  <2>7. overlap' = overlap /\ lost' = lost
    BY <1>1 DEF vars, config, ghosts
  <2> QED
    BY <2>1, <2>2, <2>5, <2>6, <2>7 DEF Orderly
<1>2. CASE Next
  <2>1. PICK p \in Processes : Step(p)
    BY <1>2 DEF Next
  <2>2. (overlap => overlap') /\ (lost => lost')
    BY <2>1, GhostsStay
  <2>3. ASSUME NEW q \in Processes PROVE Owner(q)'
    <3>1. CASE q = p
      BY <2>1, <3>1, OwnerKept DEF Orderly
    <3>2. CASE q # p
      <4>1. pc'[q] = pc[q] /\ writes'[q] = writes[q] /\ mc_pci_regs'[q] = mc_pci_regs[q]
            /\ enabled'[q] = enabled[q]
        BY <2>1, <3>2, OthersKeep DEF IInv
      <4>2. Owner(q)
        BY DEF Orderly
      <4> QED
        BY <4>1, <4>2 DEF Owner, CallsOK
    <3> QED
      BY <3>1, <3>2
  <2>4. ~overlap' => OneSetsUp' /\ Worlds'
    BY <2>1, <2>2, OneSetsUpKept, WorldsKept DEF Orderly
  <2>5. ~overlap' /\ ~lost' => Owed' /\ SearchSettles'
    BY <2>1, <2>2, OwedKept, SearchSettlesKept DEF Orderly
  <2> QED
    BY <2>3, <2>4, <2>5 DEF Orderly
<1> QED
  BY <1>1, <1>2

LEMMA InitOrderly == Init => Orderly
<1> SUFFICES ASSUME Init PROVE Orderly
  OBVIOUS
<1> USE DEF Init
<1>1. \A p \in Processes : Owner(p)
  BY EmptySeq DEF Owner, CallsOK
<1>2. OneSetsUp /\ Worlds
  BY DEF OneSetsUp, SettingUp, Worlds, World, Discovering, Loaded
<1>3. Owed /\ SearchSettles
  BY DEF Owed, SearchSettles, Discovering
<1> QED
  BY <1>1, <1>2, <1>3 DEF Orderly

\* finalize of the last process leaves no controller throttled, unless a process died
\* or two were setting up at once (LastOneUnthrottles).
THEOREM LastUnthrottles == Spec => []LastOneUnthrottles
<1>1. IInv /\ Orderly /\ [Next]_vars => Orderly'
  BY OrderlyKept
<1>2. Orderly => LastOneUnthrottles
  <2>1. (\A p \in Processes : pc[p] = "off") =>
          \A p \in Processes, x \in Buses, c \in Chs : ~Owes(p, x, c)
    BY DEF Owes, Loaded
  <2> QED
    BY <2>1 DEF Orderly, Owed, LastOneUnthrottles
<1> QED
  BY <1>1, <1>2, InitOrderly, Invariance, PTL DEF Spec

-----------------------------------------------------------------------------
(* What is written to the model file. *)

Measured(pts, n) == \A j \in 1..n : \E d \in Jitter : pts[j].bw = Bandwidth[pts[j].reg] + d

Chain(pts, n) ==
    \A j \in 1..n :
        /\ j = 1 => pts[j].reg = InitialValue
        /\ j > 1 => \/ pts[j].reg = pts[j - 1].reg + Increment
                    \/ pts[j - 1].reg >= Full /\ pts[j].reg = InitialValue

\* The training starts from a bus that is not throttled, or is about to be lifted.
Lifted(p, x) ==
    /\ \A j \in 1..Len(writes[p]) : writes[p][j].val = Full
    /\ reg[x][1] >= Full \/ Pending(p, x, 1)

\* The table is what was measured so far, and the bus is at its last value.
TrainedWell(p) ==
    /\ alone[p] /\ pc[p] \in {"train", "measure", "save"}
    /\ Trained(p) = BusOf[NodeList[k[p]]]
    => /\ Measured(table[p], IF pc[p] = "measure" THEN Len(table[p]) - 1 ELSE Len(table[p]))
       /\ Chain(table[p], Len(table[p]))
       /\ pc[p] # "save" /\ table[p] # <<>> =>
            Settles(p, Trained(p), table[p][Len(table[p])].reg)
       /\ pc[p] = "train" /\ table[p] = <<>> => Lifted(p, Trained(p))

\* All channels at one value: that is the value that is measured.
LEMMA MeasuredAt ==
    ASSUME TypeOK, NEW n \in Nodes, NEW v, \A c \in Chs : reg[BusOf[n]][c] = v,
           NEW rbw \in measure_read_bw(n)
    PROVE  \E d \in Jitter : rbw = Bandwidth[v] + d
<1>1. BusOf[n] \in Buses /\ 1 \in Chs
  BY ThrottleAssumption, Registers
<1>2. v \in Nat
  BY <1>1, ThrottleAssumption DEF TypeOK, Values
<1>3. {reg[BusOf[n]][c] : c \in Chs} = {v}
  BY <1>1
<1>4. Min({v}) = v
  BY <1>2 DEF Min
<1> QED
  BY <1>3, <1>4 DEF measure_read_bw

LEMMA TrainedByOthers ==
    ASSUME IInv, NEW p \in Processes, Step(p), NEW q \in Processes, q # p, TrainedWell(q)
    PROVE  TrainedWell(q)'
<1>1. /\ pc'[q] = pc[q] /\ writes'[q] = writes[q] /\ k'[q] = k[q]
      /\ mc_pci_regs'[q] = mc_pci_regs[q] /\ table'[q] = table[q]
  BY OthersKeep DEF IInv
<1>2. alone'[q] => alone[q] /\ reg' = reg
  BY RegistersKeep
<1> QED
  BY <1>1, <1>2 DEF TrainedWell, Trained, Settles, Pending, Lifted

LEMMA TrainedByCall ==
    ASSUME IInv, NEW p \in Processes, set_pci(p), TrainedWell(p)
    PROVE  TrainedWell(p)'
<1>1. /\ pc'[p] = pc[p] /\ k'[p] = k[p] /\ mc_pci_regs'[p] = mc_pci_regs[p]
      /\ table'[p] = table[p] /\ alone'[p] = alone[p]
  BY DEF set_pci, search, IInv, TypeOK
<1>2. Trained(p)' = Trained(p)
  BY <1>1 DEF Trained
<1> SUFFICES ASSUME alone[p], pc[p] \in {"train", "measure", "save"},
                    Trained(p) = BusOf[NodeList[k[p]]]
             PROVE  TrainedWell(p)'
  BY <1>1, <1>2 DEF TrainedWell
<1>3. PICK x : x = Trained(p)
  OBVIOUS
<1>4. k[p] \in 1..Len(NodeList)
  BY DEF IInv, Local, InRange
<1>5. x \in Buses
  <2>1. NodeList[k[p]] \in Nodes
    BY <1>4, Lists
  <2> QED
    BY <1>3, <2>1, ThrottleAssumption
<1>6. PICK v : v = table[p][Len(table[p])].reg
  OBVIOUS
<1>7. Settles(p, x, v) => Settles(p, x, v)'
  BY <1>5, SettlesSetPci
<1>8. Lifted(p, x) => Lifted(p, x)'
  <2> SUFFICES ASSUME Lifted(p, x) PROVE Lifted(p, x)'
    OBVIOUS
  <2> DEFINE s == writes[p]  w == Head(s)
  <2>1. s \in Seq(Writings) /\ s # <<>> /\ Len(s) \in Nat \ {0}
    BY EmptySeq, LenProperties DEF IInv, TypeOK, Writings, set_pci
  <2>2. reg \in [Buses -> [Chs -> Values]] /\ writes \in [Processes -> Seq(Writings)]
    BY DEF IInv, TypeOK, Writings
  <2>3. w \in Writings /\ w = s[1] /\ Tail(s) \in Seq(Writings) /\ Len(Tail(s)) = Len(s) - 1
        /\ \A j \in 1..Len(Tail(s)) : Tail(s)[j] = s[j + 1]
    BY <2>1, HeadTailProperties
  <2>4. w.bus \in Buses /\ w.channel \in Chs /\ w.val = Full
    BY <2>1, <2>3 DEF Writings, Lifted
  <2>5. reg' = [reg EXCEPT ![w.bus][w.channel] = w.val] /\ writes'[p] = Tail(s)
    BY <2>2 DEF set_pci
  <2>6. reg'[x][1] = IF w.bus = x /\ w.channel = 1 THEN Full ELSE reg[x][1]
    <3>1. 1 \in Chs
      BY Registers
    <3>2. PICK u \in Chs : u = 1
      BY <3>1
    <3> HIDE DEF w
    <3>3. reg'[x][u] = IF w.bus = x /\ w.channel = u THEN w.val ELSE reg[x][u]
      BY <1>5, <2>2, <2>4, <2>5
    <3> QED
      BY <2>4, <3>2, <3>3
  <2>7. \A j \in 1..Len(writes'[p]) : writes'[p][j].val = Full
    <3>1. \A j \in 1..Len(writes'[p]) : j + 1 \in 1..Len(s) /\ writes'[p][j] = s[j + 1]
      BY <2>1, <2>3, <2>5
    <3> QED
      BY <3>1 DEF Lifted
  <2>8. reg'[x][1] >= Full \/ Pending(p, x, 1)'
    <3>1. CASE w.bus = x /\ w.channel = 1
      BY <2>6, <3>1, Registers
    <3>2. CASE ~(w.bus = x /\ w.channel = 1)
      <4>1. CASE reg[x][1] >= Full
        BY <2>6, <3>2, <4>1
      <4>2. CASE Pending(p, x, 1)
        <5>1. PICK i \in 1..Len(s) : s[i].bus = x /\ s[i].channel = 1
          BY <4>2 DEF Pending
        <5>2. i # 1
          BY <2>3, <3>2, <5>1
        <5>3. i - 1 \in 1..Len(Tail(s)) /\ Tail(s)[i - 1] = s[i]
          BY <2>1, <2>3, <5>1, <5>2
        <5> QED
          BY <2>5, <5>1, <5>3 DEF Pending
      <4> QED
        BY <4>1, <4>2 DEF Lifted
    <3> QED
      BY <3>1, <3>2
  <2> QED
    BY <2>7, <2>8 DEF Lifted
<1> QED
  <2> DEFINE M == Measured(table[p], IF pc[p] = "measure" THEN Len(table[p]) - 1 ELSE Len(table[p]))
  <2>1. M /\ M'
    BY <1>1 DEF TrainedWell, Measured
  <2>2. Chain(table[p], Len(table[p]))'
    BY <1>1 DEF TrainedWell, Chain
  <2>3. (pc[p] # "save" /\ table[p] # <<>>)' => Settles(p, x, v)'
    BY <1>1, <1>3, <1>6, <1>7 DEF TrainedWell
  <2>4. (pc[p] = "train" /\ table[p] = <<>>)' => Lifted(p, x)'
    BY <1>1, <1>3, <1>8 DEF TrainedWell
  <2>5. x = Trained(p)' /\ v = (table[p][Len(table[p])].reg)'
    BY <1>1, <1>2, <1>3, <1>6
  <2> QED
    BY <2>1, <2>2, <2>3, <2>4, <2>5 DEF TrainedWell, Settles, Pending, Lifted

LEMMA TrainedByReset ==
    ASSUME IInv, NEW p \in Processes, TrainReset(p)
    PROVE  TrainedWell(p)'
<1>1. PICK x : x = Trained(p)
  OBVIOUS
<1>2. /\ k[p] \in 1..Len(NodeList) /\ x # None /\ pc'[p] = "train" /\ table'[p] = <<>>
      /\ Trained(p)' = x /\ reg' = reg /\ writes'[p] = Reset(x)
  BY <1>1 DEF TrainReset, At, GoTo, Write, Trained, host, IInv, TypeOK, Local, InRange
<1>3. x \in Buses
  BY <1>1, <1>2, Lists DEF Trained, IInv, TypeOK
<1>4. Measured(<<>>, 0) /\ Chain(<<>>, 0) /\ Len(<<>>) = 0
  BY EmptySeq DEF Measured, Chain
<1>5. Lifted(p, x)'
  <2>1. \A j \in 1..Len(writes'[p]) : writes'[p][j].val = Full
    BY <1>2, <1>3, CallsOf, Registers
  <2>2. reg[x][1] \in Values
    BY <1>3, Registers DEF IInv, TypeOK
  <2>3. CASE reg[x][1] < Full
    <3>1. writes'[p] = set_throttle_register(x, Full)
      BY <1>2, <2>3 DEF Reset, get_throttle_register, get_pci
    <3>2. 1 \in 1..Channels /\ Len(writes'[p]) = Channels
          /\ writes'[p][1] = [bus |-> x, channel |-> 1, val |-> Full]
      BY <1>3, <3>1, Calls, Registers DEF Chs
    <3> QED
      BY <2>1, <3>2 DEF Lifted, Pending
  <2>4. CASE ~(reg[x][1] < Full)
    <3>1. reg'[x][1] >= Full
      <4>1. reg[x][1] \in Nat /\ Full \in Nat
        BY <2>2, NaturalValues, Registers
      <4> QED
        BY <1>2, <2>4, <4>1
    <3> QED
      BY <2>1, <3>1 DEF Lifted
  <2> QED
    BY <2>3, <2>4
<1> QED
  BY <1>2, <1>4, <1>5 DEF TrainedWell, Lifted, Pending

LEMMA TrainedBySet ==
    ASSUME IInv, NEW p \in Processes, TrainSet(p), TrainedWell(p)
    PROVE  TrainedWell(p)'
<1> DEFINE t == table[p]  n == Len(t)
<1>1. PICK x : x = Trained(p)
  OBVIOUS
<1>2. PICK v : v = NextValue(get_throttle_register(x))
  OBVIOUS
<1> DEFINE pt == [reg |-> v, bw |-> 0]
<1>a. PICK u : u = Append(t, pt)
  OBVIOUS
<1>3. /\ k[p] \in 1..Len(NodeList) /\ x # None /\ pc[p] = "train" /\ writes[p] = <<>>
      /\ pc'[p] = "measure" /\ k' = k /\ alone' = alone
      /\ Trained(p)' = x /\ reg' = reg
  BY <1>1 DEF TrainSet, At, GoTo, Trained, host, config, ghosts, IInv, TypeOK, Local, InRange, HasData
<1>4. x \in Buses /\ t \in Seq(Points)
  <2>1. x \in Buses \cup {None}
    BY <1>1, <1>3, NodeBus DEF Trained
  <2>2. t \in Seq(Points)
    BY DEF IInv, TypeOK
  <2> QED
    BY <1>3, <2>1, <2>2
<1>5. v \in Values
  BY <1>2, <1>4, NextValueTyped DEF IInv
<1>6. pt \in Points /\ pt.reg = v
  BY <1>5 DEF Points
<1>7. writes'[p] = set_throttle_register(x, v) /\ table'[p] = u
  BY <1>1, <1>2, <1>a DEF TrainSet, Write, IInv, TypeOK
<1> HIDE DEF pt
<1>8. /\ u \in Seq(Points) /\ Len(u) = n + 1 /\ u # <<>> /\ u[n + 1] = pt
      /\ \A j \in 1..n : u[j] = t[j]
  BY <1>4, <1>6, <1>a, AppendProperties
<1>9. n \in Nat
  BY <1>4, LenProperties
<1> SUFFICES ASSUME alone[p], x = BusOf[NodeList[k[p]]]
             PROVE  /\ Measured(u, Len(u) - 1) /\ Chain(u, Len(u))
                    /\ Settles(p, x, u[Len(u)].reg)'
  BY <1>3, <1>7, <1>8 DEF TrainedWell, Settles, Pending
<1>10. Settles(p, x, v)'
  BY <1>3, <1>4, <1>5, <1>7, SettlesWrite
<1>11. Measured(t, n) /\ Chain(t, n)
  BY <1>1, <1>3 DEF TrainedWell
<1>12. Measured(u, n)
  BY <1>8, <1>11 DEF Measured
<1>13. /\ n + 1 = 1 => v = InitialValue
       /\ n + 1 > 1 => \/ v = t[n].reg + Increment
                       \/ t[n].reg >= Full /\ v = InitialValue
  <2>1. 1 \in Chs
    BY Registers
  <2>2. v = IF reg[x][1] >= Full THEN InitialValue ELSE reg[x][1] + Increment
    BY <1>2 DEF NextValue, get_throttle_register, get_pci
  <2>3. CASE n = 0
    <3>1. t = <<>>
      BY <1>4, <2>3, EmptySeq, LenProperties
    <3>2. Lifted(p, x)
      BY <1>1, <1>3, <3>1 DEF TrainedWell
    <3>3. reg[x][1] >= Full
      BY <1>3, <3>2, EmptySeq DEF Lifted, Pending
    <3> QED
      BY <2>2, <2>3, <3>3
  <2>4. CASE n # 0
    <3>1. t # <<>>
      BY <2>4, EmptySeq
    <3>2. Settles(p, x, t[n].reg)
      BY <1>1, <1>3, <3>1 DEF TrainedWell
    <3>3. reg[x][1] = t[n].reg
      BY <1>3, <2>1, <3>2, EmptySeq DEF Settles, Pending
    <3> QED
      BY <1>9, <2>2, <2>4, <3>3
  <2> QED
    BY <2>3, <2>4
<1>14. Chain(u, n + 1)
  <2>1. ASSUME NEW j \in 1..(n + 1)
        PROVE  /\ j = 1 => u[j].reg = InitialValue
               /\ j > 1 => \/ u[j].reg = u[j - 1].reg + Increment
                           \/ u[j - 1].reg >= Full /\ u[j].reg = InitialValue
    <3>1. CASE j = n + 1
      <4>1. u[j].reg = v
        BY <1>6, <1>8, <3>1
      <4>2. j > 1 => u[j - 1] = t[n]
        BY <1>8, <1>9, <3>1
      <4> QED
        BY <1>13, <3>1, <4>1, <4>2
    <3>2. CASE j # n + 1
      <4>1. j \in 1..n /\ u[j] = t[j] /\ (j > 1 => j - 1 \in 1..n /\ u[j - 1] = t[j - 1])
        BY <1>8, <1>9, <3>2
      <4> QED
        BY <1>11, <4>1 DEF Chain
    <3> QED
      BY <3>1, <3>2
  <2> QED
    BY <2>1 DEF Chain
<1>15. Len(u) - 1 = n /\ u[Len(u)].reg = v
  BY <1>6, <1>8, <1>9
<1> QED
  BY <1>8, <1>10, <1>12, <1>14, <1>15 DEF Settles, Pending

LEMMA TrainedByMeasure ==
    ASSUME IInv, NEW p \in Processes, TrainMeasure(p), TrainedWell(p)
    PROVE  TrainedWell(p)'
<1>a. PICK t : t = table[p]
  OBVIOUS
<1>b. PICK x : x = Trained(p)
  OBVIOUS
<1> DEFINE n == Len(t)
           stop == n > MinPoints + 1 /\ Flat(SubSeq(t, n - MinPoints, n - 1))
<1>1. /\ k[p] \in 1..Len(NodeList) /\ x # None /\ pc[p] = "measure" /\ writes[p] = <<>> /\ t # <<>>
      /\ k' = k /\ alone' = alone /\ writes' = writes /\ Trained(p)' = x /\ reg' = reg
  BY <1>a, <1>b DEF TrainMeasure, At, GoTo, Trained, host, config, ghosts, IInv, TypeOK,
     Local, InRange, HasData
<1>2. x \in Buses /\ t \in Seq(Points) /\ NodeList[k[p]] \in Nodes
  BY <1>a, <1>b, <1>1, Lists DEF Trained, IInv, TypeOK
<1>3. n \in Nat \ {0} /\ t[n] \in Points
  BY <1>1, <1>2, EmptySeq, LenProperties, ElementOfSeq
<1>4. MinPoints \in Nat \ {0, 1}
  BY ThrottleAssumption
<1>5. PICK rate \in measure_read_bw(NodeList[k[p]]) :
            IF stop
              THEN /\ table'[p] = SubSeq(t, 1, n - 1)
                   /\ pc'[p] = "save"
              ELSE /\ table'[p] = [t EXCEPT ![n].bw = rate]
                   /\ pc'[p] = IF n = MaxPoints THEN "save" ELSE "train"
  BY <1>a DEF TrainMeasure, GoTo, IInv, TypeOK
<1> SUFFICES ASSUME alone[p], x = BusOf[NodeList[k[p]]]
             PROVE  TrainedWell(p)'
  BY <1>1 DEF TrainedWell
<1>6. Measured(t, n - 1) /\ Chain(t, n) /\ Settles(p, x, t[n].reg)
  BY <1>a, <1>b, <1>1 DEF TrainedWell
<1>7. \A c \in Chs : reg[x][c] = t[n].reg
  BY <1>1, <1>6, EmptySeq DEF Settles, Pending
<1>8. PICK v : v = t[n].reg
  OBVIOUS
<1>9. PICK d \in Jitter : rate = Bandwidth[v] + d
  BY <1>2, <1>7, <1>8, MeasuredAt DEF IInv
<1>10. CASE stop
  <2>a. PICK u : u = SubSeq(t, 1, n - 1)
    OBVIOUS
  <2>1. table'[p] = u /\ pc'[p] = "save"
    BY <1>5, <1>10, <2>a
  <2>2. Len(u) = n - 1 /\ \A j \in 1..(n - 1) : u[j] = t[j]
    <3> HIDE DEF stop
    <3>1. PICK m : m = n - 1
      OBVIOUS
    <3>2. m \in Int /\ m \in Nat /\ m <= n /\ u = SubSeq(t, 1, m)
      BY <1>3, <2>a, <3>1
    <3>3. \A j \in 1..m : t[j] \in Points
      BY <1>2, <1>3, <3>2, ElementOfSeq
    <3>4. /\ Len(u) = IF 1 <= m THEN m - 1 + 1 ELSE 0
          /\ \A j \in 1..(m - 1 + 1) : u[j] = t[1 + j - 1]
      BY <3>2, <3>3, SubSeqProperties
    <3>5. Len(u) = m /\ \A j \in 1..m : u[j] = t[j]
      BY <3>2, <3>4
    <3> QED
      BY <3>1, <3>5
  <2>3. Measured(u, n - 1)
    BY <1>6, <2>2 DEF Measured
  <2>4. Chain(u, n - 1)
    <3>1. \A j \in 1..(n - 1) : j \in 1..n /\ (j > 1 => j - 1 \in 1..(n - 1))
      BY <1>3
    <3> QED
      BY <1>6, <2>2, <3>1 DEF Chain
  <2> HIDE DEF stop
  <2> QED
    BY <2>1, <2>2, <2>3, <2>4 DEF TrainedWell
<1>11. CASE ~stop
  <2>a. PICK u : u = [t EXCEPT ![n].bw = rate]
    OBVIOUS
  <2>1. table'[p] = u /\ pc'[p] \in {"save", "train"}
    BY <1>5, <1>11, <2>a
  <2>2. u \in Seq(Points) /\ Len(u) = n
    <3>1. rate \in Nat
      BY <1>2, Measurement DEF IInv
    <3>2. [t[n] EXCEPT !.bw = rate] \in Points
      BY <1>3, <3>1 DEF Points
    <3>3. u = [t EXCEPT ![n] = [t[n] EXCEPT !.bw = rate]]
      BY <2>a
    <3> QED
      BY <1>2, <1>3, <3>2, <3>3, ExceptSeq
  <2>3. \A j \in 1..n : u[j].reg = t[j].reg /\ (j # n => u[j] = t[j])
    <3>1. t \in [1..n -> Points]
      BY <1>2, LenProperties
    <3> QED
      BY <1>3, <2>a, <3>1 DEF Points
  <2>4. u[n].bw = rate
    <3>1. t \in [1..n -> Points]
      BY <1>2, LenProperties
    <3> QED
      BY <1>3, <2>a, <3>1 DEF Points
  <2>5. Measured(u, n)
    <3>1. \A j \in 1..n : j = n \/ j \in 1..(n - 1)
      BY <1>3
    <3>2. \E e \in Jitter : u[n].bw = Bandwidth[u[n].reg] + e
      BY <1>3, <1>8, <1>9, <2>3, <2>4
    <3>3. \A j \in 1..(n - 1) : u[j] = t[j] /\ \E e \in Jitter : t[j].bw = Bandwidth[t[j].reg] + e
      BY <1>3, <1>6, <2>3 DEF Measured
    <3> QED
      BY <3>1, <3>2, <3>3 DEF Measured
  <2>6. Chain(u, n)
    <3>1. \A j \in 1..n : j > 1 => j - 1 \in 1..n
      BY <1>3
    <3> QED
      BY <1>6, <2>3, <3>1 DEF Chain
  <2>7. u # <<>> /\ u[n].reg = v /\ v' = v
    BY <1>3, <1>8, <2>2, <2>3, EmptySeq
  <2>8. Settles(p, x, v)'
    BY <1>1, <1>2, <1>6, <1>8, SettlesKept
  <2> HIDE DEF stop
  <2> QED
    BY <1>1, <2>1, <2>2, <2>5, <2>6, <2>7, <2>8 DEF TrainedWell, Settles, Pending
<1> QED
  BY <1>10, <1>11

LEMMA TrainedByTheRest ==
    ASSUME IInv, NEW p \in Processes, Step(p), TrainedWell(p),
           ~set_pci(p), ~TrainReset(p), ~TrainSet(p), ~TrainMeasure(p)
    PROVE  TrainedWell(p)'
<1>1. CASE pc'[p] \notin {"train", "measure", "save"}
  BY <1>1 DEF TrainedWell
<1>2. CASE pc'[p] \in {"train", "measure", "save"}
  <2> USE DEF IInv, TypeOK, GoTo
  <2>1. ~Vanish(p)
    BY <1>2 DEF Vanish
  <2>2. ~Start(p) /\ ~LoadTopology(p) /\ ~NoTopology(p)
    BY <1>2 DEF Start, LoadTopology, NoTopology
  <2>3. ~Probe(p) /\ ~Compare(p) /\ ~Attach(p) /\ ~ResetBus(p)
    BY <1>2 DEF Probe, Compare, Attach, ResetBus, At
  <2>4. ~LoadModel(p)
    BY <1>2 DEF LoadModel, NextNode, At
  <2>5. ~set_read_bw(p) /\ ~Finish(p) /\ ~Finalize(p)
    BY <1>2, <2>1 DEF set_read_bw, Finish, Finalize, At
  <2>6. SaveModel(p)
    BY <1>2, <2>1, <2>2, <2>3, <2>4, <2>5 DEF Step, OpenTopology, SaveTopology, Finalized, Die
  <2>7. /\ pc[p] = "save" /\ writes' = writes /\ alone' = alone /\ table' = table
        /\ mc_pci_regs' = mc_pci_regs /\ reg' = reg
    BY <2>6 DEF SaveModel, At, Memory, config, ghosts
  <2>8. pc'[p] = "save" /\ k' = k
    <3>1. ~NextNode(p, "apply")
      BY <1>2 DEF NextNode
    <3> QED
      BY <2>6, <2>7, <3>1 DEF SaveModel
  <2> QED
    BY <2>7, <2>8 DEF TrainedWell, Trained
<1> QED
  BY <1>1, <1>2

AllTrainedWell == \A p \in Processes : TrainedWell(p)

LEMMA TrainedKept ==
    ASSUME IInv, AllTrainedWell, [Next]_vars
    PROVE  AllTrainedWell'
<1>1. CASE UNCHANGED vars
  <2>1. ASSUME NEW p \in Processes, TrainedWell(p)
        PROVE  TrainedWell(p)'
    BY <1>1, <2>1 DEF TrainedWell, Trained, Settles, Pending, Lifted, vars, host, config, ghosts
  <2> QED
    BY <2>1 DEF AllTrainedWell
<1>2. CASE Next
  <2>1. PICK p \in Processes : Step(p)
    BY <1>2 DEF Next
  <2>2. ASSUME NEW q \in Processes PROVE TrainedWell(q)'
    <3>1. TrainedWell(q)
      BY DEF AllTrainedWell
    <3>2. CASE q # p
      BY <2>1, <3>1, <3>2, TrainedByOthers
    <3>3. CASE q = p
      BY <2>1, <3>1, <3>3, TrainedByCall, TrainedByReset, TrainedBySet, TrainedByMeasure,
         TrainedByTheRest
    <3> QED
      BY <3>2, <3>3
  <2> QED
    BY <2>2 DEF AllTrainedWell
<1> QED
  BY <1>1, <1>2

-----------------------------------------------------------------------------
(* What is written to the topology file. *)

\* Every node has a controller of its own, and lspci lists these controllers.
OneControllerPerNode ==
    /\ Len(BusList) = Len(NodeList)
    /\ \A i, j \in 1..Len(BusList) : BusList[i] = BusList[j] => i = j
    /\ \A n, m \in Nodes : BusOf[n] = BusOf[m] => n = m
    /\ \A n \in Nodes : \E i \in 1..Len(BusList) : BusList[i] = BusOf[n]
    /\ \A i \in 1..Len(BusList) : \E n \in Nodes : BusList[i] = BusOf[n]

\* A throttled node is slower than one that is not, however the two are measured.
ThrottlingShows ==
    \A d, e \in Jitter : Bandwidth[InitialValue] + d < Bandwidth[Full] + e

Level(i, j) == IF i = j THEN Full ELSE InitialValue

\* Buses 1 to n are at their levels while bus b of p is the one that is not throttled.
AtLevels(p, n) == \A i \in 1..n : Settles(p, BusList[i], Level(i, b[p]))

\* The buses before b are attached.
AttachedBefore(p) ==
    /\ count[p] = b[p] - 1
    /\ \A n \in Nodes :
         mc_pci_regs[p][n] = IF \E i \in 1..(b[p] - 1) : BusList[i] = BusOf[n] THEN BusOf[n] ELSE None

\* Nodes 1 to n are compared: the node of bus b is found once it was among them.
ComparedTo(p, n) ==
    IF \E i \in 1..n : BusOf[NodeList[i]] = BusList[b[p]]
      THEN /\ local_node[p] # None /\ BusOf[local_node[p]] = BusList[b[p]]
           /\ \E d \in Jitter : max_local_rbw[p] = Bandwidth[Full] + d
      ELSE max_local_rbw[p] = 0 \/ \E d \in Jitter : max_local_rbw[p] = Bandwidth[InitialValue] + d

SearchedWell(p) ==
    alone[p] =>
      /\ pc[p] = "probe" => AtLevels(p, k[p] - 1) /\ max_local_rbw[p] = 0
      /\ pc[p] \in {"compare", "attach"} => AtLevels(p, Len(BusList))
      /\ pc[p] \in {"probe", "compare", "attach"} => AttachedBefore(p)
      /\ pc[p] = "compare" => ComparedTo(p, k[p] - 1)
      /\ pc[p] = "attach" => local_node[p] # None /\ BusOf[local_node[p]] = BusList[b[p]]
      /\ pc[p] \in {"reset", "save_topology", "write_topology"} => mc_pci_regs[p] = BusOf

LEMMA SearchedByOthers ==
    ASSUME IInv, NEW p \in Processes, Step(p), NEW q \in Processes, q # p, SearchedWell(q)
    PROVE  SearchedWell(q)'
<1>1. /\ pc'[q] = pc[q] /\ writes'[q] = writes[q] /\ b'[q] = b[q] /\ k'[q] = k[q]
      /\ mc_pci_regs'[q] = mc_pci_regs[q] /\ max_local_rbw'[q] = max_local_rbw[q]
      /\ local_node'[q] = local_node[q] /\ count'[q] = count[q]
  BY OthersKeep DEF IInv
<1>2. alone'[q] => alone[q] /\ reg' = reg
  BY RegistersKeep
<1>3. alone'[q] => (AtLevels(q, k[q] - 1) => AtLevels(q, k[q] - 1)')
  BY <1>1, <1>2 DEF AtLevels, Settles, Pending
<1>4. alone'[q] => (AtLevels(q, Len(BusList)) => AtLevels(q, Len(BusList))')
  BY <1>1, <1>2 DEF AtLevels, Settles, Pending
<1>5. AttachedBefore(q) => AttachedBefore(q)'
  BY <1>1 DEF AttachedBefore
<1>6. ComparedTo(q, k[q] - 1) => ComparedTo(q, k[q] - 1)'
  BY <1>1 DEF ComparedTo
<1> QED
  BY <1>1, <1>2, <1>3, <1>4, <1>5, <1>6 DEF SearchedWell

LEMMA SearchedByCall ==
    ASSUME IInv, NEW p \in Processes, set_pci(p), SearchedWell(p)
    PROVE  SearchedWell(p)'
<1>1. /\ pc'[p] = pc[p] /\ b'[p] = b[p] /\ k'[p] = k[p]
      /\ mc_pci_regs'[p] = mc_pci_regs[p] /\ max_local_rbw'[p] = max_local_rbw[p]
      /\ local_node'[p] = local_node[p] /\ count'[p] = count[p] /\ alone'[p] = alone[p]
  BY DEF set_pci, search, IInv, TypeOK
<1>2. ASSUME NEW i \in 1..Len(BusList), NEW v, Settles(p, BusList[i], v)
      PROVE  Settles(p, BusList[i], v)'
  <2>1. BusList[i] \in Buses
    BY Lists
  <2> QED
    BY <1>2, <2>1, SettlesSetPci
<1>3. PICK j : j = b[p]
  OBVIOUS
<1>4. ASSUME NEW n \in Nat, n <= Len(BusList), AtLevels(p, n)
      PROVE  \A i \in 1..n : Settles(p, BusList[i], Level(i, j))'
  <2> TAKE i \in 1..n
  <2>1. i \in 1..Len(BusList)
    BY <1>4, Lists
  <2>2. Settles(p, BusList[i], Level(i, j))
    BY <1>3, <1>4 DEF AtLevels
  <2> QED
    BY <1>2, <2>1, <2>2
<1>5. PICK m : m = k[p] - 1
  OBVIOUS
<1>6. pc[p] = "probe" => m \in Nat /\ m <= Len(BusList)
  BY <1>5, Lists DEF IInv, Local, InRange
<1>7. pc[p] = "probe" /\ AtLevels(p, m) => AtLevels(p, m)'
  BY <1>1, <1>3, <1>4, <1>6 DEF AtLevels
<1>8. AtLevels(p, Len(BusList)) => AtLevels(p, Len(BusList))'
  BY <1>1, <1>3, <1>4, Lists DEF AtLevels
<1>9. AttachedBefore(p) => AttachedBefore(p)'
  BY <1>1 DEF AttachedBefore
<1>10. ComparedTo(p, m) => ComparedTo(p, m)'
  BY <1>1 DEF ComparedTo
<1> QED
  BY <1>1, <1>5, <1>7, <1>8, <1>9, <1>10 DEF SearchedWell, AtLevels, ComparedTo, Settles, Pending

LEMMA SearchedByStart ==
    ASSUME IInv, OneControllerPerNode, NEW p \in Processes, NoTopology(p)
    PROVE  SearchedWell(p)'
<1>1. /\ pc[p] = "topology" /\ k'[p] = 1 /\ b'[p] = 1 /\ mc_pci_regs'[p] = Unknown
      /\ max_local_rbw'[p] = 0 /\ count'[p] = 0
  BY DEF NoTopology, At, Memory, search, IInv, TypeOK, Local, InRange, Fresh
<1>2. BusList # <<>>
  BY EmptySeq, Lists DEF OneControllerPerNode
<1>3. pc'[p] = "probe"
  BY <1>2 DEF NoTopology, GoTo, IInv, TypeOK
<1>4. AttachedBefore(p)'
  BY <1>1 DEF AttachedBefore, Unknown
<1>5. AtLevels(p, k[p] - 1)'
  BY <1>1 DEF AtLevels
<1> QED
  BY <1>1, <1>3, <1>4, <1>5 DEF SearchedWell

LEMMA SearchedByProbe ==
    ASSUME IInv, OneControllerPerNode, SearchSettles, NEW p \in Processes, Probe(p), SearchedWell(p)
    PROVE  SearchedWell(p)'
<1>a. PICK m : m = k[p]
  OBVIOUS
<1>b. PICK j : j = b[p]
  OBVIOUS
<1>1. /\ pc[p] = "probe" /\ writes[p] = <<>> /\ m \in 1..Len(BusList) /\ j \in 1..Len(BusList)
      /\ reg' = reg /\ b'[p] = j /\ mc_pci_regs' = mc_pci_regs /\ max_local_rbw' = max_local_rbw
      /\ local_node' = local_node /\ count' = count /\ alone' = alone /\ Len(BusList) \in Nat
  BY <1>a, <1>b, Lists DEF Probe, At, host, Memory, search, config, ghosts, IInv, Local, InRange
<1>2. PICK y \in Buses : y = BusList[m]
  BY <1>1, Lists
<1>3. writes'[p] = IF m = j THEN Reset(y) ELSE set_throttle_register(y, InitialValue)
  BY <1>2, <1>a, <1>b DEF Probe, Write, IInv, TypeOK
<1>4. InitialValue \in Values /\ Full \in Values /\ \A i : Level(i, j) \in {InitialValue, Full}
  BY Registers DEF Level
<1>5. PICK u \in {InitialValue, Full} : Settles(p, y, u)
  BY <1>1 DEF SearchSettles, Discovering
<1>6. Settles(p, y, Level(m, j))'
  <2>1. CASE m = j
    <3>1. Level(m, j) = Full
      BY <2>1 DEF Level
    <3>2. Settles(p, y, Full)'
      BY <1>1, <1>3, <1>5, <2>1, ResetSettles
    <3> QED
      BY <3>1, <3>2
  <2>2. CASE m # j
    <3>1. Level(m, j) = InitialValue
      BY <2>2 DEF Level
    <3>2. Settles(p, y, InitialValue)'
      BY <1>1, <1>3, <1>4, <2>2, SettlesWrite
    <3> QED
      BY <3>1, <3>2
  <2> QED
    BY <2>1, <2>2
<1> SUFFICES ASSUME alone[p] PROVE SearchedWell(p)'
  BY <1>1 DEF SearchedWell
<1>7. ASSUME NEW i \in 1..(m - 1)
      PROVE  Settles(p, BusList[i], Level(i, j))'
  <2>1. i \in 1..Len(BusList) /\ i # m
    BY <1>1
  <2>2. PICK x \in Buses : x = BusList[i]
    BY <2>1, Lists
  <2>3. x # y
    BY <1>1, <1>2, <2>1, <2>2 DEF OneControllerPerNode
  <2>4. Settles(p, x, Level(i, j))
    BY <1>1, <1>a, <1>b, <2>2 DEF SearchedWell, AtLevels
  <2>5. Level(i, j) \in Values
    BY <1>4
  <2>6. Settles(p, x, Level(i, j))'
    BY <1>1, <1>3, <1>4, <1>5, <2>3, <2>4, <2>5, ResetSettles, SettlesWrite
  <2> QED
    BY <2>2, <2>6
<1>8. \A i \in 1..m : Settles(p, BusList[i], Level(i, j))'
  <2>1. \A i \in 1..m : i = m \/ i \in 1..(m - 1)
    BY <1>1
  <2> QED
    BY <1>2, <1>6, <1>7, <2>1
<1>9. AttachedBefore(p)'
  BY <1>1, <1>b DEF SearchedWell, AttachedBefore
<1>10. max_local_rbw'[p] = 0
  BY <1>1 DEF SearchedWell
<1>11. CASE m = Len(BusList)
  <2>1. k'[p] = 1 /\ pc'[p] = "compare"
    BY <1>a, <1>11 DEF Probe, GoTo, IInv, TypeOK
  <2>2. AtLevels(p, Len(BusList))'
    BY <1>1, <1>8, <1>11 DEF AtLevels, Settles, Pending
  <2>3. ComparedTo(p, k[p] - 1)'
    BY <1>10, <2>1 DEF ComparedTo
  <2> QED
    BY <1>9, <2>1, <2>2, <2>3 DEF SearchedWell
<1>12. CASE m # Len(BusList)
  <2>1. k'[p] = m + 1 /\ pc'[p] = "probe" /\ k'[p] - 1 = m
    BY <1>a, <1>1, <1>12 DEF Probe, GoTo, IInv, TypeOK
  <2>2. AtLevels(p, k[p] - 1)'
    BY <1>1, <1>8, <2>1 DEF AtLevels, Settles, Pending
  <2> QED
    BY <1>9, <1>10, <2>1, <2>2 DEF SearchedWell
<1> QED
  BY <1>11, <1>12

LEMMA SearchedByCompare ==
    ASSUME IInv, OneControllerPerNode, ThrottlingShows,
           NEW p \in Processes, Compare(p), SearchedWell(p)
    PROVE  SearchedWell(p)'
<1>a. PICK m : m = k[p]
  OBVIOUS
<1>b. PICK j : j = b[p]
  OBVIOUS
<1>1. /\ pc[p] = "compare" /\ writes[p] = <<>> /\ m \in 1..Len(NodeList) /\ j \in 1..Len(BusList)
      /\ reg' = reg /\ b'[p] = j /\ mc_pci_regs' = mc_pci_regs /\ writes' = writes
      /\ count' = count /\ alone' = alone /\ Len(NodeList) \in Nat
  BY <1>a, <1>b, Lists DEF Compare, At, host, config, ghosts, IInv, Local, InRange
<1>2. PICK n \in Nodes : n = NodeList[m]
  BY <1>1, Lists
<1>3. PICK rbw \in measure_read_bw(n) :
         IF rbw > max_local_rbw[p]
           THEN max_local_rbw'[p] = rbw /\ local_node'[p] = n
           ELSE max_local_rbw'[p] = max_local_rbw[p] /\ local_node'[p] = local_node[p]
  BY <1>2, <1>a DEF Compare, Better, IInv, TypeOK
<1> SUFFICES ASSUME alone[p] PROVE SearchedWell(p)'
  BY <1>1 DEF SearchedWell
<1>4. AtLevels(p, Len(BusList)) /\ AttachedBefore(p) /\ ComparedTo(p, m - 1)
  BY <1>1, <1>a DEF SearchedWell
<1>5. AtLevels(p, Len(BusList))' /\ AttachedBefore(p)'
  BY <1>1, <1>4, <1>b DEF AtLevels, AttachedBefore, Settles, Pending
<1>6. PICK i \in 1..Len(BusList) : BusList[i] = BusOf[n]
  BY DEF OneControllerPerNode
<1>7. \A c \in Chs : reg[BusOf[n]][c] = Level(i, j)
  BY <1>1, <1>4, <1>6, <1>b, EmptySeq DEF AtLevels, Settles, Pending
<1>8. PICK d \in Jitter : rbw = Bandwidth[Level(i, j)] + d
  BY <1>3, <1>7, MeasuredAt DEF IInv
<1>9. /\ Bandwidth[Full] \in Nat /\ Bandwidth[InitialValue] \in Nat /\ Jitter \in SUBSET Nat
      /\ max_local_rbw[p] \in Nat
  BY Registers, ThrottleAssumption DEF Values, IInv, TypeOK
<1> DEFINE found(q) == \E r \in 1..q : BusOf[NodeList[r]] = BusList[j]
<1>10. found(m) <=> found(m - 1) \/ BusOf[n] = BusList[j]
  <2>1. \A r \in 1..m : r = m \/ r \in 1..(m - 1)
    BY <1>1
  <2>2. m \in 1..m /\ \A r \in 1..(m - 1) : r \in 1..m
    BY <1>1
  <2> QED
    BY <1>2, <2>1, <2>2
<1>11. BusOf[n] = BusList[j] <=> i = j
  BY <1>1, <1>6 DEF OneControllerPerNode
<1>12. IF found(m)
         THEN /\ local_node'[p] # None /\ BusOf[local_node'[p]] = BusList[j]
              /\ \E e \in Jitter : max_local_rbw'[p] = Bandwidth[Full] + e
         ELSE max_local_rbw'[p] = 0 \/ \E e \in Jitter : max_local_rbw'[p] = Bandwidth[InitialValue] + e
  <2> HIDE DEF found
  <2>0. IF found(m - 1)
         THEN /\ local_node[p] # None /\ BusOf[local_node[p]] = BusList[j]
              /\ \E e \in Jitter : max_local_rbw[p] = Bandwidth[Full] + e
         ELSE max_local_rbw[p] = 0 \/ \E e \in Jitter : max_local_rbw[p] = Bandwidth[InitialValue] + e
    BY <1>4, <1>b DEF ComparedTo, found
  <2>1. CASE i = j
    <3>1. found(m) /\ rbw = Bandwidth[Full] + d /\ n # None
      BY <1>8, <1>10, <1>11, <2>1, NoneAssumption DEF Level
    <3>2. CASE found(m - 1)
      BY <1>3, <1>11, <2>0, <2>1, <3>1, <3>2
    <3>3. CASE ~found(m - 1)
      <4>1. rbw > max_local_rbw[p]
        BY <1>9, <2>0, <3>1, <3>3 DEF ThrottlingShows
      <4> QED
        BY <1>3, <1>11, <2>1, <3>1, <4>1
    <3> QED
      BY <3>2, <3>3
  <2>2. CASE i # j
    <3>1. (found(m) <=> found(m - 1)) /\ rbw = Bandwidth[InitialValue] + d
      BY <1>8, <1>10, <1>11, <2>2 DEF Level
    <3>2. CASE found(m - 1)
      <4>1. ~(rbw > max_local_rbw[p])
        BY <1>9, <2>0, <3>1, <3>2 DEF ThrottlingShows
      <4> QED
        BY <1>3, <2>0, <3>1, <3>2, <4>1
    <3>3. CASE ~found(m - 1)
      BY <1>3, <2>0, <3>1, <3>3
    <3> QED
      BY <3>2, <3>3
  <2> QED
    BY <2>1, <2>2
<1>13. CASE m = Len(NodeList)
  <2>1. k'[p] = 1 /\ pc'[p] = "attach"
    BY <1>a, <1>13 DEF Compare, GoTo, IInv, TypeOK
  <2>2. PICK o \in Nodes : BusList[j] = BusOf[o]
    BY <1>1 DEF OneControllerPerNode
  <2>3. PICK r \in 1..Len(NodeList) : NodeList[r] = o
    BY ThrottleAssumption
  <2>4. found(m)
    BY <1>13, <2>2, <2>3
  <2> HIDE DEF found
  <2> QED
    BY <1>1, <1>5, <1>12, <2>1, <2>4 DEF SearchedWell
<1>14. CASE m # Len(NodeList)
  <2>1. k'[p] = m + 1 /\ pc'[p] = "compare" /\ k'[p] - 1 = m
    BY <1>a, <1>1, <1>14 DEF Compare, GoTo, IInv, TypeOK
  <2>2. ComparedTo(p, k[p] - 1)'
    BY <1>1, <1>12, <2>1 DEF ComparedTo
  <2> QED
    BY <1>5, <2>1, <2>2 DEF SearchedWell
<1> QED
  BY <1>13, <1>14

LEMMA SearchedByAttach ==
    ASSUME IInv, OneControllerPerNode, NEW p \in Processes, Attach(p), SearchedWell(p)
    PROVE  SearchedWell(p)'
<1>a. PICK j : j = b[p]
  OBVIOUS
<1>b. PICK o : o = local_node[p]
  OBVIOUS
<1>1. /\ pc[p] = "attach" /\ j \in 1..Len(BusList) /\ k'[p] = 1 /\ alone' = alone
      /\ Len(BusList) \in Nat /\ max_local_rbw'[p] = 0
  BY <1>a, Lists DEF Attach, At, config, ghosts, IInv, TypeOK, Local, InRange
<1> SUFFICES ASSUME alone[p] PROVE SearchedWell(p)'
  BY <1>1 DEF SearchedWell
<1>2. o \in Nodes /\ BusOf[o] = BusList[j] /\ AttachedBefore(p)
  BY <1>1, <1>a, <1>b DEF SearchedWell, IInv, TypeOK
<1>3. /\ mc_pci_regs[p] \in [Nodes -> Buses \cup {None}]
      /\ mc_pci_regs'[p] = [mc_pci_regs[p] EXCEPT ![o] = BusList[j]]
      /\ count'[p] = count[p] + 1 /\ o # None
  BY <1>2, <1>a, <1>b, NoneAssumption DEF Attach, IInv, TypeOK
<1>4. count'[p] = j
  BY <1>1, <1>2, <1>3, <1>a DEF AttachedBefore
<1>5. \A n \in Nodes :
        mc_pci_regs'[p][n] = IF \E i \in 1..j : BusList[i] = BusOf[n] THEN BusOf[n] ELSE None
  <2> TAKE n \in Nodes
  <2>1. \A i \in 1..j : i = j \/ i \in 1..(j - 1)
    BY <1>1
  <2>2. j \in 1..j /\ \A i \in 1..(j - 1) : i \in 1..j
    BY <1>1
  <2>3. CASE n = o
    <3>1. mc_pci_regs'[p][n] = BusOf[n]
      BY <1>2, <1>3, <2>3
    <3> QED
      BY <1>2, <2>2, <2>3, <3>1
  <2>4. CASE n # o
    <3>1. BusOf[n] # BusList[j]
      BY <1>2, <2>4 DEF OneControllerPerNode
    <3>2. mc_pci_regs'[p][n] = mc_pci_regs[p][n]
      BY <1>2, <1>3, <2>4
    <3>3. (\E i \in 1..j : BusList[i] = BusOf[n]) <=> (\E i \in 1..(j - 1) : BusList[i] = BusOf[n])
      BY <2>1, <2>2, <3>1
    <3> QED
      BY <1>2, <1>a, <3>2, <3>3 DEF AttachedBefore
  <2> QED
    BY <2>3, <2>4
<1>6. CASE j = Len(BusList)
  <2>1. pc'[p] = "reset"
    BY <1>a, <1>6 DEF Attach, GoTo, IInv, TypeOK
  <2>2. \A n \in Nodes : mc_pci_regs'[p][n] = BusOf[n]
    BY <1>5, <1>6 DEF OneControllerPerNode
  <2>3. BusOf \in [Nodes -> Buses] /\ BusList[j] \in Buses
    BY <1>1, Lists, ThrottleAssumption
  <2>4. mc_pci_regs'[p] \in [Nodes -> Buses \cup {None}]
    BY <1>3, <2>3
  <2>5. mc_pci_regs'[p] = BusOf
    BY <2>2, <2>3, <2>4
  <2> QED
    BY <2>1, <2>5 DEF SearchedWell
<1>7. CASE j # Len(BusList)
  <2>1. count'[p] # Len(NodeList)
    BY <1>4, <1>7 DEF OneControllerPerNode
  <2>2. pc'[p] = "probe" /\ b'[p] = j + 1
    BY <1>a, <1>7, <2>1 DEF Attach, GoTo, IInv, TypeOK
  <2>3. b'[p] - 1 = j
    BY <1>1, <2>2
  <2>4. AttachedBefore(p)'
    BY <1>4, <1>5, <2>3 DEF AttachedBefore
  <2>5. AtLevels(p, k[p] - 1)'
    BY <1>1 DEF AtLevels
  <2> QED
    BY <1>1, <2>2, <2>4, <2>5 DEF SearchedWell
<1> QED
  BY <1>6, <1>7

LEMMA SearchedByTheRest ==
    ASSUME IInv, NEW p \in Processes, Step(p), SearchedWell(p),
           ~set_pci(p), ~NoTopology(p), ~Probe(p), ~Compare(p), ~Attach(p)
    PROVE  SearchedWell(p)'
<1>3. CASE pc'[p] = "write_topology"
  <2>1. pc[p] = "write_topology" \/ OpenTopology(p)
    BY <1>3, TopologyKept
  <2>2. CASE OpenTopology(p)
    BY <1>3, <2>2 DEF SearchedWell, OpenTopology, At, Memory, config, ghosts
  <2>3. CASE pc[p] = "write_topology"
    <3>1. ~Vanish(p)
      BY <1>3 DEF Vanish, GoTo, IInv, TypeOK
    <3> QED
      BY <2>3, <3>1 DEF Step, Start, LoadTopology, ResetBus, OpenTopology, SaveTopology, LoadModel,
         TrainReset, TrainSet, TrainMeasure, SaveModel, set_read_bw, Finish, Finalize, Finalized,
         Die, At
  <2> QED
    BY <2>1, <2>2, <2>3
<1>1. CASE pc'[p] \notin Discovering /\ pc'[p] # "write_topology"
  BY <1>1 DEF SearchedWell, Discovering
<1>2. CASE pc'[p] \in Discovering
  <2>1. pc[p] \in Discovering
    BY <1>2, TopologyKept
  <2>2. ~Vanish(p)
    BY <1>2 DEF Vanish, GoTo, IInv, TypeOK, Discovering
  <2>3. ResetBus(p)
    <3>1. ~OpenTopology(p)
      BY <1>2 DEF OpenTopology, GoTo, IInv, TypeOK, Discovering
    <3> QED
      BY <2>1, <2>2, <3>1 DEF Step, Start, LoadTopology, SaveTopology, LoadModel, TrainReset,
         TrainSet, TrainMeasure, SaveModel, set_read_bw, Finish, Finalize, Finalized, Die, At,
         Discovering
  <2>4. /\ pc[p] = "reset" /\ mc_pci_regs' = mc_pci_regs /\ alone' = alone
        /\ pc'[p] \in {"reset", "save_topology"}
    BY <2>3 DEF ResetBus, At, GoTo, Memory, config, ghosts, IInv, TypeOK
  <2> QED
    BY <2>4 DEF SearchedWell
<1> QED
  BY <1>1, <1>2, <1>3

AllSearchedWell == ~overlap /\ ~lost => \A p \in Processes : SearchedWell(p)

LEMMA SearchedKept ==
    ASSUME OneControllerPerNode, ThrottlingShows, IInv, Orderly, AllSearchedWell, [Next]_vars
    PROVE  AllSearchedWell'
<1>1. CASE UNCHANGED vars
  <2>1. ASSUME NEW p \in Processes, SearchedWell(p)
        PROVE  SearchedWell(p)'
    <3>2. AtLevels(p, k[p] - 1) => AtLevels(p, k[p] - 1)'
      BY <1>1 DEF AtLevels, Settles, Pending, vars, host
    <3>3. AtLevels(p, Len(BusList)) => AtLevels(p, Len(BusList))'
      BY <1>1 DEF AtLevels, Settles, Pending, vars, host
    <3>4. AttachedBefore(p) => AttachedBefore(p)'
      BY <1>1 DEF AttachedBefore, vars, search
    <3>5. ComparedTo(p, k[p] - 1) => ComparedTo(p, k[p] - 1)'
      BY <1>1 DEF ComparedTo, vars, search
    <3> QED
      BY <1>1, <2>1, <3>2, <3>3, <3>4, <3>5 DEF SearchedWell, vars, search, config, ghosts
  <2> QED
    BY <1>1, <2>1 DEF AllSearchedWell, vars, config, ghosts
<1>2. CASE Next
  <2>1. PICK p \in Processes : Step(p)
    BY <1>2 DEF Next
  <2>2. (overlap => overlap') /\ (lost => lost')
    BY <2>1, GhostsStay
  <2>3. ASSUME ~overlap, ~lost, NEW q \in Processes PROVE SearchedWell(q)'
    <3>1. SearchedWell(q) /\ SearchSettles
      BY <2>3 DEF AllSearchedWell, Orderly
    <3>2. CASE q # p
      BY <2>1, <3>1, <3>2, SearchedByOthers
    <3>3. CASE q = p
      BY <2>1, <3>1, <3>3, SearchedByCall, SearchedByStart, SearchedByProbe, SearchedByCompare,
         SearchedByAttach, SearchedByTheRest
    <3> QED
      BY <3>2, <3>3
  <2> QED
    BY <2>2, <2>3 DEF AllSearchedWell
<1> QED
  BY <1>1, <1>2

\* The body of FilesAreTrue, for one process.
TrueStep(p) ==
    /\ SaveTopology(p) /\ alone[p] /\ ~lost /\ ~overlap => mc_pci_file' = BusOf
    /\ SaveModel(p) /\ alone[p] /\ mc_pci_regs[p] = BusOf =>
         LET old == Len(model_file) IN
         \A j \in (old + 1)..Len(model_file') :
            /\ \E d \in Jitter : model_file'[j].bw = Bandwidth[model_file'[j].reg] + d
            /\ j > old + 1 => Follows(model_file'[j], model_file'[j - 1])
            /\ j = old + 1 /\ b[p] > 1 => Follows(model_file'[j], table[p][b[p] - 1])
            /\ j = old + 1 /\ b[p] = 1 => model_file'[j].reg = InitialValue

\* save_model adds points of the table, from point b on and in their order.
LEMMA SaveModelAdds ==
    ASSUME IInv, NEW p \in Processes, SaveModel(p),
           NEW j \in (Len(model_file) + 1)..Len(model_file')
    PROVE  /\ b[p] \in 1..Len(table[p]) /\ b[p] + j - Len(model_file) - 1 \in 1..Len(table[p])
           /\ model_file'[j] = table[p][b[p] + j - Len(model_file) - 1]
           /\ j > Len(model_file) + 1 =>
                model_file'[j - 1] = table[p][b[p] + j - Len(model_file) - 2]
<1>1. pc[p] = "save" /\ b[p] \in 1..Len(table[p])
  BY DEF SaveModel, At, IInv, Local, InRange
<1>2. model_file \in Seq(Points) /\ table[p] \in Seq(Points)
  BY DEF IInv, TypeOK
<1>3. PICK n \in {Len(table[p])} \cup {(b[p] + Len(table[p])) \div 2} :
        model_file' = model_file \o SubSeq(table[p], b[p], n)
  BY DEF SaveModel
<1> DEFINE old == Len(model_file)
           len == Len(table[p])
           from == b[p]
           part == SubSeq(table[p], from, n)
<1>4. old \in Nat /\ len \in Nat /\ from \in 1..len
  BY <1>1, <1>2
<1> HIDE DEF old, len, from
<1>5. n \in from..len
  <2>1. n = len \/ n = (from + len) \div 2
    BY <1>3 DEF len, from
  <2> QED
    BY <1>4, <2>1
<1>6. /\ part \in Seq(Points) /\ Len(part) = n - from + 1
      /\ \A i \in 1..(n - from + 1) : part[i] = table[p][from + i - 1]
  <2>1. from \in 1..(len + 1) /\ n \in from..len /\ from <= n
    BY <1>4, <1>5
  <2> QED
    BY <1>2, <2>1, SubSeqProperties DEF len
<1> HIDE DEF part
<1>7. model_file' = model_file \o part
  BY <1>3 DEF part, from
<1>8. /\ Len(model_file') = old + Len(part)
      /\ \A i \in 1..(old + Len(part)) :
           model_file'[i] = IF i <= old THEN model_file[i] ELSE part[i - old]
  BY <1>2, <1>6, <1>7, ConcatProperties DEF old
<1>9. j \in (old + 1)..(old + n - from + 1)
  BY <1>4, <1>5, <1>6, <1>8 DEF old
<1>10. from + j - old - 1 \in 1..len /\ model_file'[j] = table[p][from + j - old - 1]
  <2>1. j - old \in 1..(n - from + 1) /\ j \in 1..(old + Len(part)) /\ ~(j <= old)
    BY <1>4, <1>5, <1>6, <1>9
  <2>2. model_file'[j] = part[j - old] /\ part[j - old] = table[p][from + (j - old) - 1]
    BY <1>6, <1>8, <2>1
  <2>3. from + (j - old) - 1 = from + j - old - 1 /\ from + j - old - 1 \in 1..len
    BY <1>4, <1>5, <1>9
  <2> QED
    BY <2>2, <2>3
<1>11. ASSUME j > old + 1
       PROVE  model_file'[j - 1] = table[p][from + j - old - 2]
  <2>1. /\ j - 1 - old \in 1..(n - from + 1) /\ j - 1 \in 1..(old + Len(part))
        /\ ~(j - 1 <= old)
    BY <1>4, <1>5, <1>6, <1>9, <1>11
  <2>2. /\ model_file'[j - 1] = part[j - 1 - old]
        /\ part[j - 1 - old] = table[p][from + (j - 1 - old) - 1]
    BY <1>6, <1>8, <2>1
  <2>3. from + (j - 1 - old) - 1 = from + j - old - 2
    BY <1>4, <1>5, <1>9
  <2> QED
    BY <2>2, <2>3
<1> QED
  BY <1>4, <1>10, <1>11 DEF old, len, from

LEMMA FilesTrueNow ==
    ASSUME IInv, AllTrainedWell, AllSearchedWell, NEW p \in Processes
    PROVE  TrueStep(p)
<1>1. ASSUME SaveTopology(p), alone[p], ~lost, ~overlap
      PROVE  mc_pci_file' = BusOf
  <2>1. mc_pci_regs[p] = BusOf
    BY <1>1 DEF SaveTopology, At, AllSearchedWell, SearchedWell
  <2> QED
    BY <1>1, <2>1 DEF SaveTopology
<1>2. ASSUME SaveModel(p), alone[p], mc_pci_regs[p] = BusOf,
             NEW j \in (Len(model_file) + 1)..Len(model_file')
      PROVE  /\ \E d \in Jitter : model_file'[j].bw = Bandwidth[model_file'[j].reg] + d
             /\ j > Len(model_file) + 1 => Follows(model_file'[j], model_file'[j - 1])
             /\ j = Len(model_file) + 1 /\ b[p] > 1 =>
                  Follows(model_file'[j], table[p][b[p] - 1])
             /\ j = Len(model_file) + 1 /\ b[p] = 1 => model_file'[j].reg = InitialValue
  <2>1. pc[p] = "save" /\ Trained(p) = BusOf[NodeList[k[p]]]
    BY <1>2 DEF SaveModel, At, Trained
  <2>2. Measured(table[p], Len(table[p])) /\ Chain(table[p], Len(table[p]))
    BY <1>2, <2>1 DEF AllTrainedWell, TrainedWell
  <2> DEFINE i == b[p] + j - Len(model_file) - 1
  <2>3. /\ b[p] \in 1..Len(table[p]) /\ i \in 1..Len(table[p])
        /\ model_file'[j] = table[p][i]
        /\ j > Len(model_file) + 1 => model_file'[j - 1] = table[p][i - 1]
    <3>1. j \in Int /\ b[p] \in Int /\ Len(model_file) \in Int
      BY <1>2, SaveModelAdds DEF IInv, TypeOK
    <3>2. b[p] + j - Len(model_file) - 2 = i - 1
      BY <3>1
    <3> QED
      BY <1>2, <3>2, SaveModelAdds
  <2>4. Len(model_file) \in Nat /\ Len(table[p]) \in Nat /\ j \in Int
    BY DEF IInv, TypeOK
  <2>5. \E d \in Jitter : table[p][i].bw = Bandwidth[table[p][i].reg] + d
    BY <2>2, <2>3 DEF Measured
  <2>6. i = 1 => table[p][i].reg = InitialValue
    BY <2>2, <2>3 DEF Chain
  <2>7. i > 1 => Follows(table[p][i], table[p][i - 1])
    BY <2>2, <2>3 DEF Chain, Follows
  <2>8. j > Len(model_file) + 1 => i > 1
    BY <2>3, <2>4
  <2>9. j = Len(model_file) + 1 => i = b[p]
    BY <2>3, <2>4
  <2> HIDE DEF i
  <2>10. b[p] = 1 \/ b[p] > 1
    BY <2>3, <2>4
  <2> QED
    BY <2>3, <2>5, <2>6, <2>7, <2>8, <2>9
<1>3. SaveModel(p) /\ alone[p] /\ mc_pci_regs[p] = BusOf =>
         \A j \in (Len(model_file) + 1)..Len(model_file') :
            /\ \E d \in Jitter : model_file'[j].bw = Bandwidth[model_file'[j].reg] + d
            /\ j > Len(model_file) + 1 => Follows(model_file'[j], model_file'[j - 1])
            /\ j = Len(model_file) + 1 /\ b[p] > 1 =>
                 Follows(model_file'[j], table[p][b[p] - 1])
            /\ j = Len(model_file) + 1 /\ b[p] = 1 => model_file'[j].reg = InitialValue
  BY <1>2
<1> QED
  BY <1>1, <1>3 DEF TrueStep

\* What discover_mc_pci_topology and train_model leave in the two files while no
\* other process disturbs them is true: the topology file names the controller
\* each node has, the model file what was measured at each value of the register
\* (FilesAreTrue).
THEOREM FilesStayTrue ==
    ASSUME OneControllerPerNode, ThrottlingShows
    PROVE  Spec => FilesAreTrue
<1>1. Init => AllTrainedWell /\ AllSearchedWell
  BY DEF Init, AllTrainedWell, TrainedWell, AllSearchedWell, SearchedWell
<1>2. IInv /\ AllTrainedWell /\ [Next]_vars => AllTrainedWell'
  BY TrainedKept
<1>3. IInv /\ Orderly /\ AllSearchedWell /\ [Next]_vars => AllSearchedWell'
  BY SearchedKept
<1>4. IInv /\ Orderly /\ [Next]_vars => Orderly'
  BY OrderlyKept
<1>5. IInv /\ AllTrainedWell /\ AllSearchedWell => \A p \in Processes : TrueStep(p)
  BY FilesTrueNow
<1>6. IInv /\ AllTrainedWell /\ AllSearchedWell /\ [Next]_vars =>
        [\A p \in Processes : TrueStep(p)]_vars
  BY <1>5
<1>7. Spec => [][\A p \in Processes : TrueStep(p)]_vars
  BY <1>1, <1>2, <1>3, <1>4, <1>6, InitOrderly, Invariance, PTL DEF Spec
<1> QED
  BY <1>7 DEF FilesAreTrue, TrueStep

=============================================================================
