-------------------------- MODULE CpuPartitionProofs --------------------------
(***************************************************************************)
(* The walk over a Numbered machine meets every CPU once, so the shares    *)
(* of different ranks are disjoint and as large as they should be.         *)
(*                                                                         *)
(* The walk is a recursive function.  Its value after i turns is described *)
(* by the number of CPUs before the one it is at (Index); were it wrong    *)
(* for some i, there would be a least i, and the turn before it is right.  *)
(***************************************************************************)
EXTENDS CpuPartition, FiniteSetTheorems, SequenceTheorems, WellFoundedInduction, TLAPS

D == DOMAIN machine.nodes
AllMasks == [n \in D |-> NodeMask(machine, n)]
Masks == [D -> SUBSET Nat]
Places == [node : D, cpu : Nat \cup {-1}]

\* The CPUs in the order of the walk, and how many there are before one.
Positions == {p \in [node : D, cpu : Nat] : p.cpu \in AllMasks[p.node]}
Precedes(p, q) == p.node < q.node \/ (p.node = q.node /\ p.cpu < q.cpu)
Before(p) == {q \in Positions : Precedes(q, p)}
Index(p) == Cardinality(Before(p))

-----------------------------------------------------------------------------
(* Numbers and recursion *)

LEMMA SmallestExists ==
    ASSUME NEW S \in SUBSET Nat, S # {}
    PROVE  \E i \in S : \A j \in S : i <= j
<1>1. IsWellFoundedOn(OpToRel(<, Nat), Nat)
  BY NatLessThanWellFounded
<1>2. PICK i \in S : \A j \in S : ~(<<j, i>> \in OpToRel(<, Nat))
  BY <1>1, WFMin
<1>3. \A j \in S : ~(j < i)
  BY <1>2 DEF OpToRel
<1> QED
  BY <1>3

\* A recursion over 0..n that stays in a set has a value: were there an m for
\* which it has none, there would be a least one.
Steps(n, S) == [(1..n) \X S -> S]
Recursion(h, n, base, step) ==
    h[0] = base /\ \A i \in 1..n : h[i] = step[<<i, h[i - 1]>>]

LEMMA RecursionExists ==
    ASSUME NEW S, NEW base \in S, NEW n \in Nat, NEW step \in Steps(n, S)
    PROVE  \E h \in [0..n -> S] : Recursion(h, n, base, step)
<1> USE DEF Steps
<1> DEFINE Runs(h, m) == h \in [0..m -> S] /\ h[0] = base
                         /\ \A i \in 1..m : h[i] = step[<<i, h[i - 1]>>]
           Without == {m \in Nat : m <= n /\ ~ \E h : Runs(h, m)}
<1>1. SUFFICES ASSUME Without # {} PROVE FALSE
  <2>1. CASE Without = {}
    <3> HIDE DEF Runs
    <3>1. n \notin Without
      BY <2>1
    <3>2. PICK h : Runs(h, n)
      BY <3>1
    <3>3. QED
      BY <3>2 DEF Runs, Recursion
  <2>2. QED
    BY <2>1
<1>2. PICK m \in Without : \A i \in Without : m <= i
  <2>1. Without \in SUBSET Nat
    OBVIOUS
  <2>2. QED
    BY <1>1, <2>1, SmallestExists
<1>3. m \in Nat /\ m <= n /\ ~ \E h : Runs(h, m)
  OBVIOUS
<1>4. CASE m = 0
  <2>1. Runs([i \in 0..0 |-> base], 0)
    OBVIOUS
  <2>2. QED
    BY <1>3, <1>4, <2>1
<1>5. CASE m # 0
  <2>1. m - 1 \in Nat /\ m - 1 <= n /\ m - 1 \notin Without
    <3>1. m - 1 \in Nat /\ m - 1 <= n /\ ~(m <= m - 1)
      BY <1>3, <1>5
    <3> HIDE DEF Without
    <3>2. QED
      BY <1>2, <3>1
  <2>2. PICK h : Runs(h, m - 1)
    <3> HIDE DEF Runs
    <3>1. QED
      BY <2>1
  <2> DEFINE last == step[<<m, h[m - 1]>>]
             g == [i \in 0..m |-> IF i = m THEN last ELSE h[i]]
  <2>3. h[m - 1] \in S /\ m \in 1..n
    BY <1>3, <1>5, <2>1, <2>2
  <2>4. last \in S
    BY <2>3
  <2>5. \A i \in 0..m : i # m => i \in 0..(m - 1)
    BY <1>3
  <2> HIDE DEF last
  <2>6. g \in [0..m -> S]
    BY <2>2, <2>4, <2>5
  <2>7. g[0] = base
    BY <1>3, <1>5, <2>2
  <2>8. ASSUME NEW i \in 1..m PROVE g[i] = step[<<i, g[i - 1]>>]
    <3>1. i - 1 \in 0..(m - 1) /\ i - 1 \in 0..m /\ i - 1 # m /\ i \in 0..m
      BY <1>3
    <3>2. g[i - 1] = h[i - 1]
      BY <3>1
    <3>3. CASE i = m
      BY <3>1, <3>2, <3>3 DEF last
    <3>4. CASE i # m
      <4>1. i \in 1..(m - 1)
        BY <1>3, <3>4
      <4>2. h[i] = step[<<i, h[i - 1]>>]
        BY <2>2, <4>1
      <4>3. QED
        BY <3>1, <3>2, <3>4, <4>2
    <3>5. QED
      BY <3>3, <3>4
  <2> HIDE DEF g
  <2>9. Runs(g, m)
    BY <2>6, <2>7, <2>8
  <2>10. QED
    BY <1>3, <2>9
<1> QED
  BY <1>4, <1>5

-----------------------------------------------------------------------------
(* Masks *)

LEMMA MachineShape ==
    ASSUME machine \in Machines
    PROVE  /\ Len(machine.nodes) \in Nat \ {0} /\ D = 1..Len(machine.nodes) /\ 1 \in D
           /\ \A n \in D : /\ machine.nodes[n] \in SUBSET Nat /\ IsFiniteSet(machine.nodes[n])
                           /\ NodeMask(machine, n) \subseteq machine.nodes[n]
                           /\ IsFiniteSet(NodeMask(machine, n))
           /\ AllMasks \in Masks
<1>1. machine.nodes \in Seq(SUBSET Nat) /\ machine.nodes # <<>>
  BY PartitionAssumption
<1>2. Len(machine.nodes) \in Nat \ {0} /\ D = 1..Len(machine.nodes) /\ 1 \in D
  BY <1>1 DEF D
<1>3. ASSUME NEW n \in D
      PROVE  /\ machine.nodes[n] \in SUBSET Nat /\ IsFiniteSet(machine.nodes[n])
             /\ NodeMask(machine, n) \subseteq machine.nodes[n]
             /\ IsFiniteSet(NodeMask(machine, n))
  <2>1. machine.nodes[n] \in SUBSET Nat
    BY <1>1, <1>2
  <2>2. IsFiniteSet(machine.nodes[n])
    BY PartitionAssumption DEF D
  <2>3. NodeMask(machine, n) \subseteq machine.nodes[n]
    BY DEF NodeMask
  <2>4. QED
    BY <2>1, <2>2, <2>3, FS_Subset
<1>4. AllMasks \in Masks
  BY <1>3 DEF AllMasks, Masks
<1> QED
  BY <1>2, <1>3, <1>4

\* next_cpu finds the next bit.
LEMMA NextCpu ==
    ASSUME NEW mask \in SUBSET Nat, NEW cpu \in Int
    PROVE  LET c == next_cpu(mask, cpu)
           IN  \/ c = -1 /\ \A x \in mask : x < cpu
               \/ c \in mask /\ c >= cpu /\ \A x \in mask : x >= cpu => c <= x
<1> DEFINE rest == {c \in mask : c >= cpu}
<1>1. CASE rest = {}
  BY <1>1 DEF next_cpu
<1>2. CASE rest # {}
  <2>1. PICK i \in rest : \A j \in rest : i <= j
    <3>1. rest \in SUBSET Nat
      OBVIOUS
    <3>2. QED
      BY <1>2, <3>1, SmallestExists
  <2>2. Min(rest) \in rest /\ \A j \in rest : Min(rest) <= j
    BY <2>1 DEF Min
  <2>3. next_cpu(mask, cpu) = Min(rest)
    BY <1>2 DEF next_cpu
  <2>4. QED
    BY <2>2, <2>3
<1> QED
  BY <1>1, <1>2

\* The position moves to a CPU of a mask, or to none.
LEMMA TurnType ==
    ASSUME machine \in Machines, NEW masks \in Masks, NEW at \in Places
    PROVE  LET to == rr_next_cpu_id(masks, at)
           IN  /\ to \in Places
               /\ to.cpu \in masks[to.node] \cup {-1}
<1> DEFINE other == (at.node % Len(masks)) + 1
           cpu == next_cpu(masks[at.node], at.cpu + 1)
           first == next_cpu(masks[other], 0)
<1>1. Len(machine.nodes) \in Nat \ {0} /\ D = 1..Len(machine.nodes)
  BY MachineShape
<1>2. masks \in Seq(SUBSET Nat) /\ DOMAIN masks = 1..Len(machine.nodes)
  BY <1>1, SeqDef DEF Masks
<1>3. Len(masks) = Len(machine.nodes)
  BY <1>1, <1>2, LenProperties
<1>4. other \in D /\ at.node \in D /\ at.cpu + 1 \in Int
  BY <1>1, <1>3 DEF Places
<1>5. cpu \in masks[at.node] \cup {-1} /\ first \in masks[other] \cup {-1}
      /\ cpu \in Nat \cup {-1} /\ first \in Nat \cup {-1}
  <2> HIDE DEF other
  <2>1. masks[at.node] \in SUBSET Nat /\ masks[other] \in SUBSET Nat
    BY <1>4 DEF Masks
  <2>2. cpu \in masks[at.node] \cup {-1}
    BY <1>4, <2>1, NextCpu
  <2>3. first \in masks[other] \cup {-1}
    BY <2>1, NextCpu
  <2>4. QED
    BY <2>1, <2>2, <2>3
<1> HIDE DEF cpu, first, other
<1>6. rr_next_cpu_id(masks, at) = IF cpu >= 0 THEN [at EXCEPT !.cpu = cpu]
                                  ELSE [node |-> other, cpu |-> first]
  BY DEF rr_next_cpu_id, cpu, first, other
<1>7. CASE cpu >= 0
  <2>1. rr_next_cpu_id(masks, at) = [node |-> at.node, cpu |-> cpu]
    BY <1>6, <1>7 DEF Places
  <2>2. QED
    BY <1>4, <1>5, <2>1 DEF Places
<1>8. CASE ~(cpu >= 0)
  BY <1>4, <1>5, <1>6, <1>8 DEF Places
<1> QED
  BY <1>7, <1>8

-----------------------------------------------------------------------------
(* The CPUs in order *)

\* Positions have nodes and CPUs that are numbers, and are equal when both are.
LEMMA PositionShape ==
    ASSUME machine \in Machines
    PROVE  /\ Positions \subseteq Places
           /\ \A p \in Positions : /\ p.node \in D /\ p.node \in Nat /\ p.cpu \in Nat
                                   /\ p.cpu \in AllMasks[p.node]
                                   /\ p.cpu \in NodeMask(machine, p.node)
                                   /\ p = [node |-> p.node, cpu |-> p.cpu]
           /\ \A n \in D : \A c \in AllMasks[n] : [node |-> n, cpu |-> c] \in Positions
<1>1. D \subseteq Nat /\ AllMasks \in Masks
  BY MachineShape
<1>2. \A n \in D : \A c \in AllMasks[n] : c \in Nat
  BY <1>1 DEF Masks
<1>3. \A n \in D : AllMasks[n] = NodeMask(machine, n)
  BY DEF AllMasks
<1>4. \A p \in Positions : /\ p.node \in D /\ p.cpu \in Nat /\ p.cpu \in AllMasks[p.node]
                           /\ p = [node |-> p.node, cpu |-> p.cpu]
  BY DEF Positions
<1>5. \A n \in D : \A c \in AllMasks[n] : [node |-> n, cpu |-> c] \in Positions
  BY <1>2 DEF Positions
<1>6. Positions \subseteq Places
  BY DEF Positions, Places
<1> QED
  BY <1>1, <1>3, <1>4, <1>5, <1>6

LEMMA Ordered ==
    ASSUME machine \in Machines, NEW p \in Positions, NEW q \in Positions
    PROVE  /\ ~Precedes(p, p)
           /\ p # q => Precedes(p, q) \/ Precedes(q, p)
           /\ Precedes(p, q) => ~Precedes(q, p)
           /\ \A x \in Positions : Precedes(x, p) /\ Precedes(p, q) => Precedes(x, q)
  BY PositionShape DEF Precedes

\* All CPUs are as many as NumCpus says: those of the first n nodes are
\* as many as the sum over the first n nodes.
LEMMA PositionsCount ==
    ASSUME machine \in Machines, Numbered
    PROVE  /\ NumCpus \in Nat \ {0}
           /\ IsFiniteSet(Positions) /\ Cardinality(Positions) = NumCpus
<1> DEFINE L == Len(machine.nodes)
           term(n) == NodeCpus(machine, n)
           sum == CHOOSE h : h = [n \in 0..L |-> IF n = 0 THEN 0 ELSE h[n - 1] + term(n)]
<1>1. L \in Nat \ {0} /\ D = 1..L
  BY MachineShape
<1>2. \A n \in 1..L : /\ term(n) \in Nat \ {0} /\ IsFiniteSet(NodeMask(machine, n))
                      /\ Cardinality(NodeMask(machine, n)) = term(n)
  <2>1. TAKE n \in 1..L
  <2>2. n \in D /\ IsFiniteSet(NodeMask(machine, n))
    BY <1>1, MachineShape
  <2>3. NodeMask(machine, n) # {} /\ Cardinality(NodeMask(machine, n)) = term(n)
    BY <2>2 DEF Numbered, D
  <2>4. Cardinality(NodeMask(machine, n)) \in Nat \ {0}
    BY <2>2, <2>3, FS_CardinalityType, FS_EmptySet
  <2>5. QED
    BY <2>2, <2>3, <2>4
<1> HIDE DEF term, L
<1>3. /\ sum[0] = 0 /\ \A n \in 0..L : sum[n] \in Nat
      /\ \A n \in 1..L : sum[n] = sum[n - 1] + term(n)
  <2> DEFINE step == [x \in (1..L) \X Nat |-> x[2] + term(x[1])]
  <2>1. step \in Steps(L, Nat)
    BY <1>2 DEF Steps
  <2>2. PICK h \in [0..L -> Nat] : Recursion(h, L, 0, step)
    <3> HIDE DEF step, sum
    <3>1. L \in Nat /\ 0 \in Nat
      BY <1>1
    <3>2. QED
      BY <2>1, <3>1, RecursionExists
  <2>3. \A i \in 1..L : h[i - 1] \in Nat /\ h[i] = h[i - 1] + term(i)
    <3>1. TAKE i \in 1..L
    <3>2. i - 1 \in 0..L
      BY <1>1
    <3>3. h[i - 1] \in Nat
      BY <3>2
    <3>4. QED
      BY <2>2, <3>3 DEF Recursion
  <2>4. h = [n \in 0..L |-> IF n = 0 THEN 0 ELSE h[n - 1] + term(n)]
    <3>1. \A n \in 0..L : n = 0 \/ n \in 1..L
      BY <1>1
    <3>2. QED
      BY <2>2, <2>3, <3>1 DEF Recursion
  <2>5. sum = [n \in 0..L |-> IF n = 0 THEN 0 ELSE sum[n - 1] + term(n)]
    BY <2>4
  <2> HIDE DEF sum
  <2>6. \A n \in 0..L : sum[n] = IF n = 0 THEN 0 ELSE sum[n - 1] + term(n)
    BY <2>5
  <2>7. sum[0] = 0 /\ \A n \in 1..L : sum[n] = sum[n - 1] + term(n)
    <3>1. 0 \in 0..L /\ \A n \in 1..L : n \in 0..L /\ n # 0
      BY <1>1
    <3>2. QED
      BY <2>6, <3>1
  <2>8. \A n \in 0..L : sum[n] \in Nat
    <3> DEFINE Bad == {n \in 0..L : sum[n] \notin Nat}
    <3>1. SUFFICES ASSUME Bad # {} PROVE FALSE
      OBVIOUS
    <3>2. PICK n \in Bad : \A i \in Bad : n <= i
      <4>1. Bad \in SUBSET Nat
        BY <1>1
      <4>2. QED
        BY <3>1, <4>1, SmallestExists
    <3>3. n \in 1..L
      BY <1>1, <2>7, <3>2
    <3>4. n - 1 \in 0..L /\ ~(n <= n - 1)
      BY <1>1, <3>3
    <3>5. sum[n - 1] \in Nat
      BY <3>2, <3>4
    <3>6. QED
      BY <1>2, <2>7, <3>2, <3>3, <3>5
  <2>9. QED
    BY <2>7, <2>8
<1>4. NumCpus = sum[L]
  BY DEF NumCpus, L, term
<1> HIDE DEF sum
<1> DEFINE UpTo(n) == {p \in Positions : p.node <= n}
           On(n) == {p \in Positions : p.node = n}
           Right(n) == IsFiniteSet(UpTo(n)) /\ Cardinality(UpTo(n)) = sum[n]
           Bad == {n \in 0..L : ~Right(n)}
<1>5. ASSUME NEW n \in 1..L
      PROVE  IsFiniteSet(On(n)) /\ Cardinality(On(n)) = term(n)
  <2> DEFINE f == [c \in NodeMask(machine, n) |-> [node |-> n, cpu |-> c]]
  <2>1. f \in Bijection(NodeMask(machine, n), On(n))
    <3>1. n \in D /\ AllMasks[n] = NodeMask(machine, n)
      BY <1>1 DEF AllMasks
    <3>2. \A c \in NodeMask(machine, n) : [node |-> n, cpu |-> c] \in On(n)
      BY <3>1, PositionShape
    <3>3. \A p \in On(n) : p.cpu \in NodeMask(machine, n) /\ p = [node |-> n, cpu |-> p.cpu]
      BY <3>1, PositionShape
    <3> HIDE DEF On
    <3>4. f \in Injection(NodeMask(machine, n), On(n))
      BY <3>2 DEF Injection, IsInjective
    <3>5. f \in Surjection(NodeMask(machine, n), On(n))
      BY <3>2, <3>3 DEF Surjection
    <3>6. QED
      BY <3>4, <3>5 DEF Bijection
  <2>2. ExistsBijection(NodeMask(machine, n), On(n))
    BY <2>1 DEF ExistsBijection
  <2> HIDE DEF On
  <2>3. QED
    BY <1>2, <2>2, FS_Bijection
<1>6. Bad = {}
  <2>1. SUFFICES ASSUME Bad # {} PROVE FALSE
    OBVIOUS
  <2>2. PICK n \in Bad : \A i \in Bad : n <= i
    <3>1. Bad \in SUBSET Nat
      BY <1>1
    <3>2. QED
      BY <2>1, <3>1, SmallestExists
  <2>3. n \in 0..L /\ n \in Nat
    BY <1>1
  <2>4. CASE n = 0
    <3>1. UpTo(0) = {}
      BY <1>1, PositionShape
    <3>2. Right(0)
      BY <1>3, <3>1, FS_EmptySet
    <3>3. QED
      BY <2>2, <2>4, <3>2
  <2>5. CASE n # 0
    <3>1. n \in 1..L /\ n - 1 \in 0..L /\ ~(n <= n - 1)
      BY <1>1, <2>3, <2>5
    <3>2. Right(n - 1)
      <4> HIDE DEF Right
      <4>1. QED
        BY <2>2, <3>1
    <3>3. UpTo(n) = UpTo(n - 1) \cup On(n) /\ UpTo(n - 1) \cap On(n) = {}
      BY <2>3, PositionShape
    <3>4. IsFiniteSet(On(n)) /\ Cardinality(On(n)) = term(n) /\ term(n) \in Nat
      BY <1>2, <1>5, <3>1
    <3> HIDE DEF UpTo, On
    <3>5. IsFiniteSet(UpTo(n - 1)) /\ Cardinality(UpTo(n - 1)) = sum[n - 1]
      BY <3>2
    <3> HIDE DEF Right
    <3>6. /\ IsFiniteSet(UpTo(n - 1) \cup On(n))
          /\ Cardinality(UpTo(n - 1) \cup On(n))
               = Cardinality(UpTo(n - 1)) + Cardinality(On(n)) - Cardinality(UpTo(n - 1) \cap On(n))
      BY <3>4, <3>5, FS_Union
    <3>7. IsFiniteSet(UpTo(n)) /\ Cardinality(UpTo(n)) = sum[n - 1] + term(n) - Cardinality({})
      BY <3>3, <3>4, <3>5, <3>6
    <3>8. sum[n - 1] \in Nat /\ sum[n] = sum[n - 1] + term(n) /\ Cardinality({}) = 0
      BY <1>3, <3>1, FS_EmptySet
    <3>9. Right(n)
      BY <3>4, <3>7, <3>8 DEF Right
    <3>10. QED
      BY <2>2, <3>9 DEF Right
  <2>6. QED
    BY <2>4, <2>5
<1>7. UpTo(L) = Positions
  BY <1>1, PositionShape
<1>8. Right(L)
  <2> HIDE DEF Right
  <2>1. L \in 0..L
    BY <1>1
  <2>2. QED
    BY <1>6, <2>1
<1>9. NumCpus # 0
  <2>1. L \in 1..L /\ L - 1 \in 0..L
    BY <1>1
  <2>2. sum[L] = sum[L - 1] + term(L) /\ sum[L - 1] \in Nat /\ term(L) \in Nat \ {0}
    BY <1>2, <1>3, <2>1
  <2>3. QED
    BY <1>4, <2>2
<1> QED
  <2>1. L \in 0..L
    BY <1>1
  <2>2. sum[L] \in Nat
    BY <1>3, <2>1
  <2>3. QED
    BY <1>4, <1>7, <1>8, <1>9, <2>2

\* How many CPUs come before one tells which it is.
LEMMA IndexType ==
    ASSUME machine \in Machines, Numbered, NEW p \in Positions
    PROVE  /\ Index(p) \in 0..(NumCpus - 1)
           /\ IsFiniteSet(Before(p)) /\ Before(p) \subseteq Positions
           /\ p \notin Before(p)
           /\ Index(p) = NumCpus - 1 <=> Before(p) = Positions \ {p}
<1>1. IsFiniteSet(Positions) /\ Cardinality(Positions) = NumCpus /\ NumCpus \in Nat \ {0}
  BY PositionsCount
<1>2. Before(p) \subseteq Positions \ {p}
  BY Ordered DEF Before
<1>3. IsFiniteSet(Positions \ {p}) /\ Cardinality(Positions \ {p}) = NumCpus - 1
  BY <1>1, FS_RemoveElement
<1>4. /\ IsFiniteSet(Before(p)) /\ Cardinality(Before(p)) <= NumCpus - 1
      /\ Cardinality(Before(p)) = NumCpus - 1 => Before(p) = Positions \ {p}
  BY <1>2, <1>3, FS_Subset
<1>5. Cardinality(Before(p)) \in Nat
  BY <1>4, FS_CardinalityType
<1> QED
  BY <1>1, <1>2, <1>3, <1>4, <1>5 DEF Index

LEMMA IndexMonotone ==
    ASSUME machine \in Machines, Numbered, NEW p \in Positions, NEW q \in Positions,
           Precedes(p, q)
    PROVE  /\ Index(p) < Index(q)
           /\ (~ \E x \in Positions : Precedes(p, x) /\ Precedes(x, q)) => Index(q) = Index(p) + 1
<1>1. /\ IsFiniteSet(Before(p)) /\ IsFiniteSet(Before(q)) /\ p \notin Before(p)
      /\ Index(p) \in Nat /\ Index(q) \in Nat
  BY IndexType, PositionsCount
<1>2. IsFiniteSet(Before(p) \cup {p}) /\ Cardinality(Before(p) \cup {p}) = Index(p) + 1
  BY <1>1, FS_AddElement DEF Index
<1>3. Before(p) \cup {p} \subseteq Before(q)
  BY Ordered DEF Before
<1>4. Cardinality(Before(p) \cup {p}) <= Cardinality(Before(q))
  BY <1>1, <1>3, FS_Subset
<1>5. ASSUME ~ \E x \in Positions : Precedes(p, x) /\ Precedes(x, q)
      PROVE  Before(q) = Before(p) \cup {p}
  BY <1>3, <1>5, Ordered DEF Before
<1> QED
  BY <1>1, <1>2, <1>4, <1>5 DEF Index

LEMMA IndexOrders ==
    ASSUME machine \in Machines, Numbered, NEW p \in Positions, NEW q \in Positions
    PROVE  /\ Index(p) = Index(q) => p = q
           /\ Index(p) < Index(q) <=> Precedes(p, q)
           /\ Precedes(p, q) /\ (~ \E x \in Positions : Precedes(p, x) /\ Precedes(x, q))
                => Index(q) = Index(p) + 1
<1>1. Index(p) \in Nat /\ Index(q) \in Nat
  BY IndexType, PositionsCount
<1>2. Precedes(p, q) => Index(p) < Index(q)
  BY IndexMonotone
<1>3. Precedes(q, p) => Index(q) < Index(p)
  BY IndexMonotone
<1>4. p # q => Precedes(p, q) \/ Precedes(q, p)
  BY Ordered
<1>5. Precedes(p, q) /\ (~ \E x \in Positions : Precedes(p, x) /\ Precedes(x, q))
        => Index(q) = Index(p) + 1
  BY IndexMonotone
<1> QED
  BY <1>1, <1>2, <1>3, <1>4, <1>5

\* The CPU nothing comes before is number 0, the one nothing comes after the last.
LEMMA IndexEnds ==
    ASSUME machine \in Machines, Numbered, NEW p \in Positions
    PROVE  /\ (\A q \in Positions : ~Precedes(q, p)) => Index(p) = 0
           /\ (\A q \in Positions : ~Precedes(p, q)) => Index(p) = NumCpus - 1
<1>1. ASSUME \A q \in Positions : ~Precedes(q, p) PROVE Index(p) = 0
  <2>1. Before(p) = {}
    BY <1>1 DEF Before
  <2>2. QED
    BY <2>1, FS_EmptySet DEF Index
<1>2. ASSUME \A q \in Positions : ~Precedes(p, q) PROVE Index(p) = NumCpus - 1
  <2>1. Before(p) = Positions \ {p}
    BY <1>2, Ordered DEF Before
  <2>2. QED
    BY <2>1, IndexType
<1> QED
  BY <1>1, <1>2

\* Every number below NumCpus is the number of one CPU.
LEMMA IndexOnto ==
    ASSUME machine \in Machines, Numbered, NEW i \in 0..(NumCpus - 1)
    PROVE  \E p \in Positions : Index(p) = i
<1> DEFINE f == [p \in Positions |-> Index(p)]
<1>1. NumCpus \in Nat \ {0} /\ IsFiniteSet(Positions) /\ Cardinality(Positions) = NumCpus
  BY PositionsCount
<1>2. IsFiniteSet(0..(NumCpus - 1)) /\ Cardinality(0..(NumCpus - 1)) = NumCpus
  BY <1>1, FS_Interval
<1>3. f \in Injection(Positions, 0..(NumCpus - 1))
  <2>1. f \in [Positions -> 0..(NumCpus - 1)]
    BY IndexType
  <2>2. \A p, q \in Positions : f[p] = f[q] => p = q
    BY IndexOrders
  <2>3. QED
    BY <2>1, <2>2 DEF Injection, IsInjective
<1>4. f \in Surjection(Positions, 0..(NumCpus - 1))
  <2> HIDE DEF f
  <2>1. QED
    BY <1>1, <1>2, <1>3, FS_Injection
<1> QED
  BY <1>4 DEF Surjection

\* The CPUs numbered from a to b are b - a + 1.
LEMMA IndexInterval ==
    ASSUME machine \in Machines, Numbered, NEW a \in Nat, NEW b \in Int,
           a - 1 <= b, b <= NumCpus - 1
    PROVE  LET S == {p \in Positions : Index(p) >= a /\ Index(p) <= b}
           IN  IsFiniteSet(S) /\ Cardinality(S) = b - a + 1
<1> DEFINE S == {p \in Positions : Index(p) >= a /\ Index(p) <= b}
           f == [p \in S |-> Index(p)]
<1>1. NumCpus \in Nat \ {0} /\ IsFiniteSet(Positions)
  BY PositionsCount
<1>2. IsFiniteSet(S)
  BY <1>1, FS_Subset
<1>3. IsFiniteSet(a..b) /\ Cardinality(a..b) = b - a + 1
  <2>1. IsFiniteSet(a..b) /\ Cardinality(a..b) = IF a > b THEN 0 ELSE b - a + 1
    BY FS_Interval
  <2>2. QED
    BY <2>1
<1>4. f \in Bijection(S, a..b)
  <2>1. f \in [S -> a..b]
    <3>1. \A p \in S : Index(p) \in a..b
      <4>1. TAKE p \in S
      <4>2. Index(p) \in Int
        BY <1>1, IndexType
      <4>3. QED
        BY <4>2
    <3>2. QED
      BY <3>1
  <2>2. \A p, q \in S : f[p] = f[q] => p = q
    BY IndexOrders
  <2>3. \A i \in a..b : \E p \in S : f[p] = i
    <3>1. TAKE i \in a..b
    <3>2. i \in 0..(NumCpus - 1)
      BY <1>1
    <3>3. PICK p \in Positions : Index(p) = i
      BY <3>2, IndexOnto
    <3>4. QED
      BY <3>3
  <2> HIDE DEF f, S
  <2>4. QED
    BY <2>1, <2>2, <2>3 DEF Bijection, Injection, Surjection, IsInjective
<1>5. ExistsBijection(S, a..b)
  BY <1>4 DEF ExistsBijection
<1> HIDE DEF S
<1>6. Cardinality(a..b) = Cardinality(S)
  BY <1>2, <1>5, FS_Bijection
<1> QED
  BY <1>2, <1>3, <1>6 DEF S

-----------------------------------------------------------------------------
(* Turns *)

Following(n) == IF n = Len(machine.nodes) THEN 1 ELSE n + 1

\* A turn moves to the next bit of the node or to the first of the next node.
LEMMA TurnCases ==
    ASSUME machine \in Machines, NEW masks \in Masks, NEW at \in Places
    PROVE  LET to == rr_next_cpu_id(masks, at)
           IN  /\ to \in Places /\ at.node \in D /\ Following(at.node) \in D
               /\ \/ /\ to.node = at.node /\ to.cpu \in masks[at.node] /\ to.cpu > at.cpu
                     /\ \A x \in masks[at.node] : x > at.cpu => to.cpu <= x
                  \/ /\ to.node = Following(at.node)
                     /\ \A x \in masks[at.node] : x <= at.cpu
                     /\ \/ to.cpu = -1 /\ masks[to.node] = {}
                        \/ to.cpu \in masks[to.node] /\ \A x \in masks[to.node] : to.cpu <= x
<1> DEFINE other == (at.node % Len(masks)) + 1
           cpu == next_cpu(masks[at.node], at.cpu + 1)
           first == next_cpu(masks[other], 0)
           to == rr_next_cpu_id(masks, at)
<1>1. Len(machine.nodes) \in Nat \ {0} /\ D = 1..Len(machine.nodes)
  BY MachineShape
<1>2. masks \in Seq(SUBSET Nat) /\ DOMAIN masks = 1..Len(machine.nodes)
  BY <1>1, SeqDef DEF Masks
<1>3. Len(masks) = Len(machine.nodes)
  BY <1>1, <1>2, LenProperties
<1>4. at.node \in D /\ at.cpu \in Int /\ at.cpu + 1 \in Int
  BY DEF Places
<1>5. other = Following(at.node) /\ other \in D
  <2>1. ASSUME NEW l \in Nat \ {0}, NEW n \in 1..l
        PROVE  (n % l) + 1 = IF n = l THEN 1 ELSE n + 1
    <3>1. CASE n = l
      BY <3>1
    <3>2. CASE n # l
      <4>1. n \in 0..(l - 1)
        BY <3>2
      <4>2. n % l = n
        BY <4>1
      <4>3. QED
        BY <3>2, <4>2
    <3>3. QED
      BY <3>1, <3>2
  <2>2. at.node \in 1..Len(machine.nodes)
    BY <1>1, <1>4
  <2>3. other = Following(at.node)
    BY <1>1, <1>3, <2>1, <2>2 DEF Following
  <2>4. Following(at.node) \in 1..Len(machine.nodes)
    BY <1>1, <2>2 DEF Following
  <2>5. QED
    BY <1>1, <2>3, <2>4
<1>6. masks[at.node] \in SUBSET Nat /\ masks[other] \in SUBSET Nat
  BY <1>4, <1>5 DEF Masks
<1> HIDE DEF other
<1>7. \/ cpu = -1 /\ \A x \in masks[at.node] : x < at.cpu + 1
      \/ cpu \in masks[at.node] /\ cpu >= at.cpu + 1
         /\ \A x \in masks[at.node] : x >= at.cpu + 1 => cpu <= x
  BY <1>4, <1>6, NextCpu
<1>8. \/ first = -1 /\ \A x \in masks[other] : x < 0
      \/ first \in masks[other] /\ \A x \in masks[other] : x >= 0 => first <= x
  BY <1>6, NextCpu
<1>9. to = IF cpu >= 0 THEN [at EXCEPT !.cpu = cpu] ELSE [node |-> other, cpu |-> first]
  BY DEF rr_next_cpu_id, other
<1> HIDE DEF cpu, first, to
<1>10. to \in Places
  BY TurnType DEF to
<1>11. CASE cpu = -1
  <2>1. to = [node |-> other, cpu |-> first]
    BY <1>9, <1>11
  <2>2. \A x \in masks[at.node] : x <= at.cpu
    BY <1>4, <1>6, <1>7, <1>11
  <2>3. \/ first = -1 /\ masks[other] = {}
        \/ first \in masks[other] /\ \A x \in masks[other] : first <= x
    BY <1>6, <1>8
  <2>4. QED
    BY <1>4, <1>5, <1>10, <2>1, <2>2, <2>3 DEF to
<1>12. CASE cpu # -1
  <2>1. cpu \in masks[at.node] /\ cpu >= at.cpu + 1 /\ cpu \in Nat
    BY <1>6, <1>7, <1>12
  <2>2. to.node = at.node /\ to.cpu = cpu
    BY <1>9, <2>1 DEF Places
  <2>3. to.cpu > at.cpu /\ \A x \in masks[at.node] : x > at.cpu => to.cpu <= x
    BY <1>4, <1>6, <1>7, <1>12, <2>1, <2>2
  <2>4. QED
    BY <1>4, <1>5, <1>10, <2>1, <2>2, <2>3 DEF to
<1> QED
  BY <1>11, <1>12

\* While the masks have every CPU that comes after it, the position moves on
\* to the next one.
LEMMA TurnAdvances ==
    ASSUME machine \in Machines, Numbered, NEW masks \in Masks, NEW at \in Positions,
           \A n \in D : masks[n] \subseteq AllMasks[n],
           \A p \in Positions : Precedes(at, p) => p.cpu \in masks[p.node],
           Index(at) < NumCpus - 1
    PROVE  LET to == rr_next_cpu_id(masks, at)
           IN  to \in Positions /\ Precedes(at, to) /\ Index(to) = Index(at) + 1
<1> DEFINE to == rr_next_cpu_id(masks, at)
<1>1. at \in Places /\ at.node \in D /\ at.node \in Nat /\ at.cpu \in Nat
  BY PositionShape
<1>2. /\ to \in Places /\ Following(at.node) \in D
      /\ \/ /\ to.node = at.node /\ to.cpu \in masks[at.node] /\ to.cpu > at.cpu
            /\ \A x \in masks[at.node] : x > at.cpu => to.cpu <= x
         \/ /\ to.node = Following(at.node)
            /\ \A x \in masks[at.node] : x <= at.cpu
            /\ \/ to.cpu = -1 /\ masks[to.node] = {}
               \/ to.cpu \in masks[to.node] /\ \A x \in masks[to.node] : to.cpu <= x
  BY <1>1, TurnCases
<1> HIDE DEF to
<1>3. to = [node |-> to.node, cpu |-> to.cpu] /\ to.node \in D
  BY <1>2 DEF Places
<1>4. Len(machine.nodes) \in Nat \ {0} /\ D = 1..Len(machine.nodes) /\ D \subseteq Nat
  BY MachineShape
<1>5. NumCpus \in Nat /\ Index(at) \in Nat
  BY IndexType, PositionsCount
<1>6. ASSUME to.node = at.node, to.cpu \in masks[at.node], to.cpu > at.cpu,
             \A x \in masks[at.node] : x > at.cpu => to.cpu <= x
      PROVE  to \in Positions /\ Precedes(at, to)
             /\ ~ \E x \in Positions : Precedes(at, x) /\ Precedes(x, to)
  <2>1. to \in Positions
    BY <1>1, <1>3, <1>6, PositionShape
  <2>2. Precedes(at, to)
    BY <1>6 DEF Precedes
  <2>3. ASSUME NEW x \in Positions, Precedes(at, x), Precedes(x, to) PROVE FALSE
    <3>1. x.node \in Nat /\ x.cpu \in Nat /\ to.cpu \in Nat
      BY <2>1, PositionShape
    <3>2. x.node = at.node /\ x.cpu > at.cpu /\ x.cpu < to.cpu
      BY <1>1, <1>6, <2>3, <3>1 DEF Precedes
    <3>3. x.cpu \in masks[at.node]
      BY <2>3, <3>2
    <3>4. QED
      BY <1>6, <3>1, <3>2, <3>3
  <2>4. QED
    BY <2>1, <2>2, <2>3
<1>7. ASSUME to.node = Following(at.node), \A x \in masks[at.node] : x <= at.cpu,
             \/ to.cpu = -1 /\ masks[to.node] = {}
             \/ to.cpu \in masks[to.node] /\ \A x \in masks[to.node] : to.cpu <= x
      PROVE  to \in Positions /\ Precedes(at, to)
             /\ ~ \E x \in Positions : Precedes(at, x) /\ Precedes(x, to)
  <2>1. ASSUME NEW x \in Positions, Precedes(at, x) PROVE x.node > at.node
    <3>1. x.cpu \in masks[x.node] /\ x.node \in Nat /\ x.cpu \in Nat
      BY <2>1, PositionShape
    <3>2. CASE x.node = at.node
      <4>1. x.cpu <= at.cpu /\ x.cpu > at.cpu
        BY <1>1, <1>7, <2>1, <3>1, <3>2 DEF Precedes
      <4>2. QED
        BY <1>1, <3>1, <4>1
    <3>3. QED
      BY <1>1, <2>1, <3>1, <3>2 DEF Precedes
  <2>2. at.node # Len(machine.nodes)
    <3>1. ASSUME at.node = Len(machine.nodes) PROVE FALSE
      <4>1. \A x \in Positions : ~Precedes(at, x)
        <5>1. SUFFICES ASSUME NEW x \in Positions, Precedes(at, x) PROVE FALSE
          OBVIOUS
        <5>2. x.node > at.node /\ x.node \in D
          BY <2>1, <5>1, PositionShape
        <5>3. QED
          BY <1>4, <3>1, <5>2
      <4>2. Index(at) = NumCpus - 1
        BY <4>1, IndexEnds
      <4>3. QED
        BY <1>5, <4>2
    <3>2. QED
      BY <3>1
  <2>3. to.node = at.node + 1
    BY <1>7, <2>2 DEF Following
  <2>4. \A c \in AllMasks[to.node] : c \in masks[to.node]
    <3>1. TAKE c \in AllMasks[to.node]
    <3>2. [node |-> to.node, cpu |-> c] \in Positions
      BY <1>3, PositionShape
    <3>3. Precedes(at, [node |-> to.node, cpu |-> c])
      BY <1>1, <2>3 DEF Precedes
    <3>4. QED
      BY <3>2, <3>3
  <2>5. AllMasks[to.node] # {}
    BY <1>3 DEF Numbered, AllMasks, D
  <2>6. to.cpu \in masks[to.node] /\ \A x \in masks[to.node] : to.cpu <= x
    BY <1>7, <2>4, <2>5
  <2>7. to \in Positions
    BY <1>3, <2>6, PositionShape
  <2>8. Precedes(at, to)
    BY <1>1, <2>3 DEF Precedes
  <2>9. ASSUME NEW x \in Positions, Precedes(at, x), Precedes(x, to) PROVE FALSE
    <3>1. x.node \in Nat /\ x.cpu \in Nat /\ to.cpu \in Nat /\ x.node > at.node
          /\ x.cpu \in masks[x.node]
      BY <2>1, <2>7, <2>9, PositionShape
    <3>2. x.node = to.node /\ x.cpu < to.cpu
      BY <1>1, <2>3, <2>9, <3>1 DEF Precedes
    <3>3. QED
      BY <2>6, <3>1, <3>2
  <2>10. QED
    BY <2>7, <2>8, <2>9
<1>8. to \in Positions /\ Precedes(at, to)
      /\ ~ \E x \in Positions : Precedes(at, x) /\ Precedes(x, to)
  BY <1>2, <1>6, <1>7
<1>9. Index(to) = Index(at) + 1
  BY <1>8, IndexOrders
<1> QED
  BY <1>8, <1>9 DEF to

\* CPU 0 of the first node is number 0.
LEMMA StartIsFirst ==
    ASSUME machine \in Machines, Numbered
    PROVE  Start \in Positions /\ Index(Start) = 0
<1>1. 0 \in AllMasks[1] /\ 1 \in D
  BY MachineShape DEF Numbered, AllMasks
<1>2. Start \in Positions
  BY <1>1, PositionShape DEF Start
<1>3. \A q \in Positions : ~Precedes(q, Start)
  <2>1. TAKE q \in Positions
  <2>2. q.node \in D /\ q.node \in Nat /\ q.cpu \in Nat
    BY PositionShape
  <2>3. q.node >= 1
    BY <2>2, MachineShape
  <2>4. QED
    BY <2>2, <2>3 DEF Precedes, Start
<1> QED
  BY <1>2, <1>3, IndexEnds

-----------------------------------------------------------------------------
(* The loop of the partition *)

Position(n, c) == [node |-> n, cpu |-> c]

\* What the loop has left of the masks after i turns, and in the end.
Kept(rank, i) ==
    [n \in D |-> {c \in AllMasks[n] :
                    Index(Position(n, c)) >= i \/ InShare(rank, Index(Position(n, c)))}]
ShareMasks(rank) ==
    [n \in D |-> {c \in AllMasks[n] : InShare(rank, Index(Position(n, c)))}]

LEMMA KeptMasks ==
    ASSUME machine \in Machines, Numbered, NEW rank, NEW i \in Nat
    PROVE  /\ Kept(rank, i) \in Masks
           /\ \A n \in D : Kept(rank, i)[n] \subseteq AllMasks[n]
           /\ \A p \in Positions : p.cpu \in Kept(rank, i)[p.node]
                                     <=> Index(p) >= i \/ InShare(rank, Index(p))
<1>1. AllMasks \in Masks
  BY MachineShape
<1>2. \A n \in D : Kept(rank, i)[n] \subseteq AllMasks[n]
  BY DEF Kept
<1>3. Kept(rank, i) \in Masks
  BY <1>1 DEF Masks, Kept
<1>4. ASSUME NEW p \in Positions
      PROVE  p.cpu \in Kept(rank, i)[p.node] <=> Index(p) >= i \/ InShare(rank, Index(p))
  <2>1. p.node \in D /\ p.cpu \in AllMasks[p.node] /\ Position(p.node, p.cpu) = p
    BY PositionShape DEF Position
  <2>2. QED
    BY <2>1 DEF Kept
<1> QED
  BY <1>2, <1>3, <1>4

LEMMA KeptSteps ==
    ASSUME machine \in Machines, Numbered, NEW rank, NEW i \in Nat, NEW at \in Positions,
           Index(at) = i
    PROVE  Kept(rank, i + 1) = IF InShare(rank, i) THEN Kept(rank, i)
                               ELSE [Kept(rank, i) EXCEPT ![at.node] = @ \ {at.cpu}]
<1>1. at.node \in D /\ at = Position(at.node, at.cpu)
  BY PositionShape DEF Position
<1>2. ASSUME NEW n \in D, NEW c \in AllMasks[n]
      PROVE  /\ Index(Position(n, c)) \in Nat
             /\ Index(Position(n, c)) = i => n = at.node /\ c = at.cpu
  <2>1. Position(n, c) \in Positions
    BY PositionShape DEF Position
  <2>2. Index(Position(n, c)) \in Nat
    BY <2>1, IndexType, PositionsCount
  <2>3. Index(Position(n, c)) = i => Position(n, c) = at
    BY <2>1, IndexOrders
  <2>4. QED
    BY <2>2, <2>3 DEF Position
<1>3. CASE InShare(rank, i)
  <2>1. ASSUME NEW n \in D, NEW c \in AllMasks[n]
        PROVE  Index(Position(n, c)) >= i + 1 \/ InShare(rank, Index(Position(n, c)))
               <=> Index(Position(n, c)) >= i \/ InShare(rank, Index(Position(n, c)))
    <3>1. Index(Position(n, c)) >= i <=> Index(Position(n, c)) >= i + 1 \/ Index(Position(n, c)) = i
      BY <1>2
    <3>2. QED
      BY <1>3, <3>1
  <2>2. Kept(rank, i + 1) = Kept(rank, i)
    BY <2>1, Zenon DEF Kept
  <2>3. QED
    BY <1>3, <2>2
<1>4. CASE ~InShare(rank, i)
  <2>1. ASSUME NEW n \in D, NEW c \in AllMasks[n]
        PROVE  Index(Position(n, c)) >= i + 1 \/ InShare(rank, Index(Position(n, c)))
               <=> /\ Index(Position(n, c)) >= i \/ InShare(rank, Index(Position(n, c)))
                   /\ ~(n = at.node /\ c = at.cpu)
    <3>1. Index(Position(n, c)) >= i <=> Index(Position(n, c)) >= i + 1 \/ Index(Position(n, c)) = i
      BY <1>2
    <3>2. Index(Position(n, c)) = i <=> n = at.node /\ c = at.cpu
      BY <1>1, <1>2
    <3>3. Index(Position(n, c)) = i => ~(Index(Position(n, c)) >= i + 1)
      OBVIOUS
    <3>4. QED
      BY <1>4, <3>1, <3>2, <3>3
  <2> DEFINE cleared == [Kept(rank, i) EXCEPT ![at.node] = @ \ {at.cpu}]
  <2>2. ASSUME NEW n \in D PROVE Kept(rank, i + 1)[n] = cleared[n]
    <3>1. cleared[n] = {c \in Kept(rank, i)[n] : ~(n = at.node /\ c = at.cpu)}
      BY <1>1 DEF Kept
    <3>2. Kept(rank, i)[n] =
            {c \in AllMasks[n] : Index(Position(n, c)) >= i
                                 \/ InShare(rank, Index(Position(n, c)))}
      BY DEF Kept
    <3>3. Kept(rank, i + 1)[n] =
            {c \in AllMasks[n] : Index(Position(n, c)) >= i + 1
                                 \/ InShare(rank, Index(Position(n, c)))}
      BY DEF Kept
    <3> HIDE DEF cleared
    <3>4. QED
      BY <2>1, <3>1, <3>2, <3>3, Zenon
  <2>3. DOMAIN cleared = D /\ DOMAIN Kept(rank, i + 1) = D
        /\ cleared = [n \in D |-> cleared[n]]
        /\ Kept(rank, i + 1) = [n \in D |-> Kept(rank, i + 1)[n]]
    BY DEF Kept
  <2> HIDE DEF cleared
  <2>4. Kept(rank, i + 1) = cleared
    BY <2>2, <2>3, Zenon
  <2>5. QED
    BY <1>4, <2>4 DEF cleared
<1> QED
  BY <1>3, <1>4

\* The position meets the CPUs in order, and the loop clears the bits of those
\* that are not in the share.
LEMMA PartitionLoop ==
    ASSUME machine \in Machines, Numbered, NEW rank
    PROVE  \E last \in Positions :
             /\ Index(last) = NumCpus - 1
             /\ Partition(rank) = [masks |-> ShareMasks(rank),
                                   at |-> rr_next_cpu_id(Kept(rank, NumCpus - 1), last)]
<1> DEFINE N == NumCpus
           S == [masks : Masks, at : Places]
           base == [masks |-> AllMasks, at |-> Start]
           turn(i, s) ==
               [masks |-> IF InShare(rank, i - 1) THEN s.masks
                          ELSE [s.masks EXCEPT ![s.at.node] = @ \ {s.at.cpu}],
                at |-> rr_next_cpu_id(s.masks, s.at)]
           loop == CHOOSE h : h = [i \in 0..N |-> IF i = 0 THEN base ELSE turn(i, h[i - 1])]
<1>1. N \in Nat \ {0}
  BY PositionsCount
<1>2. AllMasks \in Masks /\ Start \in Positions /\ Start \in Places /\ Index(Start) = 0
  BY MachineShape, StartIsFirst, PositionShape
<1>3. base \in S
  BY <1>2
<1>4. ASSUME NEW i \in Int, NEW s \in S PROVE turn(i, s) \in S
  <2>1. s.masks \in Masks /\ s.at \in Places /\ s.at.node \in D
    BY DEF Places
  <2>2. rr_next_cpu_id(s.masks, s.at) \in Places
    BY <2>1, TurnType
  <2>3. [s.masks EXCEPT ![s.at.node] = @ \ {s.at.cpu}] \in Masks
    BY <2>1 DEF Masks
  <2>4. QED
    BY <2>1, <2>2, <2>3
<1>5. Partition(rank) = loop[N]
  BY DEF Partition, AllMasks, D
<1> HIDE DEF N, S, base, turn
<1>6. loop = [i \in 0..N |-> IF i = 0 THEN base ELSE turn(i, loop[i - 1])]
  <2> DEFINE step == [x \in (1..N) \X S |-> turn(x[1], x[2])]
  <2>1. step \in Steps(N, S)
    <3>1. \A x \in (1..N) \X S : turn(x[1], x[2]) \in S
      BY <1>1, <1>4
    <3>2. QED
      BY <3>1 DEF Steps
  <2>2. PICK h \in [0..N -> S] : Recursion(h, N, base, step)
    <3> HIDE DEF step, loop
    <3>1. QED
      BY <1>1, <1>3, <2>1, RecursionExists
  <2>3. \A i \in 1..N : h[i] = turn(i, h[i - 1])
    <3>1. TAKE i \in 1..N
    <3>2. i - 1 \in 0..N
      BY <1>1
    <3>3. h[i - 1] \in S
      BY <3>2
    <3>4. QED
      BY <2>2, <3>3 DEF Recursion
  <2>4. h = [i \in 0..N |-> IF i = 0 THEN base ELSE turn(i, h[i - 1])]
    <3>1. \A i \in 0..N : i = 0 \/ i \in 1..N
      BY <1>1
    <3>2. QED
      BY <2>2, <2>3, <3>1 DEF Recursion
  <2>5. QED
    BY <2>4
<1> HIDE DEF loop
<1>7. loop[0] = base
  BY <1>1, <1>6
<1>8. \A i \in 1..N : loop[i] = turn(i, loop[i - 1])
  <2>1. \A i \in 1..N : i \in 0..N /\ i # 0
    BY <1>1
  <2>2. QED
    BY <1>6, <2>1
<1> DEFINE Right(i) == /\ loop[i].masks = Kept(rank, i)
                       /\ i < N => loop[i].at \in Positions /\ Index(loop[i].at) = i
           Bad == {i \in 0..N : ~Right(i)}
<1>9. Right(0)
  <2>1. Kept(rank, 0) = AllMasks
    <3>1. ASSUME NEW n \in D, NEW c \in AllMasks[n] PROVE Index(Position(n, c)) >= 0
      <4>1. Position(n, c) \in Positions
        BY PositionShape DEF Position
      <4>2. Index(Position(n, c)) \in 0..(NumCpus - 1)
        BY <4>1, IndexType
      <4>3. QED
        BY <4>2
    <3>2. \A n \in D : {c \in AllMasks[n] : Index(Position(n, c)) >= 0
                          \/ InShare(rank, Index(Position(n, c)))} = AllMasks[n]
      BY <3>1
    <3>3. AllMasks = [n \in D |-> AllMasks[n]]
      BY DEF AllMasks
    <3>4. QED
      BY <3>2, <3>3, Zenon DEF Kept
  <2>2. QED
    BY <1>2, <1>7, <2>1 DEF base
<1>10. ASSUME NEW i \in 0..N, i < N, Right(i) PROVE Right(i + 1)
  <2> DEFINE at == loop[i].at
  <2>1. at \in Positions /\ Index(at) = i /\ loop[i].masks = Kept(rank, i) /\ i \in Nat
    BY <1>10
  <2>2. loop[i + 1] = turn(i + 1, loop[i])
    <3>1. i + 1 \in 1..N /\ (i + 1) - 1 = i
      BY <1>1, <1>10
    <3>2. QED
      BY <1>8, <3>1
  <2> HIDE DEF at
  <2>3. loop[i + 1].masks = Kept(rank, i + 1)
    <3>1. Kept(rank, i + 1) = IF InShare(rank, i) THEN Kept(rank, i)
                              ELSE [Kept(rank, i) EXCEPT ![at.node] = @ \ {at.cpu}]
      BY <2>1, KeptSteps
    <3>2. (i + 1) - 1 = i
      BY <2>1
    <3>3. loop[i + 1].masks = IF InShare(rank, i) THEN Kept(rank, i)
                              ELSE [Kept(rank, i) EXCEPT ![at.node] = @ \ {at.cpu}]
      BY <2>1, <2>2, <3>2 DEF turn, at
    <3>4. QED
      BY <3>1, <3>3
  <2>4. ASSUME i + 1 < N
        PROVE  loop[i + 1].at \in Positions /\ Index(loop[i + 1].at) = i + 1
    <3>1. loop[i + 1].at = rr_next_cpu_id(Kept(rank, i), at)
      BY <2>1, <2>2 DEF turn, at
    <3>2. \A p \in Positions : Precedes(at, p) => p.cpu \in Kept(rank, i)[p.node]
      <4>1. SUFFICES ASSUME NEW p \in Positions, Precedes(at, p)
                     PROVE  p.cpu \in Kept(rank, i)[p.node]
        OBVIOUS
      <4>2. Index(at) < Index(p) /\ Index(p) \in Nat
        BY <2>1, <4>1, IndexOrders, IndexType, PositionsCount
      <4>3. QED
        BY <2>1, <4>2, KeptMasks
    <3>3. Index(at) < NumCpus - 1
      BY <1>1, <2>1, <2>4 DEF N
    <3>4. Kept(rank, i) \in Masks /\ \A n \in D : Kept(rank, i)[n] \subseteq AllMasks[n]
      BY <2>1, KeptMasks
    <3>5. QED
      BY <2>1, <3>1, <3>2, <3>3, <3>4, TurnAdvances
  <2>5. QED
    BY <2>3, <2>4
<1> HIDE DEF Right
<1>11. Bad = {}
  <2>1. SUFFICES ASSUME Bad # {} PROVE FALSE
    OBVIOUS
  <2>2. PICK i \in Bad : \A j \in Bad : i <= j
    <3>1. Bad \in SUBSET Nat
      BY <1>1
    <3>2. QED
      BY <2>1, <3>1, SmallestExists
  <2>3. i # 0
    BY <1>9, <2>2
  <2>4. i - 1 \in 0..N /\ i - 1 < N /\ ~(i <= i - 1)
    BY <1>1, <2>3
  <2>5. Right(i - 1)
    BY <2>2, <2>4
  <2>6. Right((i - 1) + 1)
    BY <1>10, <2>4, <2>5
  <2>7. (i - 1) + 1 = i
    BY <1>1
  <2>8. QED
    BY <2>2, <2>6, <2>7
<1>12. Right(N) /\ Right(N - 1) /\ N - 1 < N /\ N \in 1..N
  <2>1. N \in 0..N /\ N - 1 \in 0..N /\ N - 1 < N /\ N \in 1..N
    BY <1>1
  <2>2. QED
    BY <1>11, <2>1
<1> DEFINE last == loop[N - 1].at
<1>13. last \in Positions /\ Index(last) = NumCpus - 1
  BY <1>12 DEF Right, N
<1>14. loop[N].masks = Kept(rank, N) /\ loop[N].at = rr_next_cpu_id(Kept(rank, NumCpus - 1), last)
  <2>1. loop[N] = turn(N, loop[N - 1])
    BY <1>8, <1>12
  <2>2. loop[N - 1].masks = Kept(rank, NumCpus - 1)
    BY <1>12 DEF Right, N
  <2>3. QED
    BY <1>12, <2>1, <2>2 DEF Right, turn
<1>15. loop[N] = [masks |-> loop[N].masks, at |-> loop[N].at]
  <2>1. loop[N] = turn(N, loop[N - 1])
    BY <1>8, <1>12
  <2>2. turn(N, loop[N - 1])
          = [masks |-> turn(N, loop[N - 1]).masks, at |-> turn(N, loop[N - 1]).at]
    BY Zenon DEF turn
  <2>3. QED
    BY <2>1, <2>2
<1>16. Kept(rank, N) = ShareMasks(rank)
  <2>1. ASSUME NEW n \in D, NEW c \in AllMasks[n] PROVE ~(Index(Position(n, c)) >= N)
    <3>1. Position(n, c) \in Positions
      BY PositionShape DEF Position
    <3>2. Index(Position(n, c)) \in 0..(N - 1)
      BY <3>1, IndexType DEF N
    <3>3. QED
      BY <1>1, <3>2
  <2>2. QED
    BY <2>1, Zenon DEF Kept, ShareMasks
<1> HIDE DEF last
<1> QED
  BY <1>5, <1>13, <1>14, <1>15, <1>16

\* Where the round robin of a process begins after the partition: on a CPU of
\* its share, or nowhere.
LEMMA PartitionNext ==
    ASSUME machine \in Machines, Numbered, NEW rank,
           \E i \in 0..(NumCpus - 1) : InShare(rank, i)
    PROVE  LET to == Partition(rank).at
           IN  /\ Partition(rank).masks = ShareMasks(rank)
               /\ to \in Places /\ to.cpu \in ShareMasks(rank)[to.node] \cup {-1}
<1> DEFINE to == Partition(rank).at
           K == Kept(rank, NumCpus - 1)
<1>1. PICK last \in Positions :
        /\ Index(last) = NumCpus - 1
        /\ Partition(rank) = [masks |-> ShareMasks(rank), at |-> rr_next_cpu_id(K, last)]
  BY PartitionLoop
<1>2. to = rr_next_cpu_id(K, last) /\ Partition(rank).masks = ShareMasks(rank)
  BY <1>1
<1>3. NumCpus - 1 \in Nat
  BY PositionsCount
<1>4. /\ K \in Masks /\ \A n \in D : K[n] \subseteq AllMasks[n]
      /\ \A p \in Positions : p.cpu \in K[p.node]
                                <=> Index(p) >= NumCpus - 1 \/ InShare(rank, Index(p))
  BY <1>3, KeptMasks
<1>5. last \in Places /\ last.node \in D /\ last.node \in Nat /\ last.cpu \in Nat
  BY PositionShape
<1> HIDE DEF to, K
<1>6. /\ to \in Places /\ Following(last.node) \in D
      /\ \/ /\ to.node = last.node /\ to.cpu \in K[last.node] /\ to.cpu > last.cpu
            /\ \A x \in K[last.node] : x > last.cpu => to.cpu <= x
         \/ /\ to.node = Following(last.node)
            /\ \A x \in K[last.node] : x <= last.cpu
            /\ \/ to.cpu = -1 /\ K[to.node] = {}
               \/ to.cpu \in K[to.node] /\ \A x \in K[to.node] : to.cpu <= x
  BY <1>2, <1>4, <1>5, TurnCases
<1>7. \A p \in Positions : Index(p) <= NumCpus - 1 /\ Index(p) \in Nat
                           /\ (Index(p) >= NumCpus - 1 => p = last)
  <2>1. TAKE p \in Positions
  <2>2. Index(p) <= NumCpus - 1 /\ Index(p) \in Nat
    BY <1>3, IndexType
  <2>3. Index(p) >= NumCpus - 1 => Index(p) = Index(last)
    BY <1>1, <1>3, <2>2
  <2>4. QED
    BY <2>2, <2>3, IndexOrders
<1>8. ASSUME to.cpu \in K[to.node]
      PROVE  \E p \in Positions : p.node = to.node /\ p.cpu = to.cpu
  <2>1. to.node \in D
    BY <1>6 DEF Places
  <2>2. to.cpu \in AllMasks[to.node]
    BY <1>4, <1>8, <2>1
  <2>3. [node |-> to.node, cpu |-> to.cpu] \in Positions
    BY <2>1, <2>2, PositionShape
  <2>4. QED
    BY <2>3
<1>9. CASE to.node = last.node /\ to.cpu \in K[last.node] /\ to.cpu > last.cpu
  <2>1. PICK p \in Positions : p.node = to.node /\ p.cpu = to.cpu
    BY <1>8, <1>9
  <2>2. Precedes(last, p)
    BY <1>5, <1>9, <2>1 DEF Precedes
  <2>3. Index(last) < Index(p)
    BY <2>2, IndexOrders
  <2>4. QED
    BY <1>1, <1>3, <1>7, <2>3
<1>10. CASE to.cpu = -1
  BY <1>2, <1>6, <1>10 DEF to
<1>11. CASE to.node = Following(last.node) /\ to.cpu \in K[to.node]
            /\ \A x \in K[to.node] : to.cpu <= x
  <2>1. PICK p \in Positions : p.node = to.node /\ p.cpu = to.cpu
    BY <1>8, <1>11
  <2>2. InShare(rank, Index(p))
    <3>1. ASSUME p = last PROVE InShare(rank, Index(p))
      <4>1. Len(machine.nodes) = 1 /\ D = {1}
        <5>1. Following(last.node) = last.node
          BY <1>11, <2>1, <3>1
        <5>2. Len(machine.nodes) \in Nat \ {0} /\ D = 1..Len(machine.nodes)
          BY MachineShape
        <5>3. last.node = Len(machine.nodes) /\ last.node = 1
          BY <1>5, <5>1 DEF Following
        <5>4. QED
          BY <5>2, <5>3
      <4>2. PICK i \in 0..(NumCpus - 1) : InShare(rank, i)
        OBVIOUS
      <4>3. PICK q \in Positions : Index(q) = i
        BY IndexOnto
      <4>4. q.cpu \in K[q.node] /\ q.node = to.node /\ q.cpu \in Nat /\ p.cpu \in Nat
        <5>1. q.node \in D /\ p.node \in D /\ q.cpu \in Nat /\ p.cpu \in Nat
          BY PositionShape
        <5>2. q.node = to.node
          BY <2>1, <4>1, <5>1
        <5>3. q.cpu \in K[q.node]
          BY <1>4, <4>2, <4>3
        <5>4. QED
          BY <5>1, <5>2, <5>3
      <4>5. to.cpu <= q.cpu
        BY <1>11, <4>4
      <4>6. ~Precedes(q, p)
        <5>1. q.node \in Nat /\ p.node = q.node /\ p.cpu <= q.cpu
          BY <2>1, <4>4, <4>5, PositionShape
        <5>2. QED
          BY <4>4, <5>1 DEF Precedes
      <4>7. ~(Index(q) < Index(p))
        BY <4>6, IndexOrders
      <4>8. q = last
        BY <1>1, <1>3, <1>7, <3>1, <4>7
      <4>9. QED
        BY <3>1, <4>2, <4>3, <4>8
    <3>2. Index(p) >= NumCpus - 1 \/ InShare(rank, Index(p))
      BY <1>4, <1>11, <2>1
    <3>3. QED
      BY <1>7, <3>1, <3>2
  <2>3. to.cpu \in ShareMasks(rank)[to.node]
    <3>1. p.node \in D /\ p.cpu \in AllMasks[p.node] /\ Position(p.node, p.cpu) = p
      BY PositionShape DEF Position
    <3>2. p.cpu \in ShareMasks(rank)[p.node]
      BY <2>2, <3>1 DEF ShareMasks
    <3>3. QED
      BY <2>1, <3>2
  <2>4. QED
    BY <1>2, <1>6, <2>3 DEF to
<1> QED
  BY <1>6, <1>9, <1>10, <1>11

-----------------------------------------------------------------------------
(* Shares *)

\* A CPU is at one position.
LEMMA CpuHasOnePlace ==
    ASSUME machine \in Machines, Numbered, NEW p \in Positions, NEW q \in Positions,
           p.cpu = q.cpu
    PROVE  p = q
<1>1. /\ p.node \in D /\ p.cpu \in machine.nodes[p.node]
      /\ q.node \in D /\ q.cpu \in machine.nodes[q.node]
      /\ p = [node |-> p.node, cpu |-> p.cpu] /\ q = [node |-> q.node, cpu |-> q.cpu]
  BY PositionShape, MachineShape
<1>2. p.node = q.node
  BY <1>1 DEF Numbered, D
<1> QED
  BY <1>1, <1>2

CpusOf(masks) == UNION {masks[n] : n \in D}
PositionsOf(masks) == {p \in Positions : p.cpu \in masks[p.node]}

LEMMA CpusCounted ==
    ASSUME machine \in Machines, Numbered, NEW masks,
           \A n \in D : masks[n] \subseteq AllMasks[n]
    PROVE  /\ \A c : c \in CpusOf(masks) <=> \E p \in PositionsOf(masks) : p.cpu = c
           /\ IsFiniteSet(CpusOf(masks))
           /\ Cardinality(CpusOf(masks)) = Cardinality(PositionsOf(masks))
<1>1. ASSUME NEW c PROVE c \in CpusOf(masks) <=> \E p \in PositionsOf(masks) : p.cpu = c
  <2>1. ASSUME NEW n \in D, c \in masks[n] PROVE \E p \in PositionsOf(masks) : p.cpu = c
    <3>1. [node |-> n, cpu |-> c] \in Positions
      BY <2>1, PositionShape
    <3>2. [node |-> n, cpu |-> c] \in PositionsOf(masks)
      BY <2>1, <3>1 DEF PositionsOf
    <3>3. QED
      BY <3>2
  <2>2. ASSUME NEW p \in PositionsOf(masks), p.cpu = c PROVE c \in CpusOf(masks)
    <3>1. p.node \in D /\ p.cpu \in masks[p.node]
      BY PositionShape DEF PositionsOf
    <3>2. QED
      BY <2>2, <3>1 DEF CpusOf
  <2>3. QED
    BY <2>1, <2>2 DEF CpusOf
<1> DEFINE f == [p \in PositionsOf(masks) |-> p.cpu]
<1>2. IsFiniteSet(PositionsOf(masks))
  BY PositionsCount, FS_Subset DEF PositionsOf
<1>3. f \in Bijection(PositionsOf(masks), CpusOf(masks))
  <2>1. f \in [PositionsOf(masks) -> CpusOf(masks)]
    BY <1>1
  <2>2. \A p, q \in PositionsOf(masks) : f[p] = f[q] => p = q
    BY CpuHasOnePlace DEF PositionsOf
  <2>3. \A c \in CpusOf(masks) : \E p \in PositionsOf(masks) : f[p] = c
    BY <1>1
  <2> HIDE DEF f
  <2>4. QED
    BY <2>1, <2>2, <2>3 DEF Bijection, Injection, Surjection, IsInjective
<1>4. ExistsBijection(PositionsOf(masks), CpusOf(masks))
  BY <1>3 DEF ExistsBijection
<1> QED
  BY <1>1, <1>2, <1>4, FS_Bijection

\* The numbers of the shares: they fit, and the next one starts where one ends.
LEMMA ShareBounds ==
    ASSUME NEW N \in Nat, NEW P \in Nat, P > 1, P <= N \div 2,
           NEW r \in 0..(P - 2), NEW part, part = N \div P
    PROVE  /\ part \in Nat /\ part > 0 /\ r * part \in Nat
           /\ r * part + part - 1 <= N - 1
           /\ \A q \in 0..(P - 2) : r < q => r * part + part - 1 < q * part
<1>1. part \in Nat /\ part > 0 /\ P * part <= N
  <2>1. part \in Nat
    OBVIOUS
  <2>2. P * part <= N
    OBVIOUS
  <2>3. part # 0
    <3>1. P <= N
      OBVIOUS
    <3>2. N < P * (part + 1)
      OBVIOUS
    <3>3. QED
      BY <3>1, <3>2
  <2>4. QED
    BY <2>1, <2>2, <2>3
<1>2. \A q \in Nat : r < q => (r + 1) * part <= q * part
  <2>1. TAKE q \in Nat
  <2>2. HAVE r < q
  <2>3. PICK d \in Nat : q = (r + 1) + d
    <3>1. q - (r + 1) \in Nat
      BY <2>2
    <3>2. QED
      BY <3>1
  <2>4. q * part = (r + 1) * part + d * part /\ d * part \in Nat
    BY <1>1, <2>3
  <2>5. (r + 1) * part \in Nat
    BY <1>1
  <2>6. QED
    BY <2>4, <2>5
<1>3. (r + 1) * part = r * part + part /\ r * part \in Nat
  BY <1>1
<1>4. (r + 1) * part <= P * part
  BY <1>2
<1>5. P * part \in Nat
  BY <1>1
<1>6. \A q \in 0..(P - 2) : r < q => r * part + part - 1 < q * part
  <2>1. TAKE q \in 0..(P - 2)
  <2>2. q * part \in Nat
    BY <1>1
  <2>3. QED
    BY <1>1, <1>2, <1>3, <2>2
<1> QED
  BY <1>1, <1>3, <1>4, <1>5, <1>6

\* The share of a rank has its part of the CPUs, and none of another rank's.
LEMMA ShareOfRank ==
    ASSUME machine \in Machines, Numbered, n_procs \in Nat, Partitioned, NEW r \in Ranks
    PROVE  /\ \E i \in 0..(NumCpus - 1) : InShare(r, i)
           /\ Cardinality(PositionsOf(ShareMasks(r))) = NumCpus \div n_procs
           /\ \A q \in Ranks \ {r} :
                PositionsOf(ShareMasks(r)) \cap PositionsOf(ShareMasks(q)) = {}
<1> DEFINE part == NumCpus \div n_procs
<1>1. NumCpus \in Nat \ {0} /\ n_procs > 1 /\ n_procs <= NumCpus \div 2
  BY PositionsCount DEF Partitioned
<1>2. r \in Nat /\ Ranks = 0..(n_procs - 2)
  BY <1>1 DEF Ranks
<1>3. \A q \in Ranks : /\ part \in Nat /\ part > 0 /\ q * part \in Nat
                       /\ q * part + part - 1 <= NumCpus - 1
                       /\ \A s \in Ranks : q < s => q * part + part - 1 < s * part
  <2>1. TAKE q \in Ranks
  <2>2. q \in 0..(n_procs - 2)
    BY <1>2
  <2> HIDE DEF part
  <2>3. part = NumCpus \div n_procs
    BY DEF part
  <2>4. QED
    BY <1>1, <1>2, <2>2, <2>3, ShareBounds
<1>4. \A q, i : InShare(q, i) <=> i >= q * part /\ i <= q * part + part - 1
  BY DEF InShare
<1> HIDE DEF part
<1>5. ASSUME NEW q \in Ranks
      PROVE  PositionsOf(ShareMasks(q))
               = {p \in Positions : Index(p) >= q * part /\ Index(p) <= q * part + part - 1}
  <2>1. ASSUME NEW p \in Positions
        PROVE  p.cpu \in ShareMasks(q)[p.node] <=> InShare(q, Index(p))
    <3>1. p.node \in D /\ p.cpu \in AllMasks[p.node] /\ Position(p.node, p.cpu) = p
      BY PositionShape DEF Position
    <3>2. QED
      BY <3>1 DEF ShareMasks
  <2>2. QED
    BY <1>4, <2>1 DEF PositionsOf
<1>6. InShare(r, r * part) /\ r * part \in 0..(NumCpus - 1)
  BY <1>1, <1>3, <1>4
<1>7. Cardinality(PositionsOf(ShareMasks(r))) = part
  <2> DEFINE a == r * part
             b == r * part + part - 1
  <2>1. a \in Nat /\ b \in Int /\ a - 1 <= b /\ b <= NumCpus - 1 /\ b - a + 1 = part
    BY <1>3
  <2>2. PositionsOf(ShareMasks(r)) = {p \in Positions : Index(p) >= a /\ Index(p) <= b}
    BY <1>5
  <2> HIDE DEF a, b
  <2>3. Cardinality({p \in Positions : Index(p) >= a /\ Index(p) <= b}) = b - a + 1
    BY <2>1, IndexInterval
  <2>4. QED
    BY <2>1, <2>2, <2>3
<1>8. ASSUME NEW q \in Ranks, q # r, NEW p \in PositionsOf(ShareMasks(r)),
             p \in PositionsOf(ShareMasks(q))
      PROVE  FALSE
  <2>1. /\ p \in Positions /\ Index(p) >= r * part /\ Index(p) <= r * part + part - 1
        /\ Index(p) >= q * part /\ Index(p) <= q * part + part - 1
    BY <1>5, <1>8
  <2>2. Index(p) \in Nat
    BY <1>1, <2>1, IndexType
  <2>3. /\ part \in Nat /\ r * part \in Nat /\ q * part \in Nat
        /\ r < q => r * part + part - 1 < q * part
        /\ q < r => q * part + part - 1 < r * part
    BY <1>3
  <2>4. r < q \/ q < r
    BY <1>2, <1>8
  <2> DEFINE a == r * part
             b == q * part
  <2>5. a \in Nat /\ b \in Nat /\ (a + part - 1 < b \/ b + part - 1 < a)
        /\ Index(p) >= a /\ Index(p) <= a + part - 1 /\ Index(p) >= b /\ Index(p) <= b + part - 1
    BY <2>1, <2>3, <2>4
  <2> HIDE DEF a, b
  <2>6. QED
    BY <2>2, <2>3, <2>5
<1> QED
  BY <1>6, <1>7, <1>8 DEF part

-----------------------------------------------------------------------------
(* Where the round robin of a process begins *)

\* More processes than can be given shares start on CPUs of different numbers.
LEMMA StepsFromStart ==
    ASSUME machine \in Machines, Numbered, NEW rank \in Nat
    PROVE  LET to == SetNextCpu(rank).at
           IN  /\ SetNextCpu(rank).masks = AllMasks
               /\ to \in Places /\ to.cpu \in AllMasks[to.node] \cup {-1}
               /\ rank + 1 < NumCpus => to \in Positions /\ Index(to) = rank + 1
<1> DEFINE M == rank + 1
           turn(at) == rr_next_cpu_id(AllMasks, at)
           walk == CHOOSE h : h = [i \in 0..M |-> IF i = 0 THEN Start ELSE turn(h[i - 1])]
<1>1. M \in Nat \ {0} /\ NumCpus \in Nat \ {0}
  BY PositionsCount
<1>2. AllMasks \in Masks /\ Start \in Positions /\ Start \in Places /\ Index(Start) = 0
  BY MachineShape, StartIsFirst, PositionShape
<1>3. SetNextCpu(rank) = [masks |-> AllMasks, at |-> walk[M]]
  BY DEF SetNextCpu, AllMasks, D
<1>4. ASSUME NEW at \in Places
      PROVE  turn(at) \in Places /\ turn(at).cpu \in AllMasks[turn(at).node] \cup {-1}
  BY <1>2, TurnType
<1> HIDE DEF M, turn
<1>5. walk = [i \in 0..M |-> IF i = 0 THEN Start ELSE turn(walk[i - 1])]
      /\ \A i \in 0..M : walk[i] \in Places
  <2> DEFINE step == [x \in (1..M) \X Places |-> turn(x[2])]
  <2>1. step \in Steps(M, Places)
    BY <1>4 DEF Steps
  <2>2. PICK h \in [0..M -> Places] : Recursion(h, M, Start, step)
    <3> HIDE DEF step, walk
    <3>1. M \in Nat
      BY <1>1
    <3>2. QED
      BY <1>2, <2>1, <3>1, RecursionExists
  <2>3. \A i \in 1..M : h[i] = turn(h[i - 1])
    <3>1. TAKE i \in 1..M
    <3>2. i - 1 \in 0..M
      BY <1>1
    <3>3. h[i - 1] \in Places
      BY <3>2
    <3>4. QED
      BY <2>2, <3>3 DEF Recursion
  <2>4. \A i \in 0..M : i = 0 \/ i \in 1..M
    BY <1>1
  <2>5. h = [i \in 0..M |-> IF i = 0 THEN Start ELSE turn(h[i - 1])]
    BY <2>2, <2>3, <2>4 DEF Recursion
  <2>6. walk = [i \in 0..M |-> IF i = 0 THEN Start ELSE turn(walk[i - 1])]
    BY <2>5
  <2> HIDE DEF walk
  <2>7. walk[0] = Start /\ \A i \in 1..M : walk[i] = turn(walk[i - 1])
    <3>1. 0 \in 0..M /\ \A i \in 1..M : i \in 0..M /\ i # 0
      BY <1>1
    <3>2. QED
      BY <2>6, <3>1
  <2> DEFINE Bad == {i \in 0..M : walk[i] \notin Places}
  <2>8. ASSUME Bad # {} PROVE FALSE
    <3>1. PICK i \in Bad : \A j \in Bad : i <= j
      <4>1. Bad \in SUBSET Nat
        BY <1>1
      <4>2. QED
        BY <2>8, <4>1, SmallestExists
    <3>2. i \in 1..M
      BY <1>2, <2>4, <2>7, <3>1
    <3>3. i - 1 \in 0..M /\ ~(i <= i - 1)
      BY <1>1, <3>2
    <3>4. walk[i - 1] \in Places
      BY <3>1, <3>3
    <3>5. QED
      BY <1>4, <2>7, <3>1, <3>2, <3>4
  <2>9. QED
    BY <2>6, <2>8
<1> HIDE DEF walk
<1>6. walk[0] = Start /\ \A i \in 1..M : walk[i] = turn(walk[i - 1]) /\ walk[i - 1] \in Places
  <2>1. 0 \in 0..M /\ \A i \in 1..M : i \in 0..M /\ i # 0 /\ i - 1 \in 0..M
    BY <1>1
  <2>2. QED
    BY <1>5, <2>1
<1>7. walk[M] \in Places /\ walk[M].cpu \in AllMasks[walk[M].node] \cup {-1}
  <2>1. M \in 1..M
    BY <1>1
  <2>2. QED
    BY <1>4, <1>6, <2>1
<1>8. ASSUME M < NumCpus PROVE walk[M] \in Positions /\ Index(walk[M]) = M
  <2> DEFINE Right(i) == walk[i] \in Positions /\ Index(walk[i]) = i
             Bad == {i \in 0..M : ~Right(i)}
  <2>1. Right(0)
    BY <1>2, <1>6
  <2>2. ASSUME NEW i \in 1..M, Right(i - 1) PROVE Right(i)
    <3>1. walk[i] = rr_next_cpu_id(AllMasks, walk[i - 1])
      BY <1>6 DEF turn
    <3>2. Index(walk[i - 1]) < NumCpus - 1
      BY <1>1, <1>8, <2>2
    <3>3. \A p \in Positions : p.cpu \in AllMasks[p.node]
      BY PositionShape
    <3>4. walk[i] \in Positions /\ Index(walk[i]) = Index(walk[i - 1]) + 1
      BY <1>2, <2>2, <3>1, <3>2, <3>3, TurnAdvances
    <3>5. QED
      BY <1>1, <2>2, <3>4
  <2> HIDE DEF Right
  <2>3. ASSUME Bad # {} PROVE FALSE
    <3>1. PICK i \in Bad : \A j \in Bad : i <= j
      <4>1. Bad \in SUBSET Nat
        BY <1>1
      <4>2. QED
        BY <2>3, <4>1, SmallestExists
    <3>2. i \in 1..M /\ i - 1 \in 0..M /\ ~(i <= i - 1)
      BY <1>1, <2>1, <3>1
    <3>3. QED
      BY <2>2, <3>1, <3>2
  <2>4. M \in 0..M
    BY <1>1
  <2>5. Right(M)
    BY <2>3, <2>4
  <2>6. QED
    BY <2>5 DEF Right
<1> QED
  BY <1>3, <1>7, <1>8 DEF M

\* What partition_cpus leaves behind.
Opening(r) ==
    IF n_procs <= 1 THEN WholeMachine ELSE IF Partitioned THEN Partition(r) ELSE SetNextCpu(r)

LEMMA OpeningType ==
    ASSUME machine \in Machines, Numbered, n_procs \in Nat, NEW r \in Ranks
    PROVE  /\ Opening(r).masks \in Masks
           /\ \A n \in D : Opening(r).masks[n] \subseteq AllMasks[n]
           /\ Opening(r).at \in Places
           /\ Opening(r).at.cpu \in Opening(r).masks[Opening(r).at.node] \cup {-1}
<1>1. AllMasks \in Masks /\ 1 \in D
  BY MachineShape
<1>2. CASE n_procs <= 1
  <2> DEFINE first == next_cpu(AllMasks[1], 0)
  <2>1. Opening(r) = [masks |-> AllMasks, at |-> [node |-> 1, cpu |-> first]]
    BY <1>2 DEF Opening, WholeMachine, AllMasks, D
  <2>2. AllMasks[1] \in SUBSET Nat
    BY <1>1 DEF Masks
  <2>3. first \in AllMasks[1] \cup {-1}
    BY <2>2, NextCpu
  <2> HIDE DEF first
  <2>4. [node |-> 1, cpu |-> first] \in Places
    BY <1>1, <2>2, <2>3 DEF Places
  <2>5. QED
    BY <1>1, <2>1, <2>3, <2>4
<1>3. CASE n_procs > 1 /\ Partitioned
  <2>1. Opening(r) = Partition(r)
    BY <1>3 DEF Opening
  <2>2. /\ Partition(r).masks = ShareMasks(r)
        /\ Partition(r).at \in Places
        /\ Partition(r).at.cpu \in ShareMasks(r)[Partition(r).at.node] \cup {-1}
    BY <1>3, ShareOfRank, PartitionNext
  <2>3. ShareMasks(r) \in Masks /\ \A n \in D : ShareMasks(r)[n] \subseteq AllMasks[n]
    BY <1>1 DEF ShareMasks, Masks
  <2>4. QED
    BY <2>1, <2>2, <2>3
<1>4. CASE n_procs > 1 /\ ~Partitioned
  <2>1. Opening(r) = SetNextCpu(r)
    BY <1>4 DEF Opening
  <2>2. r \in Nat
    BY <1>4 DEF Ranks
  <2>3. QED
    BY <1>1, <2>1, <2>2, StepsFromStart
<1> QED
  BY <1>2, <1>3, <1>4

-----------------------------------------------------------------------------
(* The round robin of a process *)

Ahead(p, q) == IF Precedes(p, q) THEN 1 ELSE 0
Count(b, c) == Cardinality({i \in DOMAIN b : b[i] = c})

\* A turn puts the CPU it leaves behind the position; when it comes to the first
\* node again, no CPU is behind it any more.
LEMMA RoundTurn ==
    ASSUME machine \in Machines, Numbered, NEW masks \in Masks, NEW at \in Places,
           \A n \in D : masks[n] \subseteq AllMasks[n], at.cpu \in masks[at.node]
    PROVE  LET to == rr_next_cpu_id(masks, at)
           IN  /\ to \in Places /\ to.cpu \in masks[to.node] \cup {-1}
               /\ \E gone \in {0, 1} : \A p \in PositionsOf(masks) :
                    Ahead(p, to) + gone = Ahead(p, at) + IF p.cpu = at.cpu THEN 1 ELSE 0
<1> DEFINE to == rr_next_cpu_id(masks, at)
<1>1. /\ to \in Places /\ at.node \in D /\ Following(at.node) \in D
      /\ \/ /\ to.node = at.node /\ to.cpu \in masks[at.node] /\ to.cpu > at.cpu
            /\ \A x \in masks[at.node] : x > at.cpu => to.cpu <= x
         \/ /\ to.node = Following(at.node)
            /\ \A x \in masks[at.node] : x <= at.cpu
            /\ \/ to.cpu = -1 /\ masks[to.node] = {}
               \/ to.cpu \in masks[to.node] /\ \A x \in masks[to.node] : to.cpu <= x
  BY TurnCases
<1> HIDE DEF to
<1>2. /\ Len(machine.nodes) \in Nat \ {0} /\ D = 1..Len(machine.nodes)
      /\ \A n \in D : masks[n] \in SUBSET Nat
  BY MachineShape DEF Masks
<1>3. at.node \in Nat /\ at.cpu \in Nat /\ to.node \in Nat /\ to.cpu \in Int /\ to.node \in D
  BY <1>1, <1>2 DEF Places
<1>4. at \in Positions
  <2>1. [node |-> at.node, cpu |-> at.cpu] \in Positions
    BY <1>1, PositionShape
  <2>2. at = [node |-> at.node, cpu |-> at.cpu]
    BY DEF Places
  <2>3. QED
    BY <2>1, <2>2
<1>5. ASSUME NEW p \in PositionsOf(masks)
      PROVE  /\ p.node \in Nat /\ p.cpu \in Nat /\ p.node \in D /\ p.cpu \in masks[p.node]
             /\ p.cpu = at.cpu <=> p.node = at.node /\ p.cpu = at.cpu
  <2>1. p \in Positions /\ p.cpu \in masks[p.node]
    BY DEF PositionsOf
  <2>2. p.cpu = at.cpu => p = at
    BY <1>4, <2>1, CpuHasOnePlace
  <2>3. QED
    BY <2>1, <2>2, PositionShape
<1>6. CASE /\ to.node = at.node /\ to.cpu \in masks[at.node] /\ to.cpu > at.cpu
           /\ \A x \in masks[at.node] : x > at.cpu => to.cpu <= x
  <2>1. ASSUME NEW p \in PositionsOf(masks)
        PROVE  Ahead(p, to) + 0 = Ahead(p, at) + IF p.cpu = at.cpu THEN 1 ELSE 0
    <3>1. p.node = at.node /\ p.cpu > at.cpu => to.cpu <= p.cpu
      BY <1>5, <1>6
    <3>2. Precedes(p, to) <=> Precedes(p, at) \/ (p.node = at.node /\ p.cpu = at.cpu)
      BY <1>3, <1>5, <1>6, <3>1 DEF Precedes
    <3>3. ~(Precedes(p, at) /\ p.cpu = at.cpu)
      BY <1>3, <1>5 DEF Precedes
    <3>4. QED
      BY <1>5, <3>2, <3>3 DEF Ahead
  <2>2. QED
    BY <1>1, <1>6, <2>1 DEF to
<1>7. CASE /\ to.node = Following(at.node)
           /\ \A x \in masks[at.node] : x <= at.cpu
           /\ \/ to.cpu = -1 /\ masks[to.node] = {}
              \/ to.cpu \in masks[to.node] /\ \A x \in masks[to.node] : to.cpu <= x
  <2>1. to.cpu \in masks[to.node] \cup {-1}
    BY <1>7
  <2>2. ASSUME NEW p \in PositionsOf(masks)
        PROVE  /\ p.node = to.node => to.cpu <= p.cpu
               /\ p.node = at.node => p.cpu <= at.cpu
    BY <1>5, <1>7
  <2>3. CASE at.node = Len(machine.nodes)
    <3>1. ASSUME NEW p \in PositionsOf(masks)
          PROVE  Ahead(p, to) + 1 = Ahead(p, at) + IF p.cpu = at.cpu THEN 1 ELSE 0
      <4>1. to.node = 1 /\ p.node >= 1 /\ p.node <= at.node
        BY <1>2, <1>5, <1>7, <2>3 DEF Following
      <4>2. ~Precedes(p, to)
        BY <1>3, <1>5, <2>2, <4>1 DEF Precedes
      <4>3. Precedes(p, at) <=> ~(p.node = at.node /\ p.cpu = at.cpu)
        BY <1>3, <1>5, <2>2, <4>1 DEF Precedes
      <4>4. QED
        BY <1>5, <4>2, <4>3 DEF Ahead
    <3>2. QED
      BY <1>1, <2>1, <3>1 DEF to
  <2>4. CASE at.node # Len(machine.nodes)
    <3>1. ASSUME NEW p \in PositionsOf(masks)
          PROVE  Ahead(p, to) + 0 = Ahead(p, at) + IF p.cpu = at.cpu THEN 1 ELSE 0
      <4>1. to.node = at.node + 1
        BY <1>7, <2>4 DEF Following
      <4>2. Precedes(p, to) <=> p.node <= at.node
        BY <1>3, <1>5, <2>2, <4>1 DEF Precedes
      <4>3. Precedes(p, at) <=> p.node <= at.node /\ ~(p.node = at.node /\ p.cpu = at.cpu)
        BY <1>3, <1>5, <2>2 DEF Precedes
      <4>4. p.node = at.node /\ p.cpu = at.cpu => p.node <= at.node
        BY <1>3
      <4>5. QED
        BY <1>5, <4>2, <4>3, <4>4 DEF Ahead
    <3>2. QED
      BY <1>1, <2>1, <3>1 DEF to
  <2>5. QED
    BY <2>3, <2>4
<1> QED
  BY <1>1, <1>6, <1>7

\* Appending a CPU counts it once more and the others as before.
LEMMA CountAppended ==
    ASSUME NEW b \in Seq(Nat), NEW new \in Nat, NEW c
    PROVE  /\ Count(b, c) \in Nat
           /\ Count(Append(b, new), c) = Count(b, c) + IF c = new THEN 1 ELSE 0
<1> DEFINE n == Len(b)
           S == {i \in 1..n : b[i] = c}
           T == {i \in 1..(n + 1) : Append(b, new)[i] = c}
<1>1. /\ n \in Nat /\ DOMAIN b = 1..n /\ DOMAIN Append(b, new) = 1..(n + 1)
      /\ \A i \in 1..n : Append(b, new)[i] = b[i] /\ i \in 1..(n + 1)
      /\ Append(b, new)[n + 1] = new
  BY LenProperties, AppendProperties
<1>2. Count(b, c) = Cardinality(S) /\ Count(Append(b, new), c) = Cardinality(T)
  BY <1>1, Zenon DEF Count
<1>3. IsFiniteSet(S) /\ n + 1 \notin S
  <2>1. IsFiniteSet(1..n)
    BY <1>1, FS_Interval
  <2>2. IsFiniteSet(S)
    BY <2>1, FS_Subset
  <2>3. n + 1 \notin 1..n
    BY <1>1
  <2>4. QED
    BY <2>2, <2>3
<1>4. \A i \in 1..(n + 1) : i \in 1..n \/ i = n + 1
  BY <1>1
<1>5. n + 1 \in 1..(n + 1)
  BY <1>1
<1> HIDE DEF n
<1>6. Cardinality(S) \in Nat
  BY <1>3, FS_CardinalityType
<1>7. CASE c = new
  <2>1. T = S \cup {n + 1}
    BY <1>1, <1>4, <1>5, <1>7
  <2> HIDE DEF S, T
  <2>2. Cardinality(T) = Cardinality(S) + 1
    BY <1>3, <2>1, FS_AddElement
  <2>3. QED
    BY <1>2, <1>7, <1>6, <2>2
<1>8. CASE c # new
  <2>1. T = S
    BY <1>1, <1>4, <1>5, <1>8
  <2> HIDE DEF S, T
  <2>2. QED
    BY <1>2, <1>8, <1>6, <2>1
<1> QED
  BY <1>7, <1>8

\* The CPUs that have been passed since the round robin began at start: those
\* between start and at once more than the others.
Rounds(masks, start, at, b) ==
    \E k \in Nat : \A p \in PositionsOf(masks) :
        Count(b, p.cpu) + Ahead(p, start) = k + Ahead(p, at)

LEMMA RoundsGoOn ==
    ASSUME machine \in Machines, Numbered, NEW masks \in Masks, NEW at \in Places,
           \A n \in D : masks[n] \subseteq AllMasks[n], at.cpu \in masks[at.node],
           NEW start \in Places, NEW b \in Seq(Nat), Rounds(masks, start, at, b)
    PROVE  Rounds(masks, start, rr_next_cpu_id(masks, at), Append(b, at.cpu))
<1> DEFINE to == rr_next_cpu_id(masks, at)
<1>1. PICK gone \in {0, 1} : \A p \in PositionsOf(masks) :
        Ahead(p, to) + gone = Ahead(p, at) + IF p.cpu = at.cpu THEN 1 ELSE 0
  BY RoundTurn
<1>2. PICK k \in Nat : \A p \in PositionsOf(masks) :
        Count(b, p.cpu) + Ahead(p, start) = k + Ahead(p, at)
  BY DEF Rounds
<1>3. at.cpu \in Nat
  <2>1. at.node \in D
    BY DEF Places
  <2>2. QED
    BY <2>1 DEF Masks
<1> HIDE DEF to
<1>4. ASSUME NEW p \in PositionsOf(masks)
      PROVE  Count(Append(b, at.cpu), p.cpu) + Ahead(p, start) = (k + gone) + Ahead(p, to)
  <2>1. /\ Count(b, p.cpu) \in Nat
        /\ Count(Append(b, at.cpu), p.cpu) = Count(b, p.cpu) + IF p.cpu = at.cpu THEN 1 ELSE 0
    BY <1>3, CountAppended
  <2>2. Ahead(p, start) \in Nat /\ Ahead(p, at) \in Nat /\ Ahead(p, to) \in Nat
    BY DEF Ahead
  <2>3. /\ Count(b, p.cpu) + Ahead(p, start) = k + Ahead(p, at)
        /\ Ahead(p, to) + gone = Ahead(p, at) + IF p.cpu = at.cpu THEN 1 ELSE 0
    BY <1>1, <1>2
  <2> DEFINE before == Count(b, p.cpu)
             after == Count(Append(b, at.cpu), p.cpu)
             s == Ahead(p, start)
             a == Ahead(p, at)
             t == Ahead(p, to)
             new == IF p.cpu = at.cpu THEN 1 ELSE 0
  <2>4. /\ before \in Nat /\ s \in Nat /\ a \in Nat /\ t \in Nat /\ new \in Nat /\ gone \in Nat
        /\ after = before + new /\ before + s = k + a /\ t + gone = a + new
    BY <2>1, <2>2, <2>3
  <2> HIDE DEF before, after, s, a, t, new
  <2>5. after + s = (k + gone) + t
    BY <2>4
  <2>6. QED
    BY <2>5 DEF after, s, t
<1>5. k + gone \in Nat
  BY <1>1
<1> QED
  BY <1>4, <1>5 DEF Rounds, to

LEMMA RoundsBalance ==
    ASSUME machine \in Machines, NEW masks, NEW at \in Places, NEW start \in Places,
           NEW b \in Seq(Nat), Rounds(masks, start, at, b),
           NEW p \in PositionsOf(masks), NEW q \in PositionsOf(masks)
    PROVE  Count(b, p.cpu) <= Count(b, q.cpu) + 1
<1>1. PICK k \in Nat : \A x \in PositionsOf(masks) :
        Count(b, x.cpu) + Ahead(x, start) = k + Ahead(x, at)
  BY DEF Rounds
<1>2. Count(b, p.cpu) \in Nat /\ Count(b, q.cpu) \in Nat
  BY CountAppended
<1>3. /\ p.node \in Nat /\ p.cpu \in Nat /\ q.node \in Nat /\ q.cpu \in Nat
      /\ at.node \in Nat /\ at.cpu \in Int /\ start.node \in Nat /\ start.cpu \in Int
  BY PositionShape, MachineShape DEF PositionsOf, Places
<1>4. ~(/\ Precedes(p, at) /\ ~Precedes(p, start)
        /\ Precedes(q, start) /\ ~Precedes(q, at))
  BY <1>3 DEF Precedes
<1>5. /\ Count(b, p.cpu) + Ahead(p, start) = k + Ahead(p, at)
      /\ Count(b, q.cpu) + Ahead(q, start) = k + Ahead(q, at)
  BY <1>1
<1> QED
  BY <1>2, <1>4, <1>5 DEF Ahead

-----------------------------------------------------------------------------
(* The inductive invariant *)

TypeInv ==
    /\ machine \in Machines /\ n_procs \in ProcessLimits
    /\ pc \in [Ranks -> {"init", "registering", "dead"}]
    /\ cpu_bitmask \in [Ranks -> Masks \cup {<<>>}]
    /\ next \in [Ranks -> Places]
    /\ bound \in [Ranks -> Seq(Nat)]
    /\ \A r \in Ranks : pc[r] = "init" => next[r] = Start /\ bound[r] = <<>>

\* A process keeps the masks of its partition, has bound its threads to CPUs of
\* them in rounds, the first where the rounds began, and goes on with another.
Good(r) ==
    /\ cpu_bitmask[r] = Opening(r).masks
    /\ next[r].cpu \in cpu_bitmask[r][next[r].node] \cup {-1}
    /\ \A i \in DOMAIN bound[r] : bound[r][i] \in CpusOf(cpu_bitmask[r])
    /\ IF bound[r] = <<>> THEN next[r] = Opening(r).at ELSE bound[r][1] = Opening(r).at.cpu
    /\ Rounds(cpu_bitmask[r], Opening(r).at, next[r], bound[r])

IInv == TypeInv /\ \A r \in Ready : Good(r)

LEMMA SameMachine ==
    ASSUME machine' = machine, n_procs' = n_procs
    PROVE  /\ D' = D /\ Ranks' = Ranks /\ Masks' = Masks /\ Places' = Places
           /\ Positions' = Positions
           /\ \A r : Opening(r)' = Opening(r)
<1>1. D' = D /\ Ranks' = Ranks
  BY DEF D, Ranks
<1>2. Masks' = Masks /\ Places' = Places
  BY <1>1 DEF Masks, Places
<1>3. AllMasks' = AllMasks
  BY <1>1 DEF AllMasks
<1>4. Positions' = Positions
  BY <1>1, <1>3 DEF Positions
<1>5. NumCpus' = NumCpus
  BY DEF NumCpus
<1>6. Partitioned' = Partitioned
  BY <1>5 DEF Partitioned
<1>7. WholeMachine' = WholeMachine
  BY DEF WholeMachine
<1>8. \A r : SetNextCpu(r)' = SetNextCpu(r)
  BY DEF SetNextCpu
<1>9. \A r : Partition(r)' = Partition(r)
  BY <1>5 DEF Partition, InShare
<1>10. \A r : Opening(r)' = Opening(r)
  BY <1>6, <1>7, <1>8, <1>9 DEF Opening
<1> QED
  BY <1>1, <1>2, <1>4, <1>10

LEMMA SameProcess ==
    ASSUME machine' = machine, n_procs' = n_procs, NEW r, Good(r),
           cpu_bitmask'[r] = cpu_bitmask[r], next'[r] = next[r], bound'[r] = bound[r]
    PROVE  Good(r)'
<1>1. D' = D /\ Positions' = Positions /\ Opening(r)' = Opening(r)
  BY SameMachine
<1>2. CpusOf(cpu_bitmask[r])' = CpusOf(cpu_bitmask[r])
  BY <1>1 DEF CpusOf
<1>3. PositionsOf(cpu_bitmask[r])' = PositionsOf(cpu_bitmask[r])
  BY <1>1 DEF PositionsOf
<1>4. Rounds(cpu_bitmask[r], Opening(r).at, next[r], bound[r])'
        = Rounds(cpu_bitmask[r], Opening(r).at, next[r], bound[r])
  BY <1>1, <1>3 DEF Rounds
<1> QED
  BY <1>1, <1>2, <1>4 DEF Good

LEMMA IInvInit ==
    ASSUME Init
    PROVE  IInv
<1>1. 1 \in D
  BY MachineShape DEF Init
<1>2. Start \in Places
  BY <1>1 DEF Start, Places
<1>3. TypeInv
  BY <1>2 DEF TypeInv, Init
<1>4. Ready = {}
  BY DEF Ready, Init
<1> QED
  BY <1>3, <1>4 DEF IInv

LEMMA PartitionStep ==
    ASSUME Numbered, IInv, NEW r \in Ranks, partition_cpus(r)
    PROVE  IInv'
<1>1. machine \in Machines /\ n_procs \in Nat /\ TypeInv
  BY PartitionAssumption DEF IInv, TypeInv
<1>2. machine' = machine /\ n_procs' = n_procs
  BY DEF partition_cpus
<1>3. /\ pc[r] = "init" /\ pc' = [pc EXCEPT ![r] = "registering"] /\ bound' = bound
      /\ cpu_bitmask' = [cpu_bitmask EXCEPT ![r] = Opening(r).masks]
      /\ next' = [next EXCEPT ![r] = Opening(r).at]
  BY DEF partition_cpus, Opening
<1>4. /\ Opening(r).masks \in Masks
      /\ Opening(r).at \in Places
      /\ Opening(r).at.cpu \in Opening(r).masks[Opening(r).at.node] \cup {-1}
  BY <1>1, OpeningType
<1>5. /\ Ranks' = Ranks /\ Masks' = Masks /\ Places' = Places /\ Positions' = Positions
      /\ Opening(r)' = Opening(r)
  BY <1>2, SameMachine
<1>6. TypeInv'
  BY <1>1, <1>2, <1>3, <1>4, <1>5 DEF TypeInv
<1>7. /\ cpu_bitmask'[r] = Opening(r).masks /\ next'[r] = Opening(r).at
      /\ bound'[r] = <<>>
  BY <1>1, <1>3 DEF TypeInv
<1>8. Good(r)'
  <2>1. ASSUME NEW c PROVE Count(<<>>, c) = 0
    <3>1. {i \in DOMAIN <<>> : <<>>[i] = c} = {}
      OBVIOUS
    <3>2. QED
      BY <3>1, FS_EmptySet, Zenon DEF Count
  <2>2. Rounds(cpu_bitmask[r], Opening(r).at, next[r], bound[r])'
    <3>1. ASSUME NEW p
          PROVE  Count(<<>>, p.cpu) + Ahead(p, Opening(r).at) = 0 + Ahead(p, Opening(r).at)
      <4>1. Ahead(p, Opening(r).at) \in Nat
        BY DEF Ahead
      <4>2. QED
        BY <2>1, <4>1
    <3>2. QED
      BY <1>5, <1>7, <3>1 DEF Rounds
  <2>3. DOMAIN bound'[r] = {}
    BY <1>7
  <2>4. QED
    BY <1>4, <1>5, <1>7, <2>2, <2>3 DEF Good
<1>9. ASSUME NEW q \in Ready', q # r PROVE Good(q)'
  <2>1. q \in Ready
    BY <1>1, <1>3, <1>5, <1>9 DEF Ready, TypeInv
  <2>2. /\ cpu_bitmask'[q] = cpu_bitmask[q] /\ next'[q] = next[q]
        /\ bound'[q] = bound[q]
    BY <1>1, <1>3, <1>9, <2>1 DEF TypeInv, Ready
  <2>3. Good(q)
    BY <2>1 DEF IInv
  <2>4. QED
    BY <1>2, <2>2, <2>3, SameProcess
<1> QED
  BY <1>6, <1>8, <1>9 DEF IInv

LEMMA RegisterStep ==
    ASSUME Numbered, IInv, NEW r \in Ranks, RegisterThread(r)
    PROVE  IInv'
<1> DEFINE masks == cpu_bitmask[r]
           at == next[r]
           to == rr_next_cpu_id(masks, at)
<1>1. machine \in Machines /\ n_procs \in Nat /\ TypeInv
  BY PartitionAssumption DEF IInv, TypeInv
<1>2. machine' = machine /\ n_procs' = n_procs
  BY DEF RegisterThread
<1>3. /\ pc[r] = "registering" /\ at.cpu >= 0 /\ pc' = pc /\ cpu_bitmask' = cpu_bitmask
      /\ bound' = [bound EXCEPT ![r] = Append(bound[r], at.cpu)]
      /\ next' = [next EXCEPT ![r] = to]
  BY DEF RegisterThread
<1>4. r \in Ready /\ Good(r)
  BY <1>3 DEF Ready, IInv
<1>5. /\ masks \in Masks /\ \A n \in D : masks[n] \subseteq AllMasks[n]
      /\ Opening(r).at \in Places /\ masks = Opening(r).masks
  BY <1>1, <1>4, OpeningType DEF Good
<1>6. at \in Places /\ at.node \in D /\ bound[r] \in Seq(Nat)
  BY <1>1 DEF TypeInv, Places
<1>7. at.cpu \in masks[at.node] /\ at.cpu \in Nat
  <2>1. at.cpu \in masks[at.node]
    BY <1>3, <1>4 DEF Good
  <2>2. QED
    BY <1>5, <1>6, <2>1 DEF Masks
<1>8. to \in Places /\ to.cpu \in masks[to.node] \cup {-1}
  BY <1>1, <1>5, <1>6, <1>7, RoundTurn
<1>9. Rounds(masks, Opening(r).at, at, bound[r])
  BY <1>4 DEF Good
<1>10. Rounds(masks, Opening(r).at, to, Append(bound[r], at.cpu))
  BY <1>1, <1>5, <1>6, <1>7, <1>9, RoundsGoOn
<1> HIDE DEF at, masks, to
<1>11. /\ Ranks' = Ranks /\ Masks' = Masks /\ Places' = Places /\ Positions' = Positions
       /\ Opening(r)' = Opening(r) /\ D' = D
  BY <1>2, SameMachine
<1>12. /\ bound'[r] = Append(bound[r], at.cpu) /\ next'[r] = to /\ cpu_bitmask'[r] = masks
  BY <1>1, <1>3 DEF TypeInv, masks
<1>13. TypeInv'
  <2>1. bound' \in [Ranks -> Seq(Nat)]
    BY <1>1, <1>3, <1>6, <1>7, AppendProperties DEF TypeInv
  <2>2. next' \in [Ranks -> Places]
    BY <1>1, <1>3, <1>8 DEF TypeInv
  <2>3. \A q \in Ranks : pc[q] = "init" => next'[q] = Start /\ bound'[q] = <<>>
    BY <1>1, <1>3 DEF TypeInv
  <2>4. QED
    BY <1>1, <1>2, <1>3, <1>11, <2>1, <2>2, <2>3 DEF TypeInv
<1>14. Good(r)'
  <2> DEFINE b == Append(bound[r], at.cpu)
             n == Len(bound[r])
  <2>1. /\ n \in Nat /\ DOMAIN bound[r] = 1..n /\ DOMAIN b = 1..(n + 1) /\ b # <<>>
        /\ \A i \in 1..n : b[i] = bound[r][i]
        /\ b[n + 1] = at.cpu
    <3>1. n \in Nat /\ DOMAIN bound[r] = 1..n
      BY <1>6, LenProperties
    <3>2. /\ b # <<>> /\ Len(b) = n + 1 /\ b \in Seq(Nat)
          /\ \A i \in 1..n : b[i] = bound[r][i]
          /\ b[n + 1] = at.cpu
      BY <1>6, <1>7, AppendProperties
    <3> HIDE DEF b, n
    <3>3. DOMAIN b = 1..(n + 1)
      BY <3>2, LenProperties
    <3>4. QED
      BY <3>1, <3>2, <3>3
  <2>2. \A i \in DOMAIN b : b[i] \in CpusOf(masks)
    <3>1. \A i \in 1..n : bound[r][i] \in CpusOf(masks)
      BY <1>4, <2>1 DEF Good, masks
    <3>2. at.cpu \in CpusOf(masks)
      BY <1>6, <1>7 DEF CpusOf
    <3>3. \A i \in 1..(n + 1) : i \in 1..n \/ i = n + 1
      BY <2>1
    <3> HIDE DEF b, n
    <3>4. QED
      BY <2>1, <3>1, <3>2, <3>3
  <2>3. b[1] = Opening(r).at.cpu
    <3>1. CASE bound[r] = <<>>
      <4>1. at = Opening(r).at /\ n = 0
        BY <1>4, <3>1 DEF Good, at
      <4> HIDE DEF b, n
      <4>2. QED
        BY <2>1, <4>1
    <3>2. CASE bound[r] # <<>>
      <4>1. bound[r][1] = Opening(r).at.cpu
        BY <1>4, <3>2 DEF Good
      <4>2. n # 0
        BY <1>6, <3>2, EmptySeq
      <4> HIDE DEF b, n
      <4>3. 1 \in 1..n
        BY <2>1, <4>2
      <4>4. QED
        BY <2>1, <4>1, <4>3
    <3>3. QED
      BY <3>1, <3>2
  <2> HIDE DEF b, n
  <2>4. bound'[r] = b
    BY <1>12 DEF b
  <2>5. Rounds(cpu_bitmask[r], Opening(r).at, next[r], bound[r])'
    <3>1. Rounds(masks, Opening(r).at, to, b)
      BY <1>10 DEF b
    <3>2. QED
      BY <1>11, <1>12, <2>4, <3>1 DEF Rounds, PositionsOf
  <2>6. CpusOf(cpu_bitmask[r])' = CpusOf(masks)
    BY <1>11, <1>12 DEF CpusOf
  <2>7. cpu_bitmask'[r] = Opening(r)'.masks
    BY <1>5, <1>11, <1>12
  <2>8. next'[r].cpu \in cpu_bitmask'[r][next'[r].node] \cup {-1}
    BY <1>8, <1>12
  <2>9. \A i \in DOMAIN bound'[r] : bound'[r][i] \in CpusOf(cpu_bitmask[r])'
    BY <2>2, <2>4, <2>6
  <2>10. bound'[r] # <<>> /\ bound'[r][1] = Opening(r)'.at.cpu
    BY <1>11, <2>1, <2>3, <2>4
  <2>11. QED
    BY <2>5, <2>7, <2>8, <2>9, <2>10 DEF Good
<1>15. ASSUME NEW q \in Ready', q # r PROVE Good(q)'
  <2>1. q \in Ready
    BY <1>3, <1>11 DEF Ready
  <2>2. /\ cpu_bitmask'[q] = cpu_bitmask[q] /\ next'[q] = next[q] /\ bound'[q] = bound[q]
    BY <1>1, <1>3, <1>15, <2>1 DEF TypeInv, Ready
  <2>3. Good(q)
    BY <2>1 DEF IInv
  <2>4. QED
    BY <1>2, <2>2, <2>3, SameProcess
<1> QED
  BY <1>13, <1>14, <1>15 DEF IInv

LEMMA OtherSteps ==
    ASSUME IInv, (\E r \in Ranks : FailToBind(r)) \/ UNCHANGED vars
    PROVE  IInv'
<1>1. /\ machine' = machine /\ n_procs' = n_procs
      /\ cpu_bitmask' = cpu_bitmask /\ next' = next /\ bound' = bound
  BY DEF FailToBind, vars
<1>2. Ranks' = Ranks /\ Masks' = Masks /\ Places' = Places
  BY <1>1, SameMachine
<1>3. /\ pc' \in [Ranks -> {"init", "registering", "dead"}]
      /\ \A r \in Ranks : pc'[r] = "init" <=> pc[r] = "init"
  BY DEF FailToBind, vars, IInv, TypeInv
<1>4. TypeInv'
  BY <1>1, <1>2, <1>3 DEF IInv, TypeInv
<1>5. Ready' = Ready
  BY <1>2, <1>3 DEF Ready
<1>6. ASSUME NEW q \in Ready PROVE Good(q)'
  <2>1. Good(q)
    BY DEF IInv
  <2>2. QED
    BY <1>1, <2>1, SameProcess
<1> QED
  BY <1>4, <1>5, <1>6 DEF IInv

LEMMA IInvAlways ==
    ASSUME Numbered
    PROVE  Spec => []IInv
<1>1. Init => IInv
  BY IInvInit
<1>2. IInv /\ [Next]_vars => IInv'
  <2>1. SUFFICES ASSUME IInv, [Next]_vars PROVE IInv'
    OBVIOUS
  <2>2. ASSUME NEW r \in Ranks, partition_cpus(r) PROVE IInv'
    BY <2>1, <2>2, PartitionStep
  <2>3. ASSUME NEW r \in Ranks, RegisterThread(r) PROVE IInv'
    BY <2>1, <2>3, RegisterStep
  <2>4. ASSUME (\E r \in Ranks : FailToBind(r)) \/ UNCHANGED vars PROVE IInv'
    BY <2>1, <2>4, OtherSteps
  <2>5. QED
    BY <2>1, <2>2, <2>3, <2>4 DEF Next
<1> QED
  BY <1>1, <1>2, PTL DEF Spec

-----------------------------------------------------------------------------
(* The properties *)

LEMMA IInvImpliesTypeOK ==
    ASSUME Numbered, IInv
    PROVE  TypeOK
<1>1. machine \in Machines /\ n_procs \in Nat /\ TypeInv
  BY PartitionAssumption DEF IInv, TypeInv
<1>2. \A n \in D : AllMasks[n] \subseteq machine.nodes[n]
  BY <1>1, MachineShape DEF AllMasks
<1>3. ASSUME NEW r \in Ready
      PROVE  /\ \A n \in D : cpu_bitmask[r][n] \subseteq machine.nodes[n]
             /\ next[r].cpu \in cpu_bitmask[r][next[r].node] \cup {-1}
  <2>1. r \in Ranks /\ Good(r)
    BY DEF IInv, Ready
  <2>2. \A n \in D : cpu_bitmask[r][n] \subseteq AllMasks[n]
    BY <1>1, <2>1, OpeningType DEF Good
  <2>3. QED
    BY <1>2, <2>1, <2>2 DEF Good
<1>4. ASSUME NEW r \in Ranks
      PROVE  /\ next[r].node \in D
             /\ next[r].cpu \in machine.nodes[next[r].node] \cup {-1}
  <2>1. next[r] \in Places /\ next[r].node \in D
    BY <1>1 DEF TypeInv, Places
  <2>2. CASE r \in Ready
    BY <1>3, <2>1, <2>2
  <2>3. CASE r \notin Ready
    <3>1. next[r] = Start
      BY <1>1, <2>3 DEF TypeInv, Ready
    <3>2. Start.node \in D /\ Start.cpu \in AllMasks[Start.node]
      BY <1>1, StartIsFirst, PositionShape
    <3>3. QED
      BY <1>2, <3>1, <3>2
  <2>4. QED
    BY <2>2, <2>3
<1> QED
  BY <1>1, <1>3, <1>4 DEF TypeOK, TypeInv, D

LEMMA IInvImpliesSharesDisjoint ==
    ASSUME Numbered, IInv
    PROVE  SharesDisjoint
<1>1. machine \in Machines /\ n_procs \in Nat
  BY PartitionAssumption DEF IInv, TypeInv
<1>2. SUFFICES ASSUME Partitioned PROVE /\ \A r, q \in Ready : r # q => Share(r) \cap Share(q) = {}
                                        /\ \A r \in Ready : Cardinality(Share(r)) = NumCpus \div n_procs
  BY DEF SharesDisjoint
<1>3. ASSUME NEW r \in Ready
      PROVE  /\ r \in Ranks /\ Share(r) = CpusOf(ShareMasks(r))
             /\ \A n \in D : ShareMasks(r)[n] \subseteq AllMasks[n]
  <2>1. r \in Ranks /\ Good(r)
    BY DEF IInv, Ready
  <2>2. n_procs > 1
    BY <1>2 DEF Partitioned
  <2>3. Opening(r).masks = ShareMasks(r)
    <3>1. Opening(r) = Partition(r)
      BY <1>1, <1>2, <2>2 DEF Opening
    <3>2. QED
      BY <1>1, <1>2, <2>1, <3>1, ShareOfRank, PartitionNext
  <2>4. Share(r) = CpusOf(ShareMasks(r))
    BY <2>1, <2>3 DEF Good, Share, CpusOf, D
  <2>5. \A n \in D : ShareMasks(r)[n] \subseteq AllMasks[n]
    BY DEF ShareMasks
  <2>6. QED
    BY <2>1, <2>4, <2>5
<1>4. ASSUME NEW r \in Ready, NEW q \in Ready, r # q, NEW c \in Share(r), c \in Share(q)
      PROVE  FALSE
  <2>1. PICK p \in PositionsOf(ShareMasks(r)) : p.cpu = c
    BY <1>1, <1>3, CpusCounted
  <2>2. PICK o \in PositionsOf(ShareMasks(q)) : o.cpu = c
    BY <1>1, <1>3, <1>4, CpusCounted
  <2>3. p = o
    BY <1>1, <2>1, <2>2, CpuHasOnePlace DEF PositionsOf
  <2>4. q \in Ranks \ {r} /\ r \in Ranks
    BY <1>3, <1>4
  <2>5. PositionsOf(ShareMasks(r)) \cap PositionsOf(ShareMasks(q)) = {}
    BY <1>1, <1>2, <2>4, ShareOfRank
  <2>6. QED
    BY <2>3, <2>5
<1>5. ASSUME NEW r \in Ready PROVE Cardinality(Share(r)) = NumCpus \div n_procs
  <2>1. Cardinality(CpusOf(ShareMasks(r))) = Cardinality(PositionsOf(ShareMasks(r)))
    BY <1>1, <1>3, CpusCounted
  <2>2. Cardinality(PositionsOf(ShareMasks(r))) = NumCpus \div n_procs
    BY <1>1, <1>2, <1>3, ShareOfRank
  <2>3. QED
    BY <1>3, <2>1, <2>2
<1> QED
  BY <1>4, <1>5

LEMMA IInvImpliesRoundRobinBalances ==
    ASSUME Numbered, IInv
    PROVE  RoundRobinBalances
<1>1. machine \in Machines /\ n_procs \in Nat /\ TypeInv
  BY PartitionAssumption DEF IInv, TypeInv
<1>2. SUFFICES ASSUME NEW r \in Ready
               PROVE  /\ \A i \in DOMAIN bound[r] : bound[r][i] \in Share(r)
                      /\ \A c, d \in Share(r) : Load(r, c) <= Load(r, d) + 1
  BY DEF RoundRobinBalances
<1> DEFINE masks == cpu_bitmask[r]
<1>3. r \in Ranks /\ Good(r)
  BY DEF IInv, Ready
<1>4. Share(r) = CpusOf(masks)
  BY DEF Share, CpusOf, D
<1>5. \A n \in D : masks[n] \subseteq AllMasks[n]
  BY <1>1, <1>3, OpeningType DEF Good
<1>6. next[r] \in Places /\ bound[r] \in Seq(Nat) /\ Opening(r).at \in Places
  BY <1>1, <1>3, OpeningType DEF TypeInv
<1>7. Rounds(masks, Opening(r).at, next[r], bound[r])
  BY <1>3 DEF Good
<1> HIDE DEF masks
<1>8. ASSUME NEW c \in Share(r), NEW d \in Share(r)
      PROVE  Load(r, c) <= Load(r, d) + 1
  <2>1. PICK p \in PositionsOf(masks) : p.cpu = c
    BY <1>1, <1>4, <1>5, CpusCounted
  <2>2. PICK q \in PositionsOf(masks) : q.cpu = d
    BY <1>1, <1>4, <1>5, CpusCounted
  <2>3. Count(bound[r], p.cpu) <= Count(bound[r], q.cpu) + 1
    BY <1>1, <1>6, <1>7, RoundsBalance
  <2>4. QED
    BY <2>1, <2>2, <2>3, Zenon DEF Load, Count
<1>9. \A i \in DOMAIN bound[r] : bound[r][i] \in Share(r)
  BY <1>3, <1>4 DEF Good, masks
<1> QED
  BY <1>8, <1>9

LEMMA IInvImpliesFirstThreadsApart ==
    ASSUME Numbered, IInv
    PROVE  FirstThreadsApart
<1>1. machine \in Machines /\ n_procs \in Nat /\ TypeInv
  BY PartitionAssumption DEF IInv, TypeInv
<1>2. SUFFICES ASSUME n_procs <= NumCpus, NEW r \in Ready, NEW q \in Ready,
                      bound[r] # <<>>, bound[q] # <<>>, r # q, bound[r][1] = bound[q][1]
               PROVE  FALSE
  BY DEF FirstThreadsApart
<1>3. r \in Ranks /\ q \in Ranks /\ Good(r) /\ Good(q)
  BY DEF IInv, Ready
<1>4. Opening(r).at.cpu = Opening(q).at.cpu
  BY <1>2, <1>3 DEF Good
<1>5. n_procs > 1 /\ Ranks = 0..(n_procs - 2)
  BY <1>1, <1>2, <1>3 DEF Ranks
<1>6. CASE Partitioned
  <2>1. \A x \in {r, q} : bound[x][1] \in Share(x)
    <3>1. TAKE x \in {r, q}
    <3>2. 1 \in DOMAIN bound[x]
      <4>1. bound[x] \in Seq(Nat) /\ bound[x] # <<>>
        BY <1>1, <1>2, <1>3 DEF TypeInv
      <4>2. QED
        BY <4>1
    <3>3. QED
      BY <1>3, <3>2 DEF Good, CpusOf, Share, D
  <2>2. Share(r) \cap Share(q) = {}
    BY <1>2, <1>6, IInvImpliesSharesDisjoint DEF SharesDisjoint
  <2>3. QED
    BY <1>2, <2>1, <2>2
<1>7. CASE ~Partitioned
  <2>1. Opening(r) = SetNextCpu(r) /\ Opening(q) = SetNextCpu(q)
    BY <1>1, <1>5, <1>7 DEF Opening
  <2>2. NumCpus \in Nat
    BY <1>1, PositionsCount
  <2>3. r \in Nat /\ q \in Nat /\ r + 1 < NumCpus /\ q + 1 < NumCpus
    BY <1>1, <1>2, <1>3, <1>5, <2>2
  <2>4. /\ Opening(r).at \in Positions /\ Index(Opening(r).at) = r + 1
        /\ Opening(q).at \in Positions /\ Index(Opening(q).at) = q + 1
    BY <1>1, <2>1, <2>3, StepsFromStart
  <2>5. Opening(r).at = Opening(q).at
    BY <1>1, <1>4, <2>4, CpuHasOnePlace
  <2>6. QED
    BY <1>2, <2>3, <2>4, <2>5
<1> QED
  BY <1>6, <1>7

\* On Numbered machines the position of the round robin is always on a CPU of a
\* node or, when the node has none left, on none, and no process has a bit its
\* node has not.  Elsewhere the walk begins on a CPU its node does not have.
THEOREM TypeCorrect ==
    ASSUME Numbered
    PROVE  Spec => []TypeOK
<1>1. IInv => TypeOK
  BY IInvImpliesTypeOK
<1> QED
  BY <1>1, IInvAlways, PTL

\* partition_cpus_based_on_rank gives processes of different ranks different
\* CPUs, and each as many as its part, for every number of processes, nodes and
\* CPUs of a Numbered machine.  Without Numbered it is false (SharesDisjoint).
THEOREM SharesApart ==
    ASSUME Numbered
    PROVE  Spec => []SharesDisjoint
<1>1. IInv => SharesDisjoint
  BY IInvImpliesSharesDisjoint
<1> QED
  BY <1>1, IInvAlways, PTL

\* rr_next_cpu_id keeps the threads of a process on its share and evenly over it,
\* wherever the round began and however many threads are registered, on Numbered
\* machines.
THEOREM ThreadsBalanced ==
    ASSUME Numbered
    PROVE  Spec => []RoundRobinBalances
<1>1. IInv => RoundRobinBalances
  BY IInvImpliesRoundRobinBalances
<1> QED
  BY <1>1, IInvAlways, PTL

\* The first threads of processes that are no more than the CPUs are bound to
\* different CPUs, with and without shares, on Numbered machines.
THEOREM FirstThreadsBoundApart ==
    ASSUME Numbered
    PROVE  Spec => []FirstThreadsApart
<1>1. IInv => FirstThreadsApart
  BY IInvImpliesFirstThreadsApart
<1> QED
  BY <1>1, IInvAlways, PTL
=============================================================================
