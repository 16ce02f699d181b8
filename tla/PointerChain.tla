----------------------------- MODULE PointerChain -----------------------------
(***************************************************************************)
(* measure_lat.c measures the latency of memory with chains of pointers    *)
(* that are followed in an order no prefetcher foresees.  alloc_chain      *)
(* shuffles the numbers 1..N and links the elements in that order;         *)
(* __measure_latency follows the chains in step until the first one ends,  *)
(* and divides the time by N.                                              *)
(***************************************************************************)
EXTENDS Integers

CONSTANTS
    N,              \* nelems: the elements of a chain are 0..N
    NChains,        \* nchains
    UINT64_MAX      \* what an element holds before it is linked

ASSUME ChainAssumption ==
    /\ N \in Nat \ {0} /\ NChains \in Nat \ {0}
    /\ UINT64_MAX \in Nat /\ UINT64_MAX > N

VARIABLES
    pc, j, i, p,    \* where the program is, the chain and the indices
    B,              \* the order of each chain (freed before the chase)
    C,              \* the value of each element of each chain
    nextp,          \* the element of each chain that is read next
    seen            \* elements of each chain that were read (for the properties)

vars == <<pc, j, i, p, B, C, nextp, seen>>

Chains == 1..NChains
Indices == 0..(N - 1)
Elements == 0..N

\* Mutant: the numbers start with 0.
Filled_FromZero == [x \in Indices |-> x]

Filled == [x \in Indices |-> 1 + x]

Init ==
    /\ pc = "shuffle" /\ j = 1 /\ i = 0 /\ p = 0
    /\ B = [c \in Chains |-> Filled]
    /\ C = [c \in Chains |-> [x \in Elements |-> IF x = N THEN 0 ELSE UINT64_MAX]]
    /\ nextp = [c \in Chains |-> 0]
    /\ seen = [c \in Chains |-> {}]

-----------------------------------------------------------------------------
(* alloc_chain *)

\* Mutant: the value is not kept before it is overwritten.
Swapped_Lost(s, x, y) == [s EXCEPT ![x] = s[y]]

Swapped(s, x, y) == [s EXCEPT ![x] = s[y], ![y] = s[x]]

\* r is any number: prng(&seed) % N.
Shuffle ==
    /\ pc = "shuffle" /\ i < N
    /\ \E r \in Indices : B' = [B EXCEPT ![j] = Swapped(@, i, r)]
    /\ i' = i + 1
    /\ UNCHANGED <<pc, j, p, C, nextp, seen>>

Shuffled ==
    /\ pc = "shuffle" /\ i = N
    /\ pc' = "link" /\ i' = 0 /\ p' = 0
    /\ UNCHANGED <<j, B, C, nextp, seen>>

\* Mutant: the first element of the order is left out.
Link_SkipsFirst ==
    /\ pc = "link" /\ i < N
    /\ IF i = 0 /\ N > 1 THEN UNCHANGED <<C, p>>
       ELSE C' = [C EXCEPT ![j][p] = B[j][i]] /\ p' = B[j][i]
    /\ i' = i + 1
    /\ UNCHANGED <<pc, j, B, nextp, seen>>

Link ==
    /\ pc = "link" /\ i < N
    /\ C' = [C EXCEPT ![j][p] = B[j][i]]
    /\ p' = B[j][i] /\ i' = i + 1
    /\ UNCHANGED <<pc, j, B, nextp, seen>>

\* Mutant: the last element leads back to the first of the order.
Close_FirstOfOrder ==
    /\ pc = "link" /\ i = N
    /\ C' = [C EXCEPT ![j][p] = B[j][0]]
    /\ i' = 0
    /\ IF j = NChains THEN pc' = "chase" /\ j' = 1 ELSE pc' = "shuffle" /\ j' = j + 1
    /\ UNCHANGED <<p, B, nextp, seen>>

\* The last element leads back to the first; then the next chain is allocated.
Close ==
    /\ pc = "link" /\ i = N
    /\ C' = [C EXCEPT ![j][p] = 0]
    /\ i' = 0
    /\ IF j = NChains THEN pc' = "chase" /\ j' = 1 ELSE pc' = "shuffle" /\ j' = j + 1
    /\ UNCHANGED <<p, B, nextp, seen>>

-----------------------------------------------------------------------------
(* __measure_latency *)

\* One read of the chains in turn; the first one is tested before each round.
Chase ==
    /\ pc = "chase"
    /\ j = 1 => C[1][nextp[1]] # 0
    /\ nextp' = [nextp EXCEPT ![j] = C[j][@]]
    /\ seen' = [seen EXCEPT ![j] = @ \cup {nextp[j]}]
    /\ j' = IF j = NChains THEN 1 ELSE j + 1
    /\ UNCHANGED <<pc, i, p, B, C>>

Ended ==
    /\ pc = "chase" /\ j = 1 /\ C[1][nextp[1]] = 0
    /\ pc' = "done"
    /\ UNCHANGED <<j, i, p, B, C, nextp, seen>>

Next == Shuffle \/ Shuffled \/ Link \/ Close \/ Chase \/ Ended

Spec == Init /\ [][Next]_vars /\ WF_vars(Next)

-----------------------------------------------------------------------------
(* Properties *)

\* The values stay element numbers, so that no read leaves its chain.
TypeOK ==
    /\ pc \in {"shuffle", "link", "chase", "done"}
    /\ j \in Chains /\ i \in 0..N /\ p \in Elements
    /\ B \in [Chains -> [Indices -> 1..N]]
    /\ C \in [Chains -> [Elements -> Elements \cup {UINT64_MAX}]]
    /\ nextp \in [Chains -> Elements]
    /\ seen \in [Chains -> SUBSET Elements]

\* "set up C[] such that "chasing pointers" through it visits every element
\* exactly once" (measure_lat.c:142): no read comes back to an element, and when
\* the first chain ends, every chain has been followed through all elements but
\* its last, at which it stands.  (The code asserts as much of the first chain,
\* by the sum of the values: measure_lat.c:265.)
EveryElementOnce ==
    /\ pc = "chase" => \A c \in Chains : nextp[c] \notin seen[c]
    /\ pc = "done" => \A c \in Chains : seen[c] = Elements \ {nextp[c]}

\* The measurement ends: the links have no cycle that leaves out element 0.
Ends == <>(pc = "done")
=============================================================================
