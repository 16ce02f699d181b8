--------------------------- MODULE MCMemoryThrottle ---------------------------
(* Two processes, two nodes with a controller of two channels each. *)
EXTENDS MemoryThrottle, TLC
CONSTANTS p1, p2, n1, n2, b1, b2
MCSymmetry == Permutations({p1, p2})
MCNodeList == <<n1, n2>>
\* lspci need not list the controllers in the order of the nodes.
MCBusList == <<b2, b1>>
MCBusOf == [n \in {n1, n2} |-> IF n = n1 THEN b1 ELSE b2]
\* Rising by less than one for each step of the register from the second on.
MCBandwidth == [v \in 0..9 |->
                  CASE v <= 1 -> 2 [] v \in 2..3 -> 4 [] v \in 4..5 -> 5 [] v >= 6 -> 6]
=============================================================================
