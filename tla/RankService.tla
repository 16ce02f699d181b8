------------------------------ MODULE RankService ------------------------------
(***************************************************************************)
(* What quartz/src/lib/process_rank.c promises to the rest of the library: *)
(* processes take a rank and give it back, each in one step, and are never *)
(* more than were counted.  A process that is lost stays counted until the *)
(* files are deleted.                                                      *)
(***************************************************************************)
EXTENDS Naturals

CONSTANTS Processes, MaxProcesses

VARIABLES
    members,        \* the processes that hold a rank
    rank,           \* of each member, 0 for the others
    number          \* the rank that is given next

vars == <<members, rank, number>>

Init ==
    /\ members = {}
    /\ rank = [p \in Processes |-> 0]
    /\ number = 0

Join(p) ==
    /\ p \notin members /\ number < MaxProcesses
    /\ members' = members \cup {p}
    /\ rank' = [rank EXCEPT ![p] = number]
    /\ number' = number + 1

Part(p) ==
    /\ p \in members
    /\ members' = members \ {p}
    /\ rank' = [rank EXCEPT ![p] = 0]

Leave(p) == Part(p) /\ number > 0 /\ number' = number - 1

Lose(p) == Part(p) /\ UNCHANGED number

Reset == members = {} /\ number' = 0 /\ UNCHANGED <<members, rank>>

Next ==
    \/ \E p \in Processes : Join(p) \/ Leave(p) \/ Lose(p)
    \/ Reset

Spec == Init /\ [][Next]_vars
=============================================================================
