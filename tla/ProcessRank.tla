----------------------------- MODULE ProcessRank -----------------------------
(***************************************************************************)
(* quartz/src/lib/process_rank.c: how the emulated processes of a host     *)
(* number themselves, through a lock file created with O_EXCL and a file   *)
(* that holds the next rank.  Each process then takes the share of the     *)
(* CPUs its rank selects.  init calls set_process_local_rank, finalize     *)
(* calls unset_process_local_rank.                                         *)
(***************************************************************************)
EXTENDS Naturals, FiniteSets

CONSTANTS
    Processes,
    MaxProcesses,   \* EMUL_LOCAL_PROCESSES
    MaxRetries,     \* MAX_LOCKED_RETRIES
    NoFile, Empty   \* the rank file is absent, or created and not yet written

\* Below 2 processes the two functions return at once.
ASSUME RankAssumption ==
    /\ IsFiniteSet(Processes)
    /\ MaxProcesses \in Nat /\ MaxProcesses >= 2
    /\ MaxRetries \in Nat \ {0}
    /\ NoFile \notin Nat /\ Empty \notin Nat /\ NoFile # Empty

VARIABLES
    pc,             \* where each process is
    tries,          \* expired
    count,          \* process_id: what a process has read, and will write
    rank,           \* latency_model.process_local_rank
    lock_file,      \* /tmp/emul_lock_file exists
    rank_file       \* what /tmp/emul_process_local_rank holds

vars == <<pc, tries, count, rank, lock_file, rank_file>>

Locking == {"set_lock", "unset_lock"}
Critical == {"set_rank", "set_create", "set_read", "set_write", "set_refused",
             "set_unlock", "unset_rank", "unset_read", "unset_write", "unset_unlock"}
Locations == {"idle", "running"} \cup Locking \cup Critical

Init ==
    /\ pc = [p \in Processes |-> "idle"]
    /\ tries = [p \in Processes |-> 0]
    /\ count = [p \in Processes |-> 0]
    /\ rank = [p \in Processes |-> 0]
    /\ lock_file = FALSE
    /\ rank_file = NoFile

GoTo(p, loc) == pc' = [pc EXCEPT ![p] = loc]
Count(p, n) == count' = [count EXCEPT ![p] = n]

-----------------------------------------------------------------------------
(* The lock *)

\* The library is loaded into a new process, or a process ends normally.
Begin(p) ==
    /\ \/ pc[p] = "idle" /\ GoTo(p, "set_lock") /\ rank' = [rank EXCEPT ![p] = 0]
       \/ pc[p] = "running" /\ GoTo(p, "unset_lock") /\ UNCHANGED rank
    /\ tries' = [tries EXCEPT ![p] = 0]
    /\ UNCHANGED <<count, lock_file, rank_file>>

AfterLock(loc) == IF loc = "set_lock" THEN "set_rank" ELSE "unset_rank"

\* Mutant: fopen without "x" opens the file of another process.
Acquire_Shared(p) ==
    /\ pc[p] \in Locking /\ tries[p] < MaxRetries
    /\ lock_file' = TRUE
    /\ GoTo(p, AfterLock(pc[p]))
    /\ UNCHANGED <<tries, count, rank, rank_file>>

Acquire(p) ==
    /\ pc[p] \in Locking /\ tries[p] < MaxRetries
    /\ ~lock_file
    /\ lock_file' = TRUE
    /\ GoTo(p, AfterLock(pc[p]))
    /\ UNCHANGED <<tries, count, rank, rank_file>>

\* Mutant: the attempts are not counted.
Retry_Forever(p) ==
    /\ pc[p] \in Locking /\ tries[p] < MaxRetries
    /\ lock_file
    /\ UNCHANGED vars

Retry(p) ==
    /\ pc[p] \in Locking /\ tries[p] < MaxRetries
    /\ lock_file
    /\ tries' = [tries EXCEPT ![p] = @ + 1]
    /\ UNCHANGED <<pc, count, rank, lock_file, rank_file>>

\* Logging an error ends the process: while it starts, before it has a rank;
\* while it ends, without giving its rank back.
GiveUp(p) ==
    /\ pc[p] \in Locking /\ tries[p] >= MaxRetries
    /\ GoTo(p, "idle")
    /\ UNCHANGED <<tries, count, rank, lock_file, rank_file>>

Release(p) ==
    /\ \/ pc[p] = "set_unlock" /\ GoTo(p, "running")
       \/ pc[p] = "unset_unlock" /\ GoTo(p, "idle")
    /\ lock_file' = FALSE
    /\ UNCHANGED <<tries, count, rank, rank_file>>

-----------------------------------------------------------------------------
(* The rank: access, fopen, fread and the write at fclose are steps of their *)
(* own; only the lock keeps others from coming in between.                   *)

\* access.
CheckRankFile(p) ==
    /\ \/ /\ pc[p] = "set_rank"
          /\ GoTo(p, IF rank_file = NoFile THEN "set_create" ELSE "set_read")
       \/ /\ pc[p] = "unset_rank"
          /\ GoTo(p, IF rank_file = NoFile THEN "unset_unlock" ELSE "unset_read")
    /\ UNCHANGED <<tries, count, rank, lock_file, rank_file>>

\* fopen with "w": the file is empty until fclose writes it.  This process
\* keeps rank 0.
CreateRankFile(p) ==
    /\ pc[p] = "set_create"
    /\ rank_file' = Empty
    /\ Count(p, 1)
    /\ GoTo(p, "set_write")
    /\ UNCHANGED <<tries, rank, lock_file>>

\* Mutant: the limit is not tested.
ReadRank_Unlimited(p) ==
    /\ pc[p] = "set_read" /\ rank_file \in Nat
    /\ rank' = [rank EXCEPT ![p] = rank_file]
    /\ Count(p, rank_file + 1)
    /\ GoTo(p, "set_write")
    /\ UNCHANGED <<tries, lock_file, rank_file>>

\* The process takes the number it reads; the limit is tested against the next.
ReadRank(p) ==
    /\ pc[p] = "set_read" /\ rank_file \in Nat
    /\ rank' = [rank EXCEPT ![p] = rank_file]
    /\ Count(p, rank_file + 1)
    /\ GoTo(p, IF rank_file + 1 >= MaxProcesses THEN "set_refused" ELSE "set_write")
    /\ UNCHANGED <<tries, lock_file, rank_file>>

\* "process rank exceeded limit": the error ends the process inside the
\* critical section, so the lock file stays.
Refuse(p) ==
    /\ pc[p] = "set_refused"
    /\ Count(p, 0)
    /\ GoTo(p, "idle")
    /\ UNCHANGED <<tries, rank, lock_file, rank_file>>

\* An empty file makes the process abort, with the lock file in place.
Abort(p) ==
    /\ pc[p] \in {"set_read", "unset_read"} /\ rank_file = Empty
    /\ GoTo(p, "idle")
    /\ UNCHANGED <<tries, count, rank, lock_file, rank_file>>

\* Mutant: without rewind the number is written behind the old one.
ReadCount_NoRewind(p) ==
    /\ pc[p] = "unset_read" /\ rank_file \in Nat
    /\ Count(p, rank_file)
    /\ GoTo(p, "unset_write")
    /\ UNCHANGED <<tries, rank, lock_file, rank_file>>

\* A process that ends takes the last number off, whatever its own is.
ReadCount(p) ==
    /\ pc[p] = "unset_read" /\ rank_file \in Nat
    /\ Count(p, IF rank_file > 0 THEN rank_file - 1 ELSE 0)
    /\ GoTo(p, "unset_write")
    /\ UNCHANGED <<tries, rank, lock_file, rank_file>>

\* fclose: what was counted goes into the file, whatever is in it by then.
WriteRankFile(p) ==
    /\ \/ pc[p] = "set_write" /\ GoTo(p, "set_unlock")
       \/ pc[p] = "unset_write" /\ GoTo(p, "unset_unlock")
    /\ rank_file' = count[p]
    /\ Count(p, 0)
    /\ UNCHANGED <<tries, rank, lock_file>>

-----------------------------------------------------------------------------
(* The environment *)

\* A process dies anywhere without running finalize; its files stay.
Crash(p) ==
    /\ pc[p] # "idle"
    /\ Count(p, 0)
    /\ GoTo(p, "idle")
    /\ UNCHANGED <<tries, rank, lock_file, rank_file>>

\* "close all emulated processes and delete files" (README.md:335): one file
\* after the other, and nothing keeps a process from starting in between.
CleanUp ==
    /\ \A p \in Processes : pc[p] = "idle"
    /\ \/ lock_file' = FALSE /\ UNCHANGED rank_file
       \/ rank_file' = NoFile /\ UNCHANGED lock_file
    /\ UNCHANGED <<pc, tries, count, rank>>

\* What a process goes on doing once it has begun.
Proceed(p) ==
    \/ Acquire(p) \/ Retry(p) \/ GiveUp(p) \/ Release(p)
    \/ CheckRankFile(p) \/ CreateRankFile(p) \/ ReadRank(p) \/ Refuse(p)
    \/ Abort(p) \/ ReadCount(p) \/ WriteRankFile(p)

Next ==
    \/ \E p \in Processes : Begin(p) \/ Proceed(p) \/ Crash(p)
    \/ CleanUp

Spec == Init /\ [][Next]_vars /\ \A p \in Processes : WF_vars(Proceed(p))

-----------------------------------------------------------------------------
(* Properties *)

\* Processes that are in the count: from the write that adds them to the one
\* that takes them off.
Ranked == {p \in Processes :
             pc[p] \in {"set_unlock", "running", "unset_lock", "unset_rank",
                        "unset_read", "unset_write"}}

\* Every rank leaves its process a share of the CPUs (topology.c:50), and the
\* file holds a rank that can be given next, or that of the first one refused.
TypeOK ==
    /\ pc \in [Processes -> Locations]
    /\ tries \in [Processes -> 0..MaxRetries]
    /\ count \in [Processes -> 0..MaxProcesses]
    /\ rank \in [Processes -> 0..(MaxProcesses - 1)]
    /\ lock_file \in BOOLEAN
    /\ rank_file \in 0..(MaxProcesses - 1) \cup {NoFile, Empty}

\* Two processes are never between fopen and remove of the lock file, whatever
\* crashes, is refused or gives up in between.
MutualExclusion ==
    /\ \A p \in Processes : pc[p] \in Critical => lock_file
    /\ \A p, q \in Processes : pc[p] \in Critical /\ pc[q] \in Critical => p = q

\* The rank file never counts fewer processes than there are, and never is
\* empty or gone beside one: of two processes that read the same number, or
\* both create the file, the second would undo what the first one wrote.  Only
\* crashes and timeouts make it count more.
CountsEveryProcess ==
    Ranked # {} => rank_file \in Nat /\ rank_file >= Cardinality(Ranked)

\* The ranks in use are the first ones, each used once.
Compact ==
    /\ rank_file \in Nat \cup {NoFile}
    /\ \A p, q \in Ranked : rank[p] = rank[q] => p = q
    /\ {rank[p] : p \in Ranked} =
         {n \in 0..(MaxProcesses - 1) : rank_file # NoFile /\ n < rank_file}

\* The ranks stay compact as long as processes leave in the opposite order of
\* their coming and none is lost.
LeavesOutOfOrder == \E p \in Ranked : p \notin Ranked' /\ rank[p] + 1 # rank_file
Lost == \E p \in Ranked : p \notin Ranked' /\ pc'[p] = "idle"

CompactWhileInOrder ==
    [][Compact /\ ~LeavesOutOfOrder /\ ~Lost => Compact' \/ rank_file' = Empty]_vars

\* A process that starts either runs or ends: nobody waits for the lock for ever,
\* even when its owner is gone.
StartEnds ==
    \A p \in Processes : pc[p] = "set_lock" ~> pc[p] \in {"running", "idle"}

Number == IF rank_file \in Nat THEN rank_file ELSE 0

Service == INSTANCE RankService WITH
    members <- Ranked,
    rank <- [p \in Processes |-> IF p \in Ranked THEN rank[p] ELSE 0],
    number <- Number

\* Reading, testing and writing the rank file amount to one step: the number a
\* process has read is still the one in the file when it writes the next or the
\* last one, whoever starts, ends, crashes, times out or deletes the files
\* between its reading and its writing.
ImplementsRankService == Service!Spec
=============================================================================
