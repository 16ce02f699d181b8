-------------------------- MODULE ProcessRankProofs --------------------------
(* The safety of the process ranks, for any number of processes. *)
EXTENDS ProcessRank, FiniteSetTheorems, TLAPS

(* What a process has read stays true until it writes: it is alone with the *)
(* file.  A process that starts has rank 0 until it reads another.          *)
ReadsAreCurrent ==
    \A p \in Processes :
      /\ pc[p] = "set_create" => rank_file = NoFile
      /\ pc[p] = "set_write" =>
           /\ rank_file # NoFile
           /\ rank[p] = Number
           /\ count[p] = Number + 1 /\ count[p] < MaxProcesses
      /\ pc[p] = "unset_write" =>
           /\ rank_file \in Nat
           /\ count[p] = IF rank_file > 0 THEN rank_file - 1 ELSE 0

StartsAt0 ==
    \A p \in Processes :
      pc[p] \in {"set_lock", "set_rank", "set_create", "set_read"} => rank[p] = 0

(* Inductive together: the lock keeps what was read current, and only a      *)
(* current number keeps the count.                                           *)
IInv == TypeOK /\ MutualExclusion /\ CountsEveryProcess /\ ReadsAreCurrent /\ StartsAt0

LEMMA InitIInv == Init => IInv
<1> SUFFICES ASSUME Init PROVE IInv
  OBVIOUS
<1> USE RankAssumption
<1>1. TypeOK
  <2>1. /\ 0 \in 0..MaxRetries /\ 0 \in 0..MaxProcesses
        /\ 0 \in 0..(MaxProcesses - 1)
    OBVIOUS
  <2> QED
    BY <2>1 DEF Init, TypeOK, Locations
<1>2. MutualExclusion
  BY DEF Init, MutualExclusion, Critical
<1>3. CountsEveryProcess
  BY DEF Init, CountsEveryProcess, Ranked
<1>4. ReadsAreCurrent /\ StartsAt0
  BY DEF Init, ReadsAreCurrent, StartsAt0
<1> QED
  BY <1>1, <1>2, <1>3, <1>4 DEF IInv

(* The sets the counting is about are finite. *)
LEMMA RankedFinite ==
    ASSUME NEW S, S \subseteq Processes
    PROVE  IsFiniteSet(S) /\ Cardinality(S) \in Nat
BY FS_Subset, FS_CardinalityType, RankAssumption

(* A process that leaves makes the count smaller, one that comes adds one. *)
LEMMA FewerRanked ==
    ASSUME NEW S, NEW T, T \subseteq Processes, S \subseteq T
    PROVE  Cardinality(S) <= Cardinality(T)
BY FS_Subset, RankedFinite

LEMMA OneMoreRanked ==
    ASSUME NEW S, S \subseteq Processes, NEW p \in Processes
    PROVE  Cardinality(S \cup {p}) <= Cardinality(S) + 1
BY FS_AddElement, RankedFinite

LEMMA OneLessRanked ==
    ASSUME NEW S, S \subseteq Processes, NEW p \in S
    PROVE  Cardinality(S \ {p}) = Cardinality(S) - 1
BY FS_RemoveElement, RankedFinite

(* What was counted before is in range when it is written.                   *)
LEMMA TypeStep == IInv /\ [Next]_vars => TypeOK'
<1> SUFFICES ASSUME IInv, [Next]_vars PROVE TypeOK'
  OBVIOUS
<1> USE RankAssumption DEF IInv, TypeOK, ReadsAreCurrent, Locations, Critical, Locking
<1>1. ASSUME NEW p \in Processes, Begin(p) PROVE TypeOK'
  BY <1>1 DEF Begin, Count, GoTo
<1>2. ASSUME NEW p \in Processes, Acquire(p) PROVE TypeOK'
  BY <1>2 DEF Acquire, Count, GoTo, AfterLock
<1>3. ASSUME NEW p \in Processes, Retry(p) PROVE TypeOK'
  BY <1>3 DEF Retry, Count, GoTo
<1>4. ASSUME NEW p \in Processes, GiveUp(p) PROVE TypeOK'
  BY <1>4 DEF GiveUp, Count, GoTo
<1>5. ASSUME NEW p \in Processes, Release(p) PROVE TypeOK'
  BY <1>5 DEF Release, Count, GoTo
<1>6. ASSUME NEW p \in Processes, CheckRankFile(p) PROVE TypeOK'
  BY <1>6 DEF CheckRankFile, Count, GoTo
<1>7. ASSUME NEW p \in Processes, CreateRankFile(p) PROVE TypeOK'
  BY <1>7 DEF CreateRankFile, Count, GoTo
<1>8. ASSUME NEW p \in Processes, ReadRank(p) PROVE TypeOK'
  BY <1>8 DEF ReadRank, Count, GoTo
<1>9. ASSUME NEW p \in Processes, Refuse(p) PROVE TypeOK'
  BY <1>9 DEF Refuse, Count, GoTo
<1>10. ASSUME NEW p \in Processes, Abort(p) PROVE TypeOK'
  BY <1>10 DEF Abort, Count, GoTo
<1>11. ASSUME NEW p \in Processes, ReadCount(p) PROVE TypeOK'
  BY <1>11 DEF ReadCount, Count, GoTo
<1>12. ASSUME NEW p \in Processes, WriteRankFile(p) PROVE TypeOK'
  BY <1>12 DEF WriteRankFile, Count, GoTo
<1>13. ASSUME NEW p \in Processes, Crash(p) PROVE TypeOK'
  BY <1>13 DEF Crash, Count, GoTo
<1>14. CASE CleanUp
  BY <1>14 DEF CleanUp
<1>15. CASE UNCHANGED vars
  BY <1>15 DEF vars
<1> QED
  BY <1>1, <1>2, <1>3, <1>4, <1>5, <1>6, <1>7, <1>8, <1>9,
     <1>10, <1>11, <1>12, <1>13, <1>14, <1>15
     DEF Next, Proceed

(* The lock file is created only when it is absent and removed only by the *)
(* process in the critical section.                                         *)
LEMMA ExclusionStep == IInv /\ [Next]_vars => MutualExclusion'
<1> SUFFICES ASSUME IInv, [Next]_vars PROVE MutualExclusion'
  OBVIOUS
<1> USE DEF IInv, TypeOK, MutualExclusion, Critical, Locking
<1>1. ASSUME NEW p \in Processes, Begin(p) PROVE MutualExclusion'
  BY <1>1 DEF Begin, Count, GoTo
<1>2. ASSUME NEW p \in Processes, Acquire(p) PROVE MutualExclusion'
  BY <1>2 DEF Acquire, Count, GoTo, AfterLock
<1>3. ASSUME NEW p \in Processes, Retry(p) PROVE MutualExclusion'
  BY <1>3 DEF Retry, Count, GoTo
<1>4. ASSUME NEW p \in Processes, GiveUp(p) PROVE MutualExclusion'
  BY <1>4 DEF GiveUp, Count, GoTo
<1>5. ASSUME NEW p \in Processes, Release(p) PROVE MutualExclusion'
  BY <1>5 DEF Release, Count, GoTo
<1>6. ASSUME NEW p \in Processes, CheckRankFile(p) PROVE MutualExclusion'
  BY <1>6 DEF CheckRankFile, Count, GoTo
<1>7. ASSUME NEW p \in Processes, CreateRankFile(p) PROVE MutualExclusion'
  BY <1>7 DEF CreateRankFile, Count, GoTo
<1>8. ASSUME NEW p \in Processes, ReadRank(p) PROVE MutualExclusion'
  BY <1>8 DEF ReadRank, Count, GoTo
<1>9. ASSUME NEW p \in Processes, Refuse(p) PROVE MutualExclusion'
  BY <1>9 DEF Refuse, Count, GoTo
<1>10. ASSUME NEW p \in Processes, Abort(p) PROVE MutualExclusion'
  BY <1>10 DEF Abort, Count, GoTo
<1>11. ASSUME NEW p \in Processes, ReadCount(p) PROVE MutualExclusion'
  BY <1>11 DEF ReadCount, Count, GoTo
<1>12. ASSUME NEW p \in Processes, WriteRankFile(p) PROVE MutualExclusion'
  BY <1>12 DEF WriteRankFile, Count, GoTo
<1>13. ASSUME NEW p \in Processes, Crash(p) PROVE MutualExclusion'
  BY <1>13 DEF Crash, Count, GoTo
<1>14. CASE CleanUp
  BY <1>14 DEF CleanUp
<1>15. CASE UNCHANGED vars
  BY <1>15 DEF vars
<1> QED
  BY <1>1, <1>2, <1>3, <1>4, <1>5, <1>6, <1>7, <1>8, <1>9,
     <1>10, <1>11, <1>12, <1>13, <1>14, <1>15
     DEF Next, Proceed

(* A process that has read the file is the only one that can write it.       *)
LEMMA ReadsStep == IInv /\ [Next]_vars => ReadsAreCurrent'
<1> SUFFICES ASSUME IInv, [Next]_vars PROVE ReadsAreCurrent'
  OBVIOUS
<1> USE RankAssumption
      DEF IInv, TypeOK, MutualExclusion, ReadsAreCurrent, StartsAt0, Number, Critical,
          Locking
<1>1. ASSUME NEW p \in Processes, Begin(p) PROVE ReadsAreCurrent'
  BY <1>1 DEF Begin, Count, GoTo
<1>2. ASSUME NEW p \in Processes, Acquire(p) PROVE ReadsAreCurrent'
  BY <1>2 DEF Acquire, Count, GoTo, AfterLock
<1>3. ASSUME NEW p \in Processes, Retry(p) PROVE ReadsAreCurrent'
  BY <1>3 DEF Retry, Count, GoTo
<1>4. ASSUME NEW p \in Processes, GiveUp(p) PROVE ReadsAreCurrent'
  BY <1>4 DEF GiveUp, Count, GoTo
<1>5. ASSUME NEW p \in Processes, Release(p) PROVE ReadsAreCurrent'
  BY <1>5 DEF Release, Count, GoTo
<1>6. ASSUME NEW p \in Processes, CheckRankFile(p) PROVE ReadsAreCurrent'
  BY <1>6 DEF CheckRankFile, Count, GoTo
<1>7. ASSUME NEW p \in Processes, CreateRankFile(p) PROVE ReadsAreCurrent'
  BY <1>7 DEF CreateRankFile, Count, GoTo
<1>8. ASSUME NEW p \in Processes, ReadRank(p) PROVE ReadsAreCurrent'
  BY <1>8 DEF ReadRank, Count, GoTo
<1>9. ASSUME NEW p \in Processes, Refuse(p) PROVE ReadsAreCurrent'
  BY <1>9 DEF Refuse, Count, GoTo
<1>10. ASSUME NEW p \in Processes, Abort(p) PROVE ReadsAreCurrent'
  BY <1>10 DEF Abort, Count, GoTo
<1>11. ASSUME NEW p \in Processes, ReadCount(p) PROVE ReadsAreCurrent'
  BY <1>11 DEF ReadCount, Count, GoTo
<1>12. ASSUME NEW p \in Processes, WriteRankFile(p) PROVE ReadsAreCurrent'
  BY <1>12 DEF WriteRankFile, Count, GoTo
<1>13. ASSUME NEW p \in Processes, Crash(p) PROVE ReadsAreCurrent'
  BY <1>13 DEF Crash, Count, GoTo
<1>14. CASE CleanUp
  BY <1>14 DEF CleanUp
<1>15. CASE UNCHANGED vars
  BY <1>15 DEF vars
<1> QED
  BY <1>1, <1>2, <1>3, <1>4, <1>5, <1>6, <1>7, <1>8, <1>9,
     <1>10, <1>11, <1>12, <1>13, <1>14, <1>15
     DEF Next, Proceed

LEMMA StartsStep == IInv /\ [Next]_vars => StartsAt0'
<1> SUFFICES ASSUME IInv, [Next]_vars PROVE StartsAt0'
  OBVIOUS
<1> USE RankAssumption DEF IInv, TypeOK, StartsAt0, Locking
<1>1. ASSUME NEW p \in Processes, Begin(p) PROVE StartsAt0'
  BY <1>1 DEF Begin, Count, GoTo
<1>2. ASSUME NEW p \in Processes, Acquire(p) PROVE StartsAt0'
  BY <1>2 DEF Acquire, Count, GoTo, AfterLock
<1>3. ASSUME NEW p \in Processes, Retry(p) PROVE StartsAt0'
  BY <1>3 DEF Retry, Count, GoTo
<1>4. ASSUME NEW p \in Processes, GiveUp(p) PROVE StartsAt0'
  BY <1>4 DEF GiveUp, Count, GoTo
<1>5. ASSUME NEW p \in Processes, Release(p) PROVE StartsAt0'
  BY <1>5 DEF Release, Count, GoTo
<1>6. ASSUME NEW p \in Processes, CheckRankFile(p) PROVE StartsAt0'
  BY <1>6 DEF CheckRankFile, Count, GoTo
<1>7. ASSUME NEW p \in Processes, CreateRankFile(p) PROVE StartsAt0'
  BY <1>7 DEF CreateRankFile, Count, GoTo
<1>8. ASSUME NEW p \in Processes, ReadRank(p) PROVE StartsAt0'
  BY <1>8 DEF ReadRank, Count, GoTo
<1>9. ASSUME NEW p \in Processes, Refuse(p) PROVE StartsAt0'
  BY <1>9 DEF Refuse, Count, GoTo
<1>10. ASSUME NEW p \in Processes, Abort(p) PROVE StartsAt0'
  BY <1>10 DEF Abort, Count, GoTo
<1>11. ASSUME NEW p \in Processes, ReadCount(p) PROVE StartsAt0'
  BY <1>11 DEF ReadCount, Count, GoTo
<1>12. ASSUME NEW p \in Processes, WriteRankFile(p) PROVE StartsAt0'
  BY <1>12 DEF WriteRankFile, Count, GoTo
<1>13. ASSUME NEW p \in Processes, Crash(p) PROVE StartsAt0'
  BY <1>13 DEF Crash, Count, GoTo
<1>14. CASE CleanUp
  BY <1>14 DEF CleanUp
<1>15. CASE UNCHANGED vars
  BY <1>15 DEF vars
<1> QED
  BY <1>1, <1>2, <1>3, <1>4, <1>5, <1>6, <1>7, <1>8, <1>9,
     <1>10, <1>11, <1>12, <1>13, <1>14, <1>15
     DEF Next, Proceed

(* A step that neither adds a ranked process nor touches the rank file.     *)
LEMMA CountKept ==
    ASSUME CountsEveryProcess, rank_file' = rank_file, Ranked' \subseteq Ranked
    PROVE  CountsEveryProcess'
<1>1. Ranked \subseteq Processes
  BY DEF Ranked
<1>2. Cardinality(Ranked') <= Cardinality(Ranked)
  BY <1>1, FewerRanked
<1>3. Cardinality(Ranked') \in Nat /\ Cardinality(Ranked) \in Nat
  BY <1>1, RankedFinite
<1> QED
  BY <1>2, <1>3 DEF CountsEveryProcess

(* What a step does to the count.  The write of a process that starts adds  *)
(* it under the number in the file, ...                                      *)
LEMMA JoinStep ==
    ASSUME IInv, NEW p \in Processes, pc[p] = "set_write", WriteRankFile(p)
    PROVE  /\ p \notin Ranked /\ Ranked' = Ranked \cup {p}
           /\ rank' = rank /\ rank[p] = Number
           /\ Number \in Nat /\ Number + 1 < MaxProcesses
           /\ rank_file' = Number + 1 /\ Number' = Number + 1
           /\ rank_file \in Nat \cup {Empty}
<1> USE RankAssumption DEF IInv, TypeOK
<1>1. Number \in Nat
  BY DEF Number
<1>2. rank_file' = Number + 1 /\ rank[p] = Number /\ Number + 1 < MaxProcesses
  BY DEF WriteRankFile, ReadsAreCurrent
<1>3. Number' = Number + 1
  BY <1>1, <1>2 DEF Number
<1>4. p \notin Ranked /\ Ranked' = Ranked \cup {p} /\ rank' = rank
  BY DEF WriteRankFile, Ranked, GoTo
<1>5. rank_file \in Nat \cup {Empty}
  BY DEF ReadsAreCurrent
<1> QED
  BY <1>1, <1>2, <1>3, <1>4, <1>5

(* ... that of a process that ends takes one off, ...                        *)
LEMMA LeaveStep ==
    ASSUME IInv, NEW p \in Processes, pc[p] = "unset_write", WriteRankFile(p)
    PROVE  /\ p \in Ranked /\ Ranked' = Ranked \ {p}
           /\ rank' = rank
           /\ rank_file \in Nat /\ rank_file > 0 /\ rank_file' = rank_file - 1
<1> USE DEF IInv, TypeOK
<1>1. p \in Ranked /\ Ranked' = Ranked \ {p} /\ rank' = rank
  BY DEF WriteRankFile, Ranked, GoTo
<1>2. Cardinality(Ranked) \in Nat /\ Cardinality(Ranked \ {p}) \in Nat
  BY RankedFinite DEF Ranked
<1>3. Cardinality(Ranked \ {p}) = Cardinality(Ranked) - 1
  BY <1>1, OneLessRanked DEF Ranked
<1>4. rank_file \in Nat /\ rank_file > 0
  BY <1>1, <1>2, <1>3 DEF CountsEveryProcess
<1>5. rank_file' = rank_file - 1
  BY <1>4 DEF WriteRankFile, ReadsAreCurrent
<1> QED
  BY <1>1, <1>4, <1>5

(* ... the file is created only while nobody is counted, ...                 *)
LEMMA CreateStep ==
    ASSUME IInv, NEW p \in Processes, CreateRankFile(p)
    PROVE  /\ Ranked = {} /\ Ranked' = {}
           /\ rank' = rank /\ rank_file = NoFile /\ rank_file' = Empty
<1>1. rank_file = NoFile /\ rank_file' = Empty /\ rank' = rank
  BY DEF CreateRankFile, IInv, ReadsAreCurrent
<1>2. Ranked = {}
  BY <1>1, RankAssumption DEF IInv, CountsEveryProcess
<1>3. Ranked' = {}
  BY <1>2 DEF CreateRankFile, Ranked, GoTo, IInv, TypeOK
<1> QED
  BY <1>1, <1>2, <1>3

(* ... a process that dies or times out is lost to the count, ...            *)
LEMMA LoseStep ==
    ASSUME IInv, NEW p \in Processes, GiveUp(p) \/ Crash(p)
    PROVE  /\ Ranked' = Ranked \ {p} /\ pc'[p] = "idle"
           /\ rank' = rank /\ rank_file' = rank_file
BY DEF GiveUp, Crash, GoTo, Ranked, IInv, TypeOK

(* ... and every other step of a process leaves it alone: none that ends     *)
(* finds the file empty or gone.                                             *)
LEMMA OtherStep ==
    ASSUME IInv, NEW p \in Processes,
           \/ Begin(p) \/ Acquire(p) \/ Retry(p) \/ Release(p) \/ CheckRankFile(p)
           \/ ReadRank(p) \/ Refuse(p) \/ Abort(p) \/ ReadCount(p)
    PROVE  /\ Ranked' = Ranked /\ \A q \in Ranked : rank'[q] = rank[q]
           /\ rank_file' = rank_file
<1> USE DEF IInv, TypeOK, GoTo, Ranked
<1>1. CASE Begin(p) \/ Acquire(p) \/ Retry(p) \/ Release(p)
  BY <1>1 DEF Begin, Acquire, Retry, Release, AfterLock, Locking
<1>2. CASE CheckRankFile(p) \/ Abort(p)
  <2>1. pc[p] \in {"unset_rank", "unset_read"} => rank_file \in Nat
    BY DEF CountsEveryProcess
  <2> QED
    BY <1>2, <2>1, RankAssumption DEF CheckRankFile, Abort
<1>3. CASE ReadRank(p) \/ Refuse(p) \/ ReadCount(p)
  BY <1>3 DEF ReadRank, Refuse, ReadCount
<1> QED
  BY <1>1, <1>2, <1>3

LEMMA CountStep == IInv /\ [Next]_vars => CountsEveryProcess'
<1> SUFFICES ASSUME IInv, [Next]_vars PROVE CountsEveryProcess'
  OBVIOUS
<1>0. CountsEveryProcess /\ Ranked \subseteq Processes /\ Ranked' \subseteq Processes
  BY DEF Ranked, IInv
<1>1. /\ Cardinality(Ranked) \in Nat /\ Cardinality(Ranked') \in Nat
      /\ \A p \in Processes : Cardinality(Ranked \cup {p}) \in Nat
  BY <1>0, RankedFinite
<1>2. ASSUME NEW p \in Processes, pc[p] = "set_write", WriteRankFile(p)
      PROVE  CountsEveryProcess'
  <2>1. /\ Ranked' = Ranked \cup {p} /\ rank_file' = Number + 1 /\ Number \in Nat
        /\ rank_file \in Nat \cup {Empty}
    BY <1>2, JoinStep
  <2>2. Cardinality(Ranked) <= Number
    <3>1. CASE rank_file \in Nat
      BY <1>0, <3>1, FS_EmptySet DEF CountsEveryProcess, Number
    <3>2. CASE rank_file = Empty
      <4>1. Ranked = {}
        BY <1>0, <3>2, RankAssumption DEF CountsEveryProcess
      <4> QED
        BY <2>1, <4>1, FS_EmptySet
    <3> QED
      BY <2>1, <3>1, <3>2
  <2>3. Cardinality(Ranked \cup {p}) <= Cardinality(Ranked) + 1
    BY OneMoreRanked, <1>0
  <2> QED
    BY <1>1, <2>1, <2>2, <2>3 DEF CountsEveryProcess
<1>3. ASSUME NEW p \in Processes, pc[p] = "unset_write", WriteRankFile(p)
      PROVE  CountsEveryProcess'
  <2>1. /\ p \in Ranked /\ Ranked' = Ranked \ {p}
        /\ rank_file \in Nat /\ rank_file > 0 /\ rank_file' = rank_file - 1
    BY <1>3, LeaveStep
  <2>2. Cardinality(Ranked') = Cardinality(Ranked) - 1
    BY <2>1, OneLessRanked, <1>0
  <2> QED
    BY <1>0, <1>1, <2>1, <2>2 DEF CountsEveryProcess
<1>4. ASSUME NEW p \in Processes, CreateRankFile(p) PROVE CountsEveryProcess'
  BY <1>4, CreateStep DEF CountsEveryProcess
<1>5. ASSUME NEW p \in Processes, GiveUp(p) \/ Crash(p) PROVE CountsEveryProcess'
  BY <1>0, <1>5, LoseStep, CountKept
<1>6. ASSUME NEW p \in Processes,
             \/ Begin(p) \/ Acquire(p) \/ Retry(p) \/ Release(p) \/ CheckRankFile(p)
             \/ ReadRank(p) \/ Refuse(p) \/ Abort(p) \/ ReadCount(p)
      PROVE  CountsEveryProcess'
  BY <1>0, <1>6, OtherStep, CountKept
<1>7. CASE CleanUp
  <2>1. Ranked' = {}
    BY <1>7 DEF CleanUp, Ranked
  <2> QED
    BY <2>1 DEF CountsEveryProcess
<1>8. CASE UNCHANGED vars
  BY <1>0, <1>8, CountKept DEF vars, Ranked
<1>9. \A p \in Processes : WriteRankFile(p) => pc[p] \in {"set_write", "unset_write"}
  BY DEF WriteRankFile
<1> QED
  BY <1>2, <1>3, <1>4, <1>5, <1>6, <1>7, <1>8, <1>9 DEF Next, Proceed

LEMMA Inductive == Spec => []IInv
<1>1. IInv /\ [Next]_vars => IInv'
  BY TypeStep, ExclusionStep, CountStep, ReadsStep, StartsStep DEF IInv
<1> QED
  BY InitIInv, <1>1, PTL DEF Spec

(* The lock file excludes, for any number of processes and with crashes,   *)
(* refusals and timeouts anywhere (process_rank.c:68 and 117).              *)
THEOREM LockExcludes == Spec => []MutualExclusion
<1>1. IInv => MutualExclusion
  BY DEF IInv
<1> QED
  BY Inductive, <1>1, PTL

(* The rank file never counts fewer processes than hold a rank, so never   *)
(* more than EMUL_LOCAL_PROCESSES - 1 processes hold one.                   *)
THEOREM RanksCounted == Spec => []CountsEveryProcess
<1>1. IInv => CountsEveryProcess
  BY DEF IInv
<1> QED
  BY Inductive, <1>1, PTL

(* Every rank is one a share of the CPUs exists for (topology.c:50).        *)
THEOREM TypeCorrect == Spec => []TypeOK
<1>1. IInv => TypeOK
  BY DEF IInv
<1> QED
  BY Inductive, <1>1, PTL

Shown == [p \in Processes |-> IF p \in Ranked THEN rank[p] ELSE 0]

(* Every step of a process is one of the service or leaves it alone.        *)
LEMMA StepRefines ==
    IInv /\ [Next]_vars => [Service!Next]_<<Ranked, Shown, Number>>
<1> SUFFICES ASSUME IInv, [Next]_vars
             PROVE  Service!Next \/ UNCHANGED <<Ranked, Shown, Number>>
  OBVIOUS
<1>0. Ranked \subseteq Processes /\ rank \in [Processes -> Nat]
  BY RankAssumption DEF Ranked, IInv, TypeOK
<1>1. ASSUME NEW p \in Processes, pc[p] = "set_write", WriteRankFile(p)
      PROVE  Service!Join(p)
  <2>1. /\ p \notin Ranked /\ Ranked' = Ranked \cup {p}
        /\ rank' = rank /\ rank[p] = Number
        /\ Number \in Nat /\ Number + 1 < MaxProcesses /\ Number' = Number + 1
    BY <1>1, JoinStep
  <2>2. Shown' = [Shown EXCEPT ![p] = Number]
    BY <2>1 DEF Shown
  <2>3. Number < MaxProcesses
    BY <2>1, RankAssumption
  <2> QED
    BY <2>1, <2>2, <2>3 DEF Service!Join, Shown
<1>2. ASSUME NEW p \in Processes, pc[p] = "unset_write", WriteRankFile(p)
      PROVE  Service!Leave(p)
  <2>1. /\ p \in Ranked /\ Ranked' = Ranked \ {p} /\ rank' = rank
        /\ rank_file \in Nat /\ rank_file > 0 /\ rank_file' = rank_file - 1
    BY <1>2, LeaveStep
  <2>2. rank_file - 1 \in Nat
    BY <2>1
  <2>3. Number = rank_file /\ Number' = Number - 1
    BY <2>1, <2>2 DEF Number
  <2>4. Shown' = [Shown EXCEPT ![p] = 0]
    BY <2>1 DEF Shown
  <2> QED
    BY <2>1, <2>3, <2>4 DEF Service!Leave, Service!Part, Shown
<1>3. ASSUME NEW p \in Processes, CreateRankFile(p)
      PROVE  UNCHANGED <<Ranked, Shown, Number>>
  <2>1. /\ Ranked = {} /\ Ranked' = {}
        /\ rank' = rank /\ rank_file = NoFile /\ rank_file' = Empty
    BY <1>3, CreateStep
  <2>2. Number = 0 /\ Number' = 0
    BY <2>1, RankAssumption DEF Number
  <2> QED
    BY <2>1, <2>2 DEF Shown
<1>4. ASSUME NEW p \in Processes, GiveUp(p) \/ Crash(p)
      PROVE  Service!Lose(p) \/ UNCHANGED <<Ranked, Shown, Number>>
  <2>1. Ranked' = Ranked \ {p} /\ rank' = rank /\ Number' = Number
    BY <1>4, LoseStep DEF Number
  <2>2. CASE p \in Ranked
    <3>1. Shown' = [Shown EXCEPT ![p] = 0]
      BY <2>1, <2>2 DEF Shown
    <3> QED
      BY <2>1, <2>2, <3>1 DEF Service!Lose, Service!Part, Shown
  <2>3. CASE p \notin Ranked
    BY <2>1, <2>3 DEF Shown
  <2> QED
    BY <2>2, <2>3
<1>5. ASSUME NEW p \in Processes,
             \/ Begin(p) \/ Acquire(p) \/ Retry(p) \/ Release(p) \/ CheckRankFile(p)
             \/ ReadRank(p) \/ Refuse(p) \/ Abort(p) \/ ReadCount(p)
      PROVE  UNCHANGED <<Ranked, Shown, Number>>
  BY <1>5, OtherStep DEF Shown, Number
<1>6. CASE CleanUp
  <2>1. Ranked = {} /\ Ranked' = {} /\ rank' = rank
    BY <1>6 DEF CleanUp, Ranked
  <2>2. Number' \in {Number, 0}
    BY <1>6, RankAssumption DEF CleanUp, Number
  <2>3. Shown' = Shown
    BY <2>1 DEF Shown
  <2> QED
    BY <2>1, <2>2, <2>3 DEF Service!Next, Service!Reset, Shown
<1>7. CASE UNCHANGED vars
  BY <1>7 DEF vars, Ranked, Shown, Number
<1>8. \A p \in Processes : WriteRankFile(p) => pc[p] \in {"set_write", "unset_write"}
  BY DEF WriteRankFile
<1> QED
  BY <1>1, <1>2, <1>3, <1>4, <1>5, <1>6, <1>7, <1>8 DEF Next, Proceed, Service!Next

(* Reading, testing and writing the rank file amount to one step, for any   *)
(* number of processes (process_rank.c:95-111 and 160-173).                  *)
THEOREM RanksRefine == Spec => ImplementsRankService
<1>1. Init => Service!Init
  <2> SUFFICES ASSUME Init PROVE Service!Init
    OBVIOUS
  <2>1. Ranked = {} /\ Number = 0
    BY RankAssumption DEF Init, Ranked, Number
  <2> QED
    BY <2>1 DEF Init, Service!Init
<1>2. IInv /\ [Next]_vars => [Service!Next]_(Service!vars)
  BY StepRefines DEF Service!vars, Shown
<1> QED
  BY Inductive, <1>1, <1>2, PTL DEF Spec, ImplementsRankService, Service!Spec

(* A step that changes neither who is ranked, nor as what, nor the rank file. *)
LEMMA CompactKept ==
    ASSUME Compact, Ranked' = Ranked, \A q \in Ranked : rank'[q] = rank[q],
           rank_file' = rank_file
    PROVE  Compact'
<1>1. {rank'[q] : q \in Ranked'} = {rank[q] : q \in Ranked}
  OBVIOUS
<1> QED
  BY <1>1 DEF Compact

(* Ranks that are the first ones stay so while the last to come is the first *)
(* to leave and none is lost (process_rank.c:106 and 165).                   *)
LEMMA CompactStep ==
    IInv /\ [Next]_vars /\ Compact /\ ~LeavesOutOfOrder /\ ~Lost
      => Compact' \/ rank_file' = Empty
<1> SUFFICES ASSUME IInv, [Next]_vars, Compact, ~LeavesOutOfOrder, ~Lost
             PROVE  Compact' \/ rank_file' = Empty
  OBVIOUS
<1>0. /\ rank_file \in Nat \cup {NoFile} /\ rank_file # Empty
      /\ Ranked \subseteq Processes /\ rank \in [Processes -> Nat]
  BY RankAssumption DEF Compact, IInv, TypeOK, Ranked
<1>1. ASSUME NEW p \in Processes, pc[p] = "set_write", WriteRankFile(p)
      PROVE  Compact'
  <2>1. /\ p \notin Ranked /\ Ranked' = Ranked \cup {p}
        /\ rank' = rank /\ rank[p] = Number /\ rank_file \in Nat \cup {Empty}
        /\ Number \in Nat /\ Number + 1 < MaxProcesses /\ rank_file' = Number + 1
    BY <1>1, JoinStep
  <2>2. PICK n0 \in Nat : n0 = rank_file /\ n0 = rank[p] /\ rank_file' = n0 + 1
                          /\ n0 + 1 < MaxProcesses
    BY <1>0, <2>1 DEF Number
  <2>3. {rank[q] : q \in Ranked} = {n \in 0..(MaxProcesses - 1) : n < n0}
    BY <2>2, RankAssumption DEF Compact
  <2>4. \A q \in Ranked : rank[q] < n0
    BY <2>3
  <2>5. \A q, r \in Ranked' : rank[q] = rank[r] => q = r
    <3>1. \A q, r \in Ranked : rank[q] = rank[r] => q = r
      BY DEF Compact
    <3>2. \A q \in Ranked : rank[q] # n0
      BY <2>2, <2>4
    <3> QED
      BY <2>1, <2>2, <3>1, <3>2
  <2>6. {rank[q] : q \in Ranked'} = {rank[q] : q \in Ranked} \cup {n0}
    BY <2>1, <2>2
  <2>7. {rank[q] : q \in Ranked'} = {n \in 0..(MaxProcesses - 1) : n < n0 + 1}
    BY <2>2, <2>3, <2>6, RankAssumption
  <2> QED
    BY <2>1, <2>2, <2>5, <2>7, RankAssumption DEF Compact
<1>2. ASSUME NEW p \in Processes, pc[p] = "unset_write", WriteRankFile(p)
      PROVE  Compact'
  <2>1. /\ p \in Ranked /\ Ranked' = Ranked \ {p} /\ rank' = rank
        /\ rank_file \in Nat /\ rank_file' = rank_file - 1
    BY <1>2, LeaveStep
  <2>2. rank[p] + 1 = rank_file /\ rank[p] \in Nat
    BY <1>0, <2>1 DEF LeavesOutOfOrder
  <2>3. PICK n0 \in Nat : n0 = rank[p] /\ rank_file = n0 + 1 /\ rank_file' = n0
    BY <2>1, <2>2
  <2>4. PICK S : S = {rank[q] : q \in Ranked}
    OBVIOUS
  <2>5. S = {n \in 0..(MaxProcesses - 1) : n < n0 + 1}
    BY <2>3, <2>4, RankAssumption DEF Compact
  <2>6. S \ {n0} = {n \in 0..(MaxProcesses - 1) : n < n0}
    BY <2>5, RankAssumption
  <2>7. \A q, r \in Ranked : rank[q] = rank[r] => q = r
    BY DEF Compact
  <2>8. {rank[q] : q \in Ranked'} = S \ {n0}
    BY <2>1, <2>3, <2>4, <2>7
  <2> QED
    BY <2>1, <2>3, <2>6, <2>7, <2>8, RankAssumption DEF Compact
<1>3. ASSUME NEW p \in Processes, CreateRankFile(p) PROVE rank_file' = Empty
  BY <1>3 DEF CreateRankFile
<1>4. ASSUME NEW p \in Processes, GiveUp(p) \/ Crash(p) PROVE Compact'
  <2>1. /\ Ranked' = Ranked \ {p} /\ pc'[p] = "idle"
        /\ rank' = rank /\ rank_file' = rank_file
    BY <1>4, LoseStep
  <2>2. Ranked' = Ranked
    BY <2>1 DEF Lost
  <2> QED
    BY <2>1, <2>2, CompactKept
<1>5. ASSUME NEW p \in Processes,
             \/ Begin(p) \/ Acquire(p) \/ Retry(p) \/ Release(p) \/ CheckRankFile(p)
             \/ ReadRank(p) \/ Refuse(p) \/ Abort(p) \/ ReadCount(p)
      PROVE  Compact'
  BY <1>5, OtherStep, CompactKept
<1>6. CASE CleanUp
  <2>1. Ranked = {} /\ Ranked' = {}
    BY <1>6 DEF CleanUp, Ranked
  <2>2. CASE rank_file' = rank_file
    BY <2>1, <2>2, CompactKept
  <2>3. CASE rank_file' = NoFile
    BY <2>1, <2>3 DEF Compact
  <2> QED
    BY <1>6, <2>2, <2>3 DEF CleanUp
<1>7. CASE UNCHANGED vars
  BY <1>7, CompactKept DEF vars, Ranked
<1>8. \A p \in Processes : WriteRankFile(p) => pc[p] \in {"set_write", "unset_write"}
  BY DEF WriteRankFile
<1> QED
  BY <1>1, <1>2, <1>3, <1>4, <1>5, <1>6, <1>7, <1>8 DEF Next, Proceed

(* Ranks, and with them the shares of the CPUs, are given twice only after a *)
(* process left out of order or was lost.                                    *)
THEOREM RanksStayCompact == Spec => CompactWhileInOrder
<1>1. IInv /\ [Next]_vars
        => [Compact /\ ~LeavesOutOfOrder /\ ~Lost => Compact' \/ rank_file' = Empty]_vars
  BY CompactStep
<1> QED
  BY Inductive, <1>1, PTL DEF Spec, CompactWhileInOrder
=============================================================================
