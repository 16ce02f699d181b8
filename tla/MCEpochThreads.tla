---------------------------- MODULE MCEpochThreads ----------------------------
(* One thread, its handler and the monitor.  An age of 1 is too young for an *)
(* epoch and can still be lowered, 2 is old enough, 3 is overdue.            *)
EXTENDS EpochThreads
CONSTANT t1
MCThreads == {t1}
MCSlots == {1, 2}
=============================================================================
