---------------------------- MODULE MCProcessRank ----------------------------
(* Three processes and a limit of three; a lock is waited for twice. *)
EXTENDS ProcessRank
CONSTANTS p1, p2, p3
MCProcesses == {p1, p2, p3}
=============================================================================
