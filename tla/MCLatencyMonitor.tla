--------------------------- MODULE MCLatencyMonitor ---------------------------
(* One CPU whose buffer has room for one record; a workload whose local memory *)
(* is slower and one whose remote memory is, by as little as the smoothing *)
(* leaves visible. *)
EXTENDS LatencyMonitor
MCCpus == <<"cpu0">>
MCMixes == {[local |-> 8, remote |-> 4], [local |-> 2, remote |-> 7]}
=============================================================================
