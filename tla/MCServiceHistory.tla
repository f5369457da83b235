-------------------------- MODULE MCServiceHistory --------------------------
(* The service executor and its history on small instances, up to the names *)
(* of services, addresses and processes.                                    *)
EXTENDS ServiceHistory, TLC

Symmetric == Permutations(Names) \cup Permutations(Addrs) \cup Permutations(Pids)
=============================================================================
