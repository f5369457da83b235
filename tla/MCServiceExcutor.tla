-------------------------- MODULE MCServiceExcutor --------------------------
(* The service executor on small instances: which names, addresses and pids *)
(* are used makes no difference, so safety runs may permute them.           *)
EXTENDS ServiceExcutor, TLC

Symmetric == Permutations(Names) \cup Permutations(Addrs) \cup Permutations(Pids)
=============================================================================
