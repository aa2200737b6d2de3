---------------------------- MODULE MCVdcRequests ----------------------------
(* VdcRequests on small instances. *)
EXTENDS VdcRequests, TLC

Symmetry == Permutations(Conns) \cup Permutations(Requests)
=============================================================================
