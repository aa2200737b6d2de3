---------------------------- MODULE MCVdcSession ----------------------------
(* VdcSession on small instances; connections and calls are interchangeable. *)
EXTENDS VdcSession, TLC

Symmetry ==
  Permutations(Conns) \cup Permutations(AppCalls) \cup Permutations(CbCalls)
=============================================================================
