--------------------------- MODULE MCVdcReference ---------------------------
(* Scenes on both sides of every limit that the handlers know. *)
EXTENDS VdcReference

MCCalls == {0, 129} \cup 11 .. 14
MCSaves == {0, 12}
=============================================================================
