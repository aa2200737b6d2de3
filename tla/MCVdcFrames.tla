----------------------------- MODULE MCVdcFrames -----------------------------
(* Two payloads, an empty frame between them and one that is too large. *)
EXTENDS VdcFrames

MCSizes == <<3, 0, 2, 4>>
MCStart == <<0, 5, 7, 11, 17>>
=============================================================================
