---------------------------- MODULE MCVdcInstance ----------------------------
(* VdcInstance with two processes, whose instances want the same name. *)
EXTENDS VdcInstance

CONSTANTS vdc, default, NoName

MCOtherLabels == {<<vdc, 1>>}
=============================================================================
