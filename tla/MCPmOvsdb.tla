----------------------------- MODULE MCPmOvsdb -----------------------------
(***************************************************************************)
(* PmOvsdb for TLC over the ports, modules and pages of MCPmAcquisition.   *)
(***************************************************************************)
EXTENDS PmOvsdb, MCPmAcquisition
=============================================================================
