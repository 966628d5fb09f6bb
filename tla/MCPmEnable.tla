----------------------------- MODULE MCPmEnable -----------------------------
(***************************************************************************)
(* PmEnable over the ports and modules of MCPmAcquisition.                 *)
(***************************************************************************)
EXTENDS PmEnable, MCPmAcquisition
=============================================================================
