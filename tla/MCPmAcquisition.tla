-------------------------- MODULE MCPmAcquisition --------------------------
(***************************************************************************)
(* Model of PmAcquisition for TLC: an SFP+ port, a QSFP28 port and a     *)
(* pluggable port of an unsupported connector type; one SFP+ module and    *)
(* two QSFP28 modules (so a QSFP28 module can be swapped for another);     *)
(* one garbled page.                                                       *)
(***************************************************************************)
EXTENDS PmAcquisition

CONSTANTS p1, p2, p3, s1, q1, q2

\* SFP+ 10GBASE-LR with internally calibrated average-power DOM
MCSfpPage ==
  [conn |-> 7, bits |-> {"enet_10gbase_lr"}, ext |-> 0, br |-> 103,
   diag |-> {"implemented_digital", "internally_calibrated",
             "power_measurement_type"}]

\* QSFP28 100GBASE-SR4 reporting average input optical power
MCQsfpPage ==
  [conn |-> 12, bits |-> {"enet_extended"}, ext |-> 2, br |-> 255,
   diag |-> {"average_input_optical_power"}]

\* QSFP28 100GBASE-CWDM4 without average-power monitoring
MCQsfp2Page ==
  [conn |-> 7, bits |-> {"enet_extended"}, ext |-> 6, br |-> 255, diag |-> {}]

MCZeroPage == [conn |-> 0, bits |-> {}, ext |-> 0, br |-> 0, diag |-> {}]

\* bytes damaged on the bus: copper pigtail code, 1000BASE-T and LR4 bits
MCGarbledPages ==
  {[conn |-> 33, bits |-> {"enet_1000base_t", "enet_40gbase_lr4"}, ext |-> 0,
    br |-> 0, diag |-> {"average_input_optical_power"}]}

\* restricted to the ports and modules a configuration chooses
MCConnector ==
  [p \in Ports |-> CASE p = p1 -> "SFP_PLUS" [] p = p2 -> "QSFP28" [] p = p3 -> "OTHER"]
MCFamily ==
  [m \in Modules |-> IF m = s1 THEN "SFP_PLUS" ELSE "QSFP28"]
MCPageOf ==
  [m \in Modules |-> CASE m = s1 -> MCSfpPage [] m = q1 -> MCQsfpPage [] m = q2 -> MCQsfp2Page]

(***************************************************************************)
(* Refinement of PortRecord: the port state is read off present and retry, *)
(* the identity is the module whose page the identity columns hold.        *)
(***************************************************************************)
AbsState ==
  [p \in Ports |-> IF ~present[p] THEN "Absent"
                   ELSE IF retry[p] THEN "IdentityPending"
                   ELSE "IdentityAcquired"]

Abstract == INSTANCE PortRecord
              WITH state <- AbsState,
                   identity <- [p \in Ports |-> a0[p].mod],
                   domRequested <- a2_read_requested

(***************************************************************************)
(* pm_read_state implements PortRecord: an acquired identity is replaced   *)
(* only after the port went absent or pending (pm_read_module_state reads  *)
(* A0 only when present is false or retry is set), it always names the    *)
(* module in the port at the read, a diagnostics request comes only with a *)
(* successful parse and is eventually serviced from the module in the port *)
(* or the filler.                                                          *)
(***************************************************************************)
RefinesPortRecord == Abstract!Spec
=============================================================================
