------------------------------ MODULE PmEnable ------------------------------
(***************************************************************************)
(* Transmitter enable control: pm_configure_port and pm_configure_qsfp     *)
(* (src/src/plug.c), called by ovsdb_if_intf_create, by                   *)
(* ovsdb_if_intf_configure at start-up and by ovsdb_if_intf_modify when   *)
(* the hw_intf_config "enable" key changes (src/src/ovsdb_access.c),       *)
(* composed with the acquisition state machine of PmAcquisition, whose    *)
(* present and optical flags pm_configure_qsfp tests.                      *)
(*                                                                         *)
(* The transmitter state is hardware.  For an SFP+ port it is the          *)
(* tx_disable bit of the platform register: it belongs to the port and    *)
(* survives a module swap.  For a QSFP port it is byte 86                  *)
(* (QSFP_DISABLE_OFFSET) of the module, one disable bit per lane; a       *)
(* module powers up, and leaves reset, with the byte at 0 (all lanes on). *)
(* port->split is never set (the pm_port_t is calloc'd and nothing writes *)
(* it: "OPS_TODO: the split indicator needs to be filled in"), so the      *)
(* mask written is 0x0f or 0x00.                                           *)
(***************************************************************************)
EXTENDS PmAcquisition

VARIABLES
  hwIntfConfig,  \* the row's hw_intf_config:enable is "true"
  hw_enable,     \* port->hw_enable
  txDisable      \* hardware: SFP+ tx_disable bit, QSFP lane-disable byte

enable  == <<hwIntfConfig, hw_enable, txDisable>>
allVars == <<vars, enable>>

QsfpFamilies == {"QSFP_PLUS", "QSFP28"}

\* the value that turns the transmitter off: the bit_mask of sfpp_tx_disable
\* (one bit) or all four lanes of the QSFP byte
DisableAll(p) == IF Connector[p] \in QsfpFamilies THEN 15 ELSE 1

\* pm_configure_qsfp, unsplit port: 0x0f when disabled, 0x00 when enabled
QsfpDisableMask(en) == IF en THEN 0 ELSE 15

(***************************************************************************)
(* pm_configure_qsfp: nothing is written for a port not (yet) present or   *)
(* not optical; otherwise i2c_data_write of the mask into the module,     *)
(* which fails when no module answers; a failure is only logged.          *)
(***************************************************************************)
pm_configure_qsfp(p, en) ==
  IF ~present[p] \/ ~optical[p]
  THEN UNCHANGED <<txDisable, faults>>
  ELSE \/ /\ Readable(p)
          /\ txDisable' = [txDisable EXCEPT ![p] = QsfpDisableMask(en)]
          /\ UNCHANGED faults
       \/ /\ IF Readable(p) THEN Fault(1) ELSE UNCHANGED faults
          /\ UNCHANGED txDisable

(***************************************************************************)
(* pm_configure_port: the QSFP families go to pm_configure_qsfp; any other *)
(* port has i2c_reg_write of 0 or bit_mask into its tx_disable register;  *)
(* a failed write is only logged.                                          *)
(***************************************************************************)
pm_configure_port(p, en) ==
  IF Connector[p] \in QsfpFamilies
  THEN pm_configure_qsfp(p, en)
  ELSE \/ /\ txDisable' = [txDisable EXCEPT ![p] = IF en THEN 0 ELSE 1]
          /\ UNCHANGED faults
       \/ /\ Fault(1)
          /\ UNCHANGED txDisable

(***************************************************************************)
(* Another OVSDB client sets or clears hw_intf_config:enable.              *)
(***************************************************************************)
SetHwIntfConfig(p, v) ==
  /\ hwIntfConfig[p] # v
  /\ hwIntfConfig' = [hwIntfConfig EXCEPT ![p] = v]
  /\ UNCHANGED <<vars, hw_enable, txDisable>>

(***************************************************************************)
(* ovsdb_if_intf_modify, from pmd_reconfigure between two passes of        *)
(* pm_read_state: a changed key is stored and applied.                     *)
(***************************************************************************)
ovsdb_if_intf_modify(p) ==
  /\ cur = NoPort /\ scan = {}
  /\ hwIntfConfig[p] # hw_enable[p]
  /\ hw_enable' = [hw_enable EXCEPT ![p] = hwIntfConfig[p]]
  /\ pm_configure_port(p, hwIntfConfig[p])
  /\ UNCHANGED <<hwIntfConfig, slot, inReset, rec, local>>

(***************************************************************************)
(* The acquisition steps, with their effect on the QSFP lane byte: a       *)
(* module plugged in, or whose reset line is asserted during pm_reset_port *)
(* (the set write succeeded, or the line was still held), starts with all  *)
(* lanes enabled.                                                          *)
(***************************************************************************)
LanesCleared(p) == [txDisable EXCEPT ![p] = 0]

PlugModule(p, m) ==
  /\ Plug(p, m)
  /\ txDisable' = IF Connector[p] \in QsfpFamilies THEN LanesCleared(p) ELSE txDisable
  /\ UNCHANGED <<hwIntfConfig, hw_enable>>

ResetModule ==
  \E setOk, clearOk \in BOOLEAN :
    /\ ResetWith(setOk, clearOk)
    /\ txDisable' = IF /\ Connector[cur] \in QsfpFamilies
                       /\ slot[cur] # NoModule
                       /\ setOk \/ inReset[cur]
                    THEN LanesCleared(cur) ELSE txDisable
    /\ UNCHANGED <<hwIntfConfig, hw_enable>>

(***************************************************************************)
(* Start: ovsdb_if_intf_create reads the key into hw_enable and calls      *)
(* pm_configure_port while port->present is still false ("mark it as      *)
(* absent, first"), as does ovsdb_if_intf_configure after it.  The SFP+   *)
(* register is written; a QSFP module keeps its power-up byte.             *)
(***************************************************************************)
EnableInit ==
  /\ Init
  /\ hwIntfConfig \in [Ports -> BOOLEAN]
  /\ hw_enable = hwIntfConfig
  /\ txDisable = [p \in Ports |-> IF Connector[p] \in QsfpFamilies THEN 0
                                  ELSE IF hw_enable[p] THEN 0 ELSE 1]

EnableNext ==
  \/ (StartScan \/ \E p \in Ports : BeginVisit(p)) /\ UNCHANGED enable
  \/ (Presence \/ ReadA0 \/ ReadA2) /\ UNCHANGED enable
  \/ ResetModule
  \/ \E p \in Ports : ovsdb_if_intf_modify(p)
  \/ \E p \in Ports, v \in BOOLEAN : SetHwIntfConfig(p, v)
  \/ \E p \in Ports : Unplug(p) /\ UNCHANGED enable
  \/ \E p \in Ports, m \in Modules : PlugModule(p, m)

EnableSpec == EnableInit /\ [][EnableNext]_allVars

(***************************************************************************)
(* Properties.                                                             *)
(***************************************************************************)
EnableTypeOK ==
  /\ TypeOK
  /\ hwIntfConfig \in [Ports -> BOOLEAN]
  /\ hw_enable \in [Ports -> BOOLEAN]
  /\ txDisable \in [Ports -> {0, 1, 15}]

(***************************************************************************)
(* Between two visits, a port whose interface is configured disabled and   *)
(* whose optical module the daemon has acquired has its transmitter       *)
(* turned off: ovsdb_if_intf_create says it applies "the initial           *)
(* hw_enable state", and spec 4.6 gives QSFP ports their lane mask.        *)
(***************************************************************************)
DisabledPortIsDark ==
  \A p \in Ports :
    (/\ cur = NoPort /\ ~hw_enable[p]
     /\ present[p] /\ optical[p] /\ slot[p] # NoModule)
      => txDisable[p] = DisableAll(p)
=============================================================================
