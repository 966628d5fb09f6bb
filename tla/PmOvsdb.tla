------------------------------ MODULE PmOvsdb ------------------------------
(***************************************************************************)
(* The daemon loop pmd_run (src/src/pmd.c) with the OVSDB side of          *)
(* src/src/ovsdb_access.c around the acquisition machine of PmAcquisition: *)
(*   ovsdb_idl_run, then, only while this process holds the "ops_pmd"     *)
(*   lock, pmd_reconfigure (ports deleted with their                       *)
(*   Interface row, the subsystem's YAML read on first sight, ports        *)
(*   created for rows that have none), then pm_read_state, then            *)
(*   pm_ovsdb_update (pm_info written for every port whose                 *)
(*   module_info_changed is set, the flag cleared, the transaction         *)
(*   committed).                                                           *)
(*                                                                         *)
(* The Interface table holds one row per port at most; a row is identified *)
(* by its generation (its uuid): deleting a row and adding one of the same *)
(* name gives a new generation.  pm_info is abstracted to the connector    *)
(* column: connector_status, max_speed and supported_speeds are functions *)
(* of it, and the DOM keys are commented out of pm_ovsdb_update.           *)
(*                                                                         *)
(* The SET_* macros that write a column live in pmd.h, which is not in the *)
(* repository; they are taken to set module_info_changed when they change *)
(* a column, as spec section 6 requires ("refreshed only when changed").  *)
(***************************************************************************)
EXTENDS PmAcquisition

CONSTANTS
  MaxRowGen,          \* bound on Interface rows created per port
  MaxCommitFailures,  \* bound on failed ovsdb_idl_txn_commit_block calls
  YamlMayFail,        \* pm_read_yaml_files may return an error
  MaxLockLosses       \* bound on the times the server takes the lock away

ASSUME MaxRowGen \in Nat /\ MaxCommitFailures \in Nat /\ YamlMayFail \in BOOLEAN
ASSUME MaxLockLosses \in Nat

VARIABLES
  dbRow,        \* server: generation of the port's Interface row, 0 if none
  dbGen,        \* server: generations used so far per port
  published,    \* server: pm_info "connector" of the port's row
  curHw,        \* server: Daemon cur_hw of ops-pmd's row
  hasLock,      \* server: the "ops_pmd" lock is granted to this process
  lockLosses,   \* server: times the lock was taken away so far
  idlRow,       \* IDL replica of dbRow, refreshed by ovsdb_idl_run
  seqRow,       \* idl_seqno: the replica the last pmd_reconfigure processed
  portRow,      \* ovs_intfs: generation (uuid) of the port's pm_port_t, 0 if none
  subsSeen,     \* ovs_subs holds the subsystem
  yamlLoaded,   \* the subsystem's YAML port definitions were read
  changed,      \* port->module_info_changed
  curHwSet,     \* static cur_hw_set of pm_ovsdb_update
  commitFails,  \* failed commits so far
  loop          \* "wait": between two pmd_run calls; "scan": in pm_read_state

db     == <<dbRow, dbGen, published, curHw, hasLock, lockLosses>>
daemon == <<idlRow, seqRow, portRow, subsSeen, yamlLoaded, changed, curHwSet,
            commitFails, loop>>
allVars == <<vars, db, daemon>>

Registered == {p \in Ports : portRow[p] # 0}

(***************************************************************************)
(* The OVSDB server: other clients add and delete Interface rows.          *)
(***************************************************************************)
DbAddRow(p) ==
  /\ dbRow[p] = 0 /\ dbGen[p] < MaxRowGen
  /\ dbGen' = [dbGen EXCEPT ![p] = @ + 1]
  /\ dbRow' = [dbRow EXCEPT ![p] = dbGen[p] + 1]
  /\ published' = [published EXCEPT ![p] = "none"]
  /\ UNCHANGED <<curHw, hasLock, lockLosses, vars, daemon>>

DbDeleteRow(p) ==
  /\ dbRow[p] # 0
  /\ dbRow' = [dbRow EXCEPT ![p] = 0]
  /\ UNCHANGED <<dbGen, published, curHw, hasLock, lockLosses, vars, daemon>>

\* the lock requested by ovsdb_idl_set_lock is granted once no other holds it
LockGranted ==
  /\ ~hasLock
  /\ hasLock' = TRUE
  /\ UNCHANGED <<dbRow, dbGen, published, curHw, lockLosses, vars, daemon>>

\* another ops-pmd steals the lock, or the session is lost and re-opened
LockLost ==
  /\ hasLock /\ lockLosses < MaxLockLosses
  /\ hasLock' = FALSE
  /\ lockLosses' = lockLosses + 1
  /\ UNCHANGED <<dbRow, dbGen, published, curHw, vars, daemon>>

(***************************************************************************)
(* SET_* / DELETE / set_supported_speeds: a column written with a new      *)
(* value marks the port for publication.                                   *)
(***************************************************************************)
\* only set_supported_speeds marks the port: every pm_parse outcome
MarkChangedByParseOnly ==
  [p \in Ports |-> changed[p] \/ (a0'[p] # a0[p] /\ a0'[p].src = "bus")]

MarkChanged ==
  [p \in Ports |-> \/ changed[p]
                   \/ connector'[p] # connector[p] \/ a0'[p] # a0[p]
                   \/ a2'[p] # a2[p] \/ dom'[p] # dom[p]]

(***************************************************************************)
(* pmd_reconfigure.  Deleted: ports whose row (uuid) is gone.  Subsystem:  *)
(* YAML read on first sight, "return" on error.  Created: rows with no     *)
(* port, when the YAML port is known; a created port is zeroed (calloc),   *)
(* absent, not retrying, and pm_clear_reset releases its reset line; on a  *)
(* QSFP port that register write may fail, is only logged (plug.c:541),   *)
(* and leaves the line as it was, at the cost of a transient fault.       *)
(* ovsdb_if_intf_modify (hw_enable) does not touch the modelled state.     *)
(***************************************************************************)
\* a pm_port_t reused without zeroing its decoded columns
ResetRecordsKeepConnector(S) ==
  /\ present' = [p \in Ports |-> IF p \in S THEN FALSE ELSE present[p]]
  /\ retry' = [p \in Ports |-> IF p \in S THEN FALSE ELSE retry[p]]
  /\ a2_read_requested' =
       [p \in Ports |-> IF p \in S THEN FALSE ELSE a2_read_requested[p]]
  /\ a0' = [p \in Ports |-> IF p \in S THEN NoPage ELSE a0[p]]
  /\ UNCHANGED <<optical, connector, a2, dom>>
  /\ changed' = [p \in Ports |-> IF p \in S THEN FALSE ELSE changed[p]]

ResetRecords(S) ==
  /\ present' = [p \in Ports |-> IF p \in S THEN FALSE ELSE present[p]]
  /\ retry' = [p \in Ports |-> IF p \in S THEN FALSE ELSE retry[p]]
  /\ a2_read_requested' =
       [p \in Ports |-> IF p \in S THEN FALSE ELSE a2_read_requested[p]]
  /\ a0' = [p \in Ports |-> IF p \in S THEN NoPage ELSE a0[p]]
  /\ optical' = [p \in Ports |-> IF p \in S THEN FALSE ELSE optical[p]]
  /\ connector' = [p \in Ports |-> IF p \in S THEN "none" ELSE connector[p]]
  /\ a2' = [p \in Ports |-> IF p \in S THEN NoModule ELSE a2[p]]
  /\ dom' = [p \in Ports |-> IF p \in S THEN NoModule ELSE dom[p]]
  /\ changed' = [p \in Ports |-> IF p \in S THEN FALSE ELSE changed[p]]

\* pm_read_yaml_files: yaml_add_subsystem, yaml_parse_devices and
\* yaml_parse_ports in turn, "goto end" with the first failure; the result
\* of yaml_init_devices is not looked at (pm_create_a2_devices is commented
\* out).  TRUE: rc = 0 and the subsystem's port definitions are loaded.
pm_read_yaml_files ==
  IF YamlMayFail THEN BOOLEAN ELSE {TRUE}

\* ovsdb_if_subsys_process: the YAML files are read on the first sight of
\* the subsystem only (it is added to ovs_subs before the read)
YamlLoadOutcomes ==
  IF subsSeen THEN {yamlLoaded} ELSE pm_read_yaml_files

\* pm_get_yaml_port: the port's definition is found when ports.yaml was
\* parsed for its subsystem (every modelled port is pluggable)
pm_get_yaml_port(p) == yamlLoaded'

\* rows without a port, looked up before the deleted ports are removed
RowsWithoutPortStale(kept) ==
  {p \in Ports \ Registered : idlRow'[p] # 0 /\ pm_get_yaml_port(p)}

\* rows of the replica that have no pm_port_t once the deleted ones are
\* gone; ovsdb_if_intf_create gives up on a port with no YAML definition
RowsWithoutPort(kept) ==
  {p \in Ports \ kept : idlRow'[p] # 0 /\ pm_get_yaml_port(p)}

\* pm_clear_reset of the created ports: pm_reset writes the clear only on
\* the QSFP families and a failed write leaves the line unchanged
pm_clear_reset(created) ==
  \E failed \in SUBSET {p \in created : Connector[p] \in {"QSFP_PLUS", "QSFP28"}} :
    /\ Fault(Cardinality(failed))
    /\ inReset' = [p \in Ports |-> IF p \in created \ failed THEN FALSE ELSE inReset[p]]

pmd_reconfigure ==
  LET gone    == {p \in Registered : idlRow'[p] # portRow[p]}
      kept    == Registered \ gone
  IN \E loaded \in YamlLoadOutcomes :
       LET created == RowsWithoutPort(kept)
       IN /\ subsSeen' = TRUE
          /\ yamlLoaded' = loaded
          /\ seqRow' = idlRow'
          /\ portRow' = [p \in Ports |-> IF p \in created THEN idlRow'[p]
                                         ELSE IF p \in gone THEN 0 ELSE portRow[p]]
          /\ ResetRecords(gone \cup created)
          /\ pm_clear_reset(created)

\* idl_seqno taken on every ovsdb_idl_run, whether or not the lock is held
SeqnoUnchangedSinceRun == idlRow' = idlRow

\* "new_idl_seqno == idl_seqno": the replica is the one the last
\* pmd_reconfigure processed (the seqno also moves for changes to columns
\* the model leaves out, so an unchanged replica may still be processed)
SeqnoUnchanged == idlRow' = seqRow

\* ovsdb_idl_run; without the lock (contended, or not granted yet) return
PmdRunUnlocked ==
  /\ loop = "wait" /\ cur = NoPort /\ scan = {}
  /\ ~hasLock
  /\ idlRow' = dbRow
  /\ UNCHANGED <<vars, db, seqRow, portRow, subsSeen, yamlLoaded, changed,
                 curHwSet, commitFails, loop>>

\* ovsdb_idl_run, the lock held: pmd_reconfigure and the start of pm_read_state
PmdRun ==
  /\ loop = "wait" /\ cur = NoPort /\ scan = {}
  /\ hasLock
  /\ idlRow' = dbRow
  /\ \E seqnoMoved \in BOOLEAN :
       /\ ~SeqnoUnchanged => seqnoMoved
       /\ IF seqnoMoved THEN pmd_reconfigure
          ELSE UNCHANGED <<seqRow, portRow, subsSeen, yamlLoaded, changed, inReset, faults, rec>>
  /\ scan' = {p \in Ports : portRow'[p] # 0}
  /\ loop' = "scan"
  /\ UNCHANGED <<slot, cur, pc, retry_count, db, curHwSet, commitFails>>

\* one step of pm_read_state, the written columns marking the port
ScanStep ==
  /\ loop = "scan"
  /\ \/ \E p \in Ports : BeginVisit(p)
     \/ Presence \/ ReadA0 \/ Reset \/ ReadA2
  /\ changed' = MarkChanged
  /\ UNCHANGED <<db, idlRow, seqRow, portRow, subsSeen, yamlLoaded, curHwSet,
                 commitFails, loop>>

(***************************************************************************)
(* pm_ovsdb_update: pm_info set for every port found in the replica with   *)
(* module_info_changed, the flag cleared at once; cur_hw set the first     *)
(* time; then ovsdb_idl_txn_commit_block, whose result is not looked at.   *)
(* The commit is refused (TXN_NOT_LOCKED) when the lock was lost during   *)
(* the pass.                                                               *)
(***************************************************************************)
\* ports of ovs_intfs whose row is in the replica and whose flag is set
PmInfoWritten == {p \in Registered : idlRow[p] = portRow[p] /\ changed[p]}

pm_ovsdb_update ==
  LET written == PmInfoWritten IN
  /\ loop = "scan" /\ scan = {} /\ cur = NoPort
  /\ changed' = [p \in Ports |-> changed[p] /\ p \notin written]
  /\ curHwSet' = TRUE
  /\ \/ \* the transaction commits: writes to rows still on the server land
        /\ hasLock
        /\ published' = [p \in Ports |-> IF p \in written /\ dbRow[p] = portRow[p]
                                          THEN connector[p] ELSE published[p]]
        /\ curHw' = (curHw \/ ~curHwSet)
        /\ UNCHANGED commitFails
     \/ \* TXN_NOT_LOCKED (the lock was lost during the pass), or TXN_ERROR
        \* or TXN_TRY_AGAIN: nothing is written
        /\ ~hasLock \/ commitFails < MaxCommitFailures
        /\ commitFails' = commitFails + 1
        /\ UNCHANGED <<published, curHw>>
  /\ loop' = "wait"
  /\ UNCHANGED <<vars, dbRow, dbGen, hasLock, lockLosses, idlRow, seqRow, portRow,
                 subsSeen, yamlLoaded>>

(***************************************************************************)
(* Specification.                                                          *)
(***************************************************************************)
\* pm_ovsdb_if_init: the IDL is created empty, nothing is registered yet
OvsInit ==
  /\ Init
  /\ dbRow = [p \in Ports |-> 1]
  /\ dbGen = [p \in Ports |-> 1]
  /\ published = [p \in Ports |-> "none"]
  /\ curHw = FALSE
  /\ hasLock = FALSE
  /\ lockLosses = 0
  /\ idlRow = [p \in Ports |-> 0]
  /\ seqRow = [p \in Ports |-> 0]
  /\ portRow = [p \in Ports |-> 0]
  /\ subsSeen = FALSE
  /\ yamlLoaded = FALSE
  /\ changed = [p \in Ports |-> FALSE]
  /\ curHwSet = FALSE
  /\ commitFails = 0
  /\ loop = "wait"

Database == (\E p \in Ports : DbAddRow(p) \/ DbDeleteRow(p)) \/ LockGranted \/ LockLost

PmdLoop == PmdRunUnlocked \/ PmdRun \/ ScanStep \/ pm_ovsdb_update

OvsNext ==
  \/ PmdLoop
  \/ Database
  \/ Hardware /\ UNCHANGED <<db, daemon>>

\* pmd_wait re-arms the poll timer every loop; the lock is not fair
OvsSpec == OvsInit /\ [][OvsNext]_allVars /\ WF_allVars(PmdLoop)

(***************************************************************************)
(* Properties.                                                             *)
(***************************************************************************)
(***************************************************************************)
(* Between two runs of pmd_run, the pm_info of every port's own Interface  *)
(* row shows the port's record (spec 5: the sync layer reads a fully       *)
(* updated snapshot between ticks), as long as no commit has failed (after *)
(* one, PublishedConverges fails: run ovsdb_commit_lost).  It takes every  *)
(* column write to set module_info_changed, pm_ovsdb_update to publish and *)
(* clear exactly the flagged ports, and re-created ports and rows to start *)
(* out alike.                                                              *)
(***************************************************************************)
PublishedMatchesRecord ==
  loop = "wait" /\ commitFails = 0 =>
    \A p \in Registered : dbRow[p] = portRow[p] => published[p] = connector[p]

(***************************************************************************)
(* A pm_info that differs from the port's record is eventually brought up  *)
(* to date while the port and its row live: a change is never dropped      *)
(* for good (spec 6: refreshed when changed since the last delivered       *)
(* snapshot).                                                              *)
(***************************************************************************)
PublishedConverges ==
  \A p \in Ports :
    (p \in Registered /\ dbRow[p] = portRow[p] /\ published[p] # connector[p])
      ~> (published[p] = connector[p] \/ dbRow[p] # portRow[p])

(***************************************************************************)
(* Once this process holds the "ops_pmd" lock for good, every Interface    *)
(* row on the server eventually has its pm_port_t, unless it is deleted    *)
(* first (spec 3: a record is created when a port becomes configured):     *)
(* pmd_reconfigure creates ports for rows without one, and a row that     *)
(* arrived while pmd_run returned for want of the lock is still seen as a *)
(* change by the seqno test once the lock is back.                         *)
(***************************************************************************)
RowsTracked ==
  <>[]hasLock =>
    \A p \in Ports, g \in 1..MaxRowGen :
      dbRow[p] = g ~> (portRow[p] = g \/ dbRow[p] # g)
=============================================================================
