---------------------------- MODULE PmAcquisition ----------------------------
(***************************************************************************)
(* The per-port acquisition state machine of ops-pmd: pm_read_state,       *)
(* pm_read_module_state and the helpers they call (src/src/plug.c), with   *)
(* pm_parse and set_a2_read_request taken from PmParse and the DOM decode  *)
(* of pm_set_a2 (src/src/pm_dom.c) abstracted to the module whose page     *)
(* was decoded.                                                            *)
(*                                                                         *)
(* One daemon thread visits the ports one after another.  A visit is cut   *)
(* into the steps between which the hardware can change: the presence     *)
(* read, each identity (A0) read, each reset pulse and each diagnostics    *)
(* (A2) read.  Modules are inserted and removed, the reset line may be     *)
(* left asserted, and bus transactions fail or return garbled bytes, at    *)
(* any moment; transient faults are bounded by MaxFaults.                  *)
(*                                                                         *)
(* AsBuilt = TRUE gives the guards as compiled ("!present && false",       *)
(* "rc != 0 && false", "a2_read_requested == false || true", checksum      *)
(* block commented out); FALSE gives the logic the source writes out.      *)
(***************************************************************************)
EXTENDS Naturals, FiniteSets, Functions, PmParse

CONSTANTS
  Ports,         \* configured pluggable ports (ovs_intfs)
  Modules,       \* physical transceivers that can be plugged
  NoModule,      \* empty slot / no page decoded
  NoPort,        \* the daemon is between port visits
  Filler,        \* the all-0xFF buffer decoded after a failed A2 read
  Connector,     \* Ports -> family: module_device->connector
  Family,        \* Modules -> family the module fits
  PageOf,        \* Modules -> identity page the module stores
  ZeroPage,      \* page of all zero bytes (the memset buffer)
  GarbledPages,  \* pages a garbled or partial bus read can leave
  RetryCount,    \* initial retry_count of pm_read_module_state (2)
  MaxFaults,     \* bound on transient bus faults in a behaviour
  AsBuilt        \* TRUE: the compiled short-circuits; FALSE: written logic

ASSUME Connector \in [Ports -> Families]
ASSUME Family \in [Modules -> Families \ {"OTHER"}]
ASSUME RetryCount \in Nat /\ MaxFaults \in Nat /\ AsBuilt \in BOOLEAN

VARIABLES
  slot,               \* hardware: module plugged in each port
  inReset,            \* hardware: reset line of the port asserted
  faults,             \* transient faults so far
  present,            \* port->present
  retry,              \* port->retry
  a2_read_requested,  \* port->a2_read_requested
  optical,            \* port->optical, set by pm_parse
  a0,                 \* identity columns: the page parsed (a0 blob, vendor fields)
  connector,          \* connector column (connector_status moves with it)
  a2,                 \* a2 blob: module whose diagnostics page is stored
  dom,                \* decoded DOM columns: module whose page they came from
  scan,               \* ports still to visit in this pm_read_state pass
  cur,                \* port being visited
  pc,                 \* step of pm_read_module_state for cur
  retry_count         \* local retry_count of the visit

hw    == <<slot, inReset, faults>>
rec   == <<present, retry, a2_read_requested, optical, a0, connector, a2, dom>>
local == <<scan, cur, pc, retry_count>>
vars  == <<hw, rec, local>>

(***************************************************************************)
(* Page buffers.  src says where the bytes came from: "none" (no blob),    *)
(* "bus" (a clean read of mod), "garbled" (bytes of mod damaged on the     *)
(* bus), "unread" (the buffer after a failed read: zeros or partial data). *)
(***************************************************************************)
Buffer(src, m, pg) == [src |-> src, mod |-> m, pg |-> pg]
NoPage == Buffer("none", NoModule, ZeroPage)
Pages == {PageOf[m] : m \in Modules} \cup GarbledPages \cup {ZeroPage}
Buffers == {Buffer(s, m, pg) : s \in {"none", "bus", "garbled", "unread"},
                               m \in Modules \cup {NoModule}, pg \in Pages}

\* a checksum that accepts whatever was read (the verify call left out)
SumOkBypassed(b) == TRUE

\* sfpp_sum_verify on the buffer: clean pages and the all-zero page pass
SumOk(b) == b.src = "bus" \/ (b.src = "unread" /\ b.pg = ZeroPage)

Variants == {"SFP_DAC", "SFP_SX", "SFP_LX", "SFP_CX", "SFP_RJ45", "SFP_SR",
             "SFP_LR", "SFP_LRM", "QSFP_LR4", "QSFP_SR4", "QSFP_CR4",
             "QSFP28_SR4", "QSFP28_LR4", "QSFP28_CWDM4", "QSFP28_PSM4",
             "QSFP28_CR4", "QSFP28_CLR4", "unknown"}
ConnectorValues == Variants \cup {"none", "absent"}

\* a transient fault is available and is spent by the step taking it
Fault(n) == /\ faults + n <= MaxFaults
            /\ faults' = faults + n

Readable(p) == slot[p] # NoModule /\ ~inReset[p]

EndVisit == /\ cur' = NoPort
            /\ pc' = "idle"

(***************************************************************************)
(* Hardware.                                                               *)
(***************************************************************************)
Plug(p, m) ==
  /\ slot[p] = NoModule
  /\ m \notin Range(slot)
  /\ Family[m] = Connector[p]
  /\ slot' = [slot EXCEPT ![p] = m]
  /\ UNCHANGED <<inReset, faults, rec, local>>

Unplug(p) ==
  /\ slot[p] # NoModule
  /\ slot' = [slot EXCEPT ![p] = NoModule]
  /\ UNCHANGED <<inReset, faults, rec, local>>

(***************************************************************************)
(* pm_read_state: one pass over ovs_intfs, one port at a time.             *)
(***************************************************************************)
StartScan ==
  /\ cur = NoPort /\ scan = {}
  /\ scan' = Ports
  /\ UNCHANGED <<hw, rec, cur, pc, retry_count>>

\* pm_read_module_state entry: offset chosen from the connector, or return -1
BeginVisit(p) ==
  /\ cur = NoPort /\ p \in scan
  /\ scan' = scan \ {p}
  /\ IF Connector[p] = "OTHER"
     THEN UNCHANGED <<cur, pc, retry_count>>
     ELSE /\ cur' = p
          /\ pc' = "presence"
          /\ retry_count' = RetryCount
  /\ UNCHANGED <<hw, rec>>

\* after the A0 block: "if (port->a2_read_requested == false || true) return"
ToA2(req) ==
  IF req /\ ~AsBuilt THEN /\ pc' = "readA2"
                          /\ UNCHANGED cur
                     ELSE EndVisit

\* an identity read that is attempted whatever the port record says
NeedsIdentityAlways(p) == TRUE

\* "if (port->present == false || port->retry == true)": read A0
NeedsIdentity(p) == ~present[p] \/ retry[p]

\* retry_read: pm_get_presence, then the absent branch or the A0 decision
Presence ==
  LET p == cur IN
  /\ pc = "presence"
  /\ \E sample \in BOOLEAN :
       \* three failed presence reads make pm_get_presence return false
       /\ IF sample = (slot[p] # NoModule) THEN UNCHANGED faults
          ELSE ~sample /\ Fault(1)
       /\ IF ~sample /\ ~AsBuilt
          THEN /\ IF present[p] \/ connector[p] = "none"
                  THEN /\ present' = [present EXCEPT ![p] = FALSE]
                       /\ a0' = [a0 EXCEPT ![p] = NoPage]
                       /\ a2' = [a2 EXCEPT ![p] = NoModule]
                       /\ connector' = [connector EXCEPT ![p] = "absent"]
                  ELSE UNCHANGED <<present, a0, a2, connector>>
               /\ EndVisit
               /\ UNCHANGED <<retry, a2_read_requested, optical, dom>>
          ELSE /\ IF NeedsIdentity(p)
                  THEN /\ pc' = "readA0"
                       /\ UNCHANGED cur
                  ELSE ToA2(a2_read_requested[p])
               /\ UNCHANGED rec
  /\ UNCHANGED <<slot, inReset, scan, retry_count>>

\* pm_parse succeeded: record the page, mark present, ask for A2
Parse(p, b) ==
  LET req     == a2_read_requested[p] \/ DomEligible(Connector[p], b.pg)
      variant == Classify(Connector[p], b.pg, AsBuilt)
  IN
  /\ a0' = [a0 EXCEPT ![p] = b]
  /\ connector' = [connector EXCEPT ![p] = variant]
  /\ optical' = [optical EXCEPT ![p] = variant \in OpticalVariants]
  /\ present' = [present EXCEPT ![p] = TRUE]
  /\ retry' = [retry EXCEPT ![p] = FALSE]
  /\ a2_read_requested' = [a2_read_requested EXCEPT ![p] = req]
  /\ ToA2(req)
  /\ UNCHANGED <<a2, dom, retry_count>>

\* retries used up: delete all data, mark present and pending retry
Exhaust(p) ==
  /\ present' = [present EXCEPT ![p] = TRUE]
  /\ retry' = [retry EXCEPT ![p] = TRUE]
  /\ a0' = [a0 EXCEPT ![p] = NoPage]
  /\ a2' = [a2 EXCEPT ![p] = NoModule]
  /\ connector' = [connector EXCEPT ![p] = "unknown"]
  /\ EndVisit
  /\ UNCHANGED <<a2_read_requested, optical, dom, retry_count>>

\* the retry branch taken without testing retry_count first
A0FailedUnguarded(p) ==
  /\ retry_count' = retry_count - 1
  /\ pc' = "reset"
  /\ UNCHANGED <<cur, rec>>

\* a failed or rejected A0 read: reset and retry, or give up
A0Failed(p) ==
  IF retry_count > 0
  THEN /\ retry_count' = retry_count - 1
       /\ pc' = "reset"
       /\ UNCHANGED <<cur, rec>>
  ELSE Exhaust(p)

\* pm_read_a0 followed by the rc check, the checksum check and pm_parse
ReadA0 ==
  LET p == cur IN
  /\ pc = "readA0"
  /\ \E b \in Buffers, rc \in {0, 1} :
       /\ \/ /\ Readable(p) /\ rc = 0
             /\ b = Buffer("bus", slot[p], PageOf[slot[p]])
             /\ UNCHANGED faults
          \/ /\ Readable(p) /\ rc = 0 /\ Fault(1)
             /\ b.src = "garbled" /\ b.mod = slot[p] /\ b.pg \in GarbledPages
          \/ /\ rc = 1 /\ b.src = "unread" /\ b.mod = NoModule
             /\ b.pg \in GarbledPages \cup {ZeroPage}
             /\ IF Readable(p) THEN Fault(1) ELSE UNCHANGED faults
       \* "rc != 0 && false" and the commented-out checksum block as built
       /\ IF ~AsBuilt /\ (rc # 0 \/ ~SumOk(b)) THEN A0Failed(p)
          ELSE Parse(p, b)
  /\ UNCHANGED <<slot, inReset, scan>>

ResetPulse(p, setOk, clearOk) ==
  IF clearOk THEN FALSE ELSE IF setOk THEN TRUE ELSE inReset[p]

\* the pulse with the outcomes of its set and clear writes
ResetWith(setOk, clearOk) ==
  LET p == cur IN
  /\ pc = "reset"
  /\ IF Connector[p] \in {"QSFP_PLUS", "QSFP28"}
     THEN /\ Fault((IF setOk THEN 0 ELSE 1) + (IF clearOk THEN 0 ELSE 1))
          /\ inReset' = [inReset EXCEPT ![p] = ResetPulse(p, setOk, clearOk)]
     ELSE UNCHANGED <<inReset, faults>>
  /\ pc' = "presence"
  /\ UNCHANGED <<slot, rec, scan, cur, retry_count>>

Reset == \E setOk, clearOk \in BOOLEAN : ResetWith(setOk, clearOk)

(***************************************************************************)
(* retry_read_a2: pm_read_a2 with the visit's remaining retry_count, then  *)
(* pm_set_a2 on the page or on the 0xFF filler, and the request cleared.   *)
(***************************************************************************)
\* the diagnostics stored without clearing the request
A2DoneKeepRequest(p, src) ==
  /\ a2' = [a2 EXCEPT ![p] = src]
  /\ dom' = [dom EXCEPT ![p] = src]
  /\ EndVisit
  /\ UNCHANGED <<present, retry, a2_read_requested, optical, a0, connector, retry_count>>

A2Done(p, src) ==
  /\ a2' = [a2 EXCEPT ![p] = src]
  /\ dom' = [dom EXCEPT ![p] = src]
  /\ a2_read_requested' = [a2_read_requested EXCEPT ![p] = FALSE]
  /\ EndVisit
  /\ UNCHANGED <<present, retry, optical, a0, connector, retry_count>>

ReadA2 ==
  LET p == cur IN
  /\ pc = "readA2"
  /\ \/ /\ Readable(p)
        /\ A2Done(p, slot[p])
        /\ UNCHANGED faults
     \/ /\ IF Readable(p) THEN Fault(1) ELSE UNCHANGED faults
        /\ IF retry_count > 0
           THEN /\ retry_count' = retry_count - 1
                /\ UNCHANGED <<rec, cur, pc>>
           ELSE A2Done(p, Filler)
  /\ UNCHANGED <<slot, inReset, scan>>

(***************************************************************************)
(* Specification.                                                          *)
(***************************************************************************)
Init ==
  /\ slot \in [Ports -> Modules \cup {NoModule}]
  /\ \A p \in Ports : slot[p] # NoModule => Family[slot[p]] = Connector[p]
  /\ \A p, q \in Ports : p # q /\ slot[p] # NoModule => slot[p] # slot[q]
  \* ovsdb_if_intf_create clears reset; the write may have failed
  /\ inReset \in [Ports -> BOOLEAN]
  /\ \A p \in Ports : inReset[p] => Connector[p] \in {"QSFP_PLUS", "QSFP28"}
  /\ faults = 0
  /\ present = [p \in Ports |-> FALSE]
  /\ retry = [p \in Ports |-> FALSE]
  /\ a2_read_requested = [p \in Ports |-> FALSE]
  /\ optical = [p \in Ports |-> FALSE]
  /\ a0 = [p \in Ports |-> NoPage]
  /\ connector = [p \in Ports |-> "none"]
  /\ a2 = [p \in Ports |-> NoModule]
  /\ dom = [p \in Ports |-> NoModule]
  /\ scan = {}
  /\ cur = NoPort
  /\ pc = "idle"
  /\ retry_count = RetryCount

Hardware == \E p \in Ports : Unplug(p) \/ \E m \in Modules : Plug(p, m)

Daemon ==
  \/ StartScan
  \/ \E p \in Ports : BeginVisit(p)
  \/ Presence \/ ReadA0 \/ Reset \/ ReadA2

Next == Daemon \/ Hardware

\* the poll loop wakes every PM_INTERVAL and every bus call returns
Spec == Init /\ [][Next]_vars /\ WF_vars(Daemon)

(***************************************************************************)
(* Properties.                                                             *)
(***************************************************************************)
TypeOK ==
  /\ slot \in [Ports -> Modules \cup {NoModule}]
  /\ inReset \in [Ports -> BOOLEAN]
  /\ faults \in 0..MaxFaults
  /\ present \in [Ports -> BOOLEAN]
  /\ retry \in [Ports -> BOOLEAN]
  /\ a2_read_requested \in [Ports -> BOOLEAN]
  /\ optical \in [Ports -> BOOLEAN]
  /\ a0 \in [Ports -> Buffers]
  /\ connector \in [Ports -> ConnectorValues]
  /\ a2 \in [Ports -> Modules \cup {NoModule, Filler}]
  /\ dom \in [Ports -> Modules \cup {NoModule, Filler}]
  /\ scan \subseteq Ports
  /\ cur \in Ports \cup {NoPort}
  /\ pc \in {"idle", "presence", "readA0", "reset", "readA2"}
  /\ retry_count \in 0..RetryCount

(***************************************************************************)
(* The identity columns only ever hold a page that came off the bus        *)
(* intact: pm_read_module_state rejects a failed pm_read_a0 (rc != 0) and  *)
(* a page failing sfpp_sum_verify, and retries or falls back to "unknown"  *)
(* with the data deleted, so a garbled or unread buffer is never parsed.   *)
(***************************************************************************)
IdentityIsGenuine ==
  \A p \in Ports : a0[p].src \in {"none", "bus"}

(***************************************************************************)
(* A diagnostics request never outlives the visit that raised it:          *)
(* set_a2_read_request in one visit is followed, in the same call of       *)
(* pm_read_module_state, by the A2 read and "a2_read_requested = false",   *)
(* whatever the bus does (spec 3: cleared exactly once after the attempt). *)
(***************************************************************************)
DomRequestServiced ==
  \A p \in Ports : p # cur => ~a2_read_requested[p]

DomMatchesIdentity ==
  \A p \in Ports : dom[p] \in {NoModule, Filler, a0[p].mod}

(***************************************************************************)
(* Whatever module sits in a port is eventually the one the identity       *)
(* columns describe, unless it is pulled: pm_read_module_state re-reads A0 *)
(* only when port->present is false or port->retry is set.                 *)
(***************************************************************************)
IdentityConverges ==
  \A p \in Ports, m \in Modules :
    slot[p] = m ~> (slot[p] # m \/ a0[p].mod = m)
=============================================================================
