----------------------------- MODULE PortRecord -----------------------------
(***************************************************************************)
(* What the acquisition state machine promises about one port's record     *)
(* (spec sections 3 and 4.5), with no bus, retry or visit structure:       *)
(*   - a port is Absent, IdentityPending or IdentityAcquired;              *)
(*   - an identity is taken only from the module in the port, and only     *)
(*     when the port is Absent or pending: an acquired identity is never   *)
(*     replaced without the port first going through Absent or pending;    *)
(*   - a diagnostics request is raised only by a successful identity read, *)
(*     is serviced eventually, and the diagnostics then come from the      *)
(*     module in the port or are the all-0xFF filler.                      *)
(* The DOM columns are left alone when the port goes Absent: the code      *)
(* keeps them (pm_delete_all_data), which the run dom_identity reports.    *)
(***************************************************************************)
CONSTANTS Ports, Modules, NoModule, Filler

VARIABLES
  slot,          \* the module in each port (the environment)
  state,         \* "Absent", "IdentityPending" or "IdentityAcquired"
  identity,      \* the module the identity columns describe, or NoModule
  domRequested,  \* diagnostics requested and not yet serviced
  dom            \* the module whose diagnostics the DOM columns hold, or Filler

vars == <<slot, state, identity, domRequested, dom>>

States == {"Absent", "IdentityPending", "IdentityAcquired"}

Init ==
  /\ slot \in [Ports -> Modules \cup {NoModule}]
  /\ state = [p \in Ports |-> "Absent"]
  /\ identity = [p \in Ports |-> NoModule]
  /\ domRequested = [p \in Ports |-> FALSE]
  /\ dom = [p \in Ports |-> NoModule]

\* modules come and go
Environment ==
  /\ slot' \in [Ports -> Modules \cup {NoModule}]
  /\ UNCHANGED <<state, identity, domRequested, dom>>

\* step 1: presence lost, decoded identity cleared
GoAbsent(p) ==
  /\ state' = [state EXCEPT ![p] = "Absent"]
  /\ identity' = [identity EXCEPT ![p] = NoModule]
  /\ UNCHANGED <<slot, domRequested, dom>>

\* step 2: the identity read failed for good this cycle
IdentityFailed(p) ==
  /\ state[p] \in {"Absent", "IdentityPending"}
  /\ state' = [state EXCEPT ![p] = "IdentityPending"]
  /\ identity' = [identity EXCEPT ![p] = NoModule]
  /\ UNCHANGED <<slot, domRequested, dom>>

\* step 3: the module in the port identified, diagnostics perhaps requested
IdentityAcquired(p) ==
  /\ state[p] \in {"Absent", "IdentityPending"}
  /\ slot[p] # NoModule
  /\ state' = [state EXCEPT ![p] = "IdentityAcquired"]
  /\ identity' = [identity EXCEPT ![p] = slot[p]]
  /\ domRequested' \in {domRequested, [domRequested EXCEPT ![p] = TRUE]}
  /\ UNCHANGED <<slot, dom>>

\* step 4: the request serviced from the module in the port or the filler
DomServiced(p) ==
  /\ domRequested[p]
  /\ dom' \in {[dom EXCEPT ![p] = d] : d \in ({slot[p]} \ {NoModule}) \cup {Filler}}
  /\ domRequested' = [domRequested EXCEPT ![p] = FALSE]
  /\ UNCHANGED <<slot, state, identity>>

Next ==
  \/ Environment
  \/ \E p \in Ports :
       GoAbsent(p) \/ IdentityFailed(p) \/ IdentityAcquired(p) \/ DomServiced(p)

Spec ==
  Init /\ [][Next]_vars /\ \A p \in Ports : WF_vars(DomServiced(p))

=============================================================================
