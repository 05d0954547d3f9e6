--------------------------- MODULE OpenVPNManager ---------------------------
(***************************************************************************)
(* openvpn.Manager (internal/openvpn/openvpn.go): the fields guarded by    *)
(* m.mu and the OpenVPN processes the manager has launched.                *)
(*                                                                         *)
(* A process slot is used again once its process is gone and its Wait      *)
(* goroutine has run, so that finitely many slots carry an endless run.    *)
(* The cancel function is created, published and cleared together with     *)
(* cmd and is therefore not a variable of its own.                         *)
(***************************************************************************)
EXTENDS VPNNodes

CONSTANTS
  Proc,       \* process slots
  SelfExit    \* may OpenVPN exit although nobody told it to?

ASSUME ManagerAssumption == None \notin Proc /\ SelfExit \in BOOLEAN

VARIABLES
  cmd,      \* Manager.cmd: the managed process or None
  nodeID,   \* Manager.nodeID
  proc      \* per slot, the process that occupies it

mgrVars == <<cmd, nodeID, proc>>

(* told: terminateProcess has cancelled and interrupted it.                *)
(* waited: Start has reached the Wait goroutine.                           *)
ProcState ==
  [st: {"free", "live", "exited"}, node: Node \cup {None},
   told: BOOLEAN, waited: BOOLEAN]

FreeSlot == [st |-> "free", node |-> None, told |-> FALSE, waited |-> FALSE]

ManagerTypeOK ==
  /\ cmd \in Proc \cup {None}
  /\ nodeID \in Node \cup {None}
  /\ proc \in [Proc -> ProcState]

ManagerInit ==
  /\ cmd = None
  /\ nodeID = None
  /\ proc = [p \in Proc |-> FreeSlot]

Running == cmd # None
-----------------------------------------------------------------------------
(* Manager.Stop: take the managed process out of the fields and tell it to *)
(* end.  The interrupt follows the critical section; the process dies some *)
(* time after either, so the two are one step.                             *)
Stop ==
  /\ cmd' = None
  /\ nodeID' = None
  /\ proc' = IF cmd = None THEN proc ELSE [proc EXCEPT ![cmd].told = TRUE]

(* The part of Start that launches the process ... *)
Spawn(p, n) ==
  /\ proc[p].st = "free"
  /\ proc' = [proc EXCEPT ![p] = [st |-> "live", node |-> n,
                                  told |-> FALSE, waited |-> FALSE]]
  /\ UNCHANGED <<cmd, nodeID>>

(* ... and the part that publishes it and starts the Wait goroutine. *)
Publish(p) ==
  /\ cmd' = p
  /\ nodeID' = proc[p].node
  /\ proc' = [proc EXCEPT ![p].waited = TRUE]

(* The process ends: because it was told to, or on its own. *)
Exit(p) ==
  /\ proc[p].st = "live"
  /\ proc[p].told \/ SelfExit
  /\ proc' = [proc EXCEPT ![p].st = "exited"]
  /\ UNCHANGED <<cmd, nodeID>>

(* Faulty Wait goroutines, which the properties must tell from Reap: one   *)
(* clears the fields whoever they belong to, one clears neither, one cares *)
(* only for the managed process.                                           *)
ReapAny(p) ==
  /\ proc[p].st = "exited" /\ proc[p].waited
  /\ proc' = [proc EXCEPT ![p] = FreeSlot]
  /\ cmd' = None /\ nodeID' = None

ReapKeepsFields(p) ==
  /\ proc[p].st = "exited" /\ proc[p].waited /\ cmd # p
  /\ proc' = [proc EXCEPT ![p] = FreeSlot]
  /\ UNCHANGED <<cmd, nodeID>>

ReapManagedOnly(p) ==
  /\ proc[p].st = "exited" /\ cmd = p
  /\ proc' = [proc EXCEPT ![p] = FreeSlot]
  /\ cmd' = None /\ nodeID' = None

(* The Wait goroutine of Start clears the fields only if they still belong *)
(* to its own process.                                                     *)
Reap(p) ==
  /\ proc[p].st = "exited"
  /\ proc[p].waited
  /\ proc' = [proc EXCEPT ![p] = FreeSlot]
  /\ IF cmd = p
     THEN cmd' = None /\ nodeID' = None
     ELSE UNCHANGED <<cmd, nodeID>>
=============================================================================
