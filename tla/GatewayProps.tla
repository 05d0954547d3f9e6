--------------------------- MODULE GatewayProps ---------------------------
(***************************************************************************)
(* What the Go service must guarantee.                                     *)
(***************************************************************************)
EXTENDS Gateway

InSection(t) == pc[t] \in ConnectSection \cup DisconnectSection

(* A process that is alive and has not been told to end. *)
Loose(p) == proc[p].st = "live" /\ ~proc[p].told

(* Start of thread t has launched process p and not yet published it. *)
Launching(t, p) == pc[t] = "s_publish" /\ slot[t] = p

(* opMu keeps Connect and Disconnect apart, whoever calls them: a thread   *)
(* is between Lock and Unlock exactly when it holds the mutex.             *)
OneOperator == \A t \in Thread : InSection(t) <=> opMu = t

(* Manager.cmd and Manager.nodeID always speak of the same, not yet        *)
(* stopped process, although Stop runs without opMu in the health loop     *)
(* and Wait goroutines of older processes run at any time.                 *)
FieldsAgree ==
  /\ cmd = None <=> nodeID = None
  /\ cmd # None => /\ proc[cmd].st # "free"
                   /\ proc[cmd].node = nodeID
                   /\ ~proc[cmd].told

(* No OpenVPN process escapes: one that nobody told to end is the managed  *)
(* one, or is about to be published by the thread that holds opMu.  Hence  *)
(* there is never more than one.                                           *)
NoOrphan ==
  \A p \in Proc : Loose(p) =>
    \/ cmd = p
    \/ \E t \in Thread : opMu = t /\ Launching(t, p)

(* While no operation is in progress, a running tunnel belongs to the node *)
(* state.json reports as active.                                           *)
ReportedNodeRuns == opMu = None /\ Running => reported = nodeID

(* When Disconnect is about to report success there is no tunnel and no    *)
(* service-owned route, and nobody can have started a new one.             *)
DisconnectIsEffective ==
  \A t \in Thread : pc[t] = "d_state" => ~Running /\ routes = "none"

(* A connect that reports success reports its own node: by then the tunnel *)
(* is the one it started, or it has been taken down, but never another.    *)
SuccessIsOwnTunnel ==
  \A t \in Thread : pc[t] \in {"c_route", "c_done"} =>
    cmd = None \/ (cmd = slot[t] /\ nodeID = target[t])

(* The parts of the invariant behind the properties above.                 *)

(* A free slot is blank; the managed process is the one that has been      *)
(* published and not been told to end; one that has not been published     *)
(* belongs to the Start that launched it.                                  *)
Accounted(p) ==
  /\ proc[p].st = "free" => proc[p] = FreeSlot
  /\ proc[p].told => proc[p].waited
  /\ cmd = p <=> proc[p].waited /\ ~proc[p].told
  /\ proc[p].st # "free" /\ ~proc[p].waited => \E t \in Thread : Launching(t, p)

SlotsAccounted == \A p \in Proc : Accounted(p)

(* What a thread knows between two steps of Connect or Disconnect. *)
StartKnows(t) ==
  /\ pc[t] \in {"s_spawn", "s_publish", "c_mark", "c_failed"} => cmd = None
  /\ pc[t] = "s_publish" =>
       /\ slot[t] # None
       /\ proc[slot[t]].st # "free"
       /\ ~proc[slot[t]].waited
       /\ proc[slot[t]].node = target[t]
  /\ pc[t] \in {"s_await", "c_route", "c_done"} =>
       cmd = None \/ (cmd = slot[t] /\ nodeID = target[t])

ThreadKnows(t) ==
  /\ pc[t] \in ConnectSection \cup {"c_lock"} => target[t] # None
  /\ pc[t] \in {"c_pin", "u_routing"} => copy[t] \in Routing
  /\ pc[t] \in {"c_mode", "c_copy", "c_pin", "c_config"} /\ Running =>
       reported = nodeID
  /\ pc[t] \in {"d_stop", "d_state"} => routes = "none"
  /\ pc[t] = "d_state" => cmd = None

(* How the manager, opMu, state.json and the threads fit together. *)
Coherent ==
  /\ OneOperator
  /\ FieldsAgree
  /\ SlotsAccounted
  /\ ReportedNodeRuns
  /\ \A t \in Thread : StartKnows(t) /\ ThreadKnows(t)

(* Every step of the service preserves this invariant, and the safety      *)
(* properties above follow from it.                                        *)
IInv == TypeOK /\ Coherent

(* The process that a Start is about to publish, and the processes that    *)
(* have been told to end.                                                  *)
BeingLaunched ==
  IF \E t \in Thread : pc[t] = "s_publish"
  THEN slot[CHOOSE t \in Thread : pc[t] = "s_publish"]
  ELSE None

Condemned == { p \in Proc : proc[p].told }

Supervisor == INSTANCE TunnelSupervisor WITH
  managed <- cmd, launching <- BeingLaunched, condemned <- Condemned

(* The service implements the promise of TunnelSupervisor: whatever the    *)
(* threads do, processes are launched one at a time, managed at most once, *)
(* never swapped in place, and given up before the next one is launched.   *)
KeepsPromise == Supervisor!Spec

-----------------------------------------------------------------------------
(* Liveness.  A thread that has begun an operation goes on with it: every  *)
(* wait in it is bounded by a timeout (25 s for the fetch, the OpenVPN     *)
(* timeout, 2 s per ip command); where launches do not fail (StartFails is *)
(* FALSE), a live process reports in time that it is ready.  Waiting for   *)
(* opMu is fair: a Go mutex is handed to a waiter of more than 1 ms.  A    *)
(* process that has been told to end is killed by the end of its context,  *)
(* and Wait returns.  The ticker of the maintain loop keeps ticking.       *)
(* Nothing is assumed of users, of the health loop's ticks and verdicts,   *)
(* of nodes or of backoffs.                                                *)
Fairness ==
  /\ \A t \in Thread :
       /\ WF_vars(Progress(t))
       /\ WF_vars(\E outcome \in {"ok", "err"} : WatchStreams(t, outcome))
       /\ SF_vars(ConnectLock(t) \/ DisconnectLock(t))
  /\ \A p \in Proc :
       /\ WF_vars(proc[p].told /\ ProcessExit(p))
       /\ WF_vars(ProcessReap(p))
  /\ WF_vars(MaintainTick)

FairSpec == Spec /\ Fairness

(* Every request, refresh or recovery that was begun comes to its end, so  *)
(* no two of them wait for each other and opMu is always given back.       *)
OperationsEnd == \A t \in Thread : pc[t] # "idle" ~> pc[t] = "idle"

(* The web page polls is_connecting and shows a spinner while it is true:  *)
(* it does not stay true for ever, on any path through Connect.            *)
SpinnerStops == connecting ~> ~connecting

(* With AutoConnect, a tunnel that is gone, whether its process died, the  *)
(* health loop gave it up or a user disconnected it, is in time followed   *)
(* by a new process, provided fetches succeed and processes start.         *)
TunnelIsRestored ==
  (\A p \in Proc : ~Loose(p)) ~> (\E p \in Proc : Loose(p))

(* A process that has been given up on does not stay. *)
CondemnedEnd == \A p \in Proc : proc[p].told ~> proc[p].st = "free"
=============================================================================
