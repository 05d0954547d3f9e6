----------------------------- MODULE PyManager -----------------------------
(***************************************************************************)
(* The tunnel life cycle of the Python service, vpngate_manager.py:        *)
(* connect_node, auto_switch_node, maintain_valid_nodes and                *)
(* stop_active_openvpn, run by the collector, the proxy checker, one       *)
(* thread per HTTP request and two kinds of background threads.            *)
(*                                                                         *)
(* A Thread is a slot: at most Cardinality(Thread) of the service's        *)
(* threads are inside this code at once, the others sleep or have yet to   *)
(* be scheduled.  A step is a section between two points where a thread    *)
(* can wait (the module's lock, a subprocess, the network) or where        *)
(* another thread's assignment matters.  A step that reads or writes       *)
(* nodes.json or state.json needs the lock, which is reentrant (Free).     *)
(*                                                                         *)
(* Not kept: state.json's messages, logs, latencies (a selection is any    *)
(* of the candidates), configuration files (a launch may fail for any      *)
(* reason).  A signalled OpenVPN process is gone at once: stop_process     *)
(* waits for it, and a slow end after pkill shows only as one more failing *)
(* launch.                                                                 *)
(***************************************************************************)
EXTENDS Naturals, FiniteSets

CONSTANTS
  Node,        \* ids of VPNGate nodes
  Region,      \* the nodes in the country fixed_region mode asks for
  Thread,      \* slots for threads at work
  None,
  Modes,       \* routing modes the settings may hold
  MaxTries,    \* attempts of auto_switch_node (3 in the source)
  Activity,    \* which activities occur in an instance
  SelfExit,    \* whether an OpenVPN process may end on its own
  RoutesFail   \* whether setup_policy_routing may fail

AllModes == {"auto", "fixed_ip", "fixed_region"}

ASSUME NoneAssumption == None \notin Node \cup Thread
ASSUME RegionAssumption == Region \subseteq Node
ASSUME ModesAssumption == Modes \subseteq AllModes /\ Modes # {}
ASSUME TriesAssumption == MaxTries \in Nat \ {0}
ASSUME FlagsAssumption == SelfExit \in BOOLEAN /\ RoutesFail \in BOOLEAN

VARIABLES
  lock,        \* holder of the module's RLock across steps, or None
  connecting,  \* is_connecting
  activeId,    \* active_openvpn_node_id
  proc,        \* active_openvpn_process: the thread that launched it, or None
  live,        \* threads whose tun0 OpenVPN process is alive
  ready,       \* those of them that are initialised and own tun0
  routes,      \* whether table 100 and its rule are in place
  listed,      \* nodes.json: the nodes,
  avail,       \*   those with probe_status "available",
  flagged,     \*   and the one with active set
  mode,        \* routing_mode in ui_auth.json
  pending,     \* background threads started and not yet scheduled
  pc, job, phase, tries, target, after, snap

global == <<connecting, activeId, proc>>
procs  == <<live, ready>>
nodes  == <<listed, avail, flagged>>
locals == <<job, phase, tries, target, after, snap>>
vars   == <<lock, global, procs, routes, nodes, mode, pending, pc, locals>>

Job   == {"none", "request", "maintain", "check", "fetchswitch"}
Phase == {"direct", "early", "final"}   \* who called auto_switch_node
After == {"none", "c_spawn", "d_nodes", "a_clear", "m_fetch", "m_lost"}
Label == {"idle", "c_enter", "c_read", "c_spawn", "c_wait", "c_said", "c_pub", "c_routes", "c_save",
          "c_ok", "c_fail", "c_drop", "c_raise", "s_clean", "s_stop", "s_kill", "d_nodes",
          "a_begin", "a_clear", "m_begin", "m_check", "m_force", "m_dead", "m_lost", "m_again", "m_fetch",
          "m_select", "m_tested", "m_quiet", "m_decide", "m_end", "k_result", "k_mark"}
Snapshot == [listed: SUBSET Node, avail: SUBSET Node]
NoNodes == [listed |-> {}, avail |-> {}]
-----------------------------------------------------------------------------
Goto(t, l) == pc' = [pc EXCEPT ![t] = l]
Free(t) == lock \in {None, t}
Running == proc # None /\ proc \in live
Kill(S) == live' = live \ S /\ ready' = ready \ S

\* A thread that returns from its outermost call answers its request or sleeps.
Return(t, l) ==
  /\ Goto(t, l)
  /\ job' = IF l = "idle" THEN [job EXCEPT ![t] = "none"] ELSE job

\* What auto_switch_node and maintain_valid_nodes return to.
AutoReturn(t) ==
  CASE phase[t] = "early" -> "m_again"
    [] phase[t] = "final" -> "m_end"
    [] OTHER -> "idle"
MaintainReturn(t) == IF job[t] = "fetchswitch" THEN "a_begin" ELSE "idle"

Init ==
  /\ lock = None
  /\ connecting = TRUE
  /\ activeId = None
  /\ proc = None
  /\ live = {}
  /\ ready = {}
  /\ routes = FALSE
  /\ listed \in SUBSET Node
  /\ avail \in SUBSET listed
  /\ flagged \in listed \cup {None}
  /\ mode \in Modes
  /\ pending = {}
  /\ \E t \in Thread :
       /\ pc = [u \in Thread |-> IF u = t THEN "m_begin" ELSE "idle"]
       /\ job = [u \in Thread |-> IF u = t THEN "maintain" ELSE "none"]
  /\ phase = [t \in Thread |-> "direct"]
  /\ tries = [t \in Thread |-> 0]
  /\ target = [t \in Thread |-> None]
  /\ after = [t \in Thread |-> "none"]
  /\ snap = [t \in Thread |-> NoNodes]
-----------------------------------------------------------------------------
(* How an activity starts: a tick of one of the two loops, an HTTP request *)
(* that is past is_authorized, or a background thread being scheduled.     *)
Begin(t, j, l) ==
  /\ pc[t] = "idle"
  /\ job' = [job EXCEPT ![t] = j]
  /\ Goto(t, l)
  /\ UNCHANGED <<lock, global, procs, routes, nodes, mode>>

\* The collector loop, or a thread of the refresh request.
MaintainTick(t) ==
  /\ "maintain" \in Activity
  /\ Begin(t, "maintain", "m_begin")
  /\ UNCHANGED <<pending, phase, tries, target, after, snap>>

CheckerTick(t) ==
  /\ "check" \in Activity
  /\ \A u \in Thread : job[u] # "check"
  /\ ~connecting
  /\ Begin(t, "check", "k_result")
  /\ UNCHANGED <<pending, phase, tries, target, after, snap>>

UserConnect(t) ==
  /\ "connect" \in Activity
  /\ Begin(t, "request", "c_enter")
  /\ \E n \in Node : target' = [target EXCEPT ![t] = n]
  /\ UNCHANGED <<pending, phase, tries, after, snap>>

UserDisconnect(t) ==
  /\ "disconnect" \in Activity
  /\ Begin(t, "request", "s_clean")
  /\ after' = [after EXCEPT ![t] = "d_nodes"]
  /\ UNCHANGED <<pending, phase, tries, target, snap>>

UserCheck(t) ==
  /\ "force" \in Activity
  /\ Begin(t, "maintain", "m_check")
  /\ UNCHANGED <<pending, phase, tries, target, after, snap>>

\* reconnect_bg reads the node to connect to when it runs.
ReconnectBg(t) ==
  /\ "reconnect" \in pending
  /\ pending' = pending \ {"reconnect"}
  /\ Begin(t, "request", "c_enter")
  /\ target' = [target EXCEPT ![t] = activeId]
  /\ UNCHANGED <<phase, tries, after, snap>>

FetchAndSwitchBg(t) ==
  /\ "fetchswitch" \in pending
  /\ pending' = pending \ {"fetchswitch"}
  /\ Begin(t, "fetchswitch", "m_begin")
  /\ UNCHANGED <<phase, tries, target, after, snap>>

-----------------------------------------------------------------------------
(* stop_active_openvpn, called by connect_node, the disconnect request,    *)
(* auto_switch_node and maintain_valid_nodes; after[t] is where it goes on.*)
StopRoutes(t) ==
  /\ pc[t] = "s_clean"
  /\ routes' = FALSE
  /\ Goto(t, "s_stop")
  /\ UNCHANGED <<lock, global, procs, nodes, mode, pending, locals>>

\* It reads nodes.json for the configuration file to delete, if there is an id.
StopProcess(t) ==
  /\ pc[t] = "s_stop"
  /\ activeId = None \/ Free(t)
  /\ Kill({proc})
  /\ proc' = None
  /\ activeId' = None
  /\ Goto(t, "s_kill")
  /\ UNCHANGED <<lock, connecting, routes, nodes, mode, pending, locals>>

\* The bug of doing without pkill: only the published process is stopped.
StopKillOwn(t) ==
  /\ pc[t] = "s_kill"
  /\ lock' = IF after[t] \in {"m_fetch", "m_lost"} THEN None ELSE lock
  /\ Goto(t, after[t])
  /\ after' = [after EXCEPT ![t] = "none"]
  /\ UNCHANGED <<global, procs, routes, nodes, mode, pending, job, phase, tries, target, snap>>

\* kill_existing_openvpn_processes: pkill finds every tun0 process.
\* maintain_valid_nodes calls it all with the lock held and then releases it.
StopKillAll(t) ==
  /\ pc[t] = "s_kill"
  /\ Kill(Thread)
  /\ lock' = IF after[t] \in {"m_fetch", "m_lost"} THEN None ELSE lock
  /\ Goto(t, after[t])
  /\ after' = [after EXCEPT ![t] = "none"]
  /\ UNCHANGED <<global, routes, nodes, mode, pending, job, phase, tries, target, snap>>

StopStep(t) == StopRoutes(t) \/ StopProcess(t) \/ StopKillAll(t)
-----------------------------------------------------------------------------
(* connect_node.  A direct call ends its thread; auto_switch_node goes on  *)
(* with its caller, or with its next attempt after an exception.           *)
ConnectReturns(t, ok) ==
  LET again == job[t] # "request" /\ ~ok
  IN /\ Return(t, IF again THEN "a_begin" ELSE AutoReturn(t))
     /\ tries' = [tries EXCEPT ![t] = IF again THEN @ + 1 ELSE 0]
     /\ target' = [target EXCEPT ![t] = None]
     /\ snap' = [snap EXCEPT ![t] = NoNodes]

AlreadyConnecting(t) ==
  /\ pc[t] = "c_enter" /\ Free(t)
  /\ connecting
  /\ ConnectReturns(t, TRUE)
  /\ UNCHANGED <<lock, global, procs, routes, nodes, mode, pending, phase, after>>

ConnectEnter(t) ==
  /\ pc[t] = "c_enter" /\ Free(t)
  /\ ~connecting
  /\ connecting' = TRUE
  /\ activeId' = target[t]
  /\ Goto(t, "c_read")
  /\ UNCHANGED <<lock, proc, procs, routes, nodes, mode, pending, locals>>

\* An unknown node is an exception; activeId keeps its id.
ConnectRead(t) ==
  /\ pc[t] = "c_read" /\ Free(t)
  /\ IF target[t] \in listed
       THEN /\ snap' = [snap EXCEPT ![t] = [listed |-> listed, avail |-> avail]]
            /\ after' = [after EXCEPT ![t] = "c_spawn"]
            /\ Goto(t, "s_clean")
       ELSE Goto(t, "c_raise") /\ UNCHANGED <<snap, after>>
  /\ UNCHANGED <<lock, global, procs, routes, nodes, mode, pending, job, phase, tries, target>>

\* The configuration cannot be written, or OpenVPN cannot be launched, or it is.
ConnectLaunch(t) ==
  /\ pc[t] = "c_spawn" /\ Free(t)
  /\ \/ Goto(t, "c_raise") /\ UNCHANGED procs
     \/ Goto(t, "c_fail") /\ UNCHANGED procs
     \/ Goto(t, "c_wait") /\ live' = live \cup {t} /\ UNCHANGED ready
  /\ UNCHANGED <<lock, global, routes, nodes, mode, pending, locals>>

\* run_openvpn_until_ready reads the line, even of a process that has died since.
ConnectReady(t) ==
  /\ pc[t] = "c_said" /\ Free(t)
  /\ Goto(t, "c_pub")
  /\ UNCHANGED <<lock, global, procs, routes, nodes, mode, pending, locals>>

\* The bug of a failed launch that is reported and not stopped.
ConnectNotReadyLeft(t) ==
  /\ pc[t] \in {"c_wait", "c_said"}
  /\ Goto(t, "c_fail")
  /\ UNCHANGED <<lock, global, procs, routes, nodes, mode, pending, locals>>

\* Timeout, a fatal line or the end of its output: the process is stopped.
ConnectNotReady(t) ==
  /\ pc[t] \in {"c_wait", "c_said"}
  /\ Kill({t})
  /\ Goto(t, "c_fail")
  /\ UNCHANGED <<lock, global, routes, nodes, mode, pending, locals>>

\* Its copy of nodes.json, read before the launch, replaces the file.
ConnectFailed(t) ==
  /\ pc[t] = "c_fail" /\ Free(t)
  /\ listed' = snap[t].listed
  /\ avail' = snap[t].avail \ {target[t]}
  /\ flagged' = None
  /\ Goto(t, "c_drop")
  /\ UNCHANGED <<lock, global, procs, routes, mode, pending, locals>>

ConnectDropId(t) ==
  /\ pc[t] = "c_drop" /\ Free(t)
  /\ activeId' = None
  /\ Goto(t, "c_raise")
  /\ UNCHANGED <<lock, connecting, proc, procs, routes, nodes, mode, pending, locals>>

ConnectPublish(t) ==
  /\ pc[t] = "c_pub"
  /\ proc' = t
  /\ activeId' = target[t]
  /\ Goto(t, "c_routes")
  /\ UNCHANGED <<lock, connecting, procs, routes, nodes, mode, pending, locals>>

\* setup_policy_routing tries three times; failing is only reported.
ConnectRoutes(t) ==
  /\ pc[t] = "c_routes" /\ Free(t)
  /\ routes' \in IF RoutesFail THEN BOOLEAN ELSE {TRUE}
  /\ Goto(t, "c_save")
  /\ UNCHANGED <<lock, global, procs, nodes, mode, pending, locals>>

ConnectSave(t) ==
  /\ pc[t] = "c_save" /\ Free(t)
  /\ listed' = snap[t].listed
  /\ avail' = snap[t].avail
  /\ flagged' = target[t]
  /\ Goto(t, "c_ok")
  /\ UNCHANGED <<lock, global, procs, routes, mode, pending, locals>>

\* The bug of a flag that is cleared without "finally".
ConnectFinallyOnReturn(t) ==
  /\ pc[t] \in {"c_ok", "c_raise"} /\ Free(t)
  /\ connecting' = (connecting /\ pc[t] = "c_raise")
  /\ ConnectReturns(t, pc[t] = "c_ok")
  /\ UNCHANGED <<lock, activeId, proc, procs, routes, nodes, mode, pending, phase, after>>

\* finally, after a return and after an exception.
ConnectFinally(t) ==
  /\ pc[t] \in {"c_ok", "c_raise"} /\ Free(t)
  /\ connecting' = FALSE
  /\ ConnectReturns(t, pc[t] = "c_ok")
  /\ UNCHANGED <<lock, activeId, proc, procs, routes, nodes, mode, pending, phase, after>>

ConnectStep(t) ==
  \/ AlreadyConnecting(t) \/ ConnectEnter(t) \/ ConnectRead(t) \/ ConnectLaunch(t)
  \/ ConnectReady(t) \/ ConnectNotReady(t) \/ ConnectFailed(t) \/ ConnectDropId(t)
  \/ ConnectPublish(t) \/ ConnectRoutes(t) \/ ConnectSave(t) \/ ConnectFinally(t)

\* The disconnect request, after stop_active_openvpn.
DisconnectNodes(t) ==
  /\ pc[t] = "d_nodes" /\ Free(t)
  /\ flagged' = None
  /\ Return(t, "idle")
  /\ UNCHANGED <<lock, global, procs, routes, listed, avail, mode, pending, phase, tries, target, after, snap>>
-----------------------------------------------------------------------------
(* auto_switch_node.  A recursive call is the next attempt of the same     *)
(* thread; a fixed_ip reconnect runs in a thread of its own.               *)
AutoReturns(t) ==
  /\ Return(t, AutoReturn(t))
  /\ tries' = [tries EXCEPT ![t] = 0]
  /\ UNCHANGED <<phase, target, after, snap>>

Candidates ==
  { n \in listed \cap avail : n # flagged /\ (mode = "fixed_region" => n \in Region) }

SwitchGivesUp(t) ==
  /\ pc[t] = "a_begin"
  /\ tries[t] >= MaxTries
  /\ AutoReturns(t)
  /\ UNCHANGED <<lock, global, procs, routes, nodes, mode, pending>>

SwitchFixedIp(t) ==
  /\ pc[t] = "a_begin" /\ Free(t)
  /\ tries[t] < MaxTries
  /\ mode = "fixed_ip"
  /\ pending' = IF activeId # None /\ ~Running THEN pending \cup {"reconnect"} ELSE pending
  /\ AutoReturns(t)
  /\ UNCHANGED <<lock, global, procs, routes, nodes, mode>>

\* The bug of a recursion that does not count its attempts.
SwitchPickUncounted(t) ==
  /\ pc[t] = "a_begin" /\ Free(t)
  /\ mode # "fixed_ip"
  /\ \E n \in Candidates : target' = [target EXCEPT ![t] = n]
  /\ Goto(t, "c_enter")
  /\ UNCHANGED <<lock, global, procs, routes, nodes, mode, pending, job, phase, tries, after, snap>>

SwitchPick(t) ==
  /\ pc[t] = "a_begin" /\ Free(t)
  /\ tries[t] < MaxTries
  /\ mode # "fixed_ip"
  /\ \E n \in Candidates : target' = [target EXCEPT ![t] = n]
  /\ Goto(t, "c_enter")
  /\ UNCHANGED <<lock, global, procs, routes, nodes, mode, pending, job, phase, tries, after, snap>>

SwitchStop(t) ==
  /\ pc[t] = "a_begin" /\ Free(t)
  /\ tries[t] < MaxTries
  /\ mode # "fixed_ip"
  /\ Candidates = {}
  /\ after' = [after EXCEPT ![t] = "a_clear"]
  /\ Goto(t, "s_clean")
  /\ UNCHANGED <<lock, global, procs, routes, nodes, mode, pending, job, phase, tries, target, snap>>

\* Nobody is active; bg_fetch_and_switch is started.
SwitchFetch(t) ==
  /\ pc[t] = "a_clear" /\ Free(t)
  /\ flagged' = None
  /\ pending' = pending \cup {"fetchswitch"}
  /\ AutoReturns(t)
  /\ UNCHANGED <<lock, global, procs, routes, listed, avail, mode>>

SwitchStep(t) ==
  SwitchGivesUp(t) \/ SwitchFixedIp(t) \/ SwitchPick(t) \/ SwitchStop(t) \/ SwitchFetch(t)
-----------------------------------------------------------------------------
(* maintain_valid_nodes *)
MaintainBegin(t) ==
  /\ pc[t] \in {"m_begin", "m_check"}
  /\ connecting' = TRUE
  /\ Goto(t, IF pc[t] = "m_check" THEN "m_force" ELSE IF Running THEN "m_fetch" ELSE "m_dead")
  /\ UNCHANGED <<lock, activeId, proc, procs, routes, nodes, mode, pending, locals>>

MaintainForce(t) ==
  /\ pc[t] = "m_force" /\ Free(t)
  /\ lock' = t
  /\ after' = [after EXCEPT ![t] = "m_fetch"]
  /\ Goto(t, "s_clean")
  /\ UNCHANGED <<global, procs, routes, nodes, mode, pending, job, phase, tries, target, snap>>

MaintainNoId(t) ==
  /\ pc[t] = "m_dead" /\ Free(t)
  /\ activeId = None
  /\ Goto(t, "m_fetch")
  /\ UNCHANGED <<lock, global, procs, routes, nodes, mode, pending, locals>>

\* The tunnel is gone without having been taken down.
MaintainDead(t) ==
  /\ pc[t] = "m_dead" /\ Free(t)
  /\ activeId # None
  /\ lock' = t
  /\ after' = [after EXCEPT ![t] = "m_lost"]
  /\ Goto(t, "s_clean")
  /\ UNCHANGED <<global, procs, routes, nodes, mode, pending, job, phase, tries, target, snap>>

MaintainSwitch(t) ==
  /\ pc[t] = "m_lost"
  /\ connecting' = FALSE
  /\ phase' = [phase EXCEPT ![t] = "early"]
  /\ Goto(t, "a_begin")
  /\ UNCHANGED <<lock, activeId, proc, procs, routes, nodes, mode, pending, job, tries, target, after, snap>>

MaintainAgain(t) ==
  /\ pc[t] = "m_again"
  /\ connecting' = TRUE
  /\ phase' = [phase EXCEPT ![t] = "direct"]
  /\ Goto(t, "m_fetch")
  /\ UNCHANGED <<lock, activeId, proc, procs, routes, nodes, mode, pending, job, tries, target, after, snap>>

MaintainNothing(t) ==
  /\ pc[t] = "m_fetch"
  /\ connecting' = FALSE
  /\ Return(t, MaintainReturn(t))
  /\ UNCHANGED <<lock, activeId, proc, procs, routes, nodes, mode, pending, phase, tries, target, after, snap>>

\* The active node keeps its entry; the others are new and not checked.
MaintainMerge(t) ==
  /\ pc[t] = "m_fetch" /\ Free(t)
  /\ LET kept == listed \cap {activeId}
     IN /\ \E fetched \in (SUBSET Node) \ {{}} : listed' = fetched \cup kept
        /\ avail' = avail \cap kept
        /\ flagged' = IF flagged \in kept THEN flagged ELSE None
  /\ Goto(t, "m_select")
  /\ UNCHANGED <<lock, global, procs, routes, mode, pending, locals>>

MaintainSelect(t) ==
  /\ pc[t] = "m_select" /\ Free(t)
  /\ snap' = [snap EXCEPT ![t].listed =
       { n \in listed \ {flagged} : mode = "fixed_region" => n \in Region }]
  /\ Goto(t, "m_tested")
  /\ UNCHANGED <<lock, global, procs, routes, nodes, mode, pending, job, phase, tries, target, after>>

MaintainTested(t) ==
  /\ pc[t] = "m_tested" /\ Free(t)
  /\ \E good \in SUBSET snap[t].listed :
       avail' = (avail \ snap[t].listed) \cup (good \cap listed)
  /\ snap' = [snap EXCEPT ![t] = NoNodes]
  /\ Goto(t, "m_quiet")
  /\ UNCHANGED <<lock, global, procs, routes, listed, flagged, mode, pending, job, phase, tries, target, after>>

MaintainQuiet(t) ==
  /\ pc[t] = "m_quiet"
  /\ connecting' = FALSE
  /\ Goto(t, "m_decide")
  /\ UNCHANGED <<lock, activeId, proc, procs, routes, nodes, mode, pending, locals>>

WantsSwitch ==
  /\ ~Running
  /\ IF mode = "fixed_ip" THEN activeId # None
     ELSE \E n \in listed \cap avail : mode = "fixed_region" => n \in Region

\* The switch, connect and all, happens with the lock held.
MaintainDecide(t) ==
  /\ pc[t] = "m_decide" /\ Free(t)
  /\ IF WantsSwitch
       THEN /\ lock' = t
            /\ phase' = [phase EXCEPT ![t] = "final"]
            /\ Return(t, "a_begin")
       ELSE /\ Return(t, MaintainReturn(t))
            /\ UNCHANGED <<lock, phase>>
  /\ UNCHANGED <<global, procs, routes, nodes, mode, pending, tries, target, after, snap>>

MaintainEnd(t) ==
  /\ pc[t] = "m_end"
  /\ lock' = None
  /\ phase' = [phase EXCEPT ![t] = "direct"]
  /\ Return(t, MaintainReturn(t))
  /\ UNCHANGED <<global, procs, routes, nodes, mode, pending, tries, target, after, snap>>

MaintainStep(t) ==
  \/ MaintainBegin(t) \/ MaintainForce(t) \/ MaintainNoId(t) \/ MaintainDead(t)
  \/ MaintainSwitch(t) \/ MaintainAgain(t) \/ MaintainNothing(t) \/ MaintainMerge(t) \/ MaintainSelect(t)
  \/ MaintainTested(t) \/ MaintainQuiet(t) \/ MaintainDecide(t) \/ MaintainEnd(t)
-----------------------------------------------------------------------------
(* background_proxy_checker, after check_proxy_health: the proxy answers   *)
(* through a tunnel that is up, or not at all.                             *)
CheckerOk(t) ==
  /\ pc[t] = "k_result" /\ Free(t)
  /\ ready # {}
  /\ Return(t, "idle")
  /\ UNCHANGED <<lock, global, procs, routes, nodes, mode, pending, phase, tries, target, after, snap>>

CheckerBad(t) ==
  /\ pc[t] = "k_result" /\ Free(t)
  /\ Return(t, IF activeId = None THEN "idle" ELSE "k_mark")
  /\ UNCHANGED <<lock, global, procs, routes, nodes, mode, pending, phase, tries, target, after, snap>>

CheckerMark(t) ==
  /\ pc[t] = "k_mark" /\ Free(t)
  /\ avail' = avail \ {activeId}
  /\ Goto(t, "a_begin")
  /\ UNCHANGED <<lock, global, procs, routes, listed, flagged, mode, pending, locals>>
-----------------------------------------------------------------------------
\* A process says it is initialised: it has tun0, which nobody else has.
ProcessReady(t) ==
  /\ pc[t] = "c_wait"
  /\ t \in live
  /\ ready = {}
  /\ ready' = {t}
  /\ Goto(t, "c_said")
  /\ UNCHANGED <<lock, global, live, routes, nodes, mode, pending, locals>>

ProcessExit(t) ==
  /\ SelfExit
  /\ t \in live
  /\ Kill({t})
  /\ UNCHANGED <<lock, global, routes, nodes, mode, pending, pc, locals>>

\* A settings request writes another routing mode.
UserRouting ==
  /\ "routing" \in Activity
  /\ mode' \in Modes \ {mode}
  /\ UNCHANGED <<lock, global, procs, routes, nodes, pending, pc, locals>>

Work(t) ==
  \/ StopStep(t) \/ ConnectStep(t) \/ DisconnectNodes(t) \/ SwitchStep(t)
  \/ MaintainStep(t) \/ CheckerOk(t) \/ CheckerBad(t) \/ CheckerMark(t)

Start(t) ==
  \/ MaintainTick(t) \/ CheckerTick(t) \/ UserConnect(t) \/ UserDisconnect(t)
  \/ UserCheck(t) \/ ReconnectBg(t) \/ FetchAndSwitchBg(t)

Next ==
  \/ \E t \in Thread : Work(t) \/ Start(t) \/ ProcessReady(t) \/ ProcessExit(t)
  \/ UserRouting

Spec == Init /\ [][Next]_vars
=============================================================================
