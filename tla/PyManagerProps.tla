--------------------------- MODULE PyManagerProps ---------------------------
(* What is claimed of the Python service's tunnel life cycle (PyManager). *)
EXTENDS PyManager

(* Every variable holds what it is declared for. *)
TypeOK ==
  /\ lock \in Thread \cup {None}
  /\ connecting \in BOOLEAN
  /\ activeId \in Node \cup {None}
  /\ proc \in Thread \cup {None}
  /\ live \in SUBSET Thread
  /\ ready \in SUBSET Thread
  /\ routes \in BOOLEAN
  /\ listed \in SUBSET Node
  /\ avail \in SUBSET Node
  /\ flagged \in Node \cup {None}
  /\ mode \in AllModes
  /\ pending \in SUBSET {"reconnect", "fetchswitch"}
  /\ pc \in [Thread -> Label]
  /\ job \in [Thread -> Job]
  /\ phase \in [Thread -> Phase]
  /\ tries \in [Thread -> 0..MaxTries]
  /\ target \in [Thread -> Node \cup {None}]
  /\ after \in [Thread -> After]
  /\ snap \in [Thread -> Snapshot]

Stopping == {"s_clean", "s_stop", "s_kill"}

\* Threads that have set is_connecting and have still to clear it.
WillClear(t) ==
  \/ pc[t] \in {"c_read", "c_spawn", "c_wait", "c_pub", "c_routes", "c_save", "c_ok",
                "c_fail", "c_drop", "c_raise", "c_said", "m_begin", "m_check", "m_force", "m_dead",
                "m_lost", "m_fetch", "m_select", "m_tested", "m_quiet"}
  \/ pc[t] \in Stopping /\ after[t] \in {"c_spawn", "m_fetch", "m_lost"}

(* is_connecting is set and cleared by several threads without a common    *)
(* discipline, and while it is set connect_node does nothing.  Whatever    *)
(* the order, it is never left set with nobody about to clear it.          *)
FlagHasOwner == connecting => \E t \in Thread : WillClear(t)

(* stop_active_openvpn of one thread removes the routes that another       *)
(* thread's connect_node adds, in any order.  A tunnel that is up and whose*)
(* connect is past setup_policy_routing has its routes, or is about to be  *)
(* taken down.                                                             *)
TunnelHasRoutes ==
  \A t \in ready :
    \/ routes
    \/ pc[t] \in {"c_said", "c_pub", "c_routes"}
    \/ \E u \in Thread : pc[u] \in {"s_stop", "s_kill"}

(* Overlapping connects, failing launches and a handle that is overwritten *)
(* leave no process behind: one that is neither awaited by its launcher    *)
(* nor the only owner of tun0 does not exist.                              *)
NoStrayProcess ==
  /\ \A t \in live : t \in ready \/ pc[t] = "c_wait"
  /\ \A t, u \in ready : t = u
=============================================================================
