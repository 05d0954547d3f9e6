------------------------------ MODULE Gateway ------------------------------
(***************************************************************************)
(* The Go service: App (internal/app/app.go, internal/app/network.go) over *)
(* openvpn.Manager.                                                        *)
(*                                                                         *)
(* Threads: the maintain loop, the proxy-health loop, and one thread per   *)
(* web request in flight (internal/web/server.go).  A step of a thread is  *)
(* one critical section, one read or write of shared state outside every   *)
(* lock, or one call that takes time.  Beside them run the OpenVPN         *)
(* processes with their Wait goroutines, the clock that ends backoffs, and *)
(* the main goroutine that leaves Run when the service is stopped.         *)
(*                                                                         *)
(* nodes.json, ui_auth.json and the log are only written while the service *)
(* runs; they are left out.  Of state.json the two fields that say what    *)
(* the tunnel is doing are kept.                                           *)
(***************************************************************************)
EXTENDS OpenVPNManager, RouteSelection

CONSTANTS
  Maintain, Health,   \* the two background loops
  User,               \* web request threads
  AutoConnect,        \* config.AutoConnect
  FetchFails,         \* may the API fetch fail, or leave no candidate?
  StartFails,         \* may an OpenVPN launch fail?
  RouteFails,         \* may `ip route` and `ip rule` fail?
  SavedNodes,         \* the lists that nodes.json may hold at the start
  SavedUI,            \* the settings that ui_auth.json may hold at the start
  Activity            \* the loops that tick and the requests that come in

Thread == User \cup {Maintain, Health}

ASSUME GatewayAssumption ==
  /\ Maintain # Health
  /\ Maintain \notin User /\ Health \notin User
  /\ None \notin Thread
  /\ {AutoConnect, FetchFails, StartFails, RouteFails} \subseteq BOOLEAN
  /\ SavedNodes \subseteq NodeList
  /\ SavedUI \subseteq Routing
  /\ Activity \subseteq {"maintain", "health", "connect", "disconnect",
                         "refresh", "routing", "test", "shutdown"}

VARIABLES
  life,        \* Run: "up", "stopping", "stopped", "cleaned", "exited"
  nodes,       \* App.nodes
  ui,          \* App.ui
  opMu,        \* the thread that holds App.opMu, or None
  routes,      \* service-owned routing: "none", "table" only, "full"
  connecting,  \* state.json is_connecting
  reported,    \* state.json active_openvpn_node_id
  failures,    \* proxyFailureCount; the code compares it with 2 only
  pc,          \* where each thread is
  target,      \* per thread: the node it works on
  slot,        \* per thread: the process its Start launched
  ready,       \* per thread: the ready channel of that Start
  copy,        \* per thread: its private copy of App.ui
  tested       \* per thread: its private copies of the nodes under test

appVars    == <<life, nodes, ui, opMu, routes, connecting, reported, failures>>
threadVars == <<pc, target, slot, ready, copy, tested>>
vars       == <<mgrVars, appVars, threadVars>>

(* Labels between taking and releasing opMu, in Connect and Disconnect. *)
ConnectSection ==
  {"c_mode", "c_copy", "c_pin", "c_config", "s_stop", "s_spawn", "s_publish",
   "s_await", "c_mark", "c_failed", "c_route", "c_done"}
DisconnectSection == {"d_routes", "d_stop", "d_state"}
Label ==
  ConnectSection \cup DisconnectSection \cup
  {"idle", "c_lock", "d_lock", "r_fetch", "r_state", "m_running",
   "m_select", "h_check", "h_active", "h_mark", "h_mode", "h_stop",
   "h_select", "u_routing", "t_merge"}

(* Every variable, the manager's included, holds what it is declared for. *)
TypeOK ==
  /\ ManagerTypeOK
  /\ life \in {"up", "stopping", "stopped", "cleaned", "exited"}
  /\ nodes \in NodeList
  /\ ui \in Routing
  /\ opMu \in Thread \cup {None}
  /\ routes \in {"none", "table", "full"}
  /\ connecting \in BOOLEAN
  /\ reported \in Node \cup {None}
  /\ failures \in 0..2
  /\ pc \in [Thread -> Label]
  /\ target \in [Thread -> Node \cup {None}]
  /\ slot \in [Thread -> Proc \cup {None}]
  /\ ready \in [Thread -> {"none", "ok", "err"}]
  /\ copy \in [Thread -> Routing \cup {None}]
  /\ tested \in [Thread -> SUBSET Entry]

(* New has read nodes.json and ui_auth.json, updateInitialState has run,   *)
(* and no loop has ticked.                                                 *)
Init ==
  /\ ManagerInit
  /\ life = "up"
  /\ nodes \in SavedNodes
  /\ ui \in SavedUI
  /\ opMu = None
  /\ routes = "none"
  /\ connecting = FALSE
  /\ reported = None
  /\ failures = 0
  /\ pc = [t \in Thread |-> "idle"]
  /\ target = [t \in Thread |-> None]
  /\ slot = [t \in Thread |-> None]
  /\ ready = [t \in Thread |-> "none"]
  /\ copy = [t \in Thread |-> None]
  /\ tested = [t \in Thread |-> {}]
-----------------------------------------------------------------------------
(* A thread that has not been cut off by the end of the program moves.     *)
Goto(t, from, to) ==
  /\ life # "exited"
  /\ pc[t] = from
  /\ pc' = [pc EXCEPT ![t] = to]

(* A thread returns from its request or to the head of its loop. *)
Return(t, from) ==
  /\ Goto(t, from, "idle")
  /\ target' = [target EXCEPT ![t] = None]
  /\ slot' = [slot EXCEPT ![t] = None]
  /\ ready' = [ready EXCEPT ![t] = "none"]
  /\ copy' = [copy EXCEPT ![t] = None]
  /\ tested' = [tested EXCEPT ![t] = {}]

(* The context of the loops ends with the service, that of a request does  *)
(* not; that a client goes away is among the failures of its request.      *)
ContextDone(t) == t \notin User /\ life # "up"

(* A request is accepted: only while the listener is open. *)
Accept(u, request, label) ==
  /\ life = "up"
  /\ request \in Activity
  /\ Goto(u, "idle", label)
-----------------------------------------------------------------------------
(* Connect *)

UserConnect(u) ==
  /\ Accept(u, "connect", "c_lock")
  /\ \E n \in Node : target' = [target EXCEPT ![u] = n]
  /\ UNCHANGED <<mgrVars, appVars, slot, ready, copy, tested>>

(* Faulty: opMu is taken without waiting for it. *)
ConnectUnlocked(t) ==
  /\ Has(nodes, target[t])
  /\ Goto(t, "c_lock", "c_mode")
  /\ opMu' = t
  /\ UNCHANGED <<mgrVars, life, nodes, ui, routes, connecting, reported,
                 failures, target, slot, ready, copy, tested>>

(* Take opMu, then look the node up under mu. *)
ConnectLock(t) ==
  /\ opMu = None
  /\ \/ /\ Has(nodes, target[t])
        /\ Goto(t, "c_lock", "c_mode")
        /\ opMu' = t
        /\ UNCHANGED <<target, slot, ready, copy, tested>>
     \/ /\ ~Has(nodes, target[t])
        /\ Return(t, "c_lock")
        /\ UNCHANGED opMu
  /\ UNCHANGED <<mgrVars, life, nodes, ui, routes, connecting, reported,
                 failures>>

(* The unguarded read of RoutingMode.  A torn string is none of the three  *)
(* mode names and counts as "not fixed_ip", as the old or the new mode of  *)
(* the write it races with does, unless both are fixed_ip.                 *)
ConnectMode(t) ==
  /\ Goto(t, "c_mode", IF ui.mode = "fixed_ip" THEN "c_copy" ELSE "c_config")
  /\ UNCHANGED <<mgrVars, appVars, target, slot, ready, copy, tested>>

(* In fixed-IP mode every connect pins its node: copy the settings ... *)
ConnectCopy(t) ==
  /\ Goto(t, "c_copy", "c_pin")
  /\ copy' = [copy EXCEPT ![t] = [ui EXCEPT !.fixed = target[t]]]
  /\ UNCHANGED <<mgrVars, appVars, target, slot, ready, tested>>

(* ... and write the whole copy back. *)
ConnectPin(t) ==
  /\ Goto(t, "c_pin", "c_config")
  /\ ui' = copy[t]
  /\ UNCHANGED <<mgrVars, life, nodes, opMu, routes, connecting, reported,
                 failures, target, slot, ready, copy, tested>>

(* Announce the attempt in state.json, *)
ConnectConfig(t) ==
  /\ Goto(t, "c_config", "s_stop")
  /\ connecting' = TRUE
  /\ reported' = target[t]
  /\ UNCHANGED <<mgrVars, life, nodes, ui, opMu, routes, failures,
                 target, slot, ready, copy, tested>>

(* or give up because the config file cannot be written. *)
ConnectNoConfig(t) ==
  /\ StartFails
  /\ Return(t, "c_config")
  /\ opMu' = None
  /\ UNCHANGED <<mgrVars, life, nodes, ui, routes, connecting, reported,
                 failures>>

(* Faulty: the old process is left alone. *)
StartOverOld(t) ==
  /\ Goto(t, "s_stop", "s_spawn")
  /\ UNCHANGED <<mgrVars, appVars, target, slot, ready, copy, tested>>

(* Manager.Start: stop what runs, *)
StartStop(t) ==
  /\ Goto(t, "s_stop", "s_spawn")
  /\ Stop
  /\ UNCHANGED <<appVars, target, slot, ready, copy, tested>>

(* launch the process, *)
StartSpawn(t) ==
  /\ Goto(t, "s_spawn", "s_publish")
  /\ \E p \in Proc :
       /\ Spawn(p, target[t])
       /\ slot' = [slot EXCEPT ![t] = p]
  /\ UNCHANGED <<appVars, target, ready, copy, tested>>

(* which may fail before there is a process, *)
StartNoSpawn(t) ==
  /\ StartFails
  /\ Goto(t, "s_spawn", "c_mark")
  /\ UNCHANGED <<mgrVars, appVars, target, slot, ready, copy, tested>>

(* publish it, *)
StartPublish(t) ==
  /\ Goto(t, "s_publish", "s_await")
  /\ Publish(slot[t])
  /\ UNCHANGED <<appVars, target, slot, ready, copy, tested>>

(* read its output until a line or the end of it settles the outcome:      *)
(* watchStreams sends once on a buffered channel,                          *)
WatchStreams(t, outcome) ==
  /\ life # "exited"
  /\ pc[t] = "s_await"
  /\ ready[t] = "none"
  /\ CASE outcome = "ok"  -> proc[slot[t]].st = "live"
       [] outcome = "err" -> StartFails \/ proc[slot[t]].st # "live"
  /\ ready' = [ready EXCEPT ![t] = outcome]
  /\ UNCHANGED <<mgrVars, appVars, pc, target, slot, copy, tested>>

(* and return: nil if the channel delivered nil, *)
StartReady(t) ==
  /\ ready[t] = "ok"
  /\ Goto(t, "s_await", "c_route")
  /\ UNCHANGED <<mgrVars, appVars, target, slot, ready, copy, tested>>

(* Faulty: the failed process is left running. *)
StartErrorNoStop(t) ==
  /\ ready[t] = "err" \/ StartFails \/ ContextDone(t)
  /\ Goto(t, "s_await", "c_mark")
  /\ UNCHANGED <<mgrVars, appVars, target, slot, ready, copy, tested>>

(* an error after Stop if it delivered an error, or when the timeout or    *)
(* the end of the caller's context comes first.                            *)
StartError(t) ==
  /\ ready[t] = "err" \/ StartFails \/ ContextDone(t)
  /\ Goto(t, "s_await", "c_mark")
  /\ Stop
  /\ UNCHANGED <<appVars, target, slot, ready, copy, tested>>

(* Connect after a failed Start. *)
ConnectMark(t) ==
  /\ Goto(t, "c_mark", "c_failed")
  /\ nodes' = MarkFailed(nodes, target[t])
  /\ UNCHANGED <<mgrVars, life, ui, opMu, routes, connecting, reported,
                 failures, target, slot, ready, copy, tested>>

(* Faulty: opMu stays locked; the spinner stays on. *)
ConnectFailedLocked(t) ==
  /\ Return(t, "c_failed")
  /\ connecting' = FALSE
  /\ UNCHANGED <<mgrVars, life, nodes, ui, opMu, routes, reported, failures>>

ConnectFailedSpins(t) ==
  /\ Return(t, "c_failed")
  /\ opMu' = None
  /\ UNCHANGED <<mgrVars, life, nodes, ui, routes, connecting, reported,
                 failures>>

ConnectFailed(t) ==
  /\ Return(t, "c_failed")
  /\ connecting' = FALSE
  /\ opMu' = None
  /\ UNCHANGED <<mgrVars, life, nodes, ui, routes, reported, failures>>

(* setupPolicyRouting clears the table and fills it, up to three times; if *)
(* the last attempt fails it leaves what that attempt had added.           *)
ConnectRoute(t) ==
  /\ Goto(t, "c_route", "c_done")
  /\ \E r \in {"none", "table", "full"} :
       /\ r = "full" \/ RouteFails
       /\ routes' = r
  /\ UNCHANGED <<mgrVars, life, nodes, ui, opMu, connecting, reported,
                 failures, target, slot, ready, copy, tested>>

(* The egress test takes a while; its verdict only goes to state.json.     *)
ConnectDone(t) ==
  /\ Return(t, "c_done")
  /\ connecting' = FALSE
  /\ reported' = target[t]
  /\ opMu' = None
  /\ UNCHANGED <<mgrVars, life, nodes, ui, routes, failures>>

ConnectStep(t) ==
  \/ ConnectMode(t) \/ ConnectCopy(t) \/ ConnectPin(t)
  \/ ConnectConfig(t) \/ ConnectNoConfig(t)
  \/ StartStop(t) \/ StartSpawn(t) \/ StartNoSpawn(t) \/ StartPublish(t)
  \/ StartReady(t) \/ StartError(t)
  \/ ConnectMark(t) \/ ConnectFailed(t) \/ ConnectRoute(t) \/ ConnectDone(t)
-----------------------------------------------------------------------------
(* Disconnect *)

UserDisconnect(u) ==
  /\ Accept(u, "disconnect", "d_lock")
  /\ UNCHANGED <<mgrVars, appVars, target, slot, ready, copy, tested>>

(* Faulty: Disconnect does not wait for a connect in progress. *)
DisconnectUnlocked(t) ==
  /\ Goto(t, "d_lock", "d_routes")
  /\ opMu' = t
  /\ UNCHANGED <<mgrVars, life, nodes, ui, routes, connecting, reported,
                 failures, target, slot, ready, copy, tested>>

DisconnectLock(t) ==
  /\ opMu = None
  /\ Goto(t, "d_lock", "d_routes")
  /\ opMu' = t
  /\ UNCHANGED <<mgrVars, life, nodes, ui, routes, connecting, reported,
                 failures, target, slot, ready, copy, tested>>

DisconnectRoutes(t) ==
  /\ Goto(t, "d_routes", "d_stop")
  /\ routes' = "none"
  /\ UNCHANGED <<mgrVars, life, nodes, ui, opMu, connecting, reported,
                 failures, target, slot, ready, copy, tested>>

DisconnectStop(t) ==
  /\ Goto(t, "d_stop", "d_state")
  /\ Stop
  /\ UNCHANGED <<appVars, target, slot, ready, copy, tested>>

DisconnectState(t) ==
  /\ Return(t, "d_state")
  /\ reported' = None
  /\ opMu' = None
  /\ UNCHANGED <<mgrVars, life, nodes, ui, routes, connecting, failures>>

DisconnectStep(t) ==
  DisconnectRoutes(t) \/ DisconnectStop(t) \/ DisconnectState(t)
-----------------------------------------------------------------------------
(* RefreshNodes *)

UserRefresh(u) ==
  /\ Accept(u, "refresh", "r_fetch")
  /\ UNCHANGED <<mgrVars, appVars, target, slot, ready, copy, tested>>

(* The maintain loop goes on to its connect, a request returns. *)
AfterRefresh(t, from) ==
  IF t = Maintain
  THEN /\ Goto(t, from, IF AutoConnect THEN "m_running" ELSE "idle")
       /\ UNCHANGED <<target, slot, ready, copy, tested>>
  ELSE Return(t, from)

RefreshFailed(t) ==
  /\ FetchFails \/ ContextDone(t)
  /\ AfterRefresh(t, "r_fetch")
  /\ connecting' = FALSE
  /\ UNCHANGED <<mgrVars, life, nodes, ui, opMu, routes, reported, failures>>

(* The list is fetched, enriched and checked without a look at App.nodes,  *)
(* and then replaces it.                                                   *)
RefreshStore(t) ==
  /\ Goto(t, "r_fetch", "r_state")
  /\ nodes' \in RefreshedLists
  /\ FetchFails \/ nodes' # <<>>
  /\ UNCHANGED <<mgrVars, life, ui, opMu, routes, connecting, reported,
                 failures, target, slot, ready, copy, tested>>

(* The closing update of state.json, skipped if nodes.json is unwritable.  *)
RefreshState(t) ==
  /\ AfterRefresh(t, "r_state")
  /\ \/ connecting' = FALSE
     \/ UNCHANGED connecting
  /\ UNCHANGED <<mgrVars, life, nodes, ui, opMu, routes, reported, failures>>

RefreshStep(t) ==
  RefreshFailed(t) \/ RefreshStore(t) \/ RefreshState(t)
-----------------------------------------------------------------------------
(* The maintain loop *)

MaintainTick ==
  /\ "maintain" \in Activity
  /\ Goto(Maintain, "idle", "r_fetch")
  /\ UNCHANGED <<mgrVars, appVars, target, slot, ready, copy, tested>>

MaintainRunning ==
  /\ Goto(Maintain, "m_running", IF Running THEN "idle" ELSE "m_select")
  /\ UNCHANGED <<mgrVars, appVars, target, slot, ready, copy, tested>>

(* selectRouteCandidate under mu; Connect follows if there is a candidate. *)
SelectAndConnect(t, from) ==
  LET n == RouteChoice(nodes, ui)
  IN  /\ \/ /\ n # None
            /\ Goto(t, from, "c_lock")
            /\ target' = [target EXCEPT ![t] = n]
            /\ UNCHANGED <<slot, ready, copy, tested>>
         \/ /\ n = None
            /\ Return(t, from)
      /\ UNCHANGED <<mgrVars, appVars>>

MaintainSelect == SelectAndConnect(Maintain, "m_select")

MaintainStep == MaintainRunning \/ MaintainSelect
-----------------------------------------------------------------------------
(* The proxy-health loop *)

HealthTick ==
  /\ "health" \in Activity
  /\ Running
  /\ nodeID # None
  /\ Goto(Health, "idle", "h_check")
  /\ UNCHANGED <<mgrVars, appVars, target, slot, ready, copy, tested>>

HealthOk ==
  /\ Return(Health, "h_check")
  /\ failures' = 0
  /\ UNCHANGED <<mgrVars, life, nodes, ui, opMu, routes, connecting, reported>>

HealthBad ==
  /\ Goto(Health, "h_check", IF failures >= 1 THEN "h_active" ELSE "idle")
  /\ failures' = IF failures >= 1 THEN 2 ELSE 1
  /\ UNCHANGED <<mgrVars, life, nodes, ui, opMu, routes, connecting, reported,
                 target, slot, ready, copy, tested>>

(* handleProxyFailure: read the active node, *)
HealthActive ==
  /\ \/ /\ nodeID # None
        /\ Goto(Health, "h_active", "h_mark")
        /\ target' = [target EXCEPT ![Health] = nodeID]
        /\ UNCHANGED <<slot, ready, copy, tested>>
     \/ /\ nodeID = None
        /\ Return(Health, "h_active")
  /\ UNCHANGED <<mgrVars, appVars>>

(* mark it, *)
HealthMark ==
  /\ Goto(Health, "h_mark", "h_mode")
  /\ nodes' = MarkFailed(nodes, target[Health])
  /\ UNCHANGED <<mgrVars, life, ui, opMu, routes, connecting, reported,
                 failures, target, slot, ready, copy, tested>>

(* stay on it in fixed-IP mode, *)
HealthMode ==
  /\ IF ui.mode = "fixed_ip"
     THEN Return(Health, "h_mode")
     ELSE /\ Goto(Health, "h_mode", "h_stop")
          /\ UNCHANGED <<target, slot, ready, copy, tested>>
  /\ UNCHANGED <<mgrVars, appVars>>

(* else stop the tunnel, without opMu, *)
HealthStop ==
  /\ Goto(Health, "h_stop", "h_select")
  /\ Stop
  /\ UNCHANGED <<appVars, target, slot, ready, copy, tested>>

(* and connect to another node. *)
HealthSelect == SelectAndConnect(Health, "h_select")

HealthStep ==
  HealthOk \/ HealthBad \/ HealthActive \/ HealthMark \/ HealthMode
  \/ HealthStop \/ HealthSelect
-----------------------------------------------------------------------------
(* Settings and node tests *)

(* /api/update_routing (and the other settings requests): copy, ... *)
UserRouting(u) ==
  /\ Accept(u, "routing", "u_routing")
  /\ copy' = [copy EXCEPT ![u] = ui]
  /\ UNCHANGED <<mgrVars, appVars, target, slot, ready, tested>>

(* ... change the copy and write all of it back. *)
RoutingWrite(t) ==
  /\ Return(t, "u_routing")
  /\ \E m \in Mode, c \in Country \cup {None} :
       ui' = [copy[t] EXCEPT !.mode = m, !.country = c]
  /\ UNCHANGED <<mgrVars, life, nodes, opMu, routes, connecting, reported,
                 failures>>

(* TestNodes: copy the listed nodes of the request under mu, ... *)
UserTest(u) ==
  /\ Accept(u, "test", "t_merge")
  /\ \E ids \in SUBSET Node :
       LET picked == { nodes[i] : i \in { j \in DOMAIN nodes :
                                            nodes[j].id \in ids } }
       IN  /\ picked # {}
           /\ tested' = [tested EXCEPT ![u] = picked]
  /\ UNCHANGED <<mgrVars, appVars, target, slot, ready, copy>>

(* ... probe them, and merge the copies under mu.  A cancelled request may *)
(* leave some of them out.                                                 *)
TestMerge(t) ==
  /\ Return(t, "t_merge")
  /\ \E done \in SUBSET tested[t], up \in SUBSET Node :
       nodes' = MergeTested(nodes,
                  { [e EXCEPT !.available = (e.id \in up)] : e \in done })
  /\ UNCHANGED <<mgrVars, life, ui, opMu, routes, connecting, reported,
                 failures>>

UserStep(t) == RoutingWrite(t) \/ TestMerge(t)
-----------------------------------------------------------------------------
(* The clock: an InvalidUntil passes.  A private copy made by TestNodes    *)
(* holds the same or an earlier deadline, so it may run out first.         *)
BackoffEnds(n) ==
  /\ life # "exited"
  /\ nodes' = BackoffOver(nodes, n)
  /\ tested' = [t \in Thread |->
       { IF e.id = n THEN [e EXCEPT !.invalid = FALSE] ELSE e
           : e \in tested[t] }]
  /\ UNCHANGED <<mgrVars, life, ui, opMu, routes, connecting, reported,
                 failures, pc, target, slot, ready, copy>>

OldBackoffEnds(t, n) ==
  /\ life # "exited"
  /\ tested' = [tested EXCEPT ![t] =
       { IF e.id = n THEN [e EXCEPT !.invalid = FALSE] ELSE e : e \in @ }]
  /\ UNCHANGED <<mgrVars, appVars, pc, target, slot, ready, copy>>

(* The end of Run: the listener closes and ListenAndServe returns at once, *)
(* the deferred calls stop the tunnel and remove the routes, main returns, *)
(* and the program ends under whatever the other goroutines are doing.     *)
Shutdown ==
  /\ "shutdown" \in Activity
  /\ life = "up"
  /\ life' = "stopping"
  /\ UNCHANGED <<mgrVars, nodes, ui, opMu, routes, connecting, reported,
                 failures, threadVars>>

RunStop ==
  /\ life = "stopping"
  /\ life' = "stopped"
  /\ Stop
  /\ UNCHANGED <<nodes, ui, opMu, routes, connecting, reported, failures,
                 threadVars>>

RunCleanup ==
  /\ life = "stopped"
  /\ life' = "cleaned"
  /\ routes' = "none"
  /\ UNCHANGED <<mgrVars, nodes, ui, opMu, connecting, reported, failures,
                 threadVars>>

MainReturn ==
  /\ life = "cleaned"
  /\ life' = "exited"
  /\ UNCHANGED <<mgrVars, nodes, ui, opMu, routes, connecting, reported,
                 failures, threadVars>>
-----------------------------------------------------------------------------
(* The steps by which a thread gets on with what it has begun, apart from  *)
(* taking opMu.                                                            *)
Progress(t) ==
  \/ ConnectStep(t) \/ DisconnectStep(t) \/ RefreshStep(t) \/ UserStep(t)
  \/ t = Maintain /\ MaintainStep
  \/ t = Health /\ HealthStep

UserRequest(u) ==
  \/ UserConnect(u) \/ UserDisconnect(u) \/ UserRefresh(u)
  \/ UserRouting(u) \/ UserTest(u)

ProcessExit(p) == Exit(p) /\ UNCHANGED <<appVars, threadVars>>

ProcessReap(p) ==
  /\ life # "exited"
  /\ Reap(p)
  /\ UNCHANGED <<appVars, threadVars>>

Next ==
  \/ \E t \in Thread : ConnectLock(t) \/ DisconnectLock(t) \/ Progress(t)
  \/ \E t \in Thread, outcome \in {"ok", "err"} : WatchStreams(t, outcome)
  \/ \E u \in User : UserRequest(u)
  \/ MaintainTick
  \/ HealthTick
  \/ \E n \in Node : BackoffEnds(n)
  \/ \E t \in Thread, n \in Node : OldBackoffEnds(t, n)
  \/ \E p \in Proc : ProcessExit(p) \/ ProcessReap(p)
  \/ Shutdown \/ RunStop \/ RunCleanup \/ MainReturn

Spec == Init /\ [][Next]_vars
=============================================================================
