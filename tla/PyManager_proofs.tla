-------------------------- MODULE PyManager_proofs --------------------------
(***************************************************************************)
(* Proofs about the tunnel life cycle of the Python service, for any       *)
(* number of threads, nodes and attempts of auto_switch_node.              *)
(***************************************************************************)
EXTENDS PyManagerProps, TLAPS

InConnect(t) ==
  \/ pc[t] \in {"c_enter", "c_read", "c_spawn", "c_wait", "c_said", "c_pub", "c_routes", "c_save",
                "c_ok", "c_fail", "c_drop", "c_raise"}
  \/ pc[t] \in Stopping /\ after[t] = "c_spawn"

(* stop_active_openvpn knows where it returns to, and auto_switch_node     *)
(* calls connect_node only while it has attempts left.                     *)
Returns ==
  \A t \in Thread :
    /\ pc[t] \in Stopping => after[t] # "none"
    /\ InConnect(t) /\ job[t] # "request" => tries[t] < MaxTries

(* The inductive invariant. *)
IInv == TypeOK /\ Returns /\ FlagHasOwner /\ NoStrayProcess
-----------------------------------------------------------------------------
(* The service starts with its first maintenance, and nothing else.        *)
LEMMA InitInv == Init => IInv
<1> SUFFICES ASSUME Init PROVE IInv
  OBVIOUS
<1>1. PICK t \in Thread :
        /\ pc = [u \in Thread |-> IF u = t THEN "m_begin" ELSE "idle"]
        /\ job = [u \in Thread |-> IF u = t THEN "maintain" ELSE "none"]
  BY DEF Init
<1>2. pc \in [Thread -> Label] /\ job \in [Thread -> Job]
  BY <1>1 DEF Label, Job
<1>3. NoNodes \in Snapshot
  BY DEF NoNodes, Snapshot
<1>4. TypeOK
  <2>1. /\ listed \in SUBSET Node /\ avail \in SUBSET Node /\ flagged \in Node \cup {None}
        /\ lock \in Thread \cup {None} /\ activeId \in Node \cup {None}
        /\ proc \in Thread \cup {None} /\ mode \in AllModes
    BY ModesAssumption DEF Init
  <2>2. /\ connecting \in BOOLEAN /\ routes \in BOOLEAN /\ live \in SUBSET Thread
        /\ ready \in SUBSET Thread /\ pending \in SUBSET {"reconnect", "fetchswitch"}
    BY DEF Init
  <2>3. phase \in [Thread -> Phase] /\ after \in [Thread -> After]
    BY DEF Init, Phase, After
  <2>4. /\ tries \in [Thread -> 0..MaxTries] /\ target \in [Thread -> Node \cup {None}]
        /\ snap \in [Thread -> Snapshot]
    BY <1>3, TriesAssumption DEF Init
  <2>5. QED
    BY <1>2, <2>1, <2>2, <2>3, <2>4 DEF TypeOK
<1>5. Returns
  BY <1>1 DEF Returns, InConnect, Stopping
<1>6. FlagHasOwner /\ NoStrayProcess
  BY <1>1 DEF Init, FlagHasOwner, WillClear, NoStrayProcess
<1>7. QED
  BY <1>4, <1>5, <1>6 DEF IInv

(* A thread goes to a label and back to its caller.                        *)
LEMMA ReturnType ==
  ASSUME TypeOK, NEW t \in Thread
  PROVE  /\ AutoReturn(t) \in {"m_again", "m_end", "idle"}
         /\ MaintainReturn(t) \in {"a_begin", "idle"}
         /\ \A l \in Label : Return(t, l) => pc' \in [Thread -> Label] /\ job' \in [Thread -> Job]
         /\ \A l \in Label : Goto(t, l) => pc' \in [Thread -> Label]
  BY DEF TypeOK, AutoReturn, MaintainReturn, Return, Goto, Label, Job

(* connect_node returns with the declared values.                          *)
LEMMA ConnectReturnsType ==
  ASSUME IInv, NEW t \in Thread, NEW ok \in BOOLEAN, ConnectReturns(t, ok), InConnect(t)
  PROVE  /\ pc' \in [Thread -> Label] /\ job' \in [Thread -> Job]
         /\ tries' \in [Thread -> 0..MaxTries]
         /\ target' \in [Thread -> Node \cup {None}]
         /\ snap' \in [Thread -> Snapshot]
<1>1. TypeOK /\ Returns
  BY DEF IInv
<1>2. "a_begin" \in Label /\ AutoReturn(t) \in Label
  BY <1>1, ReturnType DEF Label
<1>3. pc' \in [Thread -> Label] /\ job' \in [Thread -> Job]
  BY <1>1, <1>2, ReturnType DEF ConnectReturns
<1>4. tries' \in [Thread -> 0..MaxTries]
  BY <1>1, TriesAssumption DEF ConnectReturns, TypeOK, Returns
<1>5. target' \in [Thread -> Node \cup {None}] /\ snap' \in [Thread -> Snapshot]
  BY <1>1 DEF ConnectReturns, TypeOK, NoNodes, Snapshot
<1>6. QED
  BY <1>3, <1>4, <1>5
-----------------------------------------------------------------------------
(* No activity leaves the declared values.                                 *)
LEMMA StartType ==
  ASSUME IInv, NEW t \in Thread, Start(t)
  PROVE  TypeOK'
<1>0. TypeOK
  BY DEF IInv
<1>1. pc' \in [Thread -> Label] /\ job' \in [Thread -> Job]
  BY <1>0 DEF TypeOK, Label, Job, Start, MaintainTick, CheckerTick, UserConnect, UserDisconnect,
    UserCheck, ReconnectBg, FetchAndSwitchBg, Begin, Goto
<1>2. target' \in [Thread -> Node \cup {None}] /\ after' \in [Thread -> After]
  BY <1>0 DEF TypeOK, After, Start, MaintainTick, CheckerTick, UserConnect, UserDisconnect,
    UserCheck, ReconnectBg, FetchAndSwitchBg
<1>3. /\ pending' \in SUBSET {"reconnect", "fetchswitch"}
      /\ UNCHANGED <<lock, connecting, activeId, proc, live, ready, routes, listed, avail, flagged,
                     mode, phase, tries, snap>>
  BY <1>0 DEF TypeOK, Start, MaintainTick, CheckerTick, UserConnect, UserDisconnect,
    UserCheck, ReconnectBg, FetchAndSwitchBg, Begin, global, procs, nodes
<1>4. QED
  BY <1>0, <1>1, <1>2, <1>3 DEF TypeOK

LEMMA StopType ==
  ASSUME IInv, NEW t \in Thread, StopStep(t)
  PROVE  TypeOK'
<1> USE DEF IInv, TypeOK, Goto, Kill, global, procs, nodes, locals
<1>1. CASE StopRoutes(t)
  BY <1>1 DEF StopRoutes, Label
<1>2. CASE StopProcess(t)
  BY <1>2 DEF StopProcess, Label
<1>3. CASE StopKillAll(t)
  <2>1. after[t] \in Label
    BY <1>3 DEF StopKillAll, Returns, Stopping, After, Label
  <2>2. QED
    BY <1>3, <2>1 DEF StopKillAll, After
<1>4. QED
  BY <1>1, <1>2, <1>3 DEF StopStep

LEMMA ConnectType ==
  ASSUME IInv, NEW t \in Thread, ConnectStep(t)
  PROVE  TypeOK'
<1>0. TypeOK
  BY DEF IInv
<1>1. CASE AlreadyConnecting(t) \/ ConnectFinally(t)
  <2>1. InConnect(t) /\ \E ok \in BOOLEAN : ConnectReturns(t, ok)
    BY <1>1 DEF AlreadyConnecting, ConnectFinally, InConnect
  <2>2. QED
    BY <1>0, <1>1, <2>1, ConnectReturnsType
    DEF TypeOK, AlreadyConnecting, ConnectFinally, global, procs, nodes
<1>2. ASSUME ~AlreadyConnecting(t), ~ConnectFinally(t)
      PROVE  pc' \in [Thread -> Label]
  <2>1. \E l \in {"c_read", "s_clean", "c_raise", "c_fail", "c_wait", "c_pub", "c_drop",
                  "c_routes", "c_save", "c_ok"} : Goto(t, l)
    BY <1>2 DEF ConnectStep, ConnectEnter, ConnectRead, ConnectLaunch, ConnectReady,
      ConnectNotReady, ConnectFailed, ConnectDropId, ConnectPublish, ConnectRoutes, ConnectSave
  <2>2. QED
    BY <1>0, <2>1 DEF TypeOK, Goto, Label
<1>3. CASE ConnectEnter(t) \/ ConnectPublish(t) \/ ConnectDropId(t)
  <2>1. /\ pc' \in [Thread -> Label]
        /\ connecting' \in BOOLEAN /\ activeId' \in Node \cup {None} /\ proc' \in Thread \cup {None}
    BY <1>0, <1>2, <1>3
    DEF TypeOK, AlreadyConnecting, ConnectFinally, ConnectEnter, ConnectPublish, ConnectDropId
  <2>2. UNCHANGED <<lock, live, ready, routes, listed, avail, flagged, mode, pending,
                    job, phase, tries, target, after, snap>>
    BY <1>3 DEF ConnectEnter, ConnectPublish, ConnectDropId, procs, nodes, locals
  <2>3. QED
    BY <1>0, <2>1, <2>2 DEF TypeOK
<1>4. CASE ConnectRead(t)
  <2>1. pc' \in [Thread -> Label] /\ after' \in [Thread -> After]
    BY <1>0, <1>2, <1>4 DEF TypeOK, AlreadyConnecting, ConnectFinally, ConnectRead, After
  <2>2. snap' \in [Thread -> Snapshot]
    BY <1>0, <1>4 DEF TypeOK, ConnectRead, Snapshot
  <2>3. QED
    BY <1>0, <1>4, <2>1, <2>2 DEF TypeOK, ConnectRead, global, procs, nodes
<1>5. CASE ConnectLaunch(t) \/ ConnectReady(t) \/ ConnectNotReady(t) \/ ConnectRoutes(t)
  <2>1. /\ pc' \in [Thread -> Label] /\ live' \in SUBSET Thread /\ ready' \in SUBSET Thread
        /\ routes' \in BOOLEAN
    BY <1>0, <1>2, <1>5 DEF TypeOK, AlreadyConnecting, ConnectFinally, ConnectLaunch,
      ConnectReady, ConnectNotReady, ConnectRoutes, Kill, procs
  <2>2. UNCHANGED <<lock, global, nodes, mode, pending, locals>>
    BY <1>5 DEF ConnectLaunch, ConnectReady, ConnectNotReady, ConnectRoutes
  <2>3. QED
    BY <1>0, <2>1, <2>2 DEF TypeOK, global, nodes, locals
<1>6. CASE ConnectFailed(t) \/ ConnectSave(t)
  <2>1. snap[t].listed \in SUBSET Node /\ snap[t].avail \in SUBSET Node
    BY <1>0 DEF TypeOK, Snapshot
  <2>2. /\ pc' \in [Thread -> Label] /\ listed' \in SUBSET Node /\ avail' \in SUBSET Node
        /\ flagged' \in Node \cup {None}
    BY <1>0, <1>2, <1>6, <2>1
    DEF TypeOK, AlreadyConnecting, ConnectFinally, ConnectFailed, ConnectSave
  <2>3. UNCHANGED <<lock, global, procs, routes, mode, pending, locals>>
    BY <1>6 DEF ConnectFailed, ConnectSave
  <2>4. QED
    BY <1>0, <2>2, <2>3 DEF TypeOK, global, procs, locals
<1>7. QED
  BY <1>1, <1>3, <1>4, <1>5, <1>6 DEF ConnectStep

LEMMA SwitchType ==
  ASSUME IInv, NEW t \in Thread, SwitchStep(t) \/ DisconnectNodes(t)
  PROVE  TypeOK'
<1>0. TypeOK
  BY DEF IInv
<1>1. AutoReturns(t) => /\ pc' \in [Thread -> Label] /\ job' \in [Thread -> Job]
                        /\ tries' \in [Thread -> 0..MaxTries]
                        /\ UNCHANGED <<phase, target, after, snap>>
  <2>1. AutoReturn(t) \in Label
    BY <1>0, ReturnType DEF Label
  <2>2. QED
    BY <1>0, <2>1, ReturnType, TriesAssumption DEF AutoReturns, TypeOK
<1>2. CASE SwitchGivesUp(t) \/ SwitchFixedIp(t) \/ SwitchFetch(t)
  <2>1. /\ AutoReturns(t)
        /\ UNCHANGED <<lock, global, procs, routes, listed, avail, mode>>
        /\ flagged' \in {None, flagged}
        /\ pending' \in {pending, pending \cup {"reconnect"}, pending \cup {"fetchswitch"}}
    BY <1>2 DEF SwitchGivesUp, SwitchFixedIp, SwitchFetch, nodes
  <2>2. QED
    BY <1>0, <1>1, <2>1 DEF TypeOK, global, procs
<1> USE <1>0 DEF TypeOK, Goto, global, procs, nodes, Label
<1>3. CASE SwitchPick(t)
  BY <1>3 DEF SwitchPick, Candidates
<1>4. CASE SwitchStop(t)
  BY <1>4 DEF SwitchStop, After
<1>5. CASE DisconnectNodes(t)
  BY <1>5 DEF DisconnectNodes, Return, Job
<1>6. QED
  BY <1>2, <1>3, <1>4, <1>5 DEF SwitchStep

LEMMA MaintainType ==
  ASSUME IInv, NEW t \in Thread, MaintainStep(t)
  PROVE  TypeOK'
<1>0. TypeOK
  BY DEF IInv
<1>1. MaintainReturn(t) \in Label
  BY <1>0, ReturnType DEF Label
<1>2. CASE MaintainNothing(t) \/ MaintainEnd(t)
  <2>1. pc' \in [Thread -> Label] /\ job' \in [Thread -> Job]
    BY <1>0, <1>1, <1>2, ReturnType DEF MaintainNothing, MaintainEnd
  <2>2. QED
    BY <1>0, <1>2, <2>1
    DEF TypeOK, MaintainNothing, MaintainEnd, Phase, global, procs, nodes
<1>3. CASE MaintainDecide(t)
  <2>1. pc' \in [Thread -> Label] /\ job' \in [Thread -> Job]
    BY <1>0, <1>1, <1>3, ReturnType DEF MaintainDecide, Label
  <2>2. lock' \in Thread \cup {None} /\ phase' \in [Thread -> Phase]
    BY <1>0, <1>3 DEF TypeOK, MaintainDecide, Phase
  <2>3. QED
    BY <1>0, <1>3, <2>1, <2>2 DEF TypeOK, MaintainDecide, global, procs, nodes
<1> USE <1>0 DEF TypeOK, Goto, global, procs, nodes, locals
<1>4. CASE MaintainBegin(t) \/ MaintainNoId(t) \/ MaintainQuiet(t)
  <2>1. \E l \in {"m_force", "m_fetch", "m_dead", "m_decide"} : Goto(t, l)
    BY <1>4 DEF MaintainBegin, MaintainNoId, MaintainQuiet
  <2>2. pc' \in [Thread -> Label]
    BY <2>1 DEF Label
  <2>3. connecting' \in BOOLEAN /\ UNCHANGED <<lock, activeId, proc, procs, routes, nodes, mode, pending, locals>>
    BY <1>4 DEF MaintainBegin, MaintainNoId, MaintainQuiet
  <2>4. QED
    BY <2>2, <2>3
<1>5. CASE MaintainForce(t) \/ MaintainDead(t)
  <2>1. pc' \in [Thread -> Label] /\ after' \in [Thread -> After]
    BY <1>5 DEF MaintainForce, MaintainDead, Label, After
  <2>2. QED
    BY <1>5, <2>1 DEF MaintainForce, MaintainDead
<1>6. CASE MaintainSwitch(t) \/ MaintainAgain(t)
  <2>1. pc' \in [Thread -> Label] /\ phase' \in [Thread -> Phase]
    BY <1>6 DEF MaintainSwitch, MaintainAgain, Label, Phase
  <2>2. QED
    BY <1>6, <2>1 DEF MaintainSwitch, MaintainAgain
<1>7. CASE MaintainMerge(t)
  <2>1. /\ listed' \in SUBSET Node /\ avail' \in SUBSET Node /\ flagged' \in Node \cup {None}
    BY <1>7 DEF MaintainMerge
  <2>2. pc' \in [Thread -> Label]
    BY <1>7 DEF MaintainMerge, Label
  <2>3. QED
    BY <1>7, <2>1, <2>2 DEF MaintainMerge
<1>8. CASE MaintainSelect(t)
  <2>1. snap' \in [Thread -> Snapshot]
    BY <1>8 DEF MaintainSelect, Snapshot
  <2>2. pc' \in [Thread -> Label]
    BY <1>8 DEF MaintainSelect, Label
  <2>3. QED
    BY <1>8, <2>1, <2>2 DEF MaintainSelect
<1>9. CASE MaintainTested(t)
  <2>1. snap' \in [Thread -> Snapshot]
    BY <1>9 DEF MaintainTested, Snapshot, NoNodes
  <2>2. pc' \in [Thread -> Label] /\ avail' \in SUBSET Node
    BY <1>9 DEF MaintainTested, Label
  <2>3. QED
    BY <1>9, <2>1, <2>2 DEF MaintainTested
<1>10. QED
  BY <1>2, <1>3, <1>4, <1>5, <1>6, <1>7, <1>8, <1>9 DEF MaintainStep

LEMMA TypeStep == IInv /\ [Next]_vars => TypeOK'
<1> SUFFICES ASSUME IInv, [Next]_vars PROVE TypeOK'
  OBVIOUS
<1>0. TypeOK
  BY DEF IInv
<1> USE <1>0 DEF TypeOK, Goto, Return, Kill, global, procs, nodes, locals
<1>1. ASSUME NEW t \in Thread, CheckerOk(t) \/ CheckerBad(t) \/ CheckerMark(t) PROVE TypeOK'
  <2>1. pc' \in [Thread -> Label] /\ job' \in [Thread -> Job]
    BY <1>1 DEF CheckerOk, CheckerBad, CheckerMark, Label, Job
  <2>2. QED
    BY <1>1, <2>1 DEF CheckerOk, CheckerBad, CheckerMark
<1>2. ASSUME NEW t \in Thread, ProcessReady(t) \/ ProcessExit(t) PROVE TypeOK'
  <2>1. pc' \in [Thread -> Label] /\ live' \in SUBSET Thread /\ ready' \in SUBSET Thread
    BY <1>2 DEF ProcessReady, ProcessExit, Label
  <2>2. UNCHANGED <<lock, global, routes, nodes, mode, pending, locals>>
    BY <1>2 DEF ProcessReady, ProcessExit
  <2>3. QED
    BY <2>1, <2>2
<1>3. CASE UserRouting
  BY <1>3, ModesAssumption DEF UserRouting
<1>4. CASE UNCHANGED vars
  BY <1>4 DEF vars
<1>5. QED
  BY <1>1, <1>2, <1>3, <1>4, StartType, StopType, ConnectType, SwitchType, MaintainType
  DEF Next, Work
-----------------------------------------------------------------------------
(* The labels outside connect_node and stop_active_openvpn. *)
Elsewhere == Label \ {"c_enter", "c_read", "c_spawn", "c_wait", "c_said", "c_pub", "c_routes",
                      "c_save", "c_ok", "c_fail", "c_drop", "c_raise", "s_clean", "s_stop", "s_kill"}

(* A step concerns the return and the attempts of its own thread alone.    *)
LEMMA ReturnsStep == IInv /\ [Next]_vars => Returns'
<1> SUFFICES ASSUME IInv, [Next]_vars PROVE Returns'
  OBVIOUS
<1>0. /\ pc \in [Thread -> Label] /\ job \in [Thread -> Job] /\ after \in [Thread -> After]
      /\ tries \in [Thread -> 0..MaxTries] /\ Returns
  BY DEF IInv, TypeOK
<1> DEFINE Others(t) == \A u \in Thread \ {t} : /\ pc'[u] = pc[u] /\ job'[u] = job[u]
                                               /\ after'[u] = after[u] /\ tries'[u] = tries[u]
<1>1. ASSUME NEW t \in Thread, Others(t), pc'[t] \in Elsewhere
      PROVE  Returns'
  BY <1>0, <1>1 DEF Returns, InConnect, Stopping, Elsewhere
<1>2. ASSUME NEW t \in Thread, Others(t), InConnect(t), job'[t] = job[t], tries'[t] = tries[t],
             pc'[t] \in Stopping => after'[t] # "none"
      PROVE  Returns'
  BY <1>0, <1>2 DEF Returns, InConnect
<1> USE <1>0 DEF Goto, Return, locals, vars
<1>3. ASSUME NEW t \in Thread, Start(t) PROVE Returns'
  <2>1. Others(t)
    BY <1>3 DEF Start, MaintainTick, CheckerTick, UserConnect, UserDisconnect, UserCheck,
      ReconnectBg, FetchAndSwitchBg, Begin
  <2>2. \/ pc'[t] \in Elsewhere
        \/ pc'[t] = "c_enter" /\ job'[t] = "request"
        \/ pc'[t] = "s_clean" /\ after'[t] = "d_nodes"
    BY <1>3 DEF Start, MaintainTick, CheckerTick, UserConnect, UserDisconnect, UserCheck,
      ReconnectBg, FetchAndSwitchBg, Begin, Elsewhere, Label
  <2>3. QED
    BY <1>1, <2>1, <2>2 DEF Returns, InConnect, Stopping
<1>4. ASSUME NEW t \in Thread, StopStep(t) PROVE Returns'
  <2>1. CASE StopRoutes(t) \/ StopProcess(t)
    BY <2>1 DEF StopRoutes, StopProcess, Returns, InConnect, Stopping
  <2>2. CASE StopKillAll(t)
    BY <2>2 DEF StopKillAll, Returns, InConnect, Stopping, After
  <2>3. QED
    BY <1>4, <2>1, <2>2 DEF StopStep
<1>5. ASSUME NEW t \in Thread, AlreadyConnecting(t) \/ ConnectFinally(t) PROVE Returns'
  <2>1. PICK ok \in BOOLEAN : ConnectReturns(t, ok) /\ UNCHANGED after
    BY <1>5 DEF AlreadyConnecting, ConnectFinally
  <2>2. Others(t)
    BY <2>1 DEF ConnectReturns
  <2>3. pc'[t] \in {"a_begin", "m_again", "m_end", "idle"}
    BY <2>1 DEF ConnectReturns, AutoReturn
  <2>4. QED
    BY <1>1, <2>2, <2>3 DEF Elsewhere, Label
<1>6. ASSUME NEW t \in Thread, ConnectStep(t), ~AlreadyConnecting(t), ~ConnectFinally(t)
      PROVE  Returns'
  <2>1. InConnect(t) /\ Others(t) /\ job'[t] = job[t] /\ tries'[t] = tries[t]
    BY <1>6 DEF ConnectStep, ConnectEnter, ConnectRead, ConnectLaunch, ConnectReady,
      ConnectNotReady, ConnectFailed, ConnectDropId, ConnectPublish, ConnectRoutes,
      ConnectSave, InConnect
  <2>2. pc'[t] \in Stopping => after'[t] = "c_spawn"
    BY <1>6 DEF ConnectStep, ConnectEnter, ConnectRead, ConnectLaunch, ConnectReady,
      ConnectNotReady, ConnectFailed, ConnectDropId, ConnectPublish, ConnectRoutes,
      ConnectSave, Stopping
  <2>3. QED
    BY <1>2, <2>1, <2>2
<1>7. ASSUME NEW t \in Thread, SwitchStep(t) \/ DisconnectNodes(t) PROVE Returns'
  <2>1. CASE SwitchPick(t)
    BY <2>1 DEF SwitchPick, Returns, InConnect, Stopping
  <2>2. CASE SwitchStop(t)
    BY <2>2 DEF SwitchStop, Returns, InConnect, Stopping
  <2>3. CASE SwitchGivesUp(t) \/ SwitchFixedIp(t) \/ SwitchFetch(t) \/ DisconnectNodes(t)
    <3>1. Others(t) /\ pc'[t] \in {"m_again", "m_end", "idle"}
      BY <2>3 DEF SwitchGivesUp, SwitchFixedIp, SwitchFetch, DisconnectNodes, AutoReturns,
        AutoReturn
    <3>2. QED
      BY <1>1, <3>1 DEF Elsewhere, Label
  <2>4. QED
    BY <1>7, <2>1, <2>2, <2>3 DEF SwitchStep
<1>8. ASSUME NEW t \in Thread, MaintainForce(t) \/ MaintainDead(t) PROVE Returns'
  BY <1>8 DEF MaintainForce, MaintainDead, Returns, InConnect, Stopping
<1>9. ASSUME NEW t \in Thread, MaintainStep(t), ~MaintainForce(t), ~MaintainDead(t)
      PROVE  Returns'
  <2>1. Others(t)
    BY <1>9 DEF MaintainStep, MaintainBegin, MaintainNoId, MaintainSwitch, MaintainAgain,
      MaintainNothing, MaintainMerge, MaintainSelect, MaintainTested, MaintainQuiet,
      MaintainDecide, MaintainEnd
  <2>2. pc'[t] \in {"m_force", "m_fetch", "m_dead", "a_begin", "m_select", "m_tested", "m_quiet",
                    "m_decide", "idle"}
    BY <1>9 DEF MaintainStep, MaintainBegin, MaintainNoId, MaintainSwitch, MaintainAgain,
      MaintainNothing, MaintainMerge, MaintainSelect, MaintainTested, MaintainQuiet,
      MaintainDecide, MaintainEnd, MaintainReturn
  <2>3. QED
    BY <1>1, <2>1, <2>2 DEF Elsewhere, Label
<1>10. ASSUME NEW t \in Thread, CheckerOk(t) \/ CheckerBad(t) \/ CheckerMark(t) PROVE Returns'
  <2>1. Others(t) /\ pc'[t] \in {"idle", "k_mark", "a_begin"}
    BY <1>10 DEF CheckerOk, CheckerBad, CheckerMark
  <2>2. QED
    BY <1>1, <2>1 DEF Elsewhere, Label
<1>11. ASSUME NEW t \in Thread, ProcessReady(t) \/ ProcessExit(t) PROVE Returns'
  BY <1>11 DEF ProcessReady, ProcessExit, Returns, InConnect, Stopping
<1>12. CASE UserRouting \/ UNCHANGED vars
  BY <1>12 DEF UserRouting, Returns, InConnect
<1>13. QED
  BY <1>3, <1>4, <1>5, <1>6, <1>7, <1>8, <1>9, <1>10, <1>11, <1>12 DEF Next, Work

(* Who has set is_connecting goes on towards clearing it; who clears it    *)
(* does so for all.                                                        *)
LEMMA FlagStep == IInv /\ [Next]_vars => FlagHasOwner'
<1> SUFFICES ASSUME IInv, [Next]_vars PROVE FlagHasOwner'
  OBVIOUS
<1>0. /\ pc \in [Thread -> Label] /\ after \in [Thread -> After]
      /\ connecting \in BOOLEAN /\ FlagHasOwner
  BY DEF IInv, TypeOK
<1> DEFINE Others(t) == \A u \in Thread \ {t} : pc'[u] = pc[u] /\ after'[u] = after[u]
           Passes(t) == Others(t) /\ (WillClear(t) => WillClear(t)')
<1>1. ASSUME NEW t \in Thread, Passes(t), UNCHANGED connecting
      PROVE  FlagHasOwner'
  BY <1>0, <1>1 DEF FlagHasOwner, WillClear
<1> USE <1>0 DEF Goto, Return, global, locals, vars, Stopping
<1>2. ASSUME NEW t \in Thread, Start(t) PROVE FlagHasOwner'
  <2>1. Passes(t) /\ UNCHANGED connecting
    BY <1>2 DEF Start, MaintainTick, CheckerTick, UserConnect, UserDisconnect, UserCheck,
      ReconnectBg, FetchAndSwitchBg, Begin, WillClear
  <2>2. QED
    BY <1>1, <2>1
<1>3. ASSUME NEW t \in Thread, StopStep(t) PROVE FlagHasOwner'
  <2>1. Passes(t) /\ UNCHANGED connecting
    BY <1>3 DEF StopStep, StopRoutes, StopProcess, StopKillAll, WillClear
  <2>2. QED
    BY <1>1, <2>1
<1>4. ASSUME NEW t \in Thread, ConnectStep(t) PROVE FlagHasOwner'
  <2>1. CASE AlreadyConnecting(t)
    <3>1. Passes(t) /\ UNCHANGED connecting
      BY <2>1 DEF AlreadyConnecting, ConnectReturns, WillClear
    <3>2. QED
      BY <1>1, <3>1
  <2>2. CASE ConnectEnter(t)
    BY <2>2 DEF ConnectEnter, FlagHasOwner, WillClear
  <2>3. CASE ConnectFinally(t)
    BY <2>3 DEF ConnectFinally, FlagHasOwner
  <2>4. CASE ConnectRead(t) \/ ConnectLaunch(t) \/ ConnectReady(t) \/ ConnectNotReady(t)
    <3>1. Passes(t) /\ UNCHANGED connecting
      BY <2>4 DEF ConnectRead, ConnectLaunch, ConnectReady, ConnectNotReady, WillClear
    <3>2. QED
      BY <1>1, <3>1
  <2>5. CASE \/ ConnectFailed(t) \/ ConnectDropId(t) \/ ConnectPublish(t)
             \/ ConnectRoutes(t) \/ ConnectSave(t)
    <3>1. Passes(t) /\ UNCHANGED connecting
      BY <2>5 DEF ConnectFailed, ConnectDropId, ConnectPublish, ConnectRoutes, ConnectSave,
        WillClear
    <3>2. QED
      BY <1>1, <3>1
  <2>6. QED
    BY <1>4, <2>1, <2>2, <2>3, <2>4, <2>5 DEF ConnectStep
<1>5. ASSUME NEW t \in Thread, SwitchStep(t) \/ DisconnectNodes(t) PROVE FlagHasOwner'
  <2>1. Passes(t) /\ UNCHANGED connecting
    BY <1>5 DEF SwitchStep, SwitchGivesUp, SwitchFixedIp, SwitchPick, SwitchStop, SwitchFetch,
      DisconnectNodes, AutoReturns, WillClear
  <2>2. QED
    BY <1>1, <2>1
<1>6. ASSUME NEW t \in Thread, MaintainStep(t) PROVE FlagHasOwner'
  <2>1. CASE MaintainBegin(t) \/ MaintainAgain(t)
    BY <2>1 DEF MaintainBegin, MaintainAgain, FlagHasOwner, WillClear
  <2>2. CASE MaintainSwitch(t) \/ MaintainNothing(t) \/ MaintainQuiet(t)
    BY <2>2 DEF MaintainSwitch, MaintainNothing, MaintainQuiet, FlagHasOwner
  <2>3. CASE \/ MaintainForce(t) \/ MaintainNoId(t) \/ MaintainDead(t) \/ MaintainMerge(t)
             \/ MaintainSelect(t) \/ MaintainTested(t) \/ MaintainDecide(t) \/ MaintainEnd(t)
    <3>1. Passes(t) /\ UNCHANGED connecting
      BY <2>3 DEF MaintainForce, MaintainNoId, MaintainDead, MaintainMerge, MaintainSelect,
        MaintainTested, MaintainDecide, MaintainEnd, WillClear
    <3>2. QED
      BY <1>1, <3>1
  <2>4. QED
    BY <1>6, <2>1, <2>2, <2>3 DEF MaintainStep
<1>7. ASSUME NEW t \in Thread, CheckerOk(t) \/ CheckerBad(t) \/ CheckerMark(t)
      PROVE  FlagHasOwner'
  <2>1. Passes(t) /\ UNCHANGED connecting
    BY <1>7 DEF CheckerOk, CheckerBad, CheckerMark, WillClear
  <2>2. QED
    BY <1>1, <2>1
<1>8. ASSUME NEW t \in Thread, ProcessReady(t) \/ ProcessExit(t) PROVE FlagHasOwner'
  <2>1. Passes(t) /\ UNCHANGED connecting
    BY <1>8 DEF ProcessReady, ProcessExit, WillClear
  <2>2. QED
    BY <1>1, <2>1
<1>9. CASE UserRouting \/ UNCHANGED vars
  BY <1>9 DEF UserRouting, FlagHasOwner, WillClear
<1>10. QED
  BY <1>2, <1>3, <1>4, <1>5, <1>6, <1>7, <1>8, <1>9 DEF Next, Work

(* What a step may do to the OpenVPN processes and to a thread that waits  *)
(* for one: nothing, an end of some of them, a launch, or an              *)
(* initialisation.                                                         *)
LEMMA ProcessUse ==
  ASSUME IInv, [Next]_vars
  PROVE  \/ UNCHANGED procs /\ \A u \in Thread : pc[u] = "c_wait" => pc'[u] = pc[u]
         \/ \E S : Kill(S) /\ \A u \in Thread \ S : pc[u] = "c_wait" => pc'[u] = pc[u]
         \/ \E t \in Thread : ConnectLaunch(t) \/ ProcessReady(t)
<1>0. pc \in [Thread -> Label]
  BY DEF IInv, TypeOK
<1> DEFINE Nothing == UNCHANGED procs /\ \A u \in Thread : pc[u] = "c_wait" => pc'[u] = pc[u]
<1> USE <1>0 DEF Goto, Return, procs, vars
<1>1. ASSUME NEW t \in Thread, Start(t) PROVE Nothing
  BY <1>1 DEF Start, MaintainTick, CheckerTick, UserConnect, UserDisconnect, UserCheck,
    ReconnectBg, FetchAndSwitchBg, Begin
<1>2. ASSUME NEW t \in Thread, StopRoutes(t) PROVE Nothing
  BY <1>2 DEF StopRoutes
<1>3. ASSUME NEW t \in Thread, StopProcess(t)
      PROVE  Kill({proc}) /\ \A u \in Thread \ {proc} : pc[u] = "c_wait" => pc'[u] = pc[u]
  BY <1>3 DEF StopProcess
<1>4. ASSUME NEW t \in Thread, StopKillAll(t) PROVE Kill(Thread)
  BY <1>4 DEF StopKillAll
<1>5. ASSUME NEW t \in Thread, ConnectNotReady(t)
      PROVE  Kill({t}) /\ \A u \in Thread \ {t} : pc[u] = "c_wait" => pc'[u] = pc[u]
  BY <1>5 DEF ConnectNotReady
<1>6. ASSUME NEW t \in Thread,
             \/ AlreadyConnecting(t) \/ ConnectEnter(t) \/ ConnectRead(t) \/ ConnectReady(t)
             \/ ConnectFailed(t) \/ ConnectDropId(t) \/ ConnectPublish(t) \/ ConnectRoutes(t)
             \/ ConnectSave(t) \/ ConnectFinally(t)
      PROVE  Nothing
  BY <1>6 DEF AlreadyConnecting, ConnectEnter, ConnectRead, ConnectReady, ConnectFailed,
    ConnectDropId, ConnectPublish, ConnectRoutes, ConnectSave, ConnectFinally, ConnectReturns
<1>7. ASSUME NEW t \in Thread, SwitchStep(t) \/ DisconnectNodes(t) PROVE Nothing
  BY <1>7 DEF SwitchStep, SwitchGivesUp, SwitchFixedIp, SwitchPick, SwitchStop, SwitchFetch,
    DisconnectNodes, AutoReturns
<1>8. ASSUME NEW t \in Thread, MaintainStep(t) PROVE Nothing
  BY <1>8 DEF MaintainStep, MaintainBegin, MaintainForce, MaintainNoId, MaintainDead,
    MaintainSwitch, MaintainAgain, MaintainNothing, MaintainMerge, MaintainSelect,
    MaintainTested, MaintainQuiet, MaintainDecide, MaintainEnd
<1>9. ASSUME NEW t \in Thread, CheckerOk(t) \/ CheckerBad(t) \/ CheckerMark(t) PROVE Nothing
  BY <1>9 DEF CheckerOk, CheckerBad, CheckerMark
<1>10. ASSUME NEW t \in Thread, ProcessExit(t)
       PROVE  Kill({t}) /\ \A u \in Thread : pc'[u] = pc[u]
  BY <1>10 DEF ProcessExit
<1>11. CASE UserRouting \/ UNCHANGED vars
  BY <1>11 DEF UserRouting
<1>12. QED
  BY <1>1, <1>2, <1>3, <1>4, <1>5, <1>6, <1>7, <1>8, <1>9, <1>10, <1>11
  DEF Next, Work, StopStep, ConnectStep

(* A process is awaited until it is initialised or gone, and only one is   *)
(* initialised at a time.                                                  *)
LEMMA StrayStep == IInv /\ [Next]_vars => NoStrayProcess'
<1> SUFFICES ASSUME IInv, [Next]_vars PROVE NoStrayProcess'
  OBVIOUS
<1>0. /\ pc \in [Thread -> Label] /\ live \in SUBSET Thread /\ ready \in SUBSET Thread
      /\ NoStrayProcess
  BY DEF IInv, TypeOK
<1> USE <1>0 DEF NoStrayProcess
<1>1. CASE UNCHANGED procs /\ \A u \in Thread : pc[u] = "c_wait" => pc'[u] = pc[u]
  BY <1>1 DEF procs
<1>2. ASSUME NEW S, Kill(S), \A u \in Thread \ S : pc[u] = "c_wait" => pc'[u] = pc[u]
      PROVE  NoStrayProcess'
  BY <1>2 DEF Kill
<1>3. ASSUME NEW t \in Thread, ConnectLaunch(t) PROVE NoStrayProcess'
  BY <1>3 DEF ConnectLaunch, Goto, procs
<1>4. ASSUME NEW t \in Thread, ProcessReady(t) PROVE NoStrayProcess'
  BY <1>4 DEF ProcessReady, Goto
<1>5. QED
  BY <1>1, <1>2, <1>3, <1>4, ProcessUse

(* Where setup_policy_routing succeeds, a tunnel without routes has not    *)
(* come to it yet, or is being stopped by whoever removed them.            *)
LEMMA RoutesStep ==
  ASSUME IInv, TunnelHasRoutes, [Next]_vars, RoutesFail = FALSE
  PROVE  TunnelHasRoutes'
<1>0. /\ pc \in [Thread -> Label] /\ ready \in SUBSET Thread /\ routes \in BOOLEAN
      /\ TunnelHasRoutes
  BY DEF IInv, TypeOK
<1> DEFINE Coming(u) == pc[u] \in {"c_said", "c_pub", "c_routes"}
           Ending(u) == pc[u] \in {"s_stop", "s_kill"}
           Passes(t) == /\ \A u \in Thread \ {t} : pc'[u] = pc[u]
                        /\ Coming(t) => Coming(t)'
                        /\ Ending(t) => Ending(t)'
                        /\ ready' \subseteq ready
                        /\ routes' = routes
<1>1. ASSUME NEW t \in Thread, Passes(t) PROVE TunnelHasRoutes'
  BY <1>0, <1>1 DEF TunnelHasRoutes
<1> USE <1>0 DEF Goto, Return, Kill, procs, vars
<1>2. ASSUME NEW t \in Thread, Start(t) PROVE TunnelHasRoutes'
  <2>1. Passes(t)
    BY <1>2 DEF Start, MaintainTick, CheckerTick, UserConnect, UserDisconnect, UserCheck,
      ReconnectBg, FetchAndSwitchBg, Begin
  <2>2. QED
    BY <1>1, <2>1
<1>3. ASSUME NEW t \in Thread, StopStep(t) PROVE TunnelHasRoutes'
  <2>1. CASE StopRoutes(t)
    BY <2>1 DEF StopRoutes, TunnelHasRoutes
  <2>2. CASE StopProcess(t)
    <3>1. Passes(t)
      BY <2>2 DEF StopProcess
    <3>2. QED
      BY <1>1, <3>1
  <2>3. CASE StopKillAll(t)
    <3>1. ready' = {}
      BY <2>3 DEF StopKillAll
    <3>2. QED
      BY <3>1 DEF TunnelHasRoutes
  <2>4. QED
    BY <1>3, <2>1, <2>2, <2>3 DEF StopStep
<1>4. ASSUME NEW t \in Thread, ConnectStep(t) PROVE TunnelHasRoutes'
  <2>1. CASE ConnectNotReady(t)
    BY <2>1 DEF ConnectNotReady, TunnelHasRoutes
  <2>2. CASE ConnectRoutes(t)
    BY <2>2 DEF ConnectRoutes, TunnelHasRoutes
  <2>3. CASE AlreadyConnecting(t) \/ ConnectFinally(t)
    <3>1. Passes(t)
      BY <2>3 DEF AlreadyConnecting, ConnectFinally, ConnectReturns
    <3>2. QED
      BY <1>1, <3>1
  <2>4. CASE ConnectEnter(t) \/ ConnectRead(t) \/ ConnectLaunch(t) \/ ConnectReady(t)
    <3>1. Passes(t)
      BY <2>4 DEF ConnectEnter, ConnectRead, ConnectLaunch, ConnectReady
    <3>2. QED
      BY <1>1, <3>1
  <2>5. CASE ConnectFailed(t) \/ ConnectDropId(t) \/ ConnectPublish(t) \/ ConnectSave(t)
    <3>1. Passes(t)
      BY <2>5 DEF ConnectFailed, ConnectDropId, ConnectPublish, ConnectSave
    <3>2. QED
      BY <1>1, <3>1
  <2>6. QED
    BY <1>4, <2>1, <2>2, <2>3, <2>4, <2>5 DEF ConnectStep
<1>5. ASSUME NEW t \in Thread, SwitchStep(t) \/ DisconnectNodes(t) PROVE TunnelHasRoutes'
  <2>1. Passes(t)
    BY <1>5 DEF SwitchStep, SwitchGivesUp, SwitchFixedIp, SwitchPick, SwitchStop, SwitchFetch,
      DisconnectNodes, AutoReturns
  <2>2. QED
    BY <1>1, <2>1
<1>6. ASSUME NEW t \in Thread, MaintainStep(t) PROVE TunnelHasRoutes'
  <2>1. Passes(t)
    BY <1>6 DEF MaintainStep, MaintainBegin, MaintainForce, MaintainNoId, MaintainDead,
      MaintainSwitch, MaintainAgain, MaintainNothing, MaintainMerge, MaintainSelect,
      MaintainTested, MaintainQuiet, MaintainDecide, MaintainEnd
  <2>2. QED
    BY <1>1, <2>1
<1>7. ASSUME NEW t \in Thread, CheckerOk(t) \/ CheckerBad(t) \/ CheckerMark(t)
      PROVE  TunnelHasRoutes'
  <2>1. Passes(t)
    BY <1>7 DEF CheckerOk, CheckerBad, CheckerMark
  <2>2. QED
    BY <1>1, <2>1
<1>8. ASSUME NEW t \in Thread, ProcessReady(t) PROVE TunnelHasRoutes'
  BY <1>8 DEF ProcessReady, TunnelHasRoutes
<1>9. ASSUME NEW t \in Thread, ProcessExit(t) PROVE TunnelHasRoutes'
  BY <1>9 DEF ProcessExit, TunnelHasRoutes
<1>10. CASE UserRouting \/ UNCHANGED vars
  BY <1>10 DEF UserRouting, TunnelHasRoutes
<1>11. QED
  BY <1>2, <1>3, <1>4, <1>5, <1>6, <1>7, <1>8, <1>9, <1>10 DEF Next, Work
-----------------------------------------------------------------------------
(* The invariant holds of every behaviour of the service.                  *)
THEOREM Invariance == Spec => []IInv
<1>1. IInv /\ [Next]_vars => IInv'
  BY TypeStep, ReturnsStep, FlagStep, StrayStep DEF IInv
<1>2. QED
  BY <1>1, InitInv, PTL DEF Spec

(* All variables keep to their declared values; auto_switch_node never     *)
(* makes more than its attempts.                                           *)
THEOREM TypeCorrect == Spec => []TypeOK
<1>1. IInv => TypeOK
  BY DEF IInv
<1>2. QED
  BY <1>1, Invariance, PTL

(* is_connecting is never left set with nobody about to clear it.          *)
THEOREM FlagOwned == Spec => []FlagHasOwner
<1>1. IInv => FlagHasOwner
  BY DEF IInv
<1>2. QED
  BY <1>1, Invariance, PTL

(* Overlapping connects leave no OpenVPN process behind.                   *)
THEOREM NoStray == Spec => []NoStrayProcess
<1>1. IInv => NoStrayProcess
  BY DEF IInv
<1>2. QED
  BY <1>1, Invariance, PTL

(* Where setup_policy_routing succeeds, a tunnel that is up has its        *)
(* routes, or is about to have them or to be taken down.                   *)
THEOREM TunnelRouted ==
  ASSUME RoutesFail = FALSE
  PROVE  Spec => []TunnelHasRoutes
<1>1. Init => TunnelHasRoutes
  BY DEF Init, TunnelHasRoutes
<1>2. IInv /\ TunnelHasRoutes /\ [Next]_vars => TunnelHasRoutes'
  BY RoutesStep
<1>3. QED
  BY <1>1, <1>2, Invariance, PTL DEF Spec
=============================================================================
