--------------------------- MODULE Gateway_proofs ---------------------------
(***************************************************************************)
(* Proofs about the Go service, for any sets of nodes, process slots and   *)
(* web requests, any node list and any settings.                           *)
(*                                                                         *)
(* The invariant IInv is preserved by every step: first its type part,     *)
(* then, knowing the types before and after, the rest.  Each lemma treats  *)
(* the actions of one operation.  The last section is the refinement.      *)
(***************************************************************************)
EXTENDS GatewayProps, WellFoundedInduction, TLAPS

-----------------------------------------------------------------------------
(* The node list and the choice of the node to connect to.                 *)

(* A set of numbers that is not empty has a least one.                     *)
LEMMA Least ==
  ASSUME NEW S \in SUBSET Nat, S # {}
  PROVE  \E m \in S : \A j \in S : m <= j
<1> DEFINE R == OpToRel(<, Nat)
<1>1. PICK m \in S : \A j \in S : ~ (<<j, m>> \in R)
  BY NatLessThanWellFounded, WFMin
<1>2. \A j \in S : ~ (j < m)
  BY <1>1 DEF OpToRel
<1>3. QED
  BY <1>2

(* Every list a refresh can produce is a list of entries.                  *)
LEMMA RefreshedListsType == RefreshedLists \subseteq NodeList
<1>1. SUFFICES ASSUME NEW list \in RefreshedLists
               PROVE  list \in NodeList
  OBVIOUS
<1>2. PICK k \in 0..Cardinality(Node) :
        list \in [1..k -> [id: Node, available: BOOLEAN, invalid: {FALSE}]]
  BY DEF RefreshedLists
<1>3. list \in [1..k -> Entry]
  BY <1>2 DEF Entry
<1>4. k \in Nat
  OBVIOUS
<1>5. QED
  BY <1>3, <1>4 DEF NodeList

(* Marking a node failed keeps a list a list.                              *)
LEMMA MarkFailedType ==
  ASSUME NEW list \in NodeList, NEW n
  PROVE  MarkFailed(list, n) \in NodeList
<1>1. Len(list) \in Nat /\ DOMAIN list = 1..Len(list)
  BY DEF NodeList
<1>2. ASSUME NEW i \in 1..Len(list)
      PROVE  [list[i] EXCEPT !.available = FALSE, !.invalid = TRUE] \in Entry
  <2>1. list[i] \in Entry
    BY <1>2 DEF NodeList
  <2>2. QED
    BY <2>1 DEF Entry
<1>3. ASSUME NEW i \in 1..Len(list)
      PROVE  list[i] \in Entry
  BY <1>3 DEF NodeList
<1>4. MarkFailed(list, n) \in [1..Len(list) -> Entry]
  BY <1>1, <1>2, <1>3 DEF MarkFailed
<1>5. QED
  BY <1>1, <1>4 DEF NodeList

(* So does the end of a backoff.                                           *)
LEMMA BackoffOverType ==
  ASSUME NEW list \in NodeList, NEW n
  PROVE  BackoffOver(list, n) \in NodeList
<1>1. Len(list) \in Nat /\ DOMAIN list = 1..Len(list)
  BY DEF NodeList
<1>2. ASSUME NEW i \in 1..Len(list)
      PROVE  [list[i] EXCEPT !.invalid = FALSE] \in Entry
  <2>1. list[i] \in Entry
    BY <1>2 DEF NodeList
  <2>2. QED
    BY <2>1 DEF Entry
<1>3. ASSUME NEW i \in 1..Len(list)
      PROVE  list[i] \in Entry
  BY <1>3 DEF NodeList
<1>4. BackoffOver(list, n) \in [1..Len(list) -> Entry]
  BY <1>1, <1>2, <1>3 DEF BackoffOver
<1>5. QED
  BY <1>1, <1>4 DEF NodeList

(* And so does merging tested copies.                                      *)
LEMMA MergeTestedType ==
  ASSUME NEW list \in NodeList, NEW S \in SUBSET Entry
  PROVE  MergeTested(list, S) \in NodeList
  BY DEF MergeTested, NodeList, Entry

(* The routing policy returns a node or None.                              *)
LEMMA RouteChoiceType ==
  ASSUME NEW list \in NodeList, NEW s
  PROVE  RouteChoice(list, s) \in Node \cup {None}
<1> DEFINE hits == { i \in Considered(list) : Wanted(list[i], s) }
           pool == IF hits # {} THEN hits
                   ELSE IF s.mode = "auto" THEN Considered(list) ELSE {}
           first == CHOOSE i \in pool : \A j \in pool : i <= j
<1>1. RouteChoice(list, s) = IF pool = {} THEN None ELSE list[first].id
  BY DEF RouteChoice
<1>2. CASE pool = {}
  BY <1>1, <1>2
<1>3. CASE pool # {}
  <2>1. pool \subseteq DOMAIN list
    BY DEF Considered
  <2>2. pool \subseteq Nat
    BY <2>1 DEF NodeList
  <2>3. \E m \in pool : \A j \in pool : m <= j
    BY <1>3, <2>2, Least
  <2>4. first \in pool
    BY <2>3
  <2>5. list[first] \in Entry
    BY <2>1, <2>4 DEF NodeList
  <2>6. QED
    BY <1>1, <1>3, <2>5 DEF Entry
<1>4. QED
  BY <1>2, <1>3
-----------------------------------------------------------------------------
(* What Stop does to the processes.                                        *)
LEMMA StopRetires ==
  ASSUME TypeOK, FieldsAgree, SlotsAccounted, Stop
  PROVE  /\ cmd' = None /\ nodeID' = None
         /\ \A p \in Proc : /\ proc'[p].st = proc[p].st
                            /\ proc'[p].node = proc[p].node
                            /\ proc'[p].waited = proc[p].waited
                            /\ proc'[p].told = (proc[p].told \/ p = cmd)
  BY ManagerAssumption DEF TypeOK, ManagerTypeOK, Stop, ProcState

(* The types of the manager's fields survive it.                           *)
LEMMA StopType ==
  ASSUME ManagerTypeOK, Stop
  PROVE  ManagerTypeOK'
<1>1. cmd' = None /\ nodeID' = None
  BY DEF Stop
<1>2. CASE cmd = None
  BY <1>1, <1>2 DEF Stop, ManagerTypeOK
<1>3. CASE cmd # None
  <2>1. [proc[cmd] EXCEPT !.told = TRUE] \in ProcState
    BY <1>3 DEF ManagerTypeOK, ProcState
  <2>2. proc' \in [Proc -> ProcState]
    BY <1>3, <2>1 DEF Stop, ManagerTypeOK
  <2>3. QED
    BY <1>1, <2>2 DEF ManagerTypeOK
<1>4. QED
  BY <1>2, <1>3

(* It loses no process, provided no Start is at the point of publishing.   *)
LEMMA StopAccounts ==
  ASSUME TypeOK, FieldsAgree, SlotsAccounted, Stop,
         \A t \in Thread, p \in Proc : Launching(t, p) => Launching(t, p)'
  PROVE  SlotsAccounted'
<1> SUFFICES ASSUME NEW p \in Proc PROVE Accounted(p)'
  BY DEF SlotsAccounted
<1>0. Accounted(p)
  BY DEF SlotsAccounted
<1>1. CASE p = cmd
  BY <1>0, <1>1, StopRetires, ManagerAssumption
  DEF Accounted, TypeOK, ManagerTypeOK, FieldsAgree, ProcState
<1>2. CASE p # cmd
  <2>1. proc'[p] = proc[p]
    BY <1>2 DEF Stop, TypeOK, ManagerTypeOK
  <2>2. QED
    BY <1>0, <1>2, <2>1, StopRetires, ManagerAssumption DEF Accounted
<1>3. QED
  BY <1>1, <1>2

(* TypeOK survives every step of Connect and Start.                        *)
LEMMA ConnectType ==
  ASSUME IInv, NEW t \in Thread, ConnectStep(t)
  PROVE  TypeOK'
<1> USE NodesAssumption, ManagerAssumption, GatewayAssumption
    DEF IInv, TypeOK, ManagerTypeOK, ProcState, Label, Routing, Goto, Return,
      appVars, mgrVars, threadVars, Thread, ConnectSection, DisconnectSection
<1>1. CASE ConnectMode(t)
  BY <1>1 DEF ConnectMode
<1>2. CASE ConnectCopy(t)
  BY <1>2 DEF ConnectCopy
<1>3. CASE ConnectPin(t)
  BY <1>3 DEF ConnectPin, Coherent, ThreadKnows
<1>4. CASE ConnectConfig(t)
  BY <1>4 DEF ConnectConfig
<1>5. CASE ConnectNoConfig(t)
  BY <1>5 DEF ConnectNoConfig
<1>6. CASE StartStop(t)
  BY <1>6, StopType DEF StartStop
<1>7. CASE StartSpawn(t)
  BY <1>7 DEF StartSpawn, Spawn
<1>8. CASE StartNoSpawn(t)
  BY <1>8 DEF StartNoSpawn
<1>9. CASE StartPublish(t)
  <2>1. slot[t] \in Proc
    BY <1>9 DEF StartPublish, Coherent, StartKnows
  <2>2. proc[slot[t]] \in ProcState
    BY <2>1
  <2>3. ManagerTypeOK'
    BY <1>9, <2>1, <2>2 DEF StartPublish, Publish
  <2>4. QED
    BY <1>9, <2>3 DEF StartPublish
<1>10. CASE StartReady(t)
  BY <1>10 DEF StartReady
<1>11. CASE StartError(t)
  BY <1>11, StopType DEF StartError
<1>12. CASE ConnectMark(t)
  BY <1>12, MarkFailedType DEF ConnectMark
<1>13. CASE ConnectFailed(t)
  BY <1>13 DEF ConnectFailed
<1>14. CASE ConnectRoute(t)
  BY <1>14 DEF ConnectRoute
<1>15. CASE ConnectDone(t)
  BY <1>15 DEF ConnectDone
<1>16. QED
  BY <1>1, <1>2, <1>3, <1>4, <1>5, <1>6, <1>7, <1>8, <1>9,
     <1>10, <1>11, <1>12, <1>13, <1>14, <1>15 DEF ConnectStep

(* TypeOK survives every step of Disconnect.                               *)
LEMMA DisconnectType ==
  ASSUME IInv, NEW t \in Thread, DisconnectStep(t)
  PROVE  TypeOK'
<1> USE NodesAssumption, ManagerAssumption, GatewayAssumption
    DEF IInv, TypeOK, ManagerTypeOK, ProcState, Label, Routing, Goto, Return,
      appVars, mgrVars, threadVars, Thread, ConnectSection, DisconnectSection
<1>1. CASE DisconnectRoutes(t)
  BY <1>1 DEF DisconnectRoutes
<1>2. CASE DisconnectStop(t)
  BY <1>2, StopType DEF DisconnectStop
<1>3. CASE DisconnectState(t)
  BY <1>3 DEF DisconnectState
<1>4. QED
  BY <1>1, <1>2, <1>3 DEF DisconnectStep

(* Where a refresh leaves its thread. *)
ThreadsAfterRefresh ==
  /\ pc' \in [Thread -> Label]
  /\ target' \in [Thread -> Node \cup {None}]
  /\ slot' \in [Thread -> Proc \cup {None}]
  /\ ready' \in [Thread -> {"none", "ok", "err"}]
  /\ copy' \in [Thread -> Routing \cup {None}]
  /\ tested' \in [Thread -> SUBSET Entry]

(* A refresh goes on to the connect of the maintain loop or ends.          *)
LEMMA AfterRefreshMoves ==
  ASSUME TypeOK, NEW t \in Thread, NEW from, AfterRefresh(t, from)
  PROVE  ThreadsAfterRefresh
<1>1. CASE t = Maintain
  <2>1. /\ Goto(t, from, IF AutoConnect THEN "m_running" ELSE "idle")
        /\ UNCHANGED <<target, slot, ready, copy, tested>>
    BY <1>1 DEF AfterRefresh
  <2>2. (IF AutoConnect THEN "m_running" ELSE "idle") \in {"idle", "m_running"}
    BY Zenon
  <2>3. QED
    BY <2>1, <2>2 DEF Goto, TypeOK, ThreadsAfterRefresh, Label
<1>2. CASE t # Maintain
  <2>1. Return(t, from)
    BY <1>2, Zenon DEF AfterRefresh
  <2>2. QED
    BY <2>1 DEF Return, Goto, TypeOK, ThreadsAfterRefresh, Label
<1>3. QED
  BY <1>1, <1>2

(* TypeOK survives every step of RefreshNodes.                             *)
LEMMA RefreshType ==
  ASSUME IInv, NEW t \in Thread, RefreshStep(t)
  PROVE  TypeOK'
<1> USE NodesAssumption, ManagerAssumption, GatewayAssumption
    DEF IInv, TypeOK, ManagerTypeOK, ProcState, Label, Routing, Goto, Return,
      appVars, mgrVars, threadVars, Thread, ConnectSection, DisconnectSection
<1>1. CASE RefreshFailed(t)
  <2>1. ThreadsAfterRefresh
    BY <1>1, AfterRefreshMoves DEF RefreshFailed
  <2>2. connecting' \in BOOLEAN
    BY <1>1 DEF RefreshFailed
  <2>3. UNCHANGED <<mgrVars, life, nodes, ui, opMu, routes, reported, failures>>
    BY <1>1 DEF RefreshFailed
  <2>4. QED
    BY <2>1, <2>2, <2>3 DEF ThreadsAfterRefresh
<1>2. CASE RefreshStore(t)
  BY <1>2, RefreshedListsType DEF RefreshStore
<1>3. CASE RefreshState(t)
  <2>1. ThreadsAfterRefresh
    BY <1>3, AfterRefreshMoves DEF RefreshState
  <2>2. connecting' \in BOOLEAN
    BY <1>3 DEF RefreshState
  <2>3. UNCHANGED <<mgrVars, life, nodes, ui, opMu, routes, reported, failures>>
    BY <1>3 DEF RefreshState
  <2>4. QED
    BY <2>1, <2>2, <2>3 DEF ThreadsAfterRefresh
<1>4. QED
  BY <1>1, <1>2, <1>3 DEF RefreshStep

(* TypeOK survives every step of settings and node tests.                  *)
LEMMA SettingsType ==
  ASSUME IInv, NEW t \in Thread, UserStep(t)
  PROVE  TypeOK'
<1> USE NodesAssumption, ManagerAssumption, GatewayAssumption
    DEF IInv, TypeOK, ManagerTypeOK, ProcState, Label, Routing, Goto, Return,
      appVars, mgrVars, threadVars, Thread, ConnectSection, DisconnectSection
<1>1. CASE RoutingWrite(t)
  <2>1. copy[t] \in Routing
    BY <1>1 DEF RoutingWrite, Coherent, ThreadKnows
  <2>2. PICK m \in Mode, c \in Country \cup {None} :
          ui' = [copy[t] EXCEPT !.mode = m, !.country = c]
    BY <1>1 DEF RoutingWrite
  <2>3. ui' \in Routing
    BY <2>1, <2>2
  <2>4. QED
    BY <1>1, <2>3 DEF RoutingWrite
<1>2. CASE TestMerge(t)
  <2>1. PICK done \in SUBSET tested[t], up \in SUBSET Node :
          nodes' = MergeTested(nodes,
                     { [e EXCEPT !.available = (e.id \in up)] : e \in done })
    BY <1>2 DEF TestMerge
  <2>2. done \subseteq Entry
    BY <1>2
  <2>3. ASSUME NEW e \in done
        PROVE  [e EXCEPT !.available = (e.id \in up)] \in Entry
    <3>1. \A b \in BOOLEAN : [e EXCEPT !.available = b] \in Entry
      BY <2>2, <2>3 DEF Entry
    <3>2. (e.id \in up) \in BOOLEAN
      OBVIOUS
    <3>3. QED
      BY <3>1, <3>2, Zenon
  <2>4. nodes' \in NodeList
    BY <2>1, <2>3, MergeTestedType
  <2>5. QED
    BY <1>2, <2>4 DEF TestMerge
<1>3. QED
  BY <1>1, <1>2 DEF UserStep

(* TypeOK survives every step of the maintain loop.                        *)
LEMMA MaintainType ==
  ASSUME IInv, MaintainStep
  PROVE  TypeOK'
<1> USE NodesAssumption, ManagerAssumption, GatewayAssumption
    DEF IInv, TypeOK, ManagerTypeOK, ProcState, Label, Routing, Goto, Return,
      appVars, mgrVars, threadVars, Thread, ConnectSection, DisconnectSection
<1>1. CASE MaintainRunning
  BY <1>1 DEF MaintainRunning
<1>2. CASE MaintainSelect
  BY <1>2, RouteChoiceType DEF MaintainSelect, SelectAndConnect
<1>3. QED
  BY <1>1, <1>2 DEF MaintainStep

(* TypeOK survives every step of the health loop.                          *)
LEMMA HealthType ==
  ASSUME IInv, HealthStep
  PROVE  TypeOK'
<1> USE NodesAssumption, ManagerAssumption, GatewayAssumption
    DEF IInv, TypeOK, ManagerTypeOK, ProcState, Label, Routing, Goto, Return,
      appVars, mgrVars, threadVars, Thread, ConnectSection, DisconnectSection
<1>1. CASE HealthOk
  BY <1>1 DEF HealthOk
<1>2. CASE HealthBad
  BY <1>2 DEF HealthBad
<1>3. CASE HealthActive
  BY <1>3 DEF HealthActive
<1>4. CASE HealthMark
  BY <1>4, MarkFailedType DEF HealthMark
<1>5. CASE HealthMode
  BY <1>5 DEF HealthMode
<1>6. CASE HealthStop
  BY <1>6, StopType DEF HealthStop
<1>7. CASE HealthSelect
  BY <1>7, RouteChoiceType DEF HealthSelect, SelectAndConnect
<1>8. QED
  BY <1>1, <1>2, <1>3, <1>4, <1>5, <1>6, <1>7 DEF HealthStep

(* TypeOK survives every step of taking opMu.                              *)
LEMMA LockType ==
  ASSUME IInv, NEW t \in Thread, ConnectLock(t) \/ DisconnectLock(t)
  PROVE  TypeOK'
<1> USE NodesAssumption, ManagerAssumption, GatewayAssumption
    DEF IInv, TypeOK, ManagerTypeOK, ProcState, Label, Routing, Goto, Return,
      appVars, mgrVars, threadVars, Thread, ConnectSection, DisconnectSection
<1>1. CASE ConnectLock(t)
  BY <1>1 DEF ConnectLock
<1>2. CASE DisconnectLock(t)
  BY <1>2 DEF DisconnectLock
<1>3. QED
  BY <1>1, <1>2

(* TypeOK survives every step of watchStreams.                             *)
LEMMA WatchType ==
  ASSUME IInv, NEW t \in Thread, NEW outcome \in {"ok", "err"},
         WatchStreams(t, outcome)
  PROVE  TypeOK'
<1> USE NodesAssumption, ManagerAssumption, GatewayAssumption
    DEF IInv, TypeOK, ManagerTypeOK, ProcState, Label, Routing, Goto, Return,
      appVars, mgrVars, threadVars, Thread, ConnectSection, DisconnectSection
<1>1. CASE WatchStreams(t, outcome)
  BY <1>1 DEF WatchStreams
<1>2. QED
  BY <1>1

(* TypeOK survives every step of accepting a request.                      *)
LEMMA RequestType ==
  ASSUME IInv, NEW t \in User, UserRequest(t)
  PROVE  TypeOK'
<1> USE NodesAssumption, ManagerAssumption, GatewayAssumption
    DEF IInv, TypeOK, ManagerTypeOK, ProcState, Label, Routing, Goto, Return,
      appVars, mgrVars, threadVars, Thread, ConnectSection, DisconnectSection
<1>1. CASE UserConnect(t)
  BY <1>1 DEF UserConnect, Accept
<1>2. CASE UserDisconnect(t)
  BY <1>2 DEF UserDisconnect, Accept
<1>3. CASE UserRefresh(t)
  BY <1>3 DEF UserRefresh, Accept
<1>4. CASE UserRouting(t)
  BY <1>4 DEF UserRouting, Accept
<1>5. CASE UserTest(t)
  <2>1. PICK ids \in SUBSET Node :
          tested' = [tested EXCEPT ![t] =
            { nodes[i] : i \in { j \in DOMAIN nodes : nodes[j].id \in ids } }]
    BY <1>5, Zenon DEF UserTest
  <2> DEFINE picked ==
        { nodes[i] : i \in { j \in DOMAIN nodes : nodes[j].id \in ids } }
  <2>2. picked \subseteq Entry
    BY <2>1 DEF NodeList
  <2>3. tested' \in [Thread -> SUBSET Entry]
    BY <2>1, <2>2
  <2>4. QED
    BY <1>5, <2>3 DEF UserTest, Accept
<1>6. QED
  BY <1>1, <1>2, <1>3, <1>4, <1>5 DEF UserRequest

(* TypeOK survives every step of the ticks of the loops.                   *)
LEMMA TickType ==
  ASSUME IInv, MaintainTick \/ HealthTick
  PROVE  TypeOK'
<1> USE NodesAssumption, ManagerAssumption, GatewayAssumption
    DEF IInv, TypeOK, ManagerTypeOK, ProcState, Label, Routing, Goto, Return,
      appVars, mgrVars, threadVars, Thread, ConnectSection, DisconnectSection
<1>1. CASE MaintainTick
  BY <1>1 DEF MaintainTick
<1>2. CASE HealthTick
  BY <1>2 DEF HealthTick
<1>3. QED
  BY <1>1, <1>2

(* A private copy whose backoff is over is still a list entry.             *)
LEMMA CoolCopyType ==
  ASSUME TypeOK, NEW t \in Thread, NEW n \in Node
  PROVE  { IF e.id = n THEN [e EXCEPT !.invalid = FALSE] ELSE e
             : e \in tested[t] } \subseteq Entry
<1>1. tested[t] \subseteq Entry
  BY DEF TypeOK
<1>2. ASSUME NEW e \in Entry
      PROVE  [e EXCEPT !.invalid = FALSE] \in Entry
  BY DEF Entry
<1>3. QED
  BY <1>1, <1>2

(* TypeOK survives every step of the clock.                                *)
LEMMA ClockType ==
  ASSUME IInv, NEW n \in Node,
         BackoffEnds(n) \/ (\E t \in Thread : OldBackoffEnds(t, n))
  PROVE  TypeOK'
<1> USE NodesAssumption, ManagerAssumption, GatewayAssumption
    DEF IInv, TypeOK, ManagerTypeOK, ProcState, Label, Routing, Goto, Return,
      appVars, mgrVars, threadVars, Thread, ConnectSection, DisconnectSection
<1>1. CASE BackoffEnds(n)
  <2>1. ASSUME NEW t \in Thread
        PROVE  { IF e.id = n THEN [e EXCEPT !.invalid = FALSE] ELSE e
                   : e \in tested[t] } \subseteq Entry
    BY CoolCopyType
  <2>2. tested' \in [Thread -> SUBSET Entry]
    BY <1>1, <2>1 DEF BackoffEnds
  <2>3. nodes' \in NodeList
    BY <1>1, BackoffOverType DEF BackoffEnds
  <2>4. QED
    BY <1>1, <2>2, <2>3 DEF BackoffEnds
<1>2. CASE \E t \in Thread : OldBackoffEnds(t, n)
  <2>1. PICK t \in Thread : OldBackoffEnds(t, n)
    BY <1>2
  <2>2. { IF e.id = n THEN [e EXCEPT !.invalid = FALSE] ELSE e
            : e \in tested[t] } \subseteq Entry
    BY CoolCopyType
  <2>3. tested' \in [Thread -> SUBSET Entry]
    BY <2>1, <2>2 DEF OldBackoffEnds
  <2>4. QED
    BY <2>1, <2>3 DEF OldBackoffEnds
<1>3. QED
  BY <1>1, <1>2

(* TypeOK survives every step of the processes and their Wait goroutines.  *)
LEMMA ProcessType ==
  ASSUME IInv, NEW p \in Proc, ProcessExit(p) \/ ProcessReap(p)
  PROVE  TypeOK'
<1> USE NodesAssumption, ManagerAssumption, GatewayAssumption
    DEF IInv, TypeOK, ManagerTypeOK, ProcState, Label, Routing, Goto, Return,
      appVars, mgrVars, threadVars, Thread, ConnectSection, DisconnectSection
<1>1. CASE ProcessExit(p)
  BY <1>1 DEF ProcessExit, Exit
<1>2. CASE ProcessReap(p)
  <2>1. FreeSlot \in ProcState
    BY DEF FreeSlot
  <2>2. proc' \in [Proc -> ProcState]
    BY <1>2, <2>1 DEF ProcessReap, Reap
  <2>3. cmd' \in {cmd, None} /\ nodeID' \in {nodeID, None}
    BY <1>2 DEF ProcessReap, Reap
  <2>4. QED
    BY <1>2, <2>2, <2>3 DEF ProcessReap
<1>3. QED
  BY <1>1, <1>2

(* TypeOK survives every step of the end of Run.                           *)
LEMMA ShutdownType ==
  ASSUME IInv, Shutdown \/ RunStop \/ RunCleanup \/ MainReturn
  PROVE  TypeOK'
<1> USE NodesAssumption, ManagerAssumption, GatewayAssumption
    DEF IInv, TypeOK, ManagerTypeOK, ProcState, Label, Routing, Goto, Return,
      appVars, mgrVars, threadVars, Thread, ConnectSection, DisconnectSection
<1>1. CASE Shutdown
  BY <1>1 DEF Shutdown
<1>2. CASE RunStop
  BY <1>2, StopType DEF RunStop
<1>3. CASE RunCleanup
  BY <1>3 DEF RunCleanup
<1>4. CASE MainReturn
  BY <1>4 DEF MainReturn
<1>5. QED
  BY <1>1, <1>2, <1>3, <1>4

-----------------------------------------------------------------------------
(* Coherent survives every step of Connect and Start.                      *)
LEMMA ConnectCoherent ==
  ASSUME IInv, TypeOK', NEW t \in Thread, ConnectStep(t)
  PROVE  Coherent'
<1> USE NodesAssumption, ManagerAssumption, GatewayAssumption
    DEF IInv, TypeOK, ManagerTypeOK, ProcState, Routing, FreeSlot, Goto, Return,
      appVars, mgrVars, threadVars, Thread, ConnectSection, DisconnectSection,
      Coherent, OneOperator, InSection, FieldsAgree, SlotsAccounted, Accounted,
    ReportedNodeRuns, Running, StartKnows, ThreadKnows, Launching
<1>1. CASE ConnectMode(t)
  BY <1>1 DEF ConnectMode
<1>2. CASE ConnectCopy(t)
  BY <1>2 DEF ConnectCopy
<1>3. CASE ConnectPin(t)
  BY <1>3 DEF ConnectPin
<1>4. CASE ConnectConfig(t)
  BY <1>4 DEF ConnectConfig
<1>5. CASE ConnectNoConfig(t)
  BY <1>5 DEF ConnectNoConfig
<1>6. CASE StartStop(t)
  BY <1>6, StopRetires, StopAccounts DEF StartStop
<1>7. CASE StartSpawn(t)
  BY <1>7 DEF StartSpawn, Spawn
<1>8. CASE StartNoSpawn(t)
  BY <1>8 DEF StartNoSpawn
<1>9. CASE StartPublish(t)
  <2>1. /\ slot[t] \in Proc /\ proc[slot[t]].st # "free"
        /\ proc[slot[t]].node = target[t] /\ target[t] \in Node
        /\ ~proc[slot[t]].waited /\ ~proc[slot[t]].told
        /\ opMu = t /\ cmd = None /\ pc[t] = "s_publish"
        /\ \A u \in Thread : pc[u] = "s_publish" => u = t
    BY <1>9 DEF StartPublish
  <2>2. /\ cmd' = slot[t] /\ nodeID' = target[t]
        /\ proc' = [proc EXCEPT ![slot[t]].waited = TRUE]
        /\ pc' = [pc EXCEPT ![t] = "s_await"]
        /\ UNCHANGED <<appVars, target, slot, ready, copy, tested>>
    BY <1>9, <2>1 DEF StartPublish, Publish
  <2>3. OneOperator'
    BY <2>1, <2>2
  <2>4. FieldsAgree'
    BY <2>1, <2>2
  <2>5. SlotsAccounted'
    <3>1. SUFFICES ASSUME NEW p \in Proc PROVE Accounted(p)'
      OBVIOUS
    <3>2. CASE p = slot[t]
      BY <2>1, <2>2, <3>2
    <3>3. CASE p # slot[t]
      <4>1. proc'[p] = proc[p] /\ \A u \in Thread : ~Launching(u, p)
        BY <2>1, <2>2, <3>3
      <4>2. QED
        BY <2>1, <2>2, <3>3, <4>1
    <3>4. QED
      BY <3>2, <3>3
  <2>6. ReportedNodeRuns'
    BY <2>1, <2>2
  <2>7. ASSUME NEW u \in Thread
        PROVE  StartKnows(u)' /\ ThreadKnows(u)'
    BY <2>1, <2>2
  <2>8. QED
    BY <2>3, <2>4, <2>5, <2>6, <2>7
<1>10. CASE StartReady(t)
  BY <1>10 DEF StartReady
<1>11. CASE StartError(t)
  BY <1>11, StopRetires, StopAccounts DEF StartError
<1>12. CASE ConnectMark(t)
  BY <1>12 DEF ConnectMark
<1>13. CASE ConnectFailed(t)
  BY <1>13 DEF ConnectFailed
<1>14. CASE ConnectRoute(t)
  BY <1>14 DEF ConnectRoute
<1>15. CASE ConnectDone(t)
  BY <1>15 DEF ConnectDone
<1>16. QED
  BY <1>1, <1>2, <1>3, <1>4, <1>5, <1>6, <1>7, <1>8, <1>9,
     <1>10, <1>11, <1>12, <1>13, <1>14, <1>15 DEF ConnectStep

(* Coherent survives every step of Disconnect.                             *)
LEMMA DisconnectCoherent ==
  ASSUME IInv, TypeOK', NEW t \in Thread, DisconnectStep(t)
  PROVE  Coherent'
<1> USE NodesAssumption, ManagerAssumption, GatewayAssumption
    DEF IInv, TypeOK, ManagerTypeOK, ProcState, Routing, FreeSlot, Goto, Return,
      appVars, mgrVars, threadVars, Thread, ConnectSection, DisconnectSection,
      Coherent, OneOperator, InSection, FieldsAgree, SlotsAccounted, Accounted,
    ReportedNodeRuns, Running, StartKnows, ThreadKnows, Launching
<1>1. CASE DisconnectRoutes(t)
  BY <1>1 DEF DisconnectRoutes
<1>2. CASE DisconnectStop(t)
  BY <1>2, StopRetires, StopAccounts DEF DisconnectStop
<1>3. CASE DisconnectState(t)
  BY <1>3 DEF DisconnectState
<1>4. QED
  BY <1>1, <1>2, <1>3 DEF DisconnectStep

(* Coherent survives every step of RefreshNodes.                           *)
LEMMA RefreshCoherent ==
  ASSUME IInv, TypeOK', NEW t \in Thread, RefreshStep(t)
  PROVE  Coherent'
<1> USE NodesAssumption, ManagerAssumption, GatewayAssumption
    DEF IInv, TypeOK, ManagerTypeOK, ProcState, Routing, FreeSlot, Goto, Return,
      appVars, mgrVars, threadVars, Thread, ConnectSection, DisconnectSection,
      Coherent, OneOperator, InSection, FieldsAgree, SlotsAccounted, Accounted,
    ReportedNodeRuns, Running, StartKnows, ThreadKnows, Launching
<1>1. CASE RefreshFailed(t)
  BY <1>1 DEF RefreshFailed, AfterRefresh
<1>2. CASE RefreshStore(t)
  BY <1>2 DEF RefreshStore
<1>3. CASE RefreshState(t)
  BY <1>3 DEF RefreshState, AfterRefresh
<1>4. QED
  BY <1>1, <1>2, <1>3 DEF RefreshStep

(* Coherent survives every step of settings and node tests.                *)
LEMMA SettingsCoherent ==
  ASSUME IInv, TypeOK', NEW t \in Thread, UserStep(t)
  PROVE  Coherent'
<1> USE NodesAssumption, ManagerAssumption, GatewayAssumption
    DEF IInv, TypeOK, ManagerTypeOK, ProcState, Routing, FreeSlot, Goto, Return,
      appVars, mgrVars, threadVars, Thread, ConnectSection, DisconnectSection,
      Coherent, OneOperator, InSection, FieldsAgree, SlotsAccounted, Accounted,
    ReportedNodeRuns, Running, StartKnows, ThreadKnows, Launching
<1>1. CASE RoutingWrite(t)
  BY <1>1 DEF RoutingWrite
<1>2. CASE TestMerge(t)
  BY <1>2 DEF TestMerge
<1>3. QED
  BY <1>1, <1>2 DEF UserStep

(* Coherent survives every step of the maintain loop.                      *)
LEMMA MaintainCoherent ==
  ASSUME IInv, TypeOK', MaintainStep
  PROVE  Coherent'
<1> USE NodesAssumption, ManagerAssumption, GatewayAssumption
    DEF IInv, TypeOK, ManagerTypeOK, ProcState, Routing, FreeSlot, Goto, Return,
      appVars, mgrVars, threadVars, Thread, ConnectSection, DisconnectSection,
      Coherent, OneOperator, InSection, FieldsAgree, SlotsAccounted, Accounted,
    ReportedNodeRuns, Running, StartKnows, ThreadKnows, Launching
<1>1. CASE MaintainRunning
  BY <1>1 DEF MaintainRunning
<1>2. CASE MaintainSelect
  BY <1>2 DEF MaintainSelect, SelectAndConnect
<1>3. QED
  BY <1>1, <1>2 DEF MaintainStep

(* Coherent survives every step of the health loop.                        *)
LEMMA HealthCoherent ==
  ASSUME IInv, TypeOK', HealthStep
  PROVE  Coherent'
<1> USE NodesAssumption, ManagerAssumption, GatewayAssumption
    DEF IInv, TypeOK, ManagerTypeOK, ProcState, Routing, FreeSlot, Goto, Return,
      appVars, mgrVars, threadVars, Thread, ConnectSection, DisconnectSection,
      Coherent, OneOperator, InSection, FieldsAgree, SlotsAccounted, Accounted,
    ReportedNodeRuns, Running, StartKnows, ThreadKnows, Launching
<1>1. CASE HealthOk
  BY <1>1 DEF HealthOk
<1>2. CASE HealthBad
  BY <1>2 DEF HealthBad
<1>3. CASE HealthActive
  BY <1>3 DEF HealthActive
<1>4. CASE HealthMark
  BY <1>4 DEF HealthMark
<1>5. CASE HealthMode
  BY <1>5 DEF HealthMode
<1>6. CASE HealthStop
  BY <1>6, StopRetires, StopAccounts DEF HealthStop
<1>7. CASE HealthSelect
  BY <1>7 DEF HealthSelect, SelectAndConnect
<1>8. QED
  BY <1>1, <1>2, <1>3, <1>4, <1>5, <1>6, <1>7 DEF HealthStep

(* Coherent survives every step of taking opMu.                            *)
LEMMA LockCoherent ==
  ASSUME IInv, TypeOK', NEW t \in Thread, ConnectLock(t) \/ DisconnectLock(t)
  PROVE  Coherent'
<1> USE NodesAssumption, ManagerAssumption, GatewayAssumption
    DEF IInv, TypeOK, ManagerTypeOK, ProcState, Routing, FreeSlot, Goto, Return,
      appVars, mgrVars, threadVars, Thread, ConnectSection, DisconnectSection,
      Coherent, OneOperator, InSection, FieldsAgree, SlotsAccounted, Accounted,
    ReportedNodeRuns, Running, StartKnows, ThreadKnows, Launching
<1>1. CASE ConnectLock(t)
  BY <1>1 DEF ConnectLock
<1>2. CASE DisconnectLock(t)
  BY <1>2 DEF DisconnectLock
<1>3. QED
  BY <1>1, <1>2

(* Coherent survives every step of watchStreams.                           *)
LEMMA WatchCoherent ==
  ASSUME IInv, TypeOK', NEW t \in Thread, NEW outcome \in {"ok", "err"},
         WatchStreams(t, outcome)
  PROVE  Coherent'
<1> USE NodesAssumption, ManagerAssumption, GatewayAssumption
    DEF IInv, TypeOK, ManagerTypeOK, ProcState, Routing, FreeSlot, Goto, Return,
      appVars, mgrVars, threadVars, Thread, ConnectSection, DisconnectSection,
      Coherent, OneOperator, InSection, FieldsAgree, SlotsAccounted, Accounted,
    ReportedNodeRuns, Running, StartKnows, ThreadKnows, Launching
<1>1. CASE WatchStreams(t, outcome)
  BY <1>1 DEF WatchStreams
<1>2. QED
  BY <1>1

(* Coherent survives every step of accepting a request.                    *)
LEMMA RequestCoherent ==
  ASSUME IInv, TypeOK', NEW t \in User, UserRequest(t)
  PROVE  Coherent'
<1> USE NodesAssumption, ManagerAssumption, GatewayAssumption
    DEF IInv, TypeOK, ManagerTypeOK, ProcState, Routing, FreeSlot, Goto, Return,
      appVars, mgrVars, threadVars, Thread, ConnectSection, DisconnectSection,
      Coherent, OneOperator, InSection, FieldsAgree, SlotsAccounted, Accounted,
    ReportedNodeRuns, Running, StartKnows, ThreadKnows, Launching
<1>1. CASE UserConnect(t)
  BY <1>1 DEF UserConnect, Accept
<1>2. CASE UserDisconnect(t)
  BY <1>2 DEF UserDisconnect, Accept
<1>3. CASE UserRefresh(t)
  BY <1>3 DEF UserRefresh, Accept
<1>4. CASE UserRouting(t)
  BY <1>4 DEF UserRouting, Accept
<1>5. CASE UserTest(t)
  BY <1>5 DEF UserTest, Accept
<1>6. QED
  BY <1>1, <1>2, <1>3, <1>4, <1>5 DEF UserRequest

(* Coherent survives every step of the ticks of the loops.                 *)
LEMMA TickCoherent ==
  ASSUME IInv, TypeOK', MaintainTick \/ HealthTick
  PROVE  Coherent'
<1> USE NodesAssumption, ManagerAssumption, GatewayAssumption
    DEF IInv, TypeOK, ManagerTypeOK, ProcState, Routing, FreeSlot, Goto, Return,
      appVars, mgrVars, threadVars, Thread, ConnectSection, DisconnectSection,
      Coherent, OneOperator, InSection, FieldsAgree, SlotsAccounted, Accounted,
    ReportedNodeRuns, Running, StartKnows, ThreadKnows, Launching
<1>1. CASE MaintainTick
  BY <1>1 DEF MaintainTick
<1>2. CASE HealthTick
  BY <1>2 DEF HealthTick
<1>3. QED
  BY <1>1, <1>2

(* Coherent survives every step of the clock.                              *)
LEMMA ClockCoherent ==
  ASSUME IInv, TypeOK', NEW n \in Node,
         BackoffEnds(n) \/ (\E t \in Thread : OldBackoffEnds(t, n))
  PROVE  Coherent'
<1> USE NodesAssumption, ManagerAssumption, GatewayAssumption
    DEF IInv, TypeOK, ManagerTypeOK, ProcState, Routing, FreeSlot, Goto, Return,
      appVars, mgrVars, threadVars, Thread, ConnectSection, DisconnectSection,
      Coherent, OneOperator, InSection, FieldsAgree, SlotsAccounted, Accounted,
    ReportedNodeRuns, Running, StartKnows, ThreadKnows, Launching
<1>1. CASE BackoffEnds(n)
  BY <1>1 DEF BackoffEnds
<1>2. CASE \E t \in Thread : OldBackoffEnds(t, n)
  BY <1>2 DEF OldBackoffEnds
<1>3. QED
  BY <1>1, <1>2

(* Coherent survives every step of the processes and their Wait goroutines.*)
LEMMA ProcessCoherent ==
  ASSUME IInv, TypeOK', NEW p \in Proc, ProcessExit(p) \/ ProcessReap(p)
  PROVE  Coherent'
<1> USE NodesAssumption, ManagerAssumption, GatewayAssumption
    DEF IInv, TypeOK, ManagerTypeOK, ProcState, Routing, FreeSlot, Goto, Return,
      appVars, mgrVars, threadVars, Thread, ConnectSection, DisconnectSection,
      Coherent, OneOperator, InSection, FieldsAgree, SlotsAccounted, Accounted,
    ReportedNodeRuns, Running, StartKnows, ThreadKnows, Launching
<1>1. CASE ProcessExit(p)
  BY <1>1 DEF ProcessExit, Exit
<1>2. CASE ProcessReap(p)
  BY <1>2 DEF ProcessReap, Reap
<1>3. QED
  BY <1>1, <1>2

(* Coherent survives every step of the end of Run.                         *)
LEMMA ShutdownCoherent ==
  ASSUME IInv, TypeOK', Shutdown \/ RunStop \/ RunCleanup \/ MainReturn
  PROVE  Coherent'
<1> USE NodesAssumption, ManagerAssumption, GatewayAssumption
    DEF IInv, TypeOK, ManagerTypeOK, ProcState, Routing, FreeSlot, Goto, Return,
      appVars, mgrVars, threadVars, Thread, ConnectSection, DisconnectSection,
      Coherent, OneOperator, InSection, FieldsAgree, SlotsAccounted, Accounted,
    ReportedNodeRuns, Running, StartKnows, ThreadKnows, Launching
<1>1. CASE Shutdown
  BY <1>1 DEF Shutdown
<1>2. CASE RunStop
  BY <1>2, StopRetires, StopAccounts DEF RunStop
<1>3. CASE RunCleanup
  BY <1>3 DEF RunCleanup
<1>4. CASE MainReturn
  BY <1>4 DEF MainReturn
<1>5. QED
  BY <1>1, <1>2, <1>3, <1>4

-----------------------------------------------------------------------------
(* Together: every step preserves the types ...                            *)
LEMMA TypeStep ==
  ASSUME IInv, [Next]_vars
  PROVE  TypeOK'
<1>1. CASE Next
  <2>1. ASSUME NEW t \in Thread, Progress(t)
        PROVE  TypeOK'
    BY <2>1, ConnectType, DisconnectType, RefreshType, SettingsType,
       MaintainType, HealthType DEF Progress
  <2>2. QED
    BY <1>1, <2>1, LockType, WatchType, RequestType, TickType, ClockType,
       ProcessType, ShutdownType DEF Next
<1>2. CASE UNCHANGED vars
  BY <1>2 DEF IInv, TypeOK, ManagerTypeOK, vars, mgrVars, appVars, threadVars
<1>3. QED
  BY <1>1, <1>2

(* ... and the coherence of the state.                                     *)
LEMMA CoherentStep ==
  ASSUME IInv, TypeOK', [Next]_vars
  PROVE  Coherent'
<1>1. CASE Next
  <2>1. ASSUME NEW t \in Thread, Progress(t)
        PROVE  Coherent'
    BY <2>1, ConnectCoherent, DisconnectCoherent, RefreshCoherent,
       SettingsCoherent, MaintainCoherent, HealthCoherent DEF Progress
  <2>2. QED
    BY <1>1, <2>1, LockCoherent, WatchCoherent, RequestCoherent, TickCoherent,
       ClockCoherent, ProcessCoherent, ShutdownCoherent DEF Next
<1>2. CASE UNCHANGED vars
  BY <1>2 DEF IInv, Coherent, OneOperator, InSection, FieldsAgree,
    SlotsAccounted, Accounted, ReportedNodeRuns, Running, StartKnows,
    ThreadKnows, Launching, vars, mgrVars, appVars, threadVars
<1>3. QED
  BY <1>1, <1>2

(* It holds when the service starts.                                       *)
LEMMA InitIInv == Init => IInv
<1> SUFFICES ASSUME Init PROVE IInv
  OBVIOUS
<1>1. TypeOK
  <2>1. FreeSlot \in ProcState
    BY DEF FreeSlot, ProcState
  <2>2. ManagerTypeOK
    BY <2>1 DEF Init, ManagerInit, ManagerTypeOK
  <2>3. ui \in Routing
    BY GatewayAssumption DEF Init
  <2>4. QED
    <3>1. nodes \in NodeList
      BY GatewayAssumption DEF Init
    <3>2. /\ life \in {"up", "stopping", "stopped", "cleaned", "exited"}
          /\ opMu \in Thread \cup {None}
          /\ routes \in {"none", "table", "full"}
          /\ reported \in Node \cup {None}
          /\ failures \in 0..2
      BY DEF Init
    <3>2a. connecting \in BOOLEAN
      BY DEF Init
    <3>3. /\ pc \in [Thread -> Label]
          /\ target \in [Thread -> Node \cup {None}]
          /\ slot \in [Thread -> Proc \cup {None}]
          /\ ready \in [Thread -> {"none", "ok", "err"}]
          /\ copy \in [Thread -> Routing \cup {None}]
          /\ tested \in [Thread -> SUBSET Entry]
      BY DEF Init, Label
    <3>4. QED
      BY <2>2, <2>3, <3>1, <3>2, <3>2a, <3>3 DEF TypeOK
<1>2. Coherent
  BY NodesAssumption, ManagerAssumption, GatewayAssumption
  DEF Init, ManagerInit, Coherent, OneOperator, InSection, FieldsAgree,
    SlotsAccounted, Accounted, ReportedNodeRuns, Running, StartKnows,
    ThreadKnows, Launching, FreeSlot, ConnectSection, DisconnectSection, Thread
<1>3. QED
  BY <1>1, <1>2 DEF IInv

(* IInv is an inductive invariant of the service.                          *)
THEOREM Invariance == Spec => []IInv
<1>1. Init => IInv
  BY InitIInv
<1>2. IInv /\ [Next]_vars => IInv'
  BY TypeStep, CoherentStep DEF IInv
<1>3. QED
  BY <1>1, <1>2, PTL DEF Spec

(* All state stays in its types.                                           *)
THEOREM TypeCorrect == Spec => []TypeOK
<1>1. IInv => TypeOK
  BY DEF IInv
<1>2. QED
  BY <1>1, Invariance, PTL

(* opMu keeps Connect and Disconnect apart.                                *)
THEOREM Exclusion == Spec => []OneOperator
<1>1. IInv => OneOperator
  BY DEF IInv, Coherent
<1>2. QED
  BY <1>1, Invariance, PTL

(* Manager.cmd and Manager.nodeID speak of one process that has not been   *)
(* told to end.                                                            *)
THEOREM FieldsAgreement == Spec => []FieldsAgree
<1>1. IInv => FieldsAgree
  BY DEF IInv, Coherent
<1>2. QED
  BY <1>1, Invariance, PTL

(* Every OpenVPN process that nobody told to end is managed or about to    *)
(* be, so that it can still be stopped.                                    *)
THEOREM OrphanFreedom == Spec => []NoOrphan
<1>1. IInv => NoOrphan
  <2> SUFFICES ASSUME IInv, NEW p \in Proc, Loose(p), cmd # p
               PROVE  \E t \in Thread : opMu = t /\ Launching(t, p)
    BY DEF NoOrphan
  <2>1. Accounted(p)
    BY DEF IInv, Coherent, SlotsAccounted
  <2>2. PICK t \in Thread : Launching(t, p)
    BY <2>1 DEF Accounted, Loose
  <2>3. opMu = t
    BY <2>2 DEF IInv, Coherent, OneOperator, InSection, Launching, ConnectSection
  <2>4. QED
    BY <2>2, <2>3
<1>2. QED
  BY <1>1, Invariance, PTL

(* At rest, a running tunnel belongs to the node reported as active.       *)
THEOREM ReportIsTrue == Spec => []ReportedNodeRuns
<1>1. IInv => ReportedNodeRuns
  BY DEF IInv, Coherent
<1>2. QED
  BY <1>1, Invariance, PTL

(* Disconnect reports success only without a tunnel and without routes.    *)
THEOREM DisconnectWorks == Spec => []DisconnectIsEffective
<1>1. IInv => DisconnectIsEffective
  BY DEF IInv, Coherent, ThreadKnows, DisconnectIsEffective, Running
<1>2. QED
  BY <1>1, Invariance, PTL

(* A connect that reports success never reports somebody else's tunnel.    *)
THEOREM SuccessIsHonest == Spec => []SuccessIsOwnTunnel
<1>1. IInv => SuccessIsOwnTunnel
  BY DEF IInv, Coherent, StartKnows, SuccessIsOwnTunnel
<1>2. QED
  BY <1>1, Invariance, PTL
-----------------------------------------------------------------------------
(* The Go service implements TunnelSupervisor: every step of the service   *)
(* is a step of the supervisor or leaves its state alone.                  *)

(* A step that touches neither the managed process nor a launch nor what   *)
(* processes have been told. *)
Quiet ==
  /\ cmd' = cmd
  /\ \A p \in Proc : proc'[p].told = proc[p].told
  /\ \A t \in Thread : pc'[t] = "s_publish" <=> pc[t] = "s_publish"
  /\ \A t \in Thread : pc[t] = "s_publish" => slot'[t] = slot[t]

(* Only the holder of opMu launches, so the launched process is its own.   *)
LEMMA OneLaunch ==
  ASSUME IInv, NEW t \in Thread, pc[t] = "s_publish"
  PROVE  BeingLaunched = slot[t]
<1>1. \A u \in Thread : pc[u] = "s_publish" => u = t
  BY DEF IInv, Coherent, OneOperator, InSection, ConnectSection
<1>2. (CHOOSE u \in Thread : pc[u] = "s_publish") = t
  BY <1>1
<1>3. QED
  BY <1>2 DEF BeingLaunched

(* The same after a step.                                                  *)
LEMMA OneLaunchNext ==
  ASSUME IInv', NEW t \in Thread, pc'[t] = "s_publish"
  PROVE  BeingLaunched' = slot'[t]
<1>1. \A u \in Thread : pc'[u] = "s_publish" => u = t
  BY DEF IInv, Coherent, OneOperator, InSection, ConnectSection
<1>2. (CHOOSE u \in Thread : pc'[u] = "s_publish") = t
  BY <1>1
<1>3. QED
  BY <1>2 DEF BeingLaunched

(* Launches are where they were if no thread enters or leaves s_publish.   *)
LEMMA SameLaunch ==
  ASSUME IInv, IInv',
         \A t \in Thread : pc'[t] = "s_publish" <=> pc[t] = "s_publish",
         \A t \in Thread : pc[t] = "s_publish" => slot'[t] = slot[t]
  PROVE  BeingLaunched' = BeingLaunched
<1>1. CASE \E t \in Thread : pc[t] = "s_publish"
  BY <1>1, OneLaunch, OneLaunchNext
<1>2. CASE ~ \E t \in Thread : pc[t] = "s_publish"
  BY <1>2 DEF BeingLaunched
<1>3. QED
  BY <1>1, <1>2

(* A quiet step is a stuttering step of the supervisor.                    *)
LEMMA QuietStutters ==
  ASSUME IInv, IInv', Quiet
  PROVE  UNCHANGED Supervisor!vars
<1>1. BeingLaunched' = BeingLaunched
  BY SameLaunch DEF Quiet
<1>2. Condemned' = Condemned
  BY DEF Quiet, Condemned
<1>3. QED
  BY <1>1, <1>2 DEF Quiet, Supervisor!vars

(* Stop retires the managed process, if there is one.                      *)
LEMMA StopIsRetire ==
  ASSUME IInv, IInv', Stop, BeingLaunched' = BeingLaunched
  PROVE  [Supervisor!Next]_Supervisor!vars
<1>1. CASE cmd = None
  BY <1>1 DEF Stop, Supervisor!vars, Condemned
<1>2. CASE cmd # None
  <2>1. Condemned' = Condemned \cup {cmd}
    <3>1. cmd \in Proc
      BY <1>2 DEF IInv, TypeOK, ManagerTypeOK
    <3>2. QED
      BY <3>1, StopRetires DEF IInv, Coherent, Condemned
  <2>2. Supervisor!Retire
    BY <1>2, <2>1 DEF Stop, Supervisor!Retire
  <2>3. QED
    BY <2>2 DEF Supervisor!Next
<1>3. QED
  BY <1>1, <1>2

(* StartSpawn launches.                                                    *)
LEMMA SpawnIsLaunch ==
  ASSUME IInv, IInv', NEW t \in Thread, StartSpawn(t)
  PROVE  Supervisor!Next
<1>1. PICK p \in Proc : Spawn(p, target[t]) /\ slot' = [slot EXCEPT ![t] = p]
  BY DEF StartSpawn
<1>2. pc[t] = "s_spawn" /\ pc' = [pc EXCEPT ![t] = "s_publish"]
  BY DEF StartSpawn, Goto
<1>3. BeingLaunched = None
  <2>1. \A u \in Thread : pc[u] # "s_publish"
    BY <1>2 DEF IInv, Coherent, OneOperator, InSection, ConnectSection
  <2>2. QED
    BY <2>1 DEF BeingLaunched
<1>4. BeingLaunched' = p
  BY <1>1, <1>2, OneLaunchNext DEF IInv, TypeOK
<1>5. cmd = None /\ cmd' = None
  BY <1>1, <1>2 DEF IInv, Coherent, StartKnows, Spawn
<1>6. p \notin Condemned /\ Condemned' = Condemned
  BY <1>1 DEF Spawn, Condemned, IInv, TypeOK, ManagerTypeOK, ProcState,
    Coherent, SlotsAccounted, Accounted, FreeSlot
<1>7. Supervisor!Launch(p)
  BY <1>3, <1>4, <1>5, <1>6 DEF Supervisor!Launch
<1>8. QED
  BY <1>7 DEF Supervisor!Next

(* StartPublish adopts what was launched.                                  *)
LEMMA PublishIsAdopt ==
  ASSUME IInv, IInv', NEW t \in Thread, StartPublish(t)
  PROVE  Supervisor!Next
<1>1. pc[t] = "s_publish" /\ pc' = [pc EXCEPT ![t] = "s_await"]
  BY DEF StartPublish, Goto
<1>2. BeingLaunched = slot[t] /\ slot[t] # None
  BY <1>1, OneLaunch DEF IInv, Coherent, StartKnows
<1>3. BeingLaunched' = None
  <2>1. \A u \in Thread : pc'[u] # "s_publish"
    BY <1>1 DEF IInv, TypeOK, Coherent, OneOperator, InSection, ConnectSection
  <2>2. QED
    BY <2>1 DEF BeingLaunched
<1>4. cmd' = slot[t] /\ Condemned' = Condemned
  BY <1>2
  DEF StartPublish, Publish, Condemned, IInv, TypeOK, ManagerTypeOK, ProcState
<1>5. Supervisor!Adopt
  BY <1>2, <1>3, <1>4 DEF Supervisor!Adopt
<1>6. QED
  BY <1>5 DEF Supervisor!Next

(* A Wait goroutine loses the tunnel or buries a condemned process.        *)
LEMMA ReapIsLoseOrDie ==
  ASSUME IInv, IInv', NEW p \in Proc, ProcessReap(p)
  PROVE  Supervisor!Next
<1>1. BeingLaunched' = BeingLaunched
  BY SameLaunch DEF ProcessReap, threadVars
<1>2. Accounted(p) /\ proc[p].waited /\ proc[p].st = "exited"
  BY DEF IInv, Coherent, SlotsAccounted, ProcessReap, Reap
<1>3. Condemned' = Condemned \ {p}
  BY DEF ProcessReap, Reap, Condemned, FreeSlot, IInv, TypeOK, ManagerTypeOK
<1>4. CASE cmd = p
  <2>1. Supervisor!Lose
    BY <1>1, <1>2, <1>3, <1>4, ManagerAssumption
    DEF Accounted, ProcessReap, Reap, Condemned, Supervisor!Lose
  <2>2. QED
    BY <2>1 DEF Supervisor!Next
<1>5. CASE cmd # p
  <2>1. Supervisor!Die(p)
    BY <1>1, <1>2, <1>3, <1>5
    DEF Accounted, ProcessReap, Reap, Condemned, Supervisor!Die
  <2>2. QED
    BY <2>1 DEF Supervisor!Next
<1>6. QED
  BY <1>4, <1>5
(* Threads: every other step of an operation is quiet or stops the tunnel. *)
LEMMA ConnectRefines ==
  ASSUME IInv, IInv', NEW t \in Thread, ConnectStep(t)
  PROVE  [Supervisor!Next]_Supervisor!vars
<1> USE DEF IInv, TypeOK, Goto, Return, mgrVars, appVars
<1>1. CASE StartSpawn(t)
  BY <1>1, SpawnIsLaunch
<1>2. CASE StartPublish(t)
  BY <1>2, PublishIsAdopt
<1>3. CASE StartStop(t) \/ StartError(t)
  <2>1. BeingLaunched' = BeingLaunched
    BY <1>3, SameLaunch DEF StartStop, StartError
  <2>2. Stop
    BY <1>3 DEF StartStop, StartError
  <2>3. QED
    BY <2>1, <2>2, StopIsRetire
<1>4. CASE \/ ConnectMode(t) \/ ConnectCopy(t) \/ ConnectPin(t)
           \/ ConnectConfig(t) \/ ConnectNoConfig(t) \/ StartNoSpawn(t)
           \/ StartReady(t) \/ ConnectMark(t) \/ ConnectFailed(t)
           \/ ConnectRoute(t) \/ ConnectDone(t)
  <2>1. Quiet
    BY <1>4 DEF Quiet, ConnectMode, ConnectCopy, ConnectPin, ConnectConfig,
      ConnectNoConfig, StartNoSpawn, StartReady, ConnectMark, ConnectFailed,
      ConnectRoute, ConnectDone
  <2>2. QED
    BY <2>1, QuietStutters
<1>5. QED
  BY <1>1, <1>2, <1>3, <1>4 DEF ConnectStep

(* Disconnect stops the tunnel or is quiet.                                *)
LEMMA DisconnectRefines ==
  ASSUME IInv, IInv', NEW t \in Thread, DisconnectStep(t)
  PROVE  [Supervisor!Next]_Supervisor!vars
<1> USE DEF IInv, TypeOK, Goto, Return, mgrVars, appVars
<1>1. CASE DisconnectStop(t)
  <2>1. BeingLaunched' = BeingLaunched
    BY <1>1, SameLaunch DEF DisconnectStop
  <2>2. QED
    BY <1>1, <2>1, StopIsRetire DEF DisconnectStop
<1>2. CASE DisconnectRoutes(t) \/ DisconnectState(t)
  <2>1. Quiet
    BY <1>2 DEF Quiet, DisconnectRoutes, DisconnectState
  <2>2. QED
    BY <2>1, QuietStutters
<1>3. QED
  BY <1>1, <1>2 DEF DisconnectStep

(* So does the health loop.                                                *)
LEMMA HealthRefines ==
  ASSUME IInv, IInv', HealthStep
  PROVE  [Supervisor!Next]_Supervisor!vars
<1> USE DEF IInv, TypeOK, Goto, Return, mgrVars, appVars
<1>1. CASE HealthStop
  <2>1. BeingLaunched' = BeingLaunched
    BY <1>1, SameLaunch DEF HealthStop
  <2>2. QED
    BY <1>1, <2>1, StopIsRetire DEF HealthStop
<1>2. CASE \/ HealthOk \/ HealthBad \/ HealthActive \/ HealthMark
           \/ HealthMode \/ HealthSelect
  <2>1. Quiet
    BY <1>2 DEF Quiet, HealthOk, HealthBad, HealthActive, HealthMark,
      HealthMode, HealthSelect, SelectAndConnect
  <2>2. QED
    BY <2>1, QuietStutters
<1>3. QED
  BY <1>1, <1>2 DEF HealthStep

(* Refreshes, settings, tests and the maintain loop's own steps are quiet. *)
LEMMA OtherStepsQuiet ==
  ASSUME IInv, NEW t \in Thread,
         RefreshStep(t) \/ UserStep(t) \/ MaintainStep
           \/ ConnectLock(t) \/ DisconnectLock(t)
  PROVE  Quiet
<1> USE DEF IInv, TypeOK, Goto, Return, mgrVars, appVars, Quiet
<1>1. CASE RefreshStep(t)
  BY <1>1 DEF RefreshStep, RefreshFailed, RefreshStore, RefreshState,
    AfterRefresh
<1>2. CASE UserStep(t)
  BY <1>2 DEF UserStep, RoutingWrite, TestMerge
<1>3. CASE MaintainStep
  BY <1>3 DEF MaintainStep, MaintainRunning, MaintainSelect, SelectAndConnect
<1>4. CASE ConnectLock(t) \/ DisconnectLock(t)
  BY <1>4 DEF ConnectLock, DisconnectLock
<1>5. QED
  BY <1>1, <1>2, <1>3, <1>4

(* So is what comes from outside the operations, RunStop apart.            *)
LEMMA OutsideQuiet ==
  ASSUME IInv,
         \/ \E t \in Thread, o \in {"ok", "err"} : WatchStreams(t, o)
         \/ \E u \in User : UserRequest(u)
         \/ MaintainTick \/ HealthTick
         \/ \E n \in Node : BackoffEnds(n)
         \/ \E t \in Thread, n \in Node : OldBackoffEnds(t, n)
         \/ \E p \in Proc : ProcessExit(p)
         \/ Shutdown \/ RunCleanup \/ MainReturn
  PROVE  Quiet
<1> USE DEF IInv, TypeOK, Goto, mgrVars, appVars, threadVars, Quiet
<1>1. CASE \E t \in Thread, o \in {"ok", "err"} : WatchStreams(t, o)
  BY <1>1 DEF WatchStreams
<1>2. CASE \E u \in User : UserRequest(u)
  BY <1>2 DEF UserRequest, UserConnect, UserDisconnect, UserRefresh,
    UserRouting, UserTest, Accept, Thread
<1>3. CASE MaintainTick \/ HealthTick
  BY <1>3 DEF MaintainTick, HealthTick
<1>4. CASE \E n \in Node : BackoffEnds(n)
  BY <1>4 DEF BackoffEnds
<1>5. CASE \E t \in Thread, n \in Node : OldBackoffEnds(t, n)
  BY <1>5 DEF OldBackoffEnds
<1>6. CASE \E p \in Proc : ProcessExit(p)
  BY <1>6 DEF ProcessExit, Exit, ManagerTypeOK, ProcState
<1>7. CASE Shutdown \/ RunCleanup \/ MainReturn
  BY <1>7 DEF Shutdown, RunCleanup, MainReturn
<1>8. QED
  BY <1>1, <1>2, <1>3, <1>4, <1>5, <1>6, <1>7

(* Every step of the service is a step of the supervisor or a stutter.     *)
LEMMA StepRefines ==
  ASSUME IInv, IInv', [Next]_vars
  PROVE  [Supervisor!Next]_Supervisor!vars
<1>1. ASSUME NEW t \in Thread,
             ConnectLock(t) \/ DisconnectLock(t) \/ Progress(t)
      PROVE  [Supervisor!Next]_Supervisor!vars
  BY <1>1, ConnectRefines, DisconnectRefines, HealthRefines, OtherStepsQuiet,
     QuietStutters DEF Progress
<1>2. ASSUME NEW p \in Proc, ProcessReap(p)
      PROVE  [Supervisor!Next]_Supervisor!vars
  BY <1>2, ReapIsLoseOrDie
<1>3. CASE RunStop
  <2>1. BeingLaunched' = BeingLaunched
    BY <1>3, SameLaunch DEF RunStop, threadVars
  <2>2. QED
    BY <1>3, <2>1, StopIsRetire DEF RunStop
<1>4. CASE UNCHANGED vars
  <2>1. Quiet
    BY <1>4 DEF Quiet, vars, mgrVars, threadVars
  <2>2. QED
    BY <2>1, QuietStutters
<1>5. QED
  BY <1>1, <1>2, <1>3, <1>4, OutsideQuiet, QuietStutters DEF Next

(* The service implements TunnelSupervisor.                                *)
THEOREM Refinement == Spec => KeepsPromise
<1>1. Init => Supervisor!Init
  BY DEF Init, ManagerInit, Supervisor!Init, BeingLaunched, Condemned, FreeSlot
<1>2. IInv /\ IInv' /\ [Next]_vars => [Supervisor!Next]_Supervisor!vars
  BY StepRefines
<1>3. QED
  BY <1>1, <1>2, Invariance, PTL DEF Spec, KeepsPromise, Supervisor!Spec
=============================================================================
