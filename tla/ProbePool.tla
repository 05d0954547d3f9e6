----------------------------- MODULE ProbePool -----------------------------
(***************************************************************************)
(* One batch of node checks after another: checkNodes (internal/app/app.go)*)
(* over CheckCandidatesWithProbe (internal/vpngate/vpngate.go) and         *)
(* Manager.Probe (internal/openvpn/openvpn.go).                            *)
(*                                                                         *)
(* A producer hands nodes to workers over an unbuffered channel, workers   *)
(* hand results to the collector over another, a semaphore bounds the      *)
(* OpenVPN processes, and the first of enough good results, or the end of  *)
(* the caller's context, cancels what is left.  checkNodes holds probeMu   *)
(* throughout, so there is one batch at a time.                            *)
(***************************************************************************)
EXTENDS VPNNodes, FiniteSetsExt

CONSTANTS
  Worker,      \* the worker goroutines (16 in the code)
  Sem,         \* capacity of the semaphore (3 in the code)
  Prefiltered, \* nodes that must accept a TCP connection before the probe:
               \* those not on UDP, unless an upstream proxy is configured
  Batch        \* the node sequences and targets that callers submit

FirstTun == 2  \* tun0 is the tunnel's; probes start at tun2

ASSUME PoolAssumption ==
  /\ Sem \in Nat \ {0}
  /\ Worker # {} /\ IsFiniteSet(Worker) /\ IsFiniteSet(Node)
  /\ Prefiltered \subseteq Node
  /\ Batch \subseteq [nodes: Seq(Node), target: Nat]

(* What callers submit are rows of one API answer, in which the API is     *)
(* taken to announce a host once (ParseAPI does not look), or entries of   *)
(* App.nodes, which are such rows: lists with distinct ids (VPNNodes).     *)
ASSUME BatchAssumption ==
  \A b \in Batch : \A j, k \in DOMAIN b.nodes : b.nodes[j] = b.nodes[k] => j = k

VARIABLES
  phase,      \* "idle", "running", "done"
  given,      \* the batch in hand
  todo,       \* nodes the producer has not handed out
  jobs,       \* "open" or "closed"
  at,         \* where each worker is
  node,       \* the node each worker has
  ok,         \* the verdict each worker has reached
  dev,        \* the tun device each worker's probe took
  nextTun,    \* the next device
  users,      \* live probe processes per device
  cancelled,  \* runCtx is done
  left,       \* ctx, the caller's, is done
  checked     \* the collected results, sorted at the end

workerVars == <<at, node, ok, dev, nextTun, users>>
vars == <<phase, given, todo, jobs, workerVars, cancelled, left, checked>>

Device == FirstTun .. FirstTun + Cardinality(Node) - 1

WorkerLabel ==
  {"gone", "jobs", "dial", "sem", "device", "launch", "probe", "end", "result"}

HoldsSem == {"device", "launch", "probe", "end"}

Init ==
  /\ phase = "idle"
  /\ given = [nodes |-> <<>>, target |-> 0]
  /\ todo = <<>>
  /\ jobs = "closed"
  /\ at = [w \in Worker |-> "gone"]
  /\ node = [w \in Worker |-> None]
  /\ ok = [w \in Worker |-> FALSE]
  /\ dev = [w \in Worker |-> 0]
  /\ nextTun = FirstTun
  /\ users = [d \in Device |-> 0]
  /\ cancelled = FALSE
  /\ left = FALSE
  /\ checked = <<>>

Goto(w, from, to) == at[w] = from /\ at' = [at EXCEPT ![w] = to]

Target == IF given.target = 0 THEN Len(given.nodes) ELSE given.target

Available(results) == { i \in DOMAIN results : results[i].ok }
-----------------------------------------------------------------------------
(* A caller gets probeMu and starts as many workers as are of use. *)
Begin(b) ==
  /\ phase \in {"idle", "done"}
  /\ phase' = "running"
  /\ given' = b
  /\ todo' = b.nodes
  /\ jobs' = "open"
  /\ \E started \in SUBSET Worker :
       /\ Cardinality(started) =
            Min({Cardinality(Worker), Len(b.nodes)})
       /\ at' = [w \in Worker |-> IF w \in started THEN "jobs" ELSE "gone"]
  /\ nextTun' = FirstTun
  /\ cancelled' = FALSE
  /\ left' = FALSE
  /\ checked' = <<>>
  /\ UNCHANGED <<node, ok, dev, users>>

(* The producer meets a worker that waits for a job, *)
Send(w) ==
  /\ jobs = "open"
  /\ todo # <<>>
  /\ Goto(w, "jobs", IF Head(todo) \in Prefiltered THEN "dial" ELSE "sem")
  /\ node' = [node EXCEPT ![w] = Head(todo)]
  /\ todo' = Tail(todo)
  /\ UNCHANGED <<phase, given, jobs, ok, dev, nextTun, users, cancelled,
                 left, checked>>

(* Faulty: the producer that gives up does not close the channel. *)
CloseOnlyAtEnd ==
  /\ jobs = "open"
  /\ todo = <<>> \/ cancelled
  /\ jobs' = IF todo = <<>> THEN "closed" ELSE "abandoned"
  /\ UNCHANGED <<phase, given, todo, workerVars, cancelled, left, checked>>

(* Faulty: the producer gives up one node too early. *)
CloseEarly ==
  /\ jobs = "open"
  /\ Len(todo) <= 1 \/ cancelled
  /\ jobs' = "closed"
  /\ UNCHANGED <<phase, given, todo, workerVars, cancelled, left, checked>>

(* or has none left, or sees the cancellation first, and closes the        *)
(* channel.                                                                *)
CloseJobs ==
  /\ jobs = "open"
  /\ todo = <<>> \/ cancelled
  /\ jobs' = "closed"
  /\ UNCHANGED <<phase, given, todo, workerVars, cancelled, left, checked>>

WorkerLeaves(w) ==
  /\ jobs = "closed"
  /\ Goto(w, "jobs", "gone")
  /\ UNCHANGED <<phase, given, todo, jobs, node, ok, dev, nextTun, users,
                 cancelled, left, checked>>
-----------------------------------------------------------------------------
(* A verdict that is reached without a probe process is always a refusal.  *)
Refuse(w, from) ==
  /\ Goto(w, from, "result")
  /\ ok' = [ok EXCEPT ![w] = FALSE]
  /\ UNCHANGED <<phase, given, todo, jobs, node, dev, nextTun, users,
                 cancelled, left, checked>>

(* dialCheck; its context is runCtx. *)
DialWorks(w) ==
  /\ ~cancelled
  /\ Goto(w, "dial", "sem")
  /\ UNCHANGED <<phase, given, todo, jobs, node, ok, dev, nextTun, users,
                 cancelled, left, checked>>

DialFails(w) == Refuse(w, "dial")

(* The semaphore, or the cancellation, whichever the select finds ready.   *)
Acquire(w) ==
  /\ Cardinality({ v \in Worker : at[v] \in HoldsSem }) < Sem
  /\ Goto(w, "sem", "device")
  /\ UNCHANGED <<phase, given, todo, jobs, node, ok, dev, nextTun, users,
                 cancelled, left, checked>>

AcquireCancelled(w) == cancelled /\ Refuse(w, "sem")

(* The next device, under the batch's own mutex. *)
TakeDevice(w) ==
  /\ Goto(w, "device", "launch")
  /\ dev' = [dev EXCEPT ![w] = nextTun]
  /\ nextTun' = nextTun + 1
  /\ UNCHANGED <<phase, given, todo, jobs, node, ok, users, cancelled, left,
                 checked>>

(* Manager.Probe starts OpenVPN on it, *)
Launch(w) ==
  /\ ~cancelled
  /\ Goto(w, "launch", "probe")
  /\ users' = [users EXCEPT ![dev[w]] = @ + 1]
  /\ UNCHANGED <<phase, given, todo, jobs, node, ok, dev, nextTun, cancelled,
                 left, checked>>

(* Faulty: a worker whose process cannot be made tries again. *)
LaunchRetries(w) ==
  /\ Goto(w, "launch", "sem")
  /\ UNCHANGED <<phase, given, todo, jobs, node, ok, dev, nextTun, users,
                 cancelled, left, checked>>

(* unless the config file or the process cannot be made, *)
LaunchFails(w) == Refuse(w, "launch")

(* and waits for the first of readiness, an error, the timeout and the     *)
(* cancellation.                                                           *)
Verdict(w) ==
  /\ Goto(w, "probe", "end")
  /\ \E good \in BOOLEAN : ok' = [ok EXCEPT ![w] = good]
  /\ UNCHANGED <<phase, given, todo, jobs, node, dev, nextTun, users,
                 cancelled, left, checked>>

(* Faulty: Probe does not wait for the end of its process. *)
EndUnwaited(w) ==
  /\ Goto(w, "end", "result")
  /\ UNCHANGED <<phase, given, todo, jobs, node, ok, dev, nextTun, users,
                 cancelled, left, checked>>

(* terminateAndWait: interrupted by the cancel function, killed after 3 s  *)
(* at the latest, the process is gone when Probe returns and the semaphore *)
(* is released.                                                            *)
End(w) ==
  /\ Goto(w, "end", "result")
  /\ users' = [users EXCEPT ![dev[w]] = @ - 1]
  /\ UNCHANGED <<phase, given, todo, jobs, node, ok, dev, nextTun, cancelled,
                 left, checked>>
-----------------------------------------------------------------------------
(* The collector takes a result and cancels the batch at the target. *)
Collect(w) ==
  /\ Goto(w, "result", "jobs")
  /\ checked' = Append(checked, [id |-> node[w], ok |-> ok[w]])
  /\ cancelled' = (cancelled \/ Cardinality(Available(checked')) >= Target)
  /\ node' = [node EXCEPT ![w] = None]
  /\ ok' = [ok EXCEPT ![w] = FALSE]
  /\ dev' = [dev EXCEPT ![w] = 0]
  /\ UNCHANGED <<phase, given, todo, jobs, nextTun, users, left>>

(* The stable sort: available first, then by ping, then as they came. *)
Before(results, i, j) ==
  LET r == results[i]
      s == results[j]
  IN  \/ r.ok /\ ~s.ok
      \/ /\ r.ok = s.ok
         /\ \/ Ping[r.id] < Ping[s.id]
            \/ Ping[r.id] = Ping[s.id] /\ i < j

StableSort(results) ==
  [k \in DOMAIN results |->
     results[CHOOSE i \in DOMAIN results :
               Cardinality({ j \in DOMAIN results : Before(results, j, i) })
                 = k - 1]]

(* Faulty: the results are left in the order they came. *)
FinishUnsorted ==
  /\ phase = "running"
  /\ \A w \in Worker : at[w] = "gone"
  /\ jobs = "closed"
  /\ phase' = "done"
  /\ UNCHANGED <<given, todo, jobs, workerVars, cancelled, left, checked>>

(* All workers are gone: results is closed and the batch returns.  What    *)
(* the producer still does without workers nobody sees.                    *)
Finish ==
  /\ phase = "running"
  /\ \A w \in Worker : at[w] = "gone"
  /\ jobs = "closed"
  /\ phase' = "done"
  /\ checked' = StableSort(checked)
  /\ UNCHANGED <<given, todo, jobs, workerVars, cancelled, left>>

(* The request's client goes away, or the service stops. *)
CallerLeaves ==
  /\ phase = "running"
  /\ ~left
  /\ left' = TRUE
  /\ cancelled' = TRUE
  /\ UNCHANGED <<phase, given, todo, jobs, workerVars, checked>>
-----------------------------------------------------------------------------
WorkerStep(w) ==
  \/ WorkerLeaves(w) \/ DialWorks(w) \/ DialFails(w)
  \/ Acquire(w) \/ AcquireCancelled(w) \/ TakeDevice(w)
  \/ Launch(w) \/ LaunchFails(w) \/ Verdict(w) \/ End(w) \/ Collect(w)

Next ==
  \/ \E b \in Batch : Begin(b)
  \/ \E w \in Worker : Send(w) \/ WorkerStep(w)
  \/ CloseJobs \/ Finish \/ CallerLeaves

(* Every goroutine gets on: dials and probes have timeouts, killed         *)
(* processes end.  Nothing is assumed of callers.                          *)
Fairness ==
  /\ \A w \in Worker : WF_vars(WorkerStep(w))
  /\ WF_vars(\E w \in Worker : Send(w))
  /\ WF_vars(CloseJobs)
  /\ WF_vars(Finish)

Spec == Init /\ [][Next]_vars

FairSpec == Spec /\ Fairness
-----------------------------------------------------------------------------
(* No more OpenVPN test processes than the semaphore admits, and never two *)
(* on one tun device, although every batch starts again at tun2: the       *)
(* processes of a batch are gone before the next one begins.               *)
ProbesBounded ==
  /\ \A d \in Device : users[d] <= 1
  /\ Cardinality({ d \in Device : users[d] > 0 }) <= Sem

(* A batch gives up early only with a reason: it found the target number   *)
(* of good nodes, or its caller left; otherwise every node has a verdict.  *)
EnoughOrAll ==
  phase = "done" =>
    \/ left
    \/ Cardinality(Available(checked)) >= Target
    \/ Len(checked) = Len(given.nodes)

(* Whatever the workers' order and the moment of cancellation, the result  *)
(* is a list a refresh may store (RefreshedLists): no node twice, none     *)
(* that was not submitted, good ones first and by ping.                    *)
ResultIsList ==
  phase = "done" =>
    /\ [i \in DOMAIN checked |->
          [id |-> checked[i].id, available |-> checked[i].ok,
           invalid |-> FALSE]] \in RefreshedLists
    /\ \A i \in DOMAIN checked : \E k \in DOMAIN given.nodes :
         given.nodes[k] = checked[i].id

(* While a batch runs somebody can get on without the caller's help: the   *)
(* producer, a worker, the semaphore's next holder or the collector.       *)
NobodyStuck ==
  phase = "running" =>
    \/ jobs = "open" /\ (todo = <<>> \/ cancelled \/ \E w \in Worker : at[w] = "jobs")
    \/ jobs = "closed" /\ \E w \in Worker : at[w] = "jobs"
    \/ jobs = "closed" /\ \A w \in Worker : at[w] = "gone"
    \/ \E w \in Worker : at[w] \in {"dial", "device", "launch", "probe", "end", "result"}
    \/ /\ \E w \in Worker : at[w] = "sem"
       /\ Cardinality({ v \in Worker : at[v] \in HoldsSem }) < Sem

(* The steps a batch has left, at most: eight for a node that has not been *)
(* handed out, and those of the workers, producer and caller.              *)
Levels ==
  << WorkerLabel \ {"gone"},
     WorkerLabel \ {"gone", "jobs"},
     WorkerLabel \ {"gone", "jobs", "result"},
     {"dial", "sem", "device", "launch", "probe"},
     {"dial", "sem", "device", "launch"},
     {"dial", "sem", "device"},
     {"dial", "sem"},
     {"dial"} >>

AtLevel(k) == Cardinality({ w \in Worker : at[w] \in Levels[k] })

Ranked ==
  AtLevel(1) + AtLevel(2) + AtLevel(3) + AtLevel(4)
  + AtLevel(5) + AtLevel(6) + AtLevel(7) + AtLevel(8)

Work ==
  8 * Len(todo) + Ranked + (IF jobs = "open" THEN 1 ELSE 0) + (IF left THEN 0 ELSE 1)

(* Every step of a running batch brings it nearer to its end, whoever      *)
(* takes it and whatever fails: no node is tried twice, no worker goes     *)
(* round without a node.                                                   *)
BatchShrinks == [][phase = "running" /\ phase' = "running" => Work' < Work]_vars

(* Producer, workers, semaphore and collector never wait for each other    *)
(* for ever: every batch returns, and probeMu with it.                     *)
BatchEnds == phase = "running" ~> phase = "done"
=============================================================================
