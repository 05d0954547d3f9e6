-------------------------- MODULE ProbePool_proofs --------------------------
(***************************************************************************)
(* Proofs about the probing of batches of nodes, for any number of nodes,  *)
(* workers and permits of the semaphore, and any batches.                  *)
(***************************************************************************)
EXTENDS ProbePool, FiniteSetTheorems, TLAPS

Result == [id: Node, ok: BOOLEAN]

Typed ==
  /\ phase \in {"idle", "running", "done"}
  /\ given \in [nodes: Seq(Node), target: Nat]
  /\ \A j, k \in DOMAIN given.nodes : given.nodes[j] = given.nodes[k] => j = k
  /\ todo \in Seq(Node)
  /\ jobs \in {"open", "closed"}
  /\ at \in [Worker -> WorkerLabel]
  /\ node \in [Worker -> Node \cup {None}]
  /\ ok \in [Worker -> BOOLEAN]
  /\ dev \in [Worker -> Nat]
  /\ nextTun \in Nat
  /\ users \in [Device -> Nat]
  /\ cancelled \in BOOLEAN
  /\ left \in BOOLEAN
  /\ checked \in Seq(Result)

(* Where the workers are. *)
In(labels) == { w \in Worker : at[w] \in labels }
Busy == In(WorkerLabel \ {"gone", "jobs"})
Waiting == In({"dial", "sem", "device"})
Owners == In({"launch", "probe", "end"})
Live == In({"probe", "end"})

(* How many nodes the producer has handed out, and that it is in order.    *)
Sent == Len(given.nodes) - Len(todo)
InOrder == \A j \in DOMAIN todo : todo[j] = given.nodes[Sent + j]

(* Between batches no worker is left. *)
Quiet == phase # "running" => jobs = "closed" /\ \A w \in Worker : at[w] = "gone"

(* The producer stops and the batch is cancelled for a reason only. *)
ClosedForReason == jobs = "closed" => todo = <<>> \/ cancelled
CancelledForReason == cancelled => left \/ Cardinality(Available(checked)) >= Target

(* Every node handed out is with a worker or among the results, *)
NoneLost == Len(checked) + Cardinality(Busy) = Sent

(* and in one place only. *)
HandedOut(n) == \E k \in DOMAIN given.nodes : k <= Sent /\ given.nodes[k] = n
Once ==
  /\ \A i \in DOMAIN checked : HandedOut(checked[i].id)
  /\ \A w \in Busy : HandedOut(node[w]) /\ node[w] \in Node
  /\ \A i, j \in DOMAIN checked : checked[i].id = checked[j].id => i = j
  /\ \A v, w \in Busy : node[v] = node[w] => v = w
  /\ \A i \in DOMAIN checked, w \in Busy : checked[i].id # node[w]

PermitsKept == Cardinality(In(HoldsSem)) <= Sem

(* Devices are given out once each, and there is one for each node handed  *)
(* out that has none yet.                                                  *)
EnoughDevices ==
  /\ nextTun >= FirstTun
  /\ nextTun - FirstTun + Cardinality(Waiting) <= Sent
DevicesApart ==
  /\ \A w \in Owners : dev[w] \in Device /\ dev[w] < nextTun
  /\ \A v, w \in Owners : dev[v] = dev[w] => v = w

(* A device is in use exactly while a worker's process is on it. *)
UsersCounted ==
  \A d \in Device : users[d] = IF \E w \in Live : dev[w] = d THEN 1 ELSE 0

(* The results of a batch that is over are in the order of the sort. *)
InFinalOrder ==
  phase = "done" =>
    \A i, j \in DOMAIN checked : i < j =>
      \/ checked[i].ok /\ ~checked[j].ok
      \/ /\ checked[i].ok = checked[j].ok
         /\ Ping[checked[i].id] <= Ping[checked[j].id]

(* The inductive invariant. *)
IInv ==
  /\ Typed /\ InOrder /\ Quiet /\ ClosedForReason /\ CancelledForReason
  /\ NoneLost /\ Once /\ PermitsKept /\ EnoughDevices /\ DevicesApart
  /\ UsersCounted /\ InFinalOrder
-----------------------------------------------------------------------------
LEMMA WorkersFinite ==
  ASSUME NEW S \in SUBSET Worker
  PROVE  IsFiniteSet(S) /\ Cardinality(S) \in Nat
BY PoolAssumption, FS_Subset, FS_CardinalityType

(* A step of one worker changes the count of a set of places by that       *)
(* worker only.                                                            *)
LEMMA Moved ==
  ASSUME Typed, NEW w \in Worker, NEW from, NEW to, Goto(w, from, to), NEW L
  PROVE  /\ at[w] = from /\ at'[w] = to
         /\ \A v \in Worker \ {w} : at'[v] = at[v]
         /\ to \in L => In(L)' = In(L) \cup {w}
         /\ to \notin L => In(L)' = In(L) \ {w}
         /\ w \in In(L) <=> from \in L
         /\ (to \in L <=> from \in L) => In(L)' = In(L)
         /\ to \in L /\ from \notin L =>
              Cardinality(In(L)') = Cardinality(In(L)) + 1
         /\ to \notin L /\ from \in L =>
              Cardinality(In(L)') = Cardinality(In(L)) - 1
<1>1. at[w] = from /\ at'[w] = to /\ \A v \in Worker \ {w} : at'[v] = at[v]
  BY DEF Typed, Goto
<1>2. to \in L => In(L)' = In(L) \cup {w}
  BY <1>1 DEF In
<1>3. to \notin L => In(L)' = In(L) \ {w}
  BY <1>1 DEF In
<1>4. w \in In(L) <=> from \in L
  BY <1>1 DEF In
<1>5. In(L) \in SUBSET Worker
  BY DEF In
<1>6. to \in L /\ from \notin L => Cardinality(In(L)') = Cardinality(In(L)) + 1
  BY <1>2, <1>4, <1>5, WorkersFinite, FS_AddElement
<1>7. to \notin L /\ from \in L => Cardinality(In(L)') = Cardinality(In(L)) - 1
  BY <1>3, <1>4, <1>5, WorkersFinite, FS_RemoveElement
<1>8. (to \in L <=> from \in L) => In(L)' = In(L)
  BY <1>2, <1>3, <1>4
<1>9. QED
  BY <1>1, <1>2, <1>3, <1>4, <1>6, <1>7, <1>8

(* No more nodes than there are hosts. *)
LEMMA BatchFits ==
  ASSUME Typed
  PROVE  Len(given.nodes) \in Nat /\ Len(given.nodes) <= Cardinality(Node)
<1> DEFINE n == Len(given.nodes)
<1>1. n \in Nat /\ given.nodes \in Injection(1..n, Node)
  BY DEF Typed, Injection, IsInjective
<1>2. Cardinality(1..n) = n /\ Cardinality(1..n) <= Cardinality(Node)
  BY <1>1, FS_Interval, FS_Injection, PoolAssumption
<1>3. QED
  BY <1>1, <1>2
-----------------------------------------------------------------------------
(* The sort's comparison is a strict total order on the results. *)
LEMMA BeforeIsOrder ==
  ASSUME NEW r \in Seq(Result)
  PROVE  /\ \A i \in DOMAIN r : ~Before(r, i, i)
         /\ \A i, j \in DOMAIN r : i # j => Before(r, i, j) \/ Before(r, j, i)
         /\ \A i, j, k \in DOMAIN r :
              Before(r, i, j) /\ Before(r, j, k) => Before(r, i, k)
<1> DEFINE good(i) == r[i].ok = TRUE
           ping(i) == Ping[r[i].id]
<1>1. DOMAIN r \subseteq Nat /\ \A i \in DOMAIN r : r[i] \in Result
  OBVIOUS
<1>2. \A i \in DOMAIN r : ping(i) \in Nat
  BY <1>1, NodesAssumption DEF Result
<1>3. \A i, j \in DOMAIN r :
        Before(r, i, j) <=>
          \/ good(i) /\ ~good(j)
          \/ /\ good(i) <=> good(j)
             /\ ping(i) < ping(j) \/ (ping(i) = ping(j) /\ i < j)
  <2>1. SUFFICES ASSUME NEW i \in DOMAIN r, NEW j \in DOMAIN r
                 PROVE  Before(r, i, j) <=>
                          \/ good(i) /\ ~good(j)
                          \/ /\ good(i) <=> good(j)
                             /\ ping(i) < ping(j) \/ (ping(i) = ping(j) /\ i < j)
    OBVIOUS
  <2>2. r[i].ok \in BOOLEAN /\ r[j].ok \in BOOLEAN
    BY <1>1 DEF Result
  <2>3. /\ (r[i].ok <=> good(i)) /\ (r[j].ok <=> good(j))
        /\ r[i].ok = r[j].ok <=> (good(i) <=> good(j))
    BY <2>2
  <2>4. QED
    BY <2>3 DEF Before
<1> HIDE DEF good, ping
<1>4. \A i \in DOMAIN r : ~Before(r, i, i)
  BY <1>1, <1>2, <1>3
<1>5. \A i, j \in DOMAIN r : i # j => Before(r, i, j) \/ Before(r, j, i)
  BY <1>1, <1>2, <1>3
<1>6. \A i, j, k \in DOMAIN r : Before(r, i, j) /\ Before(r, j, k) => Before(r, i, k)
  BY <1>1, <1>2, <1>3
<1>7. QED
  BY <1>4, <1>5, <1>6

(* How many results come before one of them: a different number for each,  *)
(* and every number below their count is one's.                            *)
Preds(r, i) == { j \in DOMAIN r : Before(r, j, i) }

LEMMA Ranks ==
  ASSUME NEW r \in Seq(Result)
  PROVE  /\ \A i \in DOMAIN r : Cardinality(Preds(r, i)) \in 0..(Len(r) - 1)
         /\ \A i, j \in DOMAIN r :
              Before(r, i, j) => Cardinality(Preds(r, i)) < Cardinality(Preds(r, j))
         /\ \A k \in DOMAIN r : \E i \in DOMAIN r : Cardinality(Preds(r, i)) = k - 1
<1> DEFINE rank == [i \in DOMAIN r |-> Cardinality(Preds(r, i))]
<1>1. DOMAIN r = 1..Len(r) /\ Len(r) \in Nat
  OBVIOUS
<1>2. IsFiniteSet(DOMAIN r) /\ Cardinality(DOMAIN r) = Len(r)
  BY <1>1, FS_Interval
<1>3. \A i \in DOMAIN r : IsFiniteSet(Preds(r, i)) /\ Cardinality(Preds(r, i)) \in Nat
  BY <1>2, FS_Subset, FS_CardinalityType DEF Preds
<1>4. \A i, j \in DOMAIN r :
        Before(r, i, j) => Cardinality(Preds(r, i)) < Cardinality(Preds(r, j))
  <2>1. SUFFICES ASSUME NEW i \in DOMAIN r, NEW j \in DOMAIN r, Before(r, i, j)
                 PROVE  Cardinality(Preds(r, i)) < Cardinality(Preds(r, j))
    OBVIOUS
  <2>2. Preds(r, i) \subseteq Preds(r, j) /\ i \in Preds(r, j) /\ i \notin Preds(r, i)
    BY <2>1, BeforeIsOrder DEF Preds
  <2>3. /\ Cardinality(Preds(r, i)) <= Cardinality(Preds(r, j))
        /\ Cardinality(Preds(r, j)) # Cardinality(Preds(r, i))
    BY <1>3, <2>2, FS_Subset
  <2>4. QED
    BY <1>3, <2>3
<1>5. \A i \in DOMAIN r : Cardinality(Preds(r, i)) \in 0..(Len(r) - 1)
  <2>1. SUFFICES ASSUME NEW i \in DOMAIN r
                 PROVE  Cardinality(Preds(r, i)) \in 0..(Len(r) - 1)
    OBVIOUS
  <2>2. Preds(r, i) \subseteq DOMAIN r /\ i \notin Preds(r, i)
    BY BeforeIsOrder DEF Preds
  <2>3. /\ Cardinality(Preds(r, i)) <= Len(r)
        /\ Cardinality(Preds(r, i)) # Len(r)
    BY <1>2, <2>2, FS_Subset
  <2>4. QED
    BY <1>1, <1>3, <2>3
<1>6. rank \in Injection(DOMAIN r, 0..(Len(r) - 1))
  <2>1. rank \in [DOMAIN r -> 0..(Len(r) - 1)]
    BY <1>5
  <2>2. ASSUME NEW i \in DOMAIN r, NEW j \in DOMAIN r, rank[i] = rank[j], i # j
        PROVE  FALSE
    <3>1. Before(r, i, j) \/ Before(r, j, i)
      BY <2>2, BeforeIsOrder
    <3>2. QED
      BY <1>3, <1>4, <2>2, <3>1
  <2>3. QED
    BY <2>1, <2>2 DEF Injection, IsInjective
<1>7. rank \in Surjection(DOMAIN r, 0..(Len(r) - 1))
  <2>1. IsFiniteSet(0..(Len(r) - 1)) /\ Cardinality(0..(Len(r) - 1)) = Len(r)
    BY <1>1, FS_Interval
  <2>2. QED
    BY <1>2, <1>6, <2>1, FS_Injection
<1>8. \A k \in DOMAIN r : \E i \in DOMAIN r : rank[i] = k - 1
  <2>1. \A t \in 0..(Len(r) - 1) : \E i \in DOMAIN r : rank[i] = t
    BY <1>7 DEF Surjection
  <2>2. \A k \in DOMAIN r : k - 1 \in 0..(Len(r) - 1)
    BY <1>1
  <2>3. QED
    BY <2>1, <2>2
<1>9. QED
  BY <1>4, <1>5, <1>8

(* The sorted results: the same ones, each once, in order.                 *)
LEMMA StableSortSorts ==
  ASSUME NEW r \in Seq(Result)
  PROVE  \E pos \in Injection(DOMAIN r, DOMAIN r) \cap Surjection(DOMAIN r, DOMAIN r) :
           /\ StableSort(r) = [k \in DOMAIN r |-> r[pos[k]]]
           /\ \A k, l \in DOMAIN r : k < l => Before(r, pos[k], pos[l])
<1> DEFINE D == DOMAIN r
           rank(i) == Cardinality(Preds(r, i))
           pos == [k \in D |-> CHOOSE i \in D : rank(i) = k - 1]
<1>1. /\ D = 1..Len(r) /\ Len(r) \in Nat
      /\ \A i \in D : rank(i) \in 0..(Len(r) - 1)
      /\ \A i, j \in D : Before(r, i, j) => rank(i) < rank(j)
      /\ \A k \in D : \E i \in D : rank(i) = k - 1
  BY Ranks
<1>2. StableSort(r) = [k \in D |-> r[pos[k]]]
  BY DEF StableSort, Preds
<1> HIDE DEF rank
<1>3. \A k \in D : pos[k] \in D /\ rank(pos[k]) = k - 1
  BY <1>1
<1> HIDE DEF pos
<1>4. pos \in [D -> D]
  BY <1>3 DEF pos
<1>5. \A k, l \in D : k < l => Before(r, pos[k], pos[l])
  <2>1. SUFFICES ASSUME NEW k \in D, NEW l \in D, k < l
                 PROVE  Before(r, pos[k], pos[l])
    OBVIOUS
  <2>2. rank(pos[k]) < rank(pos[l])
    BY <1>1, <1>3, <2>1
  <2>3. pos[k] # pos[l] /\ ~Before(r, pos[l], pos[k])
    <3>1. rank(pos[k]) \in Nat /\ rank(pos[l]) \in Nat /\ pos[k] \in D /\ pos[l] \in D
      <4>1. pos[k] \in D /\ pos[l] \in D
        BY <1>3
      <4>2. \A i \in D : rank(i) \in Nat
        BY <1>1
      <4>3. QED
        BY <4>1, <4>2
    <3>2. ~(rank(pos[l]) < rank(pos[k]))
      BY <2>2, <3>1
    <3>3. rank(pos[k]) # rank(pos[l])
      BY <2>2, <3>1
    <3>4. QED
      BY <1>1, <3>1, <3>2, <3>3
  <2>4. QED
    BY <1>3, <2>3, BeforeIsOrder
<1>6. \A k, l \in D : pos[k] = pos[l] => k = l
  BY <1>1, <1>3
<1>7. pos \in Injection(D, D)
  BY <1>4, <1>6 DEF Injection, IsInjective
<1>8. pos \in Surjection(D, D)
  BY <1>1, <1>7, FS_Interval, FS_Injection
<1>9. QED
  BY <1>2, <1>5, <1>7, <1>8

(* Sorting loses no result and no good one. *)
LEMMA StableSortKeeps ==
  ASSUME NEW r \in Seq(Result)
  PROVE  /\ StableSort(r) \in Seq(Result)
         /\ Len(StableSort(r)) = Len(r) /\ DOMAIN StableSort(r) = DOMAIN r
         /\ Cardinality(Available(r)) \in Nat
         /\ Cardinality(Available(r)) <= Cardinality(Available(StableSort(r)))
         /\ Cardinality(Available(StableSort(r))) \in Nat
<1> DEFINE t == StableSort(r)
           D == DOMAIN r
<1>1. PICK pos \in Injection(D, D) \cap Surjection(D, D) : t = [k \in D |-> r[pos[k]]]
  BY StableSortSorts
<1>2. D = 1..Len(r) /\ Len(r) \in Nat /\ pos \in [D -> D] /\ \A k \in D : r[k] \in Result
  BY <1>1 DEF Injection
<1> HIDE DEF t
<1>3. t \in [1..Len(r) -> Result]
  BY <1>1, <1>2
<1>4. t \in Seq(Result) /\ Len(t) = Len(r) /\ DOMAIN t = D
  BY <1>2, <1>3
<1>5. /\ IsFiniteSet(Available(r)) /\ Cardinality(Available(r)) \in Nat
      /\ IsFiniteSet(Available(t)) /\ Cardinality(Available(t)) \in Nat
  <2>1. IsFiniteSet(D)
    BY <1>2, FS_Interval
  <2>2. Available(r) \subseteq D /\ Available(t) \subseteq D
    BY <1>4 DEF Available
  <2>3. QED
    BY <2>1, <2>2, FS_Subset, FS_CardinalityType
<1>6. Cardinality(Available(r)) <= Cardinality(Available(t))
  <2> DEFINE f == [k \in Available(t) |-> pos[k]]
  <2>1. \A k \in D : k \in Available(t) <=> pos[k] \in Available(r)
    BY <1>1, <1>2, <1>4 DEF Available
  <2>2. Available(t) \subseteq D /\ Available(r) \subseteq D
    BY <1>4 DEF Available
  <2>3. f \in [Available(t) -> Available(r)]
    BY <2>1, <2>2
  <2>4. \A i \in Available(r) : \E k \in Available(t) : f[k] = i
    <3>1. SUFFICES ASSUME NEW i \in Available(r)
                   PROVE  \E k \in Available(t) : pos[k] = i
      OBVIOUS
    <3>2. PICK k \in D : pos[k] = i
      BY <1>1, <2>2 DEF Surjection
    <3>3. QED
      BY <2>1, <3>2
  <2>5. f \in Surjection(Available(t), Available(r))
    BY <2>3, <2>4 DEF Surjection
  <2>6. QED
    BY <1>5, <2>5, FS_Surjection
<1>7. QED
  BY <1>4, <1>5, <1>6 DEF t
-----------------------------------------------------------------------------
LEMMA InitInv == Init => IInv
<1> SUFFICES ASSUME Init PROVE IInv
  OBVIOUS
<1>1. Typed
  <2>1. /\ given \in [nodes: Seq(Node), target: Nat]
        /\ \A j, k \in DOMAIN given.nodes : given.nodes[j] = given.nodes[k] => j = k
    BY DEF Init
  <2>2. phase \in {"idle", "running", "done"} /\ jobs \in {"open", "closed"}
    BY DEF Init
  <2>3. at \in [Worker -> WorkerLabel]
    BY DEF Init, WorkerLabel
  <2>4. /\ todo \in Seq(Node) /\ checked \in Seq(Result)
        /\ node \in [Worker -> Node \cup {None}] /\ dev \in [Worker -> Nat]
        /\ nextTun \in Nat /\ users \in [Device -> Nat]
    BY DEF Init, FirstTun
  <2>5. ok \in [Worker -> BOOLEAN] /\ cancelled \in BOOLEAN /\ left \in BOOLEAN
    BY DEF Init
  <2>6. QED
    BY <2>1, <2>2, <2>3, <2>4, <2>5 DEF Typed
<1>2. Busy = {} /\ Waiting = {} /\ Owners = {} /\ Live = {} /\ In(HoldsSem) = {}
  BY DEF Init, Busy, Waiting, Owners, Live, In, HoldsSem, WorkerLabel
<1>3. Cardinality({}) = 0
  BY FS_EmptySet
<1>4. Len(given.nodes) = 0 /\ Len(todo) = 0 /\ Len(checked) = 0
  BY DEF Init
<1>5. NoneLost /\ PermitsKept /\ EnoughDevices /\ DevicesApart /\ UsersCounted
  BY <1>2, <1>3, <1>4, PoolAssumption
  DEF Init, NoneLost, PermitsKept, EnoughDevices, DevicesApart, UsersCounted, Sent, FirstTun
<1>6. QED
  BY <1>1, <1>2, <1>5
  DEF Init, IInv, InOrder, Quiet, ClosedForReason, CancelledForReason, Once, InFinalOrder

(* A step that touches neither the workers nor the nodes. *)
LEMMA Outside ==
  ASSUME IInv, CloseJobs \/ CallerLeaves \/ UNCHANGED vars
  PROVE  IInv'
<1>1. UNCHANGED <<phase, given, todo, workerVars, checked>>
  BY DEF CloseJobs, CallerLeaves, vars
<1>2. UNCHANGED <<In(WorkerLabel \ {"gone", "jobs"}), In({"dial", "sem", "device"}),
                  In({"launch", "probe", "end"}), In({"probe", "end"}), In(HoldsSem)>>
  BY <1>1 DEF workerVars, In
<1>3. Typed'
  BY <1>1 DEF IInv, Typed, CloseJobs, CallerLeaves, workerVars, vars
<1>4. /\ Quiet' /\ ClosedForReason'
  BY <1>1 DEF IInv, Typed, CloseJobs, CallerLeaves, vars, Quiet, ClosedForReason, workerVars
<1>5. CancelledForReason'
  BY <1>1 DEF IInv, CloseJobs, CallerLeaves, vars, CancelledForReason, Target, Available
<1>6. InOrder' /\ NoneLost' /\ PermitsKept' /\ EnoughDevices'
  BY <1>1, <1>2 DEF IInv, workerVars, InOrder, NoneLost, PermitsKept, EnoughDevices, Sent,
                    Busy, Waiting
<1>7. Once'
  BY <1>1, <1>2 DEF IInv, workerVars, Once, HandedOut, Sent, Busy
<1>8. DevicesApart' /\ UsersCounted'
  BY <1>1, <1>2 DEF IInv, workerVars, DevicesApart, UsersCounted, Owners, Live
<1>9. InFinalOrder'
  BY <1>1 DEF IInv, InFinalOrder
<1>10. QED
  BY <1>3, <1>4, <1>5, <1>6, <1>7, <1>8, <1>9 DEF IInv

(* A new batch: whatever the workers held was given back before. *)
LEMMA BeginKeeps ==
  ASSUME IInv, NEW b \in Batch, Begin(b)
  PROVE  IInv'
<1>1. /\ phase' = "running" /\ given' = b /\ todo' = b.nodes /\ jobs' = "open"
      /\ nextTun' = FirstTun /\ cancelled' = FALSE /\ left' = FALSE /\ checked' = <<>>
      /\ UNCHANGED <<node, ok, dev, users>>
      /\ \A w \in Worker : at[w] = "gone"
  BY DEF Begin, IInv, Quiet
<1>2. at' \in [Worker -> {"gone", "jobs"}]
  BY DEF Begin
<1>3. b \in [nodes: Seq(Node), target: Nat] /\ Len(b.nodes) \in Nat
  BY PoolAssumption
<1>4. Typed'
  <2>1. at' \in [Worker -> WorkerLabel]
    BY <1>2 DEF WorkerLabel
  <2>2. /\ given'.nodes = b.nodes
        /\ \A j, k \in DOMAIN b.nodes : b.nodes[j] = b.nodes[k] => j = k
    BY <1>1, BatchAssumption
  <2>3. checked' \in Seq(Result) /\ nextTun' \in Nat
    BY <1>1 DEF FirstTun
  <2>4. QED
    BY <1>1, <1>3, <2>1, <2>2, <2>3 DEF IInv, Typed
<1>5. /\ Busy' = {} /\ Waiting' = {} /\ Owners' = {} /\ Live' = {} /\ In(HoldsSem)' = {}
      /\ Live = {}
  BY <1>1, <1>2 DEF Busy, Waiting, Owners, Live, In, HoldsSem, WorkerLabel
<1>6. Sent' = 0 /\ Cardinality({}) = 0 /\ Len(<<>>) = 0
  BY <1>1, <1>3, FS_EmptySet DEF Sent
<1>7. InOrder'
  BY <1>1, <1>3, <1>6 DEF InOrder
<1>8. NoneLost' /\ PermitsKept' /\ EnoughDevices' /\ DevicesApart'
  BY <1>1, <1>5, <1>6, PoolAssumption
  DEF NoneLost, PermitsKept, EnoughDevices, DevicesApart, FirstTun
<1>9. UsersCounted'
  BY <1>1, <1>5 DEF IInv, UsersCounted
<1>10. QED
  BY <1>1, <1>4, <1>5, <1>7, <1>8, <1>9
  DEF IInv, Quiet, ClosedForReason, CancelledForReason, Once, InFinalOrder

(* A step of one worker between two places where it has a node, which      *)
(* leaves the producer and the collector alone.                            *)
Inner == WorkerLabel \ {"gone", "jobs"}

LEMMA InnerKeeps ==
  ASSUME IInv, NEW w \in Worker, NEW from \in Inner, NEW to \in Inner,
         Goto(w, from, to),
         UNCHANGED <<phase, given, todo, jobs, node, cancelled, left, checked>>
  PROVE  /\ at' \in [Worker -> WorkerLabel]
         /\ InOrder' /\ Quiet' /\ ClosedForReason' /\ CancelledForReason'
         /\ NoneLost' /\ Once' /\ InFinalOrder'
<1>1. Typed
  BY DEF IInv
<1>2. at[w] = from /\ Busy' = Busy
  BY <1>1, Moved DEF Busy, Inner
<1>3. at' \in [Worker -> WorkerLabel]
  BY <1>1 DEF Typed, Goto, Inner
<1>4. phase = "running"
  BY <1>2 DEF IInv, Quiet, Inner
<1>5. InOrder' /\ Quiet' /\ NoneLost' /\ InFinalOrder'
  BY <1>2, <1>4 DEF IInv, InOrder, Quiet, NoneLost, Sent, InFinalOrder
<1>6. ClosedForReason' /\ CancelledForReason'
  BY DEF IInv, ClosedForReason, CancelledForReason, Target, Available
<1>7. Once'
  BY <1>2 DEF IInv, Once, HandedOut, Sent
<1>8. QED
  BY <1>3, <1>5, <1>6, <1>7

LEMMA CountsAreNumbers ==
  ASSUME Typed
  PROVE  /\ Cardinality(Busy) \in Nat /\ Cardinality(Waiting) \in Nat
         /\ Cardinality(In(HoldsSem)) \in Nat
         /\ Len(given.nodes) \in Nat /\ Len(todo) \in Nat /\ Len(checked) \in Nat
         /\ Sent \in Int /\ Sem \in Nat /\ nextTun \in Nat /\ FirstTun \in Nat
<1>1. Busy \in SUBSET Worker /\ Waiting \in SUBSET Worker /\ In(HoldsSem) \in SUBSET Worker
  BY DEF Busy, Waiting, In
<1>2. Len(given.nodes) \in Nat /\ Len(todo) \in Nat /\ Len(checked) \in Nat
  BY DEF Typed
<1>3. QED
  BY <1>1, <1>2, WorkersFinite, PoolAssumption DEF Typed, Sent, FirstTun

(* A verdict without a probe gives permit and device up, if it had them.   *)
LEMMA RefuseKeeps ==
  ASSUME IInv, NEW w \in Worker, NEW from \in {"dial", "sem", "launch"}, Refuse(w, from)
  PROVE  IInv'
<1>1. Typed /\ Goto(w, from, "result")
  BY DEF IInv, Refuse
<1>2. /\ at' \in [Worker -> WorkerLabel]
      /\ InOrder' /\ Quiet' /\ ClosedForReason' /\ CancelledForReason'
      /\ NoneLost' /\ Once' /\ InFinalOrder'
  <2>1. from \in Inner /\ "result" \in Inner
    BY DEF Inner, WorkerLabel
  <2>2. QED
    BY <1>1, <2>1, InnerKeeps DEF Refuse
<1>3. Typed'
  BY <1>1, <1>2 DEF Typed, Refuse
<1>4. PermitsKept'
  <2>1. \/ In(HoldsSem)' = In(HoldsSem)
        \/ Cardinality(In(HoldsSem)') = Cardinality(In(HoldsSem)) - 1
    BY <1>1, Moved DEF HoldsSem
  <2>2. QED
    BY <1>1, <2>1, CountsAreNumbers DEF IInv, PermitsKept
<1>5. EnoughDevices'
  <2>1. Waiting' = Waiting \/ Cardinality(Waiting') = Cardinality(Waiting) - 1
    BY <1>1, Moved DEF Waiting
  <2>2. nextTun' = nextTun /\ Sent' = Sent
    BY DEF Refuse, Sent
  <2>3. QED
    BY <1>1, <2>1, <2>2, CountsAreNumbers DEF IInv, EnoughDevices
<1>6. DevicesApart'
  <2>1. Owners' \subseteq Owners
    BY <1>1, Moved DEF Owners
  <2>2. QED
    BY <2>1 DEF IInv, DevicesApart, Refuse
<1>7. UsersCounted'
  <2>1. Live' = Live
    BY <1>1, Moved DEF Live
  <2>2. QED
    BY <2>1 DEF IInv, UsersCounted, Refuse
<1>8. QED
  BY <1>2, <1>3, <1>4, <1>5, <1>6, <1>7 DEF IInv

(* The prefilter lets the node pass, or the probe reaches its verdict.     *)
LEMMA DialOrVerdictKeeps ==
  ASSUME IInv, NEW w \in Worker, DialWorks(w) \/ Verdict(w)
  PROVE  IInv'
<1>1. Typed /\ (Goto(w, "dial", "sem") \/ Goto(w, "probe", "end"))
  BY DEF IInv, DialWorks, Verdict
<1>2. /\ at' \in [Worker -> WorkerLabel]
      /\ InOrder' /\ Quiet' /\ ClosedForReason' /\ CancelledForReason'
      /\ NoneLost' /\ Once' /\ InFinalOrder'
  <2>1. "dial" \in Inner /\ "sem" \in Inner /\ "probe" \in Inner /\ "end" \in Inner
    BY DEF Inner, WorkerLabel
  <2>2. QED
    BY <1>1, <2>1, InnerKeeps DEF DialWorks, Verdict
<1>3. Typed'
  BY <1>1, <1>2 DEF Typed, DialWorks, Verdict
<1>4. In(HoldsSem)' = In(HoldsSem) /\ Waiting' = Waiting /\ Owners' = Owners /\ Live' = Live
  BY <1>1, Moved DEF HoldsSem, Waiting, Owners, Live
<1>5. UNCHANGED <<given, todo, dev, nextTun, users>>
  BY DEF DialWorks, Verdict
<1>6. PermitsKept' /\ EnoughDevices' /\ DevicesApart' /\ UsersCounted'
  BY <1>4, <1>5 DEF IInv, PermitsKept, EnoughDevices, DevicesApart, UsersCounted, Sent
<1>7. QED
  BY <1>2, <1>3, <1>6 DEF IInv

LEMMA AcquireKeeps ==
  ASSUME IInv, NEW w \in Worker, Acquire(w)
  PROVE  IInv'
<1>1. Typed /\ Goto(w, "sem", "device")
  BY DEF IInv, Acquire
<1>2. /\ at' \in [Worker -> WorkerLabel]
      /\ InOrder' /\ Quiet' /\ ClosedForReason' /\ CancelledForReason'
      /\ NoneLost' /\ Once' /\ InFinalOrder'
  <2>1. "sem" \in Inner /\ "device" \in Inner
    BY DEF Inner, WorkerLabel
  <2>2. QED
    BY <1>1, <2>1, InnerKeeps DEF Acquire
<1>3. Typed'
  BY <1>1, <1>2 DEF Typed, Acquire
<1>4. PermitsKept'
  <2>1. Cardinality(In(HoldsSem)') = Cardinality(In(HoldsSem)) + 1
    BY <1>1, Moved DEF HoldsSem
  <2>2. Cardinality(In(HoldsSem)) < Sem
    BY DEF Acquire, In
  <2>3. QED
    BY <1>1, <2>1, <2>2, CountsAreNumbers DEF PermitsKept
<1>5. Waiting' = Waiting /\ Owners' = Owners /\ Live' = Live
  BY <1>1, Moved DEF Waiting, Owners, Live
<1>6. UNCHANGED <<given, todo, dev, nextTun, users>>
  BY DEF Acquire
<1>7. EnoughDevices' /\ DevicesApart' /\ UsersCounted'
  BY <1>5, <1>6 DEF IInv, EnoughDevices, DevicesApart, UsersCounted, Sent
<1>8. QED
  BY <1>2, <1>3, <1>4, <1>7 DEF IInv

(* The next device is a new one, and there is one, since the batch has no  *)
(* more nodes than there are hosts.                                        *)
LEMMA TakeDeviceKeeps ==
  ASSUME IInv, NEW w \in Worker, TakeDevice(w)
  PROVE  IInv'
<1>1. Typed /\ Goto(w, "device", "launch")
  BY DEF IInv, TakeDevice
<1>2. /\ at' \in [Worker -> WorkerLabel]
      /\ InOrder' /\ Quiet' /\ ClosedForReason' /\ CancelledForReason'
      /\ NoneLost' /\ Once' /\ InFinalOrder'
  <2>1. "launch" \in Inner /\ "device" \in Inner
    BY DEF Inner, WorkerLabel
  <2>2. QED
    BY <1>1, <2>1, InnerKeeps DEF TakeDevice
<1>3. Typed'
  BY <1>1, <1>2 DEF Typed, TakeDevice
<1>4. In(HoldsSem)' = In(HoldsSem) /\ Live' = Live /\ w \notin Live
  BY <1>1, Moved DEF HoldsSem, Live
<1>5. Cardinality(Waiting') = Cardinality(Waiting) - 1 /\ Cardinality(Waiting') \in Nat
  <2>1. Waiting' \in SUBSET Worker
    BY DEF Waiting, In
  <2>2. QED
    BY <1>1, <2>1, Moved, WorkersFinite DEF Waiting
<1>6. Owners' = Owners \cup {w} /\ w \notin Owners
  BY <1>1, Moved DEF Owners
<1>7. UNCHANGED <<given, todo, users>> /\ nextTun' = nextTun + 1
  BY DEF TakeDevice
<1>8. dev'[w] = nextTun /\ \A v \in Worker \ {w} : dev'[v] = dev[v]
  BY <1>1 DEF TakeDevice, Typed
<1>9. EnoughDevices'
  <2>1. Sent' = Sent
    BY <1>7 DEF Sent
  <2>2. Cardinality(Waiting) \in Nat /\ Sent \in Int /\ nextTun \in Nat /\ FirstTun \in Nat
    BY <1>1, CountsAreNumbers
  <2>3. QED
    BY <1>5, <1>7, <2>1, <2>2 DEF IInv, EnoughDevices
<1>10. nextTun \in Device
  <2>1. nextTun >= FirstTun /\ nextTun - FirstTun + Cardinality(Waiting) <= Len(given.nodes)
    BY <1>1, CountsAreNumbers DEF IInv, EnoughDevices, Sent
  <2>2. nextTun - FirstTun + 1 <= Len(given.nodes)
    BY <1>1, <1>5, <2>1, CountsAreNumbers
  <2>3. Cardinality(Node) \in Nat
    BY PoolAssumption, FS_CardinalityType
  <2>4. QED
    BY <1>1, <2>1, <2>2, <2>3, BatchFits, CountsAreNumbers DEF Device
<1>11. DevicesApart'
  <2>1. Owners \subseteq Worker /\ \A v \in Owners : dev[v] \in Nat
    BY <1>1 DEF Owners, In, Typed
  <2>2. \A v \in Owners : dev'[v] = dev[v] /\ dev[v] \in Device /\ dev[v] < nextTun
    BY <1>6, <1>8, <2>1 DEF IInv, DevicesApart
  <2>3. \A v \in Owners' : dev'[v] \in Device /\ dev'[v] < nextTun + 1
    BY <1>1, <1>6, <1>8, <1>10, <2>1, <2>2, CountsAreNumbers
  <2>4. \A v \in Owners : dev'[v] # dev'[w]
    BY <1>1, <1>8, <2>1, <2>2, CountsAreNumbers
  <2>5. \A u, v \in Owners' : dev'[u] = dev'[v] => u = v
    BY <1>6, <2>2, <2>4 DEF IInv, DevicesApart
  <2>6. QED
    BY <1>7, <2>3, <2>5 DEF DevicesApart, Device
<1>12. PermitsKept' /\ UsersCounted'
  <2>1. Live \subseteq Worker
    BY DEF Live, In
  <2>2. QED
    BY <1>4, <1>7, <1>8, <2>1 DEF IInv, PermitsKept, UsersCounted
<1>13. QED
  BY <1>2, <1>3, <1>9, <1>11, <1>12 DEF IInv

LEMMA LaunchKeeps ==
  ASSUME IInv, NEW w \in Worker, Launch(w)
  PROVE  IInv'
<1>1. Typed /\ Goto(w, "launch", "probe")
  BY DEF IInv, Launch
<1>2. /\ at' \in [Worker -> WorkerLabel]
      /\ InOrder' /\ Quiet' /\ ClosedForReason' /\ CancelledForReason'
      /\ NoneLost' /\ Once' /\ InFinalOrder'
  <2>1. "launch" \in Inner /\ "probe" \in Inner
    BY DEF Inner, WorkerLabel
  <2>2. QED
    BY <1>1, <2>1, InnerKeeps DEF Launch
<1>3. In(HoldsSem)' = In(HoldsSem) /\ Waiting' = Waiting /\ Owners' = Owners /\ w \in Owners
  BY <1>1, Moved DEF HoldsSem, Waiting, Owners
<1>4. Live' = Live \cup {w} /\ w \notin Live /\ Live \subseteq Owners
  <2>1. Live \subseteq Owners
    BY DEF Live, Owners, In
  <2>2. QED
    BY <1>1, <2>1, Moved DEF Live
<1>5. UNCHANGED <<given, todo, dev, nextTun>> /\ dev[w] \in Device
  BY <1>3 DEF Launch, IInv, DevicesApart
<1>6. /\ users' \in [Device -> Nat] /\ users'[dev[w]] = users[dev[w]] + 1
      /\ \A d \in Device \ {dev[w]} : users'[d] = users[d]
  BY <1>1, <1>5 DEF Launch, Typed
<1>7. Typed'
  BY <1>1, <1>2, <1>6 DEF Typed, Launch
<1>8. PermitsKept' /\ EnoughDevices' /\ DevicesApart'
  BY <1>3, <1>5 DEF IInv, PermitsKept, EnoughDevices, DevicesApart, Sent
<1>9. UsersCounted'
  <2>1. \A v \in Live : dev[v] # dev[w]
    BY <1>3, <1>4 DEF IInv, DevicesApart
  <2>2. users[dev[w]] = 0
    BY <1>5, <2>1 DEF IInv, UsersCounted
  <2>3. \A d \in Device : users'[d] = IF \E v \in Live \cup {w} : dev[v] = d THEN 1 ELSE 0
    BY <1>6, <2>2 DEF IInv, UsersCounted
  <2>4. QED
    BY <1>4, <1>5, <2>3 DEF UsersCounted
<1>10. QED
  BY <1>2, <1>7, <1>8, <1>9 DEF IInv

LEMMA EndKeeps ==
  ASSUME IInv, NEW w \in Worker, End(w)
  PROVE  IInv'
<1>1. Typed /\ Goto(w, "end", "result")
  BY DEF IInv, End
<1>2. /\ at' \in [Worker -> WorkerLabel]
      /\ InOrder' /\ Quiet' /\ ClosedForReason' /\ CancelledForReason'
      /\ NoneLost' /\ Once' /\ InFinalOrder'
  <2>1. "end" \in Inner /\ "result" \in Inner
    BY DEF Inner, WorkerLabel
  <2>2. QED
    BY <1>1, <2>1, InnerKeeps DEF End
<1>3. /\ Cardinality(In(HoldsSem)') = Cardinality(In(HoldsSem)) - 1
      /\ Waiting' = Waiting /\ Owners' = Owners \ {w} /\ w \in Owners
  BY <1>1, Moved DEF HoldsSem, Waiting, Owners
<1>4. Live' = Live \ {w} /\ w \in Live /\ Live \subseteq Owners
  <2>1. Live \subseteq Owners
    BY DEF Live, Owners, In
  <2>2. QED
    BY <1>1, <2>1, Moved DEF Live
<1>5. UNCHANGED <<given, todo, dev, nextTun>> /\ dev[w] \in Device
  BY <1>3 DEF End, IInv, DevicesApart
<1>6. users[dev[w]] = 1
  BY <1>4, <1>5 DEF IInv, UsersCounted
<1>7. /\ users' \in [Device -> Nat] /\ users'[dev[w]] = 0
      /\ \A d \in Device \ {dev[w]} : users'[d] = users[d]
  BY <1>1, <1>5, <1>6 DEF End, Typed
<1>8. Typed'
  BY <1>1, <1>2, <1>7 DEF Typed, End
<1>9. PermitsKept' /\ EnoughDevices' /\ DevicesApart'
  BY <1>1, <1>3, <1>5, CountsAreNumbers
  DEF IInv, PermitsKept, EnoughDevices, DevicesApart, Sent
<1>10. UsersCounted'
  <2>1. \A v \in Live \ {w} : dev[v] # dev[w]
    BY <1>3, <1>4 DEF IInv, DevicesApart
  <2>2. \A d \in Device : users'[d] = IF \E v \in Live \ {w} : dev[v] = d THEN 1 ELSE 0
    BY <1>7, <2>1 DEF IInv, UsersCounted
  <2>3. QED
    BY <1>4, <1>5, <2>2 DEF UsersCounted
<1>11. QED
  BY <1>2, <1>8, <1>9, <1>10 DEF IInv

(* The producer hands out the next node, which nobody has had before.      *)
LEMMA SendKeeps ==
  ASSUME IInv, NEW w \in Worker, Send(w)
  PROVE  IInv'
<1> DEFINE to == IF Head(todo) \in Prefiltered THEN "dial" ELSE "sem"
<1>1. Typed /\ Goto(w, "jobs", to) /\ todo # <<>> /\ jobs = "open" /\ to \in {"dial", "sem"}
  BY DEF IInv, Send
<1>2. /\ todo' = Tail(todo) /\ node' = [node EXCEPT ![w] = Head(todo)]
      /\ UNCHANGED <<phase, given, jobs, ok, dev, nextTun, users, cancelled, left, checked>>
  BY DEF Send
<1> HIDE DEF to
<1>3. /\ Head(todo) \in Node /\ Head(todo) = todo[1] /\ 1 \in DOMAIN todo
      /\ todo' \in Seq(Node) /\ Len(todo') = Len(todo) - 1
      /\ \A j \in DOMAIN todo' : j + 1 \in DOMAIN todo /\ todo'[j] = todo[j + 1]
  BY <1>1, <1>2 DEF Typed
<1>4. at' \in [Worker -> WorkerLabel]
  BY <1>1 DEF Typed, Goto, WorkerLabel
<1>5. Typed'
  BY <1>1, <1>2, <1>3, <1>4 DEF Typed
<1>6. Sent' = Sent + 1 /\ Sent \in Int
  BY <1>1, <1>2, <1>3, CountsAreNumbers DEF Sent
<1>7. InOrder'
  <2>1. SUFFICES ASSUME NEW j \in DOMAIN todo'
                 PROVE  todo'[j] = given.nodes[Sent' + j]
    BY <1>2 DEF InOrder
  <2>2. todo'[j] = given.nodes[Sent + (j + 1)]
    BY <1>3 DEF IInv, InOrder
  <2>3. j \in Nat
    BY <1>3
  <2>4. QED
    BY <1>6, <2>2, <2>3
<1>8. /\ Cardinality(Busy') = Cardinality(Busy) + 1
      /\ Busy' = Busy \cup {w} /\ w \notin Busy
  BY <1>1, Moved DEF Busy, WorkerLabel
<1>9. Cardinality(Waiting') = Cardinality(Waiting) + 1
  BY <1>1, Moved DEF Waiting
<1>10. In(HoldsSem)' = In(HoldsSem) /\ Owners' = Owners /\ Live' = Live
  BY <1>1, Moved DEF HoldsSem, Owners, Live
<1>11. Quiet' /\ ClosedForReason' /\ CancelledForReason' /\ InFinalOrder'
  BY <1>1, <1>2, Moved
  DEF IInv, Quiet, ClosedForReason, CancelledForReason, Target, Available, InFinalOrder
<1>12. NoneLost' /\ EnoughDevices'
  BY <1>1, <1>2, <1>6, <1>8, <1>9, CountsAreNumbers DEF IInv, NoneLost, EnoughDevices
<1>13. PermitsKept' /\ DevicesApart' /\ UsersCounted'
  BY <1>2, <1>10 DEF IInv, PermitsKept, DevicesApart, UsersCounted
<1>14. Once'
  <2>1. /\ Sent + 1 \in DOMAIN given.nodes /\ given.nodes[Sent + 1] = Head(todo)
        /\ DOMAIN given.nodes = 1..Len(given.nodes)
    <3>1. Len(checked) \in Nat /\ Cardinality(Busy) \in Nat
      BY <1>1, CountsAreNumbers
    <3>2. Sent >= 0 /\ Sent + 1 <= Len(given.nodes)
      BY <1>1, <1>3, <3>1, CountsAreNumbers DEF IInv, NoneLost, Sent
    <3>3. DOMAIN given.nodes = 1..Len(given.nodes)
      BY <1>1 DEF Typed
    <3>4. QED
      BY <1>1, <1>3, <1>6, <3>2, <3>3 DEF IInv, InOrder
  <2>2. ~HandedOut(Head(todo))
    <3>1. ASSUME NEW k \in DOMAIN given.nodes, k <= Sent, given.nodes[k] = Head(todo)
          PROVE  FALSE
      <4>1. k = Sent + 1
        BY <1>1, <2>1, <3>1 DEF Typed
      <4>2. QED
        BY <1>6, <3>1, <4>1
    <3>2. QED
      BY <3>1 DEF HandedOut
  <2> DEFINE now(n) == \E k \in DOMAIN given.nodes : k <= Sent + 1 /\ given.nodes[k] = n
  <2>3. now(Head(todo))
    BY <1>6, <2>1
  <2>4. \A n : HandedOut(n) => now(n)
    BY <1>6, <2>1 DEF HandedOut
  <2>5. node'[w] = Head(todo) /\ \A v \in Busy : v # w /\ node'[v] = node[v]
    <3>1. Busy \subseteq Worker
      BY DEF Busy, In
    <3>2. QED
      BY <1>1, <1>2, <1>8, <3>1 DEF Typed
  <2>6. /\ \A i \in DOMAIN checked : HandedOut(checked[i].id)
        /\ \A v \in Busy : HandedOut(node[v]) /\ node[v] \in Node
    BY DEF IInv, Once
  <2>7. \A n : HandedOut(n) => n # Head(todo)
    BY <2>2
  <2> HIDE DEF now
  <2>8. /\ \A i \in DOMAIN checked : now(checked[i].id)
        /\ \A v \in Busy' : now(node'[v]) /\ node'[v] \in Node
    BY <1>3, <1>8, <2>3, <2>4, <2>5, <2>6
  <2>9. /\ \A u, v \in Busy' : node'[u] = node'[v] => u = v
        /\ \A i \in DOMAIN checked, v \in Busy' : checked[i].id # node'[v]
    BY <1>8, <2>5, <2>6, <2>7 DEF IInv, Once
  <2>10. QED
    BY <1>2, <1>6, <2>8, <2>9 DEF IInv, Once, HandedOut, now
<1>15. QED
  BY <1>5, <1>7, <1>11, <1>12, <1>13, <1>14 DEF IInv

LEMMA WorkerLeavesKeeps ==
  ASSUME IInv, NEW w \in Worker, WorkerLeaves(w)
  PROVE  IInv'
<1>1. Typed /\ Goto(w, "jobs", "gone") /\ jobs = "closed"
  BY DEF IInv, WorkerLeaves
<1>2. UNCHANGED <<phase, given, todo, jobs, node, ok, dev, nextTun, users,
                  cancelled, left, checked>>
  BY DEF WorkerLeaves
<1>3. at' \in [Worker -> WorkerLabel]
  BY <1>1 DEF Typed, Goto, WorkerLabel
<1>4. Typed'
  BY <1>1, <1>2, <1>3 DEF Typed
<1>5. /\ Busy' = Busy /\ Waiting' = Waiting /\ Owners' = Owners /\ Live' = Live
      /\ In(HoldsSem)' = In(HoldsSem)
  BY <1>1, Moved DEF Busy, Waiting, Owners, Live, HoldsSem
<1>6. Quiet'
  BY <1>1, <1>2, Moved DEF IInv, Quiet
<1>7. InOrder' /\ ClosedForReason' /\ CancelledForReason' /\ InFinalOrder'
  BY <1>2 DEF IInv, InOrder, Sent, ClosedForReason, CancelledForReason, Target, Available,
              InFinalOrder
<1>8. NoneLost' /\ EnoughDevices' /\ PermitsKept' /\ DevicesApart' /\ UsersCounted'
  BY <1>2, <1>5 DEF IInv, NoneLost, EnoughDevices, PermitsKept, DevicesApart, UsersCounted, Sent
<1>9. Once'
  BY <1>2, <1>5 DEF IInv, Once, HandedOut, Sent
<1>10. QED
  BY <1>4, <1>6, <1>7, <1>8, <1>9 DEF IInv

(* The worker's node moves to the results. *)
LEMMA CollectKeeps ==
  ASSUME IInv, NEW w \in Worker, Collect(w)
  PROVE  IInv'
<1> DEFINE new == [id |-> node[w], ok |-> ok[w]]
<1>1. Typed /\ Goto(w, "result", "jobs")
  BY DEF IInv, Collect
<1>2. /\ checked' = Append(checked, new)
      /\ cancelled' = (cancelled \/ Cardinality(Available(checked')) >= Target)
      /\ node' = [node EXCEPT ![w] = None] /\ ok' = [ok EXCEPT ![w] = FALSE]
      /\ dev' = [dev EXCEPT ![w] = 0]
      /\ UNCHANGED <<phase, given, todo, jobs, nextTun, users, left>>
  BY DEF Collect
<1>3. Busy' = Busy \ {w} /\ w \in Busy /\ Cardinality(Busy') = Cardinality(Busy) - 1
  BY <1>1, Moved DEF Busy, WorkerLabel
<1>4. /\ In(HoldsSem)' = In(HoldsSem) /\ Waiting' = Waiting
      /\ Owners' = Owners /\ Live' = Live /\ w \notin Owners /\ w \notin Live
  BY <1>1, Moved DEF HoldsSem, Waiting, Owners, Live
<1>5. new \in Result
  BY <1>1, <1>3 DEF IInv, Once, Typed, Result
<1> HIDE DEF new
<1>6. /\ checked' \in Seq(Result) /\ Len(checked') = Len(checked) + 1
      /\ DOMAIN checked = 1..Len(checked) /\ DOMAIN checked' = 1..(Len(checked) + 1)
      /\ \A i \in DOMAIN checked : checked'[i] = checked[i]
      /\ checked'[Len(checked) + 1] = new /\ Len(checked) \in Nat
  BY <1>1, <1>2, <1>5 DEF Typed
<1>7. Typed'
  <2>1. at' \in [Worker -> WorkerLabel]
    BY <1>1 DEF Typed, Goto, WorkerLabel
  <2>2. cancelled' \in BOOLEAN
    BY <1>1, <1>2 DEF Typed
  <2>3. dev' \in [Worker -> Nat] /\ node' \in [Worker -> Node \cup {None}]
    BY <1>1, <1>2 DEF Typed
  <2>4. ok' \in [Worker -> BOOLEAN]
    BY <1>1, <1>2 DEF Typed
  <2>5. QED
    BY <1>1, <1>2, <1>6, <2>1, <2>2, <2>3, <2>4 DEF Typed
<1>8. InOrder' /\ ClosedForReason' /\ Sent' = Sent
  BY <1>2 DEF IInv, InOrder, Sent, ClosedForReason
<1>9. Quiet' /\ InFinalOrder'
  <2>1. phase = "running"
    BY <1>1, Moved DEF IInv, Quiet
  <2>2. QED
    BY <1>2, <2>1 DEF Quiet, InFinalOrder
<1>10. CancelledForReason'
  <2>1. Target' = Target
    BY <1>2 DEF Target
  <2>2. /\ Cardinality(Available(checked)) <= Cardinality(Available(checked'))
        /\ Cardinality(Available(checked)) \in Nat /\ Cardinality(Available(checked')) \in Nat
    <3>1. IsFiniteSet(DOMAIN checked')
      BY <1>6, FS_Interval
    <3>2. Available(checked) \subseteq Available(checked') /\ Available(checked') \subseteq DOMAIN checked'
      BY <1>6 DEF Available
    <3>3. QED
      BY <3>1, <3>2, FS_Subset, FS_CardinalityType
  <2>3. Target \in Nat
    BY <1>1 DEF Typed, Target
  <2>4. left \/ Cardinality(Available(checked')) >= Target \/ ~cancelled'
    <3>1. CASE cancelled
      BY <2>2, <2>3, <3>1 DEF IInv, CancelledForReason
    <3>2. CASE ~cancelled
      BY <1>2, <3>2
    <3>3. QED
      BY <3>1, <3>2
  <2>5. QED
    BY <1>2, <2>1, <2>4 DEF CancelledForReason
<1>11. NoneLost'
  BY <1>1, <1>3, <1>6, <1>8, CountsAreNumbers DEF IInv, NoneLost
<1>12. PermitsKept' /\ EnoughDevices'
  BY <1>2, <1>4, <1>8 DEF IInv, PermitsKept, EnoughDevices
<1>13. DevicesApart' /\ UsersCounted'
  <2>1. \A v \in Owners \cup Live : dev'[v] = dev[v]
    BY <1>1, <1>2, <1>4 DEF Typed, Owners, Live, In
  <2>2. QED
    BY <1>2, <1>4, <2>1 DEF IInv, DevicesApart, UsersCounted
<1>14. Once'
  <2>1. new.id = node[w]
    BY DEF new
  <2>2. \A v \in Busy' : v \in Busy /\ v # w /\ node'[v] = node[v]
    <3>1. Busy \subseteq Worker
      BY DEF Busy, In
    <3>2. QED
      BY <1>1, <1>2, <1>3, <3>1 DEF Typed
  <2>3. \A i \in DOMAIN checked' : i \in DOMAIN checked \/ i = Len(checked) + 1
    BY <1>6
  <2>4. \A n : HandedOut(n) <=> \E k \in DOMAIN given'.nodes : k <= Sent' /\ given'.nodes[k] = n
    BY <1>2, <1>8 DEF HandedOut
  <2>5. \A i \in DOMAIN checked' : HandedOut(checked'[i].id)
    BY <1>3, <1>6, <2>1, <2>3 DEF IInv, Once
  <2>6. \A i, j \in DOMAIN checked' : checked'[i].id = checked'[j].id => i = j
    BY <1>3, <1>6, <2>1, <2>3 DEF IInv, Once
  <2>7. \A v \in Busy' : HandedOut(node'[v]) /\ node'[v] \in Node
    BY <2>2 DEF IInv, Once
  <2>8. /\ \A u, v \in Busy' : node'[u] = node'[v] => u = v
        /\ \A i \in DOMAIN checked', v \in Busy' : checked'[i].id # node'[v]
    BY <1>3, <1>6, <2>1, <2>2, <2>3 DEF IInv, Once
  <2>9. QED
    BY <2>4, <2>5, <2>6, <2>7, <2>8 DEF Once, HandedOut
<1>15. QED
  BY <1>7, <1>8, <1>9, <1>10, <1>11, <1>12, <1>13, <1>14 DEF IInv

(* The sort at the end keeps what is known of the results.                 *)
LEMMA FinishKeeps ==
  ASSUME IInv, Finish
  PROVE  IInv'
<1>1. /\ checked' = StableSort(checked) /\ phase' = "done" /\ phase = "running"
      /\ jobs = "closed" /\ \A w \in Worker : at[w] = "gone"
      /\ UNCHANGED <<given, todo, jobs, at, node, ok, dev, nextTun, users, cancelled, left>>
  BY DEF Finish, workerVars
<1>2. Typed /\ checked \in Seq(Result)
  BY DEF IInv, Typed
<1>3. /\ checked' \in Seq(Result) /\ Len(checked') = Len(checked)
      /\ DOMAIN checked' = DOMAIN checked
      /\ Cardinality(Available(checked)) \in Nat
      /\ Cardinality(Available(checked')) \in Nat
      /\ Cardinality(Available(checked)) <= Cardinality(Available(checked'))
  BY <1>1, <1>2, StableSortKeeps
<1>4. Typed'
  BY <1>1, <1>2, <1>3 DEF Typed
<1>5. /\ Busy' = Busy /\ Waiting' = Waiting /\ Owners' = Owners /\ Live' = Live
      /\ In(HoldsSem)' = In(HoldsSem) /\ Busy = {} /\ Sent' = Sent
  BY <1>1 DEF Busy, Waiting, Owners, Live, In, Sent
<1>6. InOrder' /\ Quiet' /\ ClosedForReason'
  BY <1>1, <1>5 DEF IInv, InOrder, Quiet, ClosedForReason
<1>7. CancelledForReason'
  <2>1. Target' = Target /\ Target \in Nat
    BY <1>1, <1>2 DEF Target, Typed
  <2>2. QED
    BY <1>1, <1>3, <2>1 DEF IInv, CancelledForReason
<1>8. NoneLost' /\ PermitsKept' /\ EnoughDevices' /\ DevicesApart' /\ UsersCounted'
  BY <1>1, <1>3, <1>5
  DEF IInv, NoneLost, PermitsKept, EnoughDevices, DevicesApart, UsersCounted
<1> DEFINE D == DOMAIN checked
<1>9. PICK pos \in Injection(D, D) \cap Surjection(D, D) :
        /\ checked' = [k \in D |-> checked[pos[k]]]
        /\ \A k, l \in D : k < l => Before(checked, pos[k], pos[l])
  BY <1>1, <1>2, StableSortSorts
<1>10. \A k \in D : pos[k] \in D /\ checked'[k] = checked[pos[k]]
  BY <1>9 DEF Injection
<1>11. Once'
  <2>1. \A k \in D : HandedOut(checked'[k].id)
    BY <1>10 DEF IInv, Once
  <2>2. \A k, l \in D : checked'[k].id = checked'[l].id => k = l
    <3>1. \A k, l \in D : pos[k] = pos[l] => k = l
      BY <1>9 DEF Injection, IsInjective
    <3>2. QED
      BY <1>10, <3>1 DEF IInv, Once
  <2>3. \A n : HandedOut(n) <=> \E k \in DOMAIN given'.nodes : k <= Sent' /\ given'.nodes[k] = n
    BY <1>1, <1>5 DEF HandedOut
  <2>4. QED
    BY <1>3, <1>5, <2>1, <2>2, <2>3 DEF Once, HandedOut
<1>12. InFinalOrder'
  <2>1. SUFFICES ASSUME NEW i \in D, NEW j \in D, i < j
                 PROVE  \/ checked'[i].ok /\ ~checked'[j].ok
                        \/ /\ checked'[i].ok = checked'[j].ok
                           /\ Ping[checked'[i].id] <= Ping[checked'[j].id]
    BY <1>3 DEF InFinalOrder
  <2>2. Before(checked, pos[i], pos[j])
    BY <1>9, <2>1
  <2>3. Ping[checked'[i].id] \in Nat /\ Ping[checked'[j].id] \in Nat
    <3>1. checked'[i] \in Result /\ checked'[j] \in Result
      BY <1>3
    <3>2. QED
      BY <3>1, NodesAssumption DEF Result
  <2>4. QED
    BY <1>10, <2>2, <2>3 DEF Before
<1>13. QED
  BY <1>4, <1>6, <1>7, <1>8, <1>11, <1>12 DEF IInv
-----------------------------------------------------------------------------
(* The invariant holds of every sequence of batches. *)
THEOREM Invariance == Spec => []IInv
<1>1. IInv /\ [Next]_vars => IInv'
  <2> SUFFICES ASSUME IInv, [Next]_vars PROVE IInv'
    OBVIOUS
  <2>1. CASE CloseJobs \/ CallerLeaves \/ UNCHANGED vars
    BY <2>1, Outside
  <2>2. CASE \E b \in Batch : Begin(b)
    BY <2>2, BeginKeeps
  <2>3. CASE Finish
    BY <2>3, FinishKeeps
  <2>4. ASSUME NEW w \in Worker, Send(w) \/ WorkerStep(w)
        PROVE  IInv'
    <3>1. CASE Send(w) \/ WorkerLeaves(w) \/ Collect(w)
      BY <3>1, SendKeeps, WorkerLeavesKeeps, CollectKeeps
    <3>2. CASE DialFails(w) \/ AcquireCancelled(w) \/ LaunchFails(w)
      BY <3>2, RefuseKeeps DEF DialFails, AcquireCancelled, LaunchFails
    <3>3. CASE DialWorks(w) \/ Verdict(w) \/ Acquire(w)
      BY <3>3, DialOrVerdictKeeps, AcquireKeeps
    <3>4. CASE TakeDevice(w) \/ Launch(w) \/ End(w)
      BY <3>4, TakeDeviceKeeps, LaunchKeeps, EndKeeps
    <3>5. QED
      BY <2>4, <3>1, <3>2, <3>3, <3>4 DEF WorkerStep
  <2>5. QED
    BY <2>1, <2>2, <2>3, <2>4 DEF Next
<1>2. QED
  BY <1>1, InitInv, PTL DEF Spec

(* Theorem: the semaphore bounds the test processes, and every process of  *)
(* a batch has a tun device to itself, for any number of workers.          *)
THEOREM ProbesAreBounded == Spec => []ProbesBounded
<1>1. IInv => ProbesBounded
  <2>1. SUFFICES ASSUME IInv PROVE ProbesBounded
    OBVIOUS
  <2>2. \A d \in Device : users[d] = IF \E w \in Live : dev[w] = d THEN 1 ELSE 0
    BY <2>1 DEF IInv, UsersCounted
  <2> DEFINE used == { d \in Device : users[d] > 0 }
             on == [w \in Live |-> dev[w]]
  <2>3. on \in Surjection(Live, used)
    <3>1. \A w \in Live : w \in Owners
      BY DEF Live, Owners, In
    <3>2. \A w \in Live : dev[w] \in Device /\ users[dev[w]] > 0
      BY <2>1, <2>2, <3>1 DEF IInv, DevicesApart
    <3>3. \A d \in used : \E w \in Live : dev[w] = d
      BY <2>2
    <3>4. QED
      BY <3>2, <3>3 DEF Surjection
  <2>4. Live \in SUBSET In(HoldsSem) /\ In(HoldsSem) \in SUBSET Worker
    BY DEF Live, In, HoldsSem
  <2>5. /\ IsFiniteSet(Live) /\ Cardinality(Live) \in Nat
        /\ Cardinality(In(HoldsSem)) \in Nat
        /\ Cardinality(Live) <= Cardinality(In(HoldsSem))
    BY <2>4, WorkersFinite, FS_Subset
  <2>6. IsFiniteSet(used) /\ Cardinality(used) <= Cardinality(Live) /\ Cardinality(used) \in Nat
    BY <2>3, <2>5, FS_Surjection, FS_CardinalityType
  <2>7. Cardinality(used) <= Sem
    BY <2>1, <2>5, <2>6, PoolAssumption DEF IInv, PermitsKept
  <2>8. \A d \in Device : users[d] <= 1
    BY <2>2
  <2>9. QED
    BY <2>7, <2>8 DEF ProbesBounded
<1>2. QED
  BY <1>1, Invariance, PTL

(* Theorem: a batch that ends has found enough good nodes, has a verdict   *)
(* on every node, or has lost its caller.                                  *)
THEOREM BatchIsComplete == Spec => []EnoughOrAll
<1>1. IInv => EnoughOrAll
  <2>1. SUFFICES ASSUME IInv, phase = "done", ~cancelled
                 PROVE  Len(checked) = Len(given.nodes)
    BY DEF IInv, CancelledForReason, EnoughOrAll
  <2>2. Len(todo) = 0 /\ Typed
    BY <2>1 DEF IInv, Quiet, ClosedForReason
  <2>3. Busy = {}
    BY <2>1 DEF IInv, Quiet, Busy, In
  <2>4. Cardinality(Busy) = 0
    BY <2>3, FS_EmptySet
  <2>5. QED
    BY <2>1, <2>2, <2>4, CountsAreNumbers DEF IInv, NoneLost, Sent
<1>2. QED
  BY <1>1, Invariance, PTL

(* Theorem: what a batch returns is a list that a refresh may store.       *)
THEOREM BatchIsList == Spec => []ResultIsList
<1>1. IInv => ResultIsList
  <2>1. SUFFICES ASSUME IInv, phase = "done" PROVE ResultIsList
    BY DEF ResultIsList
  <2> DEFINE n == Len(checked)
             entry(i) == [id |-> checked[i].id, available |-> checked[i].ok, invalid |-> FALSE]
             l == [i \in DOMAIN checked |-> entry(i)]
  <2>2. Typed /\ n \in Nat /\ DOMAIN checked = 1..n /\ \A i \in 1..n : checked[i] \in Result
    BY <2>1 DEF IInv, Typed
  <2>3. \A i \in 1..n : entry(i) \in [id: Node, available: BOOLEAN, invalid: {FALSE}]
    BY <2>2 DEF Result
  <2>4. n \in 0..Cardinality(Node)
    <3>1. \A i, j \in 1..n : checked[i].id = checked[j].id => i = j
      BY <2>1, <2>2 DEF IInv, Once
    <3>2. [i \in 1..n |-> checked[i].id] \in Injection(1..n, Node)
      BY <2>2, <3>1 DEF Injection, IsInjective, Result
    <3>3. Cardinality(1..n) = n /\ Cardinality(1..n) <= Cardinality(Node)
      BY <2>2, <3>2, FS_Interval, FS_Injection, PoolAssumption
    <3>4. Cardinality(Node) \in Nat
      BY PoolAssumption, FS_CardinalityType
    <3>5. QED
      BY <2>2, <3>3, <3>4
  <2>5. DistinctIds(l)
    BY <2>1 DEF IInv, Once, DistinctIds
  <2>6. Sorted(l)
    BY <2>1 DEF IInv, InFinalOrder, Sorted
  <2>7. l \in RefreshedLists
    <3>1. l \in [1..n -> [id: Node, available: BOOLEAN, invalid: {FALSE}]]
      BY <2>2, <2>3
    <3> HIDE DEF l
    <3>2. QED
      BY <2>4, <2>5, <2>6, <3>1 DEF RefreshedLists
  <2>8. \A i \in DOMAIN checked : \E k \in DOMAIN given.nodes : given.nodes[k] = checked[i].id
    BY <2>1 DEF IInv, Once, HandedOut
  <2>9. QED
    BY <2>7, <2>8 DEF ResultIsList
<1>2. QED
  BY <1>1, Invariance, PTL
-----------------------------------------------------------------------------
(* The way of a batch to its end.  Not every worker has left while there   *)
(* are nodes to hand out.                                                  *)
Served == jobs = "open" /\ todo # <<>> => \E w \in Worker : at[w] # "gone"

LEMMA ServedStep == IInv /\ Served /\ [Next]_vars => Served'
<1> SUFFICES ASSUME IInv, Served, [Next]_vars, jobs' = "open", todo' # <<>>
             PROVE  \E w \in Worker : at'[w] # "gone"
  BY DEF Served
<1>0. at \in [Worker -> WorkerLabel]
  BY DEF IInv, Typed
<1>1. CASE \E b \in Batch : Begin(b)
  <2>1. PICK b \in Batch : Begin(b)
    BY <1>1
  <2>2. b.nodes \in Seq(Node) /\ b.nodes # <<>>
    BY <2>1, PoolAssumption DEF Begin
  <2>3. PICK started \in SUBSET Worker :
          /\ Cardinality(started) = Min({Cardinality(Worker), Len(b.nodes)})
          /\ at' = [w \in Worker |-> IF w \in started THEN "jobs" ELSE "gone"]
    BY <2>1 DEF Begin
  <2>4. Cardinality(Worker) \in Nat \ {0} /\ Len(b.nodes) \in Nat \ {0}
    BY <2>2, PoolAssumption, FS_CardinalityType, FS_EmptySet
  <2>5. Min({Cardinality(Worker), Len(b.nodes)}) # 0
    BY <2>4 DEF Min
  <2>6. started # {}
    BY <2>3, <2>5, FS_EmptySet
  <2>7. QED
    BY <2>3, <2>6
<1>2. CASE \E w \in Worker : Send(w)
  BY <1>0, <1>2 DEF Send, Goto
<1>3. CASE \E w \in Worker : WorkerStep(w)
  <2>1. PICK w \in Worker : WorkerStep(w)
    BY <1>3
  <2>2. jobs = "open" => ~WorkerLeaves(w)
    BY DEF WorkerLeaves
  <2>3. jobs' = jobs
    BY <2>1 DEF WorkerStep, WorkerLeaves, DialWorks, DialFails, Refuse, Acquire, AcquireCancelled,
                TakeDevice, Launch, LaunchFails, Verdict, End, Collect
  <2>4. \E from, to \in WorkerLabel : to # "gone" /\ Goto(w, from, to)
    BY <2>1, <2>2, <2>3
    DEF WorkerStep, DialWorks, DialFails, Refuse, Acquire, AcquireCancelled,
        TakeDevice, Launch, LaunchFails, Verdict, End, Collect, WorkerLabel
  <2>5. QED
    BY <1>0, <2>4 DEF Goto
<1>4. CASE CloseJobs \/ Finish
  BY <1>4 DEF CloseJobs, Finish
<1>5. CASE CallerLeaves \/ UNCHANGED vars
  BY <1>5 DEF CallerLeaves, vars, workerVars, Served
<1>6. QED
  BY <1>1, <1>2, <1>3, <1>4, <1>5 DEF Next

(* Theorem: in a running batch somebody can always get on, for any number  *)
(* of workers, places of the semaphore and nodes.                          *)
THEOREM SomebodyMoves == Spec => []NobodyStuck
<1>1. Init => Served
  BY DEF Init, Served
<1>2. IInv /\ Served => NobodyStuck
  <2> SUFFICES ASSUME IInv, Served, phase = "running",
                      ~ \E w \in Worker : at[w] \in {"dial", "device", "launch", "probe", "end", "result"},
                      ~ \E w \in Worker : at[w] = "jobs"
               PROVE  NobodyStuck
    BY DEF NobodyStuck, IInv, Typed
  <2>1. at \in [Worker -> WorkerLabel] /\ jobs \in {"open", "closed"}
    BY DEF IInv, Typed
  <2>2. \A w \in Worker : at[w] \in {"sem", "gone"}
    BY <2>1 DEF WorkerLabel
  <2>3. { v \in Worker : at[v] \in HoldsSem } = {}
    BY <2>2 DEF HoldsSem
  <2>4. Cardinality({ v \in Worker : at[v] \in HoldsSem }) < Sem
    <3>1. Cardinality({ v \in Worker : at[v] \in HoldsSem }) = 0
      BY <2>3, FS_EmptySet
    <3>2. QED
      BY <3>1, PoolAssumption
  <2>5. CASE \E w \in Worker : at[w] = "sem"
    BY <2>4, <2>5 DEF NobodyStuck
  <2>6. CASE \A w \in Worker : at[w] = "gone"
    BY <2>1, <2>6 DEF NobodyStuck, Served
  <2>7. QED
    BY <2>2, <2>5, <2>6
<1>3. QED
  BY <1>1, <1>2, ServedStep, Invariance, PTL DEF Spec

(* How far a worker has come, and how a step of one worker counts. *)
Share(l, k) == IF l \in Levels[k] THEN 1 ELSE 0
Rank(l) ==
  Share(l, 1) + Share(l, 2) + Share(l, 3) + Share(l, 4)
  + Share(l, 5) + Share(l, 6) + Share(l, 7) + Share(l, 8)

LEMMA Ranking ==
  /\ Rank("gone") = 0 /\ Rank("jobs") = 1 /\ Rank("result") = 2 /\ Rank("end") = 3
  /\ Rank("probe") = 4 /\ Rank("launch") = 5 /\ Rank("device") = 6 /\ Rank("sem") = 7
  /\ Rank("dial") = 8
<1>1. /\ Levels[1] = {"jobs", "dial", "sem", "device", "launch", "probe", "end", "result"}
      /\ Levels[2] = {"dial", "sem", "device", "launch", "probe", "end", "result"}
      /\ Levels[3] = {"dial", "sem", "device", "launch", "probe", "end"}
  BY DEF Levels, WorkerLabel
<1>2. /\ Levels[4] = {"dial", "sem", "device", "launch", "probe"}
      /\ Levels[5] = {"dial", "sem", "device", "launch"}
      /\ Levels[6] = {"dial", "sem", "device"}
      /\ Levels[7] = {"dial", "sem"}
      /\ Levels[8] = {"dial"}
  BY DEF Levels
<1>3. /\ Rank("gone") = 0 /\ Rank("jobs") = 1 /\ Rank("result") = 2
  BY <1>1, <1>2 DEF Rank, Share
<1>4. /\ Rank("end") = 3 /\ Rank("probe") = 4 /\ Rank("launch") = 5
  BY <1>1, <1>2 DEF Rank, Share
<1>5. /\ Rank("device") = 6 /\ Rank("sem") = 7 /\ Rank("dial") = 8
  BY <1>1, <1>2 DEF Rank, Share
<1>6. QED
  BY <1>3, <1>4, <1>5

LEMMA LevelIsCount == \A k \in 1..8 : AtLevel(k) \in Nat
BY WorkersFinite DEF AtLevel

LEMMA LevelMoves ==
  ASSUME Typed, NEW w \in Worker, NEW from, NEW to, Goto(w, from, to), NEW k \in 1..8
  PROVE  AtLevel(k)' = AtLevel(k) + Share(to, k) - Share(from, k)
<1> DEFINE L == Levels[k]
<1>1. AtLevel(k) = Cardinality(In(L)) /\ AtLevel(k)' = Cardinality(In(L)')
  BY DEF AtLevel, In
<1>2. Cardinality(In(L)) \in Nat
  BY <1>1, LevelIsCount
<1> HIDE DEF L
<1>3. CASE to \in L <=> from \in L
  <2>1. Cardinality(In(L)') = Cardinality(In(L))
    BY <1>3, Moved
  <2>2. Share(to, k) = Share(from, k) /\ Share(to, k) \in Nat
    BY <1>3 DEF Share, L
  <2>3. QED
    BY <1>1, <1>2, <2>1, <2>2
<1>4. CASE to \in L /\ from \notin L
  <2>1. Cardinality(In(L)') = Cardinality(In(L)) + 1
    BY <1>4, Moved
  <2>2. Share(to, k) = 1 /\ Share(from, k) = 0
    BY <1>4 DEF Share, L
  <2>3. QED
    BY <1>1, <1>2, <2>1, <2>2
<1>5. CASE to \notin L /\ from \in L
  <2>1. Cardinality(In(L)') = Cardinality(In(L)) - 1
    BY <1>5, Moved
  <2>2. Share(to, k) = 0 /\ Share(from, k) = 1
    BY <1>5 DEF Share, L
  <2>3. QED
    BY <1>1, <1>2, <2>1, <2>2
<1>6. QED
  BY <1>3, <1>4, <1>5

LEMMA RankMoves ==
  ASSUME Typed, NEW w \in Worker, NEW from, NEW to, Goto(w, from, to)
  PROVE  Ranked \in Nat /\ Ranked' = Ranked + Rank(to) - Rank(from)
<1>1. \A k \in 1..8 : AtLevel(k) \in Nat /\ Share(to, k) \in Nat /\ Share(from, k) \in Nat
  BY LevelIsCount DEF Share
<1>2. \A k \in 1..8 : AtLevel(k)' = AtLevel(k) + Share(to, k) - Share(from, k)
  BY LevelMoves
<1>3. /\ 1 \in 1..8 /\ 2 \in 1..8 /\ 3 \in 1..8 /\ 4 \in 1..8
      /\ 5 \in 1..8 /\ 6 \in 1..8 /\ 7 \in 1..8 /\ 8 \in 1..8
  OBVIOUS
<1>4. Ranked \in Nat
  BY <1>1, <1>3 DEF Ranked
<1>5. Ranked' = Ranked + Rank(to) - Rank(from)
  BY <1>1, <1>2, <1>3 DEF Ranked, Rank
<1>6. QED
  BY <1>4, <1>5

(* The parts of Work. *)
Open == IF jobs = "open" THEN 1 ELSE 0
Present == IF left THEN 0 ELSE 1

WorkAdds ==
  /\ Work = 8 * Len(todo) + Ranked + Open + Present
  /\ Len(todo) \in Nat /\ Ranked \in Nat /\ Open \in 0..1 /\ Present \in 0..1

LEMMA WorkParts == Typed => WorkAdds
<1> SUFFICES ASSUME Typed PROVE WorkAdds
  OBVIOUS
<1>1. Len(todo) \in Nat /\ Open \in 0..1 /\ Present \in 0..1
  BY DEF Typed, Open, Present
<1>2. /\ AtLevel(1) \in Nat /\ AtLevel(2) \in Nat /\ AtLevel(3) \in Nat /\ AtLevel(4) \in Nat
      /\ AtLevel(5) \in Nat /\ AtLevel(6) \in Nat /\ AtLevel(7) \in Nat /\ AtLevel(8) \in Nat
  BY LevelIsCount
<1>3. Ranked \in Nat
  BY <1>2 DEF Ranked
<1>4. Work = 8 * Len(todo) + Ranked + Open + Present
  BY DEF Work, Open, Present
<1>5. QED
  BY <1>1, <1>3, <1>4 DEF WorkAdds

LEMMA WorkShrinks ==
  ASSUME IInv, IInv', [Next]_vars, ~UNCHANGED vars, phase = "running", phase' = "running"
  PROVE  Work' < Work
<1>0. Typed /\ Typed'
  BY DEF IInv
<1>1. /\ Work = 8 * Len(todo) + Ranked + Open + Present
      /\ Len(todo) \in Nat /\ Ranked \in Nat /\ Open \in 0..1 /\ Present \in 0..1
  BY <1>0, WorkParts DEF WorkAdds
<1>2. Work' = 8 * Len(todo') + Ranked' + Open' + Present' /\ Ranked' \in Nat
  <2>1. WorkAdds'
    BY <1>0, WorkParts, PTL
  <2>2. QED
    BY <2>1 DEF WorkAdds
<1>3. ASSUME NEW w \in Worker, Send(w) PROVE Work' < Work
  <2>1. PICK to \in {"dial", "sem"} : Goto(w, "jobs", to)
    BY <1>3 DEF Send
  <2>2. Ranked' = Ranked + Rank(to) - 1 /\ Rank(to) \in {7, 8}
    BY <1>0, <2>1, RankMoves, Ranking
  <2>3. Len(todo') = Len(todo) - 1
    BY <1>0, <1>3 DEF Send, Typed
  <2>4. Open' = Open /\ Present' = Present
    BY <1>3 DEF Send, Open, Present
  <2>5. 8 * Len(todo') = 8 * Len(todo) - 8
    BY <1>1, <2>3
  <2>6. Ranked' <= Ranked + 7
    BY <1>1, <2>2
  <2>7. QED
    BY <1>1, <1>2, <2>4, <2>5, <2>6
<1>4. ASSUME NEW w \in Worker, WorkerStep(w) PROVE Work' < Work
  <2>1. UNCHANGED <<todo, jobs, left>>
    BY <1>4 DEF WorkerStep, WorkerLeaves, DialWorks, DialFails, Refuse, Acquire, AcquireCancelled,
                TakeDevice, Launch, LaunchFails, Verdict, End, Collect
  <2>2. PICK step \in { <<"jobs", "gone">>, <<"dial", "sem">>, <<"dial", "result">>,
                        <<"sem", "device">>, <<"sem", "result">>, <<"device", "launch">>,
                        <<"launch", "probe">>, <<"launch", "result">>, <<"probe", "end">>,
                        <<"end", "result">>, <<"result", "jobs">> } :
          Goto(w, step[1], step[2])
    BY <1>4 DEF WorkerStep, WorkerLeaves, DialWorks, DialFails, Refuse, Acquire, AcquireCancelled,
                TakeDevice, Launch, LaunchFails, Verdict, End, Collect
  <2>3. Rank(step[1]) \in Nat /\ Rank(step[2]) \in Nat /\ Rank(step[2]) < Rank(step[1])
    BY Ranking
  <2>4. Ranked' = Ranked + Rank(step[2]) - Rank(step[1])
    BY <1>0, <2>2, RankMoves
  <2>5. Open' = Open /\ Present' = Present /\ Len(todo') = Len(todo)
    BY <2>1 DEF Open, Present
  <2>6. Ranked' < Ranked
    BY <1>1, <2>3, <2>4
  <2>7. Ranked' \in Nat
    BY <1>2
  <2>8. QED
    BY <1>1, <1>2, <2>5, <2>6, <2>7
<1>5. CASE CloseJobs
  <2>1. Open' = 0 /\ Open = 1
    BY <1>5 DEF CloseJobs, Open
  <2>2. Present' = Present /\ todo' = todo /\ Ranked' = Ranked
    BY <1>5 DEF CloseJobs, workerVars, Present, Ranked, AtLevel
  <2>3. QED
    BY <1>1, <1>2, <2>1, <2>2
<1>6. CASE CallerLeaves
  <2>1. Present' = 0 /\ Present = 1
    BY <1>6 DEF CallerLeaves, Present
  <2>2. Open' = Open /\ todo' = todo /\ Ranked' = Ranked
    BY <1>6 DEF CallerLeaves, workerVars, Open, Ranked, AtLevel
  <2>3. QED
    BY <1>1, <1>2, <2>1, <2>2
<1>7. QED
  BY <1>3, <1>4, <1>5, <1>6 DEF Next, Begin, Finish

(* Theorem: a batch takes no more steps than Work says at its begin: eight *)
(* for each node, and one for each worker, the producer and the caller.    *)
THEOREM BatchesShrink == Spec => BatchShrinks
<1>1. IInv /\ IInv' /\ [Next]_vars => [phase = "running" /\ phase' = "running" => Work' < Work]_vars
  BY WorkShrinks
<1>2. QED
  BY <1>1, Invariance, PTL DEF Spec, BatchShrinks
=============================================================================
