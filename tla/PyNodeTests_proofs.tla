------------------------- MODULE PyNodeTests_proofs -------------------------
(***************************************************************************)
(* Proofs about concurrent node tests, for any nodes, any number of single *)
(* tests and batches at once, and any number of devices.                   *)
(***************************************************************************)
EXTENDS PyNodeTestsProps, WellFoundedInduction, TLAPS

(* A running test has a device, which is reserved unless it is the last.   *)
DevicesAccounted ==
  \A w \in Running : dev[w] \in Devices /\ (dev[w] \in reserved \/ dev[w] = Last)

(* A test that is over has a result. *)
ResultsThere ==
  \A w \in Worker : pc[w] \in {"unlink", "look", "store", "done"} => result[w] # "none"

(* A worker whose file has gone since it wrote it has been disturbed. *)
FilesThere ==
  \A w \in Worker : pc[w] = "launch" /\ w[2] \notin file => w \in disturbed

(* A worker belongs to a call in progress, and test_node_by_id has one. *)
SlotsAccounted ==
  /\ \A w \in Worker : pc[w] # "none" => w[1] \in busy
  /\ \A v, w \in Worker :
       v[1] \in Single /\ v[1] = w[1] /\ pc[v] # "none" /\ pc[w] # "none" => v = w

(* The inductive invariant. *)
IInv ==
  /\ TypeOK /\ SlotsAccounted /\ DevicesAccounted /\ ResultsThere /\ FilesThere
  /\ OnlyLastIsShared /\ NoDeviceLeaks /\ BadResultHasCause

(* A set of numbers that is not empty has a least one.                     *)
LEMMA LeastNumber ==
  ASSUME NEW S \in SUBSET Nat, S # {}
  PROVE  \E m \in S : \A j \in S : m <= j
<1> DEFINE R == OpToRel(<, Nat)
<1>1. PICK m \in S : \A j \in S : <<j, m>> \notin R
  BY NatLessThanWellFounded, WFMin
<1>2. \A j \in S : ~ (j < m)
  BY <1>1 DEF OpToRel
<1>3. QED
  BY <1>2

(* get_free_test_index gives a device of the pool that nobody has, or the  *)
(* last one.                                                               *)
LEMMA FreeIndexType ==
  FreeIndex \in Devices /\ (FreeIndex \notin reserved \/ FreeIndex = Last)
<1> DEFINE free == Devices \ reserved
<1>1. Last \in Devices /\ Devices \subseteq Nat
  BY LastAssumption DEF Devices
<1>2. CASE free = {}
  BY <1>1, <1>2 DEF FreeIndex
<1>3. CASE free # {}
  <2>1. \E d \in free : \A e \in free : d <= e
    BY <1>1, <1>3, LeastNumber
  <2>2. FreeIndex \in free
    BY <1>3, <2>1 DEF FreeIndex
  <2>3. QED
    BY <2>2
<1>4. QED
  BY <1>2, <1>3
-----------------------------------------------------------------------------
(* The service starts without tests.                                       *)
LEMMA InitInv == Init => IInv
<1> SUFFICES ASSUME Init PROVE IInv
  OBVIOUS
<1>1. TypeOK
  BY DEF Init, TypeOK, Status, Stages, Result
<1>2. Running = {}
  BY DEF Init, Running
<1>3. SlotsAccounted /\ DevicesAccounted /\ ResultsThere /\ FilesThere
  BY <1>2 DEF Init, SlotsAccounted, DevicesAccounted, ResultsThere, FilesThere
<1>4. OnlyLastIsShared /\ NoDeviceLeaks /\ BadResultHasCause
  BY <1>2 DEF Init, OnlyLastIsShared, NoDeviceLeaks, BadResultHasCause
<1>5. QED
  BY <1>1, <1>3, <1>4 DEF IInv

(* No step leaves the declared values; in particular a result goes to      *)
(* nodes.json only when there is one.                                      *)
LEMMA TypeStep == IInv /\ [Next]_vars => TypeOK'
<1> SUFFICES ASSUME IInv, [Next]_vars PROVE TypeOK'
  OBVIOUS
<1> USE DEF TypeOK, vars, shared, Stages, Result, Status
<1>0. TypeOK /\ ResultsThere
  BY DEF IInv
<1>1. ASSUME NEW w \in Worker PROVE w[1] \in Request /\ w[2] \in Node
  BY DEF Worker
<1>a. ASSUME NEW w \in Worker, WriteConfig(w) \/ WriteFails(w) PROVE TypeOK'
  BY <1>0, <1>1, <1>a DEF WriteConfig, WriteFails
<1>b. ASSUME NEW w \in Worker, Launch(w) PROVE TypeOK'
  <2>1. reserved' \in SUBSET Devices /\ dev' \in [Worker -> Devices \cup {None}]
    BY <1>0, <1>b, FreeIndexType DEF Launch
  <2>2. QED
    BY <1>0, <1>b, <2>1 DEF Launch
<1>c. ASSUME NEW w \in Worker, Finish(w) PROVE TypeOK'
  BY <1>0, <1>c DEF Finish
<1>d. ASSUME NEW w \in Worker, Unlink(w) PROVE TypeOK'
  BY <1>0, <1>d DEF Unlink, NeedFile
<1>e. ASSUME NEW w \in Worker, CacheHit(w) \/ CacheQuery(w) PROVE TypeOK'
  BY <1>0, <1>e DEF CacheHit, CacheQuery
<1>f. ASSUME NEW w \in Worker, CacheStore(w) PROVE TypeOK'
  BY <1>0, <1>1, <1>f DEF CacheStore
<1>g. ASSUME NEW r \in Single, NEW n \in Node, StartSingle(r, n) PROVE TypeOK'
  BY <1>0, <1>g DEF StartSingle, Request
<1>h. ASSUME NEW r \in Batch, StartBatch(r) PROVE TypeOK'
  BY <1>0, <1>h DEF StartBatch, Request
<1>i. ASSUME NEW r \in Request, Save(r) PROVE TypeOK'
  <2>1. ASSUME NEW n \in Node, <<r, n>> \in Tests(r) PROVE result[<<r, n>>] \in Status
    <3>1. <<r, n>> \in Worker /\ pc[<<r, n>>] = "done"
      BY <1>i, <2>1 DEF Save, Tests
    <3>2. QED
      BY <1>0, <3>1 DEF ResultsThere
  <2>2. nodes' \in [Node -> Status]
    BY <1>0, <1>i, <2>1 DEF Save
  <2>3. QED
    BY <1>0, <1>i, <2>2 DEF Save
<1>j. CASE Merge
  BY <1>0, <1>j, FetchedAssumption DEF Merge
<1>k. CASE StopActive
  BY <1>0, <1>k DEF StopActive, Running, NeedFile
<1>l. CASE Expire
  BY <1>0, <1>l DEF Expire
<1>m. CASE UNCHANGED vars
  BY <1>0, <1>m
<1>n. QED
  BY <1>a, <1>b, <1>c, <1>d, <1>e, <1>f, <1>g, <1>h, <1>i, <1>j, <1>k, <1>l, <1>m DEF Next, Test
-----------------------------------------------------------------------------
(* Workers start in calls that start, and end with them.                   *)
LEMMA SlotsStep == IInv /\ [Next]_vars => SlotsAccounted'
<1> SUFFICES ASSUME IInv, [Next]_vars PROVE SlotsAccounted'
  OBVIOUS
<1> USE DEF SlotsAccounted, vars, shared
<1>0. TypeOK /\ SlotsAccounted
  BY DEF IInv
<1>1. pc \in [Worker -> Stages]
  BY <1>0 DEF TypeOK
<1>2. \A r \in Request, n \in Node : <<r, n>> \in Worker
  BY DEF Worker
<1>a. ASSUME NEW w \in Worker, pc[w] # "none", pc' = [pc EXCEPT ![w] = pc'[w]], UNCHANGED busy
      PROVE  SlotsAccounted'
  BY <1>0, <1>1, <1>a
<1>b. ASSUME NEW w \in Worker, Test(w), ~WriteFails(w) PROVE SlotsAccounted'
  <2>1. pc[w] # "none" /\ UNCHANGED busy
    BY <1>b DEF Test, WriteConfig, Launch, Finish, Unlink, CacheHit, CacheQuery, CacheStore
  <2>2. pc' = [pc EXCEPT ![w] = pc'[w]]
    BY <1>1, <1>b DEF Test, WriteConfig, Launch, Finish, Unlink, CacheHit, CacheQuery, CacheStore
  <2>3. QED
    BY <1>a, <2>1, <2>2
<1>c. ASSUME NEW w \in Worker, WriteFails(w) PROVE SlotsAccounted'
  <2>1. CASE w[1] \in Single
    BY <1>0, <1>1, <1>c, <2>1 DEF WriteFails
  <2>2. CASE w[1] \notin Single
    BY <1>0, <1>1, <1>c, <2>2 DEF WriteFails
  <2>3. QED
    BY <2>1, <2>2
<1>d. ASSUME NEW r \in Single, NEW n \in Node, StartSingle(r, n) PROVE SlotsAccounted'
  <2>1. <<r, n>> \in Worker /\ <<r, n>>[1] = r
    BY <1>2 DEF Request
  <2>2. QED
    BY <1>0, <1>1, <1>d, <2>1 DEF StartSingle
<1>e. ASSUME NEW r \in Batch, StartBatch(r) PROVE SlotsAccounted'
  BY <1>0, <1>1, <1>e, SlotsAssumption DEF StartBatch
<1>f. ASSUME NEW r \in Request, Save(r) PROVE SlotsAccounted'
  BY <1>0, <1>1, <1>f DEF Save
<1>g. CASE Merge \/ StopActive \/ Expire \/ UNCHANGED vars
  BY <1>0, <1>g DEF Merge, StopActive, Expire
<1>h. QED
  BY <1>b, <1>c, <1>d, <1>e, <1>f, <1>g DEF Next

(* What a step may do to the devices of the pool: nothing, one test taking *)
(* a device, or one giving its own back.                                   *)
LEMMA DeviceUse ==
  ASSUME IInv, [Next]_vars
  PROVE  \/ UNCHANGED <<reserved, dev>> /\ Running' = Running
         \/ \E w \in Worker : Launch(w)
         \/ \E w \in Worker : Finish(w)
<1> USE DEF vars, shared, Running
<1>0. TypeOK /\ SlotsAccounted
  BY DEF IInv
<1>1. pc \in [Worker -> Stages]
  BY <1>0 DEF TypeOK
<1>2. ASSUME NEW r, r \notin busy
      PROVE  \A w \in Worker : w[1] = r => pc[w] = "none"
  BY <1>0, <1>2 DEF SlotsAccounted
<1>a. ASSUME NEW w \in Worker, WriteConfig(w) \/ WriteFails(w) \/ Unlink(w)
      PROVE  UNCHANGED <<reserved, dev>> /\ Running' = Running
  BY <1>1, <1>a DEF WriteConfig, WriteFails, Unlink
<1>b. ASSUME NEW w \in Worker, CacheHit(w) \/ CacheQuery(w) \/ CacheStore(w)
      PROVE  UNCHANGED <<reserved, dev>> /\ Running' = Running
  BY <1>1, <1>b DEF CacheHit, CacheQuery, CacheStore
<1>c. ASSUME NEW r \in Single, NEW n \in Node, StartSingle(r, n)
      PROVE  UNCHANGED <<reserved, dev>> /\ Running' = Running
  BY <1>1, <1>2, <1>c DEF StartSingle
<1>d. ASSUME NEW r \in Batch, StartBatch(r)
      PROVE  UNCHANGED <<reserved, dev>> /\ Running' = Running
  BY <1>1, <1>2, <1>d DEF StartBatch
<1>e. ASSUME NEW r \in Request, Save(r)
      PROVE  UNCHANGED <<reserved, dev>> /\ Running' = Running
  BY <1>1, <1>e DEF Save, Tests
<1>f. CASE Merge \/ StopActive \/ Expire \/ UNCHANGED vars
  BY <1>f DEF Merge, StopActive, Expire
<1>g. QED
  BY <1>a, <1>b, <1>c, <1>d, <1>e, <1>f DEF Next, Test

(* Taking a free device and giving one's own back keeps the others' apart. *)
LEMMA DevicesStep ==
  IInv /\ [Next]_vars => DevicesAccounted' /\ OnlyLastIsShared' /\ NoDeviceLeaks'
<1> SUFFICES ASSUME IInv, [Next]_vars
             PROVE  DevicesAccounted' /\ OnlyLastIsShared' /\ NoDeviceLeaks'
  OBVIOUS
<1> USE DEF DevicesAccounted, OnlyLastIsShared, NoDeviceLeaks
<1>0. /\ pc \in [Worker -> Stages] /\ dev \in [Worker -> Devices \cup {None}]
      /\ DevicesAccounted /\ OnlyLastIsShared /\ NoDeviceLeaks
  BY DEF IInv, TypeOK
<1>1. CASE UNCHANGED <<reserved, dev>> /\ Running' = Running
  BY <1>0, <1>1
<1>2. ASSUME NEW w \in Worker, Launch(w)
      PROVE  DevicesAccounted' /\ OnlyLastIsShared' /\ NoDeviceLeaks'
  <2> DEFINE d == FreeIndex
  <2>1. /\ reserved' = reserved \cup {d}
        /\ Running' = Running \cup {w} /\ w \notin Running
        /\ dev'[w] = d
        /\ \A v \in Worker : v # w => dev'[v] = dev[v]
    BY <1>0, <1>2 DEF Launch, Running
  <2>2. d \in Devices /\ (d \notin reserved \/ d = Last)
    BY FreeIndexType
  <2>3. Running \subseteq Worker
    BY DEF Running
  <2> HIDE DEF d
  <2>4. DevicesAccounted'
    BY <1>0, <2>1, <2>2, <2>3
  <2>5. OnlyLastIsShared'
    BY <1>0, <2>1, <2>2, <2>3
  <2>6. ASSUME NEW e \in reserved' PROVE \E v \in Running' : e = dev'[v]
    <3>1. CASE e = d
      BY <2>1, <3>1
    <3>2. CASE e # d
      <4>1. PICK v \in Running : e = dev[v]
        BY <1>0, <2>1, <2>6, <3>2
      <4>2. QED
        BY <2>1, <2>3, <4>1
    <3>3. QED
      BY <3>1, <3>2
  <2>7. QED
    BY <2>4, <2>5, <2>6
<1>3. ASSUME NEW w \in Worker, Finish(w)
      PROVE  DevicesAccounted' /\ OnlyLastIsShared' /\ NoDeviceLeaks'
  <2>1. /\ reserved' = reserved \ {dev[w]}
        /\ Running' = Running \ {w} /\ w \in Running
        /\ \A v \in Worker : v # w => dev'[v] = dev[v]
    BY <1>0, <1>3 DEF Finish, Running
  <2>2. Running \subseteq Worker
    BY DEF Running
  <2>3. DevicesAccounted'
    BY <1>0, <2>1, <2>2
  <2>4. OnlyLastIsShared'
    BY <1>0, <2>1, <2>2
  <2>5. ASSUME NEW e \in reserved' PROVE \E v \in Running' : e = dev'[v]
    <3>1. PICK v \in Running : e = dev[v]
      BY <1>0, <2>1, <2>5
    <3>2. QED
      BY <2>1, <2>2, <2>5, <3>1
  <2>6. QED
    BY <2>3, <2>4, <2>5
<1>4. QED
  BY <1>1, <1>2, <1>3, DeviceUse

(* A test passes by Finish, which gives it a result, and by nothing else.  *)
LEMMA ResultsStep == IInv /\ [Next]_vars => ResultsThere'
<1> SUFFICES ASSUME IInv, [Next]_vars PROVE ResultsThere'
  OBVIOUS
<1> USE DEF ResultsThere, vars, shared
<1>0. /\ pc \in [Worker -> Stages] /\ result \in [Worker -> Result]
      /\ ResultsThere
  BY DEF IInv, TypeOK
<1>a. ASSUME NEW w \in Worker, Test(w), UNCHANGED result PROVE ResultsThere'
  <2>1. pc' = pc \/ pc' = [pc EXCEPT ![w] = pc'[w]]
    BY <1>0, <1>a DEF Test, WriteConfig, WriteFails, Launch, Finish, Unlink, CacheHit, CacheQuery, CacheStore
  <2>2. \/ pc[w] \in {"unlink", "look", "store", "done"}
        \/ pc'[w] \in {"none", "launch", "run"}
        \/ Finish(w)
    BY <1>0, <1>a DEF Test, WriteConfig, WriteFails, Launch, Unlink, CacheHit, CacheQuery, CacheStore
  <2>3. CASE Finish(w)
    BY <1>0, <2>1, <2>3 DEF Finish, Result
  <2>4. QED
    BY <1>0, <1>a, <2>1, <2>2, <2>3
<1>b. ASSUME NEW w \in Worker, Launch(w) \/ Finish(w) PROVE ResultsThere'
  BY <1>0, <1>b DEF Launch, Finish
<1>c. ASSUME NEW r \in Single, NEW n \in Node, StartSingle(r, n) PROVE ResultsThere'
  BY <1>0, <1>c DEF StartSingle
<1>d. ASSUME NEW r \in Batch, StartBatch(r) PROVE ResultsThere'
  BY <1>0, <1>d DEF StartBatch
<1>e. ASSUME NEW r \in Request, Save(r) PROVE ResultsThere'
  BY <1>0, <1>e DEF Save
<1>f. CASE Merge \/ StopActive \/ Expire \/ UNCHANGED vars
  BY <1>0, <1>f DEF Merge, StopActive, Expire
<1>g. ASSUME NEW w \in Worker, Test(w) PROVE ResultsThere'
  BY <1>a, <1>b, <1>g
  DEF Test, WriteConfig, WriteFails, Unlink, CacheHit, CacheQuery, CacheStore
<1>h. QED
  BY <1>c, <1>d, <1>e, <1>f, <1>g DEF Next

(* Whatever makes a good node fail, or will, has left its mark.            *)
LEMMA CausesStep == IInv /\ [Next]_vars => FilesThere' /\ BadResultHasCause'
<1> SUFFICES ASSUME IInv, [Next]_vars PROVE FilesThere' /\ BadResultHasCause'
  OBVIOUS
<1> USE DEF FilesThere, BadResultHasCause, vars, shared
<1>0. /\ pc \in [Worker -> Stages] /\ result \in [Worker -> Result]
      /\ FilesThere /\ BadResultHasCause
  BY DEF IInv, TypeOK
<1>1. \A v, w \in Worker : v[2] = w[2] /\ pc[v] = "launch" => v \in NeedFile(w[2])
  BY DEF NeedFile
<1>a. ASSUME NEW w \in Worker, WriteConfig(w) PROVE FilesThere' /\ BadResultHasCause'
  BY <1>0, <1>a DEF WriteConfig
<1>b. ASSUME NEW w \in Worker, WriteFails(w) PROVE FilesThere' /\ BadResultHasCause'
  <2>1. CASE w[1] \in Single
    BY <1>0, <1>b, <2>1 DEF WriteFails
  <2>2. CASE w[1] \notin Single
    BY <1>0, <1>b, <2>2 DEF WriteFails
  <2>3. QED
    BY <2>1, <2>2
<1>c. ASSUME NEW w \in Worker, Launch(w) PROVE FilesThere' /\ BadResultHasCause'
  BY <1>0, <1>c DEF Launch
<1>d. ASSUME NEW w \in Worker, Finish(w) PROVE FilesThere' /\ BadResultHasCause'
  BY <1>0, <1>d DEF Finish
<1>e. ASSUME NEW w \in Worker, Unlink(w) PROVE FilesThere' /\ BadResultHasCause'
  BY <1>0, <1>1, <1>e DEF Unlink
<1>f. ASSUME NEW w \in Worker, CacheHit(w) \/ CacheQuery(w) \/ CacheStore(w)
      PROVE  FilesThere' /\ BadResultHasCause'
  BY <1>0, <1>f DEF CacheHit, CacheQuery, CacheStore
<1>g. ASSUME NEW r \in Single, NEW n \in Node, StartSingle(r, n)
      PROVE  FilesThere' /\ BadResultHasCause'
  BY <1>0, <1>g DEF StartSingle
<1>h. ASSUME NEW r \in Batch, StartBatch(r) PROVE FilesThere' /\ BadResultHasCause'
  BY <1>0, <1>h DEF StartBatch
<1>i. ASSUME NEW r \in Request, Save(r) PROVE FilesThere' /\ BadResultHasCause'
  BY <1>0, <1>i DEF Save
<1>j. CASE Merge \/ Expire \/ UNCHANGED vars
  BY <1>0, <1>j DEF Merge, Expire
<1>k. CASE StopActive
  <2>1. PICK gone \in SUBSET Node :
          /\ file' = file \ gone
          /\ disturbed' = disturbed \cup Running \cup UNION { NeedFile(n) : n \in gone }
    BY <1>k DEF StopActive
  <2>2. UNCHANGED pc
    BY <1>k DEF StopActive
  <2>3. FilesThere'
    BY <1>0, <2>1, <2>2 DEF NeedFile
  <2>4. BadResultHasCause'
    BY <1>0, <1>k, <2>1, <2>2 DEF StopActive, Running
  <2>5. QED
    BY <2>3, <2>4
<1>l. QED
  BY <1>a, <1>b, <1>c, <1>d, <1>e, <1>f, <1>g, <1>h, <1>i, <1>j, <1>k DEF Next, Test
-----------------------------------------------------------------------------
(* The invariant holds of every behaviour of the node tests.               *)
THEOREM Invariance == Spec => []IInv
<1>1. IInv /\ [Next]_vars => IInv'
  BY TypeStep, SlotsStep, DevicesStep, ResultsStep, CausesStep DEF IInv
<1>2. QED
  BY <1>1, InitInv, PTL DEF Spec

(* All variables keep to their declared values.                            *)
THEOREM TypeCorrect == Spec => []TypeOK
<1>1. IInv => TypeOK
  BY DEF IInv
<1>2. QED
  BY <1>1, Invariance, PTL

(* However many tests run, only the last device is ever used twice.        *)
THEOREM DevicesApart == Spec => []OnlyLastIsShared
<1>1. IInv => OnlyLastIsShared
  BY DEF IInv
<1>2. QED
  BY <1>1, Invariance, PTL

(* And no device stays reserved for a test that is over.                   *)
THEOREM DevicesComeBack == Spec => []NoDeviceLeaks
<1>1. IInv => NoDeviceLeaks
  BY DEF IInv
<1>2. QED
  BY <1>1, Invariance, PTL

(* A good node is reported unavailable only after an interference.         *)
THEOREM BadResultsExplained == Spec => []BadResultHasCause
<1>1. IInv => BadResultHasCause
  BY DEF IInv
<1>2. QED
  BY <1>1, Invariance, PTL

(* enrich_ip_info never saves a cache that lacks what another save added.  *)
THEOREM CacheGrows == Spec => CacheNeverForgets
<1>1. [Next]_vars => [cache \subseteq cache']_vars
  BY DEF Next, Test, vars, shared, WriteConfig, WriteFails, Launch, Finish, Unlink, CacheHit,
    CacheQuery, CacheStore, StartSingle, StartBatch, Save, Merge, StopActive, Expire
<1>2. QED
  BY <1>1, PTL DEF Spec, CacheNeverForgets
=============================================================================
