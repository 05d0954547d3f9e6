----------------------------- MODULE PyNodeTests -----------------------------
(***************************************************************************)
(* Node tests of the Python service: test_node_by_id and test_multiple_    *)
(* nodes, run by HTTP requests and by maintain_valid_nodes at once, with   *)
(* what they share: nodes.json, one configuration file per node, the pool  *)
(* of tun devices and the cache of enrich_ip_info.                         *)
(*                                                                         *)
(* A request tests a set of nodes, one worker thread per node, written     *)
(* <<r, n>>.  A node's id stands for its address and its file.             *)
(*                                                                         *)
(* Not kept: latencies, messages, the enriched fields themselves; what the *)
(* network would say of a node does not change (Good).                     *)
(***************************************************************************)
EXTENDS Naturals, FiniteSets

CONSTANTS
  Node,       \* ids of nodes
  Single,     \* slots for calls of test_node_by_id
  Batch,      \* slots for calls of test_multiple_nodes
  Good,       \* the nodes an OpenVPN test completes with
  Fetched,    \* lists the API may give
  Last        \* the highest tun device for tests (99 in the source)

None == 0     \* no device
Devices == 2..Last
Request == Single \cup Batch
Worker == Request \X Node
Status == {"unlisted", "not_checked", "available", "unavailable"}
Result == {"none", "available", "unavailable"}

ASSUME SlotsAssumption == Single \cap Batch = {}
ASSUME GoodAssumption == Good \subseteq Node
ASSUME FetchedAssumption == Fetched \subseteq (SUBSET Node) \ {{}}
ASSUME LastAssumption == Last \in Nat /\ Last >= 2

VARIABLES
  nodes,      \* nodes.json: probe_status of each node
  file,       \* nodes whose configuration file exists
  reserved,   \* active_test_indexes
  cache, old, \* ip_cache.json: its addresses, and those past seven days
  pc, dev,    \* of each worker
  result,     \*   what it returns
  busy,       \* the slots in use
  disturbed   \* history: workers somebody else interfered with

shared == <<nodes, file, reserved, cache, old>>
vars == <<shared, pc, dev, result, busy, disturbed>>

Stages == {"none", "write", "launch", "run", "unlink", "look", "store", "done"}
-----------------------------------------------------------------------------
Tests(r) == { w \in Worker : w[1] = r /\ pc[w] # "none" }
Running == { w \in Worker : pc[w] = "run" }

\* Workers that have written the file of node n and not launched OpenVPN, which reads it.
NeedFile(n) == { x \in Worker : x[2] = n /\ pc[x] = "launch" }

Init ==
  /\ nodes = [n \in Node |-> "not_checked"]
  /\ file = {}
  /\ reserved = {}
  /\ cache = Node \ Good
  /\ old = {}
  /\ pc = [w \in Worker |-> "none"]
  /\ dev = [w \in Worker |-> None]
  /\ result = [w \in Worker |-> "none"]
  /\ busy = {}
  /\ disturbed = {}

\* A node that is not listed is an error to a single test and left out of a batch.
StartSingle(r, n) ==
  /\ r \notin busy
  /\ nodes[n] # "unlisted"
  /\ busy' = busy \cup {r}
  /\ pc' = [pc EXCEPT ![<<r, n>>] = "write"]
  /\ UNCHANGED <<shared, dev, result, disturbed>>

StartBatch(r) ==
  /\ r \notin busy
  /\ \E wanted \in SUBSET Node :
       LET listed == { n \in wanted : nodes[n] # "unlisted" }
       IN pc' = [w \in Worker |-> IF w[1] = r /\ w[2] \in listed THEN "write" ELSE pc[w]]
  /\ busy' = busy \cup {r}
  /\ UNCHANGED <<shared, dev, result, disturbed>>
-----------------------------------------------------------------------------
\* The file is written, or cannot be: a batch goes on without, a single test fails.
WriteConfig(w) ==
  /\ pc[w] = "write"
  /\ file' = file \cup {w[2]}
  /\ pc' = [pc EXCEPT ![w] = "launch"]
  /\ UNCHANGED <<nodes, reserved, cache, old, dev, result, busy, disturbed>>

WriteFails(w) ==
  /\ pc[w] = "write"
  /\ IF w[1] \in Single
       THEN /\ pc' = [pc EXCEPT ![w] = "none"]
            /\ busy' = busy \ {w[1]}
            /\ disturbed' = disturbed \ {w}
       ELSE /\ pc' = [pc EXCEPT ![w] = "launch"]
            /\ disturbed' = disturbed \cup {w}
            /\ UNCHANGED busy
  /\ UNCHANGED <<shared, dev, result>>

\* The bug of a pool that is one device short.
FreeIndexShort ==
  LET free == (Devices \ {Last}) \ reserved
  IN IF free = {} THEN 2 ELSE CHOOSE d \in free : \A e \in free : d <= e

\* get_free_test_index: the last device goes to everybody when none is free.
FreeIndex ==
  LET free == Devices \ reserved
  IN IF free = {} THEN Last ELSE CHOOSE d \in free : \A e \in free : d <= e

\* run_openvpn_until_ready: without its file, or with its device taken, OpenVPN ends.
Launch(w) ==
  /\ pc[w] = "launch"
  /\ LET d == FreeIndex
         others == { x \in Running : dev[x] = d }
         runs == w[2] \in file /\ others = {}
     IN /\ dev' = [dev EXCEPT ![w] = d]
        /\ reserved' = reserved \cup {d}
        /\ pc' = [pc EXCEPT ![w] = "run"]
        /\ result' = [result EXCEPT ![w] = IF runs THEN "none" ELSE "unavailable"]
        /\ disturbed' = IF others # {} THEN disturbed \cup {w} ELSE disturbed
  /\ UNCHANGED <<nodes, file, cache, old, busy>>

\* The bug of an index that is given back only after a success.
FinishLeaks(w) ==
  /\ pc[w] = "run"
  /\ result' = [result EXCEPT ![w] =
       IF @ = "none" THEN IF w[2] \in Good THEN "available" ELSE "unavailable" ELSE @]
  /\ reserved' = IF result'[w] = "available" THEN reserved \ {dev[w]} ELSE reserved
  /\ dev' = [dev EXCEPT ![w] = None]
  /\ pc' = [pc EXCEPT ![w] = "unlink"]
  /\ UNCHANGED <<nodes, file, cache, old, busy, disturbed>>

\* The process has been stopped; release_test_index.
Finish(w) ==
  /\ pc[w] = "run"
  /\ result' = [result EXCEPT ![w] =
       IF @ = "none" THEN IF w[2] \in Good THEN "available" ELSE "unavailable" ELSE @]
  /\ reserved' = reserved \ {dev[w]}
  /\ dev' = [dev EXCEPT ![w] = None]
  /\ pc' = [pc EXCEPT ![w] = "unlink"]
  /\ UNCHANGED <<nodes, file, cache, old, busy, disturbed>>

\* The bug of a test that cleans up the files of all.
UnlinkAll(w) ==
  /\ pc[w] = "unlink"
  /\ file' = {}
  /\ disturbed' = (disturbed \ {w}) \cup NeedFile(w[2])
  /\ pc' = [pc EXCEPT ![w] = IF result[w] = "available" THEN "look" ELSE "done"]
  /\ UNCHANGED <<nodes, reserved, cache, old, dev, result, busy>>

Unlink(w) ==
  /\ pc[w] = "unlink"
  /\ file' = file \ {w[2]}
  /\ disturbed' = (disturbed \ {w}) \cup NeedFile(w[2])
  /\ pc' = [pc EXCEPT ![w] = IF result[w] = "available" THEN "look" ELSE "done"]
  /\ UNCHANGED <<nodes, reserved, cache, old, dev, result, busy>>
-----------------------------------------------------------------------------
(* enrich_ip_info: an address that is not cached, or too long ago, is asked for. *)
CacheHit(w) ==
  /\ pc[w] = "look"
  /\ w[2] \in cache \ old
  /\ pc' = [pc EXCEPT ![w] = "done"]
  /\ UNCHANGED <<shared, dev, result, busy, disturbed>>

CacheQuery(w) ==
  /\ pc[w] = "look"
  /\ w[2] \notin cache \ old
  /\ \E answered \in BOOLEAN : pc' = [pc EXCEPT ![w] = IF answered THEN "store" ELSE "done"]
  /\ UNCHANGED <<shared, dev, result, busy, disturbed>>

\* The bug of saving the new entries alone.
CacheStoreNew(w) ==
  /\ pc[w] = "store"
  /\ cache' = {w[2]}
  /\ old' = {}
  /\ pc' = [pc EXCEPT ![w] = "done"]
  /\ UNCHANGED <<nodes, file, reserved, dev, result, busy, disturbed>>

\* Reloaded, updated and saved under ip_cache_lock.
CacheStore(w) ==
  /\ pc[w] = "store"
  /\ cache' = cache \cup {w[2]}
  /\ old' = old \ {w[2]}
  /\ pc' = [pc EXCEPT ![w] = "done"]
  /\ UNCHANGED <<nodes, file, reserved, dev, result, busy, disturbed>>
-----------------------------------------------------------------------------
\* The results of all workers go to the nodes that are still listed.
Save(r) ==
  /\ r \in busy
  /\ \A w \in Tests(r) : pc[w] = "done"
  /\ nodes' = [n \in Node |->
       IF <<r, n>> \in Tests(r) /\ nodes[n] # "unlisted" THEN result[<<r, n>>] ELSE nodes[n]]
  /\ pc' = [w \in Worker |-> IF w[1] = r THEN "none" ELSE pc[w]]
  /\ result' = [w \in Worker |-> IF w[1] = r THEN "none" ELSE result[w]]
  /\ busy' = busy \ {r}
  /\ UNCHANGED <<file, reserved, cache, old, dev, disturbed>>

\* maintain_valid_nodes: another list, whose files are written if missing.
Merge ==
  /\ \E fetched \in Fetched, kept \in SUBSET { n \in Node : nodes[n] # "unlisted" } :
       /\ Cardinality(kept) <= 1
       /\ nodes' = [n \in Node |-> IF n \in kept THEN nodes[n]
                                   ELSE IF n \in fetched THEN "not_checked" ELSE "unlisted"]
       /\ file' = file \cup fetched \cup kept
  /\ UNCHANGED <<reserved, cache, old, pc, dev, result, busy, disturbed>>

\* stop_active_openvpn: pkill ends the tests as well, and the file of the
\* node that was connected is removed, if there was one.
StopActive ==
  /\ \E gone \in SUBSET Node :
       /\ Cardinality(gone) <= 1
       /\ file' = file \ gone
       /\ disturbed' = disturbed \cup Running \cup UNION { NeedFile(n) : n \in gone }
  /\ result' = [w \in Worker |-> IF pc[w] = "run" THEN "unavailable" ELSE result[w]]
  /\ UNCHANGED <<nodes, reserved, cache, old, pc, dev, busy>>

\* Seven days later.
Expire ==
  /\ old # cache
  /\ old' = cache
  /\ UNCHANGED <<nodes, file, reserved, cache, pc, dev, result, busy, disturbed>>

Test(w) ==
  \/ WriteConfig(w) \/ WriteFails(w) \/ Launch(w) \/ Finish(w) \/ Unlink(w)
  \/ CacheHit(w) \/ CacheQuery(w) \/ CacheStore(w)

Next ==
  \/ \E w \in Worker : Test(w)
  \/ \E r \in Single, n \in Node : StartSingle(r, n)
  \/ \E r \in Batch : StartBatch(r)
  \/ \E r \in Request : Save(r)
  \/ Merge
  \/ StopActive
  \/ Expire

Spec == Init /\ [][Next]_vars
=============================================================================
