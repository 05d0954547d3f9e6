------------------------------ MODULE VPNNodes ------------------------------
(***************************************************************************)
(* The node list of the Go service (App.nodes in internal/app/app.go).     *)
(*                                                                         *)
(* A list is a sequence of entries in the order the code keeps them.  An   *)
(* entry keeps of vpngate.Node what the control flow reads: the stable id, *)
(* whether ProbeStatus counts as available, and whether InvalidUntil lies  *)
(* in the future.  The country of a node is a function of its id, since    *)
(* StableID puts the country into the id.  Two rows with one id would be   *)
(* one host announced twice; lists are taken to have distinct ids.         *)
(***************************************************************************)
EXTENDS Naturals, Sequences, FiniteSets

CONSTANTS
  Node,        \* stable ids of the VPNGate hosts
  Country,     \* country codes
  CountryOf,   \* the country of each node
  Ping,        \* the announced ping of each node, the secondary sort key
  None         \* "no node", "no process", "no country", "nobody"

ASSUME NodesAssumption ==
  /\ None \notin Node
  /\ None \notin Country
  /\ CountryOf \in [Node -> Country]
  /\ Ping \in [Node -> Nat]

Entry == [id: Node, available: BOOLEAN, invalid: BOOLEAN]

NodeList == Seq(Entry)

DistinctIds(list) ==
  \A i, j \in DOMAIN list : list[i].id = list[j].id => i = j

Has(list, n) == \E i \in DOMAIN list : list[i].id = n

(* The comparator of CheckCandidatesWithProbe: available nodes first, then *)
(* by ping.  Equal pings keep the order in which the results arrived, so   *)
(* either order of them is a possible list.                                *)
Sorted(list) ==
  \A i, j \in DOMAIN list : i < j =>
    \/ list[i].available /\ ~list[j].available
    \/ /\ list[i].available = list[j].available
       /\ Ping[list[i].id] <= Ping[list[j].id]

(* What one refresh can produce: any set of the announced hosts (parsing,  *)
(* SelectCandidates and an early stop of the check may drop some), each    *)
(* with the verdict of its probe, and never a backoff, because the entries *)
(* are built from the API rows and not from the list they replace.         *)
RefreshedLists ==
  { list \in UNION { [1..k -> [id: Node, available: BOOLEAN, invalid: {FALSE}]]
                       : k \in 0..Cardinality(Node) } :
      DistinctIds(list) /\ Sorted(list) }

(* markNodeFailure: the entry becomes unavailable and its backoff starts;  *)
(* a node that is no longer listed is not marked.                          *)
MarkFailed(list, n) ==
  [i \in DOMAIN list |->
     IF list[i].id = n
     THEN [list[i] EXCEPT !.available = FALSE, !.invalid = TRUE]
     ELSE list[i]]

(* The backoff of node n runs out. *)
BackoffOver(list, n) ==
  [i \in DOMAIN list |->
     IF list[i].id = n THEN [list[i] EXCEPT !.invalid = FALSE] ELSE list[i]]

(* The merge at the end of TestNodes: every tested node that is still      *)
(* listed is replaced by the tested copy, its InvalidUntil included.       *)
MergeTested(list, tested) ==
  [i \in DOMAIN list |->
     IF \E e \in tested : e.id = list[i].id
     THEN CHOOSE e \in tested : e.id = list[i].id
     ELSE list[i]]
=============================================================================
