---------------------------- MODULE MCProbePool ----------------------------
(* Values of the constants of ProbePool for TLC. *)
EXTENDS ProbePool, SequencesExt

CONSTANTS n1, n2, n3, c1, MaxTarget

Nodes == {n1, n2, n3}
OneCountry == {c1}
SameCountry == [n \in Node |-> c1]
Pings == (n1 :> 2) @@ (n2 :> 1) @@ (n3 :> 1)
Tcp == {n2}

\* Lists in the order of the API and an order of TestNodes, with targets.
Lists == {<<>>, <<n1>>, <<n2, n3>>, <<n1, n2, n3>>}
Batches == [nodes: Lists, target: 0..MaxTarget]
=============================================================================
