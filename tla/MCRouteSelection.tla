-------------------------- MODULE MCRouteSelection --------------------------
(* Values of the constants of RouteSelectionLoop for TLC: three nodes, two *)
(* of them in one country.                                                 *)
EXTENDS RouteSelectionLoop

CONSTANTS n1, n2, n3, c1, c2

Nodes == {n1, n2, n3}
Countries == {c1, c2}
TwoAndOne == [n \in Node |-> IF n = n3 THEN c2 ELSE c1]
Pings == [n \in Node |-> 1]
=============================================================================
