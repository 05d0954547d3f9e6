----------------------------- MODULE MCGateway -----------------------------
(* Values of the constants of GatewayProps for TLC. *)
EXTENDS GatewayProps, TLC

CONSTANTS c1

OneCountry == {c1}
SameCountry == [n \in Node |-> c1]
\* A start with a tested list and nobody pinned.
Unpinned == [mode: Mode, fixed: {None}, country: {None}]
SamePing == [n \in Node |-> 1]

\* Nodes with equal ping and country, and process slots, are interchangeable.
Symmetry == Permutations(Node) \cup Permutations(Proc)
=============================================================================
