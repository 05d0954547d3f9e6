------------------------------- MODULE MCPyWeb -------------------------------
(* Values of the constants of PyWebProps for TLC. *)
EXTENDS PyWebProps

CONSTANTS p1, p2, s1, s2

First == [ports |-> p1, path |-> s1]

\* The first address, one with other ports and one with another path.
Addresses == {First, [ports |-> p2, path |-> s1], [ports |-> p1, path |-> s2]}
=============================================================================
