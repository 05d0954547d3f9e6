--------------------------- MODULE MCPyNodeTests ---------------------------
(* Values of the constants of PyNodeTestsProps for TLC. *)
EXTENDS PyNodeTestsProps

\* The list with all nodes, and with the good ones only.
Lists == {Node, Good}
=============================================================================
