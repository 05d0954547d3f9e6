---------------------------- MODULE MCPyManager ----------------------------
(* Values of the constants of PyManagerProps for TLC. *)
EXTENDS PyManagerProps, TLC

\* Thread slots are interchangeable.
Symmetry == Permutations(Thread)
=============================================================================
