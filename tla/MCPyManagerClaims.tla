-------------------------- MODULE MCPyManagerClaims --------------------------
(* The Python service in fixed_ip mode, for TLC. *)
EXTENDS PyManagerClaims
=============================================================================
