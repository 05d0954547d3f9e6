------------------------------ MODULE MCPyPage ------------------------------
(* The instance of PyPage that TLC checks. *)
EXTENDS PyPage
=============================================================================
