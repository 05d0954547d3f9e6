------------------------------ MODULE MCPyProxy ------------------------------
(* Values of the constants of PyProxyProps for TLC. *)
EXTENDS PyProxyProps

FromTheClient == <<"c1", "c2", "c3">>
FromTheDest == <<"d1", "d2", "d3">>
=============================================================================
