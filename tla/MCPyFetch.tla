------------------------------ MODULE MCPyFetch ------------------------------
(* Values of the constants of PyFetchProps for TLC. *)
EXTENDS PyFetchProps

CONSTANTS a, b

Node(ip) == [ip |-> ip, kind |-> "node"]
Bad(ip) == [ip |-> ip, kind |-> "bad"]
Empty(ip) == [ip |-> ip, kind |-> "empty"]

\* No list at all, an empty row between two, a double address before a row that
\* raises, that row first, and a row too many.
MCTexts ==
  { <<>>, <<Node(a), Empty(b), Node(b)>>, <<Node(a), Node(a), Bad(b)>>, <<Bad(b), Node(b)>>,
    <<Node(b), Node(b), Node(b), Bad(a)>> }

MCSettings ==
  { [socks |-> "unset", http |-> "unset", std |-> "unset"],
    [socks |-> "odd", http |-> "bare", std |-> "unset"],
    [socks |-> "unset", http |-> "odd", std |-> "good"],
    [socks |-> "unset", http |-> "badport", std |-> "good"] }

\* Nothing wrong, and what the diagnosis tells apart, with a proxy or not.
Fine == [resolver |-> TRUE, domain |-> TRUE, route |-> TRUE, internet |-> TRUE, api |-> TRUE,
         tls |-> "ok", plain |-> TRUE, proxy |-> "down"]
Down == [Fine EXCEPT !.api = FALSE, !.plain = FALSE]
MCNetworks ==
  LET Kinds == { Fine, [Fine EXCEPT !.tls = "badcert"], [Fine EXCEPT !.tls = "blocked"],
                 [Fine EXCEPT !.tls = "blocked", !.plain = FALSE], Down, [Down EXCEPT !.internet = FALSE],
                 [Fine EXCEPT !.domain = FALSE], [Fine EXCEPT !.domain = FALSE, !.resolver = FALSE],
                 [Down EXCEPT !.internet = FALSE, !.domain = FALSE, !.resolver = FALSE, !.route = FALSE] }
  IN Kinds \cup { [n EXCEPT !.proxy = "works"] : n \in Kinds }
           \cup { [Fine EXCEPT !.proxy = p] : p \in {"cut", "refuses"} }
=============================================================================
