------------------------------ MODULE PyFetch ------------------------------
(***************************************************************************)
(* How the Python service gets the list of nodes: fetch_candidates with    *)
(* its ladder of downloads, the upstream proxy and the direct way of each, *)
(* diagnose_api_failure when all fail, and check_and_fix_dns after it.     *)
(* One thread, round after round; the network changes at any moment.       *)
(*                                                                         *)
(* A text is the sequence of its rows.  A row has an address and is a      *)
(* usable "node", has an "empty" configuration, or a "bad" one, which      *)
(* decode_config raises on.  A page that is no list is a text of no rows.  *)
(***************************************************************************)
EXTENDS Naturals, Sequences, SequencesExt

CONSTANTS
  Ip,         \* addresses of nodes
  Texts,      \* what the API may answer
  Settings,   \* values of the proxy variables of the environment
  Networks,   \* conditions of the network
  MaxRows     \* MAX_SCAN_ROWS

RowKind == {"node", "empty", "bad"}
Row == [ip: Ip, kind: RowKind]

\* OPENVPN_UPSTREAM_SOCKS, OPENVPN_UPSTREAM_HTTP, and the four standard
\* names; "bare" is a host alone, "odd" is of another form, "badport" has a
\* port that is no number.
Setting == [socks: {"unset", "good", "bare", "odd", "badport"},
            http:  {"unset", "good", "bare", "odd", "badport"},
            std:   {"unset", "good", "bare", "odd", "badport"}]

\* resolver: some other name resolves; domain: the API's name does; route:
\* a UDP socket finds a route; internet: a public address answers; api: the
\* API's does; tls: of its certificate and handshake; plain: port 80 answers;
\* proxy: of the upstream proxy, which may be down, refuse (its handshake, its
\* CONNECT, another status than 200), close half way ("cut") or work.
Network == [resolver: BOOLEAN, domain: BOOLEAN, route: BOOLEAN, internet: BOOLEAN, api: BOOLEAN,
            tls: {"ok", "badcert", "blocked"}, plain: BOOLEAN,
            proxy: {"down", "refuses", "cut", "works"}]

ASSUME RowsAssumption == MaxRows \in Nat \ {0}
ASSUME TextsAssumption == Texts \subseteq Seq(Row)
ASSUME WorldAssumption == Settings \subseteq Setting /\ Networks \subseteq Network

VARIABLES
  net, text, setting,    \* the network, the API's answer, the environment
  cached,                \* whether nodes.json holds nodes
  pc, target, attempt,
  rows, next,            \* the rows of a download and the next of them
  got,                   \* candidates: their addresses, in order
  resolved,              \* dns_ok of diagnose_api_failure
  code,                  \* last_fetch_error_code, 0 before the first
  named,       \* whether resolv.conf names a public server
  steady                 \* history: the world has not changed in this round

world == <<net, text, setting>>
place == <<pc, target, attempt, rows, next, got>>
vars  == <<world, cached, place, resolved, code, named, steady>>

Labels == {"idle", "try", "rows", "ok", "d_others", "d_domain", "d_api", "d_out", "failed", "f_check", "f_route", "f_file"}
Codes == {0} \cup 1006..1010
-----------------------------------------------------------------------------
\* attempts_targets; with a list in nodes.json each is tried once.
Targets == << [tls |-> TRUE, verify |-> TRUE], [tls |-> TRUE, verify |-> FALSE], [tls |-> FALSE, verify |-> TRUE] >>
Attempts == IF cached THEN 1 ELSE 2

\* get_upstream_proxy
Usable(v) == v \in {"good", "bare"}
Settled(v) == Usable(v) \/ v = "badport"
Upstream ==
  CASE Settled(setting.socks) -> IF Usable(setting.socks) THEN "proxy" ELSE "raises"
    [] ~Settled(setting.socks) /\ Settled(setting.http) -> IF Usable(setting.http) THEN "proxy" ELSE "raises"
    [] OTHER -> CASE setting.std = "good" -> "proxy"
                  [] setting.std = "badport" -> "raises"
                  [] OTHER -> "none"

\* TLS, once connected; a block of the handshake meets the direct way only.
Handshake(t, direct) ==
  t.tls => CASE net.tls = "ok" -> TRUE
             [] net.tls = "badcert" -> ~t.verify
             [] net.tls = "blocked" -> ~direct

\* fetch_api_text_via_proxy: the proxy resolves the name and connects.  What
\* has arrived when the proxy closes is taken for the whole.
ViaProxy(t) == net.proxy \in {"works", "cut"} /\ Handshake(t, FALSE)

\* urlopen, which takes a standard variable for its own proxy.
Direct(t) ==
  IF setting.std = "good" THEN net.proxy = "works" /\ Handshake(t, FALSE)
  ELSE net.domain /\ net.api /\ Handshake(t, TRUE) /\ (t.tls \/ net.plain)

\* The bug of a proxy that excludes the direct way.
DownloadsOneWay(t) == IF Upstream = "none" THEN Direct(t) ELSE Upstream = "proxy" /\ ViaProxy(t)

\* fetch_api_text: an exception of get_upstream_proxy is not caught.
Downloads(t) ==
  CASE Upstream = "raises" -> FALSE
    [] Upstream = "proxy" -> ViaProxy(t) \/ Direct(t)
    [] OTHER -> Direct(t)

Cut == Upstream = "proxy" /\ net.proxy = "cut"
Received == IF Cut THEN { SubSeq(text, 1, k) : k \in 0..Len(text) } ELSE {text}
Scanned(list) == SubSeq(list, 1, IF Len(list) > MaxRows THEN MaxRows ELSE Len(list))
-----------------------------------------------------------------------------
\* Locals are gone once a round is over.
Return ==
  /\ pc' = "idle"
  /\ target' = 1
  /\ attempt' = 1
  /\ rows' = <<>> /\ next' = 1
  /\ got' = <<>>
  /\ resolved' = FALSE

Stay == UNCHANGED <<target, attempt, rows, next, got, resolved>>
GoOn(l) == pc' = l /\ Stay

Init ==
  /\ net \in Networks
  /\ text \in Texts
  /\ setting \in Settings
  /\ cached \in BOOLEAN
  /\ pc = "idle"
  /\ target = 1
  /\ attempt = 1
  /\ rows = <<>> /\ next = 1
  /\ got = <<>>
  /\ resolved = FALSE
  /\ code = 0
  /\ named \in BOOLEAN
  /\ steady = TRUE

Fetch ==
  /\ pc = "idle"
  /\ GoOn("try")
  /\ steady' = TRUE
  /\ UNCHANGED <<world, cached, code, named>>

\* The bug of a loop that runs once too often.
AfterOneMore ==
  /\ rows' = <<>> /\ next' = 1
  /\ IF attempt <= Attempts THEN pc' = "try" /\ attempt' = attempt + 1 /\ UNCHANGED target
     ELSE IF got # <<>> THEN pc' = "ok" /\ UNCHANGED <<target, attempt>>
     ELSE IF target < Len(Targets) THEN pc' = "try" /\ target' = target + 1 /\ attempt' = 1
     ELSE pc' = "d_others" /\ UNCHANGED <<target, attempt>>

\* A try that does not end the fetch: its next attempt, or the next target,
\* unless this target has given candidates after all.
After ==
  /\ rows' = <<>> /\ next' = 1
  /\ IF attempt < Attempts THEN pc' = "try" /\ attempt' = attempt + 1 /\ UNCHANGED target
     ELSE IF got # <<>> THEN pc' = "ok" /\ UNCHANGED <<target, attempt>>
     ELSE IF target < Len(Targets) THEN pc' = "try" /\ target' = target + 1 /\ attempt' = 1
     ELSE pc' = "d_others" /\ UNCHANGED <<target, attempt>>

TryFails ==
  /\ pc = "try"
  /\ ~Downloads(Targets[target])
  /\ After
  /\ UNCHANGED <<world, cached, got, resolved, code, named, steady>>

Download ==
  /\ pc = "try"
  /\ Downloads(Targets[target])
  /\ pc' = "rows"
  /\ \E received \in Received : rows' = Scanned(received)
  /\ next' = 1
  /\ UNCHANGED <<world, cached, target, attempt, got, resolved, code, named, steady>>

\* The loop over the rows, one row a step.
AtRow == pc = "rows" /\ next <= Len(rows)

Skips == rows[next].kind = "empty" \/ rows[next].ip \in ToSet(got)

\* The bug of a break where the code continues.
SkipRowBreaks ==
  /\ AtRow /\ Skips
  /\ next' = Len(rows) + 1
  /\ UNCHANGED <<world, cached, pc, target, attempt, rows, got, resolved, code, named, steady>>

SkipRow ==
  /\ AtRow /\ Skips
  /\ next' = next + 1
  /\ UNCHANGED <<world, cached, pc, target, attempt, rows, got, resolved, code, named, steady>>

TakeRow ==
  /\ AtRow /\ ~Skips /\ rows[next].kind = "node"
  /\ got' = Append(got, rows[next].ip)
  /\ next' = next + 1
  /\ UNCHANGED <<world, cached, pc, target, attempt, rows, resolved, code, named, steady>>

\* decode_config raises; the candidates taken so far stay.
RowRaises ==
  /\ AtRow /\ ~Skips /\ rows[next].kind = "bad"
  /\ After
  /\ UNCHANGED <<world, cached, got, resolved, code, named, steady>>

RowsEnd ==
  /\ pc = "rows" /\ next > Len(rows)
  /\ IF got # <<>>
       THEN pc' = "ok" /\ rows' = <<>> /\ next' = 1 /\ UNCHANGED <<target, attempt>>
       ELSE After
  /\ UNCHANGED <<world, cached, got, resolved, code, named, steady>>

\* maintain_valid_nodes writes the candidates to nodes.json.
Succeed ==
  /\ pc = "ok"
  /\ Return
  /\ cached' = TRUE
  /\ UNCHANGED <<world, code, named, steady>>
-----------------------------------------------------------------------------
(* diagnose_api_failure: each probe sees the network of its own moment.    *)
DiagnoseOthers ==
  /\ pc = "d_others"
  /\ resolved' = net.resolver
  /\ pc' = "d_domain"
  /\ UNCHANGED <<world, cached, target, attempt, rows, next, got, code, named, steady>>

\* The code is stored and RuntimeError raised.
Report(c) == code' = c /\ GoOn("failed")

DiagnoseDomain ==
  /\ pc = "d_domain"
  /\ IF net.domain THEN GoOn("d_api") /\ UNCHANGED code
     ELSE Report(IF resolved THEN 1007 ELSE 1006)
  /\ UNCHANGED <<world, cached, named, steady>>

\* The bug of a verdict without the last probe.
DiagnoseApiOnly ==
  /\ pc = "d_api"
  /\ Report(IF net.api THEN 1010 ELSE 1008)
  /\ UNCHANGED <<world, cached, named, steady>>

DiagnoseApi ==
  /\ pc = "d_api"
  /\ IF net.api THEN Report(1010) ELSE GoOn("d_out") /\ UNCHANGED code
  /\ UNCHANGED <<world, cached, named, steady>>

DiagnoseOut ==
  /\ pc = "d_out"
  /\ Report(IF net.internet THEN 1008 ELSE 1009)
  /\ UNCHANGED <<world, cached, named, steady>>
-----------------------------------------------------------------------------
(* check_and_fix_dns, called by maintain_valid_nodes for the exception.    *)
FixCheck ==
  /\ pc = "failed"
  /\ IF net.domain THEN Return ELSE GoOn("f_route")
  /\ UNCHANGED <<world, cached, code, named, steady>>

FixRoute ==
  /\ pc = "f_route"
  /\ IF net.route THEN GoOn("f_file") ELSE Return
  /\ UNCHANGED <<world, cached, code, named, steady>>

\* resolv.conf is missing or cannot be written, or gets its two name servers.
FixFile ==
  /\ pc = "f_file"
  /\ Return
  /\ \/ UNCHANGED named
     \/ ~named /\ named' = TRUE
  /\ UNCHANGED <<world, cached, code, steady>>
-----------------------------------------------------------------------------
\* The network is in another condition, or the API has another list.
Change ==
  /\ \/ net' \in Networks \ {net} /\ UNCHANGED text
     \/ text' \in Texts \ {text} /\ UNCHANGED net
  /\ steady' = FALSE
  /\ UNCHANGED <<setting, cached, place, resolved, code, named>>

Step ==
  \/ Fetch \/ TryFails \/ Download \/ SkipRow \/ TakeRow \/ RowRaises \/ RowsEnd \/ Succeed
  \/ DiagnoseOthers \/ DiagnoseDomain \/ DiagnoseApi \/ DiagnoseOut
  \/ FixCheck \/ FixRoute \/ FixFile

Next == Step \/ Change

Spec == Init /\ [][Next]_vars
=============================================================================
