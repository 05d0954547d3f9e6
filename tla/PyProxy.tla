------------------------------- MODULE PyProxy -------------------------------
(***************************************************************************)
(* The Python service's local proxy, proxy_server.py: the listening socket *)
(* with its IPv4 fallback, and one connection from accept() to the end of  *)
(* its thread.  Connections share no state, so one stands for all.         *)
(*                                                                         *)
(* Client and destination send pieces of data in order, may end their side *)
(* of the connection, and may stop taking data (a send then fails).  A     *)
(* piece that has arrived can be received at once with the HTTP header,    *)
(* as "rest".                                                              *)
(*                                                                         *)
(* Not kept: the bytes of the protocols, the choice of the device tun0,    *)
(* whether the name was resolved through the tunnel or by the system.      *)
(***************************************************************************)
EXTENDS Naturals, Sequences

CONSTANTS
  Host,        \* the address to listen on
  ClientData,  \* what the client sends after its request
  DestData,    \* what the destination sends
  MaxAddress   \* addresses a name may have

ASSUME HostAssumption == Host \in {"::", "::1", "other"}
ASSUME MaxAddressAssumption == MaxAddress \in Nat
ASSUME DataAssumption == ClientData \in Seq(STRING) /\ DestData \in Seq(STRING)

VARIABLES
  server,             \* the listening socket
  pc, proto,          \* of the connection's thread
  hello, want,        \* what the client has sent first: a header or a SOCKS greeting, a SOCKS request
  cSent, cTaken,      \* pieces sent by the client and received by the proxy
  dSent, dTaken,      \* the same of the destination
  cEnd, dEnd,         \* who has ended its side
  client, upstream,   \* the sockets of the connection
  trial, addresses,   \* the socket of create_connection, and addresses still to try
  toClient, toDest,   \* everything the proxy has sent
  ending              \* history: why relay ended

ends == <<hello, want, cSent, dSent, cEnd, dEnd>>
flow == <<cTaken, dTaken, toClient, toDest>>
socks == <<client, upstream, trial>>
vars == <<server, pc, proto, ends, flow, socks, addresses, ending>>

Hello == {"none", "greeting", "connect", "get", "relative", "garbage"}
Want == {"none", "connect", "othercommand", "othertype"}
Own == {"method", "granted", "unreachable", "badcommand", "badtype", "established", "400", "502"}
Label == {"accept", "first", "request", "resolve", "dial", "connecting", "open", "relay", "failed", "close", "done"}
-----------------------------------------------------------------------------
Init ==
  /\ server = "none"
  /\ pc = "accept" /\ proto = "none"
  /\ hello = "none" /\ want = "none"
  /\ cSent = 0 /\ cTaken = 0 /\ dSent = 0 /\ dTaken = 0
  /\ cEnd = FALSE /\ dEnd = FALSE
  /\ client = "none" /\ upstream = "none" /\ trial = "none"
  /\ addresses = 0
  /\ toClient = <<>> /\ toDest = <<>>
  /\ ending = "none"

\* start_proxy_server: an IPv6 wildcard or loopback address falls back to IPv4.
Listen ==
  /\ server = "none"
  /\ server' \in {"listening", "off"} \cup (IF Host \in {"::", "::1"} THEN {"ipv4 only"} ELSE {})
  /\ UNCHANGED <<pc, proto, ends, flow, socks, addresses, ending>>

Accept ==
  /\ server \in {"listening", "ipv4 only"}
  /\ pc = "accept"
  /\ client' = "open"
  /\ pc' = "first"
  /\ UNCHANGED <<server, proto, ends, flow, upstream, trial, addresses, ending>>
-----------------------------------------------------------------------------
(* The two ends of the connection. *)
ClientHello ==
  /\ client = "open" /\ hello = "none" /\ ~cEnd
  /\ hello' \in Hello \ {"none"}
  /\ UNCHANGED <<server, pc, proto, want, cSent, dSent, cEnd, dEnd, flow, socks, addresses, ending>>

ClientWant ==
  /\ hello = "greeting" /\ want = "none" /\ ~cEnd
  /\ want' \in Want \ {"none"}
  /\ UNCHANGED <<server, pc, proto, hello, cSent, dSent, cEnd, dEnd, flow, socks, addresses, ending>>

\* An HTTP client need not wait for an answer before it goes on.
ClientSends ==
  /\ hello \in {"connect", "get"} \/ want = "connect"
  /\ ~cEnd /\ cSent < Len(ClientData)
  /\ cSent' = cSent + 1
  /\ UNCHANGED <<server, pc, proto, hello, want, dSent, cEnd, dEnd, flow, socks, addresses, ending>>

ClientEnds ==
  /\ client # "none" /\ ~cEnd
  /\ cEnd' = TRUE
  /\ UNCHANGED <<server, pc, proto, hello, want, cSent, dSent, dEnd, flow, socks, addresses, ending>>

DestSends ==
  /\ upstream # "none" /\ ~dEnd /\ dSent < Len(DestData)
  /\ dSent' = dSent + 1
  /\ UNCHANGED <<server, pc, proto, hello, want, cSent, cEnd, dEnd, flow, socks, addresses, ending>>

DestEnds ==
  /\ upstream # "none" /\ ~dEnd
  /\ dEnd' = TRUE
  /\ UNCHANGED <<server, pc, proto, hello, want, cSent, dSent, cEnd, flow, socks, addresses, ending>>
-----------------------------------------------------------------------------
Say(word) == toClient' = Append(toClient, word)

\* An exception: http_client says 502, if it can, in its except clause.
Raise == pc' = IF proto = "http" THEN "failed" ELSE "close"

First ==
  /\ pc = "first" /\ hello # "none"
  /\ IF hello = "greeting"
       THEN /\ proto' = "socks"
            /\ \/ Say("method") /\ pc' = "request"
               \/ UNCHANGED toClient /\ pc' = "close"
            /\ UNCHANGED cTaken
       ELSE /\ proto' = "http"
            /\ cTaken' \in 0..cSent
            /\ UNCHANGED toClient
            /\ pc' = CASE hello \in {"connect", "get"} -> "resolve"
                       [] hello = "relative" -> "open"
                       [] hello = "garbage" -> "failed"
  /\ UNCHANGED <<server, ends, dTaken, toDest, socks, addresses, ending>>

SocksRequest ==
  /\ pc = "request" /\ want # "none"
  /\ IF want = "connect"
       THEN pc' = "resolve" /\ UNCHANGED toClient
       ELSE /\ \/ Say(IF want = "othercommand" THEN "badcommand" ELSE "badtype")
               \/ UNCHANGED toClient
            /\ pc' = "close"
  /\ UNCHANGED <<server, proto, ends, cTaken, dTaken, toDest, socks, addresses, ending>>

\* recv_exact at the end of the input, or after 30 seconds without any;
\* an HTTP header that ends early is no header.
NoRequest ==
  \/ /\ pc = "first" /\ hello = "none"
     /\ pc' = "close" /\ UNCHANGED proto
  \/ /\ pc = "first" /\ hello \in Hello \ {"none", "greeting"}
     /\ proto' = "http" /\ pc' = "failed"
  \/ /\ pc = "request" /\ want = "none"
     /\ pc' = "close" /\ UNCHANGED proto

InputFails == NoRequest /\ UNCHANGED <<server, ends, flow, socks, addresses, ending>>
-----------------------------------------------------------------------------
(* create_connection *)
Resolve ==
  /\ pc = "resolve"
  /\ addresses' \in 0..MaxAddress
  /\ pc' = "dial"
  /\ UNCHANGED <<server, proto, ends, flow, socks, ending>>

Dial ==
  /\ pc = "dial" /\ addresses > 0
  /\ trial' = "open"
  /\ addresses' = addresses - 1
  /\ pc' = "connecting"
  /\ UNCHANGED <<server, proto, ends, flow, client, upstream, ending>>

Connected ==
  /\ pc = "connecting"
  /\ trial' = "none"
  /\ upstream' = "open"
  /\ pc' = "open"
  /\ UNCHANGED <<server, proto, ends, flow, client, addresses, ending>>

\* The bug of trying the next address with the last socket still open.
NotConnectedOpen ==
  /\ pc = "connecting"
  /\ pc' = "dial"
  /\ UNCHANGED <<server, proto, ends, flow, socks, addresses, ending>>

NotConnected ==
  /\ pc = "connecting"
  /\ trial' = "none"
  /\ pc' = "dial"
  /\ UNCHANGED <<server, proto, ends, flow, client, upstream, addresses, ending>>

Unreachable ==
  /\ pc = "dial" /\ addresses = 0
  /\ IF proto = "socks" THEN Say("unreachable") \/ UNCHANGED toClient ELSE UNCHANGED toClient
  /\ Raise
  /\ UNCHANGED <<server, proto, ends, cTaken, dTaken, toDest, socks, addresses, ending>>
-----------------------------------------------------------------------------
Pieces(data, n) == SubSeq(data, 1, n)

\* The bug of dropping what came with the header.
OpenForgetsRest ==
  /\ pc = "open" /\ hello # "relative"
  /\ CASE proto = "socks" -> Say("granted")
       [] proto = "http" /\ hello = "connect" -> Say("established")
       [] OTHER -> UNCHANGED toClient
  /\ toDest' = IF hello = "get" THEN <<"request">> ELSE <<>>
  /\ pc' = "relay"
  /\ UNCHANGED <<server, proto, ends, cTaken, dTaken, socks, addresses, ending>>

\* What came with the header follows the answer to CONNECT or the rewritten request.
Open ==
  /\ pc = "open" /\ hello # "relative"
  /\ CASE proto = "socks" -> Say("granted")
       [] proto = "http" /\ hello = "connect" -> Say("established")
       [] OTHER -> UNCHANGED toClient
  /\ toDest' = (IF hello = "get" THEN <<"request">> ELSE <<>>) \o Pieces(ClientData, cTaken)
  /\ pc' = "relay"
  /\ UNCHANGED <<server, proto, ends, cTaken, dTaken, socks, addresses, ending>>

OpenRelative ==
  /\ pc = "open" /\ hello = "relative"
  /\ Say("400")
  /\ pc' = "close"
  /\ UNCHANGED <<server, proto, ends, cTaken, dTaken, toDest, socks, addresses, ending>>

\* relay, when one side has something to receive.  A timeout of select is no event.
FromClient ==
  /\ pc = "relay" /\ cTaken < cSent
  /\ cTaken' = cTaken + 1
  /\ toDest' = Append(toDest, ClientData[cTaken + 1])
  /\ UNCHANGED <<server, pc, proto, ends, dTaken, toClient, socks, addresses, ending>>

FromDest ==
  /\ pc = "relay" /\ dTaken < dSent
  /\ dTaken' = dTaken + 1
  /\ toClient' = Append(toClient, DestData[dTaken + 1])
  /\ UNCHANGED <<server, pc, proto, ends, cTaken, toDest, socks, addresses, ending>>

\* The bug of ending with the destination's last pieces unread.
RelayEndsEarly ==
  /\ pc = "relay"
  /\ \/ cEnd /\ cTaken = cSent /\ ending' = "client"
     \/ dEnd /\ ending' = "destination"
  /\ pc' = "close"
  /\ UNCHANGED <<server, proto, ends, flow, socks, addresses>>

\* The bug of waiting for the other side's end too.
RelayEndsBoth ==
  /\ pc = "relay"
  /\ cEnd /\ cTaken = cSent /\ dEnd /\ dTaken = dSent
  /\ ending' = "destination"
  /\ pc' = "close"
  /\ UNCHANGED <<server, proto, ends, flow, socks, addresses>>

\* The end of either side's data ends both directions.
RelayEnds ==
  /\ pc = "relay"
  /\ \/ cEnd /\ cTaken = cSent /\ ending' = "client"
     \/ dEnd /\ dTaken = dSent /\ ending' = "destination"
  /\ pc' = "close"
  /\ UNCHANGED <<server, proto, ends, flow, socks, addresses>>

\* A send raises: the receiver has gone, or takes nothing for as long as its timeout.
SendFails ==
  /\ pc \in {"open", "relay"}
  /\ Raise
  /\ ending' = "failure"
  /\ UNCHANGED <<server, proto, ends, flow, socks, addresses>>

\* The bug of an answer in proxy_client's except clause as well.
SayFailedTwice ==
  /\ pc = "failed"
  /\ toClient' = toClient \o <<"502", "502">>
  /\ pc' = "close"
  /\ UNCHANGED <<server, proto, ends, cTaken, dTaken, toDest, socks, addresses, ending>>

SayFailed ==
  /\ pc = "failed"
  /\ Say("502") \/ UNCHANGED toClient
  /\ pc' = "close"
  /\ UNCHANGED <<server, proto, ends, cTaken, dTaken, toDest, socks, addresses, ending>>

\* finally, and proxy_client's except clause.
Close ==
  /\ pc = "close"
  /\ client' = "closed"
  /\ upstream' = IF upstream = "open" THEN "closed" ELSE upstream
  /\ pc' = "done"
  /\ UNCHANGED <<server, proto, ends, flow, trial, addresses, ending>>

Thread ==
  \/ First \/ SocksRequest \/ InputFails
  \/ Resolve \/ Dial \/ Connected \/ NotConnected \/ Unreachable
  \/ Open \/ OpenRelative \/ FromClient \/ FromDest \/ RelayEnds \/ SayFailed \/ Close

Next ==
  \/ Listen \/ Accept \/ Thread \/ SendFails
  \/ ClientHello \/ ClientWant \/ ClientSends \/ ClientEnds \/ DestSends \/ DestEnds

\* The thread runs, and each wait before relay has a timeout; sends may all succeed.
Spec == Init /\ [][Next]_vars /\ WF_vars(Thread)
=============================================================================
