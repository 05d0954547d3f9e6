---------------------------- MODULE PyProxyProps ----------------------------
(* What is claimed of a connection through the local proxy (PyProxy). *)
EXTENDS PyProxy, SequencesExt

(* Every variable holds what it is declared for. *)
TypeOK ==
  /\ server \in {"none", "listening", "ipv4 only", "off"}
  /\ pc \in Label /\ proto \in {"none", "socks", "http"}
  /\ hello \in Hello /\ want \in Want
  /\ cSent \in 0..Len(ClientData) /\ cTaken \in 0..cSent
  /\ dSent \in 0..Len(DestData) /\ dTaken \in 0..dSent
  /\ cEnd \in BOOLEAN /\ dEnd \in BOOLEAN
  /\ client \in {"none", "open", "closed"} /\ upstream \in {"none", "open", "closed"}
  /\ trial \in {"none", "open"}
  /\ addresses \in 0..MaxAddress
  /\ \A i \in DOMAIN toClient : toClient[i] \in Own \cup Range(DestData)
  /\ \A i \in DOMAIN toDest : toDest[i] \in {"request"} \cup Range(ClientData)
  /\ ending \in {"none", "client", "destination", "failure"}

(* On none of the ways out of the handler, at whichever call it is left by *)
(* an exception, does a socket stay open, those of failed attempts included.*)
SocketsClosed ==
  /\ pc = "done" => client = "closed" /\ upstream # "open"
  /\ pc # "connecting" => trial = "none"

(* What the proxy may say of its own before the destination's data, and    *)
(* after it nothing but the 502 of a relay that has failed.                *)
Prologues ==
  { <<>>, <<"400">>, <<"established">>, <<"method">>, <<"method", "granted">>,
    <<"method", "unreachable">>, <<"method", "badcommand">>, <<"method", "badtype">> }

(* The client gets one answer of its protocol, then the destination's data *)
(* in order, none lost in between or twice.                                *)
ClientStream ==
  \E own \in Prologues, tail \in {<<>>, <<"502">>} :
    /\ toClient = own \o Pieces(DestData, dTaken) \o tail
    /\ dTaken > 0 => own \in {<<>>, <<"established">>, <<"method", "granted">>}
    /\ tail # <<>> => proto = "http" /\ pc \in {"close", "done"}
    /\ own = <<>> /\ dTaken > 0 => hello = "get"

(* The destination gets what the client sent after its header, in order,   *)
(* with the pieces that came with the header first and once.               *)
DestStream ==
  \/ toDest = (IF hello = "get" THEN <<"request">> ELSE <<>>) \o Pieces(ClientData, cTaken)
  \/ toDest = <<>> /\ pc # "relay" /\ ending \in {"none", "failure"}

(* A destination that sends its answer and closes is heard to the end.     *)
AnswerIsWhole ==
  ending = "destination" => \E own \in Prologues : toClient = own \o Pieces(DestData, dSent)

(* A thread does not outlive its connection: when either side has ended    *)
(* its own, the handler ends too.                                          *)
HandlerEnds == (client = "open" /\ (cEnd \/ dEnd)) ~> pc = "done"
=============================================================================
