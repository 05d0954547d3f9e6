--------------------------- MODULE PyProxy_proofs ---------------------------
(***************************************************************************)
(* Proofs about a connection through the local proxy, for any data in      *)
(* either direction and any number of addresses.                           *)
(***************************************************************************)
EXTENDS PyProxyProps, SequenceTheorems, TLAPS

(* Pieces of data and words. *)
Text == STRING \cup Own \cup {"request"}

(* How far each side has got. *)
Counts ==
  /\ cSent \in 0..Len(ClientData) /\ cTaken \in 0..cSent
  /\ dSent \in 0..Len(DestData) /\ dTaken \in 0..dSent
  /\ hello \in Hello

Dialing == pc \in {"resolve", "dial", "connecting", "open"}

(* Before relay nothing has gone to the destination, and before the client *)
(* has said anything nothing has gone either way.                          *)
NotYet ==
  /\ pc \in {"accept", "first", "request"} \/ Dialing => toDest = <<>> /\ ending = "none"
  /\ hello = "none" => toDest = <<>> /\ ending = "none" /\ dTaken = 0
  /\ pc = "request" => hello = "greeting"
  /\ Dialing \/ pc = "relay" => hello # "none"

(* What the proxy has said of its own when it dials, and when it relays. *)
Greeted == IF proto = "socks" THEN <<"method">> ELSE <<>>
Answered == IF proto = "socks" THEN <<"method", "granted">>
            ELSE IF hello = "connect" THEN <<"established">> ELSE <<>>

(* Where the thread is, what it knows of the client, and what the client   *)
(* has heard.                                                              *)
Said ==
  /\ pc \in {"accept", "first"} => proto = "none" /\ toClient = <<>> /\ dTaken = 0
  /\ pc = "request" => proto = "socks" /\ toClient = <<"method">> /\ dTaken = 0
  /\ Dialing => toClient = Greeted /\ dTaken = 0
  /\ Dialing \/ pc = "relay" =>
       \/ proto = "socks" /\ hello = "greeting"
       \/ proto = "http" /\ hello \in {"connect", "get", "relative"}
  /\ pc = "relay" => hello # "relative" /\ toClient = Answered \o Pieces(DestData, dTaken)
  /\ pc = "failed" => /\ proto = "http"
                      /\ \/ toClient = <<>> /\ dTaken = 0
                         \/ /\ hello \in {"connect", "get"}
                            /\ toClient = Answered \o Pieces(DestData, dTaken)

(* The destination's end is noticed when everything has been taken.        *)
HeardOut ==
  ending = "destination" =>
    /\ pc \in {"close", "done"} /\ dEnd /\ dTaken = dSent
    /\ \E own \in Prologues : toClient = own \o Pieces(DestData, dTaken)

(* The inductive invariants of the sockets and of the two directions. *)
Held == SocketsClosed /\ hello \in Hello
Out == Counts /\ NotYet /\ DestStream
IInv == Out /\ Said /\ HeardOut /\ ClientStream
-----------------------------------------------------------------------------
(* The first n pieces of the data are data, and with the next one n + 1.   *)
LEMMA PiecesType ==
  ASSUME NEW data \in Seq(Text), NEW n \in 0..Len(data)
  PROVE  Pieces(data, n) \in Seq(Text)
<1>1. \A i \in 1..n : data[i] \in Text
  OBVIOUS
<1>2. QED
  BY <1>1, SubSeqProperties DEF Pieces

LEMMA NoPieces ==
  ASSUME NEW data, NEW own \in Seq(Text)
  PROVE  Pieces(data, 0) = <<>> /\ own \o Pieces(data, 0) = own
<1>1. Pieces(data, 0) = <<>>
  BY SubSeqEmpty DEF Pieces
<1>2. QED
  BY <1>1, ConcatEmptySeq

LEMMA NextPiece ==
  ASSUME NEW data \in Seq(Text), NEW n \in 0..Len(data), n < Len(data),
         NEW own \in Seq(Text)
  PROVE  Append(own \o Pieces(data, n), data[n + 1]) = own \o Pieces(data, n + 1)
<1>1. n + 1 \in 1..Len(data) /\ (n + 1) - 1 = n /\ data[n + 1] \in Text
  OBVIOUS
<1>2. Pieces(data, n + 1) = Pieces(data, n) \o <<data[n + 1]>>
  BY <1>1, SubSeqRecursiveSecond DEF Pieces
<1>3. Pieces(data, n) \in Seq(Text) /\ <<data[n + 1]>> \in Seq(Text)
  BY <1>1, PiecesType
<1>4. own \o Pieces(data, n) \in Seq(Text)
  BY <1>3, ConcatProperties
<1>5. Append(own \o Pieces(data, n), data[n + 1]) = (own \o Pieces(data, n)) \o <<data[n + 1]>>
  BY <1>1, <1>4, AppendIsConcat
<1>6. (own \o Pieces(data, n)) \o <<data[n + 1]>> = own \o (Pieces(data, n) \o <<data[n + 1]>>)
  BY <1>3, ConcatAssociative
<1>7. QED
  BY <1>2, <1>5, <1>6

(* Data and the proxy's own words are sequences of the same set.           *)
LEMMA TextData == ClientData \in Seq(Text) /\ DestData \in Seq(Text)
<1>1. STRING \subseteq Text
  BY DEF Text
<1>2. QED
  BY <1>1, DataAssumption, SeqMonotonic

LEMMA Words2 ==
  ASSUME NEW a \in Text, NEW b \in Text
  PROVE  Append(<<>>, a) = <<a>> /\ Append(<<a>>, b) = <<a, b>>
<1>1. <<a>> \in Seq(Text) /\ Len(<<a>>) = 1 /\ <<a>>[1] = a
  OBVIOUS
<1>2. <<a, b>> \in Seq(Text) /\ Len(<<a, b>>) = 2 /\ <<a, b>>[1] = a /\ <<a, b>>[2] = b
  OBVIOUS
<1>3. /\ Append(<<a>>, b) \in Seq(Text) /\ Len(Append(<<a>>, b)) = 2
      /\ Append(<<a>>, b)[1] = a /\ Append(<<a>>, b)[2] = b
  BY <1>1, AppendProperties
<1>4. \A i \in 1..2 : Append(<<a>>, b)[i] = <<a, b>>[i]
  BY <1>2, <1>3
<1>5. Append(<<a>>, b) = <<a, b>>
  BY <1>2, <1>3, <1>4, SeqEqual
<1>6. Append(<<>>, a) = <<a>>
  OBVIOUS
<1>7. QED
  BY <1>5, <1>6

LEMMA OwnWords == \A own \in Prologues : own \in Seq(Text)
<1>1. \A a, b \in Text : <<>> \in Seq(Text) /\ <<a>> \in Seq(Text) /\ <<a, b>> \in Seq(Text)
  OBVIOUS
<1>2. \A w \in Own : w \in Text
  BY DEF Text
<1>3. QED
  BY <1>1, <1>2 DEF Prologues, Own

LEMMA Words ==
  /\ Answered \in Prologues /\ Greeted \in Prologues
  /\ \A w \in Own : Append(<<>>, w) = <<w>> /\ Append(<<"method">>, w) = <<"method", w>>
<1>1. Answered \in Prologues /\ Greeted \in Prologues
  BY DEF Prologues, Answered, Greeted
<1>2. "method" \in Own /\ \A w \in Own : w \in Text
  BY DEF Own, Text
<1>3. QED
  BY <1>1, <1>2, Words2
-----------------------------------------------------------------------------
(* Theorem: however the handler is left, its sockets are closed, those of  *)
(* failed connection attempts included (SocketsClosed, the finally and     *)
(* except clauses of the handlers and of create_connection).               *)
THEOREM SocketsReleased == Spec => []SocketsClosed
<1>1. Init => Held
  BY DEF Init, Held, SocketsClosed, Hello
<1>2. Held /\ [Next]_vars => Held'
  <2> SUFFICES ASSUME Held, [Next]_vars PROVE Held'
    OBVIOUS
  <2> USE DEF Held, SocketsClosed, Hello, ends, flow, socks
  <2>1. CASE Listen
    BY <2>1 DEF Listen
  <2>2. CASE Accept
    BY <2>2 DEF Accept
  <2>3. CASE First
    BY <2>3 DEF First, Say
  <2>4. CASE SocksRequest
    BY <2>4 DEF SocksRequest, Say
  <2>5. CASE InputFails
    BY <2>5 DEF InputFails, NoRequest
  <2>6. CASE Resolve
    BY <2>6 DEF Resolve
  <2>7. CASE Dial
    BY <2>7 DEF Dial
  <2>8. CASE Connected
    BY <2>8 DEF Connected
  <2>9. CASE NotConnected
    BY <2>9 DEF NotConnected
  <2>10. CASE Unreachable
    BY <2>10 DEF Unreachable, Say, Raise
  <2>11. CASE Open
    BY <2>11 DEF Open, Say
  <2>12. CASE OpenRelative
    BY <2>12 DEF OpenRelative, Say
  <2>13. CASE FromClient
    BY <2>13 DEF FromClient
  <2>14. CASE FromDest
    BY <2>14 DEF FromDest
  <2>15. CASE RelayEnds
    BY <2>15 DEF RelayEnds
  <2>16. CASE SayFailed
    BY <2>16 DEF SayFailed, Say
  <2>17. CASE Close
    BY <2>17 DEF Close
  <2>18. CASE SendFails
    BY <2>18 DEF SendFails, Raise
  <2>19. CASE ClientHello
    BY <2>19 DEF ClientHello
  <2>20. CASE ClientWant
    BY <2>20 DEF ClientWant
  <2>21. CASE ClientSends
    BY <2>21 DEF ClientSends
  <2>22. CASE ClientEnds
    BY <2>22 DEF ClientEnds
  <2>23. CASE DestSends
    BY <2>23 DEF DestSends
  <2>24. CASE DestEnds
    BY <2>24 DEF DestEnds
  <2>25. CASE UNCHANGED vars
    BY <2>25 DEF vars
  <2>26. QED
    BY <2>1, <2>2, <2>3, <2>4, <2>5, <2>6, <2>7, <2>8, <2>9, <2>10, <2>11,
       <2>12, <2>13, <2>14, <2>15, <2>16, <2>17, <2>18, <2>19, <2>20, <2>21,
       <2>22, <2>23, <2>24, <2>25 DEF Next, Thread
<1>3. Held => SocketsClosed
  BY DEF Held
<1>4. QED
  BY <1>1, <1>2, <1>3, PTL DEF Spec

-----------------------------------------------------------------------------
(* What has gone to the destination: the first cTaken pieces.              *)
Sent(n) == (IF hello = "get" THEN <<"request">> ELSE <<>>) \o Pieces(ClientData, n)

LEMMA OutInit == Init => Out
<1> SUFFICES ASSUME Init PROVE Out
  OBVIOUS
<1>1. Len(ClientData) \in Nat /\ Len(DestData) \in Nat
  BY TextData, LenProperties
<1>2. Counts
  BY <1>1 DEF Init, Counts, Hello
<1>3. NotYet
  BY DEF Init, NotYet, Dialing
<1>4. DestStream
  BY DEF Init, DestStream
<1>5. QED
  BY <1>2, <1>3, <1>4 DEF Out

LEMMA OutStep == Out /\ [Next]_vars => Out'
<1> SUFFICES ASSUME Out, [Next]_vars PROVE Out'
  OBVIOUS
<1>0. Len(ClientData) \in Nat /\ Len(DestData) \in Nat
  BY TextData, LenProperties
<1>c. Counts /\ NotYet /\ DestStream
  BY DEF Out
<1> USE <1>0, <1>c DEF Out, Counts, NotYet, Dialing, ends, flow, socks
<1>1. CASE Listen
  BY <1>1 DEF Listen, DestStream
<1>2. CASE Accept
  BY <1>2 DEF Accept, DestStream
<1>3. CASE First
  BY <1>3 DEF First, Say, DestStream, Hello
<1>4. CASE SocksRequest
  BY <1>4 DEF SocksRequest, Say, DestStream
<1>5. CASE InputFails
  BY <1>5 DEF InputFails, NoRequest, DestStream, Hello
<1>6. CASE Resolve
  BY <1>6 DEF Resolve, DestStream
<1>7. CASE Dial
  BY <1>7 DEF Dial, DestStream
<1>8. CASE Connected
  BY <1>8 DEF Connected, DestStream
<1>9. CASE NotConnected
  BY <1>9 DEF NotConnected, DestStream
<1>10. CASE Unreachable
  BY <1>10 DEF Unreachable, Say, Raise, DestStream
<1>11. CASE Open
  BY <1>11 DEF Open, Say, DestStream
<1>12. CASE OpenRelative
  BY <1>12 DEF OpenRelative, Say, DestStream
<1>13. CASE FromClient
  <2>1. toDest = Sent(cTaken) /\ cTaken \in 0..Len(ClientData) /\ cTaken < Len(ClientData)
    BY <1>13 DEF FromClient, DestStream, Sent
  <2>2. (IF hello = "get" THEN <<"request">> ELSE <<>>) \in Seq(Text)
    <3>1. "request" \in Text
      BY DEF Text
    <3>2. <<>> \in Seq(Text) /\ <<"request">> \in Seq(Text)
      BY <3>1
    <3>3. QED
      BY <3>2
  <2>3. Append(Sent(cTaken), ClientData[cTaken + 1]) = Sent(cTaken + 1)
    BY <2>1, <2>2, NextPiece, TextData DEF Sent
  <2>4. toDest' = (IF hello = "get" THEN <<"request">> ELSE <<>>) \o Pieces(ClientData, cTaken + 1)
    BY <1>13, <2>1, <2>3 DEF FromClient, Sent
  <2>5. QED
    BY <1>13, <2>4 DEF FromClient, DestStream
<1>14. CASE FromDest
  BY <1>14 DEF FromDest, DestStream
<1>15. CASE RelayEnds
  BY <1>15 DEF RelayEnds, DestStream
<1>16. CASE SayFailed
  BY <1>16 DEF SayFailed, Say, DestStream
<1>17. CASE Close
  BY <1>17 DEF Close, DestStream
<1>18. CASE SendFails
  BY <1>18 DEF SendFails, Raise, DestStream
<1>19. CASE ClientHello
  BY <1>19 DEF ClientHello, DestStream, Hello
<1>20. CASE ClientWant
  BY <1>20 DEF ClientWant, DestStream
<1>21. CASE ClientSends
  BY <1>21 DEF ClientSends, DestStream
<1>22. CASE ClientEnds
  BY <1>22 DEF ClientEnds, DestStream
<1>23. CASE DestSends
  BY <1>23 DEF DestSends, DestStream
<1>24. CASE DestEnds
  BY <1>24 DEF DestEnds, DestStream
<1>25. CASE UNCHANGED vars
  BY <1>25 DEF vars, DestStream
<1>26. QED
  BY <1>1, <1>2, <1>3, <1>4, <1>5, <1>6, <1>7, <1>8, <1>9, <1>10, <1>11, <1>12,
     <1>13, <1>14, <1>15, <1>16, <1>17, <1>18, <1>19, <1>20, <1>21, <1>22,
     <1>23, <1>24, <1>25 DEF Next, Thread

(* Theorem: what the destination has been sent is what the client sent, in *)
(* order and once, for any data (DestStream, the rest of http_client and   *)
(* relay).                                                                 *)
THEOREM DestinationHears == Spec => []DestStream
<1>1. Out => DestStream
  BY DEF Out
<1>2. QED
  BY OutInit, OutStep, <1>1, PTL DEF Spec

-----------------------------------------------------------------------------
(* What the client has heard: words of the proxy's own and the first n     *)
(* pieces of the destination.  One more word or piece follows in order.    *)
LEMMA Heard ==
  ASSUME NEW own \in Prologues, NEW n \in 0..Len(DestData)
  PROVE  /\ own \o Pieces(DestData, n) \in Seq(Text)
         /\ (own \o Pieces(DestData, n)) \o <<>> = own \o Pieces(DestData, n)
         /\ own \o Pieces(DestData, 0) = own
         /\ (own \o Pieces(DestData, 0)) \o <<>> = own
         /\ Append(own \o Pieces(DestData, n), "502") = (own \o Pieces(DestData, n)) \o <<"502">>
         /\ n < Len(DestData) =>
              Append(own \o Pieces(DestData, n), DestData[n + 1]) = own \o Pieces(DestData, n + 1)
<1>1. own \in Seq(Text) /\ DestData \in Seq(Text)
  BY OwnWords, TextData
<1>2. Pieces(DestData, n) \in Seq(Text)
  BY <1>1, PiecesType
<1>3. own \o Pieces(DestData, n) \in Seq(Text)
  BY <1>1, <1>2, ConcatProperties
<1>4. (own \o Pieces(DestData, n)) \o <<>> = own \o Pieces(DestData, n)
  BY <1>3, ConcatEmptySeq
<1>5. own \o Pieces(DestData, 0) = own
  BY <1>1, NoPieces
<1>6. own \o <<>> = own
  BY <1>1, ConcatEmptySeq
<1>7. Append(own \o Pieces(DestData, n), "502") = (own \o Pieces(DestData, n)) \o <<"502">>
  BY <1>3, AppendIsConcat
<1>8. ASSUME n < Len(DestData)
      PROVE  Append(own \o Pieces(DestData, n), DestData[n + 1]) = own \o Pieces(DestData, n + 1)
  BY <1>1, <1>8, NextPiece
<1>9. QED
  BY <1>3, <1>4, <1>5, <1>6, <1>7, <1>8

LEMMA ClientInit == Init => Said /\ HeardOut /\ ClientStream
<1> SUFFICES ASSUME Init PROVE Said /\ HeardOut /\ ClientStream
  OBVIOUS
<1>1. 0 \in 0..Len(DestData) /\ <<>> \in Prologues
  BY TextData, LenProperties DEF Prologues
<1>2. <<>> = (<<>> \o Pieces(DestData, 0)) \o <<>>
  BY <1>1, Heard
<1>3. ClientStream
  BY <1>1, <1>2 DEF Init, ClientStream
<1>4. QED
  BY <1>3 DEF Init, Said, HeardOut, Dialing

LEMMA SaidStep == Out /\ Said /\ [Next]_vars => Said'
<1> SUFFICES ASSUME Out, Said, [Next]_vars PROVE Said'
  OBVIOUS
<1>0. hello \in Hello /\ Len(DestData) \in Nat /\ dTaken \in 0..Len(DestData) /\ NotYet /\ Answered \in Prologues
  BY TextData, LenProperties, Words DEF Out, Counts
<1> USE <1>0 DEF Said, Dialing, Greeted, Answered, ends, flow, socks
<1>1. CASE Listen
  BY <1>1 DEF Listen
<1>2. CASE Accept
  BY <1>2 DEF Accept
<1>3. CASE First
  BY <1>3, Words DEF First, Own, Say, NotYet, Hello
<1>4. CASE SocksRequest
  BY <1>4 DEF SocksRequest, Say, NotYet
<1>5. CASE InputFails
  BY <1>5 DEF InputFails, NoRequest, NotYet, Hello
<1>6. CASE Resolve
  BY <1>6 DEF Resolve
<1>7. CASE Dial
  BY <1>7 DEF Dial
<1>8. CASE Connected
  BY <1>8 DEF Connected
<1>9. CASE NotConnected
  BY <1>9 DEF NotConnected
<1>10. CASE Unreachable
  BY <1>10 DEF Unreachable, Say, Raise
<1>11. CASE Open
  <2>1. toClient' = Answered /\ dTaken = 0
    BY <1>11, Words DEF Open, Own, Say
  <2>2. Answered \o Pieces(DestData, 0) = Answered
    BY <1>0, <2>1, Heard
  <2>3. toClient' = Answered' \o Pieces(DestData, dTaken')
    BY <1>11, <2>1, <2>2 DEF Open
  <2>4. QED
    BY <1>11, <2>3 DEF Open
<1>12. CASE OpenRelative
  BY <1>12 DEF OpenRelative, Say
<1>13. CASE FromClient
  BY <1>13 DEF FromClient
<1>14. CASE FromDest
  <2>1. toClient = Answered \o Pieces(DestData, dTaken) /\ dTaken < Len(DestData)
    BY <1>14 DEF FromDest, Out, Counts
  <2>2. Append(Answered \o Pieces(DestData, dTaken), DestData[dTaken + 1]) = Answered \o Pieces(DestData, dTaken + 1)
    BY <2>1, <1>0, Heard
  <2>3. toClient' = Answered' \o Pieces(DestData, dTaken')
    BY <1>14, <2>1, <2>2 DEF FromDest
  <2>4. QED
    BY <1>14, <2>3 DEF FromDest
<1>15. CASE RelayEnds
  BY <1>15 DEF RelayEnds, NotYet
<1>16. CASE SayFailed
  BY <1>16 DEF SayFailed, Say
<1>17. CASE Close
  BY <1>17 DEF Close
<1>18. CASE SendFails
  BY <1>18 DEF SendFails, Raise
<1>19. CASE ClientHello
  BY <1>19 DEF ClientHello, NotYet
<1>20. CASE ClientWant
  BY <1>20 DEF ClientWant
<1>21. CASE ClientSends
  BY <1>21 DEF ClientSends
<1>22. CASE ClientEnds
  BY <1>22 DEF ClientEnds
<1>23. CASE DestSends
  BY <1>23 DEF DestSends
<1>24. CASE DestEnds
  BY <1>24 DEF DestEnds
<1>25. CASE UNCHANGED vars
  BY <1>25 DEF vars
<1>26. QED
  BY <1>1, <1>2, <1>3, <1>4, <1>5, <1>6, <1>7, <1>8, <1>9, <1>10, <1>11, <1>12,
     <1>13, <1>14, <1>15, <1>16, <1>17, <1>18, <1>19, <1>20, <1>21, <1>22,
     <1>23, <1>24, <1>25 DEF Next, Thread

LEMMA HeardOutStep == Out /\ Said /\ HeardOut /\ [Next]_vars => HeardOut'
<1> SUFFICES ASSUME Out, Said, HeardOut, [Next]_vars PROVE HeardOut'
  OBVIOUS
<1> USE DEF HeardOut, Dialing, ends, flow, socks
<1>1. CASE Listen
  BY <1>1 DEF Listen, Out, Counts, NotYet
<1>2. CASE Accept
  BY <1>2 DEF Accept, Out, Counts, NotYet
<1>3. CASE First
  BY <1>3 DEF First, Say, Out, Counts, NotYet
<1>4. CASE SocksRequest
  BY <1>4 DEF SocksRequest, Say, Out, Counts, NotYet
<1>5. CASE InputFails
  BY <1>5 DEF InputFails, NoRequest, Out, Counts, NotYet
<1>6. CASE Resolve
  BY <1>6 DEF Resolve, Out, Counts, NotYet
<1>7. CASE Dial
  BY <1>7 DEF Dial, Out, Counts, NotYet
<1>8. CASE Connected
  BY <1>8 DEF Connected, Out, Counts, NotYet
<1>9. CASE NotConnected
  BY <1>9 DEF NotConnected, Out, Counts, NotYet
<1>10. CASE Unreachable
  BY <1>10 DEF Unreachable, Say, Raise, Out, Counts, NotYet
<1>11. CASE Open
  BY <1>11 DEF Open, Say, Out, Counts, NotYet
<1>12. CASE OpenRelative
  BY <1>12 DEF OpenRelative, Say, Out, Counts, NotYet
<1>13. CASE FromClient
  BY <1>13 DEF FromClient, Out, Counts, NotYet
<1>14. CASE FromDest
  BY <1>14 DEF FromDest, Out, Counts, NotYet
<1>15. CASE RelayEnds
  BY <1>15, Words DEF RelayEnds, Said
<1>16. CASE SayFailed
  BY <1>16 DEF SayFailed, Say, Out, Counts, NotYet
<1>17. CASE Close
  BY <1>17 DEF Close, Out, Counts, NotYet
<1>18. CASE SendFails
  BY <1>18 DEF SendFails, Raise, Out, Counts, NotYet
<1>19. CASE ClientHello
  BY <1>19 DEF ClientHello, Out, Counts, NotYet
<1>20. CASE ClientWant
  BY <1>20 DEF ClientWant, Out, Counts, NotYet
<1>21. CASE ClientSends
  BY <1>21 DEF ClientSends, Out, Counts, NotYet
<1>22. CASE ClientEnds
  BY <1>22 DEF ClientEnds, Out, Counts, NotYet
<1>23. CASE DestSends
  BY <1>23 DEF DestSends, Out, Counts, NotYet
<1>24. CASE DestEnds
  BY <1>24 DEF DestEnds, Out, Counts, NotYet
<1>25. CASE UNCHANGED vars
  BY <1>25 DEF vars
<1>26. QED
  BY <1>1, <1>2, <1>3, <1>4, <1>5, <1>6, <1>7, <1>8, <1>9, <1>10, <1>11, <1>12,
     <1>13, <1>14, <1>15, <1>16, <1>17, <1>18, <1>19, <1>20, <1>21, <1>22,
     <1>23, <1>24, <1>25 DEF Next, Thread

LEMMA StreamStep == Out /\ Said /\ ClientStream /\ [Next]_vars => ClientStream'
<1> SUFFICES ASSUME Out, Said, ClientStream, [Next]_vars PROVE ClientStream'
  OBVIOUS
<1>0. /\ hello \in Hello /\ Len(DestData) \in Nat /\ dTaken \in 0..Len(DestData) /\ dTaken' \in 0..Len(DestData)
      /\ NotYet /\ Answered \in Prologues
  <2>1. Out'
    BY OutStep
  <2>2. QED
    BY <2>1, TextData, LenProperties, Words DEF Out, Counts
(* Words of the proxy's own only. *)
<1>a. ASSUME toClient' \in Prologues, dTaken' = 0 PROVE ClientStream'
  <2>1. toClient' = (toClient' \o Pieces(DestData, dTaken')) \o <<>>
    BY <1>0, <1>a, Heard
  <2>2. QED
    BY <2>1, <1>a, <1>0 DEF ClientStream
(* Nothing that the stream depends on has changed. *)
<1>b. ASSUME toClient' = toClient, dTaken' = dTaken, proto' = proto,
             hello' = hello \/ (hello = "none" /\ dTaken = 0),
             pc' = pc \/ (pc' \in {"close", "done"}) \/ pc \notin {"close", "done"}
      PROVE  ClientStream'
  BY <1>b DEF ClientStream
<1> USE <1>0, <1>a, <1>b DEF Dialing, ends, flow, socks
<1>1. CASE Listen
  BY <1>1 DEF Listen, NotYet
<1>2. CASE Accept
  BY <1>2 DEF Accept, NotYet
<1>3. CASE First
  <2>1. toClient' \in Prologues /\ dTaken' = 0
    BY <1>3, Words DEF First, Own, Say, Said, Greeted, Answered, Prologues, Hello
  <2>2. QED
    BY <2>1
<1>4. CASE SocksRequest
  <2>1. toClient' \in Prologues /\ dTaken' = 0
    BY <1>4, Words DEF SocksRequest, Own, Say, Said, Greeted, Answered, Prologues
  <2>2. QED
    BY <2>1
<1>5. CASE InputFails
  <2>1. toClient' \in Prologues /\ dTaken' = 0
    BY <1>5, Words DEF InputFails, NoRequest, Said, Greeted, Answered, Prologues, Hello
  <2>2. QED
    BY <2>1
<1>6. CASE Resolve
  BY <1>6 DEF Resolve, NotYet
<1>7. CASE Dial
  BY <1>7 DEF Dial, NotYet
<1>8. CASE Connected
  BY <1>8 DEF Connected, NotYet
<1>9. CASE NotConnected
  BY <1>9 DEF NotConnected, NotYet
<1>10. CASE Unreachable
  <2>1. toClient' \in Prologues /\ dTaken' = 0
    BY <1>10, Words DEF Unreachable, Own, Say, Raise, Said, Greeted, Answered, Prologues
  <2>2. QED
    BY <2>1
<1>11. CASE Open
  <2>1. toClient' \in Prologues /\ dTaken' = 0
    BY <1>11, Words DEF Open, Own, Say, Said, Greeted, Answered, Prologues
  <2>2. QED
    BY <2>1
<1>12. CASE OpenRelative
  <2>1. toClient' \in Prologues /\ dTaken' = 0
    BY <1>12, Words DEF OpenRelative, Own, Say, Said, Greeted, Answered, Prologues
  <2>2. QED
    BY <2>1
<1>13. CASE FromClient
  BY <1>13 DEF FromClient, NotYet
<1>14. CASE FromDest
  <2>1. toClient' = Answered \o Pieces(DestData, dTaken') /\ hello' = hello /\ proto' = proto
    BY <1>14, SaidStep DEF FromDest, Said, Answered
  <2>2. toClient' = (Answered \o Pieces(DestData, dTaken')) \o <<>>
    BY <2>1, <1>0, Heard
  <2>3. /\ Answered \in {<<>>, <<"established">>, <<"method", "granted">>}
        /\ Answered = <<>> => hello = "get"
    BY <1>14 DEF FromDest, Said, Answered
  <2>4. QED
    BY <2>1, <2>2, <2>3, <1>0 DEF ClientStream
<1>15. CASE RelayEnds
  BY <1>15 DEF RelayEnds, NotYet
<1>16. CASE SayFailed
  <2>1. CASE toClient' = toClient
    BY <1>16, <2>1 DEF SayFailed, Say
  <2>2. CASE toClient' = Append(toClient, "502")
    <3>1. PICK own \in {<<>>, Answered} :
            /\ toClient = own \o Pieces(DestData, dTaken)
            /\ dTaken > 0 => own = Answered /\ hello \in {"connect", "get"}
      <4>1. <<>> \in Prologues
        BY DEF Prologues
      <4>2. <<>> \o Pieces(DestData, 0) = <<>>
        BY <4>1, <1>0, Heard
      <4>3. QED
        BY <1>16, <4>2 DEF SayFailed, Said
    <3>2. own \in Prologues
      BY <1>0 DEF Prologues
    <3>3. toClient' = (own \o Pieces(DestData, dTaken')) \o <<"502">>
      BY <1>16, <2>2, <3>1, <3>2, <1>0, Heard DEF SayFailed
    <3>4. proto' = "http" /\ pc' = "close" /\ hello' = hello /\ dTaken' = dTaken
      BY <1>16 DEF SayFailed, Said
    <3>5. dTaken > 0 => own \in {<<>>, <<"established">>} /\ (own = <<>> => hello = "get")
      <4>1. proto = "http"
        BY <1>16 DEF SayFailed, Said
      <4>2. hello \in {"connect", "get"} =>
              /\ Answered \in {<<>>, <<"established">>}
              /\ Answered = <<>> => hello = "get"
        BY <4>1 DEF Answered
      <4>3. QED
        BY <3>1, <4>2
    <3>6. QED
      BY <3>2, <3>3, <3>4, <3>5 DEF ClientStream
  <2>3. QED
    BY <1>16, <2>1, <2>2 DEF SayFailed, Say
<1>17. CASE Close
  BY <1>17 DEF Close, NotYet
<1>18. CASE SendFails
  BY <1>18 DEF SendFails, Raise, NotYet
<1>19. CASE ClientHello
  BY <1>19 DEF ClientHello, NotYet
<1>20. CASE ClientWant
  BY <1>20 DEF ClientWant, NotYet
<1>21. CASE ClientSends
  BY <1>21 DEF ClientSends, NotYet
<1>22. CASE ClientEnds
  BY <1>22 DEF ClientEnds, NotYet
<1>23. CASE DestSends
  BY <1>23 DEF DestSends, NotYet
<1>24. CASE DestEnds
  BY <1>24 DEF DestEnds, NotYet
<1>25. CASE UNCHANGED vars
  BY <1>25 DEF vars
<1>26. QED
  BY <1>1, <1>2, <1>3, <1>4, <1>5, <1>6, <1>7, <1>8, <1>9, <1>10, <1>11, <1>12,
     <1>13, <1>14, <1>15, <1>16, <1>17, <1>18, <1>19, <1>20, <1>21, <1>22,
     <1>23, <1>24, <1>25 DEF Next, Thread

-----------------------------------------------------------------------------
(* The invariant holds of every connection.                                *)
THEOREM Invariance == Spec => []IInv
<1>1. Init => IInv
  BY OutInit, ClientInit DEF IInv
<1>2. IInv /\ [Next]_vars => IInv'
  BY OutStep, SaidStep, HeardOutStep, StreamStep DEF IInv
<1>3. QED
  BY <1>1, <1>2, PTL DEF Spec

(* Theorem: the client gets one answer of its protocol and then the        *)
(* destination's data in order, with nothing of the proxy's after it but   *)
(* the 502 of a relay that failed (ClientStream, the handlers and relay).  *)
THEOREM ClientHears == Spec => []ClientStream
<1>1. IInv => ClientStream
  BY DEF IInv
<1>2. QED
  BY Invariance, <1>1, PTL

(* Theorem: when relay ends because the destination has closed, the client *)
(* has been sent all of its data (AnswerIsWhole, relay).                   *)
THEOREM AnswersWhole == Spec => []AnswerIsWhole
<1>1. IInv => AnswerIsWhole
  BY DEF IInv, HeardOut, AnswerIsWhole
<1>2. QED
  BY Invariance, <1>1, PTL
-----------------------------------------------------------------------------
(* What may be sent to either side. *)
ToClient == Own \cup Range(DestData)
ToDest == {"request"} \cup Range(ClientData)

Scalars ==
  /\ server \in {"none", "listening", "ipv4 only", "off"}
  /\ pc \in Label /\ proto \in {"none", "socks", "http"}
  /\ hello \in Hello /\ want \in Want
  /\ client \in {"none", "open", "closed"} /\ upstream \in {"none", "open", "closed"}
  /\ trial \in {"none", "open"}
  /\ ending \in {"none", "client", "destination", "failure"}

Numbers ==
  /\ cSent \in 0..Len(ClientData) /\ cTaken \in 0..cSent
  /\ dSent \in 0..Len(DestData) /\ dTaken \in 0..dSent
  /\ addresses \in 0..MaxAddress

Streams == toClient \in Seq(ToClient) /\ toDest \in Seq(ToDest)

LEMMA ScalarsStep == Scalars /\ [Next]_vars => Scalars'
<1> SUFFICES ASSUME Scalars, [Next]_vars PROVE Scalars'
  OBVIOUS
<1> USE DEF Scalars, ends, flow, socks
<1>1. CASE Listen
  <2>1. server' \in {"none", "listening", "ipv4 only", "off"}
    BY <1>1 DEF Listen
  <2>2. QED
    BY <1>1, <2>1 DEF Listen
<1>2. CASE Accept
  BY <1>2 DEF Accept, Label
<1>3. CASE First
  <2>1. CASE hello = "greeting"
    BY <1>3, <2>1 DEF First, Label
  <2>2. CASE hello # "greeting"
    <3>1. pc' \in {"resolve", "open", "failed"}
      BY <1>3, <2>2 DEF First, Hello
    <3>2. pc' \in Label
      BY <3>1 DEF Label
    <3>3. QED
      BY <1>3, <2>2, <3>2 DEF First
  <2>3. QED
    BY <2>1, <2>2
<1>4. CASE SocksRequest \/ InputFails
  BY <1>4 DEF SocksRequest, InputFails, NoRequest, Label
<1>5. CASE Resolve \/ Dial \/ Connected \/ NotConnected
  BY <1>5 DEF Resolve, Dial, Connected, NotConnected, Label
<1>6. CASE Unreachable \/ SendFails
  BY <1>6 DEF Unreachable, SendFails, Raise, Label
<1>7. CASE Open \/ OpenRelative
  BY <1>7 DEF Open, OpenRelative, Label
<1>8. CASE FromClient \/ FromDest \/ RelayEnds
  BY <1>8 DEF FromClient, FromDest, RelayEnds, Label
<1>9. CASE SayFailed \/ Close
  BY <1>9 DEF SayFailed, Close, Label
<1>10. CASE ClientHello \/ ClientWant \/ ClientSends \/ ClientEnds \/ DestSends \/ DestEnds
  BY <1>10 DEF ClientHello, ClientWant, ClientSends, ClientEnds, DestSends, DestEnds,
               Hello, Want
<1>11. CASE UNCHANGED vars
  BY <1>11 DEF vars
<1>12. QED
  BY <1>1, <1>2, <1>3, <1>4, <1>5, <1>6, <1>7, <1>8, <1>9, <1>10, <1>11 DEF Next, Thread

LEMMA NumbersStep == Numbers /\ [Next]_vars => Numbers'
<1> SUFFICES ASSUME Numbers, [Next]_vars PROVE Numbers'
  OBVIOUS
<1>1. Len(ClientData) \in Nat /\ Len(DestData) \in Nat /\ MaxAddress \in Nat
  BY TextData, LenProperties, MaxAddressAssumption
<1> USE <1>1 DEF Numbers, ends, flow, socks
<1>2. CASE First \/ SocksRequest \/ InputFails \/ Unreachable \/ Open \/ OpenRelative
  BY <1>2 DEF First, SocksRequest, InputFails, NoRequest, Unreachable, Open, OpenRelative
<1>3. CASE Resolve \/ Dial \/ Connected \/ NotConnected
  BY <1>3 DEF Resolve, Dial, Connected, NotConnected
<1>4. CASE FromClient \/ FromDest
  BY <1>4 DEF FromClient, FromDest
<1>5. CASE RelayEnds \/ SayFailed \/ Close \/ SendFails
  BY <1>5 DEF RelayEnds, SayFailed, Close, SendFails
<1>6. CASE ClientHello \/ ClientWant \/ ClientSends \/ ClientEnds \/ DestSends \/ DestEnds
  BY <1>6 DEF ClientHello, ClientWant, ClientSends, ClientEnds, DestSends, DestEnds
<1>7. CASE Listen \/ Accept \/ UNCHANGED vars
  BY <1>7 DEF Listen, Accept, vars
<1>8. QED
  BY <1>2, <1>3, <1>4, <1>5, <1>6, <1>7 DEF Next, Thread

LEMMA PiecesOfData ==
  ASSUME NEW data \in Seq(Text), NEW n \in 0..Len(data)
  PROVE  Pieces(data, n) \in Seq(Range(data))
<1>1. \A i \in 1..n : data[i] \in Range(data)
  BY DEF Range
<1>2. data \in Seq(Range(data))
  BY DEF Range
<1>3. QED
  BY <1>1, <1>2, SubSeqProperties DEF Pieces

LEMMA StreamsStep == Numbers /\ Streams /\ [Next]_vars => Streams'
<1> SUFFICES ASSUME Numbers, Streams, [Next]_vars PROVE Streams'
  OBVIOUS
<1>1. \A w : Say(w) /\ w \in Own => toClient' \in Seq(ToClient)
  BY AppendProperties DEF Streams, Say, ToClient
<1>2. ClientData \in Seq(Text) /\ DestData \in Seq(Text)
  BY TextData
<1>3. CASE First \/ SocksRequest \/ OpenRelative \/ SayFailed \/ Unreachable
  <2>1. toDest' = toDest
    BY <1>3 DEF First, SocksRequest, OpenRelative, SayFailed, Unreachable
  <2>2. toClient' = toClient \/ \E w \in Own : Say(w)
    BY <1>3 DEF First, SocksRequest, OpenRelative, SayFailed, Unreachable, Own
  <2>3. QED
    BY <1>1, <2>1, <2>2 DEF Streams
<1>4. CASE Open
  <2>1. toClient' = toClient \/ \E w \in Own : Say(w)
    BY <1>4 DEF Open, Own
  <2>2. Pieces(ClientData, cTaken) \in Seq(ToDest)
    <3>1. cTaken \in 0..Len(ClientData)
      BY <1>2, LenProperties DEF Numbers
    <3>2. QED
      BY <1>2, <3>1, PiecesOfData, SeqMonotonic DEF ToDest
  <2>3. (IF hello = "get" THEN <<"request">> ELSE <<>>) \in Seq(ToDest)
    <3>1. "request" \in ToDest
      BY DEF ToDest
    <3>2. <<>> \in Seq(ToDest) /\ <<"request">> \in Seq(ToDest)
      BY <3>1
    <3>3. QED
      BY <3>2
  <2>4. toDest' \in Seq(ToDest)
    BY <1>4, <2>2, <2>3, ConcatProperties DEF Open
  <2>5. QED
    BY <1>1, <2>1, <2>4 DEF Streams
<1>5. CASE FromClient
  <2>1. ClientData[cTaken + 1] \in ToDest
    <3>1. cTaken + 1 \in DOMAIN ClientData
      BY <1>2, <1>5, LenProperties DEF FromClient, Numbers
    <3>2. QED
      BY <3>1 DEF ToDest, Range
  <2>2. QED
    BY <1>5, <2>1, AppendProperties DEF FromClient, Streams
<1>6. CASE FromDest
  <2>1. DestData[dTaken + 1] \in ToClient
    <3>1. dTaken + 1 \in DOMAIN DestData
      BY <1>2, <1>6, LenProperties DEF FromDest, Numbers
    <3>2. QED
      BY <3>1 DEF ToClient, Range
  <2>2. QED
    BY <1>6, <2>1, AppendProperties DEF FromDest, Streams
<1>7. CASE InputFails \/ Resolve \/ Dial \/ Connected \/ NotConnected \/ RelayEnds \/ Close \/ SendFails
  BY <1>7 DEF InputFails, Resolve, Dial, Connected, NotConnected, RelayEnds, Close, SendFails,
              Streams, flow
<1>8. CASE \/ ClientHello \/ ClientWant \/ ClientSends \/ ClientEnds \/ DestSends \/ DestEnds
           \/ Listen \/ Accept \/ UNCHANGED vars
  BY <1>8 DEF ClientHello, ClientWant, ClientSends, ClientEnds, DestSends, DestEnds,
              Listen, Accept, vars, Streams, flow
<1>9. QED
  BY <1>3, <1>4, <1>5, <1>6, <1>7, <1>8 DEF Next, Thread

(* Theorem: every variable holds what it is declared for; in particular    *)
(* nothing is sent to either side but the other's data and the proxy's own *)
(* words (TypeOK).                                                         *)
THEOREM TypeCorrect == Spec => []TypeOK
<1> DEFINE Ends == cEnd \in BOOLEAN /\ dEnd \in BOOLEAN
           T == Scalars /\ Numbers /\ Streams /\ Ends
<1>1. Init => T
  <2>1. Len(ClientData) \in Nat /\ Len(DestData) \in Nat
    BY TextData, LenProperties
  <2>2. Init => Scalars /\ Numbers /\ Streams
    BY <2>1, MaxAddressAssumption DEF Init, Scalars, Numbers, Streams, Label, Hello, Want
  <2>3. Init => Ends
    BY DEF Init
  <2>4. QED
    BY <2>2, <2>3
<1>2. T /\ [Next]_vars => T'
  <2>1. Ends /\ [Next]_vars => Ends'
    BY DEF Next, Thread, First, SocksRequest, InputFails, Resolve, Dial, Connected, NotConnected,
           Unreachable, Open, OpenRelative, FromClient, FromDest, RelayEnds, SayFailed, Close,
           SendFails, ClientHello, ClientWant, ClientSends, ClientEnds, DestSends, DestEnds,
           Listen, Accept, vars, ends
  <2>2. QED
    BY <2>1, ScalarsStep, NumbersStep, StreamsStep
<1>3. T => TypeOK
  <2>1. Streams => /\ \A i \in DOMAIN toClient : toClient[i] \in ToClient
                   /\ \A i \in DOMAIN toDest : toDest[i] \in ToDest
    BY DEF Streams
  <2>2. QED
    BY <2>1 DEF Scalars, Numbers, TypeOK, ToClient, ToDest
<1>4. QED
  BY <1>1, <1>2, <1>3, PTL DEF Spec
=============================================================================
