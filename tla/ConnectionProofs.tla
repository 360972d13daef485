-------------------------- MODULE ConnectionProofs --------------------------
(***************************************************************************)
(* Why the socket timeout ends only connections whose peer is waited for:  *)
(* a request takes four Updates from the last activity of its peer to the  *)
(* first attempt to send, each at most Slack seconds after the one before. *)
(***************************************************************************)
EXTENDS Connection, TLAPS

\* How long ago the peer was last active, state by state, given that the last
\* Update did not find it not ready.
IdleInv ==
  /\ idle \in Nat /\ late \in 0 .. Slack
  /\ m_iState \in {"CS_RECVHEADERS", "CS_PROCESSHEADERS", "CS_RECVBODY",
                   "CS_MAKERESPONSE", "CS_SEND", "closed"}
  /\ m_iState = "CS_RECVHEADERS" =>
       BlankLines(m_strReceiveBuf) = {} /\ (waited = TRUE \/ idle <= late)
  /\ m_iState = "CS_PROCESSHEADERS" => idle <= late
  /\ m_iState = "CS_RECVBODY" =>
       \/ waited = TRUE /\ ~ (Len(m_strReceiveBuf) > First(m_strReceiveBuf))
       \/ idle <= Slack + late
  /\ m_iState = "CS_MAKERESPONSE" => idle <= 2 * Slack + late
  /\ m_iState = "CS_SEND" => waited = TRUE \/ idle <= 3 * Slack + late

-----------------------------------------------------------------------------
(* The invariant                                                           *)

LEMMA IdleInit ==
  ASSUME Init
  PROVE  IdleInv
  BY TimeAssumption DEF Init, IdleInv, BlankLines

\* Whatever closes the connection leaves nothing to show.
LEMMA IdleClosed ==
  ASSUME IdleInv, Close, late' = 0
  PROVE  IdleInv'
  BY TimeAssumption DEF IdleInv, Close, buffers

LEMMA IdleRecvHeaders ==
  ASSUME IdleInv, RecvHeaders, late' = 0
  PROVE  IdleInv'
<1>1. CASE ReceiveFails
  BY <1>1, IdleClosed DEF ReceiveFails
<1>2. CASE /\ Receive \/ ReceiveNothing
           /\ m_iState' = IF BlankLines(m_strReceiveBuf') # {}
                          THEN "CS_PROCESSHEADERS" ELSE "CS_RECVHEADERS"
  <2>1. late' \in 0 .. Slack
    BY TimeAssumption
  <2>2. CASE Receive
    <3>1. idle' = 0
      BY <2>2 DEF Receive
    <3> QED
      BY <1>2, <2>1, <3>1 DEF IdleInv
  <2>3. CASE ReceiveNothing
    <3>1. BlankLines(m_strReceiveBuf') = {}
      BY <2>3 DEF ReceiveNothing, IdleInv, RecvHeaders
    <3>2. m_iState' = "CS_RECVHEADERS" /\ waited' = TRUE /\ idle' = idle
      BY <1>2, <2>3, <3>1 DEF ReceiveNothing
    <3> QED
      BY <2>1, <3>1, <3>2 DEF IdleInv
  <2> QED
    BY <1>2, <2>2, <2>3
<1> QED
  BY <1>1, <1>2 DEF RecvHeaders

LEMMA IdleProcessHeaders ==
  ASSUME IdleInv, ProcessHeaders, late' = 0
  PROVE  IdleInv'
<1>1. idle' = idle /\ idle \in Nat /\ idle <= Slack
  BY TimeAssumption DEF IdleInv, ProcessHeaders
<1>2. m_iState' \in {"CS_RECVBODY", "CS_MAKERESPONSE"}
  BY DEF ProcessHeaders
<1>3. late' \in 0 .. Slack /\ Slack \in Nat
  BY TimeAssumption
<1> QED
  BY <1>1, <1>2, <1>3 DEF IdleInv

LEMMA IdleRecvBody ==
  ASSUME IdleInv, RecvBody, late' = 0
  PROVE  IdleInv'
<1>1. CASE ReceiveFails
  BY <1>1, IdleClosed DEF ReceiveFails
<1>2. CASE /\ Receive \/ ReceiveNothing
           /\ m_iState' = IF Len(m_strReceiveBuf') > First(m_strReceiveBuf')
                          THEN "CS_MAKERESPONSE" ELSE "CS_RECVBODY"
  <2>1. late' \in 0 .. Slack /\ Slack \in Nat
    BY TimeAssumption
  <2>2. CASE Receive
    <3>1. idle' = 0
      BY <2>2 DEF Receive
    <3> QED
      BY <1>2, <2>1, <3>1 DEF IdleInv
  <2>3. CASE ReceiveNothing
    <3>1. waited' = TRUE /\ idle' = idle /\ m_strReceiveBuf' = m_strReceiveBuf
      BY <2>3 DEF ReceiveNothing
    <3>2. idle \in Nat /\ late \in 0 .. Slack
      BY DEF IdleInv
    <3>3. CASE Len(m_strReceiveBuf) > First(m_strReceiveBuf)
      <4>1. idle <= 2 * Slack
        BY <2>1, <3>2, <3>3 DEF IdleInv, RecvBody
      <4>2. m_iState' = "CS_MAKERESPONSE"
        BY <1>2, <3>1, <3>3
      <4> QED
        BY <2>1, <3>1, <3>2, <4>1, <4>2 DEF IdleInv
    <3>4. CASE ~ (Len(m_strReceiveBuf) > First(m_strReceiveBuf))
      <4>1. m_iState' = "CS_RECVBODY"
        BY <1>2, <3>1, <3>4
      <4> QED
        BY <2>1, <3>1, <3>2, <3>4, <4>1 DEF IdleInv
    <3> QED
      BY <3>3, <3>4
  <2> QED
    BY <1>2, <2>2, <2>3
<1> QED
  BY <1>1, <1>2 DEF RecvBody

LEMMA IdleMakeResponse ==
  ASSUME IdleInv, MakeResponse, late' = 0
  PROVE  IdleInv'
<1>1. Slack \in Nat
  BY TimeAssumption
<1>2. idle' = idle /\ m_iState' = "CS_SEND" /\ m_iState = "CS_MAKERESPONSE"
  BY DEF MakeResponse
<1>3. idle <= 3 * Slack
  BY <1>1, <1>2 DEF IdleInv
<1> QED
  BY <1>1, <1>2, <1>3 DEF IdleInv

LEMMA IdleSend ==
  ASSUME IdleInv, SendNothing \/ SendPart \/ SendRest \/ SendEnds, late' = 0
  PROVE  IdleInv'
<1>0. late' \in 0 .. Slack /\ Slack \in Nat
  BY TimeAssumption
<1>1. CASE SendNothing
  BY <1>0, <1>1 DEF IdleInv, SendNothing
<1>2. CASE SendPart
  BY <1>0, <1>2 DEF IdleInv, SendPart
<1>3. CASE SendRest
  <2>1. m_iState' = "CS_RECVHEADERS" /\ m_strReceiveBuf' = <<>> /\ idle' = 0
    BY <1>3 DEF SendRest, Reset
  <2>2. BlankLines(<<>>) = {}
    BY DEF BlankLines
  <2> QED
    BY <1>0, <2>1, <2>2 DEF IdleInv
<1>4. CASE SendEnds
  BY <1>4, IdleClosed DEF SendEnds
<1> QED
  BY <1>1, <1>2, <1>3, <1>4

LEMMA IdleTick ==
  ASSUME IdleInv, Tick
  PROVE  IdleInv'
<1>1. Slack \in Nat /\ idle \in Nat /\ late \in 0 .. Slack
  BY TimeAssumption DEF IdleInv
<1>2. late' = late + 1 /\ late' \in 0 .. Slack
  BY <1>1 DEF Tick
<1>3. idle' \in Nat /\ idle' <= idle + 1
  BY <1>1, TimeAssumption DEF Tick
<1>4. UNCHANGED <<m_iState, m_strReceiveBuf, waited>>
  BY DEF Tick, buffers
<1> QED
  BY <1>1, <1>2, <1>3, <1>4 DEF IdleInv

LEMMA IdleStep ==
  ASSUME IdleInv, [Next]_vars
  PROVE  IdleInv'
<1>1. CASE TimeOut
  BY <1>1, IdleClosed DEF TimeOut
<1>2. CASE Work
  <2>1. late' = 0
    BY <1>2 DEF Work
  <2>2. CASE Malformed \/ NoContentLength
    BY <2>1, <2>2, IdleClosed DEF Malformed, NoContentLength
  <2> QED
    BY <1>2, <2>1, <2>2, IdleRecvHeaders, IdleProcessHeaders, IdleRecvBody,
       IdleMakeResponse, IdleSend DEF Work
<1>3. CASE Send
  BY <1>3 DEF Send, IdleInv, buffers
<1>4. CASE Disconnect
  BY <1>4 DEF Disconnect, IdleInv, buffers
<1>5. CASE Tick
  BY <1>5, IdleTick
<1>6. CASE UNCHANGED vars
  BY <1>6 DEF vars, buffers, IdleInv
<1> QED
  BY <1>1, <1>2, <1>3, <1>4, <1>5, <1>6 DEF Next, Update

-----------------------------------------------------------------------------
(* Types                                                                   *)

\* What a peer sends, and what is kept of it, are pieces of requests.
Piece == {Begin(r) : r \in Request} \cup {Rest(r) : r \in Request} \cup {Body}

TypeInv ==
  /\ TypeOK
  /\ in \in Seq(Piece) /\ todo \in Seq(Piece) /\ m_strReceiveBuf \in Seq(Piece)

\* The first piece of a request that was received whole says which it is.
LEMMA IntactRequest ==
  ASSUME NEW buf \in Seq(Piece), BlankLines(buf) # {}, Intact(buf)
  PROVE  buf[First(buf)].of \in Request
<1>1. 1 \in DOMAIN buf
  BY DEF BlankLines
<1>2. buf[1] \in Piece
  BY <1>1
<1>3. buf[1].part = "begin" /\ buf[First(buf)].of = buf[1].of
  BY DEF Intact
<1>4. buf[1].of \in Request
  BY <1>2, <1>3 DEF Piece, Begin, Rest, Body
<1> QED
  BY <1>3, <1>4

LEMMA TypeInit ==
  ASSUME Init
  PROVE  TypeInv
  BY TimeAssumption, SizeAssumption DEF Init, TypeInv, TypeOK

LEMMA TypeClosed ==
  ASSUME TypeInv, Close, late' \in 0 .. Slack
  PROVE  TypeInv'
  BY DEF Close, TypeInv, TypeOK, buffers, rqst, peer

\* Receiving leaves pieces, and no more than is allowed.
LEMMA TypeReceive ==
  ASSUME TypeInv, Receive \/ ReceiveNothing
  PROVE  /\ in' \in Seq(Piece) /\ m_strReceiveBuf' \in Seq(Piece)
         /\ Len(m_strReceiveBuf') <= giMaxRecvSize
         /\ idle' \in 0 .. m_iTimeOut + 1
<1>1. CASE Receive
  <2>1. PICK n \in 1 .. Len(in) :
          /\ m_strReceiveBuf' = m_strReceiveBuf \o SubSeq(in, 1, n)
          /\ in' = SubSeq(in, n + 1, Len(in))
    BY <1>1 DEF Receive
  <2>2. in \in Seq(Piece) /\ m_strReceiveBuf \in Seq(Piece)
    BY DEF TypeInv
  <2>3. SubSeq(in, 1, n) \in Seq(Piece) /\ SubSeq(in, n + 1, Len(in)) \in Seq(Piece)
    BY <2>2
  <2>4. idle' = 0 /\ Len(m_strReceiveBuf') <= giMaxRecvSize
    BY <1>1 DEF Receive
  <2> QED
    BY <2>1, <2>2, <2>3, <2>4, TimeAssumption
<1>2. CASE ReceiveNothing
  BY <1>2 DEF ReceiveNothing, TypeInv, TypeOK
<1> QED
  BY <1>1, <1>2

LEMMA TypeWork ==
  ASSUME TypeInv, Work
  PROVE  TypeInv'
<1>1. late' = 0 /\ late' \in 0 .. Slack
  BY TimeAssumption DEF Work
<1>2. CASE Close
  BY <1>1, <1>2, TypeClosed
<1>3. CASE RecvHeaders /\ ~ Close
  <2>1. /\ Receive \/ ReceiveNothing
        /\ m_iState' = IF BlankLines(m_strReceiveBuf') # {}
                       THEN "CS_PROCESSHEADERS" ELSE "CS_RECVHEADERS"
        /\ UNCHANGED <<sendLeft, rqst, todo>>
    BY <1>3 DEF RecvHeaders, ReceiveFails
  <2> QED
    BY <1>1, <2>1, TypeReceive DEF TypeInv, TypeOK
<1>4. CASE ProcessHeaders
  <2>1. /\ m_iState' \in {"CS_RECVBODY", "CS_MAKERESPONSE"}
        /\ m_iState' = "CS_RECVBODY" =>
             /\ Intact(m_strReceiveBuf)
             /\ request' = m_strReceiveBuf[First(m_strReceiveBuf)].of
             /\ request'.POST
        /\ BlankLines(m_strReceiveBuf) # {}
        /\ UNCHANGED <<m_strReceiveBuf, sendLeft, idle, in, todo>>
    BY <1>4 DEF ProcessHeaders, TypeInv, TypeOK, buffers, peer
  <2>2. m_iState' = "CS_RECVBODY" => request' \in Request
    BY <2>1, IntactRequest DEF TypeInv
  <2> QED
    BY <1>1, <2>1, <2>2 DEF TypeInv, TypeOK
<1>5. CASE RecvBody /\ ~ Close
  <2>1. /\ m_iState = "CS_RECVBODY" /\ m_iState' \in {"CS_MAKERESPONSE", "CS_RECVBODY"}
        /\ Receive \/ ReceiveNothing
        /\ UNCHANGED <<sendLeft, request, todo>>
    BY <1>5 DEF RecvBody, ReceiveFails, rqst
  <2> QED
    BY <1>1, <2>1, TypeReceive DEF TypeInv, TypeOK
<1>6. CASE MakeResponse
  BY <1>1, <1>6, SizeAssumption DEF MakeResponse, TypeInv, TypeOK, peer
<1>7. CASE SendNothing
  BY <1>1, <1>7 DEF SendNothing, TypeInv, TypeOK, buffers, peer
<1>8. CASE SendPart
  BY <1>1, <1>8, TimeAssumption, SizeAssumption DEF SendPart, TypeInv, TypeOK, peer
<1>9. CASE SendRest
  BY <1>1, <1>9, TimeAssumption, SizeAssumption DEF SendRest, Reset, TypeInv, TypeOK, peer
<1> QED
  BY <1>2, <1>3, <1>4, <1>5, <1>6, <1>7, <1>8, <1>9
     DEF Work, Malformed, NoContentLength, SendEnds

LEMMA TypeSend ==
  ASSUME TypeInv, Send
  PROVE  TypeInv'
<1>1. PICK pieces \in IF todo = <<>> THEN {Pieces(r) : r \in Request} ELSE {todo} :
        in' = Append(in, Head(pieces)) /\ todo' = Tail(pieces)
  BY DEF Send
<1>2. pieces \in Seq(Piece) /\ pieces # <<>>
  <2>1. CASE todo = <<>>
    <3>1. PICK r \in Request : pieces = Pieces(r)
      BY <1>1, <2>1
    <3>2. Begin(r) \in Piece /\ Rest(r) \in Piece /\ Body \in Piece
      BY DEF Piece
    <3>3. <<Begin(r), Rest(r)>> \in Seq(Piece) /\ <<Body>> \in Seq(Piece) /\ <<>> \in Seq(Piece)
      BY <3>2
    <3> QED
      BY <3>1, <3>3 DEF Pieces
  <2>2. CASE todo # <<>>
    BY <1>1, <2>2 DEF TypeInv
  <2> QED
    BY <2>1, <2>2
<1>3. in' \in Seq(Piece) /\ todo' \in Seq(Piece)
  BY <1>1, <1>2 DEF TypeInv
<1> QED
  BY <1>3 DEF Send, TypeInv, TypeOK, buffers, rqst

LEMMA TypeStep ==
  ASSUME TypeInv, [Next]_vars
  PROVE  TypeInv'
<1>1. CASE TimeOut
  BY <1>1, TypeClosed, TimeAssumption DEF TimeOut
<1>2. CASE Work
  BY <1>2, TypeWork
<1>3. CASE Send
  BY <1>3, TypeSend
<1>4. CASE Disconnect
  BY <1>4 DEF Disconnect, TypeInv, TypeOK, buffers, rqst
<1>5. CASE Tick
  BY <1>5, TimeAssumption DEF Tick, TypeInv, TypeOK, buffers, rqst, peer
<1>6. CASE UNCHANGED vars
  BY <1>6 DEF vars, buffers, rqst, peer, TypeInv, TypeOK
<1> QED
  BY <1>1, <1>2, <1>3, <1>4, <1>5, <1>6 DEF Next, Update

-----------------------------------------------------------------------------
(* Parameters                                                              *)

\* Between requests there are no parameters, and while one is worked on they are its
\* own; multiParams is nowhere said to be.
ParamsInv ==
  /\ m_iState \in {"CS_RECVHEADERS", "CS_PROCESSHEADERS"} => mapParams = {}
  /\ m_iState \in {"CS_RECVBODY", "CS_MAKERESPONSE"} /\ request # Garbage =>
       (~ request.scrape => mapParams = request.params)
  /\ OwnParameters

LEMMA ParamsInit ==
  ASSUME Init
  PROVE  ParamsInv
  BY DEF Init, ParamsInv, OwnParameters

LEMMA ParamsStep ==
  ASSUME ParamsInv, [Next]_vars
  PROVE  ParamsInv'
<1>1. CASE Close
  BY <1>1 DEF Close, ParamsInv, OwnParameters
<1>2. CASE RecvHeaders /\ ~ Close
  <2>1. /\ m_iState = "CS_RECVHEADERS"
        /\ m_iState' \in {"CS_RECVHEADERS", "CS_PROCESSHEADERS"}
        /\ mapParams' = mapParams
    BY <1>2 DEF RecvHeaders, ReceiveFails, rqst
  <2> QED
    BY <2>1 DEF ParamsInv, OwnParameters
<1>3. CASE ProcessHeaders
  <2>1. /\ m_iState' \in {"CS_RECVBODY", "CS_MAKERESPONSE"} /\ m_iState = "CS_PROCESSHEADERS"
        /\ request' # Garbage /\ ~ request'.scrape => mapParams' = mapParams \cup request'.params
    BY <1>3 DEF ProcessHeaders
  <2> QED
    BY <2>1 DEF ParamsInv, OwnParameters
<1>4. CASE RecvBody /\ ~ Close
  <2>1. /\ m_iState = "CS_RECVBODY"
        /\ m_iState' \in {"CS_RECVBODY", "CS_MAKERESPONSE"}
        /\ mapParams' = mapParams /\ request' = request
    BY <1>4 DEF RecvBody, ReceiveFails, rqst
  <2> QED
    BY <2>1 DEF ParamsInv, OwnParameters
<1>5. CASE MakeResponse
  BY <1>5 DEF MakeResponse, Answered, rqst, ParamsInv, OwnParameters
<1>6. CASE SendNothing \/ SendPart
  BY <1>6 DEF SendNothing, SendPart, rqst, ParamsInv, OwnParameters
<1>7. CASE SendRest
  BY <1>7 DEF SendRest, Reset, ParamsInv, OwnParameters
<1>8. CASE Send \/ Disconnect \/ Tick \/ UNCHANGED vars
  BY <1>8 DEF Send, Disconnect, Tick, vars, rqst, ParamsInv, OwnParameters
<1> QED
  BY <1>1, <1>2, <1>3, <1>4, <1>5, <1>6, <1>7, <1>8
     DEF Next, Update, TimeOut, Work, Malformed, NoContentLength, SendEnds

-----------------------------------------------------------------------------
(* Theorems                                                                *)

\* A connection that has passed socket_timeout is one whose peer was not ready
\* when it was last looked at.
LEMMA TimedOutWaits ==
  ASSUME IdleInv, TimeOut
  PROVE  waited = TRUE
<1>1. /\ m_iTimeOut \in Nat /\ Slack \in Nat /\ 4 * Slack <= m_iTimeOut
      /\ idle \in Nat /\ late \in 0 .. Slack /\ idle > m_iTimeOut
  BY TimeAssumption DEF IdleInv, TimeOut, TimedOut
<1>2. /\ idle > Slack + late
      /\ idle > 2 * Slack + late
      /\ idle > 3 * Slack + late
      /\ idle > late
  BY <1>1
<1>3. m_iState # "closed"
  BY DEF TimeOut
<1> QED
  BY <1>1, <1>2, <1>3 DEF IdleInv

\* The socket timeout ends a connection only when the last Update found its peer
\* not ready, for every socket_timeout of at least four rounds of the loop: what
\* had arrived by then was read, and what came after it may be lost.
THEOREM TimeoutIsForTheIdle == Spec => OnlyWaitingTimeOut
<1>1. IdleInv /\ [Next]_vars => [TimeOut => waited]_vars
  BY TimedOutWaits
<1> QED
  BY <1>1, IdleInit, IdleStep, PTL DEF Spec, OnlyWaitingTimeOut

\* States, buffers and times keep to their types and limits, whatever a peer sends
\* and in whatever pieces.
THEOREM TypeCorrect == Spec => []TypeOK
<1>1. TypeInv => TypeOK
  BY DEF TypeInv
<1> QED
  BY <1>1, TypeInit, TypeStep, PTL DEF Spec

\* No request is answered with the parameters of an earlier one, however many
\* requests a connection carries and however they are pipelined or cut.
THEOREM ParametersAreOwn == Spec => []OwnParameters
<1>1. ParamsInv => OwnParameters
  BY DEF ParamsInv
<1> QED
  BY <1>1, ParamsInit, ParamsStep, PTL DEF Spec
=============================================================================
