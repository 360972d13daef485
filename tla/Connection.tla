----------------------------- MODULE Connection -----------------------------
(***************************************************************************)
(* One client connection (client.cpp): the states CClient::Update takes it *)
(* through, what it keeps from one request to the next on a Keep-Alive     *)
(* connection, and the socket timeout.  Connections share only a buffer    *)
(* that is cleared before each use, so one is enough.  The peer sends its  *)
(* requests in pieces, may send the next before it has the last answer,    *)
(* and may stop reading, stop sending or disconnect at any moment.         *)
(***************************************************************************)
EXTENDS Integers, Sequences

CONSTANTS
  Hash,            \* info hashes a request can name
  Request,         \* requests a peer can make
  AllTorrents,     \* stands for every torrent in the answer to a full scrape
  Garbage,         \* what a request reads as when its beginning was lost
  m_iTimeOut,      \* socket_timeout
  giMaxRecvSize,   \* bnbt_max_recv_size, in pieces
  MaxSend,         \* bound: calls of send an answer takes
  Slack,           \* seconds that may pass between two Updates of a connection
  MaxIn            \* bound: pieces sent and not yet received

\* What the tracker reads of a request.
ASSUME RequestAssumption ==
  Request \subseteq [POST : BOOLEAN, scrape : BOOLEAN, hasParams : BOOLEAN,
                     params : SUBSET Hash, keepAlive : BOOLEAN, hasLength : BOOLEAN]
ASSUME GarbageAssumption == Garbage \notin Request /\ AllTorrents \notin Hash
ASSUME TimeAssumption == m_iTimeOut \in Nat /\ Slack \in Nat /\ 4 * Slack <= m_iTimeOut
ASSUME SizeAssumption == giMaxRecvSize \in Nat /\ MaxSend \in Nat \ {0} /\ MaxIn \in Nat

VARIABLES
  m_iState,          \* CS_..., or "closed" once Update has returned true
  m_strReceiveBuf,   \* pieces received since the last Reset
  sendLeft,          \* calls of send that m_strSendBuf still takes
  m_bKeepAlive,
  request,           \* the request being worked on
  mapParams, multiParams, hasQuery,    \* members of rqst
  rsp,               \* the info hashes the answer was made from
  idle,              \* GetTime( ) - m_iLast, up to one more than m_iTimeOut
  late,              \* seconds since the last Update
  waited,            \* history: the last Update found the socket not ready
  in,                \* pieces sent by the peer and not yet received
  todo,              \* pieces of the peer's current request not yet sent
  gone               \* the peer has disconnected

buffers == <<m_strReceiveBuf, sendLeft>>
rqst == <<request, mapParams, multiParams, hasQuery>>
peer == <<in, todo, gone>>
vars == <<m_iState, buffers, m_bKeepAlive, rqst, rsp, idle, late, waited, peer>>

NoRequest == [none |-> TRUE]

-----------------------------------------------------------------------------
(* The peer                                                                *)

\* A request arrives in two parts, the second with the blank line, and a body.
Begin(r) == [part |-> "begin", of |-> r]
Rest(r) == [part |-> "rest", of |-> r]
Body == [part |-> "body"]

Pieces(r) == <<Begin(r), Rest(r)>> \o IF r.POST /\ r.hasLength THEN <<Body>> ELSE <<>>

Send ==
  /\ ~ gone
  /\ Len(in) < MaxIn
  /\ \E pieces \in IF todo = <<>> THEN {Pieces(r) : r \in Request} ELSE {todo} :
       /\ in' = Append(in, Head(pieces))
       /\ todo' = Tail(pieces)
  /\ UNCHANGED <<m_iState, buffers, m_bKeepAlive, rqst, rsp, idle, late, waited, gone>>

Disconnect ==
  /\ ~ gone
  /\ gone' = TRUE
  /\ UNCHANGED <<m_iState, buffers, m_bKeepAlive, rqst, rsp, idle, late, waited, in, todo>>

-----------------------------------------------------------------------------
(* Receiving                                                               *)

readable == in # <<>> \/ gone

\* Update returns true: the server deletes the connection.
Close ==
  /\ m_iState' = "closed"
  /\ UNCHANGED <<buffers, m_bKeepAlive, rqst, rsp, idle, waited, peer>>

\* The places of the blank lines in what has been received.
BlankLines(buf) == {i \in DOMAIN buf : buf[i].part = "rest"}

First(buf) == CHOOSE i \in BlankLines(buf) : \A j \in BlankLines(buf) : i <= j

\* select says not ready: nothing is received.
ReceiveNothing ==
  /\ ~ readable
  /\ waited' = TRUE
  /\ UNCHANGED <<m_strReceiveBuf, idle, in>>

\* Mutant: the time of the last activity is not noted.
ReceiveUntimed ==
  /\ in # <<>>
  /\ waited' = FALSE
  /\ \E n \in 1 .. Len(in) :
       /\ m_strReceiveBuf' = m_strReceiveBuf \o SubSeq(in, 1, n)
       /\ in' = SubSeq(in, n + 1, Len(in))
  /\ Len(m_strReceiveBuf') <= giMaxRecvSize
  /\ UNCHANGED idle

\* Mutant: what has been received is not limited.
ReceiveUnlimited ==
  /\ in # <<>>
  /\ idle' = 0
  /\ waited' = FALSE
  /\ \E n \in 1 .. Len(in) :
       /\ m_strReceiveBuf' = m_strReceiveBuf \o SubSeq(in, 1, n)
       /\ in' = SubSeq(in, n + 1, Len(in))

\* One recv: some of the pieces that have arrived.
Receive ==
  /\ in # <<>>
  /\ idle' = 0
  /\ waited' = FALSE
  /\ \E n \in 1 .. Len(in) :
       /\ m_strReceiveBuf' = m_strReceiveBuf \o SubSeq(in, 1, n)
       /\ in' = SubSeq(in, n + 1, Len(in))
  /\ Len(m_strReceiveBuf') <= giMaxRecvSize

\* select or recv fails, recv says that the peer has gone, or takes more than is
\* allowed.
ReceiveFails == Close

RecvHeaders ==
  /\ m_iState = "CS_RECVHEADERS"
  /\ \/ ReceiveFails
     \/ /\ Receive \/ ReceiveNothing
        /\ m_iState' = IF BlankLines(m_strReceiveBuf') # {}
                       THEN "CS_PROCESSHEADERS" ELSE "CS_RECVHEADERS"
        /\ UNCHANGED <<sendLeft, m_bKeepAlive, rqst, rsp, todo, gone>>

-----------------------------------------------------------------------------
(* Working on a request                                                    *)

\* The request is intact when what was received begins with its beginning.
Intact(buf) == First(buf) = 2 /\ buf[1].part = "begin" /\ buf[1].of = buf[2].of

ProcessHeaders ==
  /\ m_iState = "CS_PROCESSHEADERS"
  /\ waited' = FALSE
  /\ UNCHANGED <<buffers, m_bKeepAlive, rsp, idle, peer>>
  /\ LET r == m_strReceiveBuf[First(m_strReceiveBuf)].of
     IN  IF Intact(m_strReceiveBuf)
         THEN /\ request' = r
              /\ hasQuery' = (hasQuery \/ r.hasParams)
              /\ IF r.scrape
                 THEN /\ multiParams' = multiParams \cup r.params
                      /\ UNCHANGED mapParams
                 ELSE /\ mapParams' = mapParams \cup r.params
                      /\ UNCHANGED multiParams
              /\ m_iState' = IF r.POST THEN "CS_RECVBODY" ELSE "CS_MAKERESPONSE"
         ELSE /\ request' = Garbage
              /\ hasQuery' \in {hasQuery, TRUE}
              /\ UNCHANGED <<mapParams, multiParams>>
              /\ m_iState' = "CS_MAKERESPONSE"

\* A request whose method or URL cannot be found ends the connection.
Malformed ==
  /\ m_iState = "CS_PROCESSHEADERS"
  /\ ~ Intact(m_strReceiveBuf)
  /\ Close

\* The body is there when anything follows the first blank line.
RecvBody ==
  /\ m_iState = "CS_RECVBODY"
  /\ \/ ReceiveFails
     \/ /\ request.hasLength
        /\ Receive \/ ReceiveNothing
        /\ m_iState' = IF Len(m_strReceiveBuf') > First(m_strReceiveBuf')
                       THEN "CS_MAKERESPONSE" ELSE "CS_RECVBODY"
        /\ UNCHANGED <<sendLeft, m_bKeepAlive, rqst, rsp, todo, gone>>

NoContentLength ==
  /\ m_iState = "CS_RECVBODY"
  /\ ~ request.hasLength
  /\ Close

\* The torrents the answer is about: serverResponseScrape for a scrape, the other
\* pages by mapParams, and "400 Bad Request" for an unknown method.
Answered ==
  IF request = Garbage THEN {}
  ELSE IF ~ request.scrape THEN mapParams
  ELSE IF hasQuery THEN multiParams ELSE {AllTorrents}

MakeResponse ==
  /\ m_iState = "CS_MAKERESPONSE"
  /\ rsp' = Answered
  /\ m_bKeepAlive' \in IF request = Garbage THEN BOOLEAN ELSE {request.keepAlive}
  /\ sendLeft' \in 1 .. MaxSend
  /\ m_iState' = "CS_SEND"
  /\ waited' = FALSE
  /\ UNCHANGED <<m_strReceiveBuf, rqst, idle, peer>>

-----------------------------------------------------------------------------
(* Sending                                                                 *)

\* Mutant: the parameters of the request are kept.
ResetKeepsParams ==
  /\ m_iState' = "CS_RECVHEADERS"
  /\ m_strReceiveBuf' = <<>>
  /\ sendLeft' = 0
  /\ request' = NoRequest
  /\ rsp' = {}
  /\ UNCHANGED <<mapParams, multiParams, hasQuery>>

\* The next request starts afresh, except for multiParams and hasQuery.
Reset ==
  /\ m_iState' = "CS_RECVHEADERS"
  /\ m_strReceiveBuf' = <<>>
  /\ sendLeft' = 0
  /\ request' = NoRequest
  /\ mapParams' = {}
  /\ rsp' = {}
  /\ UNCHANGED <<multiParams, hasQuery>>

\* Mutant: looking whether the peer reads counts as activity.
SendNothingTouches ==
  /\ m_iState = "CS_SEND"
  /\ waited' = TRUE
  /\ idle' = 0
  /\ UNCHANGED <<m_iState, buffers, m_bKeepAlive, rqst, rsp, peer>>

\* The peer does not read: nothing can be sent.
SendNothing ==
  /\ m_iState = "CS_SEND"
  /\ waited' = TRUE
  /\ UNCHANGED <<m_iState, buffers, m_bKeepAlive, rqst, rsp, idle, peer>>

SendPart ==
  /\ m_iState = "CS_SEND"
  /\ sendLeft > 1
  /\ sendLeft' = sendLeft - 1
  /\ idle' = 0
  /\ waited' = FALSE
  /\ UNCHANGED <<m_iState, m_strReceiveBuf, m_bKeepAlive, rqst, rsp, peer>>

SendRest ==
  /\ m_iState = "CS_SEND"
  /\ sendLeft = 1
  /\ m_bKeepAlive
  /\ Reset
  /\ idle' = 0
  /\ waited' = FALSE
  /\ UNCHANGED <<m_bKeepAlive, peer>>

\* send fails, or has sent an answer after which the connection is closed.
SendEnds ==
  /\ m_iState = "CS_SEND"
  /\ Close

-----------------------------------------------------------------------------
(* CClient::Update, and time                                               *)

TimedOut == idle > m_iTimeOut

TimeOut ==
  /\ m_iState # "closed"
  /\ TimedOut
  /\ Close
  /\ late' = 0

Work ==
  /\ ~ TimedOut
  /\ \/ RecvHeaders
     \/ ProcessHeaders
     \/ Malformed
     \/ RecvBody
     \/ NoContentLength
     \/ MakeResponse
     \/ SendNothing
     \/ SendPart
     \/ SendRest
     \/ SendEnds
  /\ late' = 0

Update == TimeOut \/ Work

\* A second passes.  The server updates every connection in every round of its
\* loop, and a round takes at most Slack seconds.
Tick ==
  /\ m_iState # "closed"
  /\ late < Slack
  /\ late' = late + 1
  /\ idle' = IF idle > m_iTimeOut THEN idle ELSE idle + 1
  /\ UNCHANGED <<m_iState, buffers, m_bKeepAlive, rqst, rsp, waited, peer>>

-----------------------------------------------------------------------------
(* Specification                                                           *)

\* No code gives hasQuery and m_bKeepAlive a first value.
Init ==
  /\ m_iState = "CS_RECVHEADERS"
  /\ m_strReceiveBuf = <<>>
  /\ sendLeft = 0
  /\ m_bKeepAlive \in BOOLEAN
  /\ request = NoRequest
  /\ mapParams = {}
  /\ multiParams = {}
  /\ hasQuery \in BOOLEAN
  /\ rsp = {}
  /\ idle = 0
  /\ late = 0
  /\ waited = FALSE
  /\ in = <<>>
  /\ todo = <<>>
  /\ gone = FALSE

Next == Update \/ Send \/ Disconnect \/ Tick

\* The main loop never stops calling Update, and time passes.
Fairness == WF_vars(Update) /\ WF_vars(Tick)

Spec == Init /\ [][Next]_vars /\ Fairness

-----------------------------------------------------------------------------
(* Properties                                                              *)

\* The next state for which Update has work to do, and no more sent or received
\* than the limits allow.
TypeOK ==
  /\ m_iState \in {"CS_RECVHEADERS", "CS_PROCESSHEADERS", "CS_RECVBODY",
                   "CS_MAKERESPONSE", "CS_SEND", "closed"}
  /\ m_iState = "CS_PROCESSHEADERS" => BlankLines(m_strReceiveBuf) # {}
  /\ m_iState = "CS_RECVBODY" => request \in Request /\ request.POST
  /\ Len(m_strReceiveBuf) <= giMaxRecvSize
  /\ sendLeft \in 0 .. MaxSend
  /\ idle \in 0 .. m_iTimeOut + 1
  /\ late \in 0 .. Slack

\* No request is answered with the parameters of an earlier request on the same
\* connection, whatever was pipelined or lost between them (a GET or POST that is
\* not a scrape; see ScrapesAsAsked).
OwnParameters ==
  m_iState = "CS_SEND" /\ request # Garbage =>
    (~ request.scrape => rsp = request.params)

\* The timeout ends a connection only when the last Update looked at its socket
\* and found it not ready, so that no request is dropped while it is read, worked
\* on or answered: what had arrived by that look was read, as long as the loop
\* comes round in a quarter of socket_timeout (doc/config.html: "closing inactive
\* connections").  What arrives after that look is not safe: the next Update tests
\* the age before it looks again (client.cpp:64) and may drop it unread.
OnlyWaitingTimeOut == [][TimeOut => waited]_vars

\* Every request leads back to a connection that waits for the next one, or to
\* its end, even when the peer stops sending or reading in the middle.
NeverStuck ==
  m_iState # "CS_RECVHEADERS" ~> m_iState \in {"CS_RECVHEADERS", "closed"}

\* A scrape that names torrents is answered for just these (bnbt.h, "Adding
\* Support for Multiple scrapes in a single /scrape call"), and one without
\* parameters for all torrents (tracker_scrape.cpp, "full scrape").
ScrapesAsAsked ==
  m_iState = "CS_SEND" /\ request # Garbage /\ request.scrape =>
    rsp = IF request.hasParams THEN request.params ELSE {AllTorrents}
=============================================================================
