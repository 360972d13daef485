---------------------------- MODULE ServerProofs ----------------------------
(***************************************************************************)
(* The bound on the number of connected clients, for every number of       *)
(* listeners, every bnbt_max_conns, and every order of connections,        *)
(* signals and nested updates.                                             *)
(***************************************************************************)
EXTENDS Server, SequenceTheorems, TLAPS

\* The limit is looked at before the first listener only, and each listener
\* looked at since may have added one client.
Accepting == pc = "accept" => Len(m_vecClients) < giMaxConns + l - 1

ConnInv == TypeOK /\ Accepting /\ ConnBound

-----------------------------------------------------------------------------
(* Lemmas about the list of clients and the backlogs                       *)

\* Erasing the client at a place of the list leaves one client fewer.
LEMMA EraseClient ==
  ASSUME NEW S, NEW s \in Seq(S), NEW i \in 1 .. Len(s)
  PROVE  /\ SubSeq(s, 1, i - 1) \o SubSeq(s, i + 1, Len(s)) \in Seq(S)
         /\ Len(SubSeq(s, 1, i - 1) \o SubSeq(s, i + 1, Len(s))) = Len(s) - 1
<1> DEFINE front == SubSeq(s, 1, i - 1)
           back  == SubSeq(s, i + 1, Len(s))
<1>1. front \in Seq(S) /\ Len(front) = i - 1
  <2>1. \A j \in 1 .. i - 1 : s[j] \in S
    OBVIOUS
  <2>2. 1 \in Int /\ i - 1 \in Int
    OBVIOUS
  <2> QED
    BY <2>1, <2>2, SubSeqProperties
<1>2. back \in Seq(S) /\ Len(back) = Len(s) - i
  <2>1. \A j \in i + 1 .. Len(s) : s[j] \in S
    OBVIOUS
  <2>2. i + 1 \in Int /\ Len(s) \in Int
    OBVIOUS
  <2> QED
    BY <2>1, <2>2, SubSeqProperties
<1>3. front \o back \in Seq(S) /\ Len(front \o back) = Len(front) + Len(back)
  BY <1>1, <1>2, ConcatProperties
<1>4. (i - 1) + (Len(s) - i) = Len(s) - 1
  OBVIOUS
<1> HIDE DEF front, back
<1>5. front \o back \in Seq(S) /\ Len(front \o back) = Len(s) - 1
  BY <1>1, <1>2, <1>3, <1>4
<1> QED
  BY <1>5 DEF front, back

\* Taking the first connection from a listener's backlog.
LEMMA TakeFirst ==
  ASSUME TypeOK, backlog[l] # <<>>,
         backlog' = [backlog EXCEPT ![l] = Tail(@)]
  PROVE  /\ Head(backlog[l]) \in Conn
         /\ backlog' \in [1 .. Listeners -> Seq(Conn)]
<1>1. l \in 1 .. Listeners /\ backlog[l] \in Seq(Conn)
  BY DEF TypeOK
<1>2. Head(backlog[l]) \in Conn /\ Tail(backlog[l]) \in Seq(Conn)
  BY <1>1, HeadTailProperties
<1> QED
  BY <1>1, <1>2 DEF TypeOK

\* The next listener is one of the listeners, or the clients' turn has come.
LEMMA NextListenerType ==
  ASSUME TypeOK, NextListener
  PROVE  /\ pc' \in {"accept", "clients"}
         /\ l' \in 1 .. Listeners
         /\ pc' = "accept" => l' = l + 1
  BY ListenersAssumption DEF TypeOK, NextListener

-----------------------------------------------------------------------------
(* The invariant                                                           *)

LEMMA ConnInit ==
  ASSUME Init
  PROVE  ConnInv
<1>1. m_vecClients \in Seq(Conn) /\ Len(m_vecClients) = 0
  BY DEF Init
<1>2. TypeOK
  <2>1. backlog \in [1 .. Listeners -> Seq(Conn)]
    <3>1. <<>> \in Seq(Conn)
      OBVIOUS
    <3> QED
      BY <3>1 DEF Init
  <2>2. pc = "update" /\ l = 1 /\ c = 1 /\ files = 0
    BY DEF Init
  <2>3. m_bKill \in BOOLEAN /\ nested \in BOOLEAN
    BY Zenon DEF Init
  <2>4. l \in 1 .. Listeners /\ c \in Nat \ {0} /\ files \in 0 .. MaxFiles
    BY <2>2, ListenersAssumption, FilesAssumption
  <2> QED
    BY <1>1, <2>1, <2>2, <2>3, <2>4 DEF TypeOK
<1>3. Accepting /\ ConnBound
  BY <1>1, ListenersAssumption, ConnsAssumption DEF Init, Accepting, ConnBound
<1> QED
  BY <1>2, <1>3 DEF ConnInv

\* A step that accepts nobody, and does not enter the accepting loop elsewhere
\* than at its start.
LEMMA ListenerStep ==
  ASSUME ConnInv, pc = "accept", NextListener,
         m_vecClients' \in Seq(Conn),
         Len(m_vecClients') <= Len(m_vecClients) + 1
  PROVE  Accepting' /\ ConnBound'
<1>1. l \in 1 .. Listeners /\ Len(m_vecClients) < giMaxConns + l - 1
  BY DEF ConnInv, TypeOK, Accepting
<1>2. Len(m_vecClients) \in Nat /\ Len(m_vecClients') \in Nat
  BY DEF ConnInv, TypeOK
<1>3. Len(m_vecClients') < giMaxConns + l
  BY <1>1, <1>2, ListenersAssumption, ConnsAssumption
<1>4. Accepting'
  BY <1>1, <1>3, NextListenerType, ConnsAssumption DEF ConnInv, Accepting
<1>5. ConnBound'
  BY <1>1, <1>2, <1>3, ListenersAssumption, ConnsAssumption DEF ConnBound
<1> QED
  BY <1>4, <1>5

LEMMA ConnStep ==
  ASSUME ConnInv, [Next]_vars
  PROVE  ConnInv'
<1>0. TypeOK /\ Accepting /\ ConnBound
  BY DEF ConnInv
<1>1. CASE BeginUpdate
  <2>1. TypeOK'
    BY <1>0, <1>1, ListenersAssumption DEF BeginUpdate, TypeOK
  <2>2. Accepting'
    <3>1. Len(m_vecClients) \in Nat /\ m_vecClients' = m_vecClients /\ l' = 1
      BY <1>0, <1>1 DEF BeginUpdate, TypeOK
    <3>2. pc' = "accept" => Len(m_vecClients) < giMaxConns
      BY <1>1 DEF BeginUpdate
    <3> QED
      BY <3>1, <3>2, ConnsAssumption DEF Accepting
  <2>3. ConnBound'
    BY <1>0, <1>1 DEF BeginUpdate, ConnBound
  <2> QED
    BY <2>1, <2>2, <2>3 DEF ConnInv
<1>2. CASE Accept
  <2>1. Head(backlog[l]) \in Conn /\ backlog' \in [1 .. Listeners -> Seq(Conn)]
    BY <1>0, <1>2, TakeFirst DEF Accept
  <2>2. m_vecClients' \in Seq(Conn) /\ Len(m_vecClients') = Len(m_vecClients) + 1
    BY <1>0, <1>2, <2>1, AppendProperties DEF Accept, TypeOK
  <2>3. TypeOK'
    BY <1>0, <1>2, <2>1, <2>2, NextListenerType DEF Accept, TypeOK
  <2>4. Len(m_vecClients') <= Len(m_vecClients) + 1
    BY <1>0, <2>2 DEF TypeOK
  <2>5. Accepting' /\ ConnBound'
    BY <1>2, <2>2, <2>4, ListenerStep DEF Accept
  <2> QED
    BY <2>3, <2>5 DEF ConnInv
<1>3. CASE AcceptFails
  <2>1. backlog' \in [1 .. Listeners -> Seq(Conn)]
    BY <1>0, <1>3, TakeFirst DEF AcceptFails
  <2>2. TypeOK'
    BY <1>0, <1>3, <2>1, NextListenerType DEF AcceptFails, TypeOK
  <2>3. m_vecClients' \in Seq(Conn) /\ Len(m_vecClients') <= Len(m_vecClients) + 1
    BY <1>0, <1>3 DEF AcceptFails, TypeOK
  <2>4. Accepting' /\ ConnBound'
    BY <1>3, <2>3, ListenerStep DEF AcceptFails
  <2> QED
    BY <2>2, <2>4 DEF ConnInv
<1>4. CASE NobodyWaits
  <2>1. TypeOK'
    BY <1>0, <1>4, NextListenerType DEF NobodyWaits, TypeOK
  <2>2. m_vecClients' \in Seq(Conn) /\ Len(m_vecClients') <= Len(m_vecClients) + 1
    BY <1>0, <1>4 DEF NobodyWaits, TypeOK
  <2>3. Accepting' /\ ConnBound'
    BY <1>4, <2>2, ListenerStep DEF NobodyWaits
  <2> QED
    BY <2>1, <2>3 DEF ConnInv
<1>5. CASE ClientStays
  <2>1. m_bKill' \in BOOLEAN
    BY <1>0, <1>5, Zenon DEF ClientStays, TypeOK
  <2>2. TypeOK'
    BY <1>0, <1>5, <2>1 DEF ClientStays, TypeOK
  <2>3. Accepting' /\ ConnBound'
    BY <1>0, <1>5 DEF ClientStays, Accepting, ConnBound
  <2> QED
    BY <2>2, <2>3 DEF ConnInv
<1>6. CASE ClientCloses
  <2>1. c \in 1 .. Len(m_vecClients) /\ m_vecClients \in Seq(Conn)
    BY <1>0, <1>6 DEF ClientCloses, TypeOK
  <2>2. m_vecClients' \in Seq(Conn) /\ Len(m_vecClients') = Len(m_vecClients) - 1
    BY <1>6, <2>1, EraseClient DEF ClientCloses
  <2>3. TypeOK'
    BY <1>0, <1>6, <2>2 DEF ClientCloses, TypeOK, loop
  <2>4. Accepting'
    BY <1>6 DEF ClientCloses, Accepting
  <2>5. ConnBound'
    <3>1. Len(m_vecClients) \in Nat
      BY <2>1
    <3> QED
      BY <1>0, <2>2, <3>1, ListenersAssumption, ConnsAssumption DEF ConnBound
  <2> QED
    BY <2>3, <2>4, <2>5 DEF ConnInv
<1>7. CASE EndNestedUpdate
  BY <1>0, <1>7 DEF EndNestedUpdate, ConnInv, TypeOK, Accepting, ConnBound, loop
<1>8. CASE EndUpdate
  BY <1>0, <1>8 DEF EndUpdate, ConnInv, TypeOK, Accepting, ConnBound, loop
<1>9. CASE UpdateTracker
  BY <1>0, <1>9 DEF UpdateTracker, ConnInv, TypeOK, Accepting, ConnBound, loop
<1>10. CASE parseTorrents
  BY <1>0, <1>10 DEF parseTorrents, ConnInv, TypeOK, Accepting, ConnBound
<1>11. CASE ParseFile
  BY <1>0, <1>11, FilesAssumption DEF ParseFile, ConnInv, TypeOK, Accepting, ConnBound
<1>12. CASE ParsedAll
  BY <1>0, <1>12 DEF ParsedAll, ConnInv, TypeOK, Accepting, ConnBound
<1>13. CASE \E k \in Conn, j \in 1 .. Listeners : Arrive(k, j)
  <2>1. PICK k \in Conn, j \in 1 .. Listeners : Arrive(k, j)
    BY <1>13
  <2>2. Append(backlog[j], k) \in Seq(Conn)
    BY <1>0, AppendProperties DEF TypeOK
  <2>3. TypeOK'
    BY <1>0, <2>1, <2>2 DEF Arrive, TypeOK, loop
  <2> QED
    BY <1>0, <2>1, <2>3 DEF Arrive, ConnInv, Accepting, ConnBound, loop
<1>14. CASE sigCatcher
  BY <1>0, <1>14 DEF sigCatcher, ConnInv, TypeOK, Accepting, ConnBound, loop
<1>15. CASE UNCHANGED vars
  BY <1>0, <1>15 DEF vars, loop, ConnInv, TypeOK, Accepting, ConnBound
<1> QED
  BY <1>1, <1>2, <1>3, <1>4, <1>5, <1>6, <1>7, <1>8, <1>9, <1>10, <1>11, <1>12,
     <1>13, <1>14, <1>15 DEF Next, Program

-----------------------------------------------------------------------------
(* Theorems                                                                *)

\* The clients, the flags and the backlogs keep their types through every round.
THEOREM ServerTyped == Spec => []TypeOK
<1>1. ConnInv => TypeOK
  BY DEF ConnInv
<1> QED
  BY <1>1, ConnInit, ConnStep, PTL DEF Spec

\* There are never more clients than bnbt_max_conns and one for each listening
\* port after the first, with any number of ports.
THEOREM ConnectionsBounded == Spec => []ConnBound
<1>1. ConnInv => ConnBound
  BY DEF ConnInv
<1> QED
  BY <1>1, ConnInit, ConnStep, PTL DEF Spec
=============================================================================
