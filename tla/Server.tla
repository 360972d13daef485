------------------------------- MODULE Server -------------------------------
(***************************************************************************)
(* The main loop (bnbt.cpp) and CServer::Update (server.cpp): accepting    *)
(* connections from several listening ports up to bnbt_max_conns, updating *)
(* every client in turn, and shutting down.  While the tracker parses the  *)
(* allowed directory it calls CServer::Update once per file, so an Update  *)
(* runs inside the other.  What a client does in its Update is the subject *)
(* of Connection; here it stays, is closed, or is the admin's "kill".      *)
(***************************************************************************)
EXTENDS Integers, Sequences

CONSTANTS
  Conn,         \* connections peers make
  Listeners,    \* number of listening ports
  giMaxConns,   \* bnbt_max_conns
  MaxFiles      \* bound: entries of the allowed directory

ASSUME ListenersAssumption == Listeners \in Nat \ {0}
ASSUME ConnsAssumption == giMaxConns \in Nat \ {0}
ASSUME FilesAssumption == MaxFiles \in Nat

VARIABLES
  pc,             \* where the program is
  m_vecClients,   \* the connected clients
  m_bKill,        \* Kill( ) has been called
  l,              \* the listener to look at next
  c,              \* the client to update next
  nested,         \* the CServer::Update in progress was called by parseTorrents
  files,          \* entries of the allowed directory parseTorrents has yet to read
  backlog         \* per listener, the connections not yet accepted

loop == <<l, c, nested, files>>
vars == <<pc, m_vecClients, m_bKill, loop, backlog>>

-----------------------------------------------------------------------------
(* CServer::Update                                                         *)

\* Mutant: the comparison includes the limit.
BeginUpdateIncludes ==
  /\ pc = "update"
  /\ pc' = IF Len(m_vecClients) <= giMaxConns THEN "accept" ELSE "clients"
  /\ l' = 1
  /\ c' = 1
  /\ UNCHANGED <<m_vecClients, m_bKill, nested, files, backlog>>

\* The limit is looked at once, for all listeners.
BeginUpdate ==
  /\ pc = "update"
  /\ pc' = IF Len(m_vecClients) < giMaxConns THEN "accept" ELSE "clients"
  /\ l' = 1
  /\ c' = 1
  /\ UNCHANGED <<m_vecClients, m_bKill, nested, files, backlog>>

\* Mutant: one listener more than there is.
NextListenerOneMore ==
  IF l <= Listeners THEN pc' = "accept" /\ l' = l + 1
                    ELSE pc' = "clients" /\ l' = 1

NextListener ==
  IF l < Listeners THEN pc' = "accept" /\ l' = l + 1
                   ELSE pc' = "clients" /\ l' = 1

\* Mutant: the limit is looked at for each listener.
AcceptLimited ==
  /\ pc = "accept"
  /\ backlog[l] # <<>>
  /\ IF Len(m_vecClients) < giMaxConns
     THEN /\ backlog' = [backlog EXCEPT ![l] = Tail(@)]
          /\ m_vecClients' = Append(m_vecClients, Head(backlog[l]))
     ELSE UNCHANGED <<backlog, m_vecClients>>
  /\ NextListener
  /\ UNCHANGED <<m_bKill, c, nested, files>>

\* At most one connection is accepted per listener.
Accept ==
  /\ pc = "accept"
  /\ backlog[l] # <<>>
  /\ backlog' = [backlog EXCEPT ![l] = Tail(@)]
  /\ m_vecClients' = Append(m_vecClients, Head(backlog[l]))
  /\ NextListener
  /\ UNCHANGED <<m_bKill, c, nested, files>>

\* accept returns an error: the connection is lost.
AcceptFails ==
  /\ pc = "accept"
  /\ backlog[l] # <<>>
  /\ backlog' = [backlog EXCEPT ![l] = Tail(@)]
  /\ NextListener
  /\ UNCHANGED <<m_vecClients, m_bKill, c, nested, files>>

NobodyWaits ==
  /\ pc = "accept"
  /\ backlog[l] = <<>>
  /\ NextListener
  /\ UNCHANGED <<m_vecClients, m_bKill, c, nested, files, backlog>>

\* A client's Update returns false; it may have been the admin page's "kill".
ClientStays ==
  /\ pc = "clients"
  /\ c <= Len(m_vecClients)
  /\ m_bKill' \in {m_bKill, TRUE}
  /\ c' = c + 1
  /\ UNCHANGED <<pc, m_vecClients, l, nested, files, backlog>>

\* It returns true: the client is erased, and the next one takes its place.
ClientCloses ==
  /\ pc = "clients"
  /\ c <= Len(m_vecClients)
  /\ m_vecClients' = SubSeq(m_vecClients, 1, c - 1)
                       \o SubSeq(m_vecClients, c + 1, Len(m_vecClients))
  /\ UNCHANGED <<pc, m_bKill, loop, backlog>>

\* Mutant: who asks for the flag takes it.
EndNestedUpdateTakes ==
  /\ pc = "clients"
  /\ c > Len(m_vecClients)
  /\ nested
  /\ pc' = "parse"
  /\ m_bKill' = FALSE
  /\ UNCHANGED <<m_vecClients, loop, backlog>>

\* Update returns m_bKill to parseTorrents, which does not look at it.
EndNestedUpdate ==
  /\ pc = "clients"
  /\ c > Len(m_vecClients)
  /\ nested
  /\ pc' = "parse"
  /\ UNCHANGED <<m_vecClients, m_bKill, loop, backlog>>

\* The main loop ends when Update returns true; the clients are deleted.
EndUpdate ==
  /\ pc = "clients"
  /\ c > Len(m_vecClients)
  /\ ~ nested
  /\ pc' = IF m_bKill THEN "exit" ELSE "tracker"
  /\ UNCHANGED <<m_vecClients, m_bKill, loop, backlog>>

-----------------------------------------------------------------------------
(* CTracker::Update                                                        *)

\* The timers that do not call the server.
UpdateTracker ==
  /\ pc = "tracker"
  /\ pc' = "update"
  /\ UNCHANGED <<m_vecClients, m_bKill, loop, backlog>>

parseTorrents ==
  /\ pc = "tracker"
  /\ pc' = "parse"
  /\ files' \in 0 .. MaxFiles
  /\ UNCHANGED <<m_vecClients, m_bKill, l, c, nested, backlog>>

\* The server is updated before each entry of the directory is looked at.
ParseFile ==
  /\ pc = "parse"
  /\ files > 0
  /\ files' = files - 1
  /\ nested' = TRUE
  /\ pc' = "update"
  /\ UNCHANGED <<m_vecClients, m_bKill, l, c, backlog>>

ParsedAll ==
  /\ pc = "parse"
  /\ files = 0
  /\ nested' = FALSE
  /\ pc' = "update"
  /\ UNCHANGED <<m_vecClients, m_bKill, l, c, files, backlog>>

-----------------------------------------------------------------------------
(* Peers and signals                                                       *)

Ended == {"exit", "exit(1)"}

Connected(k) ==
  \/ \E i \in DOMAIN m_vecClients : m_vecClients[i] = k
  \/ \E j \in 1 .. Listeners : \E i \in DOMAIN backlog[j] : backlog[j][i] = k

Arrive(k, j) ==
  /\ pc \notin Ended
  /\ ~ Connected(k)
  /\ backlog' = [backlog EXCEPT ![j] = Append(@, k)]
  /\ UNCHANGED <<pc, m_vecClients, m_bKill, loop>>

\* The first signal asks for the end, the next one ends the process at once.
sigCatcher ==
  /\ pc \notin Ended
  /\ m_bKill' = TRUE
  /\ pc' = IF m_bKill THEN "exit(1)" ELSE pc
  /\ UNCHANGED <<m_vecClients, loop, backlog>>

-----------------------------------------------------------------------------
(* Specification                                                           *)

Init ==
  /\ pc = "update"
  /\ m_vecClients = <<>>
  /\ m_bKill = FALSE
  /\ l = 1
  /\ c = 1
  /\ nested = FALSE
  /\ files = 0
  /\ backlog = [j \in 1 .. Listeners |-> <<>>]

\* The program's own steps.
Program ==
  \/ BeginUpdate
  \/ Accept
  \/ AcceptFails
  \/ NobodyWaits
  \/ ClientStays
  \/ ClientCloses
  \/ EndNestedUpdate
  \/ EndUpdate
  \/ UpdateTracker
  \/ parseTorrents
  \/ ParseFile
  \/ ParsedAll

Next ==
  \/ Program
  \/ \E k \in Conn, j \in 1 .. Listeners : Arrive(k, j)
  \/ sigCatcher

\* The process runs.  Nothing is assumed of its clients, of peers or of signals.
Spec == Init /\ [][Next]_vars /\ WF_vars(Program)

-----------------------------------------------------------------------------
(* Properties                                                              *)

TypeOK ==
  /\ pc \in {"update", "accept", "clients", "tracker", "parse", "exit", "exit(1)"}
  /\ m_vecClients \in Seq(Conn)
  /\ m_bKill \in BOOLEAN
  /\ l \in 1 .. Listeners
  /\ c \in Nat \ {0}
  /\ nested \in BOOLEAN
  /\ files \in 0 .. MaxFiles
  /\ backlog \in [1 .. Listeners -> Seq(Conn)]

\* doc/config.html:48 says of bnbt_max_conns, "the maximum number of simultaneous
\* connections to open".
MaxConns == Len(m_vecClients) <= giMaxConns

\* What the code keeps to: however connections arrive, and through the updates
\* nested in a parse, there are never more clients than bnbt_max_conns and one per
\* further listener.
ConnBound == Len(m_vecClients) < giMaxConns + Listeners

\* Every connection is accepted (or fails) in time: a connection that waits at
\* any listener does not wait for ever while there is room in round after round.
Waits(k, j) == \E i \in DOMAIN backlog[j] : backlog[j][i] = k
NoListenerStarves ==
  []<>(pc = "accept" /\ l = 1) =>
    \A k \in Conn, j \in 1 .. Listeners : Waits(k, j) ~> ~ Waits(k, j)

\* Once the tracker is killed, from a signal or the admin page, at any point of
\* the loop or of a parse, it does exit, whatever peers do meanwhile.
KillStops == m_bKill ~> pc \in Ended
=============================================================================
