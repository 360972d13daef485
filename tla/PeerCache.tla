----------------------------- MODULE PeerCache -----------------------------
(***************************************************************************)
(* The peers an announce is answered with (tracker_announce.cpp).  The     *)
(* tracker keeps a shuffled list of peers per torrent, m_pCached.  An      *)
(* announce that finds fewer entries than it wants appends every peer of   *)
(* the torrent and shuffles again; then it takes what it wants from the    *)
(* front.  Entries are copies: they outlive the peer they were made from.  *)
(***************************************************************************)
EXTENDS Swarm, Sequences, Functions

CONSTANTS
  BadIP,            \* addresses of IP that are not four octets, as "12" or "1.2"
  NumWant,          \* values of the announce parameter "numwant"
  NoNumWant,        \* the parameter was not sent
  m_iResponseSize,  \* response_size
  m_iMaxGive        \* max_give

ASSUME BadIPAssumption == BadIP \subseteq IP
ASSUME NumWantAssumption == NumWant \subseteq Int \cup {NoNumWant}
ASSUME PeerAssumption == Peer # {}
ASSUME GiveAssumption == m_iResponseSize \in Nat /\ m_iMaxGive \in Nat

VARIABLES
  m_pCached,   \* info hash -> sequence of cached entries
  response,    \* who asked last, and the peers it was given
  passedOver   \* history, read by no step: refills of a torrent's list that had
               \* an entry of the peer since one was last taken from the list

cacheVars == <<m_pCached, response, passedOver>>

Entry == [id : Peer, ip : IP \cup {NoIP}, port : Port \cup {NoPort}]

\* Mutant: the port is not copied.
EntryOfNoPort(p, r) == [id |-> p, ip |-> r.ip]

EntryOf(p, r) == [id |-> p, ip |-> r.ip, port |-> r.port]

-----------------------------------------------------------------------------
(* Populating the list                                                     *)

\* Mutant: numwant, however large, is used as it comes.
RSizeUnclamped(n) ==
  IF n = NoNumWant THEN m_iResponseSize ELSE IF n < 0 THEN m_iMaxGive + 1 ELSE n

\* A negative numwant, read as unsigned, exceeds every max_give.
iRSize(n) ==
  LET wanted == IF n = NoNumWant THEN m_iResponseSize ELSE n
  IN  IF wanted < 0 \/ wanted > m_iMaxGive THEN m_iMaxGive ELSE wanted

\* Seen from announce a, the record r is the announcing peer itself, or both
\* are seeds.
IsOneself(a, r) == r.ip = a.strIP /\ r.port = a.iPort
BothSeeds(a, r) == a.iLeft = 0 /\ r.left = 0

\* The peers of the torrent, after the announce, that are appended to the list.
Appended(a) ==
  LET peers == m_pDFile'[a.strInfoHash]
  IN  {p \in DOMAIN peers : ~ IsOneself(a, peers[p]) /\ ~ BothSeeds(a, peers[p])}

\* The places of the lengthened list: those it had, and one per peer appended.
Places(a, add) ==
  ({0} \X (1 .. Len(m_pCached[a.strInfoHash]))) \cup ({1} \X add)

At(a, place) ==
  IF place[1] = 0 THEN m_pCached[a.strInfoHash][place[2]]
                  ELSE EntryOf(place[2], m_pDFile'[a.strInfoHash][place[2]])

\* Mutant: what was left of the list is thrown away when it is refilled.
RefilledAfresh(a, add) ==
  LET n == Cardinality(add)
  IN  {[i \in 1 .. n |-> EntryOf(f[i], m_pDFile'[a.strInfoHash][f[i]])] :
         f \in Bijection(1 .. n, add)}

\* Every order the lengthened list can be shuffled into.
Refilled(a, add) ==
  LET n == Len(m_pCached[a.strInfoHash]) + Cardinality(add)
  IN  {[i \in 1 .. n |-> At(a, f[i])] : f \in Bijection(1 .. n, Places(a, add))}

\* Mutant: an announce that finds its fill, too, has all peers appended.
RefillDueAlways(a, size) == TRUE

RefillDue(a, size) == Len(m_pCached[a.strInfoHash]) < size

-----------------------------------------------------------------------------
(* Taking peers from the list                                              *)

\* Compact answers hold four octets and a port: entries that have not got them
\* are taken from the list and not handed out.
IsGiven(e, compact) ==
  ~ compact \/ (e.ip \notin BadIP \cup {NoIP} /\ e.port # NoPort)

\* How many of the first k entries of the list are handed out.
Given(list, k, compact) == Cardinality({i \in 1 .. k : IsGiven(list[i], compact)})

\* How many entries are taken: up to the first that completes the answer.
Taken(list, size, compact) ==
  CHOOSE n \in 0 .. Len(list) :
    /\ Given(list, n, compact) >= size \/ n = Len(list)
    /\ \A k \in 0 .. n - 1 : Given(list, k, compact) < size

\* The place of the k-th entry handed out.
PlaceGiven(list, k, compact) ==
  CHOOSE i \in 1 .. Len(list) :
    IsGiven(list[i], compact) /\ Given(list, i, compact) = k

\* What is handed out of the n entries taken, in the list's order.
Answer(list, n, compact) ==
  [k \in 1 .. Given(list, n, compact) |-> list[PlaceGiven(list, k, compact)]]

\* The answer to announce a with the given numwant and compact parameters.
serverResponseAnnounce(a, numwant, compact) ==
  LET h    == a.strInfoHash
      size == iRSize(numwant)
      add  == IF RefillDue(a, size) THEN Appended(a) ELSE {}
  IN  /\ Announce(a)
      /\ \E list \in IF RefillDue(a, size) THEN Refilled(a, add) ELSE {m_pCached[h]} :
           LET n == Taken(list, size, compact)
           IN  /\ m_pCached' = [m_pCached EXCEPT ![h] = SubSeq(list, n + 1, Len(list))]
               /\ response' = [hash |-> h, ip |-> a.strIP, port |-> a.iPort, left |-> a.iLeft,
                               peers |-> Answer(list, n, compact)]
               /\ passedOver' =
                    [passedOver EXCEPT ![h] =
                       [p \in Peer |->
                          IF \E i \in 1 .. n : list[i].id = p THEN 0
                          ELSE IF p \in add THEN passedOver[h][p] + 1
                               ELSE passedOver[h][p]]]

-----------------------------------------------------------------------------
(* Specification                                                           *)

NoResponse == [peers |-> <<>>]

CacheInit ==
  /\ Init
  /\ m_pCached = [h \in Hash |-> <<>>]
  /\ response = NoResponse
  /\ passedOver = [h \in Hash |-> [p \in Peer |-> 0]]

\* The lists live in memory only: a tracker starts without them.
Started ==
  /\ Restart \/ CrashInSave
  /\ m_pCached' = [h \in Hash |-> <<>>]
  /\ response' = NoResponse
  /\ passedOver' = [h \in Hash |-> [p \in Peer |-> 0]]

\* Deletion, parsing, counting and the timers leave the lists as they are.
ListsKept ==
  /\ \/ \E h \in Hash : DeleteTorrent(h) \/ ParseKeepDead(h)
     \/ Recount
     \/ Update
     \/ Tick
  /\ UNCHANGED cacheVars

CacheNext ==
  \/ \E a \in announce_t, numwant \in NumWant, compact \in BOOLEAN :
       serverResponseAnnounce(a, numwant, compact)
  \/ ListsKept
  \/ Started

CacheSpec == CacheInit /\ [][CacheNext]_<<vars, cacheVars>>

-----------------------------------------------------------------------------
(* Properties                                                              *)

\* The lists hold entries.
CacheTypeOK ==
  /\ m_pCached \in [Hash -> Seq(Entry)]
  /\ passedOver \in [Hash -> [Peer -> Nat]]
  /\ response.peers \in Seq(Entry)

\* Between announces a list holds fewer entries than there are peers, however
\* many announces and refills there were, although stale entries are never
\* removed from it: a refill that finds entries left over does not pile up.
CacheBounded == \A h \in Hash : Len(m_pCached[h]) < Cardinality(Peer)

\* No peer starves: of every max_give + 1 refills that had an entry of a peer,
\* one was followed by an answer that took it, however the list is shuffled.
NeverStarved ==
  \A h \in Hash, p \in Peer : passedOver[h][p] <= m_iMaxGive

\* No answer has more peers than max_give (doc/config.html: "the maximum number
\* of peers to include with the announce response"), whatever numwant says.
GiveBounded == Len(response.peers) <= m_iMaxGive

\* tracker_announce.cpp:235, "check for oneself and remove from the list": no
\* peer is given its own address and port.
NotOneself ==
  \A i \in DOMAIN response.peers :
    ~ (response.peers[i].ip = response.ip /\ response.peers[i].port = response.port)
=============================================================================
