---------------------------- MODULE SwarmProofs ----------------------------
(***************************************************************************)
(* Theorems about Swarm: its types, that every tracked peer is timed, the  *)
(* bounds on how long a silent peer is kept, and the address counts.       *)
(***************************************************************************)
EXTENDS Swarm, DataTheorems

-----------------------------------------------------------------------------
(* Dictionaries                                                            *)

\* A dictionary that was not there is created empty, and well typed.
LEMMA GetItemType ==
  ASSUME NEW K, NEW L, NEW V, NEW d, IsTable(d, K, L, V), NEW k
  PROVE  IsDicti(getItem(d, k, EmptyDicti), L, V)
BY DEF IsTable, IsDicti, getItem, EmptyDicti

\* The facts of DataTheorems for a dictionary of dictionaries.
LEMMA SetTableType ==
  ASSUME NEW K, NEW L, NEW V, NEW d, IsTable(d, K, L, V), NEW k \in K,
         NEW v, IsDicti(v, L, V)
  PROVE  IsTable(setItem(d, k, v), K, L, V)
<1> DEFINE e == setItem(d, k, v)
<1>1. DOMAIN e = DOMAIN d \cup {k}
  BY DEF setItem
<1>2. DOMAIN e \subseteq K
  BY <1>1 DEF IsTable
<1>3. e = [j \in DOMAIN e |-> e[j]]
  BY DEF setItem
<1>4. ASSUME NEW j \in DOMAIN e PROVE IsDicti(e[j], L, V)
  BY <1>1 DEF setItem, IsTable
<1> QED
  BY <1>2, <1>3, <1>4 DEF IsTable

\* Removing a torrent's table keeps the type of the table of tables.
LEMMA DelTableType ==
  ASSUME NEW K, NEW L, NEW V, NEW d, IsTable(d, K, L, V), NEW k
  PROVE  IsTable(delItem(d, k), K, L, V)
<1> DEFINE e == delItem(d, k)
<1>1. /\ DOMAIN e = DOMAIN d \ {k}
      /\ e = [j \in DOMAIN e |-> e[j]]
  BY DEF delItem
<1>2. ASSUME NEW j \in DOMAIN e PROVE IsDicti(e[j], L, V)
  BY <1>1 DEF delItem, IsTable
<1> QED
  BY <1>1, <1>2 DEF IsTable

\* Erasing torrents' tables in a loop keeps the type of the table of tables.
LEMMA KeepTableType ==
  ASSUME NEW K, NEW L, NEW V, NEW d, IsTable(d, K, L, V), NEW S
  PROVE  IsTable(keepItems(d, S), K, L, V)
<1> DEFINE e == keepItems(d, S)
<1>1. /\ DOMAIN e = DOMAIN d \cap S
      /\ e = [j \in DOMAIN e |-> e[j]]
  BY DEF keepItems
<1>2. ASSUME NEW j \in DOMAIN e PROVE IsDicti(e[j], L, V)
  BY <1>1 DEF keepItems, IsTable
<1> QED
  BY <1>1, <1>2 DEF IsTable

\* The empty dictionary has every type.
LEMMA EmptyTableType ==
  ASSUME NEW K, NEW L, NEW V
  PROVE  IsTable(EmptyDicti, K, L, V) /\ IsDicti(EmptyDicti, L, V)
BY DEF IsTable, IsDicti, EmptyDicti

-----------------------------------------------------------------------------
(* Types                                                                   *)

\* The tables the handlers fetch, or create empty, are well typed.
LEMMA PeersOfType ==
  ASSUME TypeOK, NEW h
  PROVE  IsDicti(PeersOf(h), Peer, Record) /\ IsDicti(TimesOf(h), Peer, Nat)
BY GetItemType DEF TypeOK, IsPeerTable, PeersOf, TimesOf

\* A known peer keeps a well typed record; a new record is one.
LEMMA NewRecordType ==
  ASSUME TypeOK, NEW a \in announce_t
  PROVE  NewRecord(a) \in Record
<1>1. CASE IsKnown(a)
  <2>1. PeersOf(a.strInfoHash)[a.strPeerID] \in Record
    BY PeersOfType, <1>1 DEF IsKnown, IsDicti
  <2> QED
    BY <1>1, <2>1 DEF NewRecord, Record, announce_t
<1>2. CASE ~ IsKnown(a)
  BY <1>2 DEF NewRecord, Record, announce_t
<1> QED
  BY <1>1, <1>2

\* The peers at one address are finitely many, so they can be counted.
LEMMA EntriesFinite ==
  ASSUME NEW db, NEW i
  PROVE  IsFiniteSet(EntriesAt(db, i)) /\ Cardinality(EntriesAt(db, i)) \in Nat
<1>1. IsFiniteSet(Hash \X Peer)
  BY FiniteAssumption, FS_Product
<1>2. EntriesAt(db, i) \subseteq Hash \X Peer
  BY DEF EntriesAt
<1> QED
  BY <1>1, <1>2, FS_Subset, FS_CardinalityType

\* What CountUniquePeers builds is a count for every address.
LEMMA CountType ==
  ASSUME NEW db
  PROVE  CountUniquePeers(db) \in [IP -> Nat]
BY EntriesFinite DEF CountUniquePeers

\* AddUniquePeer and RemoveUniquePeer keep counts natural numbers.
LEMMA AddRemoveType ==
  ASSUME NEW ips \in [IP -> Nat], NEW i
  PROVE  AddUniquePeer(ips, i) \in [IP -> Nat] /\ RemoveUniquePeer(ips, i) \in [IP -> Nat]
<1>1. CASE i \in IP
  BY <1>1 DEF AddUniquePeer, RemoveUniquePeer
<1>2. CASE i \notin IP
  BY <1>2 DEF AddUniquePeer, RemoveUniquePeer
<1> QED
  BY <1>1, <1>2

\* So does a known peer's move to another address.
LEMMA MovedType ==
  ASSUME TypeOK, NEW a \in announce_t
  PROVE  Moved(a) \in [IP -> Nat]
BY AddRemoveType DEF TypeOK, Moved

\* The tables after the expiry loops have the types of the tables before.
LEMMA SurvivorsType ==
  ASSUME TypeOK
  PROVE  IsPeerTable(Survivors) /\ IsTable(SurvivingTimes, Hash, Peer, Nat)
<1>1. ASSUME NEW h \in DOMAIN Survivors PROVE IsDicti(Survivors[h], Peer, Record)
  <2>1. IsDicti(m_pDFile[h], Peer, Record)
    BY DEF Survivors, TypeOK, IsPeerTable, IsTable
  <2> QED
    BY <2>1, KeepItemsType DEF Survivors
<1>2. ASSUME NEW h \in DOMAIN SurvivingTimes
      PROVE  IsDicti(SurvivingTimes[h], Peer, Nat)
  <2>1. IsDicti(m_pTimeDicti[h], Peer, Nat)
    BY DEF SurvivingTimes, TypeOK, IsTable
  <2> QED
    BY <2>1, KeepItemsType DEF SurvivingTimes
<1>3. DOMAIN Survivors \subseteq Hash /\ DOMAIN SurvivingTimes \subseteq Hash
  BY DEF Survivors, SurvivingTimes, TypeOK, IsPeerTable, IsTable
<1>4. /\ Survivors = [h \in DOMAIN Survivors |-> Survivors[h]]
      /\ SurvivingTimes = [h \in DOMAIN SurvivingTimes |-> SurvivingTimes[h]]
  BY DEF Survivors, SurvivingTimes
<1> QED
  BY <1>1, <1>2, <1>3, <1>4 DEF IsPeerTable, IsTable

\* d is what the constructor can load.
LoadableOK(d) ==
  /\ d = [peers |-> d.peers, completed |-> d.completed]
  /\ IsPeerTable(d.peers)
  /\ d.completed \in [Hash -> Nat]

\* Whatever a cut save leaves can be loaded.
LEMMA CutFilesType ==
  ASSUME TypeOK, CutDFile
  PROVE  LoadableOK(disk')
<1>1. ASSUME NEW H PROVE IsPeerTable(WholeTorrents(H))
  BY KeepTableType DEF TypeOK, IsPeerTable, WholeTorrents
<1>2. ASSUME NEW t, IsPeerTable(t) PROVE LoadableOK(CutFile(t))
  BY <1>2 DEF LoadableOK, CutFile, TypeOK
<1>3. CASE disk' = NoDFile
  BY <1>3, EmptyTableType DEF LoadableOK, NoDFile, IsPeerTable
<1>4. CASE \E H \in SUBSET DOMAIN m_pDFile : disk' = CutFile(WholeTorrents(H))
  BY <1>1, <1>2, <1>4
<1>5. ASSUME NEW h \in DOMAIN m_pDFile, NEW H, NEW P
      PROVE  /\ IsDicti(keepItems(m_pDFile[h], P), Peer, Record)
             /\ h \in Hash
             /\ LoadableOK(CutFile(CutTorrent(H, h, P)))
  <2>1. IsDicti(m_pDFile[h], Peer, Record) /\ h \in Hash
    BY DEF TypeOK, IsPeerTable, IsTable
  <2>2. IsDicti(keepItems(m_pDFile[h], P), Peer, Record)
    BY <2>1, KeepItemsType
  <2>3. IsPeerTable(CutTorrent(H, h, P))
    BY <1>1, <2>1, <2>2, SetTableType DEF IsPeerTable, CutTorrent
  <2> QED
    BY <1>2, <2>1, <2>2, <2>3
<1>6. ASSUME NEW h \in DOMAIN m_pDFile, NEW p \in DOMAIN m_pDFile[h], NEW H, NEW P,
             NEW r \in CutRecords(m_pDFile[h][p])
      PROVE  LoadableOK(CutFile(CutRecord(H, h, P, p, r)))
  <2>1. m_pDFile[h][p] \in Record /\ p \in Peer
    BY DEF TypeOK, IsPeerTable, IsTable, IsDicti
  <2>2. r \in Record
    BY <2>1, SentinelAssumption DEF CutRecords, Record
  <2>3. IsDicti(setItem(keepItems(m_pDFile[h], P), p, r), Peer, Record)
    BY <1>5, <2>1, <2>2, SetItemType
  <2>4. IsPeerTable(CutRecord(H, h, P, p, r))
    BY <1>1, <1>5, <2>3, SetTableType DEF IsPeerTable, CutRecord
  <2> QED
    BY <1>2, <2>4
<1> QED
  BY <1>3, <1>4, <1>5, <1>6 DEF CutDFile

\* The constructor builds well typed tables from whatever it loads.
LEMMA LoadType ==
  ASSUME NEW d, LoadableOK(d), Load(d), disk' = d
  PROVE  TypeOK'
<1>1. IsTable(m_pTimeDicti', Hash, Peer, Nat)
  BY DEF Load, LoadableOK, IsPeerTable, IsTable, IsDicti
<1>2. m_pIPs' \in [IP -> Nat]
  BY CountType DEF Load
<1> QED
  BY <1>1, <1>2, IntervalAssumption, SaveAssumption
     DEF Load, LoadableOK, TypeOK

\* An announce that adds or refreshes a peer keeps the types.
LEMMA AnnouncePeerType ==
  ASSUME TypeOK, NEW a \in announce_t, AnnouncePeer(a)
  PROVE  TypeOK'
<1> DEFINE h == a.strInfoHash
           p == a.strPeerID
<1>1. h \in Hash /\ p \in Peer
  BY DEF announce_t
<1>2. IsPeerTable(m_pDFile')
  <2>1. IsDicti(setItem(PeersOf(h), p, NewRecord(a)), Peer, Record)
    BY <1>1, PeersOfType, NewRecordType, SetItemType
  <2> QED
    BY <1>1, <2>1, SetTableType DEF AnnouncePeer, TypeOK, IsPeerTable
<1>3. IsTable(m_pTimeDicti', Hash, Peer, Nat)
  <2>1. IsDicti(setItem(TimesOf(h), p, now), Peer, Nat)
    BY <1>1, PeersOfType, SetItemType DEF TypeOK
  <2> QED
    BY <1>1, <2>1, SetTableType DEF AnnouncePeer, TypeOK
<1>4. m_pIPs' \in [IP -> Nat]
  BY MovedType, AddRemoveType DEF AnnouncePeer, TypeOK, Counted
<1>5. m_pCompleted' \in [Hash -> Nat]
  BY DEF AnnouncePeer, TypeOK
<1> QED
  BY <1>2, <1>3, <1>4, <1>5 DEF AnnouncePeer, TypeOK, timers

\* So does a "stopped" from a peer that shows its key.
LEMMA AnnounceStoppedType ==
  ASSUME TypeOK, NEW a \in announce_t, AnnounceStopped(a)
  PROVE  TypeOK'
<1> DEFINE h == a.strInfoHash
           p == a.strPeerID
<1>1. h \in Hash /\ p \in Peer
  BY DEF announce_t
<1>2. IsPeerTable(m_pDFile')
  <2>1. IsDicti(delItem(PeersOf(h), p), Peer, Record)
    BY PeersOfType, DelItemType
  <2> QED
    BY <1>1, <2>1, SetTableType DEF AnnounceStopped, TypeOK, IsPeerTable
<1>3. IsTable(m_pTimeDicti', Hash, Peer, Nat)
  <2>1. IsDicti(delItem(TimesOf(h), p), Peer, Nat)
    BY PeersOfType, DelItemType
  <2> QED
    BY <1>1, <2>1, SetTableType DEF AnnounceStopped, TypeOK
<1>4. m_pIPs' \in [IP -> Nat]
  BY MovedType, AddRemoveType DEF AnnounceStopped, TypeOK, Counted
<1> QED
  BY <1>2, <1>3, <1>4 DEF AnnounceStopped, TypeOK, timers

\* The tables after expireDownloaders are well typed, with and without keep_dead.
LEMMA ExpireType ==
  ASSUME TypeOK, expireDownloaders
  PROVE  /\ IsPeerTable(m_pDFile')
         /\ IsTable(m_pTimeDicti', Hash, Peer, Nat)
         /\ m_pIPs' \in [IP -> Nat]
         /\ m_iPrevTime' \in Nat
<1>1. IsPeerTable(m_pDFile')
  BY SurvivorsType, KeepTableType DEF expireDownloaders, IsPeerTable
<1>2. IsTable(m_pTimeDicti', Hash, Peer, Nat)
  BY SurvivorsType, KeepTableType DEF expireDownloaders
<1> QED
  BY <1>1, <1>2, CountType DEF expireDownloaders, TypeOK

\* Every step keeps the types.
LEMMA TypeStep ==
  ASSUME TypeOK, [Next]_vars
  PROVE  TypeOK'
<1>1. CASE \E a \in announce_t : Announce(a)
  <2>1. PICK a \in announce_t : Announce(a)
    BY <1>1
  <2>2. CASE AnnouncePeer(a)
    BY <2>2, AnnouncePeerType
  <2>3. CASE AnnounceStopped(a)
    BY <2>3, AnnounceStoppedType
  <2>4. CASE AnnounceStoppedUnknown(a)
    <3>1. a.strInfoHash \in Hash
      BY DEF announce_t
    <3>2. IsPeerTable(m_pDFile')
      BY <2>4, <3>1, PeersOfType, SetTableType
         DEF AnnounceStoppedUnknown, TypeOK, IsPeerTable
    <3> QED
      BY <2>4, <3>2 DEF AnnounceStoppedUnknown, TypeOK, timers
  <2> QED
    BY <2>1, <2>2, <2>3, <2>4 DEF Announce
<1>2. CASE \E h \in Hash : DeleteTorrent(h)
  <2>1. IsPeerTable(m_pDFile')
    BY <1>2, DelTableType DEF DeleteTorrent, TypeOK, IsPeerTable
  <2> QED
    BY <1>2, <2>1 DEF DeleteTorrent, TypeOK, timers
<1>3. CASE \E h \in Hash : ParseKeepDead(h)
  <2>1. IsPeerTable(m_pDFile')
    BY <1>3, EmptyTableType, SetTableType DEF ParseKeepDead, TypeOK, IsPeerTable
  <2> QED
    BY <1>3, <2>1 DEF ParseKeepDead, TypeOK, timers
<1>4. CASE Recount
  BY <1>4, CountType DEF Recount, TypeOK, timers
<1>5. CASE Update
  <2>1. LoadableOK(disk') /\ m_iSaveDFileNext' \in Nat
    BY <1>5, CutFilesType, SaveAssumption DEF Update, saveDFile, LoadableOK, TypeOK
  <2>2. CASE ExpireDue
    <3>1. expireDownloaders /\ m_iDownloaderTimeOutNext' \in Nat
      BY <1>5, <2>2, IntervalAssumption DEF Update, TypeOK
    <3> QED
      BY <1>5, <2>1, <3>1, ExpireType DEF Update, LoadableOK, TypeOK
  <2>3. CASE ~ ExpireDue
    BY <1>5, <2>1, <2>3 DEF Update, LoadableOK, TypeOK
  <2> QED
    BY <2>2, <2>3
<1>6. CASE Tick
  BY <1>6 DEF Tick, TypeOK, tables, timers
<1>7. CASE Restart
  BY <1>7, LoadType DEF Restart, TypeOK, LoadableOK
<1>8. CASE CrashInSave
  BY <1>8, CutFilesType, LoadType DEF CrashInSave
<1>9. CASE UNCHANGED vars
  BY <1>9 DEF vars, tables, timers, TypeOK
<1> QED
  BY <1>1, <1>2, <1>3, <1>4, <1>5, <1>6, <1>7, <1>8, <1>9 DEF Next, Handler

\* The tables the constructor starts with are well typed.
LEMMA TypeInit ==
  ASSUME Init
  PROVE  TypeOK
BY EmptyTableType, IntervalAssumption, SaveAssumption
   DEF Init, TypeOK, IsPeerTable, NoDFile

\* Every table always holds what the code stores in it, through announces,
\* expiries, saves, restarts and saves cut by a crash.
THEOREM TypeCorrect == Spec => []TypeOK
BY TypeInit, TypeStep, PTL DEF Spec

-----------------------------------------------------------------------------
(* Time                                                                    *)

\* How the clock, the last expiry and the timer of the next one are related.
ClockOK ==
  /\ m_iPrevTime <= now + 1
  /\ m_iDownloaderTimeOutNext <= m_iPrevTime + m_iDownloaderTimeOutInterval
  /\ m_iPrevTime + m_iDownloaderTimeOutInterval <= m_iDownloaderTimeOutNext + 1
  /\ now <= m_iDownloaderTimeOutNext + Slack + 1

\* A tracked peer announced at most one late interval before the last expiry.
Recent(h, p) ==
  m_iPrevTime <= m_pTimeDicti[h][p] + m_iDownloaderTimeOutInterval + Slack + 1

TimedAndRecent ==
  \A h \in DOMAIN m_pDFile : \A p \in DOMAIN m_pDFile[h] :
    Tracked(m_pTimeDicti, h, p) /\ Recent(h, p)

TimeInv == TypeOK /\ ClockOK /\ TimedAndRecent

\* The time stored for a tracked and timed peer is a number of seconds.
LEMMA TimeType ==
  ASSUME TypeOK, NEW h, NEW p, Tracked(m_pTimeDicti, h, p)
  PROVE  m_pTimeDicti[h][p] \in Nat
BY DEF TypeOK, IsTable, IsDicti, Tracked

\* The constructor: times 0, last expiry 1, timer one interval.
LEMMA LoadTime ==
  ASSUME NEW d, LoadableOK(d), Load(d)
  PROVE  ClockOK' /\ TimedAndRecent'
<1>1. ClockOK'
  BY IntervalAssumption, SlackAssumption DEF Load, ClockOK
<1>2. ASSUME NEW h \in DOMAIN m_pDFile', NEW p \in DOMAIN m_pDFile'[h]
      PROVE  Tracked(m_pTimeDicti', h, p) /\ m_pTimeDicti'[h][p] = 0
  BY DEF Load, Tracked
<1>3. m_iPrevTime' = 1
  BY DEF Load
<1>4. ASSUME NEW h \in DOMAIN m_pDFile', NEW p \in DOMAIN m_pDFile'[h]
      PROVE  Recent(h, p)'
  BY <1>2, <1>3, IntervalAssumption, SlackAssumption DEF Recent
<1> QED
  BY <1>1, <1>2, <1>4 DEF TimedAndRecent

\* What remains after expireDownloaders announced since the previous expiry.
LEMMA ExpireKeepsRecent ==
  ASSUME TimeInv, expireDownloaders,
         NEW h \in DOMAIN m_pDFile', NEW p \in DOMAIN m_pDFile'[h]
  PROVE  /\ Tracked(m_pTimeDicti', h, p)
         /\ m_pTimeDicti'[h][p] \in Nat
         /\ m_iPrevTime <= m_pTimeDicti'[h][p]
<1>1. /\ h \in DOMAIN Survivors
      /\ m_pDFile'[h] = Survivors[h]
      /\ ~ m_bKeepDead => h \in Hash \ Dead
  BY DEF expireDownloaders, keepItems
<1>2. /\ h \in DOMAIN m_pDFile
      /\ p \in DOMAIN m_pDFile[h]
      /\ p \notin Expired(h)
  BY <1>1 DEF Survivors, keepItems
<1>3. p \in Peer
  BY <1>2 DEF TimeInv, TypeOK, IsPeerTable, IsTable, IsDicti
<1>4. Tracked(m_pTimeDicti, h, p) /\ m_pTimeDicti[h][p] \in Nat
  BY <1>2, TimeType DEF TimeInv, TimedAndRecent
<1>5. m_iPrevTime <= m_pTimeDicti[h][p]
  BY <1>2, <1>4 DEF Expired, TimesOf, getItem, Tracked, TimeInv, TypeOK
<1>6. /\ h \in DOMAIN SurvivingTimes
      /\ p \in DOMAIN SurvivingTimes[h]
      /\ SurvivingTimes[h][p] = m_pTimeDicti[h][p]
  BY <1>2, <1>3, <1>4 DEF SurvivingTimes, keepItems, Tracked
<1>7. h \in DOMAIN m_pTimeDicti' /\ m_pTimeDicti'[h] = SurvivingTimes[h]
  BY <1>1, <1>6 DEF expireDownloaders, keepItems
<1> QED
  BY <1>4, <1>5, <1>6, <1>7 DEF Tracked

\* An announce stores the peer's record and its time together.
LEMMA AnnouncePeerTime ==
  ASSUME TimeInv, NEW a \in announce_t, AnnouncePeer(a)
  PROVE  TimedAndRecent'
<1> SUFFICES ASSUME NEW h \in DOMAIN m_pDFile', NEW p \in DOMAIN m_pDFile'[h]
             PROVE  Tracked(m_pTimeDicti', h, p) /\ Recent(h, p)'
  BY DEF TimedAndRecent
<1> m_iPrevTime' = m_iPrevTime
  BY DEF AnnouncePeer, timers
<1>1. CASE h = a.strInfoHash /\ p = a.strPeerID
  <2>1. Tracked(m_pTimeDicti', h, p) /\ m_pTimeDicti'[h][p] = now
    BY <1>1 DEF AnnouncePeer, setItem, Tracked
  <2> QED
    BY <2>1, IntervalAssumption, SlackAssumption
       DEF TimeInv, TypeOK, ClockOK, Recent
<1>2. CASE ~ (h = a.strInfoHash /\ p = a.strPeerID)
  <2>1. h \in DOMAIN m_pDFile /\ p \in DOMAIN m_pDFile[h]
    BY <1>2 DEF AnnouncePeer, setItem, PeersOf, getItem, EmptyDicti
  <2>2. Tracked(m_pTimeDicti, h, p) /\ Recent(h, p)
    BY <2>1 DEF TimeInv, TimedAndRecent
  <2>3. Tracked(m_pTimeDicti', h, p) /\ m_pTimeDicti'[h][p] = m_pTimeDicti[h][p]
    BY <1>2, <2>2 DEF AnnouncePeer, setItem, TimesOf, getItem, Tracked
  <2> QED
    BY <2>2, <2>3 DEF Recent
<1> QED
  BY <1>1, <1>2

\* A "stopped" removes them together.
LEMMA AnnounceStoppedTime ==
  ASSUME TimeInv, NEW a \in announce_t, AnnounceStopped(a)
  PROVE  TimedAndRecent'
<1> SUFFICES ASSUME NEW h \in DOMAIN m_pDFile', NEW p \in DOMAIN m_pDFile'[h]
             PROVE  Tracked(m_pTimeDicti', h, p) /\ Recent(h, p)'
  BY DEF TimedAndRecent
<1> m_iPrevTime' = m_iPrevTime
  BY DEF AnnounceStopped, timers
<1>1. /\ h \in DOMAIN m_pDFile /\ p \in DOMAIN m_pDFile[h]
      /\ ~ (h = a.strInfoHash /\ p = a.strPeerID)
  BY DEF AnnounceStopped, setItem, delItem, PeersOf, getItem, EmptyDicti
<1>2. Tracked(m_pTimeDicti, h, p) /\ Recent(h, p)
  BY <1>1 DEF TimeInv, TimedAndRecent
<1>3. Tracked(m_pTimeDicti', h, p) /\ m_pTimeDicti'[h][p] = m_pTimeDicti[h][p]
  BY <1>1, <1>2 DEF AnnounceStopped, setItem, delItem, TimesOf, getItem, Tracked
<1> QED
  BY <1>2, <1>3 DEF Recent

\* A handler that adds no peer and leaves times and timers alone.
LEMMA NoPeerAdded ==
  ASSUME TimeInv, UNCHANGED <<m_pTimeDicti, m_iPrevTime>>,
         \A h \in DOMAIN m_pDFile' : \A p \in DOMAIN m_pDFile'[h] :
           h \in DOMAIN m_pDFile /\ p \in DOMAIN m_pDFile[h]
  PROVE  TimedAndRecent'
BY DEF TimeInv, TimedAndRecent, Tracked, Recent

\* Every step keeps the relations between times and timers.
LEMMA TimeStep ==
  ASSUME TimeInv, [Next]_vars
  PROVE  TimeInv'
<1>0. TypeOK'
  BY TypeStep DEF TimeInv
<1>1. CASE \E a \in announce_t : Announce(a)
  <2>1. PICK a \in announce_t : Announce(a)
    BY <1>1
  <2>2. ClockOK'
    BY <2>1 DEF TimeInv, ClockOK, Announce, AnnouncePeer, AnnounceStopped,
                AnnounceStoppedUnknown, timers
  <2>3. TimedAndRecent'
    <3>1. CASE AnnounceStoppedUnknown(a)
      BY <3>1, NoPeerAdded
         DEF AnnounceStoppedUnknown, timers, setItem, PeersOf, getItem, EmptyDicti
    <3> QED
      BY <2>1, <3>1, AnnouncePeerTime, AnnounceStoppedTime DEF Announce
  <2> QED
    BY <1>0, <2>2, <2>3 DEF TimeInv
<1>2. CASE \E h \in Hash : DeleteTorrent(h)
  <2>1. TimedAndRecent'
    BY <1>2, NoPeerAdded DEF DeleteTorrent, delItem, timers
  <2> QED
    BY <1>0, <1>2, <2>1 DEF DeleteTorrent, TimeInv, ClockOK, timers
<1>3. CASE \E h \in Hash : ParseKeepDead(h)
  <2>1. TimedAndRecent'
    BY <1>3, NoPeerAdded DEF ParseKeepDead, setItem, EmptyDicti, timers
  <2> QED
    BY <1>0, <1>3, <2>1 DEF ParseKeepDead, TimeInv, ClockOK, timers
<1>4. CASE Recount
  <2>1. TimedAndRecent'
    BY <1>4, NoPeerAdded DEF Recount, timers
  <2> QED
    BY <1>0, <1>4, <2>1 DEF Recount, TimeInv, ClockOK, timers
<1>5. CASE Update
  <2>1. CASE ExpireDue
    <3>1. /\ expireDownloaders
          /\ m_iPrevTime' = now
          /\ now' = now
          /\ m_iDownloaderTimeOutNext' = now + m_iDownloaderTimeOutInterval
      BY <1>5, <2>1 DEF Update, expireDownloaders
    <3>2. ClockOK'
      BY <3>1, IntervalAssumption, SlackAssumption DEF TimeInv, TypeOK, ClockOK
    <3>3. ASSUME NEW h \in DOMAIN m_pDFile', NEW p \in DOMAIN m_pDFile'[h]
          PROVE  Tracked(m_pTimeDicti', h, p) /\ Recent(h, p)'
      <4>1. /\ Tracked(m_pTimeDicti', h, p)
            /\ m_pTimeDicti'[h][p] \in Nat
            /\ m_iPrevTime <= m_pTimeDicti'[h][p]
        BY <3>1, ExpireKeepsRecent
      <4>2. now <= m_iPrevTime + m_iDownloaderTimeOutInterval + Slack + 1
        BY IntervalAssumption, SlackAssumption DEF TimeInv, TypeOK, ClockOK
      <4> QED
        BY <3>1, <4>1, <4>2, IntervalAssumption, SlackAssumption
           DEF Recent, TimeInv, TypeOK
    <3> QED
      BY <1>0, <3>2, <3>3 DEF TimeInv, TimedAndRecent
  <2>2. CASE ~ ExpireDue
    <3>1. TimedAndRecent'
      BY <1>5, <2>2, NoPeerAdded DEF Update
    <3> QED
      BY <1>0, <1>5, <2>2, <3>1 DEF Update, TimeInv, ClockOK
  <2> QED
    BY <2>1, <2>2
<1>6. CASE Tick
  <2>1. TimedAndRecent'
    BY <1>6, NoPeerAdded DEF Tick, tables, timers
  <2>2. ClockOK'
    BY <1>6, IntervalAssumption, SlackAssumption
       DEF Tick, timers, TimeInv, TypeOK, ClockOK
  <2> QED
    BY <1>0, <2>1, <2>2 DEF TimeInv
<1>7. CASE Restart
  BY <1>0, <1>7, LoadTime DEF Restart, TimeInv, TypeOK, LoadableOK
<1>8. CASE CrashInSave
  BY <1>0, <1>8, CutFilesType, LoadTime DEF CrashInSave, TimeInv
<1>9. CASE UNCHANGED vars
  <2>1. TimedAndRecent'
    BY <1>9, NoPeerAdded DEF vars, tables, timers
  <2> QED
    BY <1>0, <1>9, <2>1 DEF vars, timers, TimeInv, ClockOK
<1> QED
  BY <1>1, <1>2, <1>3, <1>4, <1>5, <1>6, <1>7, <1>8, <1>9 DEF Next, Handler

\* The constructor's clocks satisfy the time invariant, with no peer tracked.
LEMMA TimeInit ==
  ASSUME Init
  PROVE  TimeInv
<1>1. TypeOK
  BY TypeInit
<1> QED
  BY <1>1, IntervalAssumption, SlackAssumption
     DEF Init, TimeInv, ClockOK, TimedAndRecent, EmptyDicti

\* The time invariant holds in every state of the specification.
LEMMA TimeAlways == Spec => []TimeInv
BY TimeInit, TimeStep, PTL DEF Spec

\* No tracked peer ever lacks a time, so expireDownloaders, which walks the
\* times, sees all of them.
THEOREM PeersTimed == Spec => []EveryPeerTimed
<1>1. TimeInv => EveryPeerTimed
  BY DEF TimeInv, TimedAndRecent, Tracked, EveryPeerTimed
<1> QED
  BY <1>1, TimeAlways, PTL

\* What the time invariant says of the age of a peer.
LEMMA SilenceBound ==
  ASSUME TimeInv, NEW h \in DOMAIN m_pDFile, NEW p \in DOMAIN m_pDFile[h]
  PROVE  now - m_pTimeDicti[h][p] <= 2 * (m_iDownloaderTimeOutInterval + Slack + 1)
<1>1. Tracked(m_pTimeDicti, h, p) /\ Recent(h, p)
  BY DEF TimeInv, TimedAndRecent
<1>2. m_pTimeDicti[h][p] \in Nat
  BY <1>1, TimeType DEF TimeInv
<1> QED
  BY <1>1, <1>2, IntervalAssumption, SlackAssumption
     DEF TimeInv, TypeOK, ClockOK, Recent

\* A silent peer is dropped within two late timeout intervals.
THEOREM SilentPeersExpire == Spec => []SilenceBounded
<1>1. TimeInv => SilenceBounded
  BY SilenceBound DEF SilenceBounded
<1> QED
  BY <1>1, TimeAlways, PTL

\* Who the timers drop was silent for longer than the timeout.
LEMMA DroppedWasSilent ==
  ASSUME TimeInv, Update,
         NEW h \in DOMAIN m_pDFile, NEW p \in DOMAIN m_pDFile[h],
         ~ Tracked(m_pDFile', h, p)
  PROVE  now - m_pTimeDicti[h][p] > m_iDownloaderTimeOutInterval
<1>1. ExpireDue /\ expireDownloaders
  BY DEF Update, Tracked
<1>2. h \in Hash /\ p \in Peer
  BY DEF TimeInv, TypeOK, IsPeerTable, IsTable, IsDicti
<1>3. p \in Expired(h)
  <2>1. SUFFICES ASSUME p \notin Expired(h) PROVE FALSE
    OBVIOUS
  <2>2. h \in DOMAIN Survivors /\ p \in DOMAIN Survivors[h]
    BY <1>2, <2>1 DEF Survivors, keepItems
  <2>3. h \notin Dead
    BY <2>2 DEF Dead, isEmpty
  <2>4. Tracked(m_pDFile', h, p)
    BY <1>1, <1>2, <2>2, <2>3 DEF expireDownloaders, keepItems, Tracked
  <2> QED
    BY <2>4
<1>4. Tracked(m_pTimeDicti, h, p) /\ m_pTimeDicti[h][p] \in Nat
  BY TimeType DEF TimeInv, TimedAndRecent
<1>5. m_pTimeDicti[h][p] < m_iPrevTime
  BY <1>3, <1>4 DEF Expired, TimesOf, getItem, Tracked
<1> QED
  BY <1>1, <1>4, <1>5, IntervalAssumption, SlackAssumption
     DEF ExpireDue, TimeInv, TypeOK, ClockOK

\* A peer that keeps announcing once per timeout interval is never expired.
THEOREM LivePeersStay == Spec => OnlySilentExpire
<1>1. TimeInv /\ [Next]_vars =>
        [Update => \A h \in DOMAIN m_pDFile : \A p \in DOMAIN m_pDFile[h] :
           ~ Tracked(m_pDFile', h, p) =>
              now - m_pTimeDicti[h][p] > m_iDownloaderTimeOutInterval]_vars
  BY DroppedWasSilent
<1> QED
  BY <1>1, TimeAlways, PTL DEF Spec, OnlySilentExpire

-----------------------------------------------------------------------------
(* Address counts                                                          *)

\* Fewer entries, no more peers at the address.
LEMMA FewerEntries ==
  ASSUME NEW old, NEW new, NEW i, EntriesAt(new, i) \subseteq EntriesAt(old, i)
  PROVE  Cardinality(EntriesAt(new, i)) <= Cardinality(EntriesAt(old, i))
BY EntriesFinite, FS_Subset

\* One more entry at most, one more peer at most.
LEMMA OneMoreEntry ==
  ASSUME NEW old, NEW new, NEW i, NEW e,
         EntriesAt(new, i) \subseteq EntriesAt(old, i) \cup {e}
  PROVE  Cardinality(EntriesAt(new, i)) <= Cardinality(EntriesAt(old, i)) + 1
<1>1. /\ IsFiniteSet(EntriesAt(old, i) \cup {e})
      /\ Cardinality(EntriesAt(old, i) \cup {e}) <= Cardinality(EntriesAt(old, i)) + 1
  BY EntriesFinite, FS_AddElement
<1>2. Cardinality(EntriesAt(new, i)) <= Cardinality(EntriesAt(old, i) \cup {e})
  BY <1>1, FS_Subset
<1>3. Cardinality(EntriesAt(old, i) \cup {e}) \in Nat
  BY <1>1, FS_CardinalityType
<1> QED
  BY <1>1, <1>2, <1>3, EntriesFinite

\* One entry gone, one peer fewer.
LEMMA OneEntryGone ==
  ASSUME NEW old, NEW new, NEW i, NEW e \in EntriesAt(old, i),
         EntriesAt(new, i) \subseteq EntriesAt(old, i) \ {e}
  PROVE  Cardinality(EntriesAt(new, i)) <= Cardinality(EntriesAt(old, i)) - 1
<1>1. /\ IsFiniteSet(EntriesAt(old, i) \ {e})
      /\ Cardinality(EntriesAt(old, i) \ {e}) = Cardinality(EntriesAt(old, i)) - 1
  BY EntriesFinite, FS_RemoveElement
<1> QED
  BY <1>1, FS_Subset

CountInv == TypeOK /\ NeverUnderCounted

\* The count of one address, and what Announce's two helpers make of it.
LEMMA CountChange ==
  ASSUME NEW ips \in [IP -> Nat], NEW i \in IP, NEW j
  PROVE  /\ AddUniquePeer(ips, j)[i] = IF i = j THEN ips[i] + 1 ELSE ips[i]
         /\ RemoveUniquePeer(ips, j)[i] =
              IF i = j THEN (IF ips[i] > 1 THEN ips[i] - 1 ELSE 0) ELSE ips[i]
<1>1. CASE j \in IP
  BY <1>1 DEF AddUniquePeer, RemoveUniquePeer
<1>2. CASE j \notin IP
  BY <1>2 DEF AddUniquePeer, RemoveUniquePeer
<1> QED
  BY <1>1, <1>2

\* An announce tracks the announcing peer at the announced address, and leaves the
\* records of all others.
LEMMA AnnouncePeerTracks ==
  ASSUME TypeOK, NEW a \in announce_t, AnnouncePeer(a)
  PROVE  LET h == a.strInfoHash
             p == a.strPeerID
         IN  /\ Tracked(m_pDFile', h, p)
             /\ m_pDFile'[h][p].ip = a.strIP
             /\ \A g \in Hash, q \in Peer :
                  ~ (g = h /\ q = p) =>
                    /\ Tracked(m_pDFile', g, q) <=> Tracked(m_pDFile, g, q)
                    /\ Tracked(m_pDFile, g, q) => m_pDFile'[g][q] = m_pDFile[g][q]
<1> DEFINE h == a.strInfoHash
           p == a.strPeerID
<1>1. /\ m_pDFile'[h][p] = NewRecord(a)
      /\ Tracked(m_pDFile', h, p)
      /\ \A g \in Hash, q \in Peer :
           ~ (g = h /\ q = p) =>
             /\ Tracked(m_pDFile', g, q) <=> Tracked(m_pDFile, g, q)
             /\ Tracked(m_pDFile, g, q) => m_pDFile'[g][q] = m_pDFile[g][q]
  BY DEF AnnouncePeer, setItem, PeersOf, getItem, EmptyDicti, Tracked
<1>2. NewRecord(a).ip = a.strIP
  <2>1. CASE IsKnown(a)
    <3>1. PeersOf(h)[p] \in Record
      BY PeersOfType, <2>1 DEF IsKnown, IsDicti
    <3> QED
      BY <2>1, <3>1 DEF NewRecord, Record
  <2>2. CASE ~ IsKnown(a)
    BY <2>2 DEF NewRecord
  <2> QED
    BY <2>1, <2>2
<1> QED
  BY <1>1, <1>2

\* A "stopped" from a known peer takes that peer off, and no other.
LEMMA AnnounceStoppedTracks ==
  ASSUME TypeOK, NEW a \in announce_t, AnnounceStopped(a)
  PROVE  LET h == a.strInfoHash
             p == a.strPeerID
         IN  /\ ~ Tracked(m_pDFile', h, p)
             /\ \A g \in Hash, q \in Peer :
                  ~ (g = h /\ q = p) =>
                    /\ Tracked(m_pDFile', g, q) <=> Tracked(m_pDFile, g, q)
                    /\ Tracked(m_pDFile, g, q) => m_pDFile'[g][q] = m_pDFile[g][q]
BY DEF AnnounceStopped, setItem, delItem, PeersOf, getItem, EmptyDicti, Tracked

\* The entries of each address after an announce: the announcing peer's entry
\* moves to the announced address, every other entry stays.
LEMMA AnnouncePeerEntries ==
  ASSUME TypeOK, NEW a \in announce_t, AnnouncePeer(a), NEW i
  PROVE  LET e == <<a.strInfoHash, a.strPeerID>>
         IN  EntriesAt(m_pDFile', i) =
               (EntriesAt(m_pDFile, i) \ {e}) \cup (IF i = a.strIP THEN {e} ELSE {})
<1> DEFINE h == a.strInfoHash
           p == a.strPeerID
<1>1. h \in Hash /\ p \in Peer
  BY DEF announce_t
<1> QED
  BY <1>1, AnnouncePeerTracks DEF EntriesAt

\* After a "stopped" from a known peer its entry is gone from every address.
LEMMA AnnounceStoppedEntries ==
  ASSUME TypeOK, NEW a \in announce_t, AnnounceStopped(a), NEW i
  PROVE  EntriesAt(m_pDFile', i) =
           EntriesAt(m_pDFile, i) \ {<<a.strInfoHash, a.strPeerID>>}
<1> DEFINE h == a.strInfoHash
           p == a.strPeerID
<1>1. h \in Hash /\ p \in Peer
  BY DEF announce_t
<1> QED
  BY <1>1, AnnounceStoppedTracks DEF EntriesAt

\* A known peer has an entry, at the address its record holds.
LEMMA KnownEntry ==
  ASSUME TypeOK, NEW a \in announce_t, IsKnown(a)
  PROVE  /\ Tracked(m_pDFile, a.strInfoHash, a.strPeerID)
         /\ <<a.strInfoHash, a.strPeerID>> \in
              EntriesAt(m_pDFile, PeersOf(a.strInfoHash)[a.strPeerID].ip)
<1>1. a.strInfoHash \in Hash /\ a.strPeerID \in Peer
  BY DEF announce_t
<1>2. a.strInfoHash \in DOMAIN m_pDFile
  BY DEF IsKnown, PeersOf, getItem, EmptyDicti
<1> QED
  BY <1>1, <1>2 DEF IsKnown, PeersOf, getItem, Tracked, EntriesAt

\* An announce counts what it adds, whichever of its branches is taken.
LEMMA AnnouncePeerCounts ==
  ASSUME CountInv, NEW a \in announce_t, AnnouncePeer(a), m_bCountUniquePeers,
         NEW i \in IP
  PROVE  Cardinality(EntriesAt(m_pDFile', i)) <= m_pIPs'[i]
<1> DEFINE e == <<a.strInfoHash, a.strPeerID>>
           n == Cardinality(EntriesAt(m_pDFile, i))
           n2 == Cardinality(EntriesAt(m_pDFile', i))
           old == PeersOf(a.strInfoHash)[a.strPeerID].ip
<1>1. n \in Nat /\ n2 \in Nat /\ n <= m_pIPs[i] /\ m_pIPs \in [IP -> Nat]
  BY EntriesFinite DEF CountInv, NeverUnderCounted, TypeOK
<1>2. EntriesAt(m_pDFile', i) =
        (EntriesAt(m_pDFile, i) \ {e}) \cup (IF i = a.strIP THEN {e} ELSE {})
  BY AnnouncePeerEntries DEF CountInv
<1>3. i # a.strIP => n2 <= n
  BY <1>2, FewerEntries
<1>4. n2 <= n + 1
  BY <1>2, OneMoreEntry
<1>5. CASE ~ IsKnown(a)
  <2>1. m_pIPs' = AddUniquePeer(m_pIPs, a.strIP)
    BY <1>5 DEF AnnouncePeer, Counted
  <2>2. m_pIPs'[i] = IF i = a.strIP THEN m_pIPs[i] + 1 ELSE m_pIPs[i]
    BY <1>1, <2>1, CountChange
  <2> QED
    BY <1>1, <1>3, <1>4, <2>2
<1>6. CASE IsKnown(a) /\ old = a.strIP
  <2>1. m_pIPs' = m_pIPs
    BY <1>6 DEF AnnouncePeer, Counted, Moved
  <2>2. e \in EntriesAt(m_pDFile, a.strIP)
    BY <1>6, KnownEntry DEF CountInv
  <2>3. EntriesAt(m_pDFile', i) \subseteq EntriesAt(m_pDFile, i)
    BY <1>2, <2>2
  <2> QED
    BY <1>1, <2>1, <2>3, FewerEntries
<1>7. CASE IsKnown(a) /\ old # a.strIP
  <2> DEFINE mid == RemoveUniquePeer(m_pIPs, old)
  <2>1. m_pIPs' = AddUniquePeer(mid, a.strIP)
    BY <1>7 DEF AnnouncePeer, Counted, Moved
  <2>2. mid \in [IP -> Nat]
    BY <1>1, AddRemoveType
  <2>3. mid[i] = IF i = old THEN (IF m_pIPs[i] > 1 THEN m_pIPs[i] - 1 ELSE 0)
                            ELSE m_pIPs[i]
    BY <1>1, CountChange
  <2>4. m_pIPs'[i] = IF i = a.strIP THEN mid[i] + 1 ELSE mid[i]
    BY <2>1, <2>2, CountChange
  <2>5. CASE i = old
    <3>1. e \in EntriesAt(m_pDFile, i)
      BY <1>7, <2>5, KnownEntry DEF CountInv
    <3>2. n2 <= n - 1
      BY <1>2, <1>7, <2>5, <3>1, OneEntryGone
    <3> QED
      BY <1>1, <1>7, <2>3, <2>4, <2>5, <3>2
  <2>6. CASE i # old
    BY <1>1, <1>3, <1>4, <2>3, <2>4, <2>6
  <2> QED
    BY <2>5, <2>6
<1> QED
  BY <1>5, <1>6, <1>7

\* A "stopped" uncounts the entry it removes, at the address it was counted.
LEMMA AnnounceStoppedCounts ==
  ASSUME CountInv, NEW a \in announce_t, AnnounceStopped(a), m_bCountUniquePeers,
         NEW i \in IP
  PROVE  Cardinality(EntriesAt(m_pDFile', i)) <= m_pIPs'[i]
<1> DEFINE e == <<a.strInfoHash, a.strPeerID>>
           n == Cardinality(EntriesAt(m_pDFile, i))
           n2 == Cardinality(EntriesAt(m_pDFile', i))
           old == PeersOf(a.strInfoHash)[a.strPeerID].ip
           moved == Moved(a)
<1>1. n \in Nat /\ n2 \in Nat /\ n <= m_pIPs[i] /\ m_pIPs \in [IP -> Nat]
  BY EntriesFinite DEF CountInv, NeverUnderCounted, TypeOK
<1>2. EntriesAt(m_pDFile', i) = EntriesAt(m_pDFile, i) \ {e}
  BY AnnounceStoppedEntries DEF CountInv
<1>3. n2 <= n
  BY <1>2, FewerEntries
<1>4. i = old => n2 <= n - 1
  <2>1. i = old => e \in EntriesAt(m_pDFile, i)
    BY KnownEntry DEF CountInv, AnnounceStopped
  <2> QED
    BY <1>2, <2>1, OneEntryGone
<1>5. moved \in [IP -> Nat]
  BY MovedType DEF CountInv
<1>6. m_pIPs' = RemoveUniquePeer(moved, a.strIP)
  BY DEF AnnounceStopped, Counted
<1>7. m_pIPs'[i] =
        IF i = a.strIP THEN (IF moved[i] > 1 THEN moved[i] - 1 ELSE 0) ELSE moved[i]
  BY <1>5, <1>6, CountChange
<1>8. CASE old = a.strIP
  <2>1. moved = m_pIPs
    BY <1>8 DEF Moved
  <2> QED
    BY <1>1, <1>3, <1>4, <1>7, <1>8, <2>1
<1>9. CASE old # a.strIP
  <2> DEFINE mid == RemoveUniquePeer(m_pIPs, old)
  <2>1. moved = AddUniquePeer(mid, a.strIP)
    BY <1>9 DEF Moved
  <2>2. mid \in [IP -> Nat]
    BY <1>1, AddRemoveType
  <2>3. mid[i] = IF i = old THEN (IF m_pIPs[i] > 1 THEN m_pIPs[i] - 1 ELSE 0)
                            ELSE m_pIPs[i]
    BY <1>1, CountChange
  <2>4. moved[i] = IF i = a.strIP THEN mid[i] + 1 ELSE mid[i]
    BY <2>1, <2>2, CountChange
  <2> QED
    BY <1>1, <1>3, <1>4, <1>7, <1>9, <2>2, <2>3, <2>4
<1> QED
  BY <1>8, <1>9

\* A recount is exact.
LEMMA CountExact ==
  ASSUME NEW db, NEW i \in IP
  PROVE  CountUniquePeers(db)[i] = Cardinality(EntriesAt(db, i))
BY DEF CountUniquePeers

\* expireDownloaders recounts before it drops the torrents left empty.
LEMMA ExpireCounts ==
  ASSUME expireDownloaders, NEW i \in IP
  PROVE  Cardinality(EntriesAt(m_pDFile', i)) <= m_pIPs'[i]
<1>1. m_pIPs'[i] = Cardinality(EntriesAt(Survivors, i))
  BY CountExact DEF expireDownloaders
<1>2. EntriesAt(m_pDFile', i) \subseteq EntriesAt(Survivors, i)
  BY DEF expireDownloaders, keepItems, EntriesAt, Tracked
<1> QED
  BY <1>1, <1>2, FewerEntries

\* A handler that only removes peers, and counts nothing.
LEMMA OnlyRemoved ==
  ASSUME NeverUnderCounted, TypeOK, m_pIPs' = m_pIPs,
         \A i \in IP : EntriesAt(m_pDFile', i) \subseteq EntriesAt(m_pDFile, i)
  PROVE  NeverUnderCounted'
<1>1. ASSUME NEW i \in IP, m_bCountUniquePeers
      PROVE  Cardinality(EntriesAt(m_pDFile', i)) <= m_pIPs'[i]
  <2>1. Cardinality(EntriesAt(m_pDFile', i)) <= Cardinality(EntriesAt(m_pDFile, i))
    BY FewerEntries
  <2>2. Cardinality(EntriesAt(m_pDFile, i)) <= m_pIPs[i] /\ m_pIPs[i] \in Nat
    BY <1>1 DEF NeverUnderCounted, TypeOK
  <2> QED
    BY <2>1, <2>2, EntriesFinite
<1> QED
  BY <1>1 DEF NeverUnderCounted

\* The constructor counts what it loads.
LEMMA LoadCounts ==
  ASSUME NEW d, Load(d)
  PROVE  NeverUnderCounted'
<1>1. ASSUME NEW i \in IP, m_bCountUniquePeers
      PROVE  Cardinality(EntriesAt(m_pDFile', i)) <= m_pIPs'[i]
  BY <1>1, CountExact, EntriesFinite DEF Load
<1> QED
  BY <1>1 DEF NeverUnderCounted

\* Every step keeps each address counted at least once per tracked peer.
LEMMA CountStep ==
  ASSUME CountInv, [Next]_vars
  PROVE  CountInv'
<1>0. TypeOK'
  BY TypeStep DEF CountInv
<1>1. CASE \E a \in announce_t : Announce(a)
  <2>1. PICK a \in announce_t : Announce(a)
    BY <1>1
  <2>2. CASE AnnouncePeer(a)
    BY <1>0, <2>2, AnnouncePeerCounts DEF CountInv, NeverUnderCounted
  <2>3. CASE AnnounceStopped(a)
    BY <1>0, <2>3, AnnounceStoppedCounts DEF CountInv, NeverUnderCounted
  <2>4. CASE AnnounceStoppedUnknown(a)
    <3>1. ASSUME NEW i \in IP
          PROVE  EntriesAt(m_pDFile', i) \subseteq EntriesAt(m_pDFile, i)
      BY <2>4 DEF AnnounceStoppedUnknown, setItem, PeersOf, getItem, EmptyDicti,
                  EntriesAt, Tracked
    <3> QED
      BY <1>0, <2>4, <3>1, OnlyRemoved DEF AnnounceStoppedUnknown, CountInv
  <2> QED
    BY <2>1, <2>2, <2>3, <2>4 DEF Announce
<1>2. CASE \E h \in Hash : DeleteTorrent(h)
  <2>1. ASSUME NEW i \in IP
        PROVE  EntriesAt(m_pDFile', i) \subseteq EntriesAt(m_pDFile, i)
    BY <1>2 DEF DeleteTorrent, delItem, EntriesAt, Tracked
  <2> QED
    BY <1>0, <1>2, <2>1, OnlyRemoved DEF DeleteTorrent, CountInv
<1>3. CASE \E h \in Hash : ParseKeepDead(h)
  <2>1. ASSUME NEW i \in IP
        PROVE  EntriesAt(m_pDFile', i) \subseteq EntriesAt(m_pDFile, i)
    BY <1>3 DEF ParseKeepDead, setItem, EmptyDicti, EntriesAt, Tracked
  <2> QED
    BY <1>0, <1>3, <2>1, OnlyRemoved DEF ParseKeepDead, CountInv
<1>4. CASE Recount
  <2>1. ASSUME NEW i \in IP
        PROVE  Cardinality(EntriesAt(m_pDFile', i)) <= m_pIPs'[i]
    <3>1. m_pDFile' = m_pDFile /\ m_pIPs'[i] = CountUniquePeers(m_pDFile)[i]
      BY <1>4 DEF Recount
    <3>2. /\ m_pIPs'[i] = Cardinality(EntriesAt(m_pDFile', i))
          /\ m_pIPs'[i] \in Nat
      BY <3>1, CountExact, EntriesFinite
    <3> QED
      BY <3>2
  <2> QED
    BY <1>0, <2>1 DEF CountInv, NeverUnderCounted
<1>5. CASE Update
  <2>1. CASE ExpireDue
    <3>1. expireDownloaders
      BY <1>5, <2>1 DEF Update
    <3> QED
      BY <1>0, <3>1, ExpireCounts DEF CountInv, NeverUnderCounted
  <2>2. CASE ~ ExpireDue
    <3>1. m_pDFile' = m_pDFile /\ m_pIPs' = m_pIPs
      BY <1>5, <2>2 DEF Update
    <3> QED
      BY <1>0, <3>1 DEF CountInv, NeverUnderCounted
  <2> QED
    BY <2>1, <2>2
<1>6. CASE Tick
  <2>1. m_pDFile' = m_pDFile /\ m_pIPs' = m_pIPs
    BY <1>6 DEF Tick, tables
  <2> QED
    BY <1>0, <2>1 DEF CountInv, NeverUnderCounted
<1>7. CASE Restart
  BY <1>0, <1>7, LoadCounts DEF Restart, CountInv
<1>8. CASE CrashInSave
  BY <1>0, <1>8, CutFilesType, LoadCounts DEF CrashInSave, CountInv
<1>9. CASE UNCHANGED vars
  <2>1. m_pDFile' = m_pDFile /\ m_pIPs' = m_pIPs
    BY <1>9 DEF vars, tables
  <2> QED
    BY <1>0, <2>1 DEF CountInv, NeverUnderCounted
<1> QED
  BY <1>1, <1>2, <1>3, <1>4, <1>5, <1>6, <1>7, <1>8, <1>9 DEF Next, Handler

\* At the start no peer is tracked and every count is zero.
LEMMA CountInit ==
  ASSUME Init
  PROVE  CountInv
<1>1. TypeOK
  BY TypeInit
<1>2. ASSUME NEW i \in IP
      PROVE  EntriesAt(m_pDFile, i) = {} /\ m_pIPs[i] = 0
  BY DEF Init, EmptyDicti, EntriesAt, Tracked
<1> QED
  BY <1>1, <1>2, FS_EmptySet DEF CountInv, NeverUnderCounted

\* However peers move, change keys, stop or are deleted, no address is ever
\* counted fewer times than it has tracked peers.
THEOREM CountsCover == Spec => []NeverUnderCounted
<1>1. CountInv => NeverUnderCounted
  BY DEF CountInv
<1> QED
  BY <1>1, CountInit, CountStep, PTL DEF Spec

-----------------------------------------------------------------------------
(* Completions on disk                                                     *)

DiskInv == TypeOK /\ DiskNeverAhead

\* The constructor continues the counts it reads.
LEMMA LoadCompletions ==
  ASSUME NEW d, LoadableOK(d), Load(d), disk' = d
  PROVE  DiskNeverAhead'
<1>1. ASSUME NEW h \in Hash PROVE d.completed[h] <= d.completed[h]
  BY DEF LoadableOK
<1>2. m_pCompleted' = d.completed /\ disk'.completed = d.completed
  BY DEF Load
<1> QED
  BY <1>1, <1>2 DEF DiskNeverAhead

\* Every step keeps the completions on disk at or below those counted.
LEMMA DiskStep ==
  ASSUME DiskInv, [Next]_vars
  PROVE  DiskInv'
<1>0. TypeOK'
  BY TypeStep DEF DiskInv
<1>1. ASSUME UNCHANGED <<m_pCompleted, disk>>
      PROVE  DiskNeverAhead'
  BY <1>1 DEF DiskInv, DiskNeverAhead
<1>2. CASE \E a \in announce_t : Announce(a)
  <2>1. PICK a \in announce_t : Announce(a)
    BY <1>2
  <2>2. CASE AnnouncePeer(a)
    <3>1. ASSUME NEW h \in Hash PROVE m_pCompleted[h] <= m_pCompleted'[h]
      BY <2>2 DEF AnnouncePeer, DiskInv, TypeOK
    <3>2. disk' = disk
      BY <2>2 DEF AnnouncePeer
    <3> QED
      BY <1>0, <3>1, <3>2 DEF DiskInv, DiskNeverAhead, TypeOK
  <2>3. CASE AnnounceStopped(a)
    BY <1>0, <1>1, <2>3 DEF AnnounceStopped, DiskInv
  <2>4. CASE AnnounceStoppedUnknown(a)
    BY <1>0, <1>1, <2>4 DEF AnnounceStoppedUnknown, DiskInv
  <2> QED
    BY <2>1, <2>2, <2>3, <2>4 DEF Announce
<1>3. CASE \E h \in Hash : DeleteTorrent(h)
  BY <1>0, <1>1, <1>3 DEF DeleteTorrent, DiskInv
<1>4. CASE \E h \in Hash : ParseKeepDead(h)
  BY <1>0, <1>1, <1>4 DEF ParseKeepDead, DiskInv
<1>5. CASE Recount
  BY <1>0, <1>1, <1>5 DEF Recount, DiskInv
<1>6. CASE Update
  <2>1. m_pCompleted' = m_pCompleted
    BY <1>6 DEF Update
  <2>2. \/ disk' = disk
        \/ disk'.completed = m_pCompleted
        \/ disk' = NoDFile
    BY <1>6 DEF Update, saveDFile, CutDFile, CutFile
  <2> QED
    BY <1>0, <2>1, <2>2 DEF DiskInv, DiskNeverAhead, NoDFile, TypeOK
<1>7. CASE Tick
  BY <1>0, <1>1, <1>7 DEF Tick, tables, DiskInv
<1>8. CASE Restart
  BY <1>0, <1>8, LoadCompletions DEF Restart, DiskInv, TypeOK, LoadableOK
<1>9. CASE CrashInSave
  BY <1>0, <1>9, CutFilesType, LoadCompletions DEF CrashInSave, DiskInv
<1>10. CASE UNCHANGED vars
  BY <1>0, <1>1, <1>10 DEF vars, tables, DiskInv
<1> QED
  BY <1>2, <1>3, <1>4, <1>5, <1>6, <1>7, <1>8, <1>9, <1>10 DEF Next, Handler

\* At the start no completion is on disk.
LEMMA DiskInit ==
  ASSUME Init
  PROVE  DiskInv
<1>1. TypeOK
  BY TypeInit
<1>2. DiskNeverAhead
  BY DEF Init, NoDFile, DiskNeverAhead
<1> QED
  BY <1>1, <1>2 DEF DiskInv

\* Completions on disk never run ahead of those counted, whenever the tracker is
\* stopped, killed in a save, and started again.
THEOREM DiskBehind == Spec => []DiskNeverAhead
<1>1. DiskInv => DiskNeverAhead
  BY DEF DiskInv
<1> QED
  BY <1>1, DiskInit, DiskStep, PTL DEF Spec

-----------------------------------------------------------------------------
(* The roster                                                              *)

\* Who is on the roster is who is tracked.
LEMMA PairsTracked ==
  ASSUME NEW V, NEW db, IsTable(db, Hash, Peer, V)
  PROVE  /\ Pairs(db) \subseteq Hash \X Peer
         /\ \A h \in Hash, p \in Peer : <<h, p>> \in Pairs(db) <=> Tracked(db, h, p)
<1>1. Pairs(db) \subseteq Hash \X Peer
  BY DEF Pairs, IsTable, IsDicti
<1>2. ASSUME NEW h \in Hash, NEW p \in Peer
      PROVE  <<h, p>> \in Pairs(db) <=> Tracked(db, h, p)
  BY DEF Pairs, Tracked
<1> QED
  BY <1>1, <1>2

\* A step that keeps the records and times of those it does not take off.
LEMMA OthersStay ==
  ASSUME TypeOK, TypeOK', NEW S,
         \A h \in Hash, p \in Peer :
           Tracked(m_pDFile', h, p) <=> Tracked(m_pDFile, h, p) /\ <<h, p>> \notin S,
         \A h \in Hash, p \in Peer :
           Tracked(m_pDFile', h, p) =>
             /\ m_pDFile'[h][p].ip = m_pDFile[h][p].ip
             /\ m_pTimeDicti'[h][p] = m_pTimeDicti[h][p]
  PROVE  Promise!Gone(S)
<1>1. /\ Pairs(m_pDFile) \subseteq Hash \X Peer
      /\ Pairs(m_pDFile') \subseteq Hash \X Peer
      /\ \A h \in Hash, p \in Peer :
           /\ <<h, p>> \in Pairs(m_pDFile) <=> Tracked(m_pDFile, h, p)
           /\ <<h, p>> \in Pairs(m_pDFile') <=> Tracked(m_pDFile', h, p)
  BY PairsTracked DEF TypeOK, IsPeerTable
<1>2. Pairs(m_pDFile') = Pairs(m_pDFile) \cap (Promise!Member \ S)
  BY <1>1 DEF Promise!Member
<1>3. ASSUME NEW e \in Pairs(m_pDFile')
      PROVE  /\ m_pDFile'[e[1]][e[2]].ip = m_pDFile[e[1]][e[2]].ip
             /\ m_pTimeDicti'[e[1]][e[2]] = m_pTimeDicti[e[1]][e[2]]
  BY <1>1
<1>4. Addresses(m_pDFile)' = Promise!keepItems(Addresses(m_pDFile), Promise!Member \ S)
  BY <1>2, <1>3 DEF Addresses, Promise!keepItems
<1>5. Times' = Promise!keepItems(Times, Promise!Member \ S)
  BY <1>2, <1>3 DEF Times, Promise!keepItems
<1> QED
  BY <1>4, <1>5 DEF Promise!Gone

\* Nobody taken off: the roster is the same.
LEMMA NobodyGone ==
  ASSUME TypeOK, Promise!Gone({})
  PROVE  UNCHANGED <<Addresses(m_pDFile), Times>>
<1>1. Pairs(m_pDFile) \cap (Promise!Member \ {}) = Pairs(m_pDFile)
  BY PairsTracked DEF TypeOK, IsPeerTable, Promise!Member
<1> QED
  BY <1>1 DEF Promise!Gone, Promise!keepItems, Addresses, Times

\* A step that changes who is listed, and nobody's record.
LEMMA RosterSame ==
  ASSUME TypeOK, TypeOK', UNCHANGED <<m_pTimeDicti, now, disk>>,
         \A h \in Hash, p \in Peer :
           /\ Tracked(m_pDFile', h, p) <=> Tracked(m_pDFile, h, p)
           /\ Tracked(m_pDFile, h, p) => m_pDFile'[h][p] = m_pDFile[h][p]
  PROVE  UNCHANGED Promise!vars
<1>1. Promise!Gone({})
  BY OthersStay
<1> QED
  BY <1>1, NobodyGone DEF Promise!vars, Addresses

\* An announce is heard, at its address, and moves nobody else.
LEMMA AnnounceIsHeard ==
  ASSUME TimeInv, TypeOK', NEW a \in announce_t, AnnouncePeer(a)
  PROVE  Promise!Hear(<<a.strInfoHash, a.strPeerID>>, a.strIP)
<1> DEFINE h == a.strInfoHash
           p == a.strPeerID
           m == <<h, p>>
<1>1. h \in Hash /\ p \in Peer /\ m \in Hash \X Peer
  BY DEF announce_t
<1>2. /\ Tracked(m_pDFile', h, p)
      /\ m_pDFile'[h][p].ip = a.strIP
      /\ m_pTimeDicti'[h][p] = now
  BY AnnouncePeerTracks DEF AnnouncePeer, setItem, TimeInv
<1>3. ASSUME NEW g \in Hash, NEW q \in Peer, ~ (g = h /\ q = p)
      PROVE  /\ Tracked(m_pDFile', g, q) <=> Tracked(m_pDFile, g, q)
             /\ Tracked(m_pDFile, g, q) =>
                  /\ m_pDFile'[g][q] = m_pDFile[g][q]
                  /\ m_pTimeDicti'[g][q] = m_pTimeDicti[g][q]
  <2>1. Tracked(m_pDFile, g, q) => Tracked(m_pTimeDicti, g, q)
    BY DEF TimeInv, TimedAndRecent, Tracked
  <2>2. Tracked(m_pTimeDicti, g, q) => m_pTimeDicti'[g][q] = m_pTimeDicti[g][q]
    BY <1>3 DEF AnnouncePeer, setItem, TimesOf, getItem, Tracked
  <2> QED
    BY <1>3, <2>1, <2>2, AnnouncePeerTracks DEF TimeInv
<1>4. /\ Pairs(m_pDFile) \subseteq Hash \X Peer
      /\ Pairs(m_pDFile') \subseteq Hash \X Peer
      /\ \A g \in Hash, q \in Peer :
           /\ <<g, q>> \in Pairs(m_pDFile) <=> Tracked(m_pDFile, g, q)
           /\ <<g, q>> \in Pairs(m_pDFile') <=> Tracked(m_pDFile', g, q)
  BY PairsTracked DEF TimeInv, TypeOK, IsPeerTable
<1>5. Pairs(m_pDFile') = Pairs(m_pDFile) \cup {m}
  <2>1. ASSUME NEW e \in Hash \X Peer
        PROVE  e \in Pairs(m_pDFile') <=> e \in Pairs(m_pDFile) \cup {m}
    BY <1>1, <1>2, <1>3, <1>4
  <2> QED
    BY <1>1, <1>4, <2>1
<1>6. ASSUME NEW e \in Pairs(m_pDFile'), e # m
      PROVE  /\ m_pDFile'[e[1]][e[2]] = m_pDFile[e[1]][e[2]]
             /\ m_pTimeDicti'[e[1]][e[2]] = m_pTimeDicti[e[1]][e[2]]
             /\ e \in Pairs(m_pDFile)
  <2>1. e \in Hash \X Peer /\ e \in Pairs(m_pDFile)
    BY <1>4, <1>5, <1>6
  <2>2. Tracked(m_pDFile, e[1], e[2]) /\ ~ (e[1] = h /\ e[2] = p)
    BY <1>4, <1>6, <2>1
  <2> QED
    BY <1>3, <2>1, <2>2
<1>7. Addresses(m_pDFile)' = Promise!setItem(Addresses(m_pDFile), m, a.strIP)
  BY <1>2, <1>5, <1>6 DEF Addresses, Promise!setItem
<1>8. Times' = Promise!setItem(Times, m, now)
  BY <1>2, <1>5, <1>6 DEF Times, Promise!setItem
<1> QED
  BY <1>7, <1>8 DEF Promise!Hear, AnnouncePeer, Addresses

\* A "stopped" from a known peer is that member's leave.
LEMMA StoppedLeaves ==
  ASSUME TimeInv, TypeOK', NEW a \in announce_t, AnnounceStopped(a)
  PROVE  Promise!Leave(<<a.strInfoHash, a.strPeerID>>)
<1> DEFINE h == a.strInfoHash
           p == a.strPeerID
<1>1. h \in Hash /\ p \in Peer
  BY DEF announce_t
<1>2. <<h, p>> \in Pairs(m_pDFile)
  BY <1>1, KnownEntry, PairsTracked
     DEF AnnounceStopped, TimeInv, TypeOK, IsPeerTable, TimeInv
<1>3. ASSUME NEW g \in Hash, NEW q \in Peer
      PROVE  /\ Tracked(m_pDFile', g, q) <=>
                  Tracked(m_pDFile, g, q) /\ <<g, q>> \notin {<<h, p>>}
             /\ Tracked(m_pDFile', g, q) =>
                  /\ m_pDFile'[g][q] = m_pDFile[g][q]
                  /\ m_pTimeDicti'[g][q] = m_pTimeDicti[g][q]
  <2>1. Tracked(m_pDFile, g, q) => Tracked(m_pTimeDicti, g, q)
    BY DEF TimeInv, TimedAndRecent, Tracked
  <2>2. ~ (g = h /\ q = p) /\ Tracked(m_pTimeDicti, g, q) =>
           m_pTimeDicti'[g][q] = m_pTimeDicti[g][q]
    BY DEF AnnounceStopped, setItem, delItem, TimesOf, getItem, Tracked
  <2> QED
    BY <2>1, <2>2, AnnounceStoppedTracks DEF TimeInv
<1>4. Promise!Gone({<<h, p>>})
  BY <1>3, OthersStay DEF TimeInv
<1> QED
  BY <1>2, <1>4 DEF Promise!Leave, AnnounceStopped, Addresses

\* A deleted torrent is withdrawn.
LEMMA DeleteWithdraws ==
  ASSUME TypeOK, TypeOK', NEW h \in Hash, DeleteTorrent(h)
  PROVE  Promise!Withdraw(h)
<1> DEFINE S == {m \in Promise!Member : m[1] = h}
<1>1. ASSUME NEW g \in Hash, NEW q \in Peer
      PROVE  /\ Tracked(m_pDFile', g, q) <=>
                  Tracked(m_pDFile, g, q) /\ <<g, q>> \notin S
             /\ Tracked(m_pDFile', g, q) =>
                  /\ m_pDFile'[g][q] = m_pDFile[g][q]
                  /\ m_pTimeDicti'[g][q] = m_pTimeDicti[g][q]
  BY DEF DeleteTorrent, delItem, Tracked, Promise!Member
<1>2. Promise!Gone(S)
  BY <1>1, OthersStay
<1> QED
  BY <1>2 DEF Promise!Withdraw, DeleteTorrent, Addresses

\* A table of tracked peers, all but one at their address, is a part of the roster.
LEMMA TablePart ==
  ASSUME TypeOK, NEW d, IsPeerTable(d), NEW h, NEW p,
         \A g \in Hash, q \in Peer :
           Tracked(d, g, q) =>
             /\ Tracked(m_pDFile, g, q)
             /\ ~ (g = h /\ q = p) => d[g][q] = m_pDFile[g][q]
  PROVE  Promise!IsPartOf(Addresses(d), Addresses(m_pDFile))
<1>1. /\ Pairs(d) \subseteq Hash \X Peer
      /\ \A g \in Hash, q \in Peer :
           /\ <<g, q>> \in Pairs(d) <=> Tracked(d, g, q)
           /\ <<g, q>> \in Pairs(m_pDFile) <=> Tracked(m_pDFile, g, q)
  BY PairsTracked DEF TypeOK, IsPeerTable
<1>2. ASSUME NEW e \in Pairs(d)
      PROVE  /\ e \in Pairs(m_pDFile)
             /\ e # <<h, p>> => Addresses(d)[e] = Addresses(m_pDFile)[e]
  <2>1. PICK g \in Hash, q \in Peer : e = <<g, q>>
    BY <1>1, <1>2
  <2>2. Tracked(d, g, q)
    BY <1>1, <1>2, <2>1
  <2>3. e \in Pairs(m_pDFile) /\ (e # <<h, p>> => d[g][q] = m_pDFile[g][q])
    BY <1>1, <2>1, <2>2
  <2> QED
    BY <1>2, <2>1, <2>3 DEF Addresses
<1>3. DOMAIN Addresses(d) = Pairs(d) /\ DOMAIN Addresses(m_pDFile) = Pairs(m_pDFile)
  BY DEF Addresses
<1> QED
  BY <1>2, <1>3 DEF Promise!IsPartOf

\* Of a dfile that was cut, what is read back is a part of the roster.
LEMMA CutIsPart ==
  ASSUME TypeOK, CutDFile
  PROVE  Promise!IsPartOf(Addresses(disk'.peers), Addresses(m_pDFile))
<1> DEFINE d == disk'.peers
<1> SUFFICES
      \E h, p : \A g \in Hash, q \in Peer :
        Tracked(d, g, q) => /\ Tracked(m_pDFile, g, q)
                            /\ ~ (g = h /\ q = p) => d[g][q] = m_pDFile[g][q]
  BY CutFilesType, TablePart DEF LoadableOK
<1> DEFINE Part(h, p) ==
             \A g \in Hash, q \in Peer :
               Tracked(d, g, q) => /\ Tracked(m_pDFile, g, q)
                                   /\ ~ (g = h /\ q = p) => d[g][q] = m_pDFile[g][q]
<1>1. CASE disk' = NoDFile
  BY <1>1 DEF NoDFile, EmptyDicti, Tracked
<1>2. CASE \E H \in SUBSET DOMAIN m_pDFile : disk' = CutFile(WholeTorrents(H))
  BY <1>2 DEF CutFile, WholeTorrents, keepItems, Tracked
<1>3. ASSUME NEW h \in DOMAIN m_pDFile, NEW H \in SUBSET (DOMAIN m_pDFile \ {h}),
             NEW P \in SUBSET DOMAIN m_pDFile[h],
             disk' = CutFile(CutTorrent(H, h, P))
      PROVE  \A p : Part(h, p)
  BY <1>3 DEF CutFile, CutTorrent, WholeTorrents, setItem, keepItems, Tracked
<1>4. ASSUME NEW h \in DOMAIN m_pDFile, NEW H \in SUBSET (DOMAIN m_pDFile \ {h}),
             NEW P \in SUBSET DOMAIN m_pDFile[h], NEW p \in DOMAIN m_pDFile[h] \ P,
             NEW r, disk' = CutFile(CutRecord(H, h, P, p, r))
      PROVE  Part(h, p)
  BY <1>4 DEF CutFile, CutRecord, WholeTorrents, setItem, keepItems, Tracked
<1>5. (\E h, p : Part(h, p)) \/ disk' = NoDFile
        \/ \E H \in SUBSET DOMAIN m_pDFile : disk' = CutFile(WholeTorrents(H))
  <2> HIDE DEF Part
  <2> QED
    BY <1>3, <1>4 DEF CutDFile
<1> QED
  BY <1>1, <1>2, <1>5

\* Whatever becomes of a save, the whole roster, a part of it, or what was stored
\* before is stored.
LEMMA SaveStores ==
  ASSUME TypeOK, saveDFile
  PROVE  Promise!Store
<1>1. CASE disk' = [peers |-> m_pDFile, completed |-> m_pCompleted]
  <2>1. Promise!IsPartOf(Addresses(m_pDFile), Addresses(m_pDFile))
    BY TablePart DEF TypeOK
  <2> QED
    BY <1>1, <2>1 DEF Promise!Store, Addresses
<1>2. CASE UNCHANGED disk
  BY <1>2 DEF Promise!Store, Addresses
<1>3. CASE CutDFile
  BY <1>3, CutIsPart DEF Promise!Store, Addresses
<1> QED
  BY <1>1, <1>2, <1>3 DEF saveDFile

\* What expireDownloaders leaves of the records and times was there before.
LEMMA ExpireLeaves ==
  ASSUME TimeInv, expireDownloaders, NEW h \in Hash, NEW p \in Peer,
         Tracked(m_pDFile', h, p)
  PROVE  /\ Tracked(m_pDFile, h, p)
         /\ m_pDFile'[h][p] = m_pDFile[h][p]
         /\ m_pTimeDicti'[h][p] = m_pTimeDicti[h][p]
<1>1. Tracked(m_pTimeDicti', h, p)
  BY ExpireKeepsRecent DEF Tracked
<1>2. /\ h \in DOMAIN Survivors /\ m_pDFile'[h] = Survivors[h]
      /\ h \in DOMAIN SurvivingTimes /\ m_pTimeDicti'[h] = SurvivingTimes[h]
  BY <1>1 DEF expireDownloaders, keepItems, Tracked
<1>3. p \in DOMAIN Survivors[h] /\ p \in DOMAIN SurvivingTimes[h]
  BY <1>1, <1>2 DEF Tracked
<1> QED
  BY <1>2, <1>3 DEF Survivors, SurvivingTimes, keepItems, Tracked

\* The timers store the roster and take off who was silent for too long.
LEMMA UpdateIsUpkeep ==
  ASSUME TimeInv, TypeOK', Update
  PROVE  Promise!Upkeep
<1> DEFINE S == Pairs(m_pDFile) \ Pairs(m_pDFile')
<1>1. ASSUME NEW h \in Hash, NEW p \in Peer, Tracked(m_pDFile', h, p)
      PROVE  /\ Tracked(m_pDFile, h, p)
             /\ m_pDFile'[h][p] = m_pDFile[h][p]
             /\ m_pTimeDicti'[h][p] = m_pTimeDicti[h][p]
  BY <1>1, ExpireLeaves DEF Update
<1>2. /\ Pairs(m_pDFile) \subseteq Hash \X Peer
      /\ \A h \in Hash, p \in Peer :
           /\ <<h, p>> \in Pairs(m_pDFile) <=> Tracked(m_pDFile, h, p)
           /\ <<h, p>> \in Pairs(m_pDFile') <=> Tracked(m_pDFile', h, p)
  BY PairsTracked DEF TimeInv, TypeOK, IsPeerTable
<1>3. ASSUME NEW h \in Hash, NEW p \in Peer
      PROVE  Tracked(m_pDFile', h, p) <=> Tracked(m_pDFile, h, p) /\ <<h, p>> \notin S
  BY <1>1, <1>2
<1>4. Promise!Gone(S)
  BY <1>1, <1>3, OthersStay DEF TimeInv
<1>5. ASSUME NEW m \in S PROVE now - Times[m] > m_iDownloaderTimeOutInterval
  <2>1. PICK h \in Hash, p \in Peer : m = <<h, p>>
    BY <1>2, <1>5
  <2>2. Tracked(m_pDFile, h, p) /\ ~ Tracked(m_pDFile', h, p)
    BY <1>2, <1>5, <2>1
  <2>3. now - m_pTimeDicti[h][p] > m_iDownloaderTimeOutInterval
    BY <2>2, DroppedWasSilent DEF Tracked
  <2> QED
    BY <1>5, <2>1, <2>3 DEF Times
<1>6. Promise!Store
  BY SaveStores DEF Update, TimeInv, Promise!Store, Addresses
<1>7. S = DOMAIN Addresses(m_pDFile) \ DOMAIN Addresses(m_pDFile)'
  BY DEF Addresses
<1> HIDE DEF S
<1>8. now' = now
  BY DEF Update
<1> QED
  BY <1>4, <1>5, <1>6, <1>7, <1>8 DEF Promise!Upkeep

\* A start reads back what is stored, and everybody on it counts as heard of.
LEMMA LoadStarts ==
  ASSUME NEW d, LoadableOK(d), Load(d), disk' = d, Promise!Store
  PROVE  Promise!Start
<1>1. m_pDFile' = disk'.peers /\ now' = 0
  BY DEF Load
<1>2. ASSUME NEW e \in Pairs(d.peers) PROVE m_pTimeDicti'[e[1]][e[2]] = 0
  BY <1>2 DEF Load, Pairs
<1>3. Times' = [e \in Pairs(d.peers) |-> 0]
  BY <1>1, <1>2 DEF Times
<1> QED
  BY <1>1, <1>3 DEF Promise!Start, Addresses

\* No member has been silent for too long when a second passes.
LEMMA TickIsTick ==
  ASSUME TimeInv, TimeInv', Tick
  PROVE  Promise!Tick
<1>1. UNCHANGED <<m_pDFile, m_pTimeDicti, disk>> /\ now' = now + 1
  BY DEF Tick, tables
<1>2. ASSUME NEW m \in DOMAIN Addresses(m_pDFile)
      PROVE  now - Times[m] < 2 * (m_iDownloaderTimeOutInterval + Slack + 1)
  <2>1. m \in Hash \X Peer /\ Tracked(m_pDFile, m[1], m[2])
    <3>1. m \in Pairs(m_pDFile)
      BY <1>2 DEF Addresses
    <3> QED
      BY <3>1, PairsTracked DEF TimeInv, TypeOK, IsPeerTable
  <2>2. m_pTimeDicti[m[1]][m[2]] \in Nat
    BY <2>1, TimeType DEF TimeInv, TimedAndRecent, Tracked
  <2>3. now' - m_pTimeDicti'[m[1]][m[2]] <= 2 * (m_iDownloaderTimeOutInterval + Slack + 1)
    <3>1. Recent(m[1], m[2])'
      BY <1>1, <2>1 DEF TimeInv, TimedAndRecent, Tracked
    <3> QED
      BY <1>1, <2>2, <3>1, IntervalAssumption, SlackAssumption
         DEF TimeInv, TypeOK, ClockOK, Recent
  <2>4. Times[m] = m_pTimeDicti[m[1]][m[2]]
    BY <1>2 DEF Addresses, Times
  <2> QED
    BY <1>1, <2>2, <2>3, <2>4, IntervalAssumption, SlackAssumption DEF TimeInv, TypeOK
<1> QED
  BY <1>1, <1>2 DEF Promise!Tick, Addresses, Times

\* At the start nobody is on the roster.
LEMMA RosterInit ==
  ASSUME Init
  PROVE  Promise!Init
<1>1. Pairs(m_pDFile) = {} /\ Pairs(disk.peers) = {}
  BY DEF Init, NoDFile, EmptyDicti, Pairs
<1> QED
  BY <1>1 DEF Init, Promise!Init, Promise!EmptyDicti, Addresses, Times

\* Every request of a peer is the roster's, or none of its business.
LEMMA AnnouncePromised ==
  ASSUME TimeInv, TimeInv', NEW a \in announce_t
  PROVE  LET m == <<a.strInfoHash, a.strPeerID>>
         IN  /\ AnnouncePeer(a) => Promise!Hear(m, a.strIP)
             /\ AnnounceStopped(a) => Promise!Leave(m)
             /\ AnnounceStoppedUnknown(a) => UNCHANGED Promise!vars
<1>1. TypeOK /\ TypeOK'
  BY DEF TimeInv
<1>2. ASSUME AnnounceStoppedUnknown(a)
      PROVE  UNCHANGED Promise!vars
  <2>1. ASSUME NEW h \in Hash, NEW p \in Peer
        PROVE  /\ Tracked(m_pDFile', h, p) <=> Tracked(m_pDFile, h, p)
               /\ Tracked(m_pDFile, h, p) => m_pDFile'[h][p] = m_pDFile[h][p]
    BY <1>2 DEF AnnounceStoppedUnknown, setItem, PeersOf, getItem, EmptyDicti, Tracked
  <2> QED
    BY <1>1, <1>2, <2>1, RosterSame DEF AnnounceStoppedUnknown
<1> QED
  BY <1>1, <1>2, AnnounceIsHeard, StoppedLeaves

\* Neither a parse nor a recount changes the roster.
LEMMA ListingPromised ==
  ASSUME TimeInv, TimeInv', Recount \/ \E h \in Hash : ParseKeepDead(h)
  PROVE  UNCHANGED Promise!vars
<1>1. TypeOK /\ TypeOK'
  BY DEF TimeInv
<1>2. CASE Recount
  BY <1>1, <1>2, RosterSame DEF Recount
<1>3. CASE \E h \in Hash : ParseKeepDead(h)
  <2>1. ASSUME NEW h \in Hash, NEW p \in Peer
        PROVE  /\ Tracked(m_pDFile', h, p) <=> Tracked(m_pDFile, h, p)
               /\ Tracked(m_pDFile, h, p) => m_pDFile'[h][p] = m_pDFile[h][p]
    BY <1>3 DEF ParseKeepDead, setItem, EmptyDicti, Tracked
  <2> QED
    BY <1>1, <1>3, <2>1, RosterSame DEF ParseKeepDead
<1> QED
  BY <1>2, <1>3

\* A start brings back what is stored, after a cut save too.
LEMMA StartPromised ==
  ASSUME TypeOK, Restart \/ CrashInSave
  PROVE  Promise!Start
<1>1. CASE Restart
  <2>1. Promise!Store
    BY <1>1 DEF Restart, Promise!Store, Addresses
  <2> QED
    BY <1>1, <2>1, LoadStarts DEF Restart, TypeOK, LoadableOK
<1>2. CASE CrashInSave
  <2>1. Promise!Store
    BY <1>2, CutIsPart DEF CrashInSave, Promise!Store, Addresses
  <2> QED
    BY <1>2, <2>1, CutFilesType, LoadStarts DEF CrashInSave
<1> QED
  BY <1>1, <1>2

\* Every step is one the roster may take, or leaves it alone.
LEMMA RosterStep ==
  ASSUME TimeInv, [Next]_vars
  PROVE  [Promise!Next]_Promise!vars
<1>0. TimeInv' /\ TypeOK /\ TypeOK'
  BY TimeStep DEF TimeInv
<1>1. CASE \E a \in announce_t : Announce(a)
  <2>1. PICK a \in announce_t : Announce(a)
    BY <1>1
  <2>2. /\ <<a.strInfoHash, a.strPeerID>> \in Promise!Member
        /\ a.strIP \in IP
    BY DEF announce_t, Promise!Member
  <2> QED
    BY <1>0, <2>1, <2>2, AnnouncePromised DEF Announce, Promise!Next
<1>2. CASE \E h \in Hash : DeleteTorrent(h)
  BY <1>0, <1>2, DeleteWithdraws DEF Promise!Next
<1>3. CASE Recount \/ \E h \in Hash : ParseKeepDead(h)
  BY <1>0, <1>3, ListingPromised
<1>4. CASE Update
  BY <1>0, <1>4, UpdateIsUpkeep DEF Promise!Next
<1>5. CASE Tick
  BY <1>0, <1>5, TickIsTick DEF Promise!Next
<1>6. CASE Restart \/ CrashInSave
  BY <1>0, <1>6, StartPromised DEF Promise!Next
<1>7. CASE UNCHANGED vars
  BY <1>0, <1>7, RosterSame DEF vars, tables
<1> QED
  BY <1>1, <1>2, <1>3, <1>4, <1>5, <1>6, <1>7 DEF Next, Handler

\* ImplementsRoster: the peer database is a roster through saves, cut saves and
\* starts too; what a start brings back was on it at a save.
THEOREM RosterImplemented == Spec => ImplementsRoster
BY RosterInit, RosterStep, TimeAlways, PTL DEF Spec, Promise!Spec, ImplementsRoster

\* KeepsPromises: every handler of the peer database is the step of the roster it
\* ought to be, for every announce, whatever key and earlier record there are.
THEOREM PromisesKept == Spec => KeepsPromises
<1>1. ASSUME TimeInv, [Next]_vars PROVE AsPromised
  <2>1. TimeInv' /\ TypeOK /\ TypeOK'
    BY <1>1, TimeStep DEF TimeInv
  <2> QED
    BY <1>1, <2>1, AnnouncePromised, DeleteWithdraws, ListingPromised,
       UpdateIsUpkeep, TickIsTick, StartPromised DEF AsPromised
<1>2. TimeInv /\ [Next]_vars => [AsPromised]_vars
  BY <1>1
<1> QED
  BY <1>2, TimeAlways, PTL DEF Spec, KeepsPromises
=============================================================================
