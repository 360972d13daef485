------------------------------- MODULE Swarm -------------------------------
(***************************************************************************)
(* The peer database of the tracker: which peer of which torrent is        *)
(* tracked (m_pDFile), when it last announced (m_pTimeDicti), how many     *)
(* tracked peers each IP address has (m_pIPs) and how often each torrent   *)
(* was completed (m_pCompleted), with the copy saveDFile keeps on disk.    *)
(* CTracker::Announce, expireDownloaders, CountUniquePeers, saveDFile, the *)
(* constructor's reload and the timers of CTracker::Update are its         *)
(* actions.  The tracker is one thread: every handler is one step.         *)
(***************************************************************************)
EXTENDS Integers, FiniteSets, Dicti

CONSTANTS
  Hash,       \* info hashes
  Peer,       \* peer ids (20 bytes, chosen by the client)
  IP,         \* addresses announces come from
  Port,       \* ports announces name
  Key,        \* values of the announce parameter "key", NoKey among them
  NoKey,      \* the empty key: the parameter was not sent
  Left,       \* values of the announce parameter "left"; 0 is a seed
  NoIP, NoPort, NoLeft,   \* the last record of a cut file may lack a field
  m_bCountUniquePeers,             \* bnbt_count_unique_peers
  m_bKeepDead,                     \* keep_dead
  m_iDownloaderTimeOutInterval,    \* downloader_timeout_interval
  m_iSaveDFileInterval,            \* save_dfile_interval
  Slack,      \* seconds the main loop may be late for a timer that is due
  MaxTime,    \* bound: the clock stops here
  MaxDone,    \* bound: completions counted per torrent
  MaxCount    \* bound: peers counted per address

ASSUME IntervalAssumption == m_iDownloaderTimeOutInterval \in Nat
ASSUME SaveAssumption == m_iSaveDFileInterval \in Nat
ASSUME SlackAssumption == Slack \in Nat
ASSUME MaxTimeAssumption == MaxTime \in Nat
ASSUME BoundAssumption == MaxDone \in Nat /\ MaxCount \in Nat
ASSUME SwitchAssumption == m_bCountUniquePeers \in BOOLEAN /\ m_bKeepDead \in BOOLEAN
ASSUME SentinelAssumption ==
  NoKey \in Key /\ NoIP \notin IP /\ NoPort \notin Port /\ NoLeft \notin Left
ASSUME FiniteAssumption == IsFiniteSet(Hash) /\ IsFiniteSet(Peer)

VARIABLES
  m_pDFile,                   \* info hash -> peer id -> record
  m_pTimeDicti,               \* info hash -> peer id -> time of last announce
  m_pIPs,                     \* address -> count (0: no entry)
  m_pCompleted,               \* info hash -> completions (0: no entry)
  m_iPrevTime,                \* when peers were last expired; 1 at start
  m_iDownloaderTimeOutNext,   \* timer of expireDownloaders
  m_iSaveDFileNext,           \* timer of saveDFile
  now,                        \* GetTime( ): seconds since the process started
  disk                        \* what DecodeFile would read from the dfile

tables == <<m_pDFile, m_pTimeDicti, m_pIPs, m_pCompleted>>
timers == <<m_iPrevTime, m_iDownloaderTimeOutNext, m_iSaveDFileNext>>
vars == <<tables, timers, now, disk>>

-----------------------------------------------------------------------------
(* Types                                                                   *)

Record == [ip : IP \cup {NoIP}, port : Port \cup {NoPort}, left : Left \cup {NoLeft},
           key : Key]

IsPeerTable(db) == IsTable(db, Hash, Peer, Record)

Event == {"started", "", "completed", "stopped"}

\* struct announce_t; uploaded and downloaded are stored and shown, never tested.
announce_t == [strInfoHash : Hash, strPeerID : Peer, strIP : IP, iPort : Port,
               iLeft : Left, strKey : Key, strEvent : Event]

-----------------------------------------------------------------------------
(* Helpers                                                                 *)

Tracked(db, h, p) == h \in DOMAIN db /\ p \in DOMAIN db[h]

\* The peers of a torrent; the handlers create an empty table when there is none.
PeersOf(h) == getItem(m_pDFile, h, EmptyDicti)
TimesOf(h) == getItem(m_pTimeDicti, h, EmptyDicti)

\* The (torrent, peer) pairs of a peer table whose record has this address.
EntriesAt(db, i) ==
  {e \in Hash \X Peer : Tracked(db, e[1], e[2]) /\ db[e[1]][e[2]].ip = i}

CountUniquePeers(db) == [i \in IP |-> Cardinality(EntriesAt(db, i))]

AddUniquePeer(ips, i) == [ips EXCEPT ![i] = @ + 1]

RemoveUniquePeer(ips, i) == [ips EXCEPT ![i] = IF @ > 1 THEN @ - 1 ELSE 0]

\* A count is changed only when counting is switched on.
Counted(ips) == IF m_bCountUniquePeers THEN ips ELSE m_pIPs

-----------------------------------------------------------------------------
(* CTracker::Announce                                                      *)

\* The announcing peer is known and proves it with the key it first gave.
IsKnown(a) ==
  /\ a.strPeerID \in DOMAIN PeersOf(a.strInfoHash)
  /\ PeersOf(a.strInfoHash)[a.strPeerID].key # NoKey
  /\ PeersOf(a.strInfoHash)[a.strPeerID].key = a.strKey

\* Mutant: the address moved to is not counted.
MovedNotAdded(a) ==
  RemoveUniquePeer(m_pIPs, PeersOf(a.strInfoHash)[a.strPeerID].ip)

\* The counts after a known peer has moved to the address it announces from.
Moved(a) ==
  LET old == PeersOf(a.strInfoHash)[a.strPeerID].ip
  IN  IF old # a.strIP
      THEN AddUniquePeer(RemoveUniquePeer(m_pIPs, old), a.strIP)
      ELSE m_pIPs

\* Mutant: a peer that shows another key keeps the old record, unfilled.
NewRecordEmpty(a) ==
  IF IsKnown(a) THEN PeersOf(a.strInfoHash)[a.strPeerID] ELSE EmptyDicti

\* Mutant: a known peer stays at the address it first announced from.
NewRecordStays(a) ==
  IF IsKnown(a)
  THEN [PeersOf(a.strInfoHash)[a.strPeerID] EXCEPT !.left = a.iLeft]
  ELSE [ip |-> a.strIP, port |-> a.iPort, left |-> a.iLeft, key |-> a.strKey]

\* A known peer keeps its record, port included; any other gets a new one.
NewRecord(a) ==
  IF IsKnown(a)
  THEN [PeersOf(a.strInfoHash)[a.strPeerID] EXCEPT
          !.ip = a.strIP, !.left = a.iLeft]
  ELSE [ip |-> a.strIP, port |-> a.iPort, left |-> a.iLeft, key |-> a.strKey]

AnnouncePeer(a) ==
  LET h == a.strInfoHash
      p == a.strPeerID
  IN  /\ a.strEvent # "stopped"
      /\ m_pDFile' = setItem(m_pDFile, h, setItem(PeersOf(h), p, NewRecord(a)))
      /\ m_pTimeDicti' = setItem(m_pTimeDicti, h, setItem(TimesOf(h), p, now))
      /\ m_pIPs' = Counted(IF IsKnown(a) THEN Moved(a)
                                         ELSE AddUniquePeer(m_pIPs, a.strIP))
      /\ m_pIPs'[a.strIP] <= MaxCount
      /\ IF a.strEvent = "completed"
         THEN /\ m_pCompleted[h] < MaxDone
              /\ m_pCompleted' = [m_pCompleted EXCEPT ![h] = @ + 1]
         ELSE UNCHANGED m_pCompleted
      /\ UNCHANGED <<timers, now, disk>>

\* A known peer leaves: its record, its time and its count go.
AnnounceStopped(a) ==
  LET h == a.strInfoHash
      p == a.strPeerID
  IN  /\ a.strEvent = "stopped"
      /\ IsKnown(a)
      /\ m_pDFile' = setItem(m_pDFile, h, delItem(PeersOf(h), p))
      /\ m_pTimeDicti' = setItem(m_pTimeDicti, h, delItem(TimesOf(h), p))
      /\ m_pIPs' = Counted(RemoveUniquePeer(Moved(a), a.strIP))
      /\ UNCHANGED <<m_pCompleted, timers, now, disk>>

\* "stopped" from a peer that is not tracked, or that cannot show its key,
\* changes nothing but the torrent's (possibly new, empty) table.
AnnounceStoppedUnknown(a) ==
  /\ a.strEvent = "stopped"
  /\ ~ IsKnown(a)
  /\ m_pDFile' = setItem(m_pDFile, a.strInfoHash, PeersOf(a.strInfoHash))
  /\ UNCHANGED <<m_pTimeDicti, m_pIPs, m_pCompleted, timers, now, disk>>

Announce(a) == AnnouncePeer(a) \/ AnnounceStopped(a) \/ AnnounceStoppedUnknown(a)

-----------------------------------------------------------------------------
(* The other handlers that touch the peer database                         *)

\* Mutant: deleting a torrent forgets the addresses of its peers.
DeleteTorrentForgets(h) ==
  /\ h \in DOMAIN m_pDFile
  /\ m_pDFile' = delItem(m_pDFile, h)
  /\ m_pIPs' = [i \in IP |->
                  IF \E p \in DOMAIN m_pDFile[h] : m_pDFile[h][p].ip = i
                  THEN 0 ELSE m_pIPs[i]]
  /\ UNCHANGED <<m_pTimeDicti, m_pCompleted, timers, now, disk>>

\* Index and login page: the torrent's table goes, and nothing else of it here.
DeleteTorrent(h) ==
  /\ h \in DOMAIN m_pDFile
  /\ m_pDFile' = delItem(m_pDFile, h)
  /\ UNCHANGED <<m_pTimeDicti, m_pIPs, m_pCompleted, timers, now, disk>>

\* parseTorrents and parseTorrent: with keep_dead an allowed torrent is listed.
ParseKeepDead(h) ==
  /\ m_bKeepDead
  /\ h \notin DOMAIN m_pDFile
  /\ m_pDFile' = setItem(m_pDFile, h, EmptyDicti)
  /\ UNCHANGED <<m_pTimeDicti, m_pIPs, m_pCompleted, timers, now, disk>>

\* Admin page, "Count Unique Peers".
Recount ==
  /\ m_bCountUniquePeers
  /\ m_pIPs' = CountUniquePeers(m_pDFile)
  /\ UNCHANGED <<m_pDFile, m_pTimeDicti, m_pCompleted, timers, now, disk>>

-----------------------------------------------------------------------------
(* CTracker::Update: the timers of the main loop                           *)

\* Mutant: a peer that announced in the second of the last expiry goes too.
ExpiredTooEarly(h) == {p \in DOMAIN TimesOf(h) : TimesOf(h)[p] <= m_iPrevTime}

\* Mutant: the timeout is subtracted a second time.
ExpiredTooLate(h) ==
  {p \in DOMAIN TimesOf(h) :
     TimesOf(h)[p] + m_iDownloaderTimeOutInterval < m_iPrevTime}

\* The peers of a torrent that have not announced since the last expiry.
Expired(h) == {p \in DOMAIN TimesOf(h) : TimesOf(h)[p] < m_iPrevTime}

Survivors ==
  [h \in DOMAIN m_pDFile |-> keepItems(m_pDFile[h], Peer \ Expired(h))]

\* Mutant: the times are erased with <= where the records are with <.
SurvivingTimesOffByOne ==
  [h \in DOMAIN m_pTimeDicti |->
     keepItems(m_pTimeDicti[h], {p \in DOMAIN TimesOf(h) : TimesOf(h)[p] > m_iPrevTime})]

SurvivingTimes ==
  [h \in DOMAIN m_pTimeDicti |-> keepItems(m_pTimeDicti[h], Peer \ Expired(h))]

\* Torrents left without a peer, which are dropped unless keep_dead is set.
Dead == {h \in DOMAIN Survivors : isEmpty(Survivors[h])}

expireDownloaders ==
  /\ m_pIPs' = CountUniquePeers(Survivors)
  /\ m_iPrevTime' = now
  /\ IF m_bKeepDead
     THEN /\ m_pDFile' = Survivors
          /\ m_pTimeDicti' = SurvivingTimes
     ELSE /\ m_pDFile' = keepItems(Survivors, Hash \ Dead)
          /\ m_pTimeDicti' = keepItems(SurvivingTimes, Hash \ Dead)

ExpireDue == now > m_iDownloaderTimeOutNext
SaveDue == now > m_iSaveDFileNext

-----------------------------------------------------------------------------
(* The dfile                                                               *)

NoDFile == [peers |-> EmptyDicti, completed |-> [h \in Hash |-> 0]]

\* The record r the file was cut in, as read back.  The fields are written in the
\* order ip, key, left, port: those before the cut are whole, those after it are
\* gone, and a string that was cut reads as some other one.
CutRecords(r) ==
  {[r EXCEPT !.port = NoPort], [r EXCEPT !.port = NoPort, !.left = NoLeft]}
  \cup {[r EXCEPT !.port = NoPort, !.left = NoLeft, !.key = k] : k \in Key}
  \cup [ip : IP \cup {NoIP}, port : {NoPort}, left : {NoLeft}, key : {NoKey}]

\* What DecodeFile finds in the first part of what saveDFile writes: completions
\* come first, then the torrents one by one.  The cut falls between two torrents,
\* between two peers of torrent h, or in the record of peer p.  A cut inside a
\* number, or before the peers, reads as no file at all.
CutFile(t) == [peers |-> t, completed |-> m_pCompleted]

WholeTorrents(H) == keepItems(m_pDFile, H)

CutTorrent(H, h, P) == setItem(WholeTorrents(H), h, keepItems(m_pDFile[h], P))

CutRecord(H, h, P, p, r) ==
  setItem(WholeTorrents(H), h, setItem(keepItems(m_pDFile[h], P), p, r))

CutDFile ==
  \/ disk' = NoDFile
  \/ \E H \in SUBSET DOMAIN m_pDFile : disk' = CutFile(WholeTorrents(H))
  \/ \E h \in DOMAIN m_pDFile :
       \E H \in SUBSET (DOMAIN m_pDFile \ {h}), P \in SUBSET DOMAIN m_pDFile[h] :
         \/ disk' = CutFile(CutTorrent(H, h, P))
         \/ \E p \in DOMAIN m_pDFile[h] \ P : \E r \in CutRecords(m_pDFile[h][p]) :
              disk' = CutFile(CutRecord(H, h, P, p, r))

\* Mutant: the file is not truncated, so torrents of an earlier one stay in it.
saveDFileOver ==
  disk' = [peers |-> [h \in DOMAIN disk.peers \cup DOMAIN m_pDFile |->
                        getItem(m_pDFile, h, disk.peers[h])],
           completed |-> m_pCompleted]

\* The file is truncated and written; when it cannot be opened it stays as it
\* was, and a short write, which is not noticed, leaves it cut.
saveDFile ==
  \/ disk' = [peers |-> m_pDFile, completed |-> m_pCompleted]
  \/ UNCHANGED disk
  \/ CutDFile

Update ==
  /\ ExpireDue \/ SaveDue
  /\ IF SaveDue
     THEN saveDFile /\ m_iSaveDFileNext' = now + m_iSaveDFileInterval
     ELSE UNCHANGED <<disk, m_iSaveDFileNext>>
  /\ IF ExpireDue
     THEN /\ expireDownloaders
          /\ m_iDownloaderTimeOutNext' = now + m_iDownloaderTimeOutInterval
     ELSE UNCHANGED <<m_pDFile, m_pTimeDicti, m_pIPs, m_iPrevTime,
                      m_iDownloaderTimeOutNext>>
  /\ UNCHANGED <<m_pCompleted, now>>

\* A second passes.  The main loop calls Update after every round of client
\* work, so a timer that is due is served at most Slack seconds late.
Tick ==
  /\ now < MaxTime
  /\ now <= m_iDownloaderTimeOutNext + Slack
  /\ now <= m_iSaveDFileNext + Slack
  /\ now' = now + 1
  /\ UNCHANGED <<tables, timers, disk>>

-----------------------------------------------------------------------------
(* Start, crash and restart                                                *)

\* The constructor on the decoded dfile d: every peer read back has time 0.
Load(d) ==
  /\ m_pDFile' = d.peers
  /\ m_pTimeDicti' = [h \in DOMAIN d.peers |-> [p \in DOMAIN d.peers[h] |-> 0]]
  /\ m_pIPs' = IF m_bCountUniquePeers THEN CountUniquePeers(d.peers)
                                      ELSE [i \in IP |-> 0]
  /\ m_pCompleted' = d.completed
  /\ m_iPrevTime' = 1
  /\ m_iDownloaderTimeOutNext' = m_iDownloaderTimeOutInterval
  /\ m_iSaveDFileNext' = m_iSaveDFileInterval
  /\ now' = 0

\* Mutant: the completions are not read back.
RestartUncompleted ==
  Load([disk EXCEPT !.completed = [h \in Hash |-> 0]]) /\ UNCHANGED disk

\* The process ends, at a signal or from the admin page, and is started again.
\* The destructor does not save: what the last saveDFile wrote is read back.
Restart == Load(disk) /\ UNCHANGED disk

\* The process is killed after saveDFile has truncated the dfile and before it
\* is written in full, and is started again.
CrashInSave == SaveDue /\ CutDFile /\ Load(disk')

-----------------------------------------------------------------------------
(* Specification                                                           *)

Init ==
  /\ m_pDFile = EmptyDicti
  /\ m_pTimeDicti = EmptyDicti
  /\ m_pIPs = [i \in IP |-> 0]
  /\ m_pCompleted = [h \in Hash |-> 0]
  /\ m_iPrevTime = 1
  /\ m_iDownloaderTimeOutNext = m_iDownloaderTimeOutInterval
  /\ m_iSaveDFileNext = m_iSaveDFileInterval
  /\ now = 0
  /\ disk = NoDFile

Handler ==
  \/ \E a \in announce_t : Announce(a)
  \/ \E h \in Hash : DeleteTorrent(h)
  \/ \E h \in Hash : ParseKeepDead(h)
  \/ Recount

Next == Handler \/ Update \/ Tick \/ Restart \/ CrashInSave

Spec == Init /\ [][Next]_vars

-----------------------------------------------------------------------------
(* What is promised                                                        *)

\* The (torrent, peer) pairs of a peer table.
Pairs(db) == UNION {{h} \X DOMAIN db[h] : h \in DOMAIN db}

Addresses(db) == [e \in Pairs(db) |-> db[e[1]][e[2]].ip]

Times == [e \in Pairs(m_pDFile) |-> m_pTimeDicti[e[1]][e[2]]]

Promise == INSTANCE Roster WITH
  Address <- IP,
  Timeout <- m_iDownloaderTimeOutInterval,
  Patience <- 2 * (m_iDownloaderTimeOutInterval + Slack + 1),
  where <- Addresses(m_pDFile),
  heard <- Times,
  time <- now,
  stored <- Addresses(disk.peers)

-----------------------------------------------------------------------------
(* Properties                                                              *)

\* Every table holds what the code stores in it.
TypeOK ==
  /\ IsPeerTable(m_pDFile)
  /\ IsTable(m_pTimeDicti, Hash, Peer, Nat)
  /\ m_pIPs \in [IP -> Nat]
  /\ m_pCompleted \in [Hash -> Nat]
  /\ m_iPrevTime \in Nat
  /\ m_iDownloaderTimeOutNext \in Nat
  /\ m_iSaveDFileNext \in Nat
  /\ now \in Nat
  /\ disk = [peers |-> disk.peers, completed |-> disk.completed]
  /\ IsPeerTable(disk.peers)
  /\ disk.completed \in [Hash -> Nat]

\* A tracked peer always has a time in m_pTimeDicti, whatever announces, stops,
\* deletions, expiries and reloads came before: expireDownloaders walks
\* m_pTimeDicti only, so a peer without a time would be handed out for ever.
EveryPeerTimed ==
  \A h \in DOMAIN m_pDFile : \A p \in DOMAIN m_pDFile[h] :
    h \in DOMAIN m_pTimeDicti /\ p \in DOMAIN m_pTimeDicti[h]

\* No peer stays tracked longer than two timeout intervals (each one second
\* and the main loop's lateness longer) after its last announce, although
\* expireDownloaders compares with the previous expiry and not with the age.
SilenceBounded ==
  \A h \in DOMAIN m_pDFile : \A p \in DOMAIN m_pDFile[h] :
    now - m_pTimeDicti[h][p] <= 2 * (m_iDownloaderTimeOutInterval + Slack + 1)

\* The count of an address never falls below the number of tracked peers that
\* have it, although moves, key mismatches, stops and deletions update it one
\* by one (Announce) and only some of them: no address with a tracked peer is
\* missing from the "Unique" number of the info page.
NeverUnderCounted ==
  m_bCountUniquePeers =>
    \A i \in IP : Cardinality(EntriesAt(m_pDFile, i)) <= m_pIPs[i]

\* The dfile never claims a completion the tracker has not counted, through any
\* sequence of saves, cut saves and reloads.
DiskNeverAhead == \A h \in Hash : disk.completed[h] <= m_pCompleted[h]

\* The timers drop a peer only when it has been silent for longer than the
\* downloader timeout: one that announces at least every
\* downloader_timeout_interval seconds is never lost by expireDownloaders.
OnlySilentExpire ==
  [][Update =>
       \A h \in DOMAIN m_pDFile : \A p \in DOMAIN m_pDFile[h] :
         ~ Tracked(m_pDFile', h, p) =>
            now - m_pTimeDicti[h][p] > m_iDownloaderTimeOutInterval]_vars

\* A request of the peer database is, on the roster, what it was made for.
AsPromised ==
  /\ \A a \in announce_t :
       LET m == <<a.strInfoHash, a.strPeerID>>
       IN  /\ AnnouncePeer(a) => Promise!Hear(m, a.strIP)
           /\ AnnounceStopped(a) => Promise!Leave(m)
           /\ AnnounceStoppedUnknown(a) => UNCHANGED Promise!vars
  /\ \A h \in Hash : DeleteTorrent(h) => Promise!Withdraw(h)
  /\ (Recount \/ \E h \in Hash : ParseKeepDead(h)) => UNCHANGED Promise!vars
  /\ Update => Promise!Upkeep
  /\ Tick => Promise!Tick
  /\ Restart \/ CrashInSave => Promise!Start

\* The tracker keeps the promises of Roster, request by request: an announce is heard
\* of the peer that made it and at the address it came from, "stopped" is a leave from
\* the peer that shows its key and from any other nothing, the timers drop the silent
\* alone and in time, and no handler adds, moves or drops a peer it is not about.
KeepsPromises == [][AsPromised]_vars

\* Through all its saves, cut saves and starts the peer database is such a roster: a
\* start brings back peers that were on it at a save and none besides, of a file that
\* was cut one address may be lost, and nothing else is changed.
ImplementsRoster == Promise!Spec
=============================================================================
