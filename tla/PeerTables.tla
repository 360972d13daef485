----------------------------- MODULE PeerTables ------------------------------
(***************************************************************************)
(* The tables of a torrent's peers on its stats page (tracker_stats.cpp):  *)
(* one of seeders and one of leechers, in the order asked for, each cut at *)
(* a limit.  A job is one list of peers that is shown.                     *)
(***************************************************************************)
EXTENDS Sorting, Reading

CONSTANTS
  PeerList,            \* sequences of the peers of a torrent, as announced
  RatioUnit,           \* steps in a share ratio of one
  m_bShowShareRatios,  \* bnbt_show_share_ratios
  m_iMaxPeersDisplay   \* bnbt_max_peers_display

\* What peers announce is not checked, so that any of it may be negative.
ASSUME PeersAssumption ==
  /\ \A peers \in PeerList :
       peers \in Seq([uploaded : Int, downloaded : Int, left : Int, connected : Int])
  /\ RatioUnit \in Nat \ {0} /\ Infinite \in Int
  /\ m_bShowShareRatios \in BOOLEAN /\ m_iMaxPeersDisplay \in Nat

-----------------------------------------------------------------------------
(* Peers                                                                   *)

shareRatio(p) ==
  CASE m_bShowShareRatios /\ p.downloaded > 0 -> (RatioUnit * p.uploaded) \div p.downloaded
    [] m_bShowShareRatios /\ p.downloaded <= 0 /\ p.uploaded # 0 -> Infinite
    [] OTHER -> 0

\* A peer_t.
peerRow(p) ==
  [iUpped |-> p.uploaded,
   iDowned |-> p.downloaded,
   iLeft |-> p.left,
   iConnected |-> p.connected,
   flShareRatio |-> shareRatio(p)]

PeerColumn == <<"iUpped", "iDowned", "iLeft", "iConnected", "flShareRatio">>

\* By what the peers are sorted; by what they have left unless told otherwise.  Where
\* sorting is disabled (m_bSort) every request is one without a sort, which is 0.
peerSort(n) ==
  CASE n \in 1 .. 5 -> asort(PeerColumn[n])
    [] n \in 6 .. 10 -> dsort(PeerColumn[n - 5])
    [] OTHER -> asort("iLeft")

sortPeers(rows, n) ==
  IF n \in {5, 10} /\ ~m_bShowShareRatios THEN rows ELSE qsort(rows, peerSort(n))

\* Mutant: the display limit counts both tables.
peersListedTogether(rows, seeder) ==
  LET listed[n \in 0 .. Len(rows)] ==
        IF n = 0 THEN <<>>
        ELSE IF n > m_iMaxPeersDisplay \/ (rows[n].iLeft = 0) # seeder THEN listed[n - 1]
        ELSE Append(listed[n - 1], rows[n])
  IN listed[Len(rows)]

\* The loop over the rows that makes the table of the seeders, or that of the leechers.
peersListed(rows, seeder) ==
  LET listed[n \in 0 .. Len(rows)] ==
        IF n = 0 THEN <<>>
        ELSE IF Len(listed[n - 1]) >= m_iMaxPeersDisplay \/ (rows[n].iLeft = 0) # seeder
        THEN listed[n - 1]
        ELSE Append(listed[n - 1], rows[n])
  IN listed[Len(rows)]

statsTable(peers, n, seeder) ==
  peersListed(sortPeers([i \in DOMAIN peers |-> peerRow(peers[i])], n), seeder)

-----------------------------------------------------------------------------
(* Steps                                                                   *)

ListPeers ==
  job = NoJob /\ \E peers \in PeerList, n \in 0 .. 10 : job' = [peers |-> peers, sort |-> n]

PeerSpec == job = NoJob /\ [][ListPeers \/ Done]_job

-----------------------------------------------------------------------------
(* Correctness                                                             *)

\* The comparison can tell the rows apart: unsigned numbers are closer than half the
\* range, and ratios, that of a peer that only uploaded among them, that are too close
\* to tell from a third are too close to tell.
tellable(rows, f) ==
  /\ f = "iConnected" => \A r, s \in rows : 2 * (r[f] - s[f]) < IntRange
  /\ f = "flShareRatio" =>
       \A x, y, z \in {r[f] : r \in rows} \cup {Infinite} :
         close(x, y) /\ close(y, z) => close(x, z)

\* In ascending order s may follow r.
mayFollow(r, s, f) ==
  IF f = "flShareRatio"
  THEN close(s[f], Infinite) \/ (~close(r[f], Infinite) /\ r[f] <= s[f] + Tolerance)
  ELSE r[f] <= s[f]

mayFollowBy(r, s, by) == IF by.up THEN mayFollow(r, s, by.field) ELSE mayFollow(s, r, by.field)

\* The stats page has every peer once in the right table, up to the limit, with the
\* rows in the order asked for and the rest behind them; peers that only uploaded have
\* the best ratio.  Nothing is said of the order of rows that cannot be told apart.
PeersListed ==
  \A peers \in {job.peers : x \in {"peers"} \cap DOMAIN job} :
    \A seeder \in BOOLEAN :
      LET table == statsTable(peers, job.sort, seeder)
          all == {n \in DOMAIN peers : (peers[n].left = 0) = seeder}
          row(n) == peerRow(peers[n])
          by == peerSort(job.sort)
      IN \E of \in Injection(DOMAIN table, all) :
           /\ Len(table) = Min({Cardinality(all), m_iMaxPeersDisplay})
           /\ \A n \in DOMAIN table : table[n] = row(of[n])
           /\ tellable({row(n) : n \in DOMAIN peers}, by.field) =>
                \A n \in DOMAIN table :
                  /\ \A m \in 1 .. n - 1 : mayFollowBy(table[m], table[n], by)
                  /\ \A m \in all \ Range(of) : mayFollowBy(table[n], row(m), by)
=============================================================================
