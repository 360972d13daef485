----------------------------- MODULE FastCache -----------------------------
(***************************************************************************)
(* The "fast cache": per torrent the numbers of seeds, leechers and        *)
(* completed downloads that the index page, scrapes and announces show.    *)
(* It is rebuilt from the peer database when the index page or a full      *)
(* scrape finds it too old; no other request rebuilds it.                  *)
(***************************************************************************)
EXTENDS Swarm

CONSTANT m_iRefreshFastCacheInterval   \* bnbt_refresh_fast_cache_interval

ASSUME RefreshAssumption == m_iRefreshFastCacheInterval \in Nat

VARIABLES
  m_pFastCache,             \* info hash -> [complete, incomplete, downloaded]
  m_iRefreshFastCacheNext,  \* no refresh up to this time
  refreshed,                \* history: when m_pFastCache was built
  shown                     \* history: the numbers last shown, to which request

fastVars == <<m_pFastCache, m_iRefreshFastCacheNext, refreshed, shown>>

-----------------------------------------------------------------------------
(* Building and showing the cache                                          *)

Seeders(h) == {p \in DOMAIN m_pDFile[h] : m_pDFile[h][p].left = 0}
Leechers(h) == {p \in DOMAIN m_pDFile[h] : m_pDFile[h][p].left \notin {0, NoLeft}}

\* Mutant: the completions are left out.
NumbersTwo(h) == [complete   |-> Cardinality(Seeders(h)),
                  incomplete |-> Cardinality(Leechers(h))]

Numbers(h) == [complete   |-> Cardinality(Seeders(h)),
               incomplete |-> Cardinality(Leechers(h)),
               downloaded |-> m_pCompleted[h]]

RefreshFastCache ==
  /\ m_pFastCache' = [h \in DOMAIN m_pDFile |-> Numbers(h)]
  /\ refreshed' = now

\* Mutant: the timer is restarted by every request.
RefreshIfDueRestarted ==
  /\ m_iRefreshFastCacheNext' = now + m_iRefreshFastCacheInterval
  /\ IF now > m_iRefreshFastCacheNext
     THEN RefreshFastCache
     ELSE UNCHANGED <<m_pFastCache, refreshed>>

RefreshIfDue ==
  IF now > m_iRefreshFastCacheNext
  THEN /\ RefreshFastCache
       /\ m_iRefreshFastCacheNext' = now + m_iRefreshFastCacheInterval
  ELSE UNCHANGED <<m_pFastCache, m_iRefreshFastCacheNext, refreshed>>

\* The numbers of the torrents H, as far as the cache has them, are sent to a
\* request of this kind now.
Show(kind, H) ==
  shown' = [to |-> kind, at |-> now, builtAt |-> refreshed',
            numbers |-> keepItems(m_pFastCache', H)]

\* Every torrent on the page looks the cache up, so a page without one does not
\* refresh it.
Index ==
  /\ DOMAIN m_pDFile # {}
  /\ RefreshIfDue
  /\ Show("index", DOMAIN m_pDFile)
  /\ UNCHANGED vars

FullScrape == RefreshIfDue /\ Show("scrape", Hash) /\ UNCHANGED vars

\* A scrape that names its torrents shows what the cache has.
ScrapeOf(H) ==
  /\ UNCHANGED <<m_pFastCache, m_iRefreshFastCacheNext, refreshed>>
  /\ Show("scrape of", H)
  /\ UNCHANGED vars

\* So does an announce, after the peer database has changed.
AnnounceShows(a) ==
  /\ Announce(a)
  /\ UNCHANGED <<m_pFastCache, m_iRefreshFastCacheNext, refreshed>>
  /\ Show("announce", {a.strInfoHash})

-----------------------------------------------------------------------------
(* Specification                                                           *)

NothingShown == [to |-> "nobody", at |-> 0, builtAt |-> 0, numbers |-> EmptyDicti]

FastInit ==
  /\ Init
  /\ m_pFastCache = EmptyDicti
  /\ m_iRefreshFastCacheNext = 0
  /\ refreshed = 0
  /\ shown = NothingShown

\* A tracker starts with an empty cache.
FastStarted ==
  /\ Restart \/ CrashInSave
  /\ m_pFastCache' = EmptyDicti
  /\ m_iRefreshFastCacheNext' = 0
  /\ refreshed' = 0
  /\ shown' = NothingShown

\* Deletion, parsing, counting and the timers leave the cache as it is.
CacheKept ==
  /\ \/ \E h \in Hash : DeleteTorrent(h) \/ ParseKeepDead(h)
     \/ Recount
     \/ Update
     \/ Tick
  /\ UNCHANGED fastVars

FastNext ==
  \/ Index
  \/ FullScrape
  \/ \E H \in (SUBSET Hash) \ {{}} : ScrapeOf(H)
  \/ \E a \in announce_t : AnnounceShows(a)
  \/ CacheKept
  \/ FastStarted

FastSpec == FastInit /\ [][FastNext]_<<vars, fastVars>>

-----------------------------------------------------------------------------
(* Properties                                                              *)

FastTypeOK ==
  /\ IsDicti(m_pFastCache, Hash,
             [complete : Nat, incomplete : Nat, downloaded : Nat])
  /\ m_iRefreshFastCacheNext \in Nat
  /\ refreshed \in Nat
  /\ shown.at \in Nat /\ shown.builtAt \in Nat

\* The index page and full scrapes never show numbers built longer ago than the
\* refresh interval, however requests are spread: doc/changelog.txt:9, "the
\* tracker will cache index/scrape data for at most this many seconds".
FullyFresh ==
  shown.to \in {"index", "scrape"} =>
    shown.at - shown.builtAt <= m_iRefreshFastCacheInterval
=============================================================================
