-------------------------------- MODULE Pages --------------------------------
(***************************************************************************)
(* The listings: the index of torrents (tracker_index.cpp) and of users    *)
(* (tracker_users.cpp), and somebody who reads them page by page while the *)
(* tables behind them change.  The tracker keeps nothing between two       *)
(* requests: each page is made from the tables as they are, and what the   *)
(* reader asked for travels in the links.                                  *)
(***************************************************************************)
EXTENDS Sorting, Dicti, FiniteSets

CONSTANTS
  Torrent,     \* info hash -> [allowed, tags, numbers, comments] a torrent has when listed
  Renamed,     \* info hash -> the name a moderator can give it
  User,        \* login -> [access, email, created]
  Unknown,     \* the text "unknown"
  Settings,    \* configurations: [allowed, sort, columns, progress, perPage, usersPerPage]
  Ask,         \* requests a reader types or finds linked elsewhere
  MaxChanges   \* bound: changes of the tables

\* What a request looks for; the users page has no filter.  An escaped text, up to
\* three times as long, has a size.
ASSUME AskAssumption ==
  \A ask \in Ask :
    /\ ask \in [place : {"index", "users"}, page : Int, sort : Int,
                search : Seq(Char), filter : Seq(Char)]
    /\ 3 * Len(ask.search) <= SizeRange /\ 3 * Len(ask.filter) <= SizeRange
    /\ ask.place = "users" => ask.filter = <<>>

\* What the tables hold.  Nothing bounds what peers announce they have left.
AllowedRecord == [name : Seq(Char), added : Seq(Char), size : Int, files : Int]
TagsRecord == [tag : Seq(Char), name : Seq(Char), uploader : Seq(Char)]
NumbersRecord == [seeders : Int, leechers : Int, completed : Int, left : Int]
UserRecord == [access : Int, email : Seq(Char), created : Seq(Char)]

ASSUME TorrentAssumption ==
  /\ IsFiniteSet(DOMAIN Torrent)
  /\ \A h \in DOMAIN Torrent :
       /\ h \in Seq(Char) /\ Renamed[h] \in Seq(Char)
       /\ Torrent[h] \in [allowed : AllowedRecord, tags : TagsRecord,
                          numbers : NumbersRecord, comments : Int]
  /\ Unknown \in Seq(Char)

ASSUME UserAssumption ==
  /\ IsFiniteSet(DOMAIN User) /\ DOMAIN User \subseteq Seq(Char)
  /\ User \in [DOMAIN User -> UserRecord]

\* There is no memory for so many entries that an int could not count them.
ASSUME MemoryAssumption ==
  2 * Cardinality(DOMAIN Torrent) <= IntRange /\ 2 * Cardinality(DOMAIN User) <= IntRange

\* A page has at least one row, or the listing is not cut into pages; negative settings
\* are replaced (config.cpp).
ASSUME SettingsAssumption ==
  \A s \in Settings :
    s \in [allowed : BOOLEAN, sort : BOOLEAN, progress : BOOLEAN,
          columns : SUBSET (TextField \cup UnsignedField \cup LongField),
          perPage : Nat, usersPerPage : Nat]

VARIABLES
  settings,
  m_pDFile,      \* info hashes of the torrents that are listed
  m_pAllowed,    \* info hash -> [name, added, size, files]
  m_pTags,       \* info hash -> [tag, name, uploader]
  m_pFastCache,  \* info hash -> [seeders, leechers, completed, left]
  m_pUsers,      \* login -> [access, email, created]
  view,          \* the page the reader has: [ask, start, shown, links]
  walk,          \* history: what the reader has seen of this listing
  changes        \* changes of the tables so far

tables == <<m_pDFile, m_pAllowed, m_pTags, m_pFastCache, m_pUsers>>
vars == <<settings, tables, view, walk, changes>>

NoView == [none |-> TRUE]

-----------------------------------------------------------------------------
(* Rows                                                                    *)

NoTorrent == [name |-> Unknown, added |-> <<>>, size |-> 0, files |-> 0]
NoTags == [tag |-> <<>>, name |-> <<>>, uploader |-> <<>>]
NoNumbers == [seeders |-> 0, leechers |-> 0, completed |-> 0, left |-> 0]

\* A torrent_t, from four tables, any of which may not have the torrent.
indexRow(h) ==
  LET torrent == getItem(m_pAllowed, h, NoTorrent)
      tags == getItem(m_pTags, h, NoTags)
      numbers == getItem(m_pFastCache, h, NoNumbers)
      average == IF numbers.leechers > 0 THEN numbers.left \div numbers.leechers ELSE 0
  IN [key |-> h,
      strLowerName |-> ToLower(IF tags.name = <<>> THEN torrent.name ELSE tags.name),
      strAdded |-> torrent.added,
      strTag |-> tags.tag,
      strUploader |-> tags.uploader,
      iSize |-> torrent.size,
      iFiles |-> torrent.files,
      iComments |-> IF settings.allowed /\ "iComments" \in settings.columns
                    THEN Torrent[h].comments ELSE 0,
      iSeeders |-> numbers.seeders,
      iLeechers |-> numbers.leechers,
      iCompleted |-> numbers.completed,
      iAverageLeft |-> average,
      iAverageLeftPercent |-> IF torrent.size > 0 THEN (100 * average) \div torrent.size ELSE 0,
      iTransferred |-> IF settings.allowed /\ "iTransferred" \in settings.columns
                       THEN numbers.completed * torrent.size ELSE 0]

\* A user_t.
userRow(l) ==
  [key |-> l,
   strLowerLogin |-> ToLower(l),
   iAccess |-> m_pUsers[l].access,
   strLowerMail |-> ToLower(m_pUsers[l].email),
   strCreated |-> m_pUsers[l].created]

\* A map keeps its keys in order.
keysInOrder(K) ==
  [n \in 1 .. Cardinality(K) |->
     CHOOSE k \in K : Cardinality({j \in K : compare(j, k) < 0}) = n - 1]

rowsOf(place) ==
  IF place = "index"
  THEN LET keys == keysInOrder(m_pDFile) IN [i \in DOMAIN keys |-> indexRow(keys[i])]
  ELSE LET keys == keysInOrder(DOMAIN m_pUsers) IN [i \in DOMAIN keys |-> userRow(keys[i])]

-----------------------------------------------------------------------------
(* Order                                                                   *)

\* The fields the sort numbers 1 to 10 and 11 to 20 stand for, and 21 to 24.
IndexColumn ==
  <<"strLowerName", "iSeeders", "iLeechers", "strAdded", "iSize", "iFiles", "iComments",
    "iAverageLeft", "iCompleted", "iTransferred">>

IndexSort(n) ==
  CASE n \in 1 .. 10 -> asort(IndexColumn[n])
    [] n \in 11 .. 20 -> dsort(IndexColumn[n - 10])
    [] n = 21 -> asort("strTag")
    [] n = 22 -> dsort("strTag")
    [] n = 23 -> asort("strUploader")
    [] n = 24 -> dsort("strUploader")

NeedsAllowed == {"strLowerName", "strAdded", "iSize", "iFiles", "iComments", "iTransferred"}

\* A sort by a column that is not shown is ignored.
canSort(f) ==
  /\ f \in NeedsAllowed => settings.allowed
  /\ f \in {"iSeeders", "iLeechers"} \cup settings.columns

\* With sizes known the average left is sorted as a percentage, the other way round
\* when it is shown as progress.
percentSort(by) ==
  [field |-> "iAverageLeftPercent", up |-> IF settings.progress THEN ~by.up ELSE by.up]

sortIndex(rows, n) ==
  IF settings.sort /\ n \in 1 .. 24
  THEN LET by == IndexSort(n)
       IN IF ~canSort(by.field) THEN rows
          ELSE IF by.field = "iAverageLeft" /\ settings.allowed THEN qsort(rows, percentSort(by))
          ELSE qsort(rows, by)
  ELSE IF settings.allowed THEN qsort(rows, asort("strLowerName"))
  ELSE rows

\* Access in ascending order begins with the admins.
UserSort ==
  <<asort("strLowerLogin"), dsort("iAccess"), asort("strLowerMail"), asort("strCreated"),
    dsort("strLowerLogin"), asort("iAccess"), dsort("strLowerMail"), dsort("strCreated")>>

sortUsers(rows, n) ==
  qsort(rows, IF n \in DOMAIN UserSort THEN UserSort[n] ELSE dsort("strCreated"))

sortRows(place, n) ==
  IF place = "index" THEN sortIndex(rowsOf(place), n) ELSE sortUsers(rowsOf(place), n)

-----------------------------------------------------------------------------
(* Pages                                                                   *)

matchesIndex(row, ask) ==
  /\ ask.filter # <<>> => row.strTag = ask.filter
  /\ ask.search # <<>> => occursIn(ToLower(ask.search), row.strLowerName)

matchesUsers(row, ask) ==
  ask.search # <<>> => occursIn(ToLower(ask.search), row.strLowerLogin)

matches(row, ask) ==
  IF ask.place = "index" THEN matchesIndex(row, ask) ELSE matchesUsers(row, ask)

perPage(place) == IF place = "index" THEN settings.perPage ELSE settings.usersPerPage

\* Mutant: pages are one row further apart than they are long.
iStartFar(ask) == unsigned(ask.page * (perPage(ask.place) + 1))

\* The product is kept in an unsigned int; without pages it is zero.
iStart(ask) == unsigned(ask.page * perPage(ask.place))

\* Mutant: rows are counted as found when they are shown.
putRowShown(c, row, ask) ==
  IF ~matches(row, ask) THEN c
  ELSE IF perPage(ask.place) # 0 /\ Len(c.shown) >= perPage(ask.place) THEN c
       ELSE IF c.skipped = int(iStart(ask))
            THEN [c EXCEPT !.found = @ + 1, !.shown = Append(@, row)]
            ELSE [c EXCEPT !.found = @ + 1, !.skipped = @ + 1]

\* One turn of the loop over the rows: c holds what it counts and has shown.
putRow(c, row, ask) ==
  IF ~matches(row, ask) THEN c
  ELSE LET f == [c EXCEPT !.found = @ + 1]
       IN IF perPage(ask.place) # 0 /\ Len(c.shown) >= perPage(ask.place) THEN f
          ELSE IF c.skipped = int(iStart(ask)) THEN [f EXCEPT !.shown = Append(@, row)]
          ELSE [f EXCEPT !.skipped = @ + 1]

putRows(ask) ==
  LET rows == sortRows(ask.place, ask.sort)
      put[n \in 0 .. Len(rows)] ==
        IF n = 0 THEN [found |-> 0, skipped |-> 0, shown |-> <<>>]
        ELSE putRow(put[n - 1], rows[n], ask)
  IN put[Len(rows)]

\* The page numbers below the table; the page itself is not linked.
pageLinks(found, ask) ==
  LET n == perPage(ask.place)
  IN {p \in 0 .. found : n > 0 /\ n * p < found /\ n * p # iStart(ask)}

\* serverResponseIndex and the second half of serverResponseUsers.
answer(ask) ==
  LET c == putRows(ask)
  IN [ask |-> ask, start |-> iStart(ask), shown |-> c.shown, links |-> pageLinks(c.found, ask)]

\* The requests the link to page p can be read as: search and filter travel escaped,
\* and the users page has no filter.
linked(ask, p) ==
  {[place |-> ask.place, page |-> p, sort |-> ask.sort, search |-> s, filter |-> f] :
     s \in EscapedToString(StringToEscaped(ask.search)),
     f \in IF ask.place = "index" THEN EscapedToString(StringToEscaped(ask.filter)) ELSE {<<>>}}

-----------------------------------------------------------------------------
(* The reader                                                              *)

matching(ask) == {row.key : row \in {r \in ToSet(rowsOf(ask.place)) : matches(r, ask)}}

\* The rows are such that the comparisons tell them apart.
told(ask) == comparable(ToSet(rowsOf(ask.place)))

\* Where the page begins a page of the listing begins.
numbered(ask) == perPage(ask.place) = 0 \/ iStart(ask) % perPage(ask.place) = 0

pageNumber(ask) == IF perPage(ask.place) = 0 THEN 0 ELSE iStart(ask) \div perPage(ask.place)

\* The reader types a request, or comes from another page.  The tracker keeps nothing
\* of what a reader saw before, so that a behaviour follows one listing only.
Open(ask) ==
  /\ view = NoView
  /\ view' = answer(ask)
  /\ walk' = [ask |-> ask,
              seen |-> IF numbered(ask) THEN setItem(EmptyDicti, pageNumber(ask), view'.shown)
                       ELSE EmptyDicti,
              forward |-> told(ask) /\ (perPage(ask.place) = 0 \/ ask.page = 0),
              stayed |-> matching(ask),
              changes |-> 0]
  /\ UNCHANGED <<settings, tables, changes>>

\* The reader follows the link to page p.
Follow(p) ==
  /\ view # NoView
  /\ p \in view.links
  /\ \E ask \in linked(view.ask, p) :
       /\ view' = answer(ask)
       /\ walk' = [walk EXCEPT !.seen = setItem(@, p, view'.shown),
                               !.stayed = @ \cap matching(ask),
                               !.forward = @ /\ told(ask) /\ p = view.ask.page + 1]
  /\ UNCHANGED <<settings, tables, changes>>

-----------------------------------------------------------------------------
(* The tables                                                              *)

\* What the other requests and the timers do to the tables between two pages.
Noted ==
  /\ changes' = changes + 1
  /\ walk' = IF view = NoView THEN walk ELSE [walk EXCEPT !.changes = @ + 1]
  /\ UNCHANGED <<settings, view>>

\* A torrent is deleted or, without an allowed list, expires with its last peer: its
\* entry in the fast cache stays.
DeleteTorrent(h) ==
  /\ h \in m_pDFile
  /\ m_pDFile' = m_pDFile \ {h}
  /\ m_pAllowed' = delItem(m_pAllowed, h)
  /\ m_pTags' = IF settings.allowed THEN delItem(m_pTags, h) ELSE m_pTags
  /\ UNCHANGED <<m_pFastCache, m_pUsers>>
  /\ Noted

\* A torrent is uploaded and parsed or, without an allowed list, announced for the
\* first time: the fast cache does not have it before its next refresh.
AddTorrent(h) ==
  /\ h \notin m_pDFile
  /\ m_pDFile' = m_pDFile \cup {h}
  /\ m_pAllowed' = IF settings.allowed THEN setItem(m_pAllowed, h, Torrent[h].allowed)
                   ELSE m_pAllowed
  /\ m_pTags' = IF settings.allowed THEN setItem(m_pTags, h, Torrent[h].tags) ELSE m_pTags
  /\ UNCHANGED <<m_pFastCache, m_pUsers>>
  /\ Noted

\* RefreshFastCache after announces for torrent h: a peer more.
Refresh(h) ==
  /\ h \in m_pDFile
  /\ \E field \in {"seeders", "leechers"} :
       m_pFastCache' = setItem(m_pFastCache, h, [getItem(m_pFastCache, h, NoNumbers)
                                                   EXCEPT ![field] = @ + 1])
  /\ UNCHANGED <<m_pDFile, m_pAllowed, m_pTags, m_pUsers>>
  /\ Noted

\* A moderator renames torrent h on its stats page.
Rename(h) ==
  /\ h \in m_pDFile
  /\ m_pTags' = setItem(m_pTags, h, [getItem(m_pTags, h, NoTags) EXCEPT !.name = Renamed[h]])
  /\ m_pTags' # m_pTags
  /\ UNCHANGED <<m_pDFile, m_pAllowed, m_pFastCache, m_pUsers>>
  /\ Noted

DeleteUser(l) ==
  /\ m_pUsers' = delItem(m_pUsers, l)
  /\ UNCHANGED <<m_pDFile, m_pAllowed, m_pTags, m_pFastCache>>
  /\ Noted

AddUser(l) ==
  /\ m_pUsers' = setItem(m_pUsers, l, User[l])
  /\ UNCHANGED <<m_pDFile, m_pAllowed, m_pTags, m_pFastCache>>
  /\ Noted

Change ==
  /\ changes < MaxChanges
  /\ \/ \E h \in DOMAIN Torrent :
          DeleteTorrent(h) \/ AddTorrent(h) \/ Refresh(h) \/ Rename(h)
     \/ \E l \in DOMAIN m_pUsers : DeleteUser(l)
     \/ \E l \in DOMAIN User \ DOMAIN m_pUsers : AddUser(l)

-----------------------------------------------------------------------------
(* Specification                                                           *)

Init ==
  /\ settings \in Settings
  /\ m_pDFile = DOMAIN Torrent
  /\ m_pAllowed = IF settings.allowed THEN [h \in DOMAIN Torrent |-> Torrent[h].allowed]
                  ELSE EmptyDicti
  /\ m_pTags = [h \in DOMAIN Torrent |-> Torrent[h].tags]
  /\ m_pFastCache = [h \in DOMAIN Torrent |-> Torrent[h].numbers]
  /\ m_pUsers = User
  /\ view = NoView
  /\ walk = NoView
  /\ changes = 0

Next ==
  \/ \E ask \in Ask : Open(ask)
  \/ \E p \in 0 .. Cardinality(m_pDFile) + Cardinality(DOMAIN m_pUsers) : Follow(p)
  \/ Change

Spec == Init /\ [][Next]_vars

-----------------------------------------------------------------------------
(* Correctness                                                             *)

shown == FlattenSeq([p \in 1 .. Max(DOMAIN walk.seen \cup {0}) + 1 |->
                       getItem(walk.seen, p - 1, <<>>)])

\* What a column shows and a reader who sorts by it goes by.
displayed(row, f) ==
  IF f = "iAverageLeft" /\ settings.allowed
  THEN IF settings.progress THEN 100 - row.iAverageLeftPercent ELSE row.iAverageLeftPercent
  ELSE row[f]

\* The order the reader asked for: by a column that is shown, else by name.
wanted(ask) ==
  CASE ask.place = "users" ->
         IF ask.sort \in DOMAIN UserSort THEN UserSort[ask.sort] ELSE dsort("strCreated")
    [] ask.place = "index" /\ settings.sort /\ ask.sort \in 1 .. 24 -> IndexSort(ask.sort)
    [] OTHER -> asort("strLowerName")

inOrder(a, b, by) ==
  LET x == displayed(IF by.up THEN a ELSE b, by.field)
      y == displayed(IF by.up THEN b ELSE a, by.field)
  IN IF by.field \in TextField THEN compare(x, y) <= 0 ELSE x <= y

sortable(ask) ==
  /\ told(ask)
  /\ ask.place = "index" =>
       settings.allowed /\ (settings.sort /\ ask.sort \in 1 .. 24 =>
                              canSort(IndexSort(ask.sort).field))

\* A reader who has followed every link under the table while nothing changed has
\* seen each entry that matches once, and in the order that was asked for, whatever
\* page was opened first: the arithmetic of pages, the counting of found, added and
\* skipped rows, the choice of the comparison and the order it makes fit together.
EveryEntryOnce ==
  view # NoView /\ walk.changes = 0 /\ view.links \subseteq DOMAIN walk.seen =>
    \A s \in {shown} :
      /\ Len(s) = Cardinality(matching(walk.ask))
      /\ {r.key : r \in ToSet(s)} = matching(walk.ask)
      /\ sortable(walk.ask) =>
           \A i \in 2 .. Len(s) : inOrder(s[i - 1], s[i], wanted(walk.ask))

\* A reader who goes from the first page to the last misses an entry that was there
\* and matched at every request only when the tables change on the way, and at most one
\* for each torrent or user that was added, deleted, renamed or counted anew.  Nothing
\* is said of rows the comparisons cannot tell apart.
MissedBounded ==
  view # NoView /\ walk.forward /\ (\A p \in view.links : p < view.ask.page) =>
    Cardinality(walk.stayed \ {r.key : r \in ToSet(shown)}) <= walk.changes

\* The page behind a link is a page of the same listing: the sort, the search and
\* the filter of the first page survive the escapes in every link that is followed.
SelectionKept ==
  view # NoView => [view.ask EXCEPT !.page = walk.ask.page] = walk.ask
=============================================================================
