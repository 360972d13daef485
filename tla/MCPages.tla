------------------------------ MODULE MCPages ------------------------------
(* The listings with five torrents and three users, and beside them, one   *)
(* at a time from the first state, the conversions of texts, files and     *)
(* lists of peers.                                                         *)
EXTENDS Pages, Conversions

-----------------------------------------------------------------------------
(* Torrents and users                                                      *)

TorrentOf(name, added, size, files, tag, uploader, s, l, c, left, comments) ==
  [allowed |-> [name |-> name, added |-> added, size |-> size, files |-> files],
   tags |-> [tag |-> tag, name |-> <<>>, uploader |-> uploader],
   numbers |-> [seeders |-> s, leechers |-> l, completed |-> c, left |-> left],
   comments |-> comments]

MCTorrent ==
  <<0, 0>> :> TorrentOf(<<Upper, 1>>, <<3>>, 10, 2, <<Lower, Space, Plus>>, <<2>>, 1, 2, 3, 10, 0)
  @@ <<0, 1>> :> TorrentOf(<<Lower, 0>>, <<1>>, 30, 1, <<Percent>>, <<1>>, 0, 1, 3, 30, 2)
  @@ <<1, 0>> :> TorrentOf(<<Lower>>, <<2>>, 20, 1, <<Lower, Space, Plus>>, <<2>>, 2, 0, 0, 0, 1)
  @@ <<1, 1>> :> TorrentOf(<<0, Lower>>, <<1>>, 0, 3, <<Lower, Space, Plus>>, <<>>, 0, 3, 1, 9, 0)
  @@ <<2, 0>> :> TorrentOf(<<1>>, <<0>>, 10, 1, <<>>, <<1>>, 2, 2, 2, 4, 3)

MCRenamed == [h \in DOMAIN MCTorrent |-> <<0, Lower, h[1]>>]

MCUser ==
  <<Upper>> :> [access |-> 1, email |-> <<2>>, created |-> <<3>>]
  @@ <<0>> :> [access |-> 7, email |-> <<Upper>>, created |-> <<1>>]
  @@ <<Lower, 1>> :> [access |-> 3, email |-> <<>>, created |-> <<2>>]

MCUnknown == <<3, Lower>>

AllColumns ==
  {"strLowerName", "strAdded", "iSize", "iFiles", "iComments", "iAverageLeft", "iCompleted",
   "iTransferred", "strTag", "strUploader"}

MCSettings ==
  {[allowed |-> TRUE, sort |-> TRUE, columns |-> AllColumns, progress |-> TRUE,
    perPage |-> 2, usersPerPage |-> 1],
   [allowed |-> FALSE, sort |-> TRUE, columns |-> {"iCompleted"}, progress |-> FALSE,
    perPage |-> 3, usersPerPage |-> 0]}

AskOf(place, pages, sorts, searches, filters) ==
  [place : {place}, page : pages, sort : sorts, search : searches, filter : filters]

MCAsk ==
  AskOf("index", {0}, 0 .. 25, {<<>>}, {<<>>})
  \cup AskOf("index", {-1, 7, 512}, {0}, {<<>>}, {<<>>})
  \cup AskOf("index", {1}, {12}, {<<>>}, {<<>>})
  \cup AskOf("index", {0}, {0, 13}, {<<>>, <<Upper>>}, {<<Lower, Space, Plus>>})
  \cup AskOf("users", {0}, 0 .. 8, {<<>>}, {<<>>})
  \cup AskOf("users", {0, 1}, {0, 2}, {<<Upper>>}, {<<>>})

-----------------------------------------------------------------------------
(* Texts, files and peers                                                  *)

MCSample == BoundedSeq(Char, 2) \cup [1 .. 3 -> Percent .. LF]

Words ==
  {<<>>, <<E>>, <<1, L>>, <<Colon>>, <<Other, L, Other>>, <<1, 1, Other, E>>,
   <<Other, Other, Minus, D>>}

Leaves == {Long(0), Long(5), Long(-4)} \cup {String(s) : s \in Words}

KeyNames == {<<L>>, <<D, Other, L>>, <<L, D, Other, Other>>}

Tables(V) == {Dict(f) : f \in UNION {[K -> V] : K \in SUBSET KeyNames}}

SmallTables ==
  Tables({Long(-4), String(<<1, 1, Other, E>>), List(<<String(<<>>), Long(5)>>), List(<<>>)})

\* Strings whose size has three digits, and loses two where two bytes are left.
LongWords == {<<x, y, D, Other, L, E, Other, 1, Other>> : x, y \in {1, L, E}}

MCAtom ==
  {List(s) : s \in BoundedSeq(Leaves, 2)}
  \cup {List(<<String(w)>>) : w \in LongWords}
  \cup {List(<<List(<<Long(5), String(w)>>), Long(0)>>) : w \in LongWords}
  \cup {Dict(w :> Long(5) @@ <<1, L>> :> Long(0)) : w \in LongWords}
  \cup {Dict(<<E>> :> Dict(w :> String(w))) : w \in LongWords}
  \cup SmallTables
  \cup {Dict(setItem(EmptyDicti, <<Other, I>>, t)) : t \in SmallTables}
  \cup {List(<<t, Long(0)>>) : t \in SmallTables}

PeerOf(u, w, l, c) == [uploaded |-> u, downloaded |-> w, left |-> l, connected |-> c]

MCPeers ==
  {PeerOf(0, 0, 0, 3), PeerOf(5, 0, 0, 1), PeerOf(4, 5, 2, 2), PeerOf(5, 6, 3, 2),
   PeerOf(6, 7, 0, 1), PeerOf(3, 4, 0, 2), PeerOf(9, 0, 1, 0)}

MCPeerList == UNION {[1 .. n -> MCPeers] : n \in {0, 3}}

MCInfinite == -20

-----------------------------------------------------------------------------
(* Both together                                                           *)

MCInit == Init /\ job = NoJob

Start == view = NoView /\ changes = 0 /\ settings.allowed

\* A second change only on the way, under one of the orders.
Bounded == changes' < 2 \/ (view # NoView /\ view.ask.sort = 12)

MCNext ==
  \/ job = NoJob /\ Next /\ Bounded /\ UNCHANGED job
  \/ Start /\ (Convert \/ Done) /\ UNCHANGED vars

MCSpec == MCInit /\ [][MCNext]_<<vars, job>>
=============================================================================
