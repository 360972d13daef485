# A verification of BNBT, a BitTorrent tracker

TLA+ modules that model the tracker in `src/src/`, TLC configurations that check them on small
instances, and theorems about them that TLAPS checks for every value of the constants.

BNBT answers HTTP requests of BitTorrent clients (announces, scrapes) and of people (an index of
torrents, statistics, uploads, comments, users, administration). It is one process and one thread: the
main loop of `bnbt.cpp` calls `CServer::Update`, which accepts connections and gives every client one
step, and `CTracker::Update`, which serves the timers. A handler therefore runs to its end before
anything else happens. What is hard lies between handlers: tables that must agree after any sequence of
them, copies that outlive their source, a file rewritten in place, timers against late answers, and the one
place where the loop runs inside itself (`parseTorrents` calls `CServer::Update` for every name in the directory).

## 1. Inventory

| Component | State | Operations | Interacts through | Hard behaviour | Correct when |
|---|---|---|---|---|---|
| Peer database (`tracker.cpp`) | `m_pDFile`, `m_pTimeDicti`, `m_pIPs`, `m_pCompleted`, three timers, the dfile | announce (4 events), expire, count, save, load, delete, keep dead | calls from every handler; the dfile | keys and addresses that change; saves cut by a crash; expiry by the time of the previous expiry | every peer can expire, live peers stay, silent ones go, addresses are counted, nothing on disk is ahead |
| Announce answers (`tracker_announce.cpp`) | `m_pCached` | refill, shuffle, take | reads the peer database | entries are stale copies; lists are never trimmed | lists stay bounded, no peer starves, no answer is too long |
| Fast cache (`tracker.cpp`, `tracker_scrape.cpp`, `tracker_index.cpp`) | `m_pFastCache`, its timer | rebuild, show | reads the peer database | refreshed by some readers only | what is shown is no older than promised |
| Client connections (`client.cpp`) | state, buffers, `rqst`, `rsp`, `m_iLast` | one step per round | `CServer::Update`; the peer | pipelining, pieces, silent peers, what `Reset` keeps | requests do not mix, no connection times out that was ready when last looked at, nothing hangs |
| Server and main loop (`server.cpp`, `bnbt.cpp`) | clients, listeners, `m_bKill` | accept, update, kill | clients, `parseTorrents`, signals | several listeners, nested rounds, a kill in the middle | the limit is overrun by no more than a round accepts, nobody starves, a kill ends the program |
| Allowed directory (`parseTorrents`, `parseTorrent`) | `m_pAllowed`, the directory, the archive | parse all, parse one | runs the server while it parses; gates announces | uploads and deletions during a parse; files that come and go; a directory that cannot be opened | the list names the files it was made from, and catches up where parsing is on |
| Uploads, deletion, tags (`tracker_upload.cpp`, `tracker_index.cpp`, `tracker_login.cpp`, `tracker_stats.cpp`) | `m_pTags`, files | upload, delete, edit | `m_pAllowed`, peer database | one step of several failing | deleting a torrent deletes no other; nothing is archived that is not there |
| Users and access (`tracker_users.cpp`, `tracker_signup.cpp`, `checkUser`) | `m_pUsers`, its file | create, edit, delete, sign up, check | `rqst.user`, read at the headers and used at the answer | stale rights; the last user or admin; a file cut by a crash | nobody becomes an admin of a tracker without one; a password is changed by an admin only |
| Comments (`tracker_comments.cpp`) | `m_pComments`, its file | add, delete one, delete all | saved at once | deletion by position | one comment goes, the chosen one or a newer one |
| Listings (`tracker_index.cpp`, `tracker_users.cpp`, `sort.cpp`) | none | filter, sort, page | read all tables; the request travels in the links | the tables change between two pages | each entry on exactly one page, in the order asked for |
| Stats page (`tracker_stats.cpp`) | none | list the peers of a torrent, in the order of their ratios | reads the peer database | ratios that are infinite or nearly equal | each peer once, in the order asked for |
| Bencoding and atoms (`bencode.cpp`, `atom.cpp`) | none | encode, decode | every file | input cut anywhere; lengths that are computed and not counted, so that bytes are read again | decoding undoes encoding, and of a prefix all but what it reads again |
| Utilities (`util.cpp`) | none | escape, convert, move and write files | everything | the ends of texts | what is escaped is read back |
| Configuration (`config.cpp`) | set at start | clamp, default | everything | boundaries | clamps hold |

Not modelled, for good: layout of pages, logging, static files, RSS and XML dumps (written, never read
back); MySQL (a build option that moves the peer database out of the process) and `bnbtphp`, its front
end; MD5, SHA-1 and base64 (third-party, pure); the Windows service glue. `PROJECT.json` lists every part
with its status, and every hazard at its line with the properties that cover it.

## 2. Modules

| Module | Models | Composed with |
|---|---|---|
| `Dicti` | `CAtomDicti`: get, set, delete, erase in a loop | used by every module with tables |
| `Swarm` | the peer database, its timers, the dfile, crash and restart | |
| `Roster` | abstract: what those who announce are promised | implemented by `Swarm` |
| `PeerCache` | what announces are answered with | extends `Swarm`: each announce is Swarm's `Announce` and the answer in one step |
| `FastCache` | index, scrape and announce numbers | extends `Swarm` in the same way |
| `Connection` | one client connection, its peer and the clock | |
| `Server` | accept loop, rounds, nested rounds, shutdown | |
| `Torrents` | the allowed directory, `m_pAllowed`, tags, archive; uploads and deletions between the steps of a parse | |
| `Catalog` | abstract: what a list made from a directory promises | implemented by `Torrents` |
| `Members` | users, rights, comments and their files | |
| `Text` | escapes, info hash digits, lower case, HTML | |
| `Sorting` | the comparisons and `qsort` | extends `Text` |
| `Pages` | the index of torrents, the list of users, and somebody who pages through them | extends `Sorting` |
| `Bencode` | encoder, lengths, decoder | |
| `Reading` | a text, written into a page or a link and read again | extends `Text` |
| `PeerTables` | the tables of peers on the stats page | extends `Sorting` and `Reading` |
| `Conversions` | a text, a file, a list of peers, each there and back | extends `PeerTables` and `Bencode` |
| `MCPeerCache`, `MCAnswers` | | instances of `PeerCache`; of `PeerCache` and `FastCache` |
| `DataTheorems` | lemmas about dictionaries, numbers, loops, sequences, orders and ranks | used by the proofs |
| `SwarmProofs`, `ConnectionProofs`, `ServerProofs`, `TorrentsProofs`, `MembersProofs` | theorems | each extends its module |
| `AnswersProofs` | theorems | extends `PeerCache` and `FastCache` |
| `PagesProofs` | theorems | extends `Pages` and `PeerTables` |

### Swarm and Roster
Variables have the names of the members they model; `now` is `GetTime()`, `disk` what `DecodeFile` would
make of the dfile. An announce is a record (`announce_t`); `uploaded` and `downloaded` are stored and
never tested, and are left out. A record has `NoKey`, `NoIP`, `NoLeft` or `NoPort` where the code has an
empty key or no entry. `Announce` is its three paths: tracked (`AnnouncePeer`), stopped by a peer that
shows its key, stopped by one that does not. `Update` saves before it expires, as the code does.
A save may not open the file, or be cut: `CutDFile` enumerates what the decoder finds in a prefix
(completions come first, then torrents, peers and fields in the order of their keys; a cut inside a number
discards everything). Left out is what a cut in the id of a peer makes the decoder read again (`CutFilesReadBack`): as a rule it then gives up, but where the id
goes on like an item, an entry of an info hash that is empty is made up, which is no torrent's. `Restart` is the constructor on `disk`, at any moment, because the destructor
does not save; `CrashInSave` is a kill inside a save. `EntriesAt` with its cardinality is
`CountUniquePeers`. An announce is assumed to have passed the checks before line 157 of
`tracker_announce.cpp`, which change no state. `DeleteTorrent` is what the index and the login page do to the
database: times, counts, completions and cached lists stay.

Bounds: `MaxTime` (the clock), `MaxDone` (completions) and `MaxCount` (counts per address). `Slack`: the
main loop serves a timer that is due at most this many seconds late, which is an assumption on the
environment (the code has no deadline).

`Roster` is what the peer database is for, without its tables and timers: who is heard of is on it at the address it was last heard from, who leaves is
off it, silence has an end but not an early one, and a start brings back what was stored. The mapping takes `where` (member to address) from the records of `m_pDFile`
(`Addresses`), `heard` from `m_pTimeDicti` (`Times`), `time` from the clock and `stored` from the dfile. `ImplementsRoster` says that every behaviour of `Swarm` is one of `Roster`. That
alone would allow any request to be any step of it, a handler that answers "started" with a leave included, so that `KeepsPromises` says which step each
request is: an announce is `Hear` of its peer at its address, a stop `Leave` or nothing, a deletion `Withdraw`, the timers `Upkeep`, a restart `Start`.

### PeerCache
`m_pCached` is a sequence of copies per torrent. A refill appends all peers but the asker and, for a seed,
other seeds, and yields every shuffle of the result; then entries are taken from the front until the answer
is full. In compact form entries without four octets or a port are taken and not handed out: `Given` counts the entries handed out among the first k of the list,
`PlaceGiven` is the place in the list of the k-th one handed out. `numwant` is
read as an `int` and compared as unsigned: negative values are clamped to `max_give`. `passedOver` is
history: refills in which a peer was listed since it was last taken. `IP` is what the `ip` parameter lets through
(digits and dots); `BadIP` are those that are no address.

### FastCache
`RefreshIfDue` is the test of the index page (inside its loop over torrents, so only when there is one) and of
the full scrape. `refreshed` and `shown` are history. The sums of bytes left are left out.

### Connection
`m_iState` and what each state does in one `Update`. A request is the fields the states branch on; it
arrives as a first part, a second part with the blank line, and a body, and `recv` takes any number of the parts
that have arrived. `Reset` erases what was pipelined behind the request just answered, so the rest of a request may
arrive without its beginning: it then reads as `Garbage`, which may close the connection or be answered with an
error. `hasQuery` and `m_bKeepAlive` have no first value in the code and start as either. Time is relative:
`idle` is the age `Update` tests, `late` the time since the last round. One connection is enough, because
connections share only a receive buffer that is cleared before every use.

### Server
`pc` says where the program is; a client's `Update` (Connection) is abstracted to: stays, closes, kills. While
`parseTorrents` runs, `CServer::Update` is called per directory entry and its result dropped (`EndNestedUpdate`). `giMaxConns` is compared once per round, for all listeners. The first
signal asks for the end, the second ends the process. `Arrive` is a peer connecting. Signals before the server exists end
the process at once and are left out.

### Torrents and Catalog
A file is a name and what is in it: the torrent with that info hash, or `Junk`, in which no decoder finds an info dictionary. `Named` are the torrents
`parseTorrent` would list (`info` has a name and a length or files). `Other` are the names in the directory that do not end in `.torrent`, `.` and `..` among them. `parseTorrents` is a sequence of steps: `opendir`; per name, of whatever kind,
`Readdir`, which is followed by `CServer::Update` (`pc = "nested"`, when every request may be served), then `ParseFile`, or `PassOver` for the other names; at the end
`m_pAllowed` is replaced by the list made. The timer is served only where `parse_allowed_interval` is set (`settings.parses`): with the default of 0 the list of the start
is changed by requests only. `readdir` is the environment's: it returns every name that stays in the directory, may return one that
came or went meanwhile, and returns none twice. `kept` and `seen` are history for that and for the refinement. `Restart` may come at any moment; the
constructor parses before it serves, so that its parse is one step, `Lists(dir)` being the lists any order of the files gives. An upload is one action with
all it does: file, tag, list, tracked torrent. A write may leave the whole file, a beginning or nothing, once in a behaviour. A beginning is any
content: cut after its `pieces` have begun a torrent decodes as one with another info hash, which is listed. What `parseTorrent` lists is what is read back. `UTIL_MoveFile` keeps a file of
that name in the archive and drops the one moved, and makes an empty one when there was none to move. `Catalog` is the abstract reader: a list is
made in no particular way, names only files that were there while it was made, with the torrent they held, and has every torrent whose file
stayed. The mapping is `list <- m_pAllowed`, `reading <- pc # "main"`; nested requests change the list and the directory in the middle of a reading.

Assumed: the upload directory is the allowed directory, as it must be for uploads to be listed without somebody's help; the tag file is written whole; an admin puts files there and takes none away.

### Members
`rqst[c]` is a request between its headers (`ProcessHeaders`, where `checkUser` reads the rights) and its response, which every other connection
may get in between; the rights used are those read. A GET waits a round, a POST until its body has come. `page[c]` are the comments on the page a
client has, whose numbers its links carry. Users and comments are saved in place at every change: a save fails at most once, by not opening the
file or by being cut, and `CutUsers` and `CutComments` are what the decoder then finds (`CutFilesReadBack` checks the decoder). A user cut before his date is
read back without one, and with a password again makes `checkUser` dereference NULL (`CheckUserCrashes`, tracker.cpp:1533). `delall` goes before `del`, as in the code. A page may be
older than the list by any number of posts and deletions: the number it sends is then the place of another comment, and `ChosenCommentGoes` says which it may be.

### Text, Sorting and Pages
A byte is a digit in either case or one character of each kind the code treats in its own way (`%`, `+`, space, `&`, `<`, line feed...), over a smaller `Base`
than 16. `EscapedToString` returns the set of texts the code may produce, because the test for a whole escape wraps in short texts and reads behind the end.
`Sorting` has each comparison with the width of its numbers (`IntRange`); `qsort` puts one row after the other where the comparison wants it, behind its equals, which
for rows the comparison puts in an order is what glibc's merge sort makes while it can allocate (the code relies on no order among equal rows, and of rows that are in no order both
make some permutation). `RemoveHTML` is a recursion over the bytes (`withByte`), which looks back at what it has made when it meets a line feed, as the code looks back in the string it edits.
`Reading` says how such texts are read: links by `EscapedToString`, info hashes by `StringToHash`, pages by a browser (`asRead`), which shows `<`, `>` and `&` that are no markup as such.
`Pages` makes the rows from the five tables as the index does, sorts, filters and cuts them with the code's three counters, and makes the links. A reader
opens one listing and follows links (`Follow`), between which the other requests change the tables (`Change`). `walk` is his history: `seen` has the pages by their numbers,
and a first page that begins between two pages (its first row times the page size wrapped) has no number. One listing per
behaviour is enough, because the tracker keeps nothing of a reader between requests. `told` says that the comparisons tell the rows apart: two unsigned numbers differ by less than
half an `IntRange`. Where they do not the order is anything, and nothing is claimed of it.

### Bencode and Conversions
Files are sequences of digits, the letters `i l d e`, colon, minus and another byte, over a smaller `Radix` than ten. `DecodeDicti` and `DecodeList` go on
after an item by the length it would have encoded again (`EncodedLength`), as the code does, and the end of the file closes whatever is open. `leftOf` says, without the decoder, what is
left of an atom in the first n bytes of its file, and `CutFilesReadBack` that this is what is read. The exception are the bytes read again (`readAgain`): those by which what is left of the cut item, encoded, is shorter than
the bytes the file has of it. A string that is cut short may have a shorter size (`l100:xx...` cut after `1a` reads `1a` again, as an empty string), and an inner dictionary drops the key it was
cut in. Of n such bytes the decoder makes up to n items, or entries, over others too, or it gives up (`holds`).
`Conversions` converts one thing at a time from the first state: each `Sample` through each conversion of `Text`, each `Atom` to a file and
back, whole and cut at every byte (`Reading` has the step for texts), each `PeerList` through the tables of the stats page (`PeerTables`). Ratios are told apart (`tellable`) when
being too close to tell is an equivalence of the ratios shown, that of a peer that only uploaded (`Infinite`) among them; `PeersListed` claims an order for such peers only, and the
right rows for all.

## 3. Runs

| Run | Checks | Instance and why it is enough |
|---|---|---|
| `swarm_announce` | `TypeOK`, `SilenceBounded`, `NeverUnderCounted`, `OnlySilentExpire`, `KeepsPromises` | 1 torrent, 2 peers, 2 addresses, 3 keys (none, right, wrong), 6 seconds with a timeout of 1: three expiries, moves, key changes, stops; the bound of `SilenceBounded` is reached, so a smaller one fails |
| `swarm_crash` | `EveryPeerTimed`, `DiskNeverAhead`, `NeverUnderCounted`, `ImplementsRoster` | 2 torrents sharing a peer and an address, keep dead, saves every 3rd second, cut or not, restarts at any time |
| `answers` | `CacheTypeOK`, `CacheBounded`, `NeverStarved`, `GiveBounded`, `FastTypeOK`, `FullyFresh` | a behaviour is about the lists or about the numbers, which share only the peer database. Lists: 3 peers, one of the addresses unusable in compact form, `max_give` 2, answers of one and of two, every shuffle, 2 seconds (`ListsTime`), with seeds in the first only. Numbers: a torrent that comes and goes with a peer (one at a time, `MaxPeers`), 4 seconds, interval 1: several refreshes and restarts |
| `cache_oneself` | `NotOneself`: **violated** | 2 peers |
| `connection` | `TypeOK`, `OwnParameters`, `OnlyWaitingTimeOut`, `NeverStuck` | announces for two torrents, a scrape, POSTs with and without length; two pieces in flight; time-out 4 with rounds up to 1 second apart, which the four rounds of a request make tight |
| `connection_scrapes` | `ScrapesAsAsked`: **violated** | scrapes only, with and without torrents |
| `server` | `TypeOK`, `ConnBound`, `NoListenerStarves`, `KillStops` | 3 connections, 2 listeners, limit 1: full, over-full and nested rounds |
| `server_limit` | `MaxConns`: **violated** | the same |
| `torrents` | `TypeOK`, `ListsOwnFiles`, `ArchivesFiles`, `ImplementsCatalog`, `ParsesCatchUp` | 2 files and another name, 2 torrents, up to two files there from the start, 2 changes (uploads, deletions, copies, edits, restarts, failed `opendir`s), one failed write, 3 configurations (archive, delete invalid, keep dead and parse on upload on and off; parsing off, as by default): two files of one torrent, a file replaced by another torrent while the list still has it, a cut upload that is another torrent, a deletion between `readdir` and the reading. More of each is left to the proofs of the invariants and of the refinement |
| `tags_blank` | `BlankMeansNoChange`: **violated** | the same with one tag |
| `members` | `TypeOK`, `FilesFollow`, `NoneBecomesAdmin`, `PasswordsKept`, `ChosenCommentGoes` | 2 connections whose requests wait, 2 users, 2 passwords, 2 comments, one failed save, restarts: every pair of requests in both orders, a cut in the first and in the second user, a deletion by a page whose comment is gone, which takes one the page never showed. The proofs are for any number |
| `pages` | `EveryEntryOnce`, `MissedBounded`, `SelectionKept`, `TextsReadBack`, `FilesReadBack`, `CutFilesReadBack`, `PeersListed` | 5 torrents, two per page, and 3 users, one per page; all 26 sort numbers, searches and filters that need escapes, pages -1, 1, 7 and 512, whose first row wraps; two changes (the second under one order); texts of up to 2 bytes of every kind and 3 of some; dictionaries in dictionaries and lists, cut at every byte, with strings of up to 9 bytes, three digits in a `Radix` of 3, of which a cut takes two; lists of 3 peers |

The clock, completions, addresses, requests sent, files read and changes people make are bounded by constants named in the modules (`MaxTime`, `MaxDone`, `MaxCount`, `MaxSend`, `MaxIn`, `MaxFiles`, `MaxChanges`, `MaxComments`, `ListsTime`, `MaxPeers`).

Symmetry is used in runs without temporal properties of the liveness kind, over sets no definition tells apart. Deadlock is
not checked where the system really stops: at the bound of the clock, when a connection is closed, when the process ends, when the changes of the tables are used up and the reader has no link to follow (`pages`).
In the runs of `PeerCache` and `FastCache` the save interval is longer than the clock runs, so that the dfile stays empty and a restart
starts from nothing; saves and what they leave on disk are the subject of `swarm_crash`.

### What the violated runs show
- `cache_oneself`: the "check for oneself" looks at the peers appended now, not at entries an earlier
  announce appended.
- `connection_scrapes`: `Reset` keeps `multiParams` and `hasQuery`, and nothing sets `hasQuery` first; a scrape without torrents may be answered for
  none, and on a kept-alive connection scrapes accumulate torrents.
- `server_limit`: the limit is compared once per round, after which every listener may accept one connection; with n listeners up to n - 1 more than
  `bnbt_max_conns` are open. `ConnBound` is what the code does keep to.
- `tags_blank`: the stats page says that "blank values mean no change"; `addTag` keeps blank names, uploaders and links, and sets a blank tag.

### Behaviour met on the way
No run shows these, most of them because nothing in the repository says otherwise; a reader of the code may want to know them.
- A peer that shows another key replaces its record: the new address is counted and the old one not discounted until the next recount, so
  that too many unique peers are shown (`NeverUnderCounted` says never too few).
- A scrape that names torrents never refreshes the fast cache, so that its numbers have any age, while `doc/config.html:58` and `changelog.txt:9` speak of scrapes without
  exception. `FullyFresh` is about full scrapes and the index.
- A request that arrives after the last look at its connection is dropped unread when the next `Update` finds the connection too old, because the age is tested
  first (client.cpp:64). `OnlyWaitingTimeOut` says no more than that whatever had arrived by the last look was read.
- With `parse_allowed_interval` at its default of 0 the allowed directory is read at the start only: what a list then gets wrong stays wrong until a restart.
- An upload handled while a parse is past its file is lost from the list when the parse ends, and a torrent deleted then is listed again, with no file, until
  the next parse, if there is one (`ParsesCatchUp`); `ListsOwnFiles` is therefore stated for lists during whose making no file went (`stale`).
- A torrent nobody tagged can be deleted from the login page by any user.
- `index.html` obeys `search` even when `bnbt_allow_search` is 0. On the index, the links of the tag images and those that sort by tag or by
  ascending name escape `&` twice, so that search and filter (or sort) are lost: they are not among those `Pages` follows.
- `EscapedToString` reads behind the end of texts shorter than two bytes; a stray `%` there may take digits that are not the text's.
- A file cut in a long string or in a key may be read with items in it that nobody wrote, or with an entry overwritten by one (`CutFilesReadBack` bounds them).
- A comment that went shifts those behind it: a moderator's next deletion from an old page takes a newer comment than he chose (`ChosenCommentGoes`).
- A dictionary with a key twice is decoded by the length of the one that was kept, so that what follows is misread; the tracker writes none.
- The age of a peer read from the dfile wraps until it announces again (tracker_stats.cpp:436).

### Fairness
Only liveness needs it. `Connection`: weak fairness of `Update` and of `Tick`, because the main loop calls `Update` on every client in
every round for as long as it runs, and time passes; nothing is assumed of the peer. `Server`: weak fairness of the program's own
next step; nothing is assumed of clients, connections or signals. `NoListenerStarves` assumes that there is room again and
again, which depends on the clients.
`Torrents`: weak fairness of `parseTorrents`, which is enabled only where `parse_allowed_interval` is greater than 0: there `CTracker::Update` calls it whenever the interval has passed and the main
loop comes round again and again. Without it `ParsesCatchUp` says nothing. And weak fairness of the steps of a parse, because `readdir` ends and nested requests each end. Nothing is assumed of people, failures or restarts, which are
bounded in number. Where there are parses, `ParsesCatchUp` says that a torrent whose file stays is listed again and again and one without a file for ever gone from the list.

## 4. Proofs

| Theorem | Says | Argument |
|---|---|---|
| `SwarmProofs!TypeCorrect` | `[]TypeOK` | inductive; lemmas about dictionaries carry the tables |
| `PeersTimed`, `SilentPeersExpire`, `LivePeersStay` | `[]EveryPeerTimed`, `[]SilenceBounded`, `OnlySilentExpire` | `TimeInv` |
| `CountsCover` | `[]NeverUnderCounted` | `CountInv` |
| `DiskBehind` | `[]DiskNeverAhead` | `DiskInv` |
| `PromisesKept` | `KeepsPromises` | `TimeInv`, and per action the step of `Roster` it is |
| `RosterImplemented` | `ImplementsRoster`: `Swarm` implements `Roster` | the steps of `PromisesKept` |
| `AnswersProofs!ListsBounded`, `NoPeerStarves` | `[]CacheBounded`, `[]NeverStarved` | `CacheInv` |
| `AnswersProofs!EntriesOnly`, `AnswersBounded` | `[]CacheTypeOK`, `[]GiveBounded` | entries stay entries, `Given` counts them |
| `AnswersProofs!FullScrapesFresh`, `FastTypeCorrect` | `[]FullyFresh`, `[]FastTypeOK` | `FreshInv`; `FastTypeInv` |
| `ConnectionProofs!TimeoutIsForTheIdle` | `OnlyWaitingTimeOut` | `IdleInv` |
| `ConnectionProofs!TypeCorrect`, `ParametersAreOwn` | `[]TypeOK`, `[]OwnParameters` | `TypeInv`; `ParamsInv` |
| `ServerProofs!ServerTyped`, `ConnectionsBounded` | `[]TypeOK`, `[]ConnBound` | `ConnInv` |
| `TorrentsProofs!TypeCorrect`, `ListsOwnFilesAlways`, `ArchivesFilesAlways` | `[]TypeOK`, `[]ListsOwnFiles`, `[]ArchivesFiles` | `Inv` |
| `TorrentsProofs!CatalogImplemented` | `ImplementsCatalog`: `Torrents` implements `Catalog` | `Inv`, and per action the step of `Catalog` it is |
| `MembersProofs!TypeCorrect`, `FilesFollowAlways` | `[]TypeOK`, `[]FilesFollow` | their conjunction is inductive |
| `MembersProofs!NobodyBecomesAdmin`, `PasswordsKeptAlways` | `NoneBecomesAdmin`, `PasswordsKept` | the same, and what each action does to accounts |
| `MembersProofs!ChosenGoesAlways` | `ChosenCommentGoes` | `CommentsInv` |
| `PagesProofs!EscapesUndone` | `EscapedToString` undoes both escapes, for every text there is memory for | induction over the text |
| `PagesProofs!TextsAlwaysReadBack` | `[]TextsReadBack` | `EscapesUndone`, `HashesReadBack`, `NamesReadBack` |
| `PagesProofs!SelectionAlwaysKept` | `[]SelectionKept` | `SelInv`, `EscapesUndone` |
| `PagesProofs!PeersAlwaysListed` | `[]PeersListed` | what `qsort` and the loop over its rows compute |
| `PagesProofs!EveryEntryAlwaysOnce` | `[]EveryEntryOnce` | `TablesOK`, `WalkOK`, `OnceInv` |
| `PagesProofs!MissedAlwaysBounded` | `[]MissedBounded` | `TablesOK`, `WalkOK`, `MissInv` |

- `TimeInv` adds to the types that the clock is at most the lateness past each timer, that the next expiry is one interval after
  `m_iPrevTime`, and that every tracked peer is timed no earlier than the expiry before the last (that is what `expireDownloaders`
  keeps). Neither `EveryPeerTimed` nor the two bounds is inductive alone: each needs the others.
- `CountInv`: the set of (torrent, peer) pairs at an address gains or loses at most one pair per announce, and the count follows; deletion
  only removes pairs; expiry, recount and load count afresh.
- `CacheInv`: a peer was passed over at most as often as the list has copies of it, since a refill adds a copy and only a taken copy leaves; and a list is refilled
  only when it has fewer than `max_give` entries, so fewer copies. An answer takes what it wants, which is more than was in the list before the refill, or all: what is left is less
  than was appended. A shuffle enters as a bijection from places to entries.
- `FastTypeInv` adds the types of the peer database, which the numbers are counted from.
- `TypeInv` adds that the buffers hold pieces of requests; `ParamsInv` that there are no parameters between requests, and those of the request while it is worked on.
- `IdleInv` bounds `idle` state by state: 0, 1, 2 and 3 rounds after the peer was last active unless the last round found it not ready, and says that a
  state is left as soon as what it waits for is there. The time-out, being at least four rounds, cannot fire in between.
- `ConnInv`: while the listener l is looked at, there are fewer than `giMaxConns + l - 1` clients. The limit alone is not inductive, since it is not
  looked at again. `bnbt_max_conns` itself is no bound (`server_limit`).
- `Inv` of `TorrentsProofs` adds two parts. `StreamOK`: while the directory is read, its files have been seen, what the new list says was seen, and every file
  that stayed and was dealt with is listed; `ListsOwnFiles` after the end of a parse, and the step `End` of the catalogue, follow from it and from nothing the old list
  says. `NamesKnown`: with an archive, a name the tracker remembers (in a list, in the stream, or read and not yet opened) is one of the directory or of the archive, until a write
  fails; without it a deletion by a stale list could archive what is not there. Uploads, deletions and copies, nested or not, only add names or move them, which is the lemma `NamesStep`.
  In the refinement, an upload and a copy are `Add`, an invalid file deleted is `Discard`, every other request and `Readdir` a stutter.
- `MembersProofs` needs `FilesFollow` for its action properties: what a restart brings back is known only through the files.

- `PromisesKept` and `RosterImplemented`: `TimeInv` gives what the mapping needs of the tables (each member has a time, no member's is too old or in the
  future); each handler is then shown to be its step of `Roster` by what it does to the pairs of `m_pDFile`. For a cut save, what the decoder finds in the file is a part of the roster, with
  one address lost at most.
- `CommentsInv`: until a save fails, the list and every page are in the order the comments were posted in, and at no place has a page a newer comment than the list has there now: the list
  only loses comments and gets newer ones at its end, and a restart changes nothing (`FilesFollow`). So the comment at the place a page names is the chosen one or a newer one. When those of the page up to
  it are all still there, none can have moved up, because they do not fit into fewer places (`AllThere`, by the pigeonhole principle), and it is the chosen one.
- `SelInv`: the page the reader has is, but for its number, what he opened. It goes from page to page because the links are escaped texts, which `EscapesUndone` says are
  read as what they were made of.
- Texts. `FlattenSeq`, `EscapedToString`, `RemoveHTML` and `asRead` are recursive functions: a `CHOOSE`, of which nothing is known before such a function is shown to exist. That,
  and what it computes, is proved over the length of the text by `Induction`, from the least number of a set that is not empty. `FlattenPlaces` says where
  each piece comes to lie in the whole. An escape is then undone by going back from the end, piece by piece (`Undone`); the remainder in the test for a whole escape is none as long as the escaped text
  has a size. `ShownInTurn` gets rid of the look back in `RemoveHTML`: what it has made of the first bytes is the pieces so far and, before a line feed, the carriage return that waits for it.
  `NamesReadBack` reads the pieces in turn.
- Loops and sorting. `LoopFcn` gives the recursive functions that stand for loops. `SortArranges` goes through the turns of `qsort` with a permutation that says where each row came from: the
  result has every row once and, when the comparison is an order of the rows, is in order with equal rows as they were. The comparisons are orders only of some rows, which is what
  `UnsignedOrder` (differences that do not wrap) and `RatioOrder` (ratios that can be told apart) are for; texts are ordered by `CompareOrder`.
- `PeersAlwaysListed`: the loop that makes a table keeps, of the sorted rows, those of its kind until the table is full (`ListTurn`), so that what is left out comes
  later in the order; a table that is not full has them all, by an injection of its rows into the peers.
- `Listing` says what a listing is, apart from pages: the row of each key that matches, once, in the order `precedes` (by the column, then by key). `PutRows` says that the
  three counters of the loop show the piece of it from `iStart` on and count all of it, and `PageNumbers` when that piece is a page.
- `OnceInv`: until the first change each page the reader has seen is a page of one and the same listing, and the links under the last one are the others. `WalkOK` adds what a
  request is made of and that no page that is linked begins where an `int` ends. When all links were followed, the pages one after the other are the listing (`PagesFlattened`).
- `MissInv` is about the entries that were there all the time: of those with a place before the end of the page the reader has, no more were on no page than changes were made. It
  is inductive because the place of an entry is its rank among the keys that match (`PlaceIsRank`), and a change alters the row of one key
  only (`ChangeAlters`), so that one more entry at most gets a rank below any number (`OneMoves`); and because a page shows all entries with the ranks it is for (`OnPage`), or has none behind it
  (`LastPage`). The bound on all entries, which the property needs, holds only at the last page.

Assumptions are those on the constants, named in the modules that declare them: intervals are natural numbers, the sentinels are outside the
sets they complete, torrents and peers are finite and there is a peer, `response_size` and `max_give` are natural numbers, there is a listener, the limit is positive (`config.cpp` clamps it), contents of files differ from the sentinels, accesses are sets of rights, an escaped search or name, up to three times as long as it was, still has a size (`AskAssumption`, `SampleAssumption`), there is no memory for more entries than an `int` counts (`MemoryAssumption`), a page has no negative number of rows (`SettingsAssumption`; `config.cpp` sees to it), what tables and peers hold are texts and numbers of any size and sign (`TorrentAssumption`, `UserAssumption`, `PeersAssumption`), and a round of the loop takes at
most a quarter of `socket_timeout`.

Only model-checked:
- liveness under fairness, which the prover cannot do: `NeverStuck`, `NoListenerStarves`, `KillStops`, `ParsesCatchUp`;
- `FilesReadBack` and `CutFilesReadBack`: the decoder is a recursion over the bytes that calls itself for what it finds, which is written with `RECURSIVE` operators, and the prover knows
  none; what they say is by induction over nested atoms.

## 5. Not modelled, and plan

Left out of the parts modelled, with what they would add: the cells of the pages, wordings of times and sizes, the lists of the files in a torrent and the info
page (they read what other modules keep and change nothing); the comparisons by address, age and client name, which no page uses; names and info links of tags (they follow the rule
of the uploader); e-mail addresses and the rules for names, which only refuse; `UTIL_StripPath`, cookies and gzip.

`CutFilesReadBack` is checked for strings of sizes of up to three digits, of which a cut takes two. Sizes of more, as the `pieces` of a large torrent have, are in no instance.

Plan, most important first:

1. The encoder and the decoder as recursive functions over the depth of an atom and the bytes of a file, and `FilesReadBack` for atoms of any depth.
2. The clamps and defaults of `config.cpp`, and the intervals they leave.
3. `Torrents` with an upload directory of its own, from which an admin moves files to the allowed one.
