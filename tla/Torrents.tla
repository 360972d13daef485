------------------------------ MODULE Torrents ------------------------------
(***************************************************************************)
(* The torrents the tracker allows: the directory they are files of, the   *)
(* list read from it (m_pAllowed) and what else goes by info hash, the     *)
(* tracked torrents (the keys of m_pDFile) and their tags (m_pTags).       *)
(*                                                                         *)
(* parseTorrents reads the directory into a new list, lets the server      *)
(* answer requests before it looks at each name, and replaces the old list *)
(* at the end: uploads and deletions handled meanwhile change the old list *)
(* only.                                                                   *)
(***************************************************************************)
EXTENDS Dicti, Naturals, FiniteSets

CONSTANTS
  File,            \* names ending in .torrent
  Other,           \* other names in the directory: ".", ".." and what else is there
  Hash,            \* info hashes of files that have an info dictionary
  Named,           \* those whose info has a name and a length or files
  Junk,            \* content that does not decode, or has no info
  Empty,           \* the content of a file that could not be read
  NoName,          \* no directory entry
  Tag, NoTag,      \* tags; the blank one
  User, NoUser,    \* logins; the blank one, of guests
  m_vecTags,       \* the tags uploads may have; any, when there are none
  m_iMaxTorrents,  \* 0: no limit
  Settings,        \* the configurations the tracker may run with
  InitialDirs,     \* what an admin may have put in the directory beforehand
  MaxChanges       \* bound on changes made by people, restarts and failures

ASSUME NamedAssumption ==
  Named \subseteq Hash /\ Junk \notin Hash /\ Empty \notin Hash \cup {Junk}

ASSUME NamesAssumption == Other \cap File = {} /\ NoName \notin File \cup Other

Content == Hash \cup {Junk}

\* What fwrite may leave behind; nobody looks at its result.  A torrent cut short
\* decodes to less of it, to one with another info hash too, or does not.
Write == [left : {"whole", "none"}] \cup [left : {"cut"}, content : Content]

Whole == [left |-> "whole"]

Setting == [keepDead: BOOLEAN, deleteInvalid: BOOLEAN, archive: BOOLEAN,
            parseOnUpload: BOOLEAN, parses: BOOLEAN]

ASSUME ConfigurationAssumption ==
  Settings \subseteq Setting /\ \A d \in InitialDirs : IsDicti(d, File, Content)

VARIABLES
  settings,     \* m_bKeepDead, m_bDeleteInvalid, m_strArchiveDir, m_bParseOnUpload,
                \* and whether m_iParseAllowedInterval > 0
  dir,          \* the files of m_strAllowedDir, which is m_strUploadDir too
  archive,      \* the files of m_strArchiveDir
  m_pAllowed,   \* the file of each torrent listed
  tracked,      \* the keys of m_pDFile
  saved,        \* the keys of m_pDFile in the dfile
  m_pTags,
  pc,           \* "main"; in parseTorrents, at "readdir", or "nested" in Update
  pAllowed,     \* the list being made
  dp,           \* the name readdir returned, until it is dealt with
  done,         \* the names it has returned in this parse
  kept,         \* the names in the directory ever since it was opened
  seen,         \* the files there have been in it since
  stale,        \* a file went while the parse m_pAllowed comes from was running
  failed,       \* history: a write failed
  changes

directory == <<dir, archive, failed>>
reading == <<pc, pAllowed, dp, done>>
tables == <<m_pAllowed, tracked, m_pTags>>
vars == <<settings, dir, archive, m_pAllowed, tracked, saved, m_pTags, pc,
          pAllowed, dp, done, kept, seen, stale, failed, changes>>

----------------------------------------------------------------------------
\* Files

\* Mutant: whatever info has in it.
ValidAny(d, f) == f \in DOMAIN d

\* f decodes to a dictionary whose info has what is listed.
Valid(d, f) == f \in DOMAIN d /\ d[f] \in Named

PairsIn(d) == {<<f, d[f]>> : f \in DOMAIN d}

\* UTIL_MakeFile on a name that is not there yet.
UTIL_MakeFile(d, f, content, w) ==
  CASE w.left = "whole" -> setItem(d, f, content)
    [] w.left = "cut"   -> setItem(d, f, IF content = Empty THEN Empty ELSE w.content)
    [] w.left = "none"  -> d

\* Mutant: the destination is not looked at.
UTIL_MoveFileOver(a, d, f, w) == UTIL_MakeFile(a, f, getItem(d, f, Empty), w)

\* What UTIL_MoveFile puts in the archive: nothing where a file of that name is,
\* and an empty file when there was none to read.
UTIL_MoveFile(a, d, f, w) ==
  IF f \in DOMAIN a THEN a ELSE UTIL_MakeFile(a, f, getItem(d, f, Empty), w)

\* The archive after f was taken out of the directory d, which ends in
\* UTIL_DeleteFile either way.
Archived(d, f, w) ==
  IF settings.archive THEN UTIL_MoveFile(archive, d, f, w) ELSE archive

\* A write fails at most once.
Wrote(w) == w # Whole => ~failed
Failed(w) == failed' = (failed \/ w # Whole)

\* What the open directory stream may and must return from here on.
StreamFollows ==
  /\ kept' = kept \cap {f \in DOMAIN dir' : f \in DOMAIN dir}
  /\ seen' = IF pc = "main" THEN {} ELSE seen \cup PairsIn(dir')

Serving == pc \in {"main", "nested"}

Change == changes < MaxChanges /\ changes' = changes + 1

----------------------------------------------------------------------------
\* Tags

checkTag(tag) == m_vecTags = {} \/ tag \in m_vecTags

\* The tag is set even when it is blank, the uploader is not.
addTag(h, tag, uploader) ==
  LET old == getItem(m_pTags, h, [tag |-> NoTag, uploader |-> NoUser])
  IN  setItem(m_pTags, h,
        [tag |-> tag,
         uploader |-> IF uploader = NoUser THEN old.uploader ELSE uploader])

deleteTag(h) == delItem(m_pTags, h)

----------------------------------------------------------------------------
\* Requests.  They are answered in the main loop and inside parses.

\* Mutant: a file of that name may exist.
UploadAcceptedOver(f, h, tag) ==
  /\ m_iMaxTorrents > 0 => Cardinality(DOMAIN m_pAllowed) < m_iMaxTorrents
  /\ checkTag(tag)
  /\ h \notin tracked

\* The checks before the file is written; a request refused changes nothing.
UploadAccepted(f, h, tag) == UploadAcceptedOver(f, h, tag) /\ f \notin DOMAIN dir

\* Mutant: whatever was read is listed.
ParsedUnchecked(d, f) == settings.parseOnUpload

\* Whether parseTorrent lists the file just written, having read it back.
Parsed(d, f) == settings.parseOnUpload /\ Valid(d, f)

\* POST /upload.html by a user who may upload torrent h.  The tag is h's; what is
\* listed is the torrent that can be read from the file.
serverResponseUploadPOST(u, f, h, tag, w) ==
  LET made == UTIL_MakeFile(dir, f, h, w)
      read == getItem(made, f, Empty)
      parsed == Parsed(made, f)
      invalid == settings.parseOnUpload /\ ~Valid(made, f) /\ settings.deleteInvalid
  IN  /\ Serving
      /\ Change
      /\ UploadAccepted(f, h, tag)
      /\ Wrote(w) /\ Failed(w)
      /\ m_pTags' = addTag(h, tag, u)
      /\ dir' = IF invalid THEN delItem(made, f) ELSE made
      /\ archive' = IF invalid THEN Archived(made, f, Whole) ELSE archive
      /\ m_pAllowed' = IF parsed THEN setItem(m_pAllowed, read, f) ELSE m_pAllowed
      /\ tracked' = IF parsed /\ settings.keepDead THEN tracked \cup {read} ELSE tracked
      /\ StreamFollows
      /\ UNCHANGED <<settings, saved, reading, stale>>

\* Deletes torrent h, file and all.
DeleteTorrent(h, w) ==
  /\ Serving
  /\ Change
  /\ Wrote(w) /\ Failed(w)
  /\ IF h \in DOMAIN m_pAllowed
     THEN /\ dir' = delItem(dir, m_pAllowed[h])
          /\ archive' = Archived(dir, m_pAllowed[h], w)
     ELSE UNCHANGED <<dir, archive>>
  /\ m_pAllowed' = delItem(m_pAllowed, h)
  /\ tracked' = tracked \ {h}
  /\ m_pTags' = deleteTag(h)
  /\ StreamFollows
  /\ UNCHANGED <<settings, saved, reading, stale>>

\* index.html?del=h&ok=1 by an admin.
serverResponseIndex(h, w) == DeleteTorrent(h, w)

\* login.html?del=h&ok=1 by user u: a torrent nobody tagged is anybody's.
serverResponseLogin(u, h, w) ==
  /\ h \in DOMAIN m_pTags => m_pTags[h].uploader = u
  /\ DeleteTorrent(h, w)

\* stats.html?info_hash=h&tag=..&uploader=..&name=..&ok=1 by an admin: one of
\* the fields is not blank (the name, when tag and uploader are).
serverResponseStats(h, tag, uploader) ==
  /\ Serving
  /\ Change
  /\ m_pTags' = addTag(h, tag, uploader)
  /\ UNCHANGED <<settings, directory, m_pAllowed, tracked, saved, reading, kept,
                 seen, stale>>

\* Torrents that are not listed are refused; others are tracked from then on.
serverResponseAnnounce(h) ==
  /\ Serving
  /\ h \in DOMAIN m_pAllowed
  /\ tracked' = tracked \cup {h}
  /\ UNCHANGED <<settings, directory, m_pAllowed, m_pTags, saved, reading, kept,
                 seen, stale, changes>>

----------------------------------------------------------------------------
\* Timers of CTracker::Update, which only the main loop calls

expireDownloaders(h) ==
  /\ pc = "main"
  /\ ~settings.keepDead
  /\ tracked' = tracked \ {h}
  /\ UNCHANGED <<settings, directory, m_pAllowed, m_pTags, saved, reading, kept,
                 seen, stale, changes>>

saveDFile ==
  /\ pc = "main"
  /\ saved' = tracked
  /\ UNCHANGED <<settings, directory, tables, reading, kept, seen, stale, changes>>

\* Mutant: it starts from the list in use.
NewListCopied == m_pAllowed

\* new CAtomDicti( ): the list is made afresh.
NewList == EmptyDicti

\* parseTorrents from its opendir.  Update calls it where an interval is set; with
\* the default of 0 the list of the start is changed by requests only.
parseTorrents ==
  /\ pc = "main"
  /\ settings.parses
  /\ pc' = "readdir"
  /\ pAllowed' = NewList
  /\ done' = {}
  /\ kept' = DOMAIN dir
  /\ seen' = PairsIn(dir)
  /\ UNCHANGED <<settings, directory, tables, saved, dp, stale, changes>>

\* opendir fails: the new list is empty.
OpendirFails ==
  /\ pc = "main"
  /\ settings.parses
  /\ Change
  /\ m_pAllowed' = EmptyDicti
  /\ stale' = FALSE
  /\ UNCHANGED <<settings, directory, tracked, m_pTags, saved, reading, kept,
                 seen>>

\* readdir returns every name that stays, may return one that came or went
\* meanwhile, and returns none twice.  The server is updated before any is looked
\* at, those that are no torrent's included.
Readdir ==
  /\ pc = "readdir"
  /\ \E name \in {p[1] : p \in seen} \cup Other :
       /\ name \notin done
       /\ dp' = name
       /\ done' = done \cup {name}
  /\ pc' = "nested"
  /\ UNCHANGED <<settings, directory, tables, saved, pAllowed, kept, seen, stale, changes>>

\* The name does not end in .torrent: continue.
PassOver ==
  /\ pc = "nested"
  /\ dp \in Other
  /\ pc' = "readdir"
  /\ dp' = NoName
  /\ UNCHANGED <<settings, directory, tables, saved, pAllowed, done, kept, seen, stale, changes>>

\* The file is decoded and listed, or it is invalid (or gone).
ParseFile(w) ==
  /\ pc = "nested"
  /\ dp \in File
  /\ pc' = "readdir"
  /\ dp' = NoName
  /\ IF Valid(dir, dp)
     THEN /\ w = Whole
          /\ pAllowed' = setItem(pAllowed, dir[dp], dp)
          /\ tracked' = IF settings.keepDead THEN tracked \cup {dir[dp]} ELSE tracked
          /\ UNCHANGED <<dir, archive, failed>>
     ELSE /\ settings.deleteInvalid \/ w = Whole
          /\ Wrote(w) /\ Failed(w)
          /\ dir' = IF settings.deleteInvalid THEN delItem(dir, dp) ELSE dir
          /\ archive' = IF settings.deleteInvalid THEN Archived(dir, dp, w) ELSE archive
          /\ UNCHANGED <<pAllowed, tracked>>
  /\ StreamFollows
  /\ UNCHANGED <<settings, m_pAllowed, m_pTags, saved, done, stale, changes>>

\* readdir returns NULL: m_pAllowed = pAllowed.
EndParse ==
  /\ pc = "readdir"
  /\ kept \cup Other \subseteq done
  /\ pc' = "main"
  /\ m_pAllowed' = pAllowed
  /\ pAllowed' = EmptyDicti
  /\ done' = {}
  /\ kept' = {}
  /\ seen' = {}
  /\ stale' = (seen # PairsIn(dir))
  /\ UNCHANGED <<settings, directory, tracked, m_pTags, saved, dp, changes>>

----------------------------------------------------------------------------
\* Outside the loop

\* An admin copies a file into the directory.
PutFile(f, content) ==
  /\ Serving
  /\ Change
  /\ f \notin DOMAIN dir
  /\ dir' = setItem(dir, f, content)
  /\ StreamFollows
  /\ UNCHANGED <<settings, archive, failed, tables, saved, reading, stale>>

\* The constructor parses the directory before there is a server: each torrent
\* is listed with one of its files.
Lists(d) ==
  LET hashes == {d[f] : f \in {f \in DOMAIN d : Valid(d, f)}}
  IN  {l \in [hashes -> DOMAIN d] : \A h \in hashes : d[l[h]] = h}

Discarded(d) ==
  IF settings.deleteInvalid THEN {f \in DOMAIN d : ~Valid(d, f)} ELSE {}

Kept(d) == keepItems(d, DOMAIN d \ Discarded(d))

ArchivedAll(a, d) ==
  IF settings.archive
  THEN [f \in DOMAIN a \cup Discarded(d) |-> getItem(a, f, getItem(d, f, Empty))]
  ELSE a

Start(d, a, t) ==
  /\ m_pAllowed \in Lists(d)
  /\ dir = Kept(d)
  /\ archive = ArchivedAll(a, d)
  /\ tracked = IF settings.keepDead THEN t \cup DOMAIN m_pAllowed ELSE t
  /\ pc = "main"
  /\ pAllowed = EmptyDicti
  /\ dp = NoName
  /\ done = {}
  /\ kept = {}
  /\ seen = {}
  /\ stale = FALSE

Init ==
  /\ settings \in Settings
  /\ \E d \in InitialDirs : Start(d, EmptyDicti, {})
  /\ saved = {}
  /\ m_pTags = EmptyDicti
  /\ failed = FALSE
  /\ changes = 0

\* The process ends, at any moment, and is started again; tags were saved when
\* they changed, tracked torrents when a timer said so.
Restart ==
  /\ Change
  /\ m_pAllowed' \in Lists(dir)
  /\ dir' = Kept(dir)
  /\ archive' = ArchivedAll(archive, dir)
  /\ tracked' = IF settings.keepDead THEN saved \cup DOMAIN m_pAllowed' ELSE saved
  /\ pc' = "main"
  /\ pAllowed' = EmptyDicti
  /\ dp' = NoName
  /\ done' = {}
  /\ kept' = {}
  /\ seen' = {}
  /\ stale' = FALSE
  /\ UNCHANGED <<settings, saved, m_pTags, failed>>

----------------------------------------------------------------------------
Requests ==
  \/ \E u \in User \cup {NoUser}, f \in File, h \in Hash, tag \in Tag \cup {NoTag},
        w \in Write : serverResponseUploadPOST(u, f, h, tag, w)
  \/ \E h \in Hash, w \in Write : serverResponseIndex(h, w)
  \/ \E u \in User, h \in Hash, w \in Write : serverResponseLogin(u, h, w)
  \/ \E h \in Hash, tag \in Tag \cup {NoTag}, u \in User \cup {NoUser} :
        serverResponseStats(h, tag, u)
  \/ \E h \in Hash : serverResponseAnnounce(h)

Timers ==
  \/ \E h \in Hash : expireDownloaders(h)
  \/ saveDFile
  \/ parseTorrents
  \/ OpendirFails

Parse ==
  \/ Readdir
  \/ PassOver
  \/ \E w \in Write : ParseFile(w)
  \/ EndParse

Next ==
  \/ Requests
  \/ Timers
  \/ Parse
  \/ \E f \in File, content \in Content : PutFile(f, content)
  \/ Restart

\* Where an interval is set, the timer of the parse comes round again and again,
\* and a parse that has begun goes on whatever requests are served in it.
Fairness == WF_vars(parseTorrents) /\ WF_vars(Parse)

Spec == Init /\ [][Next]_vars /\ Fairness

----------------------------------------------------------------------------
\* Properties

\* Every table, the directories and the parse keep their types.
TypeOK ==
  /\ settings \in Setting
  /\ IsDicti(dir, File, Content)
  /\ IsDicti(archive, File, Content \cup {Empty})
  /\ IsDicti(m_pAllowed, Named, File)
  /\ IsDicti(pAllowed, Named, File)
  /\ tracked \subseteq Hash /\ saved \subseteq Hash
  /\ IsDicti(m_pTags, Hash, [tag : Tag \cup {NoTag}, uploader : User \cup {NoUser}])
  /\ pc \in {"main", "readdir", "nested"}
  /\ dp \in File \cup Other \cup {NoName} /\ (pc = "nested" => dp # NoName)
  /\ done \subseteq File \cup Other /\ kept \subseteq File
  /\ seen \subseteq File \X Content
  /\ stale \in BOOLEAN /\ failed \in BOOLEAN

\* The file a torrent is listed with is there and holds that torrent, so that
\* deleting the torrent deletes no other; through uploads and deletions in the
\* middle of a parse, unless a file went while the list was being made.
ListsOwnFiles ==
  ~stale => \A h \in DOMAIN m_pAllowed :
              m_pAllowed[h] \in DOMAIN dir /\ dir[m_pAllowed[h]] = h

\* UTIL_MoveFile never archives a file that is not there, which would keep that
\* name from being archived ever after, not even for a torrent deleted by a stale
\* list or deleted between readdir and its reading; unless a write failed.
ArchivesFiles ==
  (\E f \in DOMAIN archive : archive[f] = Empty) => failed

\* Where parse_allowed_interval is set (0, the default, is "to disable
\* parsing"), a torrent whose file stays is listed again and again, and one with no
\* file is not for ever: what a parse gets wrong the next ones put right.
ParsesCatchUp ==
  settings.parses =>
    /\ \A f \in File, h \in Named :
         <>[](f \in DOMAIN dir /\ dir[f] = h) => []<>(h \in DOMAIN m_pAllowed)
    /\ \A h \in Named :
         <>[](\A f \in DOMAIN dir : dir[f] # h) => <>[](h \notin DOMAIN m_pAllowed)

\* The page of the stats says of every field that "blank values mean no change".
BlankMeansNoChange ==
  [][\A h \in DOMAIN m_pTags, u \in User \cup {NoUser} :
        serverResponseStats(h, NoTag, u) => m_pTags'[h].tag = m_pTags[h].tag]_vars

\* The list implements the catalogue, whose reader may take any time.
C == INSTANCE Catalog WITH list <- m_pAllowed, reading <- (pc # "main")
ImplementsCatalog == C!Spec
=============================================================================
