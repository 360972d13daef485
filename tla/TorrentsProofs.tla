--------------------------- MODULE TorrentsProofs ---------------------------
(***************************************************************************)
(* The list of torrents for any number of files, torrents and changes:     *)
(* types, that it names the files it was made from, that only files that   *)
(* exist are archived, and that it implements the catalogue.               *)
(*                                                                         *)
(* The inductive invariant adds what a parse knows of the directory        *)
(* (StreamOK) and what the names the tracker remembers refer to            *)
(* (NamesKnown).                                                           *)
(***************************************************************************)
EXTENDS Torrents, DataTheorems

\* While the directory is read, its files have been seen, what is in the new list
\* was there, and of the files that stayed those dealt with are listed.
StreamOK ==
  /\ pc = "main" => kept = {} /\ seen = {}
  /\ pc # "main" =>
       /\ kept \subseteq DOMAIN dir
       /\ PairsIn(dir) \subseteq seen
       /\ \A h \in DOMAIN pAllowed : <<pAllowed[h], h>> \in seen
       /\ \A f \in kept : /\ f \in done
                          /\ ~(pc = "nested" /\ dp = f)
                          /\ dir[f] \in Named
                          => dir[f] \in DOMAIN pAllowed

\* A name the tracker remembers is one of the directory or of the archive.
NamesKnown ==
  settings.archive /\ ~failed =>
    /\ \A h \in DOMAIN m_pAllowed : m_pAllowed[h] \in DOMAIN dir \cup DOMAIN archive
    /\ \A p \in seen : p[1] \in DOMAIN dir \cup DOMAIN archive
    /\ pc = "nested" /\ dp \in File => dp \in DOMAIN dir \cup DOMAIN archive

NoneEmpty == \A f \in DOMAIN archive : archive[f] # Empty

Inv ==
  /\ TypeOK
  /\ ListsOwnFiles
  /\ StreamOK
  /\ NamesKnown
  /\ ~failed => NoneEmpty

----------------------------------------------------------------------------
\* Files

LEMMA ContentFacts ==
  /\ Named \subseteq Hash
  /\ Junk \notin Named /\ Junk \in Content /\ Hash \subseteq Content
  /\ Empty \notin Content
BY NamedAssumption DEF Content

LEMMA WriteFacts ==
  /\ Whole \in Write /\ Whole.left = "whole"
  /\ \A w \in Write : /\ w.left \in {"whole", "cut", "none"}
                      /\ w.left = "cut" => w.content \in Content
                      /\ w.left = "whole" <=> w = Whole
BY DEF Write, Whole

LEMMA MakeFileType ==
  ASSUME NEW V, Content \subseteq V, NEW d, IsDicti(d, File, V), NEW f \in File, NEW c \in V,
         NEW w \in Write
  PROVE  IsDicti(UTIL_MakeFile(d, f, c, w), File, V)
<1>1. CASE w.left = "whole"
  BY <1>1, SetItemType DEF UTIL_MakeFile
<1>2. CASE w.left = "cut"
  <2>1. (IF c = Empty THEN Empty ELSE w.content) \in V
    BY <1>2, WriteFacts
  <2> QED
    BY <1>2, <2>1, SetItemType DEF UTIL_MakeFile
<1>3. CASE w.left = "none"
  BY <1>3 DEF UTIL_MakeFile
<1> QED
  BY <1>1, <1>2, <1>3, WriteFacts

LEMMA GetItemType ==
  ASSUME NEW d, IsDicti(d, File, Content), NEW f
  PROVE  getItem(d, f, Empty) \in Content \cup {Empty}
BY DEF IsDicti, getItem

\* Moving f from directory d into the archive.
LEMMA MoveType ==
  ASSUME TypeOK, NEW d, IsDicti(d, File, Content), NEW f \in File, NEW w \in Write
  PROVE  IsDicti(Archived(d, f, w), File, Content \cup {Empty})
<1>1. CASE settings.archive /\ f \notin DOMAIN archive
  <2>1. Archived(d, f, w) = UTIL_MakeFile(archive, f, getItem(d, f, Empty), w)
    BY <1>1 DEF Archived, UTIL_MoveFile
  <2>2. getItem(d, f, Empty) \in Content \cup {Empty}
    BY GetItemType
  <2>3. IsDicti(archive, File, Content \cup {Empty})
    BY DEF TypeOK
  <2>4. IsDicti(UTIL_MakeFile(archive, f, getItem(d, f, Empty), w), File, Content \cup {Empty})
    BY <2>2, <2>3, MakeFileType
  <2> QED
    BY <2>1, <2>4
<1>2. CASE ~(settings.archive /\ f \notin DOMAIN archive)
  BY <1>2 DEF Archived, UTIL_MoveFile, TypeOK
<1> QED
  BY <1>1, <1>2

LEMMA MoveKeeps ==
  ASSUME NEW d, NEW f, NEW w \in Write
  PROVE  /\ DOMAIN archive \subseteq DOMAIN Archived(d, f, w)
         /\ settings.archive /\ w = Whole => f \in DOMAIN Archived(d, f, w)
BY WriteFacts DEF Archived, UTIL_MoveFile, UTIL_MakeFile, setItem

LEMMA MoveNoneEmpty ==
  ASSUME TypeOK, NoneEmpty, NEW d, IsDicti(d, File, Content), NEW f,
         settings.archive => f \in DOMAIN d \cup DOMAIN archive,
         NEW g \in DOMAIN Archived(d, f, Whole)
  PROVE  Archived(d, f, Whole)[g] # Empty
<1>1. CASE settings.archive /\ f \notin DOMAIN archive
  <2>1. f \in DOMAIN d /\ d[f] \in Content
    BY <1>1 DEF IsDicti
  <2>2. Archived(d, f, Whole) = setItem(archive, f, d[f])
    BY <1>1, <2>1, WriteFacts DEF Archived, UTIL_MoveFile, UTIL_MakeFile, getItem
  <2> QED
    BY <2>1, <2>2, ContentFacts DEF setItem, NoneEmpty
<1>2. CASE ~(settings.archive /\ f \notin DOMAIN archive)
  BY <1>2 DEF Archived, UTIL_MoveFile, NoneEmpty
<1> QED
  BY <1>1, <1>2

----------------------------------------------------------------------------
\* The stream

\* A request may add and remove files, and change none.
Agrees == \A f \in DOMAIN dir \cap DOMAIN dir' : dir'[f] = dir[f]

LEMMA StreamStep ==
  ASSUME StreamOK, Agrees, StreamFollows, UNCHANGED reading
  PROVE  StreamOK'
BY DEF StreamOK, Agrees, StreamFollows, reading, PairsIn

LEMMA StreamType ==
  ASSUME TypeOK, IsDicti(dir', File, Content), StreamFollows
  PROVE  kept' \subseteq File /\ seen' \subseteq File \X Content
BY DEF TypeOK, StreamFollows, IsDicti, PairsIn

LEMMA DelAgrees ==
  ASSUME NEW f, dir' = delItem(dir, f)
  PROVE  Agrees
BY DEF Agrees, delItem

----------------------------------------------------------------------------
\* Uploads

\* What an upload makes of the directory: nothing, or a file that was not there.
LEMMA UploadEffect ==
  ASSUME Inv, NEW u, NEW f \in File, NEW h \in Hash, NEW tag, NEW w \in Write,
         serverResponseUploadPOST(u, f, h, tag, w)
  PROVE  /\ f \notin DOMAIN dir
         /\ \/ dir' = dir /\ m_pAllowed' = m_pAllowed
            \/ /\ \E c \in Content : dir' = setItem(dir, f, c)
               /\ archive' = archive
               /\ \/ m_pAllowed' = m_pAllowed
                  \/ /\ dir'[f] \in Named
                     /\ m_pAllowed' = setItem(m_pAllowed, dir'[f], f)
<1> DEFINE made == UTIL_MakeFile(dir, f, h, w)
           read == getItem(made, f, Empty)
           invalid == settings.parseOnUpload /\ ~Valid(made, f) /\ settings.deleteInvalid
<1>1. /\ f \notin DOMAIN dir
      /\ dir' = IF invalid THEN delItem(made, f) ELSE made
      /\ archive' = IF invalid THEN Archived(made, f, Whole) ELSE archive
      /\ m_pAllowed' = IF Parsed(made, f) THEN setItem(m_pAllowed, read, f) ELSE m_pAllowed
  BY DEF serverResponseUploadPOST, UploadAccepted
<1>2. Parsed(made, f) => /\ ~invalid /\ f \in DOMAIN made /\ made[f] \in Named
                         /\ read = made[f]
  BY DEF Parsed, Valid, getItem
<1>3. CASE w.left = "none"
  <2>1. made = dir
    BY <1>3 DEF UTIL_MakeFile
  <2>2. delItem(dir, f) = dir
    BY <1>1, DelItemAbsent DEF Inv, TypeOK
  <2>3. ~Parsed(made, f)
    BY <1>1, <1>2, <2>1
  <2> HIDE DEF made, read, invalid
  <2> QED
    BY <1>1, <2>1, <2>2, <2>3
<1>4. CASE w.left # "none"
  <2>1. PICK c \in Content : made = setItem(dir, f, c)
    BY <1>4, ContentFacts, WriteFacts DEF UTIL_MakeFile
  <2>2. made[f] = c /\ delItem(made, f) = dir
    <3>1. IsDicti(dir, File, Content)
      BY DEF Inv, TypeOK
    <3> HIDE DEF made
    <3> QED
      BY <1>1, <2>1, <3>1, DelNewItem
  <2> HIDE DEF made, read, invalid
  <2> QED
    BY <1>1, <1>2, <2>1, <2>2
<1> QED
  BY <1>3, <1>4

----------------------------------------------------------------------------
\* The invariant: the start

LEMMA SettingType == Settings \subseteq Setting
BY ConfigurationAssumption

LEMMA KeptFacts ==
  ASSUME NEW d, IsDicti(d, File, Content)
  PROVE  /\ IsDicti(Kept(d), File, Content)
         /\ \A f \in DOMAIN Kept(d) : f \in DOMAIN d /\ Kept(d)[f] = d[f]
         /\ \A f \in DOMAIN d : d[f] \in Named => f \in DOMAIN Kept(d)
         /\ DOMAIN d \subseteq DOMAIN Kept(d) \cup Discarded(d)
BY KeepItemsType DEF Kept, keepItems, Discarded, Valid

LEMMA ListsFacts ==
  ASSUME NEW d, IsDicti(d, File, Content), NEW l \in Lists(d)
  PROVE  /\ IsDicti(l, Named, File)
         /\ \A h \in DOMAIN l : l[h] \in DOMAIN d /\ d[l[h]] = h
         /\ \A f \in DOMAIN d : d[f] \in Named => d[f] \in DOMAIN l
<1> DEFINE hashes == {d[f] : f \in {f \in DOMAIN d : Valid(d, f)}}
<1>1. l \in [hashes -> DOMAIN d] /\ \A h \in hashes : d[l[h]] = h
  BY DEF Lists
<1>2. hashes \subseteq Named /\ \A f \in DOMAIN d : d[f] \in Named => d[f] \in hashes
  BY DEF Valid
<1>3. DOMAIN d \subseteq File
  BY DEF IsDicti
<1> HIDE DEF hashes
<1> QED
  BY <1>1, <1>2, <1>3 DEF IsDicti

LEMMA ArchivedAllFacts ==
  ASSUME NEW a, IsDicti(a, File, Content \cup {Empty}), NEW d, IsDicti(d, File, Content)
  PROVE  /\ IsDicti(ArchivedAll(a, d), File, Content \cup {Empty})
         /\ (\A f \in DOMAIN a : a[f] # Empty) =>
               \A f \in DOMAIN ArchivedAll(a, d) : ArchivedAll(a, d)[f] # Empty
<1>1. CASE settings.archive
  <2>1. ArchivedAll(a, d)
          = [f \in DOMAIN a \cup Discarded(d) |-> getItem(a, f, getItem(d, f, Empty))]
    BY <1>1 DEF ArchivedAll
  <2>2. ASSUME NEW f \in DOMAIN a \cup Discarded(d)
        PROVE  /\ f \in File
               /\ f \in DOMAIN a => getItem(a, f, getItem(d, f, Empty)) = a[f]
               /\ f \notin DOMAIN a => getItem(a, f, getItem(d, f, Empty)) \in Content
    BY DEF IsDicti, Discarded, getItem
  <2>3. \A f \in DOMAIN a : a[f] \in Content \cup {Empty}
    BY DEF IsDicti
  <2> QED
    BY <2>1, <2>2, <2>3, ContentFacts DEF IsDicti
<1>2. CASE ~settings.archive
  BY <1>2 DEF ArchivedAll
<1> QED
  BY <1>1, <1>2

LEMMA InitInv == Init => Inv
<1> SUFFICES ASSUME Init PROVE Inv
  OBVIOUS
<1>1. PICK d \in InitialDirs : Start(d, EmptyDicti, {})
  BY DEF Init
<1>2. IsDicti(d, File, Content)
  BY ConfigurationAssumption
<1>3. m_pAllowed \in Lists(d) /\ dir = Kept(d) /\ archive = ArchivedAll(EmptyDicti, d)
  BY <1>1 DEF Start
<1>4. IsDicti(dir, File, Content) /\ IsDicti(m_pAllowed, Named, File)
  BY <1>2, <1>3, KeptFacts, ListsFacts
<1>5. IsDicti(archive, File, Content \cup {Empty}) /\ NoneEmpty
  <2>1. IsDicti(EmptyDicti, File, Content \cup {Empty}) /\ DOMAIN EmptyDicti = {}
    BY EmptyDictiType DEF EmptyDicti
  <2> QED
    BY <1>2, <1>3, <2>1, ArchivedAllFacts DEF NoneEmpty
<1>6. tracked \subseteq Hash
  BY <1>1, <1>4, ContentFacts DEF Start, IsDicti
<1>7. /\ pc = "main" /\ IsDicti(pAllowed, Named, File) /\ dp = NoName /\ done = {} /\ kept = {}
      /\ seen = {} /\ stale = FALSE /\ failed = FALSE /\ saved = {} /\ settings \in Setting
      /\ m_pTags = EmptyDicti
  BY <1>1, EmptyDictiType, SettingType DEF Start, Init
<1>8. TypeOK
  BY <1>4, <1>5, <1>6, <1>7, EmptyDictiType DEF TypeOK
<1>9. \A h \in DOMAIN m_pAllowed : m_pAllowed[h] \in DOMAIN dir /\ dir[m_pAllowed[h]] = h
  BY <1>2, <1>3, <1>4, KeptFacts, ListsFacts DEF IsDicti
<1>10. ListsOwnFiles /\ StreamOK /\ NamesKnown
  BY <1>7, <1>9 DEF ListsOwnFiles, StreamOK, NamesKnown
<1> QED
  BY <1>5, <1>8, <1>10 DEF Inv

LEMMA RestartInv ==
  ASSUME Inv, Restart
  PROVE  Inv'
<1>1. IsDicti(dir, File, Content) /\ IsDicti(archive, File, Content \cup {Empty})
  BY DEF Inv, TypeOK
<1>2. m_pAllowed' \in Lists(dir) /\ dir' = Kept(dir) /\ archive' = ArchivedAll(archive, dir)
  BY DEF Restart
<1>3. IsDicti(dir', File, Content) /\ IsDicti(m_pAllowed', Named, File)
  BY <1>1, <1>2, KeptFacts, ListsFacts
<1>4. IsDicti(archive', File, Content \cup {Empty}) /\ (~failed' => NoneEmpty')
  BY <1>1, <1>2, ArchivedAllFacts DEF NoneEmpty, Inv, Restart
<1>5. tracked' \subseteq Hash
  BY <1>3, ContentFacts DEF Restart, IsDicti, Inv, TypeOK
<1>6. /\ pc' = "main" /\ IsDicti(pAllowed', Named, File) /\ dp' = NoName /\ done' = {}
      /\ kept' = {} /\ seen' = {} /\ stale' = FALSE
      /\ UNCHANGED <<settings, saved, m_pTags, failed>>
  BY EmptyDictiType DEF Restart
<1>7. TypeOK'
  BY <1>3, <1>4, <1>5, <1>6 DEF Inv, TypeOK
<1>8. \A h \in DOMAIN m_pAllowed' : m_pAllowed'[h] \in DOMAIN dir' /\ dir'[m_pAllowed'[h]] = h
  BY <1>1, <1>2, <1>3, KeptFacts, ListsFacts DEF IsDicti
<1>9. ListsOwnFiles' /\ StreamOK' /\ NamesKnown'
  BY <1>6, <1>8 DEF ListsOwnFiles, StreamOK, NamesKnown
<1> QED
  BY <1>4, <1>7, <1>9 DEF Inv

----------------------------------------------------------------------------
\* The invariant: requests

LEMMA TagType ==
  ASSUME TypeOK, NEW h \in Hash, NEW tag \in Tag \cup {NoTag}, NEW u \in User \cup {NoUser},
         m_pTags' = addTag(h, tag, u)
  PROVE  IsDicti(m_pTags', Hash, [tag : Tag \cup {NoTag}, uploader : User \cup {NoUser}])
<1> DEFINE T == [tag : Tag \cup {NoTag}, uploader : User \cup {NoUser}]
           old == getItem(m_pTags, h, [tag |-> NoTag, uploader |-> NoUser])
           new == [tag |-> tag, uploader |-> IF u = NoUser THEN old.uploader ELSE u]
<1>1. IsDicti(m_pTags, Hash, T)
  BY DEF TypeOK
<1>2. old \in T
  BY <1>1 DEF getItem, IsDicti
<1>3. new \in T
  BY <1>2
<1>4. m_pTags' = setItem(m_pTags, h, new)
  BY DEF addTag
<1> HIDE DEF T, new
<1>5. IsDicti(m_pTags', Hash, T)
  BY <1>1, <1>3, <1>4, SetItemType
<1> QED
  BY <1>5 DEF T

\* Nothing the tracker remembers is forgotten by both directories.
LEMMA NamesStep ==
  ASSUME NamesKnown, StreamFollows, UNCHANGED <<settings, pc, dp>>, failed => failed',
         settings.archive /\ ~failed' =>
           DOMAIN dir \cup DOMAIN archive \subseteq DOMAIN dir' \cup DOMAIN archive',
         \A h \in DOMAIN m_pAllowed' :
           \/ m_pAllowed'[h] \in DOMAIN dir'
           \/ h \in DOMAIN m_pAllowed /\ m_pAllowed'[h] = m_pAllowed[h]
  PROVE  NamesKnown'
<1> SUFFICES ASSUME settings.archive, ~failed' PROVE NamesKnown'
  BY DEF NamesKnown
<1>1. \A p \in seen' : p \in seen \/ p[1] \in DOMAIN dir'
  BY DEF StreamFollows, PairsIn
<1> QED
  BY <1>1 DEF NamesKnown

LEMMA UploadInv ==
  ASSUME Inv, NEW u \in User \cup {NoUser}, NEW f \in File, NEW h \in Hash,
         NEW tag \in Tag \cup {NoTag}, NEW w \in Write,
         serverResponseUploadPOST(u, f, h, tag, w)
  PROVE  Inv'
<1> DEFINE made == UTIL_MakeFile(dir, f, h, w)
           invalid == settings.parseOnUpload /\ ~Valid(made, f) /\ settings.deleteInvalid
<1>1. /\ f \notin DOMAIN dir
      /\ dir' = IF invalid THEN delItem(made, f) ELSE made
      /\ archive' = IF invalid THEN Archived(made, f, Whole) ELSE archive
      /\ tracked' = IF Parsed(made, f) /\ settings.keepDead
                    THEN tracked \cup {getItem(made, f, Empty)} ELSE tracked
      /\ m_pTags' = addTag(h, tag, u)
      /\ failed' = (failed \/ w # Whole)
      /\ StreamFollows
      /\ UNCHANGED <<settings, saved, reading, stale>>
  BY DEF serverResponseUploadPOST, UploadAccepted, Failed
<1>2. IsDicti(dir, File, Content) /\ IsDicti(made, File, Content)
  BY MakeFileType, ContentFacts DEF Inv, TypeOK
<1>3. /\ w = Whole => f \in DOMAIN made
      /\ Parsed(made, f) => getItem(made, f, Empty) \in Hash
  BY WriteFacts, ContentFacts DEF UTIL_MakeFile, setItem, Parsed, Valid, getItem
<1> HIDE DEF made
<1>4. IsDicti(dir', File, Content)
  BY <1>1, <1>2, DelItemType
<1>5. IsDicti(archive', File, Content \cup {Empty}) /\ DOMAIN archive \subseteq DOMAIN archive'
  <2>1. Whole \in Write
    BY WriteFacts
  <2> QED
    BY <1>1, <1>2, <2>1, MoveType, MoveKeeps DEF Inv, TypeOK
<1>6. ~failed' => NoneEmpty'
  BY <1>1, <1>2, <1>3, MoveNoneEmpty DEF Inv, NoneEmpty
<1> HIDE DEF invalid
<1>7. /\ \/ dir' = dir /\ m_pAllowed' = m_pAllowed
         \/ /\ \E c \in Content : dir' = setItem(dir, f, c)
            /\ archive' = archive
            /\ \/ m_pAllowed' = m_pAllowed
               \/ /\ dir'[f] \in Named
                  /\ m_pAllowed' = setItem(m_pAllowed, dir'[f], f)
  BY UploadEffect
<1>8. IsDicti(m_pAllowed', Named, File)
  BY <1>7, SetItemType DEF Inv, TypeOK
<1>9. TypeOK'
  <2>1. tracked' \subseteq Hash
    BY <1>1, <1>3 DEF Inv, TypeOK
  <2>2. kept' \subseteq File /\ seen' \subseteq File \X Content
    BY <1>1, <1>4, StreamType DEF Inv
  <2>3. IsDicti(m_pTags', Hash, [tag : Tag \cup {NoTag}, uploader : User \cup {NoUser}])
    BY <1>1, TagType DEF Inv
  <2>4. failed' \in BOOLEAN
    BY <1>1
  <2> QED
    BY <1>1, <1>4, <1>5, <1>8, <2>1, <2>2, <2>3, <2>4 DEF Inv, TypeOK, reading
<1>10. /\ DOMAIN dir \subseteq DOMAIN dir' /\ \A g \in DOMAIN dir : dir'[g] = dir[g]
       /\ \A k \in DOMAIN m_pAllowed' :
            \/ m_pAllowed'[k] \in DOMAIN dir' /\ dir'[m_pAllowed'[k]] = k
            \/ k \in DOMAIN m_pAllowed /\ m_pAllowed'[k] = m_pAllowed[k]
  BY <1>1, <1>7 DEF setItem
<1>11. ListsOwnFiles'
  BY <1>1, <1>10 DEF Inv, ListsOwnFiles
<1>12. StreamOK'
  BY <1>1, <1>10, StreamStep DEF Agrees, Inv
<1>13. NamesKnown'
  BY <1>1, <1>5, <1>10, NamesStep DEF Inv, reading
<1> QED
  BY <1>6, <1>9, <1>11, <1>12, <1>13 DEF Inv

LEMMA PutFileInv ==
  ASSUME Inv, NEW f \in File, NEW c \in Content, PutFile(f, c)
  PROVE  Inv'
<1>1. /\ f \notin DOMAIN dir /\ dir' = setItem(dir, f, c) /\ StreamFollows
      /\ UNCHANGED <<settings, archive, failed, tables, saved, reading, stale>>
  BY DEF PutFile
<1>2. IsDicti(dir', File, Content)
  BY <1>1, SetItemType DEF Inv, TypeOK
<1>3. kept' \subseteq File /\ seen' \subseteq File \X Content
  BY <1>1, <1>2, StreamType DEF Inv
<1>4. TypeOK'
  BY <1>1, <1>2, <1>3 DEF Inv, TypeOK, reading, tables
<1>5. DOMAIN dir \subseteq DOMAIN dir' /\ \A g \in DOMAIN dir : dir'[g] = dir[g]
  BY <1>1 DEF setItem
<1>6. ListsOwnFiles'
  BY <1>1, <1>5 DEF Inv, ListsOwnFiles, tables
<1>7. StreamOK'
  BY <1>1, <1>5, StreamStep DEF Agrees, Inv
<1>8. NamesKnown'
  BY <1>1, <1>5, NamesStep DEF Inv, reading, tables
<1> QED
  BY <1>1, <1>4, <1>6, <1>7, <1>8 DEF Inv, NoneEmpty

LEMMA DeleteInv ==
  ASSUME Inv, NEW h \in Hash, NEW w \in Write, DeleteTorrent(h, w)
  PROVE  Inv'
<1> DEFINE f == m_pAllowed[h]
<1>1. /\ IF h \in DOMAIN m_pAllowed
         THEN dir' = delItem(dir, f) /\ archive' = Archived(dir, f, w)
         ELSE UNCHANGED <<dir, archive>>
      /\ m_pAllowed' = delItem(m_pAllowed, h)
      /\ tracked' = tracked \ {h}
      /\ m_pTags' = delItem(m_pTags, h)
      /\ failed' = (failed \/ w # Whole)
      /\ StreamFollows
      /\ UNCHANGED <<settings, saved, reading, stale>>
  BY DEF DeleteTorrent, deleteTag, Failed
<1>2. h \in DOMAIN m_pAllowed => f \in File
  BY DEF Inv, TypeOK, IsDicti
<1> HIDE DEF f
<1>3. IsDicti(dir, File, Content) /\ IsDicti(dir', File, Content)
  BY <1>1, DelItemType DEF Inv, TypeOK
<1>4. IsDicti(archive', File, Content \cup {Empty}) /\ DOMAIN archive \subseteq DOMAIN archive'
  <2>1. TypeOK /\ IsDicti(archive, File, Content \cup {Empty})
    BY DEF Inv, TypeOK
  <2>2. CASE h \in DOMAIN m_pAllowed
    <3>1. archive' = Archived(dir, f, w) /\ f \in File
      BY <1>1, <1>2, <2>2
    <3> QED
      BY <1>3, <2>1, <3>1, MoveType, MoveKeeps
  <2>3. CASE h \notin DOMAIN m_pAllowed
    BY <1>1, <2>1, <2>3
  <2> QED
    BY <2>2, <2>3
<1>5. ~failed' => NoneEmpty'
  <2> SUFFICES ASSUME ~failed' PROVE NoneEmpty'
    OBVIOUS
  <2>1. w = Whole /\ ~failed /\ NoneEmpty /\ NamesKnown /\ TypeOK
    BY <1>1 DEF Inv
  <2>2. settings.archive /\ h \in DOMAIN m_pAllowed => f \in DOMAIN dir \cup DOMAIN archive
    BY <2>1 DEF NamesKnown, f
  <2> QED
    BY <1>1, <1>3, <2>1, <2>2, MoveNoneEmpty DEF NoneEmpty
<1>6. TypeOK'
  <2>1. IsDicti(m_pAllowed', Named, File)
    BY <1>1, DelItemType DEF Inv, TypeOK
  <2>2. IsDicti(m_pTags', Hash, [tag : Tag \cup {NoTag}, uploader : User \cup {NoUser}])
    BY <1>1, DelItemType DEF Inv, TypeOK
  <2>3. kept' \subseteq File /\ seen' \subseteq File \X Content
    BY <1>1, <1>3, StreamType DEF Inv
  <2>4. tracked' \subseteq Hash /\ failed' \in BOOLEAN
    BY <1>1 DEF Inv, TypeOK
  <2> QED
    BY <1>1, <1>3, <1>4, <2>1, <2>2, <2>3, <2>4 DEF Inv, TypeOK, reading
<1>7. \A g \in DOMAIN dir : g # f => g \in DOMAIN dir' /\ dir'[g] = dir[g]
  BY <1>1 DEF delItem
<1>8. ListsOwnFiles'
  <2> SUFFICES ASSUME ~stale, NEW k \in DOMAIN m_pAllowed'
               PROVE  m_pAllowed'[k] \in DOMAIN dir' /\ dir'[m_pAllowed'[k]] = k
    BY <1>1 DEF ListsOwnFiles
  <2>1. k # h /\ k \in DOMAIN m_pAllowed /\ m_pAllowed'[k] = m_pAllowed[k]
    BY <1>1 DEF delItem
  <2>2. m_pAllowed[k] \in DOMAIN dir /\ dir[m_pAllowed[k]] = k
    BY <2>1 DEF Inv, ListsOwnFiles
  <2>3. CASE h \in DOMAIN m_pAllowed
    <3>1. dir[f] = h
      BY <2>3 DEF Inv, ListsOwnFiles, f
    <3> QED
      BY <1>7, <2>1, <2>2, <3>1
  <2>4. CASE h \notin DOMAIN m_pAllowed
    BY <1>1, <2>1, <2>2, <2>4
  <2> QED
    BY <2>3, <2>4
<1>9. StreamOK'
  <2>1. Agrees
    BY <1>1 DEF Agrees, delItem
  <2> QED
    BY <1>1, <2>1, StreamStep DEF Inv
<1>10. NamesKnown'
  <2>1. settings.archive /\ ~failed' =>
          DOMAIN dir \cup DOMAIN archive \subseteq DOMAIN dir' \cup DOMAIN archive'
    BY <1>1, <1>4, <1>7, MoveKeeps
  <2>2. \A k \in DOMAIN m_pAllowed' : k \in DOMAIN m_pAllowed /\ m_pAllowed'[k] = m_pAllowed[k]
    BY <1>1 DEF delItem
  <2> QED
    BY <1>1, <2>1, <2>2, NamesStep DEF Inv, reading
<1> QED
  BY <1>5, <1>6, <1>8, <1>9, <1>10 DEF Inv

LEMMA RequestsInv ==
  ASSUME Inv, Requests
  PROVE  Inv'
<1>1. ASSUME NEW u \in User \cup {NoUser}, NEW f \in File, NEW h \in Hash,
             NEW tag \in Tag \cup {NoTag}, NEW w \in Write,
             serverResponseUploadPOST(u, f, h, tag, w)
      PROVE  Inv'
  BY <1>1, UploadInv
<1>2. ASSUME NEW h \in Hash, NEW w \in Write, DeleteTorrent(h, w)
      PROVE  Inv'
  BY <1>2, DeleteInv
<1>3. ASSUME NEW h \in Hash, NEW tag \in Tag \cup {NoTag}, NEW u \in User \cup {NoUser},
             serverResponseStats(h, tag, u)
      PROVE  Inv'
  <2>1. IsDicti(m_pTags', Hash, [tag : Tag \cup {NoTag}, uploader : User \cup {NoUser}])
    BY <1>3, TagType DEF serverResponseStats, Inv
  <2>2. UNCHANGED <<settings, directory, m_pAllowed, tracked, saved, reading, kept, seen, stale>>
    BY <1>3 DEF serverResponseStats
  <2> QED
    BY <2>1, <2>2 DEF Inv, TypeOK, ListsOwnFiles, StreamOK, NamesKnown, NoneEmpty, directory,
                      reading
<1>4. ASSUME NEW h \in Hash, serverResponseAnnounce(h)
      PROVE  Inv'
  BY <1>4 DEF serverResponseAnnounce, Inv, TypeOK, ListsOwnFiles, StreamOK, NamesKnown,
              NoneEmpty, directory, reading
<1> QED
  BY <1>1, <1>2, <1>3, <1>4 DEF Requests, serverResponseIndex, serverResponseLogin

----------------------------------------------------------------------------
\* The invariant: the parse

LEMMA TimersInv ==
  ASSUME Inv, Timers
  PROVE  Inv'
<1>1. ASSUME NEW h \in Hash, expireDownloaders(h)
      PROVE  Inv'
  BY <1>1 DEF expireDownloaders, Inv, TypeOK, ListsOwnFiles, StreamOK, NamesKnown,
              NoneEmpty, directory, reading
<1>2. CASE saveDFile
  BY <1>2 DEF saveDFile, Inv, TypeOK, ListsOwnFiles, StreamOK, NamesKnown,
              NoneEmpty, directory, reading, tables
<1>3. CASE parseTorrents
  <2>1. IsDicti(pAllowed', Named, File) /\ DOMAIN pAllowed' = {}
    BY <1>3, EmptyDictiType DEF parseTorrents, NewList, EmptyDicti
  <2>2. /\ kept' = DOMAIN dir /\ seen' = PairsIn(dir) /\ done' = {} /\ pc' = "readdir"
        /\ UNCHANGED <<settings, directory, tables, saved, dp, stale>>
    BY <1>3 DEF parseTorrents
  <2>3. kept' \subseteq File /\ seen' \subseteq File \X Content
    BY <2>2 DEF Inv, TypeOK, IsDicti, PairsIn
  <2>4. TypeOK'
    BY <2>1, <2>2, <2>3 DEF Inv, TypeOK, directory, tables
  <2>5. StreamOK'
    BY <2>1, <2>2 DEF StreamOK, directory
  <2>6. NamesKnown'
    BY <2>2 DEF Inv, NamesKnown, directory, tables, PairsIn
  <2> QED
    BY <2>2, <2>4, <2>5, <2>6 DEF Inv, ListsOwnFiles, NoneEmpty, directory, tables
<1>4. CASE OpendirFails
  <2>1. IsDicti(m_pAllowed', Named, File) /\ DOMAIN m_pAllowed' = {}
    BY <1>4, EmptyDictiType DEF OpendirFails, EmptyDicti
  <2>2. /\ stale' = FALSE
        /\ UNCHANGED <<settings, directory, tracked, m_pTags, saved, reading, kept, seen>>
    BY <1>4 DEF OpendirFails
  <2> QED
    BY <2>1, <2>2 DEF Inv, TypeOK, ListsOwnFiles, StreamOK, NamesKnown, NoneEmpty, directory,
                      reading
<1> QED
  BY <1>1, <1>2, <1>3, <1>4 DEF Timers

LEMMA ReaddirInv ==
  ASSUME Inv, Readdir
  PROVE  Inv'
<1>1. PICK name \in {p[1] : p \in seen} \cup Other :
        name \notin done /\ dp' = name /\ done' = done \cup {name}
  BY DEF Readdir
<1>2. /\ pc = "readdir" /\ pc' = "nested"
      /\ UNCHANGED <<settings, directory, tables, saved, pAllowed, kept, seen, stale>>
  BY DEF Readdir
<1>3. name \in File \cup Other /\ name # NoName
  BY NamesAssumption DEF Inv, TypeOK
<1>4. TypeOK'
  BY <1>1, <1>2, <1>3 DEF Inv, TypeOK, directory, tables
<1>5. StreamOK'
  BY <1>1, <1>2 DEF Inv, StreamOK, directory
<1>6. NamesKnown'
  BY <1>1, <1>2, NamesAssumption DEF Inv, NamesKnown, directory, tables
<1> QED
  BY <1>2, <1>4, <1>5, <1>6 DEF Inv, ListsOwnFiles, NoneEmpty, directory, tables

LEMMA PassOverInv ==
  ASSUME Inv, PassOver
  PROVE  Inv'
<1>1. /\ pc = "nested" /\ dp \in Other /\ pc' = "readdir" /\ dp' = NoName
      /\ UNCHANGED <<settings, directory, tables, saved, pAllowed, done, kept, seen, stale>>
  BY DEF PassOver
<1>2. dp \notin File
  BY <1>1, NamesAssumption
<1>3. TypeOK'
  BY <1>1 DEF Inv, TypeOK, directory, tables
<1>4. StreamOK'
  <2>1. kept \subseteq File
    BY DEF Inv, TypeOK
  <2> QED
    BY <1>1, <1>2, <2>1 DEF Inv, StreamOK, directory
<1> QED
  BY <1>1, <1>3, <1>4 DEF Inv, ListsOwnFiles, NamesKnown, NoneEmpty, directory, tables

LEMMA ParseFileInv ==
  ASSUME Inv, NEW w \in Write, ParseFile(w)
  PROVE  Inv'
<1>1. /\ pc = "nested" /\ pc' = "readdir" /\ dp' = NoName /\ dp \in File /\ StreamFollows
      /\ UNCHANGED <<settings, m_pAllowed, m_pTags, saved, done, stale>>
  BY DEF ParseFile
<1>2. CASE Valid(dir, dp)
  <2>1. /\ pAllowed' = setItem(pAllowed, dir[dp], dp)
        /\ tracked' = IF settings.keepDead THEN tracked \cup {dir[dp]} ELSE tracked
        /\ UNCHANGED <<dir, archive, failed>>
    BY <1>2 DEF ParseFile
  <2>2. dp \in DOMAIN dir /\ dir[dp] \in Named
    BY <1>2 DEF Valid
  <2>3. IsDicti(pAllowed', Named, File) /\ tracked' \subseteq Hash
    BY <1>1, <2>1, <2>2, SetItemType, ContentFacts DEF Inv, TypeOK
  <2>4. kept' \subseteq File /\ seen' \subseteq File \X Content
    BY <1>1, <2>1, StreamType DEF Inv, TypeOK
  <2>5. TypeOK'
    BY <1>1, <2>1, <2>3, <2>4 DEF Inv, TypeOK
  <2>6. StreamOK'
    <3>1. kept' \subseteq kept /\ kept' \subseteq DOMAIN dir /\ seen' = seen \cup PairsIn(dir)
      BY <1>1, <2>1 DEF StreamFollows
    <3>2. <<dp, dir[dp]>> \in PairsIn(dir)
      BY <2>2 DEF PairsIn
    <3>3. \A h \in DOMAIN pAllowed' : <<pAllowed'[h], h>> \in seen'
      BY <1>1, <2>1, <3>1, <3>2 DEF Inv, StreamOK, setItem
    <3>4. ASSUME NEW f \in kept', f \in done, dir[f] \in Named
          PROVE  dir[f] \in DOMAIN pAllowed'
      BY <1>1, <2>1, <3>1, <3>4 DEF Inv, StreamOK, setItem
    <3> QED
      BY <1>1, <2>1, <3>1, <3>3, <3>4 DEF StreamOK
  <2>7. NamesKnown'
    BY <1>1, <2>1 DEF Inv, NamesKnown, StreamFollows, PairsIn
  <2> QED
    BY <1>1, <2>1, <2>5, <2>6, <2>7 DEF Inv, ListsOwnFiles, NoneEmpty
<1>3. CASE ~Valid(dir, dp)
  <2>1. /\ dir' = IF settings.deleteInvalid THEN delItem(dir, dp) ELSE dir
        /\ archive' = IF settings.deleteInvalid THEN Archived(dir, dp, w) ELSE archive
        /\ failed' = (failed \/ w # Whole)
        /\ UNCHANGED <<pAllowed, tracked>>
    BY <1>3 DEF ParseFile, Failed
  <2>2. IsDicti(dir, File, Content) /\ IsDicti(dir', File, Content)
    BY <2>1, DelItemType DEF Inv, TypeOK
  <2>3. IsDicti(archive', File, Content \cup {Empty}) /\ DOMAIN archive \subseteq DOMAIN archive'
    BY <1>1, <2>1, <2>2, MoveType, MoveKeeps DEF Inv, TypeOK
  <2>4. kept' \subseteq File /\ seen' \subseteq File \X Content
    BY <1>1, <2>2, StreamType DEF Inv
  <2>5. TypeOK'
    BY <1>1, <2>1, <2>2, <2>3, <2>4 DEF Inv, TypeOK
  <2>6. \A g \in DOMAIN dir : g # dp => g \in DOMAIN dir' /\ dir'[g] = dir[g]
    BY <2>1 DEF delItem
  <2>7. ~(dp \in DOMAIN dir /\ dir[dp] \in Named)
    BY <1>3 DEF Valid
  <2>8. ListsOwnFiles'
    <3>1. DOMAIN m_pAllowed \subseteq Named
      BY DEF Inv, TypeOK, IsDicti
    <3> QED
      BY <1>1, <2>6, <2>7, <3>1 DEF Inv, ListsOwnFiles
  <2>9. StreamOK'
    <3>1. DOMAIN dir' \subseteq DOMAIN dir /\ \A g \in DOMAIN dir' : dir'[g] = dir[g]
      BY <2>1 DEF delItem
    <3>2. kept' \subseteq kept /\ kept' \subseteq DOMAIN dir' /\ seen' = seen \cup PairsIn(dir')
      BY <1>1 DEF StreamFollows
    <3>3. ASSUME NEW f \in kept', f \in done, dir'[f] \in Named
          PROVE  dir'[f] \in DOMAIN pAllowed'
      BY <1>1, <2>1, <2>7, <3>1, <3>2, <3>3 DEF Inv, StreamOK
    <3> QED
      BY <1>1, <2>1, <3>2, <3>3 DEF Inv, StreamOK
  <2>10. NamesKnown'
    <3> SUFFICES ASSUME settings.archive, ~failed' PROVE NamesKnown'
      BY <1>1 DEF NamesKnown
    <3>1. DOMAIN dir \cup DOMAIN archive \subseteq DOMAIN dir' \cup DOMAIN archive'
      BY <2>1, <2>3, <2>6, MoveKeeps
    <3>2. \A p \in seen' : p \in seen \/ p[1] \in DOMAIN dir'
      BY <1>1 DEF StreamFollows, PairsIn
    <3> QED
      BY <1>1, <2>1, <3>1, <3>2 DEF Inv, NamesKnown
  <2>11. ~failed' => NoneEmpty'
    <3> SUFFICES ASSUME ~failed' PROVE NoneEmpty'
      OBVIOUS
    <3>1. w = Whole /\ ~failed /\ NoneEmpty /\ NamesKnown /\ TypeOK
      BY <2>1 DEF Inv
    <3>2. settings.archive => dp \in DOMAIN dir \cup DOMAIN archive
      BY <1>1, <3>1 DEF NamesKnown
    <3> QED
      BY <2>1, <2>2, <3>1, <3>2, MoveNoneEmpty DEF NoneEmpty
  <2> QED
    BY <2>5, <2>8, <2>9, <2>10, <2>11 DEF Inv
<1> QED
  BY <1>2, <1>3

LEMMA EndParseInv ==
  ASSUME Inv, EndParse
  PROVE  Inv'
<1>1. /\ pc = "readdir" /\ pc' = "main" /\ m_pAllowed' = pAllowed /\ pAllowed' = EmptyDicti
      /\ done' = {} /\ kept' = {} /\ seen' = {} /\ stale' = (seen # PairsIn(dir))
      /\ UNCHANGED <<settings, directory, tracked, m_pTags, saved, dp>>
  BY DEF EndParse
<1>2. TypeOK'
  BY <1>1, EmptyDictiType DEF Inv, TypeOK, directory
<1>3. \A h \in DOMAIN pAllowed : <<pAllowed[h], h>> \in seen
  BY <1>1 DEF Inv, StreamOK
<1>4. ListsOwnFiles'
  <2> SUFFICES ASSUME seen = PairsIn(dir), NEW h \in DOMAIN pAllowed
               PROVE  pAllowed[h] \in DOMAIN dir /\ dir[pAllowed[h]] = h
    BY <1>1 DEF ListsOwnFiles, directory
  <2> QED
    BY <1>3 DEF PairsIn
<1>5. StreamOK'
  BY <1>1 DEF StreamOK
<1>6. NamesKnown'
  BY <1>1, <1>3 DEF Inv, NamesKnown, directory
<1> QED
  BY <1>1, <1>2, <1>4, <1>5, <1>6 DEF Inv, NoneEmpty, directory

LEMMA NextInv == Inv /\ [Next]_vars => Inv'
<1> SUFFICES ASSUME Inv, [Next]_vars PROVE Inv'
  OBVIOUS
<1>1. CASE Requests
  BY <1>1, RequestsInv
<1>2. CASE Timers
  BY <1>2, TimersInv
<1>3. CASE Parse
  BY <1>3, ReaddirInv, PassOverInv, ParseFileInv, EndParseInv DEF Parse
<1>4. ASSUME NEW f \in File, NEW c \in Content, PutFile(f, c)
      PROVE  Inv'
  BY <1>4, PutFileInv
<1>5. CASE Restart
  BY <1>5, RestartInv
<1>6. CASE UNCHANGED vars
  BY <1>6 DEF vars, Inv, TypeOK, ListsOwnFiles, StreamOK, NamesKnown, NoneEmpty
<1> QED
  BY <1>1, <1>2, <1>3, <1>4, <1>5, <1>6 DEF Next

LEMMA AlwaysInv == Spec => []Inv
<1> QED
  BY InitInv, NextInv, PTL DEF Spec

\* Every table, the directories and the parse keep their types.
THEOREM TypeCorrect == Spec => []TypeOK
<1>1. Inv => TypeOK
  BY DEF Inv
<1> QED
  BY <1>1, AlwaysInv, PTL

\* The file a torrent is listed with holds that torrent, unless a file went while
\* the list was being made: deleting a torrent deletes no other.
THEOREM ListsOwnFilesAlways == Spec => []ListsOwnFiles
<1>1. Inv => ListsOwnFiles
  BY DEF Inv
<1> QED
  BY <1>1, AlwaysInv, PTL

\* No file that is not there is ever archived, until a write fails.
THEOREM ArchivesFilesAlways == Spec => []ArchivesFiles
<1>1. Inv => ArchivesFiles
  BY DEF Inv, ArchivesFiles, NoneEmpty
<1> QED
  BY <1>1, AlwaysInv, PTL

----------------------------------------------------------------------------
\* The catalogue

\* What a request makes of the stream when it removes no file, or changes none.
LEMMA StreamStays ==
  ASSUME Inv, StreamFollows, UNCHANGED reading,
         DOMAIN dir \subseteq DOMAIN dir'
  PROVE  /\ seen' = IF pc # "main" THEN seen \cup PairsIn(dir') ELSE seen
         /\ kept' = kept
         /\ dir' = dir => seen' = seen
BY DEF Inv, StreamOK, StreamFollows, reading

LEMMA UploadRefines ==
  ASSUME Inv, NEW u, NEW f \in File, NEW h \in Hash, NEW tag, NEW w \in Write,
         serverResponseUploadPOST(u, f, h, tag, w)
  PROVE  C!Next \/ UNCHANGED C!vars
<1>1. /\ f \notin DOMAIN dir
      /\ \/ dir' = dir /\ m_pAllowed' = m_pAllowed
         \/ /\ \E c \in Content : dir' = setItem(dir, f, c)
            /\ \/ m_pAllowed' = m_pAllowed
               \/ /\ dir'[f] \in Named
                  /\ m_pAllowed' = setItem(m_pAllowed, dir'[f], f)
  BY UploadEffect
<1>2. StreamFollows /\ UNCHANGED reading
  BY DEF serverResponseUploadPOST
<1>3. pc' = pc
  BY <1>2 DEF reading
<1>4. CASE dir' = dir /\ m_pAllowed' = m_pAllowed
  BY <1>2, <1>3, <1>4, StreamStays DEF C!vars
<1>5. ASSUME NEW c \in Content, dir' = setItem(dir, f, c),
             m_pAllowed' = m_pAllowed \/
               (dir'[f] \in Named /\ m_pAllowed' = setItem(m_pAllowed, dir'[f], f))
      PROVE  C!Add(f)
  <2>1. DOMAIN dir' = DOMAIN dir \cup {f} /\ \A g \in DOMAIN dir : dir'[g] = dir[g]
    BY <1>1, <1>5 DEF setItem
  <2>2. kept' = kept /\ C!Seen
    BY <1>2, <1>3, <2>1, StreamStays DEF C!Seen, C!PairsIn, PairsIn
  <2> QED
    BY <1>1, <1>3, <1>5, <2>1, <2>2 DEF C!Add, C!setItem, setItem
<1> QED
  BY <1>1, <1>4, <1>5 DEF C!Next

LEMMA PutFileRefines ==
  ASSUME Inv, NEW f \in File, NEW c \in Content, PutFile(f, c)
  PROVE  C!Add(f)
<1>1. /\ f \notin DOMAIN dir /\ dir' = setItem(dir, f, c) /\ StreamFollows
      /\ UNCHANGED reading /\ m_pAllowed' = m_pAllowed /\ pc' = pc
  BY DEF PutFile, tables, reading
<1>2. DOMAIN dir' = DOMAIN dir \cup {f} /\ \A g \in DOMAIN dir : dir'[g] = dir[g]
  BY <1>1 DEF setItem
<1>3. kept' = kept /\ C!Seen
  BY <1>1, <1>2, StreamStays DEF C!Seen, C!PairsIn, PairsIn
<1> QED
  BY <1>1, <1>2, <1>3 DEF C!Add

LEMMA DeleteRefines ==
  ASSUME Inv, NEW h \in Hash, NEW w \in Write, DeleteTorrent(h, w)
  PROVE  C!Delete(h) \/ UNCHANGED C!vars
<1>1. /\ m_pAllowed' = delItem(m_pAllowed, h) /\ StreamFollows /\ UNCHANGED reading
      /\ IF h \in DOMAIN m_pAllowed THEN dir' = delItem(dir, m_pAllowed[h]) ELSE dir' = dir
      /\ pc' = pc
  BY DEF DeleteTorrent, reading
<1>2. CASE h \in DOMAIN m_pAllowed
  <2>1. dir' = delItem(dir, m_pAllowed[h])
    BY <1>1, <1>2
  <2>2. DOMAIN dir' = DOMAIN dir \ {m_pAllowed[h]} /\ PairsIn(dir') \subseteq PairsIn(dir)
    BY <2>1 DEF delItem, PairsIn
  <2>3. kept' = kept \ {m_pAllowed[h]} /\ seen' = seen
    BY <1>1, <2>2 DEF StreamFollows, Inv, StreamOK
  <2> QED
    BY <1>1, <1>2, <2>1, <2>3 DEF C!Delete, C!delItem, delItem
<1>3. CASE h \notin DOMAIN m_pAllowed
  <2>1. dir' = dir /\ m_pAllowed' = m_pAllowed
    BY <1>1, <1>3, DelItemAbsent DEF Inv, TypeOK
  <2>2. kept' = kept /\ seen' = seen
    BY <1>1, <2>1, StreamStays
  <2> QED
    BY <1>1, <2>1, <2>2 DEF C!vars
<1> QED
  BY <1>2, <1>3

LEMMA ParseFileRefines ==
  ASSUME Inv, NEW w \in Write, ParseFile(w)
  PROVE  C!Discard(dp) \/ UNCHANGED C!vars
<1>1. /\ pc = "nested" /\ pc' = "readdir" /\ StreamFollows /\ m_pAllowed' = m_pAllowed
      /\ kept \subseteq DOMAIN dir /\ PairsIn(dir) \subseteq seen
  BY DEF ParseFile, Inv, StreamOK
<1>2. CASE dir' = dir
  BY <1>1, <1>2 DEF StreamFollows, C!vars
<1>3. CASE ~Valid(dir, dp) /\ dp \in DOMAIN dir /\ dir' = delItem(dir, dp)
  <2>1. DOMAIN dir' = DOMAIN dir \ {dp} /\ PairsIn(dir') \subseteq PairsIn(dir)
    BY <1>3 DEF delItem, PairsIn
  <2>2. kept' = kept \ {dp} /\ seen' = seen
    BY <1>1, <2>1 DEF StreamFollows
  <2> QED
    BY <1>1, <1>3, <2>2 DEF C!Discard, C!delItem, delItem, Valid
<1>4. dir' = dir \/ (~Valid(dir, dp) /\ dir' = delItem(dir, dp))
  BY DEF ParseFile
<1>5. dp \notin DOMAIN dir => delItem(dir, dp) = dir
  BY DelItemAbsent DEF Inv, TypeOK
<1> QED
  BY <1>2, <1>3, <1>4, <1>5

LEMMA EndParseRefines ==
  ASSUME Inv, EndParse
  PROVE  C!End
<1>1. /\ pc = "readdir" /\ kept \subseteq done /\ pc' = "main" /\ m_pAllowed' = pAllowed
      /\ kept' = {} /\ seen' = {} /\ dir' = dir
  BY DEF EndParse, directory
<1>2. DOMAIN pAllowed \subseteq Named
  BY DEF Inv, TypeOK, IsDicti
<1>3. /\ \A h \in DOMAIN pAllowed : <<pAllowed[h], h>> \in seen
      /\ \A f \in kept : dir[f] \in Named => dir[f] \in DOMAIN pAllowed
  BY <1>1 DEF Inv, StreamOK
<1> QED
  BY <1>1, <1>2, <1>3 DEF C!End, C!IsListOf, C!HasAll

\* The list made from directory d, of whose files those discarded are gone.
LEMMA ListRefines ==
  ASSUME NEW d, IsDicti(d, File, Content), NEW l \in Lists(d)
  PROVE  C!IsListOf(l, PairsIn(Kept(d))) /\ C!HasAll(l, Kept(d), DOMAIN Kept(d))
<1>1. /\ DOMAIN l \subseteq Named
      /\ \A h \in DOMAIN l : l[h] \in DOMAIN d /\ d[l[h]] = h
      /\ \A f \in DOMAIN d : d[f] \in Named => d[f] \in DOMAIN l
  BY ListsFacts DEF IsDicti
<1>2. /\ \A f \in DOMAIN Kept(d) : f \in DOMAIN d /\ Kept(d)[f] = d[f]
      /\ \A f \in DOMAIN d : d[f] \in Named => f \in DOMAIN Kept(d)
  BY KeptFacts
<1> QED
  BY <1>1, <1>2 DEF C!IsListOf, C!HasAll, PairsIn

LEMMA InitRefines == Init => C!Init
<1> SUFFICES ASSUME Init PROVE C!Init
  OBVIOUS
<1>1. PICK d \in InitialDirs : Start(d, EmptyDicti, {})
  BY DEF Init
<1>2. IsDicti(d, File, Content)
  BY ConfigurationAssumption
<1>3. /\ m_pAllowed \in Lists(d) /\ dir = Kept(d) /\ pc = "main" /\ kept = {} /\ seen = {}
  BY <1>1 DEF Start
<1>4. C!IsListOf(m_pAllowed, PairsIn(dir)) /\ C!HasAll(m_pAllowed, dir, DOMAIN dir)
  BY <1>2, <1>3, ListRefines
<1> QED
  BY <1>3, <1>4 DEF C!Init, C!PairsIn, PairsIn

LEMMA RestartRefines ==
  ASSUME Inv, Restart
  PROVE  C!Start
<1>1. IsDicti(dir, File, Content)
  BY DEF Inv, TypeOK
<1>2. /\ m_pAllowed' \in Lists(dir) /\ dir' = Kept(dir) /\ pc' = "main" /\ kept' = {}
      /\ seen' = {}
  BY DEF Restart
<1>3. C!IsListOf(m_pAllowed', PairsIn(dir')) /\ C!HasAll(m_pAllowed', dir', DOMAIN dir')
  BY <1>1, <1>2, ListRefines
<1>4. /\ \A f \in DOMAIN dir' : f \in DOMAIN dir /\ dir'[f] = dir[f]
      /\ \A f \in DOMAIN dir : dir[f] \in Named => f \in DOMAIN dir'
  BY <1>1, <1>2, KeptFacts
<1> QED
  BY <1>2, <1>3, <1>4 DEF C!Start, C!PairsIn, PairsIn

LEMMA NextRefines == Inv /\ [Next]_vars => [C!Next]_(C!vars)
<1> SUFFICES ASSUME Inv, [Next]_vars PROVE C!Next \/ UNCHANGED C!vars
  OBVIOUS
<1>1. CASE Requests
  <2>1. ASSUME NEW u \in User \cup {NoUser}, NEW f \in File, NEW h \in Hash,
               NEW tag \in Tag \cup {NoTag}, NEW w \in Write,
               serverResponseUploadPOST(u, f, h, tag, w)
        PROVE  C!Next \/ UNCHANGED C!vars
    BY <2>1, UploadRefines
  <2>2. ASSUME NEW h \in Hash, NEW w \in Write, DeleteTorrent(h, w)
        PROVE  C!Next \/ UNCHANGED C!vars
    BY <2>2, DeleteRefines DEF C!Next
  <2>3. ASSUME NEW h \in Hash, NEW tag \in Tag \cup {NoTag}, NEW u \in User \cup {NoUser},
               serverResponseStats(h, tag, u)
        PROVE  UNCHANGED C!vars
    BY <2>3 DEF serverResponseStats, directory, reading, C!vars
  <2>4. ASSUME NEW h \in Hash, serverResponseAnnounce(h)
        PROVE  UNCHANGED C!vars
    BY <2>4 DEF serverResponseAnnounce, directory, reading, C!vars
  <2> QED
    BY <1>1, <2>1, <2>2, <2>3, <2>4 DEF Requests, serverResponseIndex, serverResponseLogin
<1>2. CASE Timers
  <2>1. ASSUME NEW h \in Hash, expireDownloaders(h)
        PROVE  UNCHANGED C!vars
    BY <2>1 DEF expireDownloaders, directory, reading, C!vars
  <2>2. CASE saveDFile
    BY <2>2 DEF saveDFile, directory, tables, reading, C!vars
  <2>3. CASE parseTorrents
    BY <2>3 DEF parseTorrents, directory, tables, C!Next, C!Begin, C!PairsIn, PairsIn
  <2>4. CASE OpendirFails
    BY <2>4 DEF OpendirFails, directory, reading, C!Next, C!Unreadable, C!EmptyDicti, EmptyDicti
  <2> QED
    BY <1>2, <2>1, <2>2, <2>3, <2>4 DEF Timers
<1>3. CASE Parse
  <2>1. CASE Readdir
    BY <2>1 DEF Readdir, directory, tables, C!vars
  <2>2. ASSUME NEW w \in Write, ParseFile(w)
        PROVE  C!Next \/ UNCHANGED C!vars
    <3>1. dp \in File
      BY <2>2 DEF ParseFile
    <3> QED
      BY <2>2, <3>1, ParseFileRefines DEF C!Next
  <2>3. CASE EndParse
    BY <2>3, EndParseRefines DEF C!Next
  <2>4. CASE PassOver
    BY <2>4 DEF PassOver, directory, tables, C!vars
  <2> QED
    BY <1>3, <2>1, <2>2, <2>3, <2>4 DEF Parse
<1>4. ASSUME NEW f \in File, NEW c \in Content, PutFile(f, c)
      PROVE  C!Next
  BY <1>4, PutFileRefines DEF C!Next
<1>5. CASE Restart
  BY <1>5, RestartRefines DEF C!Next
<1>6. CASE UNCHANGED vars
  BY <1>6 DEF vars, C!vars
<1> QED
  BY <1>1, <1>2, <1>3, <1>4, <1>5, <1>6 DEF Next

\* A parse interleaved with requests makes the list a reader of the directory is
\* promised: every step is a step of the catalogue, or none.
THEOREM CatalogImplemented == Spec => ImplementsCatalog
<1> QED
  BY InitRefines, NextRefines, AlwaysInv, PTL DEF Spec, C!Spec, ImplementsCatalog
=============================================================================
