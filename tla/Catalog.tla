------------------------------ MODULE Catalog ------------------------------
(***************************************************************************)
(* What the allowed directory promises, whoever reads it and however long  *)
(* that takes: torrents are listed under their info hash, files may come   *)
(* and go while the directory is being read, and the list that results     *)
(*   - names only files that were there, with that torrent in them, at     *)
(*     some moment of the reading, and                                     *)
(*   - has every torrent whose file was there during the whole reading.    *)
(* How the list is put together, and everything else the tracker keeps of  *)
(* a torrent, is left to the implementation (Torrents).                    *)
(***************************************************************************)
EXTENDS Dicti

CONSTANTS
  File,     \* names
  Hash,     \* torrents, by info hash
  Named     \* the torrents that can be listed

VARIABLES
  dir,      \* the files and the torrent in each
  list,     \* the torrents listed and the file of each
  reading,  \* a new list is being made
  kept,     \* files that have been there since it was begun
  seen      \* <<file, torrent>> pairs there have been since

vars == <<dir, list, reading, kept, seen>>

PairsIn(d) == {<<f, d[f]>> : f \in DOMAIN d}

Seen == seen' = IF reading THEN seen \cup PairsIn(dir') ELSE seen

IsListOf(l, pairs) == \A h \in DOMAIN l : h \in Named /\ <<l[h], h>> \in pairs

HasAll(l, d, files) == \A f \in files : d[f] \in Named => d[f] \in DOMAIN l

\* A file comes, and may be listed at once.
Add(f) ==
  /\ f \notin DOMAIN dir
  /\ DOMAIN dir' = DOMAIN dir \cup {f}
  /\ \A g \in DOMAIN dir : dir'[g] = dir[g]
  /\ \/ list' = list
     \/ dir'[f] \in Named /\ list' = setItem(list, dir'[f], f)
  /\ Seen
  /\ UNCHANGED <<reading, kept>>

\* A torrent is taken off the list, with the file it is listed with.
Delete(h) ==
  /\ h \in DOMAIN list
  /\ list' = delItem(list, h)
  /\ dir' = delItem(dir, list[h])
  /\ kept' = kept \ {list[h]}
  /\ UNCHANGED <<reading, seen>>

\* A file with no torrent that could be listed goes.
Discard(f) ==
  /\ f \in DOMAIN dir
  /\ dir[f] \notin Named
  /\ dir' = delItem(dir, f)
  /\ kept' = kept \ {f}
  /\ UNCHANGED <<list, reading, seen>>

Begin ==
  /\ ~reading
  /\ reading' = TRUE
  /\ kept' = DOMAIN dir
  /\ seen' = PairsIn(dir)
  /\ UNCHANGED <<dir, list>>

End ==
  /\ reading
  /\ IsListOf(list', seen)
  /\ HasAll(list', dir, kept)
  /\ reading' = FALSE
  /\ kept' = {}
  /\ seen' = {}
  /\ UNCHANGED dir

\* The directory could not be opened: nothing is listed.
Unreadable ==
  /\ ~reading
  /\ list' = EmptyDicti
  /\ UNCHANGED <<dir, reading, kept, seen>>

\* A start lists what is there, and may discard what cannot be listed.
Start ==
  /\ \A f \in DOMAIN dir' : f \in DOMAIN dir /\ dir'[f] = dir[f]
  /\ \A f \in DOMAIN dir : dir[f] \in Named => f \in DOMAIN dir'
  /\ IsListOf(list', PairsIn(dir'))
  /\ HasAll(list', dir', DOMAIN dir')
  /\ reading' = FALSE
  /\ kept' = {}
  /\ seen' = {}

Init ==
  /\ IsListOf(list, PairsIn(dir))
  /\ HasAll(list, dir, DOMAIN dir)
  /\ reading = FALSE
  /\ kept = {}
  /\ seen = {}

Next ==
  \/ \E f \in File : Add(f) \/ Discard(f)
  \/ \E h \in Hash : Delete(h)
  \/ Begin
  \/ End
  \/ Unreadable
  \/ Start

Spec == Init /\ [][Next]_vars
=============================================================================
