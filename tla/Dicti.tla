------------------------------- MODULE Dicti -------------------------------
(***************************************************************************)
(* CAtomDicti, the string-keyed map every table of the tracker is built    *)
(* from (atom.cpp).  A dictionary is a function whose DOMAIN is the set of *)
(* keys present; getItem returning NULL is "the key is not in DOMAIN".     *)
(***************************************************************************)

\* d is a dictionary from some of the keys in K to values in V.
IsDicti(d, K, V) == DOMAIN d \subseteq K /\ d \in [DOMAIN d -> V]

\* d is a dictionary, keyed by K, of dictionaries from keys in L to V.
IsTable(d, K, L, V) ==
  /\ DOMAIN d \subseteq K
  /\ d = [k \in DOMAIN d |-> d[k]]
  /\ \A k \in DOMAIN d : IsDicti(d[k], L, V)

\* new CAtomDicti( )
EmptyDicti == [k \in {} |-> k]

isEmpty(d) == DOMAIN d = {}

\* The two-argument getItem: the value under k, or dflt.
getItem(d, k, dflt) == IF k \in DOMAIN d THEN d[k] ELSE dflt

setItem(d, k, v) == [j \in DOMAIN d \cup {k} |-> IF j = k THEN v ELSE d[j]]

delItem(d, k) == [j \in DOMAIN d \ {k} |-> d[j]]

\* The iterator loops that erase every entry failing a test: keep keys in S.
keepItems(d, S) == [j \in DOMAIN d \cap S |-> d[j]]
=============================================================================
