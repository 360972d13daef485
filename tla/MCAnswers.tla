----------------------------- MODULE MCAnswers -----------------------------
(***************************************************************************)
(* PeerCache and FastCache on small instances.  Both read the peer         *)
(* database and neither reads the other, so that a behaviour is about the  *)
(* lists of one or about the numbers of the other, which stays as it began *)
(* meanwhile; each has bounds of its own.                                  *)
(***************************************************************************)
EXTENDS MCPeerCache, FastCache

CONSTANTS
  ListsTime,   \* bound: the clock, where lists are looked at; seeds in its first second
  MaxPeers     \* bound: peers tracked at a time, where numbers are looked at

VARIABLE about

PeersTracked == UNION {DOMAIN m_pDFile[h] : h \in DOMAIN m_pDFile}

SeedsTracked == UNION {Seeders(h) : h \in DOMAIN m_pDFile}

AnswersInit ==
  /\ CacheInit
  /\ FastInit
  /\ about \in {"lists", "numbers"}

Lists ==
  /\ about = "lists"
  /\ CacheNext
  /\ now' <= ListsTime
  /\ now' > 0 => SeedsTracked' = {}
  /\ UNCHANGED fastVars

AnswersNumbers ==
  /\ about = "numbers"
  /\ FastNext
  /\ Cardinality(PeersTracked') <= MaxPeers
  /\ UNCHANGED cacheVars

AnswersNext == (Lists \/ AnswersNumbers) /\ UNCHANGED about

AnswersSpec == AnswersInit /\ [][AnswersNext]_<<vars, cacheVars, fastVars, about>>
=============================================================================
