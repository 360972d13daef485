------------------------------- MODULE Roster -------------------------------
(***************************************************************************)
(* What a tracker promises those who announce: a roster of the members of  *)
(* every swarm, where a member is a torrent and a peer of it.  Who is      *)
(* heard of is on it, with the address it was last heard from; who leaves  *)
(* is off it; and nobody else comes, goes or moves by that.  The tracker   *)
(* takes a member off unasked only after more than Timeout seconds of      *)
(* silence, and no member stays silent for more than Patience seconds.     *)
(* A tracker that starts again starts with what it stored of its roster,   *)
(* all or a part, in which one address at most is lost.                    *)
(* How silence is found out, what else is kept of a member and how the     *)
(* roster is stored is left to the implementation (Swarm).                 *)
(***************************************************************************)
EXTENDS Integers, Dicti

CONSTANTS
  Hash, Peer, Address,
  Timeout,     \* seconds of silence every member is allowed
  Patience     \* seconds of silence no member outlasts

VARIABLES
  where,   \* member -> address it was last heard from
  heard,   \* member -> when that was
  time,
  stored   \* member -> address, as a start would find it

vars == <<where, heard, time, stored>>

Member == Hash \X Peer

Gone(S) ==
  /\ where' = keepItems(where, Member \ S)
  /\ heard' = keepItems(heard, Member \ S)

\* A member is heard of, for the first time or again.
Hear(m, address) ==
  /\ UNCHANGED <<time, stored>>
  /\ where' = setItem(where, m, address)
  /\ heard' = setItem(heard, m, time)

\* A member leaves.
Leave(m) ==
  /\ m \in DOMAIN where
  /\ UNCHANGED <<time, stored>>
  /\ Gone({m})

\* A torrent is withdrawn, with its members.
Withdraw(h) ==
  /\ UNCHANGED <<time, stored>>
  /\ Gone({m \in Member : m[1] = h})

\* s is a roster of which a part is left, and in that one address at most is lost.
IsPartOf(s, roster) ==
  /\ DOMAIN s \subseteq DOMAIN roster
  /\ \A m, n \in DOMAIN s : s[m] # roster[m] /\ s[n] # roster[n] => m = n

Store == UNCHANGED stored \/ IsPartOf(stored', where)

\* The roster may be stored, and then who was silent for too long may be taken off.
Upkeep ==
  /\ UNCHANGED time
  /\ \A m \in DOMAIN where \ DOMAIN where' : time - heard[m] > Timeout
  /\ Gone(DOMAIN where \ DOMAIN where')
  /\ Store

\* A second passes, unless a member would stay too long.
Tick ==
  /\ time' = time + 1
  /\ \A m \in DOMAIN where : time - heard[m] < Patience
  /\ UNCHANGED <<where, heard, stored>>

\* A start, after an end that may have left a part of what was being stored: time
\* begins anew, and everybody read back counts as heard of then.
Start ==
  /\ time' = 0
  /\ where' = stored'
  /\ heard' = [m \in DOMAIN stored' |-> 0]
  /\ Store

Init ==
  /\ where = EmptyDicti
  /\ heard = EmptyDicti
  /\ time = 0
  /\ stored = EmptyDicti

Next ==
  \/ Start
  \/ Tick
  \/ Upkeep
  \/ \E m \in Member : Leave(m) \/ \E address \in Address : Hear(m, address)
  \/ \E h \in Hash : Withdraw(h)

Spec == Init /\ [][Next]_vars
=============================================================================
