----------------------------- MODULE MCMembers -----------------------------
(* Members on small instances: admins with every right, posters, and       *)
(* guests who may look and sign up.                                        *)
EXTENDS Members, TLC

Poster == {"VIEW", "COMMENTS"}
Guest == {"VIEW", "SIGNUP"}

MCAccess == {Right, Poster}

Interchangeable == Permutations(Client) \cup Permutations(Pass)
=============================================================================
