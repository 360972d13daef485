------------------------------ MODULE MCSwarm ------------------------------
(* Swarm on small instances: torrents, peers and addresses each are        *)
(* interchangeable.                                                        *)
EXTENDS Swarm, TLC

Interchangeable ==
  Permutations(Hash) \cup Permutations(Peer) \cup Permutations(IP)
=============================================================================
