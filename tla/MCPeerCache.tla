---------------------------- MODULE MCPeerCache ----------------------------
(* PeerCache on small instances: peers are interchangeable.                *)
EXTENDS PeerCache, TLC

Peers == Permutations(Peer)

\* One peer, and more than max_give by way of the unsigned conversion.
Wanted == {1, -1}
=============================================================================
