------------------------------ MODULE MCPeerFSM ------------------------------
(* PeerFSM for TLC: two addresses, of which the coordinator knows one.       *)
EXTENDS PeerFSM

CONSTANTS a1, a2

MCAddr   == {a1, a2}
MCOffers == {{}, {a1}}
=============================================================================
