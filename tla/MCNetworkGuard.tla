--------------------------- MODULE MCNetworkGuard ---------------------------
(* NetworkGuard with small rates: one packet and one byte per tick for a     *)
(* peer, one packet and no metering of bytes for all peers together; peers   *)
(* and calling threads are interchangeable.                                  *)
EXTENDS NetworkGuard, TLC

CONSTANTS PeerPackets, PeerBytes, GlobalPackets, GlobalBytes

MCPeerRate   == [packets |-> PeerPackets, bytes |-> PeerBytes]
MCGlobalRate == [packets |-> GlobalPackets, bytes |-> GlobalBytes]
Symmetric    == Permutations(Peers) \cup Permutations(Callers)
=============================================================================
