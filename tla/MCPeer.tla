------------------------------ MODULE MCPeer ------------------------------
(* Peer instantiated for TLC.                                              *)
EXTENDS Peer, TLC

CONSTANTS c1, c2, c3, e1, e2, s1

Symm == Permutations(Calls) \cup Permutations(Escrows)
=============================================================================
