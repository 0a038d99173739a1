--------------------------- MODULE MCSignerFlows ---------------------------
(* SignerFlows instantiated for TLC. *)
EXTENDS SignerFlows, TLC

CONSTANTS w1, w2, t1, t2, j1, j2, j3, s1

Symm == Permutations(Workers) \cup Permutations(Txsets) \cup Permutations(Jtis)
=============================================================================
