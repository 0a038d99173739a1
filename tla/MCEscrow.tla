------------------------------ MODULE MCEscrow -----------------------------
(* Escrow instantiated for TLC.                                            *)
EXTENDS Escrow, TLC

CONSTANTS i1, i2, a1, t1, t2, why1

Symm == Permutations(Infos) \cup Permutations(Txids)
=============================================================================
