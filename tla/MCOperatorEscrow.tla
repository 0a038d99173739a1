-------------------------- MODULE MCOperatorEscrow --------------------------
(* OperatorEscrow instantiated for TLC.                                    *)
EXTENDS OperatorEscrow, TLC

CONSTANTS n1, buyer, merchant, operator, stranger, i0, i1

MCSymmetry == Permutations(Parties) \cup Permutations(Indices)
=============================================================================
