---------------------------- MODULE MCHostTrust ----------------------------
(* HostTrust instantiated for TLC.                                         *)
EXTENDS HostTrust, TLC

CONSTANTS g1, g2, sig, iss

MCMaxKeys == [o \in Owners |-> IF o \in {g1, iss} THEN 2 ELSE 1]
=============================================================================
