-------------------------- MODULE MCWalletRuntime --------------------------
(* WalletRuntime instantiated for TLC.                                     *)
EXTENDS WalletRuntime

CONSTANTS c1, c2

(* Escrows 1 and 3 fall on the same of the two ports.                      *)
TwoPorts == <<1, 2>>
=============================================================================
