----------------------------- MODULE MCDelivery ----------------------------
(* Delivery instantiated for TLC; the configurations give every constant.  *)
EXTENDS Delivery
=============================================================================
