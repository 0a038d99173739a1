------------------------------- MODULE Relay -------------------------------
(***************************************************************************)
(* What a store-and-forward mailbox promises its clients, whatever clocks  *)
(* and processes do: a message is held at most once, it is handed out only *)
(* under a receipt nobody had before, and it leaves the box only because   *)
(* it expired or because the holder of its LATEST receipt acknowledged it. *)
(***************************************************************************)
EXTENDS Integers, FiniteSets, Functions

CONSTANT Messages

VARIABLES
    box,     \* box[m]: Absent, or the latest receipt of m (0: never handed out)
    issued,  \* receipts handed out so far: 1 .. issued
    acks     \* receipts whose acknowledgement was accepted

relayVars == <<box, issued, acks>>

Absent == -1

RelayInit ==
    /\ box = [m \in Messages |-> Absent]
    /\ issued = 0
    /\ acks = {}

Held == {m \in Messages : box[m] # Absent}

(* The box after the messages of D expired.                                *)
Without(D) == [m \in Messages |-> IF m \in D THEN Absent ELSE box[m]]

Expire(D) ==
    /\ box' = Without(D)
    /\ UNCHANGED <<issued, acks>>

Accept(m, D) ==
    /\ m \notin Held \/ m \in D
    /\ box' = [Without(D) EXCEPT ![m] = 0]
    /\ UNCHANGED <<issued, acks>>

(* Each message of the batch gets a fresh receipt of its own.              *)
HandOut(batch, D) ==
    /\ batch # {}
    /\ issued' = issued + Cardinality(batch)
    /\ \E receipt \in Injection(batch, (issued + 1) .. issued') :
           box' = [m \in Messages |-> IF m \in batch THEN receipt[m] ELSE Without(D)[m]]
    /\ UNCHANGED acks

Acknowledge(m) ==
    /\ m \in Held
    /\ box[m] # 0
    /\ box' = [box EXCEPT ![m] = Absent]
    /\ acks' = acks \cup {box[m]}
    /\ UNCHANGED issued

RelayNext ==
    \E D \in SUBSET Held :
        \/ Expire(D)
        \/ \E m \in Messages : Accept(m, D)
        \/ \E batch \in SUBSET (Held \ D) : HandOut(batch, D)
        \/ D = {} /\ \E m \in Messages : Acknowledge(m)

RelaySpec == RelayInit /\ [][RelayNext]_relayVars
=============================================================================
