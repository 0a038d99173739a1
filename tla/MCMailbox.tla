----------------------------- MODULE MCMailbox -----------------------------
(* Mailbox instantiated for TLC: two pollers of one inbox, envelopes of    *)
(* several lengths, m3 with a character of two bytes, and a second inbox   *)
(* whose ack token must not match.                                         *)
EXTENDS Mailbox

CONSTANTS m1, m2, m3, i1, i2, p1, p2

MCInbox == [m \in Messages |-> i1]
MCCharLen == [m \in Messages |-> IF m = m1 THEN 1 ELSE 2]
MCByteLen == [m \in Messages |-> IF m = m1 THEN 1 ELSE IF m = m2 THEN 2 ELSE 3]
MCPollerInbox == [p \in Pollers |-> i1]
=============================================================================
