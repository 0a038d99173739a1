--------------------------- MODULE DeliveryProofs ---------------------------
(***************************************************************************)
(* A redelivered, repeated or reordered request never re-enters the        *)
(* signer's pending queue, whatever the number of messages, the batch size *)
(* and the faults; and no message leaves the mailbox without an outcome.   *)
(*                                                                         *)
(* EnqueuedOnceInOrder is about one step.  It follows from where the       *)
(* replay guard stands: everything enqueued is at or below maxSeen, and a  *)
(* message being handled IS maxSeen and has not been enqueued.             *)
(***************************************************************************)
EXTENDS Delivery, TLAPS

QueueTyped ==
    /\ maxSeen \in Nat
    /\ enqueued \in [Messages -> Nat]

PulledAreMessages ==
    /\ \A x \in batch : x.msg \in Messages
    /\ pc \in {"validate", "seq", "handle", "ack"} => cur.msg \in Messages

EnqueuedIsSeen == \A n \in Messages : enqueued[n] > 0 => n <= maxSeen

HandlesNewest == pc = "handle" => cur.msg = maxSeen /\ enqueued[maxSeen] = 0

IInv == QueueTyped /\ PulledAreMessages /\ EnqueuedIsSeen /\ HandlesNewest

(* The signer's tables start empty.                                        *)
LEMMA IInvInit == Init => IInv
  BY DEF Init, IInv, QueueTyped, PulledAreMessages, EnqueuedIsSeen, HandlesNewest

(* Every step of the sender, the mailbox and the signer keeps IInv.        *)
LEMMA IInvInductive == IInv /\ [Next]_vars => IInv'
<1> SUFFICES ASSUME IInv, [Next]_vars PROVE IInv'
  OBVIOUS
<1> USE DeliveryConstants DEF IInv, QueueTyped, PulledAreMessages, EnqueuedIsSeen, HandlesNewest
<1>1. CASE UNCHANGED signerVars
  BY <1>1 DEF signerVars
<1>2. ASSUME Pull PROVE IInv'
  BY <1>2 DEF Pull, PullableBatches, Held
<1>3. ASSUME TakeNext PROVE IInv'
  BY <1>3 DEF TakeNext
<1>3a. ASSUME ValidateEnvelope PROVE IInv'
  BY <1>3a DEF ValidateEnvelope, Refuses, Failed
<1>4. ASSUME RecordIncomingSeq PROVE IInv'
  <2>1. CASE SeqIsNew(cur.msg) /\ maxSeen' = cur.msg /\ pc' = "handle"
    <3>1. cur.msg \in Messages /\ cur.msg \in Nat /\ cur.msg > maxSeen
      BY <1>4, <2>1 DEF RecordIncomingSeq, SeqIsNew
    <3>2. UNCHANGED <<batch, cur, enqueued>>
      BY <1>4 DEF RecordIncomingSeq
    <3>3. enqueued[cur.msg] = 0
      BY <3>1
    <3>4. EnqueuedIsSeen'
      BY <2>1, <3>1, <3>2
    <3> QED
      BY <2>1, <3>1, <3>2, <3>3, <3>4
  <2>2. CASE UNCHANGED maxSeen /\ pc' \in {"ack", "next"}
    BY <1>4, <2>2 DEF RecordIncomingSeq
  <2> QED
    BY <1>4, <2>1, <2>2 DEF RecordIncomingSeq, Failed
<1>5. ASSUME HandleTxSignReq PROVE IInv'
  <2>1. cur.msg \in Messages /\ cur.msg = maxSeen /\ pc' # "handle" /\ UNCHANGED <<batch, cur, maxSeen>>
    BY <1>5 DEF HandleTxSignReq, Refuses, Failed
  <2>2. CASE enqueued' = [enqueued EXCEPT ![cur.msg] = @ + 1]
    BY <2>1, <2>2
  <2>3. CASE UNCHANGED enqueued
    BY <2>1, <2>3
  <2> QED
    BY <1>5, <2>2, <2>3 DEF HandleTxSignReq
<1>6. ASSUME Ack \/ AckFails PROVE IInv'
  BY <1>6 DEF Ack, AckFails
<1>7. ASSUME Crash PROVE IInv'
  BY <1>7 DEF Crash
<1>8. ASSUME NEW m \in Messages, PushAttempt(m) \/ PushGivesUp(m) \/ TtlExpires(m)
      PROVE  UNCHANGED signerVars
  BY <1>8 DEF PushAttempt, PushGivesUp, TtlExpires, signerVars
<1>9. ASSUME NextOutSeq PROVE UNCHANGED signerVars
  BY <1>9 DEF NextOutSeq
<1>10. ASSUME UNCHANGED vars PROVE UNCHANGED signerVars
  BY <1>10 DEF vars
<1> QED
  BY <1>1, <1>2, <1>3, <1>3a, <1>4, <1>5, <1>6, <1>7, <1>8, <1>9, <1>10 DEF Next, SignerStep

LEMMA IInvAlways == Spec => []IInv
  BY IInvInit, IInvInductive, PTL DEF Spec

(* Only handle_tx_sign_req enqueues, and only the newest seq.              *)
LEMMA EnqueueStep ==
    ASSUME IInv, [Next]_vars
    PROVE  [\A m \in Messages : enqueued'[m] > enqueued[m] =>
                \A n \in Messages : n >= m => enqueued[n] = 0]_vars
<1> USE DeliveryConstants DEF IInv, QueueTyped, PulledAreMessages, EnqueuedIsSeen, HandlesNewest
<1>1. CASE enqueued' = enqueued
  BY <1>1
<1>2. CASE HandleTxSignReq
  <2> SUFFICES ASSUME NEW m \in Messages, enqueued'[m] > enqueued[m],
                      NEW n \in Messages, n >= m
               PROVE  enqueued[n] = 0
    OBVIOUS
  <2>1. m = cur.msg /\ cur.msg = maxSeen /\ enqueued[maxSeen] = 0
    BY <1>2 DEF HandleTxSignReq
  <2>2. n = maxSeen \/ n > maxSeen
    BY <2>1
  <2> QED
    BY <2>1, <2>2
<1>3. HandleTxSignReq \/ enqueued' = enqueued
  BY DEF Next, vars, senderVars, boxVars, signerVars, NextOutSeq, PushAttempt, PushGivesUp,
         TtlExpires, SignerStep, Pull, TakeNext, ValidateEnvelope,
         RecordIncomingSeq, Ack, AckFails, Crash
<1> QED
  BY <1>1, <1>2, <1>3

(* A request is enqueued at most once and never after a later one: the     *)
(* replay guard of record_incoming_seq, for any stream, batch and faults.  *)
THEOREM RequestsEnqueuedOnceInOrder == Spec => EnqueuedOnceInOrder
<1>1. IInv /\ [Next]_vars =>
        [\A m \in Messages : enqueued'[m] > enqueued[m] =>
             \A n \in Messages : n >= m => enqueued[n] = 0]_vars
  BY EnqueueStep
<1> QED
  BY <1>1, IInvAlways, PTL DEF Spec, EnqueuedOnceInOrder

-----------------------------------------------------------------------------
(* An ack follows the outcome.  The message of the newest committed seq is *)
(* accounted for: it is in hand, or the signer is done with it, or its     *)
(* handling was cut short; so a replay of it may be acknowledged.          *)
Settled(m) == Done(m) \/ m \in cutShort

NewestAccounted ==
    \A m \in Messages : m = maxSeen => Settled(m) \/ (pc = "handle" /\ cur.msg = m)

AcksSettled == pc = "ack" => Settled(cur.msg)

RemovedSettled == \A m \in removed : m \in Messages /\ Settled(m)

AckInv == NewestAccounted /\ AcksSettled /\ RemovedSettled

LEMMA AckInvInit == Init => AckInv
  BY DeliveryConstants DEF Init, AckInv, NewestAccounted, AcksSettled, RemovedSettled

(* The outcomes of a message are never taken back.                         *)
LEMMA SettledStays ==
    ASSUME IInv, [Next]_vars, NEW m \in Messages, Settled(m)
    PROVE  Settled(m)'
<1> USE DeliveryConstants DEF IInv, QueueTyped, PulledAreMessages, Settled, Done
<1>1. CASE UNCHANGED <<maxSeen, enqueued, refused, cutShort>>
  BY <1>1
<1>2. CASE ValidateEnvelope
  BY <1>2 DEF ValidateEnvelope, Refuses
<1>3. CASE RecordIncomingSeq
  <2>1. maxSeen' = maxSeen \/ (maxSeen' = cur.msg /\ cur.msg > maxSeen /\ cur.msg \in Nat)
    BY <1>3 DEF RecordIncomingSeq, SeqIsNew
  <2>2. UNCHANGED <<enqueued, refused, cutShort>>
    BY <1>3 DEF RecordIncomingSeq
  <2> QED
    BY <2>1, <2>2
<1>4. CASE HandleTxSignReq
  <2>1. maxSeen' = maxSeen /\ refused \subseteq refused' /\ cutShort \subseteq cutShort'
    BY <1>4 DEF HandleTxSignReq, Refuses
  <2>2. enqueued' = enqueued \/ enqueued' = [enqueued EXCEPT ![cur.msg] = @ + 1]
    BY <1>4 DEF HandleTxSignReq
  <2>3. enqueued[m] > 0 => enqueued'[m] > 0
    BY <2>2
  <2> QED
    BY <2>1, <2>3
<1>5. CASE Crash
  BY <1>5 DEF Crash
<1>6. ASSUME NEW k \in Messages, PushAttempt(k) \/ PushGivesUp(k) \/ TtlExpires(k)
      PROVE  UNCHANGED <<maxSeen, enqueued, refused, cutShort>>
  BY <1>6 DEF PushAttempt, PushGivesUp, TtlExpires, signerVars
<1>7. ASSUME NextOutSeq \/ UNCHANGED vars \/ Pull \/ TakeNext \/ Ack \/ AckFails
      PROVE  UNCHANGED <<maxSeen, enqueued, refused, cutShort>>
  BY <1>7 DEF NextOutSeq, vars, signerVars, Pull, TakeNext, Ack, AckFails
<1> QED
  BY <1>1, <1>2, <1>3, <1>4, <1>5, <1>6, <1>7 DEF Next, SignerStep

(* Every step keeps AckInv.                                                *)
LEMMA AckInvInductive ==
    ASSUME IInv, AckInv, [Next]_vars
    PROVE  AckInv'
<1> USE DeliveryConstants
        DEF AckInv, NewestAccounted, AcksSettled, RemovedSettled, IInv, QueueTyped,
            PulledAreMessages
<1>1. \A m \in Messages : Settled(m) => Settled(m)'
  BY SettledStays
<1>2. ASSUME UNCHANGED <<maxSeen, removed>>,
             pc' \notin {"handle", "ack"}, pc # "handle"
      PROVE  AckInv'
  BY <1>1, <1>2
<1>3. CASE UNCHANGED signerVars
  BY <1>1, <1>3 DEF signerVars
<1>4. CASE Pull \/ TakeNext \/ AckFails
  BY <1>2, <1>4 DEF Pull, TakeNext, AckFails
<1>5. CASE ValidateEnvelope
  <2>1. pc' = "ack" => Settled(cur.msg)'
    BY <1>5 DEF ValidateEnvelope, Refuses, Failed, ShouldAck, Settled, Done
  <2>2. UNCHANGED <<maxSeen, removed, cur>> /\ pc = "validate" /\ pc' # "handle"
    BY <1>5 DEF ValidateEnvelope, Refuses, Failed
  <2> QED
    BY <1>1, <2>1, <2>2
<1>6. CASE RecordIncomingSeq
  <2>1. UNCHANGED <<removed, cur, enqueued, refused, cutShort>> /\ pc = "seq" /\ cur.msg \in Messages
    BY <1>6 DEF RecordIncomingSeq
  <2>2. CASE maxSeen' = cur.msg /\ pc' = "handle"
    BY <1>1, <2>1, <2>2
  <2>3. CASE ~SeqIsNew(cur.msg) /\ maxSeen' = maxSeen /\ pc' = "ack"
    <3>a. cur.msg \in Nat /\ maxSeen \in Nat /\ ~(cur.msg > maxSeen)
      BY <2>1, <2>3 DEF SeqIsNew
    <3>1. cur.msg = maxSeen \/ cur.msg < maxSeen
      BY <3>a
    <3>2. Settled(cur.msg)
      BY <2>1, <3>1 DEF Settled, Done
    <3> QED
      BY <1>1, <2>1, <2>3, <3>2
  <2>4. CASE maxSeen' = maxSeen /\ pc' = "next"
    BY <1>2, <2>1, <2>4
  <2> QED
    BY <1>6, <2>2, <2>3, <2>4 DEF RecordIncomingSeq, Failed, ShouldAck
<1>7. CASE HandleTxSignReq
  <2>1. /\ UNCHANGED <<removed, cur, maxSeen>> /\ pc = "handle" /\ pc' # "handle"
        /\ cur.msg \in Messages
    BY <1>7 DEF HandleTxSignReq, Refuses, Failed
  <2>a. \/ enqueued' = [enqueued EXCEPT ![cur.msg] = @ + 1]
        \/ cur.msg \in refused'
        \/ cur.msg \in cutShort'
    BY <1>7 DEF HandleTxSignReq, Refuses
  <2>b. enqueued' = [enqueued EXCEPT ![cur.msg] = @ + 1] => enqueued'[cur.msg] > 0
    <3>1. enqueued \in [Messages -> Nat] /\ cur.msg \in Messages
      BY <2>1
    <3>2. ASSUME NEW n \in Nat PROVE n + 1 > 0
      OBVIOUS
    <3>3. enqueued[cur.msg] \in Nat
      BY <3>1
    <3> QED
      BY <3>1, <3>2, <3>3
  <2>2. Settled(cur.msg)'
    BY <2>1, <2>a, <2>b DEF Settled, Done
  <2> QED
    BY <1>1, <2>1, <2>2
<1>8. CASE Ack
  <2>1. /\ removed' \subseteq removed \cup {cur.msg} /\ pc = "ack" /\ pc' = "next"
        /\ UNCHANGED maxSeen
    BY <1>8 DEF Ack
  <2> QED
    BY <1>1, <2>1
<1>9. CASE Crash
  <2>1. UNCHANGED <<removed, maxSeen>> /\ pc' = "pull" /\ (pc = "handle" => cur.msg \in cutShort')
    BY <1>9 DEF Crash
  <2>2. \A m \in Messages : pc = "handle" /\ m = cur.msg => Settled(m)'
    BY <2>1 DEF Settled
  <2> QED
    BY <1>1, <2>1, <2>2
<1>10. ASSUME NEW k \in Messages, PushAttempt(k) \/ PushGivesUp(k) \/ TtlExpires(k)
       PROVE  UNCHANGED signerVars
  BY <1>10 DEF PushAttempt, PushGivesUp, TtlExpires
<1>11. ASSUME NextOutSeq \/ UNCHANGED vars PROVE UNCHANGED signerVars
  BY <1>11 DEF NextOutSeq, vars
<1> QED
  BY <1>3, <1>4, <1>5, <1>6, <1>7, <1>8, <1>9, <1>10, <1>11 DEF Next, SignerStep

(* The signer's ack deletes a message only after its outcome: it was       *)
(* enqueued, refused, overtaken, or cut short once its seq was committed.  *)
THEOREM AcksFollowOutcomes == Spec => []AckedIsDone
<1>1. IInv /\ AckInv /\ [Next]_vars => AckInv'
  BY AckInvInductive
<1>2. AckInv => AckedIsDone
  BY DEF AckInv, RemovedSettled, Settled, AckedIsDone
<1> QED
  BY <1>1, <1>2, AckInvInit, IInvAlways, PTL DEF Spec
=============================================================================
