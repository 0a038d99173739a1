------------------------------ MODULE Delivery -----------------------------
(***************************************************************************)
(* One sender's stream of tx_sign_req envelopes for one escrow, through    *)
(* the mailbox, to the pending queue of a signer: send_body and            *)
(* process_envelope of agent/transport.rs, the run loop and its retries in *)
(* agent.rs, and the out_seq and incoming_seen tables of db.rs.            *)
(*                                                                         *)
(* The mailbox is the Relay, which module Mailbox implements; a lease that *)
(* ran out is a message handed out again.  A message is its seq.           *)
(***************************************************************************)
EXTENDS Relay

CONSTANTS
    PullMax,      \* pull_max: messages of one batch
    Faults,       \* enabled faults, a subset of FaultClasses
    MaxArrivals,  \* bound: envelopes accepted by the mailbox
    MaxIssued,    \* bound: receipts handed out
    MaxFailures   \* bound: failures of the signer's own steps

FaultClasses == {"push", "ack", "expire", "malformed", "storage", "transient", "crash"}

ASSUME DeliveryConstants ==
    /\ Messages \subseteq Nat \ {0}
    /\ PullMax \in Nat \ {0}
    /\ Faults \subseteq FaultClasses
    /\ {MaxArrivals, MaxIssued, MaxFailures} \subseteq Nat

VARIABLES
    outSeq,    \* sender: the out_seq row, last seq allocated
    pushing,   \* sender: seqs whose push is still being tried
    arrived,   \* mailbox: AUTOINCREMENT id of each message's row
    arrivals,  \* mailbox: rows inserted so far
    pc,        \* signer: what the run loop does next
    batch,     \* signer: pulled messages not looked at yet
    cur,       \* signer: the pulled message in hand
    maxSeen,   \* signer: MAX(seq) of incoming_seen
    enqueued,  \* signer: times each message was put into pending_tx_sign
    refused,   \* history: messages refused
    garbled,   \* history: messages that did not decrypt
    cutShort,  \* history: messages whose handling failed or was lost
    removed,   \* history: messages deleted by an ack
    failures   \* history: how many of the signer's steps failed

senderVars == <<outSeq, pushing>>
boxVars    == <<relayVars, arrived, arrivals>>
signerVars == <<pc, batch, cur, maxSeen, enqueued, refused, garbled, cutShort, removed, failures>>
vars       == <<senderVars, boxVars, signerVars>>

Pulled == [msg : Messages, receipt : Nat]
Nobody == [msg |-> 0, receipt |-> 0]

Init ==
    /\ RelayInit
    /\ outSeq = 0
    /\ pushing = {}
    /\ arrived = [m \in Messages |-> 0]
    /\ arrivals = 0
    /\ pc = "pull"
    /\ batch = {}
    /\ cur = Nobody
    /\ maxSeen = 0
    /\ enqueued = [m \in Messages |-> 0]
    /\ refused = {}
    /\ garbled = {}
    /\ cutShort = {}
    /\ removed = {}
    /\ failures = 0

-----------------------------------------------------------------------------
(* Sender.  next_out_seq commits before the first push attempt; sends of   *)
(* several seqs may be under way at once.                                  *)
NextOutSeq ==
    /\ outSeq + 1 \in Messages
    /\ outSeq' = outSeq + 1
    /\ pushing' = pushing \cup {outSeq + 1}
    /\ UNCHANGED <<boxVars, signerVars>>

(* A push attempt reaches the mailbox: it is stored unless it is there     *)
(* already.  If the answer is lost, the sender tries the same seq again.   *)
PushAttempt(m) ==
    /\ m \in pushing
    /\ pushing' \in {pushing \ {m}} \cup (IF "push" \in Faults THEN {pushing} ELSE {})
    /\ IF m \in Held
         THEN UNCHANGED boxVars
         ELSE /\ arrivals < MaxArrivals
              /\ Accept(m, {})
              /\ arrived' = [arrived EXCEPT ![m] = arrivals + 1]
              /\ arrivals' = arrivals + 1
    /\ UNCHANGED <<outSeq, signerVars>>

(* The last attempt failed: the seq stays allocated and is never used.     *)
PushGivesUp(m) ==
    /\ "push" \in Faults
    /\ m \in pushing
    /\ pushing' = pushing \ {m}
    /\ UNCHANGED <<outSeq, boxVars, signerVars>>

TtlExpires(m) ==
    /\ "expire" \in Faults
    /\ m \in Held
    /\ Expire({m})
    /\ UNCHANGED <<arrived, arrivals, senderVars, signerVars>>

-----------------------------------------------------------------------------
(* Signer: pull a batch, then handle its messages one by one.              *)

(* Mutated form: a row whose lease ran out is not offered again.           *)
NeverLeasedBatches ==
    {B \in SUBSET {m \in Held : box[m] = 0} : B # {} /\ Cardinality(B) <= PullMax}

(* ORDER BY id LIMIT pull_max over the rows without a running lease: rows  *)
(* never leased are surely among the candidates, the others may be.        *)
PullableBatches ==
    LET surely == {m \in Held : box[m] = 0} IN
    {B \in SUBSET Held :
        /\ B # {} /\ Cardinality(B) <= PullMax
        /\ \A n \in surely \ B : /\ Cardinality(B) = PullMax
                                 /\ \A m \in B : arrived[m] < arrived[n]}

Pull ==
    /\ pc = "pull"
    /\ \E B \in PullableBatches :
           /\ issued + Cardinality(B) <= MaxIssued
           /\ HandOut(B, {})
           /\ batch' = {[msg |-> m, receipt |-> box'[m]] : m \in B}
    /\ pc' = "next"
    /\ UNCHANGED <<arrived, arrivals, senderVars, cur, maxSeen, enqueued, refused, garbled, cutShort, removed, failures>>

TakeNext ==
    /\ pc = "next"
    /\ IF batch = {}
         THEN /\ pc' = "pull"
              /\ cur' = Nobody
              /\ UNCHANGED batch
         ELSE \E x \in batch :
                 /\ \A y \in batch : arrived[x.msg] <= arrived[y.msg]
                 /\ cur' = x
                 /\ batch' = batch \ {x}
                 /\ pc' = "validate"
    /\ UNCHANGED <<boxVars, senderVars, maxSeen, enqueued, refused, garbled, cutShort, removed, failures>>

(* Mutated form: every error is acked.                                     *)
AcksEveryError(error) ==
    error \in {"replay", "invalid", "malformed", "policy", "storage", "transient"}

(* should_ack_non_retryable_process_error: these errors are acked; after   *)
(* the others (an envelope that does not decrypt, a policy violation, a    *)
(* failing wallet or database) the message is left for its lease to run    *)
(* out.                                                                    *)
ShouldAck(error) == error \in {"replay", "invalid"}

Failed(error) == pc' = IF ShouldAck(error) THEN "ack" ELSE "next"

Refuses(error) ==
    /\ refused' = refused \cup {cur.msg}
    /\ Failed(error)

(* A step fails; each failure is one of a bounded number.                  *)
Fault(class) ==
    /\ class \in Faults
    /\ failures < MaxFailures
    /\ failures' = failures + 1

(* Addressee, suite, allowlist, decryption and payload binding, before the *)
(* replay guard.                                                           *)
ValidateEnvelope ==
    /\ pc = "validate"
    /\ \/ pc' = "seq" /\ UNCHANGED <<refused, garbled, failures>>
       \/ Refuses("invalid") /\ UNCHANGED <<garbled, failures>>
       \/ Fault("malformed") /\ Refuses("malformed") /\ garbled' = garbled \cup {cur.msg}
    /\ UNCHANGED <<boxVars, senderVars, batch, cur, maxSeen, enqueued, cutShort, removed>>

(* Mutated form: the last seq is accepted again.                           *)
SeqNotBehind(m) == m >= maxSeen

SeqIsNew(m) == m > maxSeen

(* The replay guard commits the seq before the message is handled.         *)
RecordIncomingSeq ==
    /\ pc = "seq"
    /\ \/ SeqIsNew(cur.msg) /\ maxSeen' = cur.msg /\ pc' = "handle" /\ UNCHANGED failures
       \/ ~SeqIsNew(cur.msg) /\ Failed("replay") /\ UNCHANGED <<maxSeen, failures>>
       \/ Fault("storage") /\ Failed("storage") /\ UNCHANGED maxSeen
    /\ UNCHANGED <<boxVars, senderVars, batch, cur, enqueued, refused, garbled, cutShort, removed>>

(* handle_tx_sign_req puts the request into the pending queue, refuses it, *)
(* or fails on the wallet or the database.                                 *)
HandleTxSignReq ==
    /\ pc = "handle"
    /\ \/ /\ enqueued' = [enqueued EXCEPT ![cur.msg] = @ + 1]
          /\ pc' = "ack"
          /\ UNCHANGED <<refused, cutShort, failures>>
       \/ /\ Refuses("invalid") \/ Refuses("policy")
          /\ UNCHANGED <<enqueued, cutShort, failures>>
       \/ /\ Fault("transient")
          /\ Failed("transient")
          /\ cutShort' = cutShort \cup {cur.msg}
          /\ UNCHANGED <<enqueued, refused>>
    /\ UNCHANGED <<boxVars, senderVars, batch, cur, maxSeen, garbled, removed>>

(* The ack deletes the message if the receipt is still its latest one; an  *)
(* unknown receipt or a failed ack is only logged.                         *)
Ack ==
    /\ pc = "ack"
    /\ IF cur.msg \in Held /\ box[cur.msg] = cur.receipt
         THEN Acknowledge(cur.msg) /\ removed' = removed \cup {cur.msg}
         ELSE UNCHANGED <<relayVars, removed>>
    /\ pc' = "next"
    /\ UNCHANGED <<arrived, arrivals, senderVars, batch, cur, maxSeen, enqueued, refused, garbled, cutShort, failures>>

AckFails ==
    /\ pc = "ack"
    /\ Fault("ack")
    /\ pc' = "next"
    /\ UNCHANGED <<boxVars, senderVars, batch, cur, maxSeen, enqueued, refused, garbled, cutShort, removed>>

(* The signer restarts; its tables stay.                                   *)
Crash ==
    /\ Fault("crash")
    /\ cutShort' = IF pc = "handle" THEN cutShort \cup {cur.msg} ELSE cutShort
    /\ pc' = "pull"
    /\ batch' = {}
    /\ cur' = Nobody
    /\ UNCHANGED <<boxVars, senderVars, maxSeen, enqueued, refused, garbled, removed>>

-----------------------------------------------------------------------------
SignerStep ==
    \/ Pull \/ TakeNext \/ ValidateEnvelope \/ RecordIncomingSeq
    \/ HandleTxSignReq \/ Ack

Next ==
    \/ NextOutSeq
    \/ \E m \in Messages : PushAttempt(m) \/ PushGivesUp(m) \/ TtlExpires(m)
    \/ SignerStep
    \/ AckFails
    \/ Crash

Spec == Init /\ [][Next]_vars

(* The signer's loop runs for ever, and leases run out.                    *)
FairSpec == Spec /\ WF_vars(SignerStep)

-----------------------------------------------------------------------------
(* A request enters the pending queue at most once and never after a later *)
(* one, whatever is redelivered, pushed again after its ack, or delivered  *)
(* out of order: enqueue_pending_tx would otherwise reset the status of a  *)
(* request already decided.                                                *)
EnqueuedOnceInOrder ==
    [][\A m \in Messages : enqueued'[m] > enqueued[m] =>
           \A n \in Messages : n >= m => enqueued[n] = 0]_vars

(* The signer is done with m: it was enqueued or refused, or a later seq   *)
(* had overtaken it.                                                       *)
Done(m) == enqueued[m] > 0 \/ m \in refused \/ m < maxSeen

(* A message leaves the mailbox by an ack only once the signer is done     *)
(* with it: it was enqueued, refused, or a later seq had overtaken it, or  *)
(* its handling was cut short after record_incoming_seq had committed the  *)
(* seq.                                                                    *)
AckedIsDone == \A m \in removed : Done(m) \/ m \in cutShort

(* Not a property of this code (see Further observations in the README): a *)
(* message whose handling failed on the wallet or the database, or was     *)
(* lost in a restart, is not acknowledged before it has been handled.      *)
TransientIsRetried == \A m \in removed : Done(m)

(* The mailbox drains: no message is redelivered for ever, except one that *)
(* does not decrypt, which stays until its TTL.                            *)
BoxDrains ==
    \A m \in Messages :
        m \in Held ~> m \notin Held \/ m \in garbled
=============================================================================
