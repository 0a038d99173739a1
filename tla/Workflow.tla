------------------------------ MODULE Workflow -----------------------------
(***************************************************************************)
(* One escrow in the orchestrator's database: the workflow state machine   *)
(* of flow.rs and the operations of db.rs that write the escrow's steps,   *)
(* outbox, dead letters, inbox offsets, proposal and quorum proofs.        *)
(*                                                                         *)
(* Every operation is one immediate transaction, so it is one action; the  *)
(* callers may call anything in any order.  A call refused before it       *)
(* writes (unknown participant, wrong msg_type, invalid hex) is no action. *)
(***************************************************************************)
EXTENDS Naturals, FiniteSets

CONSTANTS
    Participants,   \* allowlisted participant ids
    StepStates,     \* states callers record steps for, a subset of States
    Seqs,           \* sequence numbers of inbound messages
    Payloads,       \* payload hashes
    Items,          \* outbox idempotency keys
    ItemState,      \* ItemState[i]: the state item i belongs to
    DeadLetterAfter,\* dead_letter_after_attempts, before the max(1)
    MaxAttempts,    \* bound: attempts of one item
    Txsets, Jtis, ReqIds,
    None

Roles == {"buyer", "seller", "arbiter"}

Path == <<"new", "prepare_collected", "make_collected", "exchange_r1_collected",
          "exchange_r2_collected", "finalized_ready", "funded", "tx_sign_pending",
          "tx_signed_quorum", "submitted", "confirmed">>
Failed == "failed_dead_letter"
States == {Path[k] : k \in 1 .. 11} \cup {Failed}

(* Rows of the outbox.                                                     *)
OutboxRows ==
    [status : {"pending", "sent", "acked", "dead_letter"}, attempts : 0 .. MaxAttempts]

ASSUME WorkflowConstants ==
    /\ StepStates \subseteq States
    /\ Seqs \subseteq Nat \ {0}
    /\ ItemState \in [Items -> States]
    /\ DeadLetterAfter \in Nat
    /\ MaxAttempts \in Nat
    /\ None \notin Txsets \cup States \cup OutboxRows

VARIABLES
    state,        \* workflow_instances.state; None before create_workflow
    steps,        \* workflow_steps, all 'accepted'
    outbox,       \* outbox rows by idempotency key; None when absent
    deadLetters,  \* dead_letters
    offset,       \* inbox_offsets.last_seq of each participant
    proposal,     \* proposal_blobs.txset_hash_hex, or None
    proofs        \* quorum_sign_proofs

workflowVars == <<state, steps, outbox, deadLetters, offset, proposal, proofs>>

StepConflict(s) == [stage |-> "step_record", step |-> s]
Undelivered(i, n) == [stage |-> "outbox_delivery", item |-> i, attempts |-> n]

WorkflowInit ==
    /\ state = None
    /\ steps = {}
    /\ outbox = [i \in Items |-> None]
    /\ deadLetters = {}
    /\ offset = [p \in Participants |-> 0]
    /\ proposal = None
    /\ proofs = {}

-----------------------------------------------------------------------------
CanTransitionTo(from, to) ==
    \/ \E k \in 1 .. 10 : from = Path[k] /\ to = Path[k + 1]
    \/ from \notin {"confirmed", Failed} /\ to = Failed

CreateWorkflow ==
    /\ state = None
    /\ state' = "new"
    /\ UNCHANGED <<steps, outbox, deadLetters, offset, proposal, proofs>>

TransitionWorkflow(to) ==
    /\ state # None
    /\ CanTransitionTo(state, to)
    /\ state' = to
    /\ UNCHANGED <<steps, outbox, deadLetters, offset, proposal, proofs>>

(* A step or an outbox item belongs to the current state or the next.      *)
Admits(s) == state # None /\ (state = s \/ CanTransitionTo(state, s))

-----------------------------------------------------------------------------
SameKey(s, t) == s.state = t.state /\ s.from = t.from /\ s.seq = t.seq

(* Mutated form: a conflicting payload replaces the recorded one.          *)
OverwriteRecorded(s) ==
    /\ steps' = {t \in steps : ~SameKey(s, t)} \cup {s}
    /\ UNCHANGED deadLetters

(* A duplicate is a success without effect; another payload under the same *)
(* key is dead-lettered and the call fails.                                *)
RecordUnderKey(s) ==
    IF \E t \in steps : SameKey(s, t)
      THEN /\ deadLetters' = deadLetters \cup (IF s \in steps THEN {} ELSE {StepConflict(s)})
           /\ UNCHANGED steps
      ELSE /\ steps' = steps \cup {s}
           /\ UNCHANGED deadLetters

RecordStep(s) ==
    /\ Admits(s.state)
    /\ RecordUnderKey(s)
    /\ UNCHANGED <<state, outbox, offset, proposal, proofs>>

-----------------------------------------------------------------------------
(* Enqueueing an item that is there already is a success without effect.   *)
EnqueueOutbox(i) ==
    /\ Admits(ItemState[i])
    /\ outbox[i] = None
    /\ outbox' = [outbox EXCEPT ![i] = [status |-> "pending", attempts |-> 0]]
    /\ UNCHANGED <<state, steps, deadLetters, offset, proposal, proofs>>

Has(i, statuses) == outbox[i] # None /\ outbox[i].status \in statuses

MarkOutboxSent(i) ==
    /\ Has(i, {"pending", "sent"})
    /\ outbox[i].attempts < MaxAttempts
    /\ outbox' = [outbox EXCEPT ![i] = [status |-> "sent", attempts |-> @.attempts + 1]]
    /\ UNCHANGED <<state, steps, deadLetters, offset, proposal, proofs>>

Ackable(i) == Has(i, {"pending", "sent"})

MarkOutboxAcked(i) ==
    /\ Ackable(i)
    /\ outbox' = [outbox EXCEPT ![i].status = "acked"]
    /\ UNCHANGED <<state, steps, deadLetters, offset, proposal, proofs>>

(* dead_letter_after_attempts.max(1)                                       *)
Exhausted(n) == n >= DeadLetterAfter /\ n >= 1

(* Mutated form: only the row's status is changed.                         *)
DeadLetterUnrecorded(i, n) == deadLetters

DeadLetter(i, n) == deadLetters \cup {Undelivered(i, n)}

MarkOutboxRetry(i) ==
    LET n == outbox[i].attempts + 1 IN
    /\ Has(i, {"pending", "sent"})
    /\ outbox[i].attempts < MaxAttempts
    /\ IF Exhausted(n)
         THEN /\ outbox' = [outbox EXCEPT ![i] = [status |-> "dead_letter", attempts |-> n]]
              /\ deadLetters' = DeadLetter(i, n)
         ELSE /\ outbox' = [outbox EXCEPT ![i] = [status |-> "pending", attempts |-> n]]
              /\ UNCHANGED deadLetters
    /\ UNCHANGED <<state, steps, offset, proposal, proofs>>

AdvanceInboxOffset(p, seq) ==
    /\ seq > offset[p]
    /\ offset' = [offset EXCEPT ![p] = seq]
    /\ UNCHANGED <<state, steps, outbox, deadLetters, proposal, proofs>>

-----------------------------------------------------------------------------
ProofStates == {"funded", "tx_sign_pending", "tx_signed_quorum", "submitted"}
ProposalStates == {"funded", "tx_sign_pending", "tx_signed_quorum"}

UpsertProposalBlob(t) ==
    /\ state \in ProposalStates
    /\ proposal' = t
    /\ UNCHANGED <<state, steps, outbox, deadLetters, offset, proofs>>

SameProofKey(p, q) == p.role = q.role /\ p.txset = q.txset

(* The primary key decides which row is replaced; UNIQUE(req_id) refuses a *)
(* request that another row holds.                                         *)
UpsertQuorumSignProof(p) ==
    /\ state \in ProofStates
    /\ \A q \in proofs : q.req = p.req => SameProofKey(p, q)
    /\ proofs' = {q \in proofs : ~SameProofKey(p, q)} \cup {p}
    /\ UNCHANGED <<state, steps, outbox, deadLetters, offset, proposal>>

-----------------------------------------------------------------------------
WorkflowNext ==
    \/ CreateWorkflow
    \/ \E to \in States : TransitionWorkflow(to)
    \/ \E st \in StepStates, p \in Participants, n \in Seqs, h \in Payloads :
           RecordStep([state |-> st, from |-> p, seq |-> n, payload |-> h])
    \/ \E i \in Items :
           \/ EnqueueOutbox(i) \/ MarkOutboxSent(i)
           \/ MarkOutboxAcked(i) \/ MarkOutboxRetry(i)
    \/ \E p \in Participants, n \in Seqs : AdvanceInboxOffset(p, n)
    \/ \E t \in Txsets : UpsertProposalBlob(t)
    \/ \E role \in Roles, t \in Txsets, j \in Jtis, q \in ReqIds :
           UpsertQuorumSignProof([role |-> role, txset |-> t, jti |-> j, req |-> q])

WorkflowSpec == WorkflowInit /\ [][WorkflowNext]_workflowVars

-----------------------------------------------------------------------------
(* What participants report stands and is in its place, in whatever order  *)
(* they call: the first payload under an idempotency key stays the only    *)
(* one and is never lost, no step is recorded for a stage beyond the one   *)
(* the workflow can enter next, and no proposal or signature proof before  *)
(* the escrow was funded.                                                  *)
StepsStand ==
    [][/\ steps \subseteq steps'
       /\ \A s, t \in steps' : SameKey(s, t) => s = t
       /\ \A s \in steps' : \A j, k \in 1 .. 11 :
              state' = Path[j] /\ s.state = Path[k] => k <= j + 1
       /\ proposal' # None \/ proofs' # {} =>
              state' \in {Path[k] : k \in 7 .. 11} \cup {Failed}]_workflowVars

(* An item is dead-lettered exactly when the operator has a record of it,  *)
(* with the number of attempts; neither a late ack nor a late retry takes  *)
(* it back.                                                                *)
DeadLetterOnRecord ==
    \A i \in Items :
        Has(i, {"dead_letter"}) <=> \E n \in 1 .. MaxAttempts : Undelivered(i, n) \in deadLetters
=============================================================================
