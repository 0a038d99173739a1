-------------------------- MODULE PendingDecisions -------------------------
(***************************************************************************)
(* The operator's decision on a queued tx_sign_req: approve_pending and    *)
(* reject_pending of agent/pending.rs.  Each runs in a CLI process of its  *)
(* own; the processes share only the signer's database, one statement at a *)
(* time.  The signer is configured with an action token verifier.          *)
(*                                                                         *)
(* An answer is what the peer gets: the signature (a number, fresh for     *)
(* each wallet call) or a refusal, under an outgoing seq.                  *)
(***************************************************************************)
EXTENDS Naturals, FiniteSets

CONSTANTS
    Operators,    \* concurrent CLI processes
    Rows,         \* ids of pending_tx_sign rows
    Txsets,       \* txset hashes
    Txset,        \* Txset[r]: the hash in row r
    Jtis,         \* action tokens that will ever be issued
    JtiTxset,     \* JtiTxset[j]: the txset token j is bound to
    MaxOutSeq     \* bound: outgoing seqs allocated

ASSUME PendingConstants ==
    /\ Txset \in [Rows -> Txsets]
    /\ JtiTxset \in [Jtis -> Txsets]
    /\ MaxOutSeq \in Nat

VARIABLES
    status,   \* pending_tx_sign.status
    staged,   \* decision_reason: the staged answer, or NoAnswer
    outSeq,   \* out_seq.last_seq
    request,  \* sign_request_dedup: the row of each txset's sign request
    spent,    \* consumed_action_jti
    events,   \* sign_events: txsets and signatures recorded
    signed,   \* wallet calls so far; the number is the signature
    sent,     \* answers that reached the mailbox
    op        \* what each CLI process is doing

tables == <<status, staged, outSeq, request, spent, events>>
vars   == <<tables, signed, sent, op>>

Refusal  == 0
NoAnswer == [row |-> Refusal, answer |-> Refusal, seq |-> 0]

Idle == [pc |-> "idle"]

Init ==
    /\ status = [r \in Rows |-> "pending"]
    /\ staged = [r \in Rows |-> NoAnswer]
    /\ outSeq = 0
    /\ request = [t \in Txsets |-> "absent"]
    /\ spent = {}
    /\ events = {}
    /\ signed = 0
    /\ sent = {}
    /\ op = [o \in Operators |-> Idle]

Goto(o, pc) == op' = [op EXCEPT ![o].pc = pc]
Exit(o) == op' = [op EXCEPT ![o] = Idle]

(* A status written without a staged payload: decision_reason is replaced. *)
Unstaged(r) == [staged EXCEPT ![r] = NoAnswer]

Row(o) == op[o].answer.row
IsRefusal(o) == op[o].answer.answer = Refusal

-----------------------------------------------------------------------------
(* get_pending and the status gate.  A staged answer is sent again as it   *)
(* is; any other status than pending ends the command.                     *)

MayDecide(r) == status[r] = "pending"

Decide(o, r, j, first, sending) ==
    /\ op[o] = Idle
    /\ \/ /\ MayDecide(r)
          /\ op' = [op EXCEPT ![o] =
                       [pc |-> first, jti |-> j,
                        answer |-> [row |-> r, answer |-> Refusal, seq |-> 0]]]
       \/ /\ status[r] = sending
          /\ op' = [op EXCEPT ![o] = [pc |-> "send", jti |-> j, answer |-> staged[r]]]
    /\ UNCHANGED <<tables, signed, sent>>

Approve(o, r, j) ==
    /\ JtiTxset[j] = Txset[r]
    /\ Decide(o, r, j, "checks", "approved_sending")

Reject(o, r) == \E j \in Jtis : JtiTxset[j] = Txset[r] /\ Decide(o, r, j, "seq", "rejected_sending")

(* Txset hash, active snapshot, admission, wallet and policy checks.       *)
ChecksPass(o) ==
    /\ op[o].pc = "checks"
    /\ Goto(o, "start")
    /\ UNCHANGED <<tables, signed, sent>>

(* mark_pending_error: whatever the status is by now.                      *)
ChecksFailForGood(o) ==
    /\ op[o].pc = "checks"
    /\ status' = [status EXCEPT ![Row(o)] = "failed_dead_letter"]
    /\ staged' = Unstaged(Row(o))
    /\ Exit(o)
    /\ UNCHANGED <<outSeq, request, spent, events, signed, sent>>

-----------------------------------------------------------------------------
(* Sign, as in sign_multisig_flow, but with no cached answer for a         *)
(* duplicate request.                                                      *)

(* Mutated form: a completed request may be started again.                 *)
RowFreeUnlessInProgress(t) == request[t] # "in_progress"

RowFree(t) == request[t] = "absent"

StartSignRequest(o) ==
    /\ op[o].pc = "start"
    /\ IF RowFree(Txset[Row(o)])
         THEN /\ request' = [request EXCEPT ![Txset[Row(o)]] = "in_progress"]
              /\ Goto(o, "consume")
         ELSE UNCHANGED request /\ Exit(o)
    /\ UNCHANGED <<status, staged, outSeq, spent, events, signed, sent>>

AbortSignRequest(o) ==
    /\ request' = [request EXCEPT ![Txset[Row(o)]] = IF @ = "in_progress" THEN "absent" ELSE @]
    /\ Exit(o)

ConsumeActionJti(o) ==
    /\ op[o].pc = "consume"
    /\ IF op[o].jti \notin spent
         THEN /\ spent' = spent \cup {op[o].jti}
              /\ Goto(o, "wallet")
              /\ UNCHANGED request
         ELSE AbortSignRequest(o) /\ UNCHANGED spent
    /\ UNCHANGED <<status, staged, outSeq, events, signed, sent>>

WalletSigns(o) ==
    /\ op[o].pc = "wallet"
    /\ signed' = signed + 1
    /\ op' = [op EXCEPT ![o].pc = "complete", ![o].answer.answer = signed + 1]
    /\ UNCHANGED <<tables, sent>>

(* The wallet refuses, or signs and the answer is lost.                    *)
WalletFails(o) ==
    /\ op[o].pc = "wallet"
    /\ signed' \in {signed, signed + 1}
    /\ AbortSignRequest(o)
    /\ UNCHANGED <<status, staged, outSeq, spent, events, sent>>

CompleteSignRequest(o) ==
    /\ op[o].pc = "complete"
    /\ IF request[Txset[Row(o)]] = "in_progress"
         THEN /\ request' = [request EXCEPT ![Txset[Row(o)]] = "completed"]
              /\ Goto(o, "event")
         ELSE UNCHANGED request /\ Exit(o)
    /\ UNCHANGED <<status, staged, outSeq, spent, events, signed, sent>>

RecordSignEvent(o) ==
    /\ op[o].pc = "event"
    /\ events' = events \cup {[txset |-> Txset[Row(o)]]}
    /\ Goto(o, "artifact")
    /\ UNCHANGED <<status, staged, outSeq, request, spent, signed, sent>>

RecordArtifactEvent(o) ==
    /\ op[o].pc = "artifact"
    /\ events' = events \cup {[artifact |-> op[o].answer.answer]}
    /\ Goto(o, "seq")
    /\ UNCHANGED <<status, staged, outSeq, request, spent, signed, sent>>

-----------------------------------------------------------------------------
(* Allocate the seq, stage the answer, send it, close the row.             *)

(* Mutated form: the value before the increment is returned.               *)
AllocatedBefore(n) == IF n = 0 THEN 1 ELSE n

AllocatedSeq(n) == n + 1

NextOutSeq(o) ==
    /\ op[o].pc = "seq"
    /\ outSeq < MaxOutSeq
    /\ outSeq' = outSeq + 1
    /\ op' = [op EXCEPT ![o].pc = "stage", ![o].answer.seq = AllocatedSeq(outSeq)]
    /\ UNCHANGED <<status, staged, request, spent, events, signed, sent>>

StageAnswer(o) ==
    /\ op[o].pc = "stage"
    /\ staged' = [staged EXCEPT ![Row(o)] = op[o].answer]
    /\ status' = [status EXCEPT ![Row(o)] =
                     IF IsRefusal(o) THEN "rejected_sending" ELSE "approved_sending"]
    /\ Goto(o, "send")
    /\ UNCHANGED <<outSeq, request, spent, events, signed, sent>>

SendBody(o) ==
    /\ op[o].pc = "send"
    /\ sent' = sent \cup {op[o].answer}
    /\ Goto(o, "finish")
    /\ UNCHANGED <<tables, signed>>

(* Mutated form: a failed push is only logged.                             *)
PushErrorIgnored(o) == Goto(o, "finish")

AfterPushError(o) == Exit(o)

(* Every attempt failed; one of them may have reached the mailbox.         *)
SendFails(o) ==
    /\ op[o].pc = "send"
    /\ sent' \in {sent, sent \cup {op[o].answer}}
    /\ AfterPushError(o)
    /\ UNCHANGED <<tables, signed>>

FinishDecision(o) ==
    /\ op[o].pc = "finish"
    /\ status' = [status EXCEPT ![Row(o)] = IF IsRefusal(o) THEN "rejected" ELSE "approved_sent"]
    /\ staged' = Unstaged(Row(o))
    /\ Exit(o)
    /\ UNCHANGED <<outSeq, request, spent, events, signed, sent>>

(* The process dies, or a check or statement fails and ? ends the command. *)
Dies(o) ==
    /\ op[o] # Idle
    /\ Exit(o)
    /\ UNCHANGED <<tables, signed, sent>>

-----------------------------------------------------------------------------
Sign(o) ==
    \/ ChecksPass(o) \/ ChecksFailForGood(o)
    \/ StartSignRequest(o) \/ ConsumeActionJti(o)
    \/ WalletSigns(o) \/ WalletFails(o)
    \/ CompleteSignRequest(o) \/ RecordSignEvent(o) \/ RecordArtifactEvent(o)

Answer(o) ==
    \/ NextOutSeq(o) \/ StageAnswer(o)
    \/ SendBody(o) \/ SendFails(o) \/ FinishDecision(o)

Next ==
    \E o \in Operators :
        \/ \E r \in Rows, j \in Jtis : Approve(o, r, j)
        \/ \E r \in Rows : Reject(o, r)
        \/ Sign(o)
        \/ Answer(o)
        \/ Dies(o)

Spec == Init /\ [][Next]_vars

-----------------------------------------------------------------------------
(* Two different answers never leave under one seq, whatever is retried,   *)
(* interrupted or decided twice: the mailbox keeps the first envelope it   *)
(* gets under a seq and drops the other for good.                          *)
SeqCarriesOneAnswer == \A x, y \in sent : x.seq = y.seq => x = y

(* At most one signature of a txset is ever sent, and under one seq, even  *)
(* when two rows ask for it, two operators approve at once, or the wallet  *)
(* had to be called again after an ambiguous failure.                      *)
OneApprovalPerTxset ==
    \A x, y \in sent :
        /\ x.answer # Refusal /\ y.answer # Refusal
        /\ Txset[x.row] = Txset[y.row]
        => x = y

(* A row is closed as approved or rejected only after that answer went     *)
(* out: no decision is recorded that the peer was never told.  An answer   *)
(* is staged exactly while its row is being sent, so a retry always finds  *)
(* the answer it has to repeat.                                            *)
DecidedIsAnswered ==
    \A r \in Rows :
        /\ staged[r] # NoAnswer <=> status[r] \in {"approved_sending", "rejected_sending"}
        /\ status[r] = "approved_sent" => \E x \in sent : x.row = r /\ x.answer # Refusal
        /\ status[r] = "rejected" => \E x \in sent : x.row = r /\ x.answer = Refusal

(* Not a property of this code (see Further observations in the README):   *)
(* the peer is never told both "signed" and "refused" about one row, which *)
(* the status gates of approve_pending and reject_pending are there for.   *)
AnswersAgree ==
    \A x, y \in sent : x.row = y.row => (x.answer = Refusal <=> y.answer = Refusal)
=============================================================================
