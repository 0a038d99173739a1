------------------------------- MODULE Peer -------------------------------
(***************************************************************************)
(* nxms-peer: the sign_req round trip.  Each call is a process of its own  *)
(* over one vault directory and one inbox: it takes the next seq from      *)
(* peer_state.json, pushes a tx_sign_req once, and pulls its inbox until   *)
(* an answer of this signer for this escrow turns up or time is out.       *)
(*                                                                         *)
(* An answer does not name its request.  The model remembers it (field     *)
(* "of") so that the properties can say whose answer a call took.          *)
(* Mailbox and signer appear as far as a call depends on them: dedupe of   *)
(* held envelopes, leases, expiry; the replay guard, late and repeated     *)
(* answers (Mailbox, Delivery and PendingDecisions have the details).      *)
(***************************************************************************)
EXTENDS Naturals, FiniteSets, FiniteSetsExt

CONSTANTS
    Calls,        \* invocations of sign_req
    Escrows, Signers,
    Kinds,        \* what signers answer: subset of AnswerKinds
    PullMax,      \* PULL_MAX: rows one pull may lease
    MaxPulls,     \* bound: pulls that fit into timeout_secs
    MaxRows,      \* bound: answers ever put into the inbox
    MaxReceipts   \* bound: receipts ever handed out

AnswerKinds == {"tx_sign_resp", "error", "unreadable"}

ASSUME PeerConstants ==
    /\ Kinds \subseteq AnswerKinds
    /\ {PullMax, MaxPulls} \subseteq Nat \ {0}
    /\ {MaxRows, MaxReceipts} \subseteq Nat

VARIABLES
    setup,      \* how far the operator has set the peer up
    file,       \* peer_state.json: the last seq of every escrow
    call,       \* the processes
    toSigners,  \* requests held by the mailbox
    heard,      \* heard[s][e]: the highest seq signer s accepted
    accepted,   \* requests a signer accepted and has not answered
    answered,   \* requests a signer answered, with the answer's kind
    inbox,      \* the rows of the peer's inbox
    lastRow, lastReceipt,
    refused,    \* history: trips with a request refused as a replay
    raced,      \* history: two calls were in next_out_seq at once
    orderly,    \* history: trips whose calls followed one another to the end
    crowded     \* history: trips with two requests on the way at once, or out of turn

signerVars == <<toSigners, heard, accepted, answered, refused>>
mailVars == <<inbox, lastRow, lastReceipt>>
vars == <<setup, file, call, signerVars, mailVars, raced, orderly, crowded>>

NoRow == [id |-> 0]
NoSeqs == [e \in Escrows |-> 0]
Unstarted == [pc |-> "unstarted"]
Trips == Escrows \X Signers

Init ==
    /\ setup = "none"
    /\ file = NoSeqs
    /\ call = [c \in Calls |-> Unstarted]
    /\ toSigners = {}
    /\ heard = [s \in Signers |-> [e \in Escrows |-> 0]]
    /\ accepted = {}
    /\ answered = {}
    /\ inbox = {}
    /\ lastRow = 0
    /\ lastReceipt = 0
    /\ refused = {}
    /\ raced = FALSE
    /\ orderly = Trips
    /\ crowded = {}

Ended == {"unstarted", "returned", "failed"}
Running(c) == call[c].pc \notin Ended
TripOf(c) == <<call[c].escrow, call[c].to>>
Goto(c, pc) == call' = [call EXCEPT ![c].pc = pc]

-----------------------------------------------------------------------------
(* The operator creates the vault (once) and gives the signers the peer's  *)
(* identity for their allowlists.                                          *)
InitVault ==
    /\ setup = "none"
    /\ setup' = "vault"
    /\ UNCHANGED <<file, call, signerVars, mailVars, raced, orderly, crowded>>

ExportIdentity ==
    /\ setup = "vault"
    /\ setup' = "exported"
    /\ UNCHANGED <<file, call, signerVars, mailVars, raced, orderly, crowded>>

-----------------------------------------------------------------------------
(* The secret files can be read and the vault opens with them.             *)
VaultOpens == setup # "none"

(* A call whose arguments and peer book are in order.                      *)
Start(c, e, s) ==
    LET together == \E d \in Calls : Running(d) /\ TripOf(d) = <<e, s>> IN
    /\ call[c] = Unstarted
    /\ VaultOpens
    /\ call' = [call EXCEPT ![c] = [pc |-> "read", escrow |-> e, to |-> s, file |-> NoSeqs,
                                    seq |-> 0, pulls |-> 0, row |-> NoRow]]
    /\ orderly' = IF together THEN orderly \ {<<e, s>>} ELSE orderly
    /\ UNCHANGED <<setup, file, signerVars, mailVars, raced, crowded>>

(* A call ends without an outcome: an error, the deadline, or its death.   *)
Fails(c) ==
    /\ call' = [call EXCEPT ![c] = [pc |-> "failed"]]
    /\ orderly' = orderly \ {TripOf(c)}

Dies(c) ==
    /\ Running(c)
    /\ Fails(c)
    /\ UNCHANGED <<setup, file, signerVars, mailVars, raced, crowded>>

(* next_out_seq reads the whole file ...                                   *)
ReadSeqState(c) ==
    /\ call[c].pc = "read"
    /\ call' = [call EXCEPT ![c].pc = "write", ![c].file = file]
    /\ raced' = (raced \/ \E d \in Calls : call[d].pc = "write")
    /\ UNCHANGED <<setup, file, signerVars, mailVars, orderly, crowded>>

(* Mutated form: only an escrow's first entry is written.                  *)
FirstEntryOnly(seqs, e) == [seqs EXCEPT ![e] = IF @ = 0 THEN 1 ELSE @]

NextSeqs(seqs, e) == [seqs EXCEPT ![e] = @ + 1]

(* ... and replaces it, before the envelope leaves.                        *)
WriteSeqState(c) ==
    /\ call[c].pc = "write"
    /\ file' = NextSeqs(call[c].file, call[c].escrow)
    /\ call' = [call EXCEPT ![c].pc = "push", ![c].file = NoSeqs,
                                ![c].seq = call[c].file[call[c].escrow] + 1]
    /\ UNCHANGED <<setup, signerVars, mailVars, raced, orderly, crowded>>

(* The mailbox answers "dedup" when it holds this key; the call only logs  *)
(* it.                                                                     *)
Pushed(c) ==
    LET request == [of |-> c, escrow |-> call[c].escrow, to |-> call[c].to, seq |-> call[c].seq]
        same == {r \in toSigners : <<r.escrow, r.to, r.seq>> =
                                   <<request.escrow, request.to, request.seq>>}
    IN IF same = {} THEN toSigners \cup {request} ELSE toSigners

(* Another request of the trip has not been taken yet, or has an earlier   *)
(* seq and has yet to leave.                                               *)
NotAlone(c) ==
    \/ \E r \in toSigners : <<r.escrow, r.to>> = TripOf(c)
    \/ \E d \in Calls : call[d].pc = "push" /\ TripOf(d) = TripOf(c) /\ call[d].seq < call[c].seq

Leaves(c) ==
    /\ toSigners' = Pushed(c)
    /\ crowded' = IF NotAlone(c) THEN crowded \cup {TripOf(c)} ELSE crowded

Push(c) ==
    /\ call[c].pc = "push"
    /\ Leaves(c)
    /\ Goto(c, "pull")
    /\ UNCHANGED <<setup, file, heard, accepted, answered, refused, mailVars, raced, orderly>>

(* The push is answered by an error, or its answer is lost.                *)
PushFails(c) ==
    /\ call[c].pc = "push"
    /\ Leaves(c) \/ UNCHANGED <<toSigners, crowded>>
    /\ Fails(c)
    /\ UNCHANGED <<setup, file, heard, accepted, answered, refused, mailVars, raced>>

-----------------------------------------------------------------------------
(* One pull leases the first free rows of the inbox.                       *)
Free == {r \in inbox : r.receipt = 0}
Place(r) == Cardinality({q \in Free : q.id <= r.id})
Pulled == {r \in Free : Place(r) <= PullMax}
Handed == {[r EXCEPT !.receipt = lastReceipt + Place(r)] : r \in Pulled}

Lease ==
    /\ lastReceipt + Cardinality(Pulled) <= MaxReceipts
    /\ inbox' = (inbox \ Pulled) \cup Handed
    /\ lastReceipt' = lastReceipt + Cardinality(Pulled)
    /\ UNCHANGED lastRow

(* Mutated form: any answer of this signer will do.                        *)
FromSigner(c, r) == r.from = call[c].to

ForThisTrip(c, r) == r.from = call[c].to /\ r.escrow = call[c].escrow

Matching(c) == {r \in Handed : ForThisTrip(c, r)}

(* An answer that cannot be opened, is of another kind or repeats another  *)
(* escrow in its body is of kind "unreadable".                             *)
Opens(r) == r.kind # "unreadable"

(* The row with the lowest id, if there is one.                            *)
First(rows) == {r \in rows : \A q \in rows : r.id <= q.id}

(* The first matching row, in the order of the pull, is opened; the others *)
(* stay leased.                                                            *)
PullFinds(c) ==
    /\ call[c].pc = "pull"
    /\ Lease
    /\ \E r \in First(Matching(c)) :
           IF Opens(r)
             THEN /\ call' = [call EXCEPT ![c].pc = "ack", ![c].row = r]
                  /\ UNCHANGED orderly
             ELSE Fails(c)
    /\ UNCHANGED <<setup, file, signerVars, raced, crowded>>

DeadlinePassed(c) == call[c].pulls + 1 >= MaxPulls

(* Only foreign mail, which stays leased, or none: again until the         *)
(* deadline.                                                               *)
PullFindsNothing(c) ==
    /\ call[c].pc = "pull"
    /\ Matching(c) = {}
    /\ Lease
    /\ IF DeadlinePassed(c)
         THEN Fails(c)
         ELSE /\ call' = [call EXCEPT ![c].pulls = @ + 1]
              /\ UNCHANGED orderly
    /\ UNCHANGED <<setup, file, signerVars, raced, crowded>>

(* The pull fails, or its answer is lost with the rows leased.             *)
PullFails(c) ==
    /\ call[c].pc = "pull"
    /\ Lease \/ UNCHANGED mailVars
    /\ Fails(c)
    /\ UNCHANGED <<setup, file, signerVars, raced, crowded>>

(* Mutated form: "unknown receipt" is taken for success.                   *)
AckedBefore(c) == TRUE

(* The mailbox still holds the row under this receipt.                     *)
AckFinds(c) == call[c].row \in inbox

AckReturns(c) ==
    /\ call[c].pc = "ack"
    /\ AckFinds(c)
    /\ inbox' = inbox \ {call[c].row}
    /\ call' = [call EXCEPT ![c].pc = "returned", ![c].pulls = 0]
    /\ UNCHANGED <<setup, file, signerVars, lastRow, lastReceipt, raced, orderly, crowded>>

(* The receipt is unknown by now, or the ack or its answer is lost.        *)
AckFails(c) ==
    /\ call[c].pc = "ack"
    /\ inbox' \in {inbox, inbox \ {call[c].row}}
    /\ Fails(c)
    /\ UNCHANGED <<setup, file, signerVars, lastRow, lastReceipt, raced, crowded>>

-----------------------------------------------------------------------------
(* A signer takes a request: an unknown sender and a seq that is not new   *)
(* are refused, and the envelope is acknowledged all the same.             *)
SignerTakes(r) ==
    /\ r \in toSigners
    /\ toSigners' = toSigners \ {r}
    /\ IF setup # "exported"
         THEN UNCHANGED <<heard, accepted, refused>>
         ELSE IF r.seq > heard[r.to][r.escrow]
           THEN /\ heard' = [heard EXCEPT ![r.to][r.escrow] = r.seq]
                /\ accepted' = accepted \cup {r}
                /\ UNCHANGED refused
           ELSE /\ refused' = refused \cup {<<r.escrow, r.to>>}
                /\ UNCHANGED <<heard, accepted>>
    /\ UNCHANGED <<setup, file, call, answered, mailVars, raced, orderly, crowded>>

NewRow(r, kind) ==
    /\ lastRow < MaxRows
    /\ lastRow' = lastRow + 1
    /\ inbox' = inbox \cup {[id |-> lastRow + 1, of |-> r.of, escrow |-> r.escrow,
                             from |-> r.to, kind |-> kind, receipt |-> 0]}
    /\ UNCHANGED lastReceipt

SignerAnswers(r, kind) ==
    /\ r \in accepted
    /\ NewRow(r, kind)
    /\ accepted' = accepted \ {r}
    /\ answered' = answered \cup {<<r, kind>>}
    /\ UNCHANGED <<setup, file, call, toSigners, heard, refused, raced, orderly, crowded>>

(* A push whose answer was lost is repeated under the same seq; the        *)
(* mailbox knows it only while it holds the first copy.                    *)
SignerRepeats(r, kind) ==
    /\ <<r, kind>> \in answered
    /\ \A q \in inbox : q.of # r.of
    /\ NewRow(r, kind)
    /\ orderly' = orderly \ {<<r.escrow, r.to>>}
    /\ UNCHANGED <<setup, file, call, signerVars, raced, crowded>>

LeaseEnds(r) ==
    /\ r \in inbox
    /\ r.receipt # 0
    /\ inbox' = (inbox \ {r}) \cup {[r EXCEPT !.receipt = 0]}
    /\ UNCHANGED <<setup, file, call, signerVars, lastRow, lastReceipt, raced, orderly, crowded>>

RowExpires(r) ==
    /\ r \in inbox
    /\ inbox' = inbox \ {r}
    /\ UNCHANGED <<setup, file, call, signerVars, lastRow, lastReceipt, raced, orderly, crowded>>

-----------------------------------------------------------------------------
CallStep(c) ==
    \/ ReadSeqState(c) \/ WriteSeqState(c)
    \/ Push(c) \/ PushFails(c)
    \/ PullFinds(c) \/ PullFindsNothing(c) \/ PullFails(c)
    \/ AckReturns(c) \/ AckFails(c)

Next ==
    \/ InitVault
    \/ ExportIdentity
    \/ \E c \in Calls : CallStep(c) \/ Dies(c) \/ \E e \in Escrows, s \in Signers : Start(c, e, s)
    \/ \E r \in toSigners : SignerTakes(r)
    \/ \E r \in accepted, kind \in Kinds : SignerAnswers(r, kind)
    \/ \E a \in answered : SignerRepeats(a[1], a[2])
    \/ \E r \in inbox : LeaseEnds(r) \/ RowExpires(r)

Spec == Init /\ [][Next]_vars

-----------------------------------------------------------------------------
(* No row is handed to two calls: a call returns only after the mailbox    *)
(* dropped the row under the call's own receipt, so a lease that ran out   *)
(* between the pull and the ack makes the slower call fail.  (An answer    *)
(* the signer pushes again is a new row.)                                  *)
RowAnswersOnce ==
    \A c, d \in Calls :
        /\ call[c].pc = "returned"
        /\ call[d].pc = "returned"
        /\ call[c].row.id = call[d].row.id
        => c = d

(* sign_req never compares an answer with its own seq.  The answer it      *)
(* returns is nevertheless the answer to its own request, as long as every *)
(* call for this escrow and signer waited for the one before it, none of   *)
(* them failed, and the signer pushed no answer twice.                     *)
OwnAnswer ==
    \A c \in Calls :
        call[c].pc = "returned" /\ TripOf(c) \in orderly => call[c].row.of = c

(* The seq is on disk before the envelope leaves, so a call that dies or   *)
(* fails, at whatever point, only leaves a gap: a signer refuses a request *)
(* as a replay only on a trip that had two requests on the way at once, or *)
(* sent them out of turn, unless two calls (of any escrows) read and       *)
(* rewrote the file at the same time.                                      *)
HeardInOrder == raced \/ refused \subseteq crowded

(* Not a property of this code (see Further observations in the README):   *)
(* next_out_seq never allocates one seq twice, as its comment says: two    *)
(* calls that have taken a seq for the same escrow have different ones.    *)
(* Two processes that read the file before either of them writes it break  *)
(* this.                                                                   *)
SeqsDiffer ==
    \A c, d \in Calls :
        /\ {call[c].pc, call[d].pc} \subseteq {"push", "pull", "ack", "returned"}
        /\ call[c].escrow = call[d].escrow
        /\ call[c].seq = call[d].seq
        => c = d
=============================================================================
