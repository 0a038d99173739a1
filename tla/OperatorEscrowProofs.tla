----------------------- MODULE OperatorEscrowProofs -----------------------
(***************************************************************************)
(* A snapshot stands for real money and the escrow pays out only what a    *)
(* quorum approved, for any number of notes, parties, actions, proposals,  *)
(* approvals and bundles, and any quorum.                                  *)
(*                                                                         *)
(* For the first, a note between the two reads has been seen unspent, so   *)
(* it is not absent.  For the second, what is collected for a proposal are *)
(* approvals of that proposal under different indices, so there are as     *)
(* many indices as entries; how many keys there are only the ledger        *)
(* counts, and one signature is enough to tell that the transaction's      *)
(* action is the proposal's.                                               *)
(*                                                                         *)
(* The second half is about the orchestrator's other state, the workflow   *)
(* database: a report over it may be cut by any operation between two of   *)
(* its SELECTs, and still says nothing false.                              *)
(***************************************************************************)
EXTENDS OperatorEscrow, Reports, FiniteSetTheorems, TLAPS

LedgerTyped == ledger \in [Notes -> {"absent", "unspent", "spent"}]

(* The first read found the note.                                          *)
ConfirmingExists == \A n \in confirming : n \in Notes /\ ledger[n] # "absent"

(* Who approves a proposal signs its transaction.                          *)
ApprovalsAreOver ==
    \A m \in approvals :
        /\ m.proposal \in Proposal
        /\ \E keys : m.over = SigningHash(m.proposal.note, m.proposal.action, m.proposal.to, keys)

(* The entries collected for a proposal.                                   *)
Entries == [index : Indices, sent : approvals]
CollectedFor(p, b) ==
    /\ b \in Seq(Entries)
    /\ \A i \in 1 .. Len(b) : b[i].sent.proposal = p
    /\ \A i, j \in 1 .. Len(b) : b[i].index = b[j].index => i = j

Collected ==
    /\ proposals \subseteq Proposal
    /\ builders = [p \in Proposal |-> builders[p]]
    /\ \A p \in Proposal : CollectedFor(p, builders[p])
    /\ \A b \in bundles :
          /\ b.proposal \in Proposal
          /\ CollectedFor(b.proposal, b.entries)
          /\ Len(b.entries) >= Quorum

(* What a transaction the ledger took was approved as.                     *)
Approved(t) ==
    /\ t.keys \subseteq Parties /\ Cardinality(t.keys) >= Quorum
    /\ \A k \in t.keys : ApprovedBy(k, [note |-> t.note, action |-> t.action, to |-> t.to])
PaidApproved == \A t \in paid : Approved(t)

IInv ==
    /\ LedgerTyped
    /\ ConfirmingExists
    /\ FundingIsReal
    /\ ApprovalsAreOver
    /\ Collected
    /\ PaidApproved

-----------------------------------------------------------------------------
(* There are as many indices as entries, and every entry is an approval.   *)
LEMMA CollectedIsApproved ==
    ASSUME NEW b \in bundles, CollectedFor(b.proposal, b.entries), Len(b.entries) >= Quorum
    PROVE  /\ Cardinality({e.index : e \in EntriesOf(b.entries)}) >= Quorum
           /\ \A e \in EntriesOf(b.entries) : ApprovedBy(e.sent.key, b.proposal)
<1> DEFINE s == b.entries
           k == Len(b.entries)
           I == {e.index : e \in EntriesOf(s)}
           f == [i \in 1 .. k |-> s[i].index]
<1>1. s \in Seq(Entries) /\ k \in Nat /\ DOMAIN s = 1 .. k
  BY DEF CollectedFor
<1>2. I = {s[i].index : i \in 1 .. k}
  BY <1>1 DEF EntriesOf, Range
<1>3. f \in [1 .. k -> I] /\ \A t \in I : \E i \in 1 .. k : f[i] = t
  BY <1>2
<1>4. \A i, j \in 1 .. k : f[i] = f[j] => i = j
  BY DEF CollectedFor
<1> HIDE DEF f, I
<1>5. ExistsBijection(1 .. k, I)
  BY <1>3, <1>4 DEF ExistsBijection, Bijection, Injection, IsInjective, Surjection
<1> HIDE DEF k
<1>6. Cardinality(I) = k
  BY <1>1, <1>5, FS_CountingElements
<1> USE DEF k
<1>7. ASSUME NEW e \in EntriesOf(s) PROVE ApprovedBy(e.sent.key, b.proposal)
  <2>1. PICK i \in 1 .. k : e = s[i]
    BY <1>1 DEF EntriesOf, Range
  <2>2. e \in Entries /\ e.sent.proposal = b.proposal
    BY <1>1, <2>1 DEF CollectedFor
  <2>3. e.sent \in approvals
    BY <2>2 DEF Entries
  <2> QED
    BY <2>2, <2>3 DEF ApprovedBy
<1> QED
  BY <1>6, <1>7 DEF I

(* Approvals are never taken back.                                        *)
LEMMA MoreApprovals ==
    ASSUME approvals \subseteq approvals'
    PROVE  /\ \A p, b : CollectedFor(p, b) => CollectedFor(p, b)'
           /\ \A t : Approved(t) => Approved(t)'
<1>1. Entries \subseteq Entries'
  BY DEF Entries
<1>2. \A b : b \in Seq(Entries) => b \in Seq(Entries')
  BY <1>1
<1> QED
  BY <1>2 DEF CollectedFor, Approved, ApprovedBy

(* Nothing is funded, approved or paid.                                    *)
LEMMA IInvInit == Init => IInv
BY DEF Init, IInv, LedgerTyped, ConfirmingExists, FundingIsReal, ApprovalsAreOver, Collected,
       CollectedFor, Entries, PaidApproved

-----------------------------------------------------------------------------
(* The ledger and the operator's reads.                                    *)
LEMMA FundingSteps ==
    ASSUME IInv, NEW n \in Notes, Mint(n) \/ SpendOther(n) \/ ReadUnspent(n) \/ ReadPolicy(n)
    PROVE  IInv'
<1> USE DEF IInv
<1>1. UNCHANGED <<proposals, approvals, builders, bundles, paid>>
  BY DEF Mint, SpendOther, ReadUnspent, ReadPolicy
<1>2. ApprovalsAreOver' /\ Collected' /\ PaidApproved'
  BY <1>1, MoreApprovals DEF ApprovalsAreOver, Collected, PaidApproved
<1>3. LedgerTyped' /\ ConfirmingExists'
  BY DEF Mint, SpendOther, ReadUnspent, ReadPolicy, LedgerTyped, ConfirmingExists
<1>4. FundingIsReal'
  <2>1. CASE Mint(n)
    BY <2>1 DEF Mint, FundingIsReal, LedgerTyped
  <2>2. CASE SpendOther(n)
    BY <2>2 DEF SpendOther, FundingIsReal, LedgerTyped
  <2>3. CASE ReadUnspent(n)
    BY <2>3 DEF ReadUnspent, FundingIsReal
  <2>4. CASE ReadPolicy(n)
    BY <2>4 DEF ReadPolicy, PolicyAgrees, FundingIsReal, LedgerTyped, ConfirmingExists
  <2> QED
    BY <2>1, <2>2, <2>3, <2>4
<1> QED
  BY <1>2, <1>3, <1>4

(* A proposal names a note, an action and a recipient of the escrow.       *)
LEMMA BuildProposalKeeps ==
    ASSUME IInv, NEW n \in Notes, NEW a \in Actions, NEW to \in Parties, BuildProposal(n, a, to)
    PROVE  IInv'
<1>1. approvals \subseteq approvals'
  BY DEF BuildProposal
<1> QED
  BY <1>1, MoreApprovals DEF IInv, BuildProposal, LedgerTyped, ConfirmingExists, FundingIsReal,
     ApprovalsAreOver, Collected, PaidApproved, Proposal

(* A new approval is over the transaction of its proposal.                 *)
LEMMA ApproveKeeps ==
    ASSUME IInv, NEW p \in proposals, NEW k \in Keys, NEW keys \in Signers, Approve(k, p, keys)
    PROVE  IInv'
<1> USE DEF IInv
<1>1. approvals \subseteq approvals'
      /\ UNCHANGED <<ledger, policy, confirming, snapshots, proposals, builders, bundles, paid>>
  BY DEF Approve
<1>2. LedgerTyped' /\ ConfirmingExists' /\ FundingIsReal'
  BY <1>1 DEF LedgerTyped, ConfirmingExists, FundingIsReal
<1>3. ApprovalsAreOver'
  BY DEF Approve, ApprovalsAreOver, Collected
<1>4. Collected' /\ PaidApproved'
  BY <1>1, MoreApprovals DEF Collected, PaidApproved
<1> QED
  BY <1>2, <1>3, <1>4

(* An entry is added only for this proposal and under an index of its own. *)
LEMMA AddApprovalKeeps ==
    ASSUME IInv, NEW p \in proposals, NEW i \in Indices, NEW m \in approvals, AddApproval(p, i, m)
    PROVE  IInv'
<1> USE DEF IInv
<1>1. UNCHANGED <<ledger, policy, confirming, snapshots, proposals, approvals, bundles, paid>>
  BY DEF AddApproval
<1>2. LedgerTyped' /\ ConfirmingExists' /\ FundingIsReal' /\ ApprovalsAreOver' /\ PaidApproved'
  BY <1>1 DEF LedgerTyped, ConfirmingExists, FundingIsReal, ApprovalsAreOver, PaidApproved,
          Approved, ApprovedBy
<1> DEFINE b == builders[p]
           e == [index |-> i, sent |-> m]
           n == Append(b, e)
<1>3. p \in Proposal /\ b \in Seq(Entries) /\ CollectedFor(p, b)
  BY DEF Collected, CollectedFor
<1>4. builders' = [builders EXCEPT ![p] = n] /\ m.proposal = p
  BY DEF AddApproval, ForThis
<1>5. \A j \in 1 .. Len(b) : b[j].index # i
  BY <1>3 DEF AddApproval, NewSigner, EntriesOf, Range
<1>6. e \in Entries /\ e.index = i /\ e.sent.proposal = p
  BY <1>4 DEF Entries
<1> HIDE DEF e
<1>7. /\ n \in Seq(Entries) /\ Len(n) = Len(b) + 1 /\ Len(b) \in Nat
      /\ \A j \in 1 .. Len(b) : n[j] = b[j]
      /\ n[Len(b) + 1] = e
  BY <1>3, <1>6
<1> HIDE DEF b, n
<1>8. CollectedFor(p, n)
  BY <1>3, <1>4, <1>5, <1>6, <1>7 DEF CollectedFor
<1>9. Collected'
  BY <1>1, <1>3, <1>4, <1>8, MoreApprovals DEF Collected
<1> QED
  BY <1>2, <1>9

(* A bundle keeps what the builder collected.                              *)
LEMMA FinalizeBundleKeeps == ASSUME IInv, NEW p \in proposals, FinalizeBundle(p) PROVE IInv'
<1> USE DEF IInv
<1>1. UNCHANGED <<ledger, policy, confirming, snapshots, proposals, approvals, paid>>
  BY DEF FinalizeBundle
<1>2. LedgerTyped' /\ ConfirmingExists' /\ FundingIsReal' /\ ApprovalsAreOver' /\ PaidApproved'
  BY <1>1 DEF LedgerTyped, ConfirmingExists, FundingIsReal, ApprovalsAreOver, PaidApproved,
          Approved, ApprovedBy
<1>3. p \in Proposal /\ CollectedFor(p, builders[p]) /\ CollectedFor(p, <<>>)
  BY DEF Collected, CollectedFor
<1>4. builders' = [builders EXCEPT ![p] = <<>>]
  BY DEF FinalizeBundle
<1>5. \/ bundles' = bundles
      \/ /\ bundles' = bundles \cup {[proposal |-> p, entries |-> builders[p]]}
         /\ Len(builders[p]) >= Quorum
  BY DEF FinalizeBundle
<1>6. Collected'
  BY <1>1, <1>3, <1>4, <1>5, MoreApprovals DEF Collected
<1> QED
  BY <1>2, <1>6

(* One signature over the transaction tells that its action is the one of  *)
(* the bundle's proposal.                                                  *)
LEMMA SubmitKeeps ==
    ASSUME IInv, NEW b \in bundles, NEW a \in Actions, Submit(b, a)
    PROVE  IInv'
<1> USE DEF IInv
<1> DEFINE p == b.proposal
           s == b.entries
<1>1. UNCHANGED <<policy, confirming, snapshots, proposals, approvals, builders, bundles>>
      /\ ledger' = [ledger EXCEPT ![p.note] = "spent"]
  BY DEF Submit
<1>2. p \in Proposal /\ CollectedFor(p, s) /\ Len(s) >= Quorum
  BY DEF Collected
<1>3. p = [note |-> p.note, action |-> p.action, to |-> p.to] /\ p.note \in Notes
  BY <1>2 DEF Proposal
<1>4. LedgerTyped' /\ ConfirmingExists' /\ FundingIsReal' /\ ApprovalsAreOver' /\ Collected'
  BY <1>1, <1>3, MoreApprovals DEF LedgerTyped, ConfirmingExists, FundingIsReal, ApprovalsAreOver,
                                   Collected
<1>5. s[1].sent \in approvals /\ s[1].sent.proposal = p /\ s[1] \in EntriesOf(s)
  <2>1. s \in Seq(Entries) /\ Len(s) \in Nat /\ DOMAIN s = 1 .. Len(s)
    BY <1>2 DEF CollectedFor
  <2>2. 1 \in 1 .. Len(s)
    BY <1>2, <2>1, OperatorEscrowConstants, FS_CardinalityType
  <2>3. s[1] \in Entries /\ s[1].sent.proposal = p /\ s[1] \in EntriesOf(s)
    BY <1>2, <2>1, <2>2 DEF CollectedFor, EntriesOf, Range
  <2> QED
    BY <2>3 DEF Entries
<1>6. a = p.action
  <2>1. s[1].sent.over = SigningHash(p.note, a, p.to, KeysOf(b))
    BY <1>5 DEF Submit, LedgerAccepts
  <2>2. PICK keys : s[1].sent.over = SigningHash(p.note, p.action, p.to, keys)
    BY <1>5 DEF ApprovalsAreOver
  <2> QED
    BY <2>1, <2>2 DEF SigningHash
<1>7. /\ KeysOf(b) \subseteq Parties /\ Cardinality(KeysOf(b)) >= Quorum
      /\ \A k \in KeysOf(b) : ApprovedBy(k, p)
  BY <1>2, CollectedIsApproved DEF Submit, LedgerAccepts, KeysOf
<1>8. paid' = paid \cup {[note |-> p.note, action |-> a, to |-> p.to, keys |-> KeysOf(b)]}
  BY DEF Submit
<1> HIDE DEF p
<1>9. PaidApproved'
  BY <1>1, <1>3, <1>6, <1>7, <1>8 DEF PaidApproved, Approved, ApprovedBy
<1> QED
  BY <1>4, <1>9

(* Every step of ledger, operator and parties keeps the invariant.         *)
LEMMA IInvInductive == IInv /\ [Next]_vars => IInv'
<1> SUFFICES ASSUME IInv, [Next]_vars PROVE IInv'
  OBVIOUS
<1>1. CASE UNCHANGED vars
  BY <1>1 DEF vars, IInv, LedgerTyped, ConfirmingExists, FundingIsReal, ApprovalsAreOver,
              Collected, CollectedFor, Entries, PaidApproved, Approved, ApprovedBy
<1> QED
  BY <1>1, FundingSteps, BuildProposalKeeps, ApproveKeeps, AddApprovalKeeps,
     FinalizeBundleKeeps, SubmitKeeps DEF Next

-----------------------------------------------------------------------------
(* process_funding_event does not trust the event: a snapshot is of a note *)
(* under the descriptor's policy, or of one spent between the two reads.   *)
THEOREM SnapshotsAreFunded == Spec => []FundingIsReal
<1>1. IInv => FundingIsReal
  BY DEF IInv
<1> QED
  BY <1>1, IInvInit, IInvInductive, PTL DEF Spec

(* add_approval and finalize_bundle: bundles hold approvals of their own   *)
(* proposal under a quorum of different indices.  Together with the        *)
(* ledger's check of keys and hash, what is paid is what a quorum of the   *)
(* policy's keys approved, action and recipient both.                      *)
THEOREM PaysWhatQuorumApproved == Spec => []PaidAsApproved
<1>1. IInv => PaidAsApproved
  BY CollectedIsApproved DEF IInv, Collected, PaidApproved, Approved, PaidAsApproved
<1> QED
  BY <1>1, IInvInit, IInvInductive, PTL DEF Spec

-----------------------------------------------------------------------------
(***************************************************************************)
(* The orchestrator's workflow database and the reports read over it.      *)
(***************************************************************************)
(* The outbox agrees with the dead letters.                                *)
OutboxOK ==
    /\ outbox \in [Items -> OutboxRows \cup {None}]
    /\ DeadLetterOnRecord

(* Steps, proposal and proofs are in their place.                          *)
StepsOK ==
    /\ state \in States \cup {None}
    /\ state = None => steps = {}
    /\ \A s, t \in steps : SameKey(s, t) => s = t
    /\ \A s \in steps : \A j, k \in 1 .. 11 : state = Path[j] /\ s.state = Path[k] => k <= j + 1

FundedOK ==
    proposal # None \/ proofs # {} => state \in {Path[k] : k \in 7 .. 11} \cup {Failed}

WorkflowInv == OutboxOK /\ StepsOK /\ FundedOK

(* The dead letters there can be, and those there are.                     *)
Letters ==
    {StepConflict(s) : s \in [state : StepStates, from : Participants, seq : Seqs, payload : Payloads]}
        \cup {Undelivered(i, n) : i \in Items, n \in 1 .. MaxAttempts}

LettersOK == deadLetters \in SUBSET Letters /\ IsFiniteSet(deadLetters)

(* The report in progress.                                                 *)
Selected == (SUBSET Items) \cup (SUBSET Letters) \cup BOOLEAN

ReportTyped ==
    /\ report \in [kind : {"none", "integrity", "delivery", "slo"}, got : Seq(Selected)]
    /\ report.kind = "none" => report = Idle

(* What was there when it began still is.                                  *)
BegunOK ==
    report.kind # "none" =>
        /\ begun.workflow => state # None
        /\ begun.dead \subseteq WithStatus("dead_letter")

Read(k) == Len(report.got) >= k

IntegrityOK == report.kind = "integrity" /\ Read(1) /\ begun.workflow => report.got[1] = TRUE

DeliveryOK ==
    report.kind = "delivery" =>
        /\ \A k \in 1 .. 4 : Read(k) => \A i \in Items \ touched :
               i \in report.got[k] <=> Has(i, {DeliveryReads[k]})
        /\ Read(4) => /\ begun.dead \subseteq report.got[4]
                      /\ report.got[4] \subseteq WithStatus("dead_letter")
        /\ Read(7) => report.got[7] = FALSE

(* One of the letters R says that item i was given up.                     *)
LetterIn(i, R) == \E n \in 1 .. MaxAttempts : Undelivered(i, n) \in R

SloOK ==
    report.kind = "slo" =>
        /\ Read(4) => report.got[4] \subseteq WithStatus("dead_letter")
        /\ Read(5) => /\ IsFiniteSet(report.got[5])
                      /\ \A i \in report.got[4] : LetterIn(i, begun.old) \/ LetterIn(i, report.got[5])

ReportInv == ReportTyped /\ BegunOK /\ IntegrityOK /\ DeliveryOK /\ SloOK

-----------------------------------------------------------------------------
(* The path of the workflow has eleven stages, all different.              *)
LEMMA PathStages ==
    /\ Path[1] = "new" /\ Path[2] = "prepare_collected" /\ Path[3] = "make_collected"
    /\ Path[4] = "exchange_r1_collected" /\ Path[5] = "exchange_r2_collected"
    /\ Path[6] = "finalized_ready" /\ Path[7] = "funded" /\ Path[8] = "tx_sign_pending"
    /\ Path[9] = "tx_signed_quorum" /\ Path[10] = "submitted" /\ Path[11] = "confirmed"
BY DEF Path

LEMMA PathDistinct ==
    /\ \A j, k \in 1 .. 11 : Path[j] = Path[k] => j = k
    /\ \A k \in 1 .. 11 : Path[k] # Failed
<1> HIDE DEF Path
<1>1. \A k \in 1 .. 11 : k = 1 \/ k = 2 \/ k = 3 \/ k = 4 \/ k = 5 \/ k = 6 \/ k = 7 \/ k = 8
                          \/ k = 9 \/ k = 10 \/ k = 11
  OBVIOUS
<1>2. \A k \in 1 .. 11 : Path[k] # Failed
  BY <1>1, PathStages DEF Failed
<1>3. \A j, k \in 1 .. 11 : Path[j] = Path[k] => j = k
  BY <1>1, PathStages
<1> QED
  BY <1>2, <1>3

LEMMA WorkflowInvInit == WorkflowInit => WorkflowInv
<1> SUFFICES ASSUME WorkflowInit PROVE WorkflowInv
  OBVIOUS
<1>1. OutboxOK
  BY DEF WorkflowInit, OutboxOK, DeadLetterOnRecord, Has
<1>2. StepsOK /\ FundedOK
  BY DEF WorkflowInit, StepsOK, FundedOK
<1> QED
  BY <1>1, <1>2 DEF WorkflowInv

(* A step that leaves outbox and dead letters alone.                       *)
LEMMA OutboxRests == ASSUME OutboxOK, UNCHANGED <<outbox, deadLetters>> PROVE OutboxOK'
BY DEF OutboxOK, DeadLetterOnRecord, Has, Undelivered

LEMMA StepsRest ==
    ASSUME StepsOK, FundedOK, UNCHANGED <<state, steps, proposal, proofs>>
    PROVE  StepsOK' /\ FundedOK'
BY DEF StepsOK, FundedOK, SameKey

(* The workflow moves one stage on, or fails.                              *)
LEMMA TransitionKeeps ==
    ASSUME StepsOK, FundedOK, UNCHANGED <<steps, proposal, proofs>>, NEW to \in States,
           TransitionWorkflow(to)
    PROVE  StepsOK' /\ FundedOK'
<1>1. state' = to /\ to # None /\ state # None
  BY WorkflowConstants DEF TransitionWorkflow
<1>2. CASE to = Failed
  BY <1>1, <1>2, PathDistinct DEF StepsOK, FundedOK, SameKey
<1>3. CASE to # Failed
  <2>1. PICK a \in 1 .. 10 : state = Path[a] /\ to = Path[a + 1]
    BY <1>3 DEF TransitionWorkflow, CanTransitionTo
  <2>2. a \in 1 .. 11 /\ a + 1 \in 1 .. 11
    OBVIOUS
  <2>3. ASSUME NEW s \in steps, NEW j \in 1 .. 11, NEW k \in 1 .. 11, to = Path[j], s.state = Path[k]
        PROVE  k <= j + 1
    <3>1. j = a + 1
      BY <2>1, <2>2, <2>3, PathDistinct
    <3>2. k <= a + 1
      BY <2>1, <2>2, <2>3 DEF StepsOK
    <3> QED
      BY <2>2, <3>1, <3>2
  <2>4. StepsOK'
    BY <1>1, <2>3 DEF StepsOK, SameKey
  <2>5. FundedOK'
    <3> SUFFICES ASSUME proposal # None \/ proofs # {} PROVE to \in {Path[k] : k \in 7 .. 11}
      BY <1>1 DEF FundedOK
    <3>1. state \in {Path[k] : k \in 7 .. 11}
      BY <2>1, <2>2, PathDistinct DEF FundedOK
    <3>2. PICK k \in 7 .. 11 : state = Path[k]
      BY <3>1
    <3>3. k = a /\ a + 1 \in 7 .. 11
      <4>1. k \in 1 .. 11
        OBVIOUS
      <4>2. k = a
        BY <2>1, <2>2, <3>2, <4>1, PathDistinct
      <4> QED
        BY <2>2, <4>2
    <3> QED
      BY <2>1, <3>3
  <2> QED
    BY <2>4, <2>5
<1> QED
  BY <1>2, <1>3

(* A step is recorded for the current stage or the next.                   *)
LEMMA RecordKeeps ==
    ASSUME WorkflowInv, NEW s, RecordStep(s)
    PROVE  WorkflowInv' /\ steps \subseteq steps'
<1>1. Admits(s.state) /\ state # None /\ UNCHANGED <<state, outbox, offset, proposal, proofs>>
  BY DEF RecordStep, Admits
<1>2. FundedOK'
  BY <1>1 DEF WorkflowInv, FundedOK
<1>3. CASE \E t \in steps : SameKey(s, t)
  <2>1. UNCHANGED steps /\ deadLetters' \in {deadLetters, deadLetters \cup {StepConflict(s)}}
    BY <1>3 DEF RecordStep, RecordUnderKey
  <2>2. StepsOK'
    BY <1>1, <2>1 DEF WorkflowInv, StepsOK, SameKey
  <2>3. \A i, n : Undelivered(i, n) # StepConflict(s)
    BY DEF Undelivered, StepConflict
  <2>4. ASSUME NEW i, NEW n PROVE Undelivered(i, n) \in deadLetters' <=> Undelivered(i, n) \in deadLetters
    BY <2>1, <2>3
  <2>5. OutboxOK'
    <3>1. \A i \in Items : Has(i, {"dead_letter"})' <=> Has(i, {"dead_letter"})
      BY <1>1 DEF Has
    <3>2. DeadLetterOnRecord'
      BY <2>4, <3>1 DEF WorkflowInv, OutboxOK, DeadLetterOnRecord, Undelivered
    <3> QED
      BY <1>1, <3>2 DEF WorkflowInv, OutboxOK
  <2> QED
    BY <1>2, <2>1, <2>2, <2>5 DEF WorkflowInv
<1>4. CASE ~\E t \in steps : SameKey(s, t)
  <2>1. steps' = steps \cup {s} /\ UNCHANGED deadLetters
    BY <1>4 DEF RecordStep, RecordUnderKey
  <2>2. ASSUME NEW j \in 1 .. 11, NEW k \in 1 .. 11, state = Path[j], s.state = Path[k] PROVE k <= j + 1
    <3>1. CASE state = s.state
      <4>1. j = k
        BY <2>2, <3>1, PathDistinct
      <4> QED
        BY <4>1
    <3>2. CASE CanTransitionTo(state, s.state)
      <4>1. PICK a \in 1 .. 10 : state = Path[a] /\ s.state = Path[a + 1]
        BY <2>2, <3>2, PathDistinct DEF CanTransitionTo
      <4>2. a \in 1 .. 11 /\ a + 1 \in 1 .. 11
        OBVIOUS
      <4>3. j = a /\ k = a + 1
        BY <2>2, <4>1, <4>2, PathDistinct
      <4> QED
        BY <4>3
    <3> QED
      BY <1>1, <3>1, <3>2 DEF Admits
  <2>3. \A t, u \in steps' : SameKey(t, u) => t = u
    BY <1>4, <2>1 DEF WorkflowInv, StepsOK, SameKey
  <2>4. \A t \in steps' : \A j, k \in 1 .. 11 : state' = Path[j] /\ t.state = Path[k] => k <= j + 1
    BY <1>1, <2>1, <2>2 DEF WorkflowInv, StepsOK
  <2>5. StepsOK'
    BY <1>1, <2>3, <2>4 DEF WorkflowInv, StepsOK, SameKey
  <2>6. OutboxOK'
    BY <1>1, <2>1, OutboxRests DEF WorkflowInv
  <2> QED
    BY <1>2, <2>1, <2>5, <2>6 DEF WorkflowInv
<1> QED
  BY <1>3, <1>4

(* A row is written: it was no dead letter, and if it becomes one, the     *)
(* letter is written with it.                                              *)
LEMMA RowKeeps ==
    ASSUME OutboxOK, NEW i \in Items, NEW r \in OutboxRows, outbox' = [outbox EXCEPT ![i] = r],
           ~Has(i, {"dead_letter"}),
           \/ r.status # "dead_letter" /\ UNCHANGED deadLetters
           \/ /\ r.status = "dead_letter"
              /\ \E n \in 1 .. MaxAttempts : deadLetters' = deadLetters \cup {Undelivered(i, n)}
    PROVE  OutboxOK'
<1>1. outbox' \in [Items -> OutboxRows \cup {None}] /\ outbox'[i] = r /\ r # None
      /\ \A j \in Items : j # i => outbox'[j] = outbox[j]
  BY WorkflowConstants DEF OutboxOK
<1>2. Has(i, {"dead_letter"})' <=> r.status = "dead_letter"
  BY <1>1 DEF Has
<1>3. \A j \in Items : j # i => (Has(j, {"dead_letter"})' <=> Has(j, {"dead_letter"}))
  BY <1>1 DEF Has
<1>4. \A j, k, m, n : Undelivered(j, m) = Undelivered(k, n) => j = k /\ m = n
  BY DEF Undelivered
<1>5. ASSUME NEW j \in Items
      PROVE  Has(j, {"dead_letter"})' <=> \E n \in 1 .. MaxAttempts : Undelivered(j, n) \in deadLetters'
  <2>1. Has(j, {"dead_letter"}) <=> \E n \in 1 .. MaxAttempts : Undelivered(j, n) \in deadLetters
    BY DEF OutboxOK, DeadLetterOnRecord
  <2>2. CASE r.status # "dead_letter" /\ UNCHANGED deadLetters
    BY <1>2, <1>3, <2>1, <2>2
  <2>3. ASSUME r.status = "dead_letter", NEW n \in 1 .. MaxAttempts,
               deadLetters' = deadLetters \cup {Undelivered(i, n)}
        PROVE  Has(j, {"dead_letter"})' <=> \E m \in 1 .. MaxAttempts : Undelivered(j, m) \in deadLetters'
    <3>1. CASE j = i
      BY <1>2, <2>3, <3>1
    <3>2. CASE j # i
      <4>1. ASSUME NEW m PROVE Undelivered(j, m) \in deadLetters' <=> Undelivered(j, m) \in deadLetters
        <5>1. Undelivered(j, m) # Undelivered(i, n)
          BY <1>4, <3>2
        <5> QED
          BY <2>3, <5>1
      <4> QED
        BY <1>3, <2>1, <3>2, <4>1
    <3> QED
      BY <3>1, <3>2
  <2> QED
    BY <2>2, <2>3
<1>6. DeadLetterOnRecord'
  BY <1>5 DEF DeadLetterOnRecord, Undelivered, Has
<1> QED
  BY <1>1, <1>6 DEF OutboxOK

LEMMA OutboxKeeps ==
    ASSUME WorkflowInv, NEW i \in Items,
           EnqueueOutbox(i) \/ MarkOutboxSent(i) \/ MarkOutboxAcked(i) \/ MarkOutboxRetry(i)
    PROVE  WorkflowInv'
<1>1. UNCHANGED <<state, steps, proposal, proofs>>
  BY DEF EnqueueOutbox, MarkOutboxSent, MarkOutboxAcked, MarkOutboxRetry
<1>2. ~Has(i, {"dead_letter"})
  BY DEF EnqueueOutbox, MarkOutboxSent, MarkOutboxAcked, MarkOutboxRetry, Ackable, Has
<1>3. OutboxOK /\ MaxAttempts \in Nat
  BY WorkflowConstants DEF WorkflowInv
<1>4. outbox[i] # None => outbox[i] \in OutboxRows /\ outbox[i].attempts \in 0 .. MaxAttempts
  BY <1>3 DEF OutboxOK, OutboxRows
<1>5. CASE EnqueueOutbox(i)
  <2> DEFINE r == [status |-> "pending", attempts |-> 0]
  <2>1. r \in OutboxRows /\ r.status = "pending"
    BY <1>3 DEF OutboxRows
  <2>2. outbox' = [outbox EXCEPT ![i] = r] /\ UNCHANGED deadLetters
    BY <1>5 DEF EnqueueOutbox
  <2> HIDE DEF r
  <2>3. OutboxOK'
    BY <1>2, <1>3, <2>1, <2>2, RowKeeps
  <2> QED
    BY <1>1, <2>3, StepsRest DEF WorkflowInv
<1>6. CASE MarkOutboxSent(i)
  <2> DEFINE r == [status |-> "sent", attempts |-> outbox[i].attempts + 1]
  <2>1. outbox[i].attempts + 1 \in 0 .. MaxAttempts
    BY <1>3, <1>4, <1>6 DEF MarkOutboxSent, Has
  <2>2. r \in OutboxRows /\ r.status = "sent"
    BY <2>1 DEF OutboxRows
  <2>3. outbox' = [outbox EXCEPT ![i] = r] /\ UNCHANGED deadLetters
    BY <1>6 DEF MarkOutboxSent
  <2> HIDE DEF r
  <2>4. OutboxOK'
    BY <1>2, <1>3, <2>2, <2>3, RowKeeps
  <2> QED
    BY <1>1, <2>4, StepsRest DEF WorkflowInv
<1>7. CASE MarkOutboxAcked(i)
  <2> DEFINE r == [outbox[i] EXCEPT !.status = "acked"]
  <2>1. outbox[i] \in OutboxRows
    BY <1>4, <1>7 DEF MarkOutboxAcked, Ackable, Has
  <2>2. r \in OutboxRows /\ r.status = "acked"
    BY <2>1 DEF OutboxRows
  <2>3. outbox' = [outbox EXCEPT ![i] = r] /\ UNCHANGED deadLetters
    BY <1>7 DEF MarkOutboxAcked
  <2> HIDE DEF r
  <2>4. OutboxOK'
    BY <1>2, <1>3, <2>2, <2>3, RowKeeps
  <2> QED
    BY <1>1, <2>4, StepsRest DEF WorkflowInv
<1>8. CASE MarkOutboxRetry(i)
  <2> DEFINE n == outbox[i].attempts + 1
             dead == [status |-> "dead_letter", attempts |-> n]
             again == [status |-> "pending", attempts |-> n]
  <2>1. n \in 1 .. MaxAttempts
    BY <1>3, <1>4, <1>8 DEF MarkOutboxRetry, Has
  <2>2. /\ dead \in OutboxRows /\ dead.status = "dead_letter"
        /\ again \in OutboxRows /\ again.status = "pending"
    <3> HIDE DEF n
    <3> QED
      BY <2>1 DEF OutboxRows
  <2>3. \/ outbox' = [outbox EXCEPT ![i] = dead] /\ deadLetters' = deadLetters \cup {Undelivered(i, n)}
        \/ outbox' = [outbox EXCEPT ![i] = again] /\ UNCHANGED deadLetters
    BY <1>8 DEF MarkOutboxRetry, DeadLetter
  <2> HIDE DEF n, dead, again
  <2>4. CASE outbox' = [outbox EXCEPT ![i] = dead] /\ deadLetters' = deadLetters \cup {Undelivered(i, n)}
    <3>1. OutboxOK'
      BY <1>2, <1>3, <2>1, <2>2, <2>4, RowKeeps
    <3> QED
      BY <1>1, <3>1, StepsRest DEF WorkflowInv
  <2>5. CASE outbox' = [outbox EXCEPT ![i] = again] /\ UNCHANGED deadLetters
    <3>1. OutboxOK'
      BY <1>2, <1>3, <2>2, <2>5, RowKeeps
    <3> QED
      BY <1>1, <3>1, StepsRest DEF WorkflowInv
  <2> QED
    BY <2>3, <2>4, <2>5
<1> QED
  BY <1>5, <1>6, <1>7, <1>8

(* A proposal and a proof are stored from the funded stage on.             *)
LEMMA ProofsKeep ==
    ASSUME WorkflowInv, UNCHANGED <<state, steps, outbox, deadLetters>>,
           state \in {"funded", "tx_sign_pending", "tx_signed_quorum", "submitted"}
    PROVE  WorkflowInv'
<1>1. state \in {Path[k] : k \in 7 .. 11}
  <2>1. 7 \in 7 .. 11 /\ 8 \in 7 .. 11 /\ 9 \in 7 .. 11 /\ 10 \in 7 .. 11
    OBVIOUS
  <2> QED
    BY <2>1, PathStages
<1>2. FundedOK'
  BY <1>1 DEF FundedOK
<1>3. StepsOK'
  BY DEF WorkflowInv, StepsOK, SameKey
<1>4. OutboxOK'
  BY OutboxRests DEF WorkflowInv
<1> QED
  BY <1>2, <1>3, <1>4 DEF WorkflowInv

(* Every operation of the database keeps the invariant.                    *)
LEMMA WorkflowInvNext == WorkflowInv /\ [WorkflowNext]_workflowVars => WorkflowInv' /\ steps \subseteq steps'
<1> SUFFICES ASSUME WorkflowInv, [WorkflowNext]_workflowVars PROVE WorkflowInv' /\ steps \subseteq steps'
  OBVIOUS
<1>1. CASE UNCHANGED workflowVars
  BY <1>1, OutboxRests, StepsRest DEF workflowVars, WorkflowInv
<1>2. CASE CreateWorkflow
  <2>1. state = None /\ state' = "new" /\ UNCHANGED <<steps, outbox, deadLetters, proposal, proofs>>
    BY <1>2 DEF CreateWorkflow
  <2>2. "new" \in States /\ None \notin States /\ 1 \in 1 .. 11
    BY PathStages, WorkflowConstants DEF States
  <2>3. StepsOK'
    BY <2>1, <2>2 DEF WorkflowInv, StepsOK
  <2>4. None \notin {Path[k] : k \in 7 .. 11} \cup {Failed}
    BY <2>2 DEF States
  <2>5. FundedOK'
    BY <2>1, <2>4 DEF WorkflowInv, FundedOK
  <2> QED
    BY <2>1, <2>3, <2>5, OutboxRests DEF WorkflowInv
<1>3. ASSUME NEW to \in States, TransitionWorkflow(to) PROVE WorkflowInv' /\ steps \subseteq steps'
  <2>1. UNCHANGED <<steps, proposal, proofs>> /\ UNCHANGED <<outbox, deadLetters>>
    BY <1>3 DEF TransitionWorkflow
  <2> QED
    BY <1>3, <2>1, TransitionKeeps, OutboxRests DEF WorkflowInv
<1>4. ASSUME NEW s, RecordStep(s) PROVE WorkflowInv' /\ steps \subseteq steps'
  BY <1>4, RecordKeeps
<1>5. ASSUME NEW i \in Items,
             EnqueueOutbox(i) \/ MarkOutboxSent(i) \/ MarkOutboxAcked(i) \/ MarkOutboxRetry(i)
      PROVE  WorkflowInv' /\ steps \subseteq steps'
  <2>1. UNCHANGED steps
    BY <1>5 DEF EnqueueOutbox, MarkOutboxSent, MarkOutboxAcked, MarkOutboxRetry
  <2> QED
    BY <1>5, <2>1, OutboxKeeps
<1>6. ASSUME NEW p, NEW n, AdvanceInboxOffset(p, n) PROVE WorkflowInv' /\ steps \subseteq steps'
  <2>1. UNCHANGED <<state, steps, proposal, proofs>> /\ UNCHANGED <<outbox, deadLetters>>
    BY <1>6 DEF AdvanceInboxOffset
  <2> QED
    BY <2>1, OutboxRests, StepsRest DEF WorkflowInv
<1>7. ASSUME NEW t, UpsertProposalBlob(t) PROVE WorkflowInv' /\ steps \subseteq steps'
  <2>1. UNCHANGED <<state, steps, outbox, deadLetters>> /\ UNCHANGED steps
        /\ state \in {"funded", "tx_sign_pending", "tx_signed_quorum", "submitted"}
    BY <1>7 DEF UpsertProposalBlob, ProposalStates
  <2> QED
    BY <2>1, ProofsKeep
<1>8. ASSUME NEW p, UpsertQuorumSignProof(p) PROVE WorkflowInv' /\ steps \subseteq steps'
  <2>1. UNCHANGED <<state, steps, outbox, deadLetters>> /\ UNCHANGED steps
        /\ state \in {"funded", "tx_sign_pending", "tx_signed_quorum", "submitted"}
    BY <1>8 DEF UpsertQuorumSignProof, ProofStates
  <2> QED
    BY <2>1, ProofsKeep
<1> QED
  BY <1>1, <1>2, <1>3, <1>4, <1>5, <1>6, <1>7, <1>8 DEF WorkflowNext

LEMMA WorkflowInvariant == WorkflowSpec => []WorkflowInv
<1>1. WorkflowInv /\ [WorkflowNext]_workflowVars => WorkflowInv'
  BY WorkflowInvNext
<1> QED
  BY <1>1, WorkflowInvInit, PTL DEF WorkflowSpec

(* A letter is written by record_step or mark_outbox_retry, one at a time. *)
LEMMA LettersAlways == WorkflowSpec => []LettersOK
<1>1. WorkflowInit => LettersOK
  BY FS_EmptySet DEF WorkflowInit, LettersOK
<1>2. WorkflowInv /\ LettersOK /\ [WorkflowNext]_workflowVars => LettersOK'
  <2> SUFFICES ASSUME WorkflowInv, LettersOK, [WorkflowNext]_workflowVars PROVE LettersOK'
    OBVIOUS
  <2>1. ASSUME NEW l \in Letters, deadLetters' \in {deadLetters, deadLetters \cup {l}} PROVE LettersOK'
    BY <2>1, FS_AddElement DEF LettersOK
  <2>2. ASSUME NEW st \in StepStates, NEW p \in Participants, NEW m \in Seqs, NEW h \in Payloads,
               RecordStep([state |-> st, from |-> p, seq |-> m, payload |-> h])
        PROVE  LettersOK'
    <3> DEFINE s == [state |-> st, from |-> p, seq |-> m, payload |-> h]
    <3>1. StepConflict(s) \in Letters
      BY DEF Letters
    <3>2. deadLetters' \in {deadLetters, deadLetters \cup {StepConflict(s)}}
      BY <2>2 DEF RecordStep, RecordUnderKey
    <3> QED
      BY <2>1, <3>1, <3>2
  <2>3. ASSUME NEW i \in Items, MarkOutboxRetry(i) PROVE LettersOK'
    <3> DEFINE n == outbox[i].attempts + 1
    <3>1. n \in 1 .. MaxAttempts
      BY <2>3, WorkflowConstants DEF MarkOutboxRetry, Has, WorkflowInv, OutboxOK, OutboxRows
    <3> HIDE DEF n
    <3>2. Undelivered(i, n) \in Letters
      BY <3>1 DEF Letters
    <3>3. deadLetters' \in {deadLetters, deadLetters \cup {Undelivered(i, n)}}
      BY <2>3 DEF MarkOutboxRetry, DeadLetter, n
    <3> QED
      BY <2>1, <3>2, <3>3
  <2>4. CASE UNCHANGED deadLetters
    BY <2>4 DEF LettersOK
  <2> QED
    BY <2>2, <2>3, <2>4 DEF WorkflowNext, workflowVars, CreateWorkflow, TransitionWorkflow,
       EnqueueOutbox, MarkOutboxSent, MarkOutboxAcked, AdvanceInboxOffset, UpsertProposalBlob,
       UpsertQuorumSignProof
<1> QED
  BY <1>1, <1>2, WorkflowInvariant, PTL DEF WorkflowSpec

(* Reports only read: with them, the database is still written by its      *)
(* operations alone.                                                       *)
THEOREM ReportsOnlyRead == ReportsSpec => WorkflowSpec
<1>1. ReportsInit => WorkflowInit
  BY DEF ReportsInit
<1>2. [ReportsNext]_<<workflowVars, reportVars>> => [WorkflowNext]_workflowVars
  BY DEF ReportsNext, Elsewhere, StartReport, ReadNext, Publish
<1> QED
  BY <1>1, <1>2, PTL DEF ReportsSpec, WorkflowSpec

(* The outbox and the dead letters agree (mark_outbox_retry), whatever     *)
(* acks and retries come late.                                             *)
THEOREM DeadLettersAreOnRecord == WorkflowSpec => []DeadLetterOnRecord
<1>1. WorkflowInv => DeadLetterOnRecord
  BY DEF WorkflowInv, OutboxOK
<1> QED
  BY <1>1, WorkflowInvariant, PTL

(* A recorded step stands and is in its place, and nothing is proposed or  *)
(* proved before the escrow was funded (record_step, transition_workflow,  *)
(* upsert_proposal_blob, upsert_quorum_sign_proof).                        *)
THEOREM RecordedStepsStand == WorkflowSpec => StepsStand
<1> DEFINE A == /\ steps \subseteq steps'
                /\ \A s, t \in steps' : SameKey(s, t) => s = t
                /\ \A s \in steps' : \A j, k \in 1 .. 11 :
                       state' = Path[j] /\ s.state = Path[k] => k <= j + 1
                /\ proposal' # None \/ proofs' # {} =>
                       state' \in {Path[k] : k \in 7 .. 11} \cup {Failed}
<1>1. WorkflowInv /\ [WorkflowNext]_workflowVars => [A]_workflowVars
  <2> SUFFICES ASSUME WorkflowInv, [WorkflowNext]_workflowVars PROVE A
    OBVIOUS
  <2>1. WorkflowInv' /\ steps \subseteq steps'
    BY WorkflowInvNext
  <2>2. \A s, t \in steps' : SameKey(s, t) => s = t
    BY <2>1 DEF WorkflowInv, StepsOK, SameKey
  <2> QED
    BY <2>1, <2>2 DEF WorkflowInv, StepsOK, FundedOK
<1>2. StepsStand <=> [][A]_workflowVars
  BY PTL DEF StepsStand
<1> QED
  BY <1>1, <1>2, WorkflowInvariant, PTL DEF WorkflowSpec

-----------------------------------------------------------------------------
(* What every operation keeps: a workflow is never deleted, and a dead     *)
(* letter stays one.                                                       *)
LEMMA NothingTakenBack ==
    ASSUME WorkflowInv, [WorkflowNext]_workflowVars
    PROVE  /\ state # None => state' # None
           /\ WithStatus("dead_letter") \subseteq WithStatus("dead_letter")'
<1>1. WorkflowInv'
  BY WorkflowInvNext
<1>2. state # None => state' # None
  <2>1. None \notin States
    BY WorkflowConstants
  <2>2. state' \in States \/ state' = state \/ state' = "new"
    BY DEF WorkflowNext, workflowVars, CreateWorkflow, TransitionWorkflow, RecordStep, EnqueueOutbox,
        MarkOutboxSent, MarkOutboxAcked, MarkOutboxRetry, AdvanceInboxOffset, UpsertProposalBlob,
        UpsertQuorumSignProof
  <2>3. "new" \in States
    BY PathStages DEF States
  <2> QED
    BY <2>1, <2>2, <2>3
<1>3. deadLetters \subseteq deadLetters'
  <2>1. CASE UNCHANGED deadLetters
    BY <2>1
  <2>2. ASSUME NEW s, RecordStep(s) PROVE deadLetters \subseteq deadLetters'
    BY <2>2 DEF RecordStep, RecordUnderKey
  <2>3. ASSUME NEW i \in Items, MarkOutboxRetry(i) PROVE deadLetters \subseteq deadLetters'
    BY <2>3 DEF MarkOutboxRetry, DeadLetter
  <2> QED
    BY <2>1, <2>2, <2>3 DEF WorkflowNext, workflowVars, CreateWorkflow, TransitionWorkflow, EnqueueOutbox,
        MarkOutboxSent, MarkOutboxAcked, AdvanceInboxOffset, UpsertProposalBlob,
        UpsertQuorumSignProof
<1>4. ASSUME NEW i \in Items, Has(i, {"dead_letter"}) PROVE Has(i, {"dead_letter"})'
  <2>1. PICK n \in 1 .. MaxAttempts : Undelivered(i, n) \in deadLetters
    BY <1>4 DEF WorkflowInv, OutboxOK, DeadLetterOnRecord
  <2>2. Undelivered(i, n) \in deadLetters'
    BY <1>3, <2>1
  <2> QED
    BY <1>1, <2>2 DEF WorkflowInv, OutboxOK, DeadLetterOnRecord, Undelivered
<1> QED
  BY <1>2, <1>4 DEF WithStatus, Has

LEMMA ReportInvInit == ReportsInit => ReportInv
<1> SUFFICES ASSUME ReportsInit PROVE ReportInv
  OBVIOUS
<1>1. report = [kind |-> "none", got |-> <<>>]
  BY DEF ReportsInit, Idle
<1>2. report.kind = "none" /\ report.got = <<>>
  BY <1>1
<1>3. ReportTyped
  BY <1>1, <1>2 DEF ReportTyped, Idle
<1> QED
  BY <1>2, <1>3 DEF ReportInv, BegunOK, IntegrityOK, DeliveryOK, SloOK

(* Operations between two SELECTs.                                         *)
LEMMA ElsewhereKeeps == ASSUME WorkflowInv, ReportInv, Elsewhere PROVE ReportInv'
<1>1. UNCHANGED <<report, begun>>
  BY DEF Elsewhere
<1>2. /\ state # None => state' # None
      /\ WithStatus("dead_letter") \subseteq WithStatus("dead_letter")'
  BY NothingTakenBack DEF Elsewhere
<1>3. ReportTyped'
  BY <1>1 DEF ReportInv, ReportTyped, Idle
<1>4. BegunOK'
  BY <1>1, <1>2 DEF ReportInv, BegunOK
<1>5. IntegrityOK'
  BY <1>1 DEF ReportInv, IntegrityOK, Read
<1>6. SloOK'
  BY <1>1, <1>2 DEF ReportInv, SloOK, Read, LetterIn, Undelivered
<1>7. ASSUME report.kind = "delivery", NEW i \in Items \ touched'
      PROVE  i \in Items \ touched /\ outbox'[i] = outbox[i]
  <2>1. report # Idle
    BY <1>7 DEF Idle
  <2>2. touched' = touched \cup {j \in Items : outbox'[j] # outbox[j]}
    BY <2>1 DEF Elsewhere
  <2> QED
    BY <1>7, <2>2
<1>8. DeliveryOK'
  <2> SUFFICES ASSUME report.kind = "delivery" PROVE DeliveryOK'
    BY <1>1 DEF DeliveryOK
  <2>1. ASSUME NEW k \in 1 .. 4, Read(k), NEW i \in Items \ touched'
        PROVE  i \in report.got[k] <=> Has(i, {DeliveryReads[k]})'
    <3>1. i \in Items \ touched /\ outbox'[i] = outbox[i]
      BY <1>7
    <3>2. i \in report.got[k] <=> Has(i, {DeliveryReads[k]})
      BY <2>1, <3>1 DEF ReportInv, DeliveryOK
    <3> QED
      BY <3>1, <3>2 DEF Has
  <2>2. Read(4) => /\ begun.dead \subseteq report.got[4]
                   /\ report.got[4] \subseteq WithStatus("dead_letter")'
    BY <1>2 DEF ReportInv, DeliveryOK
  <2>3. Read(7) => report.got[7] = FALSE
    BY DEF ReportInv, DeliveryOK
  <2> QED
    BY <1>1, <2>1, <2>2, <2>3 DEF DeliveryOK, Read, Has
<1> QED
  BY <1>3, <1>4, <1>5, <1>6, <1>8 DEF ReportInv

LEMMA StartKeeps ==
    ASSUME ReportInv, NEW kind \in {"integrity", "delivery", "slo"}, StartReport(kind)
    PROVE  ReportInv'
<1> DEFINE r == [kind |-> kind, got |-> <<>>]
<1>1. /\ report' = r /\ UNCHANGED <<state, outbox>>
      /\ \E old : begun' = [workflow |-> state # None, dead |-> WithStatus("dead_letter"), old |-> old]
  BY DEF StartReport, workflowVars
<1>2. r.kind = kind /\ r.got = <<>> /\ Len(r.got) = 0
  OBVIOUS
<1>3. r \in [kind : {"none", "integrity", "delivery", "slo"}, got : Seq(Selected)]
  OBVIOUS
<1> HIDE DEF r
<1>4. ReportTyped'
  BY <1>1, <1>2, <1>3 DEF ReportTyped
<1>5. begun'.workflow => state # None
  <2>1. PICK old : begun' = [workflow |-> state # None, dead |-> WithStatus("dead_letter"), old |-> old]
    BY <1>1
  <2>2. begun'.workflow = (state # None)
    BY <2>1, Zenon
  <2> QED
    BY <2>2
<1>6. begun'.dead = WithStatus("dead_letter") /\ WithStatus("dead_letter")' = WithStatus("dead_letter")
  BY <1>1 DEF WithStatus, Has
<1>7. BegunOK'
  BY <1>1, <1>5, <1>6 DEF BegunOK
<1>8. \A k \in 1 .. 7 : ~(Len(report'.got) >= k)
  BY <1>1, <1>2
<1>9. ~Read(1)' /\ ~Read(4)' /\ ~Read(5)' /\ ~Read(7)' /\ \A k \in 1 .. 4 : ~Read(k)'
  BY <1>8 DEF Read
<1> QED
  BY <1>4, <1>7, <1>9 DEF ReportInv, IntegrityOK, DeliveryOK, SloOK

LEMMA PublishKeeps == ASSUME ReportInv, Publish PROVE ReportInv'
<1>1. report' = [kind |-> "none", got |-> <<>>]
  BY DEF Publish, Idle
<1>2. report'.kind = "none" /\ report'.got = <<>>
  BY <1>1
<1>3. ReportTyped'
  BY <1>1, <1>2 DEF ReportTyped, Idle
<1> QED
  BY <1>2, <1>3 DEF ReportInv, BegunOK, IntegrityOK, DeliveryOK, SloOK

(* The SELECTs of each report, in their order.                             *)
LEMMA ReadOrder ==
    /\ Len(IntegrityReads) = 3 /\ Len(DeliveryReads) = 7 /\ Len(SloReads) = 5
    /\ IntegrityReads[1] = "workflow_ids" /\ IntegrityReads[2] = "proposals"
    /\ IntegrityReads[3] = "proofs"
    /\ DeliveryReads[1] = "pending" /\ DeliveryReads[2] = "sent" /\ DeliveryReads[3] = "acked"
    /\ DeliveryReads[4] = "dead_letter" /\ DeliveryReads[5] = "sent_stale"
    /\ DeliveryReads[6] = "steps" /\ DeliveryReads[7] = "step_keys"
    /\ SloReads[1] = "active" /\ SloReads[2] = "pending" /\ SloReads[3] = "sent"
    /\ SloReads[4] = "dead_letter" /\ SloReads[5] = "dead_letters"
BY DEF IntegrityReads, DeliveryReads, SloReads

LEMMA ReadsOf ==
    /\ Reads("integrity") = IntegrityReads
    /\ Reads("delivery") = DeliveryReads
    /\ Reads("slo") = SloReads
BY DEF Reads

(* What a SELECT leaves in the report.                                     *)
Counted == {"pending", "sent", "acked", "dead_letter", "sent_stale", "dead_letters"}

LEMMA ReadTyped ==
    ASSUME LettersOK, NEW q, NEW rows, rows \in Results(q)
    PROVE  Abridged(q, rows) \in Selected
<1> USE DEF Selected
<1>1. CASE q \in Counted
  <2>1. Abridged(q, rows) = rows
    BY <1>1 DEF Abridged, Counted
  <2>2. rows \in (SUBSET Items) \cup (SUBSET Letters)
    <3>1. CASE q = "sent_stale"
      <4>1. Results(q) = SUBSET (WithStatus("sent") \ touched)
        BY <3>1 DEF Results
      <4> QED
        BY <4>1 DEF WithStatus
    <3>2. CASE q \in {"pending", "sent", "acked", "dead_letter"}
      <4>1. Results(q) = {WithStatus(q)}
        BY <3>2 DEF Results
      <4> QED
        BY <4>1 DEF WithStatus
    <3>3. CASE q = "dead_letters"
      <4>1. Results(q) = {deadLetters \ begun.old}
        BY <3>3 DEF Results
      <4> QED
        BY <4>1 DEF LettersOK
    <3> QED
      BY <1>1, <3>1, <3>2, <3>3 DEF Counted
  <2> QED
    BY <2>1, <2>2
<1>2. CASE q \notin Counted
  <2>1. Abridged(q, rows) = (rows # {})
    BY <1>2, Zenon DEF Abridged, Counted
  <2>2. (rows # {}) \in BOOLEAN
    OBVIOUS
  <2> QED
    BY <2>1, <2>2, Zenon
<1> QED
  BY <1>1, <1>2

LEMMA StatusRead ==
    ASSUME NEW q \in {"pending", "sent", "acked", "dead_letter"}, NEW rows, rows \in Results(q)
    PROVE  Abridged(q, rows) = WithStatus(q)
<1>1. Results(q) = {WithStatus(q)}
  BY DEF Results
<1> QED
  BY <1>1 DEF Abridged

LEMMA WorkflowRead ==
    ASSUME NEW rows, rows \in Results("workflow_ids"), state # None
    PROVE  Abridged("workflow_ids", rows) = TRUE
<1>1. rows = Workflows
  BY DEF Results
<1>2. rows # {}
  BY <1>1 DEF Workflows
<1> QED
  BY <1>2, Zenon DEF Abridged

LEMMA KeysRead ==
    ASSUME WorkflowInv, NEW rows, rows \in Results("step_keys")
    PROVE  Abridged("step_keys", rows) = FALSE
<1>1. rows = DuplicateStepKeys
  BY DEF Results
<1>2. rows = {}
  BY <1>1 DEF DuplicateStepKeys, WorkflowInv, StepsOK
<1> QED
  BY <1>2, Zenon DEF Abridged

(* A dead-lettered item has its letter, before the window or in it.        *)
LEMMA LettersRead ==
    ASSUME WorkflowInv, LettersOK, NEW rows, rows \in Results("dead_letters")
    PROVE  /\ IsFiniteSet(Abridged("dead_letters", rows))
           /\ \A i \in WithStatus("dead_letter") :
                  LetterIn(i, begun.old) \/ LetterIn(i, Abridged("dead_letters", rows))
<1>1. Abridged("dead_letters", rows) = deadLetters \ begun.old
  BY DEF Results, Abridged
<1>2. IsFiniteSet(deadLetters \ begun.old)
  BY FS_Subset DEF LettersOK
<1>3. ASSUME NEW i \in WithStatus("dead_letter")
      PROVE  LetterIn(i, begun.old) \/ LetterIn(i, deadLetters \ begun.old)
  <2>1. PICK n \in 1 .. MaxAttempts : Undelivered(i, n) \in deadLetters
    BY DEF WithStatus, WorkflowInv, OutboxOK, DeadLetterOnRecord
  <2> QED
    BY <2>1 DEF LetterIn
<1> QED
  BY <1>1, <1>2, <1>3

(* One SELECT: what was read before stays, and the new rows are put last.  *)
LEMMA ReadKeeps == ASSUME WorkflowInv, LettersOK, ReportInv, ReadNext PROVE ReportInv'
<1> DEFINE kind == report.kind
           got == report.got
           n == Len(got) + 1
           q == Reads(kind)[n]
<1>1. PICK rows \in Results(q) : report' = [report EXCEPT !.got = Append(@, Abridged(q, rows))]
  BY DEF ReadNext
<1> DEFINE x == Abridged(q, rows)
<1>2. UNCHANGED <<state, outbox, begun, touched>> /\ InProgress
  BY DEF ReadNext, workflowVars
<1>3. /\ got \in Seq(Selected) /\ kind \in {"integrity", "delivery", "slo"}
      /\ report = [kind |-> kind, got |-> got]
  BY <1>2 DEF InProgress, ReportInv, ReportTyped
<1>4. x \in Selected
  BY ReadTyped
<1>5. n \in Nat /\ n >= 1 /\ n <= Len(Reads(kind)) /\ Len(got) \in Nat
  <2>1. Len(Reads(kind)) \in Nat /\ Len(got) \in Nat
    BY <1>3, ReadOrder, ReadsOf
  <2> QED
    BY <1>2, <2>1 DEF InProgress
<1> HIDE DEF x
<1>6. /\ Append(got, x) \in Seq(Selected) /\ Len(Append(got, x)) = n
      /\ Append(got, x)[n] = x /\ \A k \in 1 .. Len(got) : Append(got, x)[k] = got[k]
  BY <1>3, <1>4
<1>7. report' = [kind |-> kind, got |-> Append(got, x)]
  BY <1>1, <1>3 DEF x
<1>8. /\ report'.kind = kind /\ Len(report'.got) = n /\ report'.got[n] = x
      /\ \A k \in 1 .. Len(got) : report'.got[k] = got[k]
  BY <1>6, <1>7
<1>9. ReportTyped'
  BY <1>3, <1>6, <1>7 DEF ReportTyped
<1>10. WithStatus("dead_letter")' = WithStatus("dead_letter")
  BY <1>2 DEF WithStatus, Has
<1>11. BegunOK'
  BY <1>2, <1>8, <1>10 DEF ReportInv, BegunOK
<1>12. ASSUME NEW k \in 1 .. 7, Read(k)' PROVE k = n \/ (Read(k) /\ report'.got[k] = got[k])
  BY <1>5, <1>8, <1>12 DEF Read
<1> HIDE DEF n, q, kind, got
<1>13. IntegrityOK'
  <2> SUFFICES ASSUME kind = "integrity", Read(1)', begun.workflow PROVE report'.got[1] = TRUE
    BY <1>2, <1>8 DEF IntegrityOK
  <2>1. CASE n = 1
    <3>1. q = "workflow_ids" /\ state # None
      BY <2>1, ReadOrder, ReadsOf DEF q, kind, ReportInv, BegunOK
    <3> QED
      BY <1>1, <1>8, <2>1, <3>1, WorkflowRead DEF x
  <2>2. CASE n # 1
    BY <1>12, <2>2 DEF ReportInv, IntegrityOK, kind, got
  <2> QED
    BY <2>1, <2>2
<1>14. DeliveryOK'
  <2> SUFFICES ASSUME kind = "delivery" PROVE DeliveryOK'
    BY <1>8 DEF DeliveryOK
  <2>1. q = DeliveryReads[n]
    BY ReadsOf DEF q
  <2>2. ASSUME n \in 1 .. 4 PROVE q \in {"pending", "sent", "acked", "dead_letter"} /\ x = WithStatus(q)
    <3>1. q \in {"pending", "sent", "acked", "dead_letter"}
      <4>1. n = 1 \/ n = 2 \/ n = 3 \/ n = 4
        BY <2>2
      <4> QED
        BY <2>1, <4>1, ReadOrder
    <3> QED
      BY <1>1, <3>1, StatusRead DEF x
  <2>3. ASSUME NEW k \in 1 .. 4, Read(k)', NEW i \in Items \ touched
        PROVE  i \in report'.got[k] <=> Has(i, {DeliveryReads[k]})
    <3>1. CASE k = n
      BY <1>8, <2>1, <2>2, <3>1 DEF WithStatus
    <3>2. CASE k # n
      <4>1. Read(k) /\ report'.got[k] = got[k]
        BY <1>12, <2>3, <3>2
      <4> QED
        BY <2>3, <4>1 DEF ReportInv, DeliveryOK, kind, got
    <3> QED
      BY <3>1, <3>2
  <2>4. Read(4)' => begun.dead \subseteq report'.got[4] /\ report'.got[4] \subseteq WithStatus("dead_letter")
    <3>1. CASE n = 4
      <4>1. x = WithStatus("dead_letter")
        BY <2>1, <2>2, <3>1, ReadOrder
      <4> QED
        BY <1>8, <3>1, <4>1 DEF ReportInv, BegunOK, kind
    <3>2. CASE n # 4
      BY <1>12, <3>2 DEF ReportInv, DeliveryOK, kind, got
    <3> QED
      BY <3>1, <3>2
  <2>5. Read(7)' => report'.got[7] = FALSE
    <3>1. CASE n = 7
      <4>1. q = "step_keys"
        BY <2>1, <3>1, ReadOrder
      <4> QED
        BY <1>1, <1>8, <3>1, <4>1, KeysRead DEF x
    <3>2. CASE n # 7
      BY <1>12, <3>2 DEF ReportInv, DeliveryOK, kind, got
    <3> QED
      BY <3>1, <3>2
  <2> QED
    BY <1>2, <1>10, <2>3, <2>4, <2>5 DEF DeliveryOK, Has
<1>15. SloOK'
  <2> SUFFICES ASSUME kind = "slo" PROVE SloOK'
    BY <1>8 DEF SloOK
  <2>1. q = SloReads[n]
    BY ReadsOf DEF q
  <2>2. Read(4)' => report'.got[4] \subseteq WithStatus("dead_letter")
    <3>1. CASE n = 4
      <4>1. q = "dead_letter"
        BY <2>1, <3>1, ReadOrder
      <4>2. x = WithStatus("dead_letter")
        BY <1>1, <4>1, StatusRead DEF x
      <4> QED
        BY <1>8, <3>1, <4>2
    <3>2. CASE n # 4
      BY <1>12, <3>2 DEF ReportInv, SloOK, kind, got
    <3> QED
      BY <3>1, <3>2
  <2>3. ASSUME Read(5)'
        PROVE  /\ IsFiniteSet(report'.got[5])
               /\ \A i \in report'.got[4] : LetterIn(i, begun.old) \/ LetterIn(i, report'.got[5])
    <3>1. CASE n = 5
      <4>1. Read(4)' /\ q = "dead_letters"
        BY <1>8, <2>1, <3>1, ReadOrder DEF Read
      <4>2. report'.got[4] \subseteq WithStatus("dead_letter") /\ report'.got[5] = x
        BY <1>8, <2>2, <3>1, <4>1
      <4>3. /\ IsFiniteSet(x)
            /\ \A i \in WithStatus("dead_letter") : LetterIn(i, begun.old) \/ LetterIn(i, x)
        BY <1>1, <4>1, LettersRead DEF x
      <4> QED
        BY <4>2, <4>3
    <3>2. CASE n # 5
      <4>1. Read(5) /\ report'.got[5] = got[5]
        BY <1>12, <2>3, <3>2
      <4>2. report'.got[4] = got[4]
        BY <1>5, <1>8, <4>1 DEF Read, got
      <4> QED
        BY <4>1, <4>2 DEF ReportInv, SloOK, kind, got
    <3> QED
      BY <3>1, <3>2
  <2> QED
    BY <1>2, <1>10, <2>2, <2>3 DEF SloOK, LetterIn, Undelivered
<1> QED
  BY <1>9, <1>11, <1>13, <1>14, <1>15 DEF ReportInv

(* Every step of the database and of a report keeps both invariants.       *)
LEMMA ReportInvNext ==
    WorkflowInv /\ LettersOK /\ ReportInv /\ [ReportsNext]_<<workflowVars, reportVars>> => ReportInv'
<1> SUFFICES ASSUME WorkflowInv, LettersOK, ReportInv, [ReportsNext]_<<workflowVars, reportVars>>
             PROVE  ReportInv'
  OBVIOUS
<1>1. CASE Elsewhere
  BY <1>1, ElsewhereKeeps
<1>2. ASSUME NEW kind \in {"integrity", "delivery", "slo"}, StartReport(kind) PROVE ReportInv'
  BY <1>2, StartKeeps
<1>3. CASE ReadNext
  BY <1>3, ReadKeeps
<1>4. CASE Publish
  BY <1>4, PublishKeeps
<1>5. CASE UNCHANGED <<workflowVars, reportVars>>
  <2>1. UNCHANGED <<state, outbox, report, begun, touched>>
    BY <1>5 DEF workflowVars, reportVars
  <2>2. ReportTyped' /\ IntegrityOK'
    BY <2>1 DEF ReportInv, ReportTyped, Idle, IntegrityOK, Read
  <2>3. WithStatus("dead_letter")' = WithStatus("dead_letter")
    BY <2>1 DEF WithStatus, Has
  <2>4. BegunOK' /\ SloOK'
    BY <2>1, <2>3 DEF ReportInv, BegunOK, SloOK, Read, LetterIn, Undelivered
  <2>5. DeliveryOK'
    BY <2>1, <2>3 DEF ReportInv, DeliveryOK, Read, Has
  <2> QED
    BY <2>2, <2>4, <2>5 DEF ReportInv
<1> QED
  BY <1>1, <1>2, <1>3, <1>4, <1>5 DEF ReportsNext

(* Where a SELECT's answer is in the report.                               *)
LEMMA GotAt ==
    ASSUME NEW q, NEW p \in 1 .. Len(Reads(report.kind)),
           \A k \in 1 .. Len(Reads(report.kind)) : Reads(report.kind)[k] = q <=> k = p
    PROVE  Got(q) = report.got[p]
<1>1. (CHOOSE k \in 1 .. Len(Reads(report.kind)) : Reads(report.kind)[k] = q) = p
  OBVIOUS
<1> QED
  BY <1>1 DEF Got

LEMMA GotIntegrity ==
    ASSUME report.kind = "integrity"
    PROVE  Got("workflow_ids") = report.got[1]
<1>1. Reads(report.kind) = IntegrityReads /\ 1 \in 1 .. Len(IntegrityReads)
  BY ReadOrder, ReadsOf
<1>2. ASSUME NEW k \in 1 .. Len(IntegrityReads) PROVE IntegrityReads[k] = "workflow_ids" <=> k = 1
  <2>1. k = 1 \/ k = 2 \/ k = 3
    BY ReadOrder
  <2> QED
    BY <2>1, ReadOrder
<1> QED
  BY <1>1, <1>2, GotAt

LEMMA GotDelivery ==
    ASSUME report.kind = "delivery"
    PROVE  /\ \A p \in 1 .. 7 : Got(DeliveryReads[p]) = report.got[p]
           /\ Got("pending") = report.got[1] /\ Got("sent") = report.got[2]
           /\ Got("acked") = report.got[3] /\ Got("dead_letter") = report.got[4]
           /\ Got("step_keys") = report.got[7]
<1>1. Reads(report.kind) = DeliveryReads /\ Len(DeliveryReads) = 7
  BY ReadOrder, ReadsOf
<1>2. ASSUME NEW p \in 1 .. 7, NEW k \in 1 .. 7 PROVE DeliveryReads[k] = DeliveryReads[p] <=> k = p
  <2>1. k = 1 \/ k = 2 \/ k = 3 \/ k = 4 \/ k = 5 \/ k = 6 \/ k = 7
    OBVIOUS
  <2>2. p = 1 \/ p = 2 \/ p = 3 \/ p = 4 \/ p = 5 \/ p = 6 \/ p = 7
    OBVIOUS
  <2> QED
    BY <2>1, <2>2, ReadOrder
<1>3. ASSUME NEW p \in 1 .. 7 PROVE Got(DeliveryReads[p]) = report.got[p]
  <2> DEFINE q == DeliveryReads[p]
  <2>1. p \in 1 .. Len(Reads(report.kind))
    BY <1>1
  <2>2. \A k \in 1 .. Len(Reads(report.kind)) : Reads(report.kind)[k] = q <=> k = p
    BY <1>1, <1>2
  <2> HIDE DEF q
  <2>3. Got(q) = report.got[p]
    BY <2>1, <2>2, GotAt
  <2> QED
    BY <2>3 DEF q
<1> QED
  BY <1>3, ReadOrder

LEMMA GotSlo ==
    ASSUME report.kind = "slo"
    PROVE  Got("dead_letter") = report.got[4] /\ Got("dead_letters") = report.got[5]
<1>1. Reads(report.kind) = SloReads /\ Len(SloReads) = 5
  BY ReadOrder, ReadsOf
<1>2. ASSUME NEW k \in 1 .. 5
      PROVE  (SloReads[k] = "dead_letter" <=> k = 4) /\ (SloReads[k] = "dead_letters" <=> k = 5)
  <2>1. k = 1 \/ k = 2 \/ k = 3 \/ k = 4 \/ k = 5
    OBVIOUS
  <2> QED
    BY <2>1, ReadOrder
<1>3. 4 \in 1 .. Len(Reads(report.kind)) /\ 5 \in 1 .. Len(Reads(report.kind))
  BY <1>1
<1>4. \A k \in 1 .. Len(Reads(report.kind)) : Reads(report.kind)[k] = "dead_letter" <=> k = 4
  BY <1>1, <1>2
<1>5. \A k \in 1 .. Len(Reads(report.kind)) : Reads(report.kind)[k] = "dead_letters" <=> k = 5
  BY <1>1, <1>2
<1>6. Got("dead_letter") = report.got[4]
  BY <1>3, <1>4, GotAt
<1>7. Got("dead_letters") = report.got[5]
  BY <1>3, <1>5, GotAt
<1> QED
  BY <1>6, <1>7

(* A finished delivery report has every untouched row under its status.    *)
LEMMA CountedOnce ==
    ASSUME WorkflowInv, ReportInv, Finished("delivery"), NEW i \in Items \ touched, outbox[i] # None
    PROVE  Cardinality({q \in {"pending", "sent", "acked", "dead_letter"} : i \in Got(q)}) = 1
<1>1. report.kind = "delivery" /\ Len(report.got) = 7
  BY ReadOrder, ReadsOf DEF Finished
<1>2. ASSUME NEW q \in {"pending", "sent", "acked", "dead_letter"} PROVE i \in Got(q) <=> Has(i, {q})
  <2>1. ASSUME NEW k \in 1 .. 4 PROVE i \in report.got[k] <=> Has(i, {DeliveryReads[k]})
    <3>1. Read(k)
      BY <1>1 DEF Read
    <3> QED
      BY <1>1, <3>1 DEF ReportInv, DeliveryOK
  <2>2. 1 \in 1 .. 4 /\ 2 \in 1 .. 4 /\ 3 \in 1 .. 4 /\ 4 \in 1 .. 4
    OBVIOUS
  <2>3. /\ i \in report.got[1] <=> Has(i, {"pending"})
        /\ i \in report.got[2] <=> Has(i, {"sent"})
        /\ i \in report.got[3] <=> Has(i, {"acked"})
        /\ i \in report.got[4] <=> Has(i, {"dead_letter"})
    BY <2>1, <2>2, ReadOrder
  <2> QED
    BY <1>1, <2>3, GotDelivery
<1>3. outbox[i].status \in {"pending", "sent", "acked", "dead_letter"}
  BY DEF WorkflowInv, OutboxOK, OutboxRows
<1>4. {q \in {"pending", "sent", "acked", "dead_letter"} : i \in Got(q)} = {outbox[i].status}
  BY <1>2, <1>3 DEF Has
<1> QED
  BY <1>4, FS_Singleton

LEMMA InvariantIsHonest == WorkflowInv /\ ReportInv => ReportsAreHonest
<1> SUFFICES ASSUME WorkflowInv, ReportInv PROVE ReportsAreHonest
  OBVIOUS
<1>1. ASSUME Finished("integrity"), begun.workflow PROVE Orphans = {}
  <2>1. report.kind = "integrity" /\ Len(report.got) = 3
    BY <1>1, ReadOrder, ReadsOf DEF Finished
  <2>2. report.got[1] = TRUE
    BY <1>1, <2>1 DEF ReportInv, IntegrityOK, Read
  <2>3. Got("workflow_ids") = TRUE
    BY <2>1, <2>2, GotIntegrity
  <2> QED
    BY <2>3, Zenon DEF Orphans
<1>2. ASSUME Finished("delivery")
      PROVE  /\ \A i \in Items \ touched : outbox[i] # None =>
                    Cardinality({q \in {"pending", "sent", "acked", "dead_letter"} : i \in Got(q)}) = 1
             /\ begun.dead \subseteq Got("dead_letter")
             /\ \A i \in Got("dead_letter") : Has(i, {"dead_letter"})
             /\ "duplicate_step_keys" \notin DeliveryFindings
  <2>1. report.kind = "delivery" /\ Len(report.got) = 7
    BY <1>2, ReadOrder, ReadsOf DEF Finished
  <2>2. Read(4) /\ Read(7)
    BY <2>1 DEF Read
  <2>3. /\ begun.dead \subseteq report.got[4] /\ report.got[4] \subseteq WithStatus("dead_letter")
        /\ report.got[7] = FALSE
    BY <2>1, <2>2 DEF ReportInv, DeliveryOK
  <2>4. Got("dead_letter") = report.got[4] /\ Got("step_keys") = FALSE
    BY <2>1, <2>3, GotDelivery
  <2>5. "duplicate_step_keys" \notin DeliveryFindings
    BY <2>4 DEF DeliveryFindings
  <2> QED
    BY <1>2, <2>3, <2>4, <2>5, CountedOnce DEF WithStatus
<1>3. ASSUME Finished("slo"), Cardinality(DiedInWindow) > DeadThreshold
      PROVE  "dead_letter_window" \in Alerts
  <2> DEFINE D == DiedInWindow
             R == report.got[5]
             Of(i) == CHOOSE l \in R : \E n \in 1 .. MaxAttempts : l = Undelivered(i, n)
             f == [i \in D |-> Of(i)]
  <2>1. report.kind = "slo" /\ Len(report.got) = 5
    BY <1>3, ReadOrder, ReadsOf DEF Finished
  <2>2. Read(5) /\ Got("dead_letters") = R /\ Got("dead_letter") = report.got[4]
    BY <2>1, GotSlo DEF Read
  <2>3. /\ IsFiniteSet(R)
        /\ \A i \in report.got[4] : LetterIn(i, begun.old) \/ LetterIn(i, R)
    BY <2>1, <2>2 DEF ReportInv, SloOK
  <2>4. \A i \in D : LetterIn(i, R)
    BY <2>2, <2>3 DEF DiedInWindow, LetterIn
  <2> HIDE DEF D, R
  <2>5. \A i \in D : Of(i) \in R /\ \E n \in 1 .. MaxAttempts : Of(i) = Undelivered(i, n)
    BY <2>4 DEF LetterIn
  <2> HIDE DEF Of
  <2>6. \A i, j \in D : Of(i) = Of(j) => i = j
    BY <2>5 DEF Undelivered
  <2>7. f \in Injection(D, R)
    BY <2>5, <2>6 DEF Injection, IsInjective
  <2>8. /\ Cardinality(D) <= Cardinality(R) /\ IsFiniteSet(D)
        /\ Cardinality(D) \in Nat /\ Cardinality(R) \in Nat
    BY <2>3, <2>7, FS_Injection, FS_CardinalityType
  <2>9. Cardinality(Got("dead_letters")) > DeadThreshold
    BY <1>3, <2>2, <2>8, ReportsConstants DEF D
  <2> QED
    BY <2>9 DEF Alerts
<1> QED
  BY <1>1, <1>2, <1>3 DEF ReportsAreHonest

(* Reports read table after table while the workflow goes on, and say      *)
(* nothing false (integrity_check, delivery_guarantee_report,              *)
(* build_slo_alert_report), for any items, steps and interleavings.        *)
THEOREM ReportsSayNothingFalse == ReportsSpec => []ReportsAreHonest
<1>1. ReportsSpec => [](WorkflowInv /\ LettersOK)
  BY ReportsOnlyRead, WorkflowInvariant, LettersAlways, PTL
<1>2. WorkflowInv /\ LettersOK /\ ReportInv /\ [ReportsNext]_<<workflowVars, reportVars>> => ReportInv'
  BY ReportInvNext
<1>3. WorkflowInv /\ ReportInv => ReportsAreHonest
  BY InvariantIsHonest
<1> QED
  BY <1>1, <1>2, <1>3, ReportInvInit, PTL DEF ReportsSpec
=============================================================================
