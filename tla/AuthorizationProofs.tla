------------------------ MODULE AuthorizationProofs ------------------------
(***************************************************************************)
(* What a signer signs was admitted by both guards and proposed as that    *)
(* very action, and pays by the rules of the workflow's snapshot for it,   *)
(* for any number of snapshots, transaction sets, signer ids, epochs,      *)
(* commands and tokens.                                                    *)
(*                                                                         *)
(* The three facts meet in the last check of the flow, which compares the  *)
(* stored admission with the token's hash.  So the invariant says what a   *)
(* token and an admission file stand for, and that what the flow carries   *)
(* is one of them.                                                         *)
(*                                                                         *)
(* The last part is about the trust bundle a signer starts from, HostTrust *)
(* (TrustInv).                                                             *)
(***************************************************************************)
EXTENDS Authorization, HostTrust, FiniteSetTheorems, TLAPS

(* A token's admission is for the action its transaction set was proposed  *)
(* as (ClaimsAgree), and the token names the workflow's snapshot.          *)
TokensBindAction == \A tok \in tokens : tok.hash.action = tok.proposed /\ tok.snap = First

(* A guard's signature is on an artifact only if the guard was asked for   *)
(* this action, and the signer stores nothing but such artifacts.          *)
FilesWereAsked ==
    /\ \A f \in files : \A g \in f.sigs : <<g, f.content.action, f.content>> \in asked
    /\ stored # None => stored \in files

(* A snapshot is active.                                                   *)
SomeActive == active \in Snapshots

FlowPcs == {"idle", "admission", "transfer", "hash"}

(* What the flow holds between its steps.                                  *)
FlowCarries ==
    /\ flow.pc \in FlowPcs
    /\ flow.pc # "idle" => flow.token \in tokens
    /\ flow.pc \in {"transfer", "hash"} => stored \in files
    /\ flow.pc = "hash" => /\ flow.txset = flow.token.txset
                           /\ ValidateTransfer(First, flow.action, Transfer[flow.txset])

IInv ==
    /\ TokensBindAction
    /\ FilesWereAsked
    /\ SomeActive
    /\ FlowCarries
    /\ SignedAsAdmitted
    /\ SignedAsProposed
    /\ PaysUnderWorkflowSnapshot

-----------------------------------------------------------------------------
(* The escrow starts with an active snapshot and its admitted release.     *)
LEMMA IInvInit == Init => IInv
<1> SUFFICES ASSUME Init PROVE IInv
  OBVIOUS
<1> USE AuthorizationConstants DEF Init, Content, Idle
<1>1. TokensBindAction
  BY DEF TokensBindAction
<1>2. FilesWereAsked
  BY DEF FilesWereAsked
<1>3. SomeActive
  BY DEF SomeActive
<1>4. FlowCarries
  BY DEF FlowCarries, FlowPcs
<1>5. SignedAsAdmitted /\ SignedAsProposed /\ PaysUnderWorkflowSnapshot
  BY DEF SignedAsAdmitted, SignedAsProposed, PaysUnderWorkflowSnapshot
<1> QED
  BY <1>1, <1>2, <1>3, <1>4, <1>5 DEF IInv

(* The steps that neither read nor write what the flow relies on: trust    *)
(* rotation, the workflow, proposals, and the reads of the issue command.  *)
LEMMA QuietSteps ==
    ASSUME IInv, UNCHANGED <<files, asked, tokens, active, stored, flow, signed>>
    PROVE  IInv'
BY DEF IInv, TokensBindAction, FilesWereAsked, SomeActive, FlowCarries, SignedAsAdmitted,
       SignedAsProposed, PaysUnderWorkflowSnapshot, ValidateTransfer

(* An admission command adds a file and what its guard was asked.          *)
LEMMA AdmissionStep ==
    ASSUME IInv, NEW g \in Guards, NEW a \in Actions, NEW s \in Snapshots, Admission(g, a, s)
    PROVE  IInv'
<1> USE DEF IInv
<1>1. UNCHANGED <<tokens, sigs, active, stored, flow, signed>>
  BY DEF Admission, orchestrator, signer
<1>2. files \subseteq files' /\ asked \subseteq asked'
  BY DEF Admission
<1>3. FilesWereAsked'
  <2>1. ASSUME NEW f \in files', NEW h \in f.sigs
        PROVE  <<h, f.content.action, f.content>> \in asked'
    <3>1. CASE f \in files
      BY <1>2, <3>1, <2>1 DEF FilesWereAsked
    <3>2. CASE f \notin files
      <4>1. CASE /\ f = [content |-> Content(a, s, epoch, Cardinality(asked)), sigs |-> {g}]
                 /\ asked' = asked \cup {<<g, a, Content(a, s, epoch, Cardinality(asked))>>}
        BY <2>1, <4>1 DEF Content
      <4>2. CASE \E e \in files : /\ InputMatches(e, a, s)
                                   /\ f = [e EXCEPT !.sigs = @ \cup {g}]
                                   /\ asked' = asked \cup {<<g, a, e.content>>}
        <5> PICK e \in files : /\ InputMatches(e, a, s)
                               /\ f = [e EXCEPT !.sigs = @ \cup {g}]
                               /\ asked' = asked \cup {<<g, a, e.content>>}
          BY <4>2
        <5>1. f.content = e.content /\ e.content.action = a
          BY DEF InputMatches
        <5>2. h \in e.sigs \/ h = g
          BY <2>1
        <5> QED
          BY <5>1, <5>2, <1>2 DEF FilesWereAsked
      <4> QED
        BY <3>2, <4>1, <4>2 DEF Admission
    <3> QED
      BY <3>1, <3>2
  <2>2. stored' # None => stored' \in files'
    BY <1>1, <1>2 DEF FilesWereAsked
  <2> QED
    BY <2>1, <2>2 DEF FilesWereAsked
<1> QED
  BY <1>1, <1>2, <1>3 DEF TokensBindAction, SomeActive, FlowCarries, SignedAsAdmitted,
     SignedAsProposed, PaysUnderWorkflowSnapshot, ValidateTransfer

(* A token is issued only when the admission in the row is for the action  *)
(* of the proposal that was read (ClaimsAgree).                            *)
LEMMA BuildClaimsStep == ASSUME IInv, BuildClaims PROVE IInv'
<1> USE DEF IInv
<1>1. UNCHANGED <<files, asked, sigs, active, stored, flow, signed>> /\ tokens \subseteq tokens'
  BY DEF BuildClaims, ceremony, signer
<1>2. TokensBindAction'
  <2> SUFFICES ASSUME NEW tok \in tokens' PROVE tok.hash.action = tok.proposed /\ tok.snap = First
    BY DEF TokensBindAction
  <2>1. CASE tok \in tokens
    BY <2>1 DEF TokensBindAction
  <2>2. CASE tok \notin tokens
    BY <2>2 DEF BuildClaims, ClaimsAgree
  <2> QED
    BY <2>1, <2>2
<1> QED
  BY <1>1, <1>2 DEF FilesWereAsked, SomeActive, FlowCarries, SignedAsAdmitted,
     SignedAsProposed, PaysUnderWorkflowSnapshot, ValidateTransfer

(* Signature rows are added, and 'active' moves to another snapshot, under *)
(* the feet of the flow, which read it when it started.                    *)
LEMMA SnapshotSteps ==
    ASSUME IInv, NEW s \in Snapshots,
           ActivateSnapshot(s) \/ \E id \in SignerIds : PutSnapshotSignature(id, s)
    PROVE  IInv'
<1> USE DEF IInv
<1>1. UNCHANGED <<files, asked, tokens, stored, flow, signed>>
  BY DEF ActivateSnapshot, PutSnapshotSignature, ceremony, orchestrator
<1>2. SomeActive'
  BY DEF ActivateSnapshot, MakeActive, PutSnapshotSignature, SomeActive
<1> QED
  BY <1>1, <1>2 DEF TokensBindAction, FilesWereAsked, FlowCarries, SignedAsAdmitted,
     SignedAsProposed, PaysUnderWorkflowSnapshot, ValidateTransfer

(* The signer is restarted, or stores an admission it verified.            *)
LEMMA RestartAndStoreSteps ==
    ASSUME IInv, RestartSigner \/ \E f \in files, a \in Actions : StoreAdmission(f, a)
    PROVE  IInv'
<1> USE DEF IInv
<1>1. UNCHANGED <<files, asked, tokens, sigs, active, signed>>
  BY DEF RestartSigner, StoreAdmission, ceremony, orchestrator
<1>2. stored' = stored \/ stored' \in files
  BY DEF RestartSigner, StoreAdmission
<1>3. flow' = flow \/ flow' = Idle
  BY DEF RestartSigner, StoreAdmission
<1>4. FlowCarries'
  BY <1>1, <1>2, <1>3 DEF FlowCarries, FlowPcs, Idle, ValidateTransfer
<1> QED
  BY <1>1, <1>2, <1>4 DEF TokensBindAction, FilesWereAsked, SomeActive, SignedAsAdmitted,
     SignedAsProposed, PaysUnderWorkflowSnapshot, ValidateTransfer

(* The flow up to its last check: it carries an issued token and, once     *)
(* checked, a transfer that fits the token's snapshot.                     *)
LEMMA FlowSteps ==
    ASSUME IInv,
           \/ \E a \in Actions, t \in Txsets, tok \in tokens : SignMultisig(a, t, tok)
           \/ ValidateStored \/ CheckTransfer
    PROVE  IInv'
<1> USE DEF IInv
<1>1. UNCHANGED <<files, asked, tokens, sigs, active, stored>>
  BY DEF SignMultisig, ValidateStored, CheckTransfer, ceremony, orchestrator
<1>2. FlowCarries' /\ (signed' = signed \/ signed' = None)
  <2>1. ASSUME NEW a \in Actions, NEW t \in Txsets, NEW tok \in tokens, SignMultisig(a, t, tok)
        PROVE  FlowCarries' /\ signed' = None
    BY <2>1, <1>1 DEF SignMultisig, FlowCarries, FlowPcs
  <2>2. CASE ValidateStored
    <3>1. CASE flow' = Idle
      BY <2>2, <3>1 DEF ValidateStored, FlowCarries, FlowPcs, Idle
    <3>2. CASE flow' = [flow EXCEPT !.pc = "transfer"] /\ stored # None
      <4>1. flow'.pc = "transfer" /\ flow'.token = flow.token /\ flow'.snap = flow.snap
        BY <3>2, <2>2 DEF ValidateStored
      <4> QED
        BY <2>2, <3>2, <4>1, <1>1 DEF ValidateStored, FlowCarries, FlowPcs, FilesWereAsked
    <3> QED
      BY <2>2, <3>1, <3>2 DEF ValidateStored, Goes
  <2>3. CASE CheckTransfer
    <3>1. CASE flow' = Idle
      BY <2>3, <3>1 DEF CheckTransfer, FlowCarries, FlowPcs, Idle
    <3>2. CASE /\ flow' = [flow EXCEPT !.pc = "hash"]
               /\ TransferFits(flow.txset) /\ VerifyToken(flow.token)
      <4>1. /\ flow'.pc = "hash" /\ flow'.token = flow.token /\ flow'.snap = flow.snap
            /\ flow'.txset = flow.txset /\ flow'.action = flow.action
        BY <3>2, <2>3 DEF CheckTransfer
      <4>2. /\ flow.txset = flow.token.txset
            /\ ValidateTransfer(First, flow.action, Transfer[flow.txset])
        <5>1. flow.token \in tokens /\ flow.token.snap = flow.snap
          BY <2>3, <3>2 DEF CheckTransfer, FlowCarries, VerifyToken
        <5>2. flow.snap = First
          BY <5>1 DEF TokensBindAction
        <5> QED
          BY <3>2, <5>2 DEF TransferFits, VerifyToken
      <4> QED
        BY <2>3, <4>1, <4>2, <1>1 DEF CheckTransfer, FlowCarries, FlowPcs, ValidateTransfer
    <3> QED
      BY <2>3, <3>1, <3>2 DEF CheckTransfer, Goes
  <2> QED
    BY <2>1, <2>2, <2>3 DEF ValidateStored, CheckTransfer
<1> QED
  BY <1>1, <1>2 DEF TokensBindAction, FilesWereAsked, SomeActive, SignedAsAdmitted,
     SignedAsProposed, PaysUnderWorkflowSnapshot, ValidateTransfer

(* The last check brings the token and the admission together.             *)
LEMMA SignStep == ASSUME IInv, Sign PROVE IInv'
<1> USE DEF IInv
<1>1. UNCHANGED <<files, asked, tokens, sigs, active, stored>> /\ flow' = Idle /\ flow.pc = "hash"
  BY DEF Sign, ceremony, orchestrator
<1>2. FlowCarries'
  BY <1>1 DEF FlowCarries, FlowPcs, Idle
<1>3. (SignedAsAdmitted /\ SignedAsProposed /\ PaysUnderWorkflowSnapshot)'
  <2>1. CASE ~HashAgrees(stored)
    BY <1>1, <2>1 DEF Sign, SignedAsAdmitted, SignedAsProposed, PaysUnderWorkflowSnapshot, ValidateTransfer
  <2>2. CASE HashAgrees(stored)
    <3>1. signed' = [action |-> flow.action, txset |-> flow.txset, snap |-> flow.snap,
                     epoch |-> up, content |-> stored.content, token |-> flow.token]
      BY <2>2 DEF Sign
    <3>2. /\ stored.content.epoch = up /\ stored.content.snap = flow.snap
          /\ stored.content.action = flow.action
          /\ stored.sigs = Guards /\ stored.content = flow.token.hash
      BY <2>2 DEF HashAgrees, VerifyEscrowAdmission, VerifyAgainstBundle
    <3>3. /\ stored \in files /\ flow.token \in tokens
          /\ flow.txset = flow.token.txset
          /\ ValidateTransfer(First, flow.action, Transfer[flow.txset])
      BY <1>1 DEF FlowCarries
    <3>4. flow.action = flow.token.proposed
      BY <3>2, <3>3 DEF TokensBindAction
    <3>5. \A g \in Guards : <<g, flow.action, stored.content>> \in asked
      BY <3>2, <3>3 DEF FilesWereAsked
    <3> QED
      BY <3>1, <3>2, <3>3, <3>4, <3>5, <1>1
      DEF SignedAsAdmitted, SignedAsProposed, PaysUnderWorkflowSnapshot, ValidateTransfer
  <2> QED
    BY <2>1, <2>2
<1> QED
  BY <1>1, <1>2, <1>3 DEF TokensBindAction, FilesWereAsked, SomeActive

(* Every step keeps the invariant.                                         *)
LEMMA IInvInductive == IInv /\ [Next]_vars => IInv'
<1> SUFFICES ASSUME IInv, [Next]_vars PROVE IInv'
  OBVIOUS
<1>1. ASSUME RotateTrust \/ CloseWorkflow \/ ReadWorkflow \/ ReadProposal PROVE IInv'
  BY <1>1, QuietSteps DEF RotateTrust, CloseWorkflow, ReadWorkflow, ReadProposal, ceremony, orchestrator, signer
<1>2. ASSUME NEW a \in Actions, NEW t \in Txsets, UpsertProposal(a, t) PROVE IInv'
  BY <1>2, QuietSteps DEF UpsertProposal, ceremony, signer
<1>3. ASSUME NEW f \in files, UpsertAdmission(f) PROVE IInv'
  BY <1>3, QuietSteps DEF UpsertAdmission, ceremony, signer
<1>4. ASSUME NEW t \in Txsets, BuildIssueParams(t) PROVE IInv'
  BY <1>4, QuietSteps DEF BuildIssueParams, ceremony, signer
<1>5. CASE UNCHANGED vars
  BY <1>5, QuietSteps DEF vars, ceremony, orchestrator, signer
<1>6. CASE OperatorStep
  BY <1>6, <1>1, AdmissionStep DEF OperatorStep
<1>7. CASE OrchestratorStep
  BY <1>7, <1>1, <1>2, <1>3, <1>4, BuildClaimsStep DEF OrchestratorStep
<1>8. CASE SignerStep
  BY <1>8, SnapshotSteps, RestartAndStoreSteps, FlowSteps, SignStep DEF SignerStep
<1> QED
  BY <1>5, <1>6, <1>7, <1>8 DEF Next

-----------------------------------------------------------------------------
(* Both guards admitted what is signed: Admission, verify_against_bundle   *)
(* and validate_stored_escrow_admission together.                          *)
THEOREM SignsWhatGuardsAdmitted == Spec => []SignedAsAdmitted
<1>1. IInv => SignedAsAdmitted
  BY DEF IInv
<1> QED
  BY <1>1, IInvInit, IInvInductive, PTL DEF Spec

(* The token was issued for this transaction set as this action, although  *)
(* build_claims leaves the action out of the token.                        *)
THEOREM SignsWhatWasProposed == Spec => []SignedAsProposed
<1>1. IInv => SignedAsProposed
  BY DEF IInv
<1> QED
  BY <1>1, IInvInit, IInvInductive, PTL DEF Spec

(* Every output obeys the rules that the workflow's snapshot has for the   *)
(* proposed action (validate_transfer_against_snapshot), although the      *)
(* signer knows neither the workflow's snapshot nor the proposal, and its  *)
(* own active snapshot may change during the flow.                         *)
THEOREM PaysByTheWorkflowsSnapshot == Spec => []PaysUnderWorkflowSnapshot
<1>1. IInv => PaysUnderWorkflowSnapshot
  BY DEF IInv
<1> QED
  BY <1>1, IInvInit, IInvInductive, PTL DEF Spec

-----------------------------------------------------------------------------
(* A draft pays its recipients by the rules they were taken from, which    *)
(* decide about them, and leaves no required rule out.                     *)
LEMMA DraftObeysRules ==
    ASSUME NEW s \in Snapshots, NEW a \in Actions, NEW amount, ProposalAllowed(s, a, amount),
           \A i \in CandidateRules(s, a) : ~Shadowed(Policy[s][a], i)
    PROVE  ValidateTransfer(s, a, [txs |-> 1, fee |-> Policy[s].cap, unlock |-> 0, dummies |-> 0,
                                   outs |-> ProposalRecipients(s, a, amount)])
<1> DEFINE rules == Policy[s][a]
           candidates == CandidateRules(s, a)
           outs == ProposalRecipients(s, a, amount)
           Paid(i) == IF rules[i].kind = "exact" THEN rules[i].min ELSE amount
<1>1. /\ candidates \subseteq DOMAIN rules
      /\ \A i \in DOMAIN rules : rules[i].required => i \in candidates
  BY DEF CandidateRules
<1>2. DOMAIN outs = candidates
  BY DEF ProposalRecipients
<1>3. \A i \in candidates : outs[i].to = rules[i].to /\ outs[i].amount = Paid(i)
  BY DEF ProposalRecipients
<1>4. ASSUME NEW i \in candidates PROVE Paid(i) \in rules[i].min .. rules[i].max
  <2>1. /\ rules[i].min \in Nat /\ rules[i].max \in Nat
        /\ rules[i].kind = "exact" => rules[i].min = rules[i].max
    BY <1>1, AuthorizationConstants
  <2>2. rules[i].kind = "exact" \/ amount \in rules[i].min .. rules[i].max
    BY DEF ProposalAllowed, OverrideFits
  <2> QED
    BY <2>1, <2>2
<1>5. \A i \in candidates : ~Shadowed(rules, i)
  OBVIOUS
<1> HIDE DEF rules, candidates, outs, Paid
<1>6. \A k \in DOMAIN outs : Permits(rules, outs[k])
  BY <1>1, <1>2, <1>3, <1>4, <1>5 DEF Permits
<1>7. \A i \in DOMAIN rules : rules[i].required => \E k \in DOMAIN outs : outs[k].to = rules[i].to
  BY <1>1, <1>2, <1>3
<1> DEFINE tr == [txs |-> 1, fee |-> Policy[s].cap, unlock |-> 0, dummies |-> 0, outs |-> outs]
<1>8. tr.txs = 1 /\ tr.fee <= Policy[s].cap /\ tr.unlock = 0 /\ tr.dummies = 0 /\ tr.outs = outs
  BY AuthorizationConstants
<1> HIDE DEF tr
<1>9. ValidateTransfer(s, a, tr)
  BY <1>6, <1>7, <1>8 DEF ValidateTransfer, rules
<1> QED
  BY <1>9 DEF tr, outs

(* proposal_recipients_from_snapshot and                                   *)
(* validate_transfer_against_snapshot agree: what is proposed under the    *)
(* active snapshot, with any override, its own signers accept, if no       *)
(* earlier rule has the address of a rule that the draft follows.          *)
THEOREM SignersAcceptDrafts == Spec => []DraftIsValid
<1>1. IInv => DraftIsValid
  BY DraftObeysRules DEF IInv, SomeActive, DraftIsValid, DraftsAccepted
<1> QED
  BY <1>1, IInvInit, IInvInductive, PTL DEF Spec

-----------------------------------------------------------------------------
(***************************************************************************)
(* The trust ceremony behind an epoch: the guards' bundle, and the signer  *)
(* that starts from it.                                                    *)
(***************************************************************************)
(* The signatures of a bundle cover what their guards' operators had       *)
(* signed, and the keys it lists were generated.                           *)
Genuine(b, agreed, keys) ==
    /\ b \in Bundles /\ Validate(b)
    /\ \A s \in b.sigs : s.over \in agreed[s.by]
    /\ \A o \in Owners : b.keys[o] <= keys[o]

(* Exactly the guards in S signed b, each once, with a key of its own.     *)
SignedBy(b, S, keys) ==
    /\ \A s \in b.sigs : s.by \in S /\ s.over = Unsigned(b) /\ s.key \in 1 .. keys[s.by]
    /\ \A s, t \in b.sigs : s.by = t.by => s = t
    /\ \A g \in S : \E s \in b.sigs : s.by = g

KeysOK ==
    /\ vault \in [Owners -> Nat] /\ made \in [Owners -> Nat] /\ exported \in [Owners -> Nat]
    /\ \A o \in Owners : vault[o] <= made[o] /\ exported[o] <= made[o]

BundlesOK ==
    /\ DOMAIN op = Hosts
    /\ approved \in [GuardHosts -> SUBSET Contents]
    /\ bundle # NoFile => Genuine(bundle, approved, made)
    /\ \A g \in Signing : Genuine(op[g].bundle, approved, made)

(* A ceremony whose commands did not overlap keeps every signature.        *)
RiteOK ==
    /\ rite = [inits |-> rite.inits, signed |-> rite.signed, overlap |-> rite.overlap]
    /\ rite.signed \subseteq GuardHosts
    /\ bundle = NoFile => rite.signed = {} /\ Signing = {}
    /\ ~rite.overlap =>
        /\ bundle # NoFile => SignedBy(bundle, rite.signed, made)
        /\ \A g \in Signing : SignedBy(op[g].bundle, rite.signed \cup {g}, made)
        /\ \A g, h \in Signing : g = h

Checked == {"peers", "pem", "verifier", "epoch", "up"}

TrustsApproved ==
    process.pc \in Checked => \A g \in GuardHosts : Unsigned(process.bundle) \in approved[g]

(* What the signer has read so far is what is still on file.               *)
StillOnFile ==
    /\ Starting => process.peers = peers
    /\ process.pc = "bundle" => process.keys = vault[Local]
    /\ process.pc \in {"peers", "pem", "verifier", "epoch"} =>
           process.bundle = bundle /\ process.keys = process.bundle.keys[Local]
    /\ process.pc \in {"pem", "verifier", "epoch"} => process.peers = PeerBookFor(process.bundle)
    /\ process.pc \in {"verifier", "epoch"} => pem = process.bundle.keys[Issuer]
    /\ process.pc = "epoch" => process.key = pem

SignerOK ==
    /\ TrustsApproved
    /\ process.pc \in {"peers", "pem"} =>
           process = [pc |-> process.pc, peers |-> process.peers, keys |-> process.keys,
                     bundle |-> process.bundle]
    /\ ~raced => StillOnFile
    /\ StartsFromOneBundle

TrustInv == KeysOK /\ BundlesOK /\ RiteOK /\ SignerOK

LEMMA TrustInvInit == TrustInit => TrustInv
<1> SUFFICES ASSUME TrustInit PROVE TrustInv
  OBVIOUS
<1> USE DEF TrustInit
<1>1. Signing = {}
  BY DEF Signing, NoCommand, Hosts
<1>2. KeysOK
  BY DEF KeysOK
<1>3. BundlesOK
  BY <1>1 DEF BundlesOK
<1>4. RiteOK
  BY <1>1 DEF RiteOK
<1>5. SignerOK
  BY DEF SignerOK, TrustsApproved, Checked, Down, StillOnFile, Starting, StartsFromOneBundle
<1> QED
  BY <1>2, <1>3, <1>4, <1>5 DEF TrustInv

-----------------------------------------------------------------------------
(* Approvals and key generations are never taken back, so what a bundle    *)
(* shows of them stays true.                                               *)
LEMMA StaysGenuine ==
    ASSUME NEW b, NEW agreed, NEW agreed1, NEW keys, NEW keys1,
           Genuine(b, agreed, keys), \A g \in GuardHosts : agreed[g] \subseteq agreed1[g],
           \A o \in Owners : keys[o] \in Nat /\ keys1[o] \in Nat /\ keys[o] <= keys1[o]
    PROVE  Genuine(b, agreed1, keys1)
<1>1. b \in Bundles /\ Validate(b)
  BY DEF Genuine
<1>2. \A s \in b.sigs : s.over \in agreed1[s.by]
  BY DEF Genuine, Bundles, Signatures
<1>3. \A o \in Owners : b.keys[o] <= keys1[o]
  BY DEF Genuine, Bundles
<1> QED
  BY <1>1, <1>2, <1>3 DEF Genuine

LEMMA StaysSigned ==
    ASSUME NEW b \in Bundles, NEW S, NEW keys, NEW keys1, SignedBy(b, S, keys),
           \A o \in Owners : keys[o] \in Nat /\ keys1[o] \in Nat /\ keys[o] <= keys1[o]
    PROVE  SignedBy(b, S, keys1)
<1>1. ASSUME NEW s \in b.sigs PROVE s.by \in S /\ s.over = Unsigned(b) /\ s.key \in 1 .. keys1[s.by]
  <2>1. s.by \in Owners /\ s.key \in 1 .. keys[s.by] /\ s.by \in S /\ s.over = Unsigned(b)
    BY DEF SignedBy, Bundles, Signatures, Owners, Hosts
  <2> QED
    BY <2>1
<1> QED
  BY <1>1 DEF SignedBy

LEMMA GuardsOwn == GuardHosts \subseteq Owners /\ Local \in Owners /\ Issuer \in Owners /\ GuardHosts \subseteq Hosts
BY DEF Owners, Hosts

(* A step that leaves the bundle alone and starts no sign-bundle.          *)
LEMMA CeremonyRests ==
    ASSUME TrustInv, UNCHANGED <<bundle, approved, rite>>, KeysOK',
           \A o \in Owners : made[o] <= made'[o],
           DOMAIN op' = Hosts, \A g \in Signing' : g \in Signing /\ op'[g] = op[g]
    PROVE  BundlesOK' /\ RiteOK'
<1>1. \A o \in Owners : made[o] \in Nat /\ made'[o] \in Nat /\ made[o] <= made'[o]
  BY DEF TrustInv, KeysOK
<1>2. \A g \in GuardHosts : approved[g] \subseteq approved'[g]
  OBVIOUS
<1>3. bundle' # NoFile => Genuine(bundle', approved', made')
  BY <1>1, <1>2, StaysGenuine DEF TrustInv, BundlesOK
<1>4. \A g \in Signing' : Genuine(op'[g].bundle, approved', made')
  BY <1>1, <1>2, StaysGenuine DEF TrustInv, BundlesOK
<1>5. BundlesOK'
  BY <1>3, <1>4 DEF TrustInv, BundlesOK
<1>6. bundle' = NoFile => rite'.signed = {} /\ Signing' = {}
  BY DEF TrustInv, RiteOK
<1>7. ASSUME ~rite.overlap, bundle' # NoFile PROVE SignedBy(bundle', rite'.signed, made')
  BY <1>1, <1>7, StaysSigned DEF TrustInv, RiteOK, BundlesOK, Genuine
<1>8. ASSUME ~rite.overlap, NEW g \in Signing' PROVE SignedBy(op'[g].bundle, rite'.signed \cup {g}, made')
  <2>1. op'[g].bundle = op[g].bundle /\ op[g].bundle \in Bundles
        /\ SignedBy(op[g].bundle, rite.signed \cup {g}, made)
    BY <1>8 DEF TrustInv, RiteOK, BundlesOK, Genuine
  <2> QED
    BY <1>1, <2>1, StaysSigned
<1>9. ~rite.overlap => \A g, h \in Signing' : g = h
  BY DEF TrustInv, RiteOK
<1>10. RiteOK'
  BY <1>6, <1>7, <1>8, <1>9 DEF TrustInv, RiteOK
<1> QED
  BY <1>5, <1>10

(* init-bundle starts a ceremony with no signature.                        *)
LEMMA InitBundleKeeps ==
    ASSUME TrustInv, NEW e \in Epochs, InitBundle(e)
    PROVE  KeysOK' /\ BundlesOK' /\ RiteOK'
<1> DEFINE b == FromHostIdentities(e)
<1>1. /\ bundle' = b /\ Validate(b)
      /\ rite' = [inits |-> rite.inits + 1, signed |-> {}, overlap |-> Signing # {}]
      /\ UNCHANGED <<vault, made, exported, op, approved>>
  BY DEF InitBundle
<1>2. b \in Bundles /\ b.sigs = {} /\ b.keys = exported /\ bundle' # NoFile
  BY <1>1 DEF FromHostIdentities, Bundles, TrustInv, KeysOK, Validate
<1>3. KeysOK'
  BY <1>1 DEF TrustInv, KeysOK
<1>4. Genuine(bundle', approved', made')
  BY <1>1, <1>2 DEF Genuine, TrustInv, KeysOK
<1>5. Signing' = Signing
  BY <1>1 DEF Signing
<1>6. BundlesOK'
  BY <1>1, <1>4, <1>5 DEF TrustInv, BundlesOK
<1>7. ~rite'.overlap => Signing' = {}
  BY <1>1, <1>5, Zenon
<1>8. SignedBy(bundle', {}, made')
  BY <1>1, <1>2 DEF SignedBy
<1>9. rite'.signed = {} /\ rite' = [inits |-> rite'.inits, signed |-> rite'.signed, overlap |-> rite'.overlap]
  BY <1>1
<1>10. RiteOK'
  BY <1>2, <1>7, <1>8, <1>9, Zenon DEF RiteOK
<1> QED
  BY <1>3, <1>6, <1>10

(* The guard's own signature takes the place of its earlier one.           *)
LEMMA SignedFacts ==
    ASSUME TrustInv, NEW g \in GuardHosts, Genuine(bundle, approved, made),
           NEW k, k = vault[g], k # 0, NEW b, b = Signed(bundle, g, k)
    PROVE  /\ b \in Bundles /\ Validate(b) /\ Unsigned(b) = Unsigned(bundle) /\ b.keys = bundle.keys
           /\ b.sigs = {s \in bundle.sigs : s.by # g}
                         \cup {[by |-> g, key |-> k, over |-> Unsigned(bundle)]}
           /\ k \in 1 .. made[g] /\ Unsigned(bundle) \in Contents
<1> DEFINE sig == [by |-> g, key |-> k, over |-> Unsigned(bundle)]
           rows == {s \in bundle.sigs : s.by # g} \cup {sig}
<1>1. bundle \in Bundles /\ Validate(bundle)
  BY DEF Genuine
<1>2. Unsigned(bundle) \in Contents
  BY <1>1 DEF Unsigned, Contents, Bundles
<1>3. k \in 1 .. made[g] /\ k \in Nat
  BY GuardsOwn DEF TrustInv, KeysOK
<1>4. sig \in Signatures
  BY <1>2, <1>3 DEF Signatures
<1>5. rows \in SUBSET Signatures
  BY <1>1, <1>4 DEF Bundles
<1>6. b = [bundle EXCEPT !.sigs = rows]
  BY DEF Signed
<1> HIDE DEF rows
<1>7. b = [epoch |-> bundle.epoch, keys |-> bundle.keys, sigs |-> rows]
  BY <1>1, <1>6 DEF Bundles
<1>8. b \in Bundles /\ b.epoch = bundle.epoch /\ b.keys = bundle.keys /\ b.sigs = rows
  BY <1>1, <1>5, <1>7 DEF Bundles
<1>9. Unsigned(b) = Unsigned(bundle)
  BY <1>8 DEF Unsigned
<1> QED
  BY <1>1, <1>2, <1>3, <1>8, <1>9, HostTrustConstants DEF rows, Validate

(* A guard's signature joins the others.                                   *)
LEMMA SignatureJoins ==
    ASSUME TrustInv, NEW g \in GuardHosts, Genuine(bundle, approved, made), NEW S \in SUBSET GuardHosts,
           SignedBy(bundle, S, made),
           NEW k, k = vault[g], k # 0, NEW b, b = Signed(bundle, g, k)
    PROVE  SignedBy(b, S \cup {g}, made)
<1> DEFINE sig == [by |-> g, key |-> k, over |-> Unsigned(bundle)]
           old == {s \in bundle.sigs : s.by # g}
<1>1. /\ Unsigned(b) = Unsigned(bundle) /\ b.sigs = old \cup {sig} /\ k \in 1 .. made[g]
  BY SignedFacts
<1>2. sig.by = g /\ sig.key = k /\ sig.over = Unsigned(bundle)
  OBVIOUS
<1> HIDE DEF sig
<1>3. \A s \in b.sigs : s.by \in S \cup {g} /\ s.over = Unsigned(b) /\ s.key \in 1 .. made[s.by]
  <2> SUFFICES ASSUME NEW s \in b.sigs
               PROVE  s.by \in S \cup {g} /\ s.over = Unsigned(b) /\ s.key \in 1 .. made[s.by]
    OBVIOUS
  <2>1. CASE s \in bundle.sigs
    BY <1>1, <2>1 DEF SignedBy
  <2>2. CASE s = sig
    BY <1>1, <1>2, <2>2
  <2> QED
    BY <1>1, <2>1, <2>2
<1>4. \A s, t \in b.sigs : s.by = t.by => s = t
  BY <1>1, <1>2 DEF SignedBy
<1>5. \A h \in S \cup {g} : \E s \in b.sigs : s.by = h
  <2> SUFFICES ASSUME NEW h \in S \cup {g} PROVE \E s \in b.sigs : s.by = h
    OBVIOUS
  <2>1. CASE h = g
    BY <1>1, <1>2, <2>1
  <2>2. CASE h # g
    <3>1. PICK s \in bundle.sigs : s.by = h
      BY <2>2 DEF SignedBy
    <3> QED
      BY <1>1, <2>2, <3>1
  <2> QED
    BY <2>1, <2>2
<1> QED
  BY <1>3, <1>4, <1>5 DEF SignedBy

(* sign-bundle: the guard approves what it read, and nothing else of the   *)
(* ceremony changes until the file is written back.                        *)
LEMMA SignBundleKeeps ==
    ASSUME TrustInv, NEW g \in GuardHosts, SignBundle(g)
    PROVE  KeysOK' /\ BundlesOK' /\ RiteOK'
<1> DEFINE k == vault[g]
           b == Signed(bundle, g, k)
           c == [cmd |-> "bundle", bundle |-> b]
<1>1. /\ k # 0 /\ Validate(bundle) /\ op[g] = NoCommand /\ op' = [op EXCEPT ![g] = c]
      /\ approved' = [approved EXCEPT ![g] = @ \cup {Unsigned(bundle)}]
      /\ rite' = [rite EXCEPT !.overlap = @ \/ Signing # {}]
      /\ UNCHANGED <<vault, made, exported, bundle>>
  BY DEF SignBundle, Begin, Opens, LoadVault, trustFiles
<1>2. bundle # NoFile /\ Genuine(bundle, approved, made)
  BY <1>1 DEF Validate, TrustInv, BundlesOK
<1>3. /\ b \in Bundles /\ Validate(b) /\ Unsigned(b) = Unsigned(bundle) /\ b.keys = bundle.keys
      /\ b.sigs = {s \in bundle.sigs : s.by # g}
                    \cup {[by |-> g, key |-> k, over |-> Unsigned(bundle)]}
      /\ k \in 1 .. made[g] /\ Unsigned(bundle) \in Contents
  BY <1>1, <1>2, SignedFacts
<1>4. c.cmd = "bundle" /\ c.bundle = b
  OBVIOUS
<1> HIDE DEF b, c
<1>5. /\ DOMAIN op' = Hosts /\ op'[g] = c /\ \A h \in Hosts : h # g => op'[h] = op[h]
      /\ g \in Hosts
  BY <1>1, GuardsOwn DEF TrustInv, BundlesOK
<1>6. g \in Signing' /\ \A h \in Signing' : h = g \/ (h \in Signing /\ op'[h] = op[h])
  BY <1>4, <1>5, GuardsOwn DEF Signing
<1>7. /\ approved' \in [GuardHosts -> SUBSET Contents] /\ Unsigned(bundle) \in approved'[g]
      /\ \A h \in GuardHosts : approved[h] \subseteq approved'[h]
  BY <1>1, <1>3 DEF TrustInv, BundlesOK
<1>8. \A o \in Owners : made[o] \in Nat /\ made'[o] \in Nat /\ made[o] <= made'[o]
  BY <1>1 DEF TrustInv, KeysOK
<1>9. KeysOK'
  BY <1>1 DEF TrustInv, KeysOK
<1>10. Genuine(bundle', approved', made')
  BY <1>1, <1>2, <1>7, <1>8, StaysGenuine
<1>11. Genuine(b, approved', made')
  <2>1. ASSUME NEW s \in b.sigs PROVE s.over \in approved'[s.by]
    <3>1. CASE s \in bundle.sigs
      BY <1>1, <1>10, <3>1 DEF Genuine
    <3>2. CASE s = [by |-> g, key |-> k, over |-> Unsigned(bundle)]
      BY <1>7, <3>2
    <3> QED
      BY <1>3, <3>1, <3>2
  <2>2. \A o \in Owners : b.keys[o] <= made'[o]
    BY <1>1, <1>2, <1>3 DEF Genuine
  <2> QED
    BY <1>3, <2>1, <2>2 DEF Genuine
<1>12. \A h \in Signing' : Genuine(op'[h].bundle, approved', made')
  BY <1>4, <1>5, <1>6, <1>7, <1>8, <1>11, StaysGenuine DEF TrustInv, BundlesOK
<1>13. BundlesOK'
  BY <1>5, <1>7, <1>10, <1>12 DEF BundlesOK
<1>14. /\ rite' = [inits |-> rite'.inits, signed |-> rite'.signed, overlap |-> rite'.overlap]
       /\ rite'.signed = rite.signed
  BY <1>1 DEF TrustInv, RiteOK
<1>15. ~rite'.overlap => ~rite.overlap /\ Signing = {}
  <2>1. rite'.overlap = (rite.overlap \/ Signing # {})
    BY <1>1 DEF TrustInv, RiteOK
  <2> QED
    BY <2>1, Zenon
<1>16. ASSUME ~rite'.overlap
       PROVE  /\ SignedBy(bundle', rite'.signed, made')
              /\ \A h \in Signing' : SignedBy(op'[h].bundle, rite'.signed \cup {h}, made')
              /\ \A h, i \in Signing' : h = i
  <2>1. ~rite.overlap /\ Signing = {}
    BY <1>15, <1>16
  <2>2. SignedBy(bundle, rite.signed, made) /\ rite.signed \in SUBSET GuardHosts
    BY <1>2, <2>1 DEF TrustInv, RiteOK
  <2>3. SignedBy(b, rite.signed \cup {g}, made)
    BY <1>1, <1>2, <2>2, SignatureJoins DEF b
  <2> QED
    BY <1>1, <1>4, <1>5, <1>6, <1>14, <2>1, <2>2, <2>3
<1>17. RiteOK'
  BY <1>1, <1>2, <1>14, <1>16 DEF RiteOK, TrustInv
<1> QED
  BY <1>9, <1>13, <1>17

(* The signed bundle replaces the file.                                    *)
LEMMA WriteBundleKeeps ==
    ASSUME TrustInv, NEW g \in GuardHosts, WriteBundle(g)
    PROVE  KeysOK' /\ BundlesOK' /\ RiteOK'
<1> DEFINE b == op[g].bundle
<1>1. /\ op[g].cmd = "bundle" /\ bundle' = b /\ op' = [op EXCEPT ![g] = NoCommand]
      /\ rite' = [rite EXCEPT !.signed = @ \cup {g}]
      /\ UNCHANGED <<vault, made, exported, approved>>
  BY DEF WriteBundle, End
<1>2. g \in Signing /\ Genuine(b, approved, made) /\ b # NoFile
  BY <1>1 DEF TrustInv, BundlesOK, Signing, Genuine, Validate
<1>3. /\ DOMAIN op' = Hosts /\ op'[g] = NoCommand /\ \A h \in Hosts : h # g => op'[h] = op[h]
  BY <1>1, GuardsOwn DEF TrustInv, BundlesOK
<1>4. \A h \in Signing' : h # g /\ h \in Signing /\ op'[h] = op[h]
  BY <1>3, GuardsOwn DEF Signing, NoCommand
<1>5. KeysOK'
  BY <1>1 DEF TrustInv, KeysOK
<1>6. BundlesOK'
  BY <1>1, <1>2, <1>3, <1>4 DEF TrustInv, BundlesOK
<1>7. /\ rite' = [inits |-> rite'.inits, signed |-> rite'.signed, overlap |-> rite'.overlap]
      /\ rite'.signed = rite.signed \cup {g} /\ rite'.overlap = rite.overlap
  BY <1>1 DEF TrustInv, RiteOK
<1>8. ASSUME ~rite'.overlap
      PROVE  SignedBy(bundle', rite'.signed, made') /\ Signing' = {}
  <2>1. SignedBy(b, rite.signed \cup {g}, made) /\ \A h \in Signing : h = g
    BY <1>2, <1>7, <1>8 DEF TrustInv, RiteOK
  <2> QED
    BY <1>1, <1>4, <1>7, <2>1
<1>9. RiteOK'
  BY <1>1, <1>2, <1>7, <1>8 DEF RiteOK, TrustInv
<1> QED
  BY <1>5, <1>6, <1>9

-----------------------------------------------------------------------------
(* Operators never touch the signer: a file they change while it starts is *)
(* a race, and what it runs with is its own copy.                          *)
LEMMA SignerRests ==
    ASSUME TrustInv, UNCHANGED process, \A g \in GuardHosts : approved[g] \subseteq approved'[g],
           Touch \/ UNCHANGED <<raced, vault, bundle, peers, pem>>
    PROVE  SignerOK'
<1>1. TrustsApproved'
  BY DEF TrustInv, SignerOK, TrustsApproved, Unsigned
<1>2. ~raced' => ~raced
  BY Zenon DEF Touch
<1>3. StartsFromOneBundle'
  BY <1>2 DEF TrustInv, SignerOK, StartsFromOneBundle, PeerBookFor
<1>4. ASSUME ~raced' PROVE StillOnFile'
  <2>1. CASE UNCHANGED <<raced, vault, bundle, peers, pem>>
    BY <1>2, <1>4, <2>1 DEF TrustInv, SignerOK, StillOnFile, Starting, PeerBookFor
  <2>2. CASE Touch
    <3>1. ~Starting
      BY <1>4, <2>2, Zenon DEF Touch
    <3>2. process'.pc \in {"down", "up"}
      BY <3>1 DEF Starting
    <3> QED
      BY <3>2 DEF StillOnFile, Starting
  <2> QED
    BY <2>1, <2>2
<1> QED
  BY <1>1, <1>3, <1>4 DEF TrustInv, SignerOK

(* Commands that leave the bundle alone.                                   *)
LEMMA OthersKeep ==
    ASSUME TrustInv,
           \/ \E o \in Owners : NewVault(o) \/ Retire(o) \/ \E k \in Nat : k <= made[o] /\ Exports(o, k)
           \/ Materialize \/ WritePeers \/ WritePem
           \/ \E h \in Hosts : Dies(h)
    PROVE  TrustInv'
<1>1. UNCHANGED <<bundle, approved, rite, process>>
  BY DEF NewVault, Retire, Exports, Materialize, WritePeers, WritePem, Dies, trustFiles, past
<1>2. KeysOK' /\ \A o \in Owners : made[o] <= made'[o]
  <2>1. ASSUME NEW o \in Owners, NewVault(o) PROVE KeysOK' /\ \A q \in Owners : made[q] <= made'[q]
    BY <2>1 DEF NewVault, StoreVault, TrustInv, KeysOK
  <2>2. ASSUME NEW o \in Owners, Retire(o) PROVE KeysOK' /\ \A q \in Owners : made[q] <= made'[q]
    BY <2>2 DEF Retire, StoreVault, TrustInv, KeysOK
  <2>3. ASSUME NEW o \in Owners, NEW k \in Nat, k <= made[o], Exports(o, k)
        PROVE  KeysOK' /\ \A q \in Owners : made[q] <= made'[q]
    BY <2>3 DEF Exports, TrustInv, KeysOK
  <2>4. CASE UNCHANGED <<vault, made, exported>>
    BY <2>4 DEF TrustInv, KeysOK
  <2> QED
    BY <2>1, <2>2, <2>3, <2>4 DEF Materialize, WritePeers, WritePem, Dies, trustFiles
<1>3. DOMAIN op' = Hosts /\ \A g \in Signing' : g \in Signing /\ op'[g] = op[g]
  <2>1. CASE UNCHANGED op
    BY <2>1 DEF TrustInv, BundlesOK, Signing
  <2>2. ASSUME NEW h \in Hosts, End(h)
        PROVE  DOMAIN op' = Hosts /\ \A g \in Signing' : g \in Signing /\ op'[g] = op[g]
    BY <2>2, GuardsOwn DEF End, TrustInv, BundlesOK, Signing, NoCommand
  <2>3. CASE \/ op' = [op EXCEPT ![Local] = [cmd |-> "peers", bundle |-> bundle]]
             \/ op' = [op EXCEPT ![Local].cmd = "pem"]
    BY <2>3, GuardsOwn, HostTrustConstants DEF TrustInv, BundlesOK, Signing
  <2>4. Local \in Hosts
    BY DEF Hosts
  <2> QED
    BY <2>1, <2>2, <2>3, <2>4 DEF NewVault, Retire, Exports, Materialize, Begin, WritePeers, WritePem, Dies
<1>4. BundlesOK' /\ RiteOK'
  BY <1>1, <1>2, <1>3, CeremonyRests
<1>5. Touch \/ UNCHANGED <<raced, vault, bundle, peers, pem>>
  BY DEF NewVault, Retire, Exports, Materialize, WritePeers, WritePem, Dies, trustFiles, past
<1>6. SignerOK'
  BY <1>1, <1>5, SignerRests
<1> QED
  BY <1>2, <1>4, <1>6 DEF TrustInv

LEMMA OperatorKeeps == ASSUME TrustInv, CommandStep PROVE TrustInv'
<1>1. ASSUME NEW o \in Owners PROVE vault[o] \in Nat /\ vault[o] <= made[o]
  BY DEF TrustInv, KeysOK
<1>2. CASE \E h \in Hosts : GenerateHostVault(h) \/ ExportHostIdentity(h)
  BY <1>1, <1>2, OthersKeep DEF GenerateHostVault, ExportHostIdentity, LoadVault, Owners
<1>3. CASE GenerateIssuerVault \/ ExportIssuer
  BY <1>1, <1>3, OthersKeep DEF GenerateIssuerVault, ExportIssuer, LoadIssuerVault, Owners
<1>4. CASE (\E o \in Owners : Retire(o)) \/ Materialize \/ WritePeers \/ WritePem \/ \E h \in Hosts : Dies(h)
  BY <1>4, OthersKeep
<1>5. ASSUME NEW e \in Epochs, InitBundle(e) PROVE TrustInv'
  <2>1. UNCHANGED <<process, approved>> /\ Touch
    BY <1>5 DEF InitBundle
  <2>2. SignerOK'
    BY <2>1, SignerRests
  <2> QED
    BY <1>5, <2>2, InitBundleKeeps DEF TrustInv
<1>6. ASSUME NEW g \in GuardHosts, SignBundle(g) PROVE TrustInv'
  <2>1. /\ UNCHANGED <<raced, vault, bundle, peers, pem>> /\ UNCHANGED process
        /\ \A h \in GuardHosts : approved[h] \subseteq approved'[h]
    BY <1>6 DEF SignBundle, trustFiles, TrustInv, BundlesOK
  <2>2. SignerOK'
    BY <2>1, SignerRests
  <2> QED
    BY <1>6, <2>2, SignBundleKeeps DEF TrustInv
<1>7. ASSUME NEW g \in GuardHosts, WriteBundle(g) PROVE TrustInv'
  <2>1. UNCHANGED <<process, approved>> /\ Touch
    BY <1>7 DEF WriteBundle
  <2>2. SignerOK'
    BY <2>1, SignerRests
  <2> QED
    BY <1>7, <2>2, WriteBundleKeeps DEF TrustInv
<1> QED
  BY <1>2, <1>3, <1>4, <1>5, <1>6, <1>7 DEF CommandStep

-----------------------------------------------------------------------------
(* A bundle that passes the quorum has been approved by both guards.       *)
LEMMA QuorumApproved ==
    ASSUME TrustInv, VerifyGuardQuorum(bundle)
    PROVE  \A g \in GuardHosts : Unsigned(bundle) \in approved[g]
<1>1. \A s \in bundle.sigs : s.over \in approved[s.by]
  BY DEF VerifyGuardQuorum, Validate, TrustInv, BundlesOK, Genuine
<1> SUFFICES ASSUME NEW g \in GuardHosts PROVE Unsigned(bundle) \in approved[g]
  OBVIOUS
<1>2. PICK s \in bundle.sigs : s.by = g /\ s.over = Unsigned(bundle)
  BY DEF VerifyGuardQuorum
<1> QED
  BY <1>1, <1>2

(* The signer steps read the files and change only the signer.             *)
LEMMA SignerStepRests ==
    ASSUME TrustInv, StartStep
    PROVE  KeysOK' /\ BundlesOK' /\ RiteOK'
<1>1. UNCHANGED <<vault, made, exported, bundle, op, approved, rite>>
  BY DEF StartStep, LoadPeers, LoadKeys, CheckBundle, CheckPeers, CheckPem, LoadVerifierKey,
      LoadVerifierEpoch, Stop, trustFiles, past
<1>2. KeysOK' /\ (\A o \in Owners : made[o] <= made'[o]) /\ UNCHANGED <<bundle, approved, rite>>
  BY <1>1 DEF TrustInv, KeysOK
<1>3. DOMAIN op' = Hosts /\ \A g \in Signing' : g \in Signing /\ op'[g] = op[g]
  BY <1>1 DEF TrustInv, BundlesOK, Signing
<1> QED
  BY <1>2, <1>3, CeremonyRests

LEMMA DownIsOK == ASSUME process' = Down PROVE SignerOK'
BY DEF SignerOK, Down, TrustsApproved, Checked, StillOnFile, Starting, StartsFromOneBundle

LEMMA SignerKeeps == ASSUME TrustInv, StartStep PROVE SignerOK'
<1> USE DEF TrustInv, SignerOK
<1>1. CASE process' = Down
  BY <1>1, DownIsOK
<1>2. CASE LoadPeers
  <2>1. process' = [pc |-> "keys", peers |-> peers] /\ UNCHANGED peers
    BY <1>2 DEF LoadPeers, trustFiles
  <2>2. process'.pc = "keys" /\ process'.peers = peers'
    BY <2>1
  <2> QED
    BY <2>2 DEF TrustsApproved, Checked, StillOnFile, Starting, StartsFromOneBundle
<1>3. CASE LoadKeys /\ process' # Down
  <2>1. /\ process' = [pc |-> "bundle", peers |-> process.peers, keys |-> vault[Local]]
        /\ process.pc = "keys" /\ UNCHANGED <<vault, peers, raced>>
    BY <1>3 DEF LoadKeys, GoOn, LoadVault, trustFiles, past
  <2>2. process'.pc = "bundle" /\ process'.peers = process.peers /\ process'.keys = vault'[Local]
    BY <2>1
  <2> QED
    BY <2>1, <2>2 DEF TrustsApproved, Checked, StillOnFile, Starting, StartsFromOneBundle
<1>4. CASE CheckBundle /\ process' # Down
  <2>1. /\ process' = [pc |-> "peers", peers |-> process.peers, keys |-> process.keys, bundle |-> bundle]
        /\ process.pc = "bundle" /\ VerifyGuardQuorum(bundle) /\ vault[Local] = bundle.keys[Local]
        /\ UNCHANGED <<vault, peers, bundle, raced, approved>>
    BY <1>4 DEF CheckBundle, GoOn, LoadVault, ValidateLocalKeys, trustFiles, past
  <2>2. /\ process'.pc = "peers" /\ process'.peers = process.peers /\ process'.keys = process.keys
        /\ process'.bundle = bundle
        /\ process' = [pc |-> process'.pc, peers |-> process'.peers, keys |-> process'.keys,
                      bundle |-> process'.bundle]
    BY <2>1
  <2>3. TrustsApproved'
    BY <2>1, <2>2, QuorumApproved DEF TrustsApproved, Unsigned
  <2> QED
    BY <2>1, <2>2, <2>3 DEF StillOnFile, Starting, StartsFromOneBundle
<1>5. CASE CheckPeers /\ process' # Down
  <2>1. /\ process' = [process EXCEPT !.pc = "pem"] /\ process.pc = "peers"
        /\ peers = PeerBookFor(process.bundle) /\ UNCHANGED <<vault, peers, bundle, raced, approved>>
    BY <1>5 DEF CheckPeers, GoOn, PeersMatch, trustFiles, past
  <2>2. /\ process'.pc = "pem" /\ process'.peers = process.peers /\ process'.keys = process.keys
        /\ process'.bundle = process.bundle
        /\ process' = [pc |-> process'.pc, peers |-> process'.peers, keys |-> process'.keys,
                      bundle |-> process'.bundle]
    BY <2>1
  <2>3. TrustsApproved'
    BY <2>1, <2>2 DEF TrustsApproved, Unsigned, Checked
  <2> QED
    BY <2>1, <2>2, <2>3 DEF StillOnFile, Starting, StartsFromOneBundle, PeerBookFor
<1>6. CASE CheckPem /\ process' # Down
  <2>1. /\ process' = [process EXCEPT !.pc = "verifier"] /\ process.pc = "pem"
        /\ pem = process.bundle.keys[Issuer] /\ UNCHANGED <<vault, peers, pem, bundle, raced, approved>>
    BY <1>6 DEF CheckPem, GoOn, trustFiles, past
  <2>2. /\ process'.pc = "verifier" /\ process'.peers = process.peers /\ process'.keys = process.keys
        /\ process'.bundle = process.bundle
    BY <2>1
  <2>3. TrustsApproved'
    BY <2>1, <2>2 DEF TrustsApproved, Unsigned, Checked
  <2> QED
    BY <2>1, <2>2, <2>3 DEF StillOnFile, Starting, StartsFromOneBundle, PeerBookFor
<1>7. CASE LoadVerifierKey
  <2>1. /\ process' = [pc |-> "epoch", peers |-> process.peers, keys |-> process.keys,
                      bundle |-> process.bundle, key |-> pem]
        /\ process.pc = "verifier" /\ UNCHANGED <<vault, peers, pem, bundle, raced, approved>>
    BY <1>7 DEF LoadVerifierKey, trustFiles, past
  <2>2. /\ process'.pc = "epoch" /\ process'.peers = process.peers /\ process'.keys = process.keys
        /\ process'.bundle = process.bundle /\ process'.key = pem
    BY <2>1
  <2>3. TrustsApproved'
    BY <2>1, <2>2 DEF TrustsApproved, Unsigned, Checked
  <2> QED
    BY <2>1, <2>2, <2>3 DEF StillOnFile, Starting, StartsFromOneBundle, PeerBookFor
<1>8. CASE LoadVerifierEpoch /\ process' # Down
  <2>1. /\ process' = [pc |-> "up", peers |-> process.peers, keys |-> process.keys,
                      bundle |-> process.bundle, key |-> process.key, epoch |-> bundle.epoch]
        /\ process.pc = "epoch" /\ UNCHANGED <<raced, approved>>
    BY <1>8 DEF LoadVerifierEpoch, GoOn, trustFiles, past
  <2>2. /\ process'.pc = "up" /\ process'.peers = process.peers /\ process'.keys = process.keys
        /\ process'.bundle = process.bundle /\ process'.key = process.key /\ process'.epoch = bundle.epoch
    BY <2>1
  <2>3. TrustsApproved'
    BY <2>1, <2>2 DEF TrustsApproved, Unsigned, Checked
  <2>4. ~raced => /\ process.bundle = bundle /\ process.peers = PeerBookFor(process.bundle)
                  /\ process.keys = process.bundle.keys[Local] /\ process.key = process.bundle.keys[Issuer]
    BY <2>1 DEF StillOnFile
  <2>5. StartsFromOneBundle'
    BY <2>1, <2>2, <2>4 DEF StartsFromOneBundle, PeerBookFor
  <2> QED
    BY <2>2, <2>3, <2>5 DEF StillOnFile, Starting
<1> QED
  BY <1>1, <1>2, <1>3, <1>4, <1>5, <1>6, <1>7, <1>8 DEF StartStep, Stop

(* Every step keeps the invariant.                                         *)
LEMMA TrustInvNext == TrustInv /\ [TrustNext]_trustVars => TrustInv'
<1> SUFFICES ASSUME TrustInv, [TrustNext]_trustVars PROVE TrustInv'
  OBVIOUS
<1>1. CASE CommandStep
  BY <1>1, OperatorKeeps
<1>2. CASE StartStep
  BY <1>2, SignerKeeps, SignerStepRests DEF TrustInv
<1>3. CASE UNCHANGED trustVars
  <2>1. UNCHANGED <<vault, made, exported, bundle, peers, pem, op, process, approved, rite, raced>>
    BY <1>3 DEF trustVars, trustFiles, past
  <2>2. KeysOK' /\ (\A o \in Owners : made[o] <= made'[o]) /\ UNCHANGED <<bundle, approved, rite>>
    BY <2>1 DEF TrustInv, KeysOK
  <2>3. DOMAIN op' = Hosts /\ \A g \in Signing' : g \in Signing /\ op'[g] = op[g]
    BY <2>1 DEF TrustInv, BundlesOK, Signing
  <2>4. BundlesOK' /\ RiteOK'
    BY <2>2, <2>3, CeremonyRests
  <2>5. UNCHANGED <<raced, vault, bundle, peers, pem>> /\ UNCHANGED <<process, approved>>
    BY <2>1
  <2>6. SignerOK'
    BY <2>5, SignerRests
  <2> QED
    BY <2>2, <2>4, <2>6 DEF TrustInv
<1> QED
  BY <1>1, <1>2, <1>3 DEF TrustNext

LEMMA TrustInvariant == TrustSpec => []TrustInv
BY TrustInvInit, TrustInvNext, PTL DEF TrustSpec

-----------------------------------------------------------------------------
(* There are two guards.                                                   *)
LEMMA TwoGuards == \E g, h \in GuardHosts : g # h /\ GuardHosts = {g, h}
<1>1. IsFiniteSet(GuardHosts) /\ Cardinality(GuardHosts) = 2
  BY HostTrustConstants
<1>2. GuardHosts # {}
  BY <1>1, FS_EmptySet
<1>3. PICK g : g \in GuardHosts
  BY <1>2
<1>4. IsFiniteSet(GuardHosts \ {g}) /\ Cardinality(GuardHosts \ {g}) = 1
  BY <1>1, <1>3, FS_RemoveElement
<1>5. PICK h : GuardHosts \ {g} = {h}
  BY <1>4, FS_Singleton
<1> QED
  BY <1>3, <1>5

(* A bundle that each guard signed once, with the only key it ever had,    *)
(* passes the quorum.                                                      *)
LEMMA CompleteIsQuorum ==
    ASSUME NEW b, b # NoFile, Genuine(b, approved, made), SignedBy(b, GuardHosts, made),
           \A g \in GuardHosts : made[g] = 1
    PROVE  VerifyGuardQuorum(b)
<1>1. PICK g1 \in GuardHosts, g2 \in GuardHosts : g1 # g2 /\ GuardHosts = {g1, g2}
  BY TwoGuards
<1>2. PICK s1 \in b.sigs : s1.by = g1
  BY DEF SignedBy
<1>3. PICK s2 \in b.sigs : s2.by = g2
  BY DEF SignedBy
<1>4. b.sigs = {s1, s2} /\ s1 # s2
  BY <1>1, <1>2, <1>3 DEF SignedBy
<1>5. Cardinality({s1, s2}) = 2
  <2>1. IsFiniteSet({s1}) /\ Cardinality({s1}) = 1 /\ {s1, s2} = {s1} \cup {s2} /\ s2 \notin {s1}
    BY <1>4, FS_Singleton
  <2>2. Cardinality({s1} \cup {s2}) = IF s2 \in {s1} THEN Cardinality({s1}) ELSE Cardinality({s1}) + 1
    BY <2>1, FS_AddElement
  <2> QED
    BY <2>1, <2>2
<1>6. ASSUME NEW g \in GuardHosts PROVE b.keys[g] = 1
  BY GuardsOwn DEF Genuine, Validate, Bundles
<1>7. ASSUME NEW g \in GuardHosts PROVE \E s \in b.sigs : s.by = g /\ s.key = b.keys[g] /\ s.over = Unsigned(b)
  <2>1. PICK s \in b.sigs : s.by = g
    BY DEF SignedBy
  <2>2. s.key \in 1 .. 1 /\ s.over = Unsigned(b)
    BY <2>1 DEF SignedBy
  <2>3. s.key = b.keys[g]
    BY <1>6, <2>2
  <2> QED
    BY <2>1, <2>2, <2>3
<1> QED
  BY <1>4, <1>5, <1>7 DEF VerifyGuardQuorum, Genuine

(* A running signer trusts only what the operators of both guards signed,  *)
(* and a ceremony whose commands did not overlap ends with a bundle that   *)
(* verifies (sign_runtime_trust_bundle, verify_guard_quorum), for every    *)
(* number of bundles, epochs and key generations.                          *)
THEOREM BothGuardsStandBehindTheSigner == TrustSpec => []RunsUnderBothGuards
<1>1. TrustInv => RunsUnderBothGuards
  <2> SUFFICES ASSUME TrustInv PROVE RunsUnderBothGuards
    OBVIOUS
  <2>1. process.pc = "up" => \A g \in GuardHosts : Unsigned(process.bundle) \in approved[g]
    BY DEF TrustInv, SignerOK, TrustsApproved, Checked
  <2>2. ASSUME rite.signed = GuardHosts, ~rite.overlap, \A g \in GuardHosts : made[g] = 1
        PROVE  VerifyGuardQuorum(bundle)
    <3>1. bundle # NoFile
      BY <2>2, TwoGuards DEF TrustInv, RiteOK
    <3>2. Genuine(bundle, approved, made) /\ SignedBy(bundle, GuardHosts, made)
      BY <2>2, <3>1 DEF TrustInv, RiteOK, BundlesOK
    <3> QED
      BY <2>2, <3>1, <3>2, CompleteIsQuorum
  <2> QED
    BY <2>1, <2>2 DEF RunsUnderBothGuards
<1> QED
  BY <1>1, TrustInvariant, PTL

(* A signer whose trust files did not change during its start runs with    *)
(* the projection of one bundle (SignerAgent::from_config).                *)
THEOREM SignerRunsWithOneBundle == TrustSpec => []StartsFromOneBundle
<1>1. TrustInv => StartsFromOneBundle
  BY DEF TrustInv, SignerOK
<1> QED
  BY <1>1, TrustInvariant, PTL
=============================================================================
