--------------------------- MODULE Authorization ---------------------------
(***************************************************************************)
(* What must agree before a signer signs: the snapshot that its operator   *)
(* activated, the admission that both guards signed, the proposal that the *)
(* orchestrator issued a token for, and the transfer in the transaction    *)
(* set (admission.rs of nxms-transport, the admission                      *)
(* command of nxms-host-bootstrap, action_token.rs and db.rs of the        *)
(* orchestrator and of the signer, snapshot.rs and flow_ops.rs).           *)
(*                                                                         *)
(* One escrow.  A hash is the content it is taken of, so the hash of an    *)
(* admission leaves out its signatures.  Every database call and every     *)
(* file read is a step of its own.  The trust bundle is reduced to its     *)
(* epoch (see HostTrust); what follows the last check (request row, replay *)
(* guard, wallet) is left to SignerFlows, and tokens do not expire.        *)
(*                                                                         *)
(* A snapshot signature is told apart by its signer_id, a free text.  Its  *)
(* key comes with the signature file and is compared with nothing, so the  *)
(* ids, and a quorum of them, say nothing of who signed; keys are left     *)
(* out.                                                                    *)
(***************************************************************************)
EXTENDS Naturals, FiniteSets, Sequences

CONSTANTS
    Guards,         \* the two hosts with a guard role
    SignerIds,      \* signer_id of snapshot signatures
    Quorum,         \* cfg.snapshot_quorum
    Actions,        \* release, refund
    Snapshots,      \* snapshot hashes
    Policy,         \* Policy[s][a]: the list of recipient rules; cap: the fee cap of s
    Txsets,         \* transaction sets
    Transfer,       \* Transfer[t]: what describe_transfer says of t
    Overrides,      \* amount_override_atomic of a proposal, or None
    First,          \* the snapshot of the workflow, and the first active one
    MaxEpoch,       \* bound: trust epochs
    MaxAdmissions,  \* bound: runs of the admission command
    MaxProposals,   \* bound: proposals stored after the first
    MaxTokens,      \* bound: tokens issued
    None            \* no row, no token, no signature

ASSUME AuthorizationConstants ==
    /\ Cardinality(Guards) = 2
    /\ First \in Snapshots
    /\ IsFiniteSet(SignerIds)
    /\ Quorum \in 1 .. Cardinality(SignerIds)
    /\ \A s \in Snapshots :
           /\ Policy[s].cap \in Nat
           /\ \A a \in Actions : \A i \in DOMAIN Policy[s][a] :
                  /\ Policy[s][a][i].min \in Nat /\ Policy[s][a][i].max \in Nat
                  /\ Policy[s][a][i].kind = "exact" => Policy[s][a][i].min = Policy[s][a][i].max

VARIABLES
    epoch,      \* trust epoch of the bundle on disk
    files,      \* admission artifacts written, [content, sigs]
    asked,      \* history: <<guard, action, content>> of every admission
    wf,         \* workflow state: open (tokens are issued) or closed
    proposal,   \* row of proposal_blobs
    upserts,    \* proposals stored after the first
    admission,  \* row of the orchestrator's escrow_admission_artifacts
    issue,      \* the action-token issue command
    tokens,     \* tokens issued
    sigs,       \* sigs[s]: signer ids of the rows of snapshot_sigs
    active,     \* the snapshot with status 'active'
    up,         \* trust epoch the signer runs with
    stored,     \* row of the signer's escrow_admission_artifacts
    flow,       \* the sign_multisig flow
    signed      \* history: what the flow signed last

ceremony     == <<epoch, files, asked>>
orchestrator == <<wf, proposal, upserts, admission, issue, tokens>>
signer       == <<sigs, active, up, stored, flow, signed>>
vars         == <<ceremony, orchestrator, signer>>

Idle == [pc |-> "idle"]

-----------------------------------------------------------------------------
(* An earlier rule of the list has the same address.                       *)
Shadowed(rules, i) == \E j \in 1 .. i - 1 : rules[j].to = rules[i].to

(* The first rule for the recipient decides.                               *)
Permits(rules, out) ==
    \E i \in DOMAIN rules :
        rules[i].to = out.to /\ ~Shadowed(rules, i) /\ out.amount \in rules[i].min .. rules[i].max

(* validate_transfer_against_snapshot.  An Exact rule has min = max; split *)
(* transactions and dummy outputs are banned, as in every snapshot that    *)
(* `snapshot new` makes.                                                   *)
ValidateTransfer(s, a, tr) ==
    /\ tr.txs = 1
    /\ tr.fee <= Policy[s].cap
    /\ tr.unlock = 0
    /\ tr.dummies = 0
    /\ \A k \in DOMAIN tr.outs : Permits(Policy[s][a], tr.outs[k])
    /\ \A i \in DOMAIN Policy[s][a] :
           Policy[s][a][i].required => \E k \in DOMAIN tr.outs : tr.outs[k].to = Policy[s][a][i].to

(* proposal_recipients_from_snapshot: the positions of the required rules, *)
(* or all of them; the amount of a range comes from the override.          *)
CandidateRules(s, a) ==
    LET required == {i \in DOMAIN Policy[s][a] : Policy[s][a][i].required}
    IN  IF required # {} THEN required ELSE DOMAIN Policy[s][a]

(* Mutated form: the override is taken as it is.                           *)
OverrideUnchecked(rule, amount) == rule.kind = "exact" \/ amount # None

OverrideFits(rule, amount) ==
    rule.kind = "exact" \/ (amount # None /\ amount \in rule.min .. rule.max)

ProposalAllowed(s, a, amount) ==
    /\ CandidateRules(s, a) # {}
    /\ \A i \in CandidateRules(s, a) : OverrideFits(Policy[s][a][i], amount)

(* One recipient for every candidate.                                      *)
ProposalRecipients(s, a, amount) ==
    [i \in CandidateRules(s, a) |->
        LET rule == Policy[s][a][i]
        IN  [to |-> rule.to, amount |-> IF rule.kind = "exact" THEN rule.min ELSE amount]]

-----------------------------------------------------------------------------
Content(a, s, e, n) == [action |-> a, snap |-> s, epoch |-> e, at |-> n]

(* verify_against_bundle: the epoch, and one signature of each guard.      *)
VerifyAgainstBundle(f, e) == f.content.epoch = e /\ f.sigs = Guards

(* The escrow is funded, its snapshot active, its release admitted and     *)
(* proposed.                                                               *)
Init ==
    LET release == Content("release", First, 1, 0)
    IN  /\ epoch = 1
        /\ files = {[content |-> release, sigs |-> Guards]}
        /\ asked = {<<g, "release", release>> : g \in Guards}
        /\ wf = "open" /\ upserts = 0 /\ admission = None
        /\ proposal = [action |-> "release",
                       txset |-> CHOOSE t \in Txsets : ValidateTransfer(First, "release", Transfer[t])]
        /\ issue = Idle /\ tokens = {}
        /\ sigs = [s \in Snapshots |-> IF s = First THEN SignerIds ELSE {}]
        /\ active = First
        /\ up = 1 /\ stored = None /\ flow = Idle /\ signed = None

-----------------------------------------------------------------------------
(* A new bundle, signed and materialized.                                  *)
RotateTrust ==
    /\ epoch < MaxEpoch
    /\ epoch' = epoch + 1
    /\ UNCHANGED <<files, asked, orchestrator, signer>>

(* Mutated form: the artifact's action is not compared with --action.      *)
InputOfSnapshot(f, a, s) == f.content.snap = s /\ f.content.epoch = epoch

InputMatches(f, a, s) == f.content.action = a /\ f.content.snap = s /\ f.content.epoch = epoch

(* handle_admission: without --in a new artifact (its admitted_at is the   *)
(* count of commands so far), with --in one that another guard wrote.      *)
Admission(g, a, s) ==
    /\ Cardinality(asked) < MaxAdmissions
    /\ \/ LET c == Content(a, s, epoch, Cardinality(asked))
          IN  /\ files' = files \cup {[content |-> c, sigs |-> {g}]}
              /\ asked' = asked \cup {<<g, a, c>>}
       \/ \E f \in files :
              /\ InputMatches(f, a, s)
              /\ files' = files \cup {[f EXCEPT !.sigs = @ \cup {g}]}
              /\ asked' = asked \cup {<<g, a, f.content>>}
    /\ UNCHANGED <<epoch, orchestrator, signer>>

-----------------------------------------------------------------------------
(* The workflow leaves the states that allow tokens.                       *)
CloseWorkflow ==
    /\ wf = "open"
    /\ wf' = "closed"
    /\ UNCHANGED <<ceremony, proposal, upserts, admission, issue, tokens, signer>>

UpsertProposal(a, t) ==
    /\ wf = "open"
    /\ upserts < MaxProposals
    /\ upserts' = upserts + 1
    /\ proposal' = [action |-> a, txset |-> t]
    /\ UNCHANGED <<ceremony, wf, admission, issue, tokens, signer>>

(* Only the snapshot is checked, not the signatures.                       *)
UpsertAdmission(f) ==
    /\ f.content.snap = First
    /\ admission' = f.content
    /\ UNCHANGED <<ceremony, wf, proposal, upserts, issue, tokens, signer>>

(* build_issue_params: the verified bundle's epoch.                        *)
BuildIssueParams(t) ==
    /\ issue = Idle
    /\ Cardinality(tokens) < MaxTokens
    /\ issue' = [pc |-> "workflow", txset |-> t, epoch |-> epoch]
    /\ UNCHANGED <<ceremony, wf, proposal, upserts, admission, tokens, signer>>

Fails == issue' = Idle

ReadWorkflow ==
    /\ issue.pc = "workflow"
    /\ IF wf = "open" THEN issue' = [issue EXCEPT !.pc = "proposal"] ELSE Fails
    /\ UNCHANGED <<ceremony, wf, proposal, upserts, admission, tokens, signer>>

ReadProposal ==
    /\ issue.pc = "proposal"
    /\ IF proposal.txset = issue.txset
       THEN issue' = [pc |-> "admission", txset |-> issue.txset, epoch |-> issue.epoch,
                      action |-> proposal.action]
       ELSE Fails
    /\ UNCHANGED <<ceremony, wf, proposal, upserts, admission, tokens, signer>>

(* Mutated form: the action of the admission is not compared.              *)
ClaimsForSnapshot(row) == row # None /\ row.snap = First /\ row.epoch = issue.epoch

ClaimsAgree(row) ==
    /\ row # None
    /\ row.snap = First
    /\ row.epoch = issue.epoch
    /\ row.action = issue.action

(* build_claims and encode: the token names the txset, the snapshot, the   *)
(* epoch and the admission's hash, but not the action ("proposed" is       *)
(* history).                                                               *)
BuildClaims ==
    /\ issue.pc = "admission"
    /\ Fails
    /\ tokens' = tokens \cup
           (IF ClaimsAgree(admission)
            THEN {[txset |-> issue.txset, snap |-> First, epoch |-> issue.epoch,
                   hash |-> admission, proposed |-> issue.action]}
            ELSE {})
    /\ UNCHANGED <<ceremony, wf, proposal, upserts, admission, signer>>

-----------------------------------------------------------------------------
(* snapshot activate: the rows of its signature files, each verified under *)
(* the key it brings, then the switch.                                     *)
PutSnapshotSignature(id, s) ==
    /\ id \notin sigs[s]
    /\ sigs' = [sigs EXCEPT ![s] = @ \cup {id}]
    /\ UNCHANGED <<ceremony, orchestrator, active, up, stored, flow, signed>>

SignaturesOf(s) == sigs[s]

(* activate_snapshot: counts the rows and moves 'active' in a transaction. *)
MakeActive(s) == Cardinality(SignaturesOf(s)) >= Quorum /\ active' = s

ActivateSnapshot(s) ==
    /\ active # s
    /\ MakeActive(s)
    /\ UNCHANGED <<ceremony, orchestrator, sigs, up, stored, flow, signed>>

(* The process is replaced by one that reads the bundle of the day.        *)
RestartSigner ==
    /\ up # epoch
    /\ up' = epoch
    /\ flow' = Idle
    /\ UNCHANGED <<ceremony, orchestrator, sigs, active, stored, signed>>

(* verify_escrow_admission_artifact.                                       *)
VerifyEscrowAdmission(f, s, a) ==
    /\ VerifyAgainstBundle(f, up)
    /\ f.content.snap = s
    /\ f.content.action = a

(* handle_tx_sign_req stores the artifact of the request.                  *)
StoreAdmission(f, a) ==
    /\ VerifyEscrowAdmission(f, active, a)
    /\ stored' = f
    /\ UNCHANGED <<ceremony, orchestrator, sigs, active, up, flow, signed>>

(* sign_multisig_flow reads the active snapshot once.                      *)
SignMultisig(a, t, tok) ==
    /\ flow = Idle
    /\ flow' = [pc |-> "admission", action |-> a, txset |-> t, token |-> tok, snap |-> active]
    /\ signed' = None
    /\ UNCHANGED <<ceremony, orchestrator, sigs, active, up, stored>>

Goes(ok, pc) == flow' = IF ok THEN [flow EXCEPT !.pc = pc] ELSE Idle

(* validate_stored_escrow_admission without a hash.                        *)
ValidateStored ==
    /\ flow.pc = "admission"
    /\ Goes(stored # None /\ VerifyEscrowAdmission(stored, flow.snap, flow.action), "transfer")
    /\ UNCHANGED <<ceremony, orchestrator, sigs, active, up, stored, signed>>

(* describe_transfer, the policy, and verify_common on the token.          *)
VerifyToken(tok) ==
    /\ tok.txset = flow.txset
    /\ tok.snap = flow.snap
    /\ tok.epoch = up

(* Mutated form: the rules of either action will do.                       *)
TransferOfAnyAction(t) == \E a \in Actions : ValidateTransfer(flow.snap, a, Transfer[t])

TransferFits(t) == ValidateTransfer(flow.snap, flow.action, Transfer[t])

CheckTransfer ==
    /\ flow.pc = "transfer"
    /\ Goes(TransferFits(flow.txset) /\ VerifyToken(flow.token), "hash")
    /\ UNCHANGED <<ceremony, orchestrator, sigs, active, up, stored, signed>>

HashAgrees(f) == VerifyEscrowAdmission(f, flow.snap, flow.action) /\ f.content = flow.token.hash

(* validate_stored_escrow_admission with the token's hash, then the rest.  *)
Sign ==
    /\ flow.pc = "hash"
    /\ flow' = Idle
    /\ signed' = IF HashAgrees(stored)
                 THEN [action |-> flow.action, txset |-> flow.txset, snap |-> flow.snap,
                       epoch |-> up, content |-> stored.content, token |-> flow.token]
                 ELSE signed
    /\ UNCHANGED <<ceremony, orchestrator, sigs, active, up, stored>>

-----------------------------------------------------------------------------
OperatorStep ==
    \/ RotateTrust
    \/ \E g \in Guards, a \in Actions, s \in Snapshots : Admission(g, a, s)

OrchestratorStep ==
    \/ CloseWorkflow
    \/ \E a \in Actions, t \in Txsets : UpsertProposal(a, t)
    \/ \E f \in files : UpsertAdmission(f)
    \/ \E t \in Txsets : BuildIssueParams(t)
    \/ ReadWorkflow \/ ReadProposal \/ BuildClaims

SignerStep ==
    \/ \E s \in Snapshots : ActivateSnapshot(s) \/ \E id \in SignerIds : PutSnapshotSignature(id, s)
    \/ RestartSigner
    \/ \E f \in files, a \in Actions : StoreAdmission(f, a)
    \/ \E a \in Actions, t \in Txsets, tok \in tokens : SignMultisig(a, t, tok)
    \/ ValidateStored \/ CheckTransfer \/ Sign

Next == OperatorStep \/ OrchestratorStep \/ SignerStep

Spec == Init /\ [][Next]_vars

-----------------------------------------------------------------------------
(* Whatever the signer signs, the operators of both guards admitted that   *)
(* very action for that snapshot, under the epoch the signer runs with.    *)
SignedAsAdmitted ==
    signed # None =>
        /\ signed.content.epoch = signed.epoch /\ signed.content.snap = signed.snap
        /\ \A g \in Guards : <<g, signed.action, signed.content>> \in asked

(* A transaction set is signed only as the action it was proposed as when  *)
(* its token was issued, although the token does not name the action and   *)
(* the proposal and the admission were read at different moments.          *)
SignedAsProposed ==
    signed # None => signed.action = signed.token.proposed /\ signed.txset = signed.token.txset

(* What is signed pays by the rules that the workflow's own snapshot has   *)
(* for the action it was proposed as when its token was issued, whatever   *)
(* snapshots the signer's operator activated before, between and after:    *)
(* the signer checks the transfer against the snapshot that was active     *)
(* when the flow started and against the action its caller named.          *)
PaysUnderWorkflowSnapshot ==
    signed # None => ValidateTransfer(First, signed.token.proposed, Transfer[signed.txset])

(* The snapshots whose drafts their own signers accept: what               *)
(* propose_multisig_flow asks the wallet for, with whatever override the   *)
(* caller gave, passes the signers' check of the transfer, unless a rule   *)
(* that the draft follows has an earlier rule for the same address in      *)
(* front of it: the draft goes through all candidate rules, the check      *)
(* stops at the first.                                                     *)
DraftsAccepted ==
    {s \in Snapshots : \A a \in Actions, amount \in Overrides :
        /\ ProposalAllowed(s, a, amount)
        /\ \A i \in CandidateRules(s, a) : ~Shadowed(Policy[s][a], i)
        => ValidateTransfer(s, a, [txs |-> 1, fee |-> Policy[s].cap, unlock |-> 0, dummies |-> 0,
                                   outs |-> ProposalRecipients(s, a, amount)])}

(* Whatever snapshot is active, propose_multisig_flow drafts nothing under *)
(* it that the signers then refuse (shadowed rules apart, see above).      *)
DraftIsValid == active \in DraftsAccepted
=============================================================================
