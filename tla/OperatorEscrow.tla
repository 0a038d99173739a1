--------------------------- MODULE OperatorEscrow ---------------------------
(***************************************************************************)
(* The operator's side of an escrow whose money is a note of the privAI    *)
(* chain (operator_escrow.rs of nxms-escrow-orchestrator): a funding       *)
(* event is checked against the operator's own view of the ledger, a       *)
(* snapshot and spend proposals are built from it, approvals arrive from   *)
(* the parties in any order and any number of times, and a quorum becomes  *)
(* the authorisation of a transaction.                                     *)
(*                                                                         *)
(* The ledger lives outside the repository; notes are minted and spent by  *)
(* others at any moment, between the operator's two reads too.  The ledger *)
(* rebuilds the signing hash from the transaction it is given and wants    *)
(* signatures by a quorum of the keys in the note's policy.  The operator  *)
(* tells approvals apart by the signer_index its caller gives each, and    *)
(* by nothing else.  Hashes are the records they are computed from; fees   *)
(* and the role written into an entry are left out.                        *)
(***************************************************************************)
EXTENDS Naturals, FiniteSets, Sequences, SequencesExt

CONSTANTS
    Notes,          \* note commits
    Parties,        \* keys of the policy: buyer, merchant, operator
    Keys,           \* every key somebody may sign an approval with
    Indices,        \* signer_index
    Actions,        \* EscrowAction
    Quorum,         \* approvals that finalize a bundle, 2 in the code's use
    MaxProposals,   \* bound: proposals built
    MaxApprovals,   \* bound: approvals the parties send
    MaxBundles      \* bound: bundles finalized

ASSUME OperatorEscrowConstants ==
    /\ IsFiniteSet(Parties) /\ Parties \subseteq Keys
    /\ Quorum \in 1 .. Cardinality(Parties)

VARIABLES
    ledger,     \* ledger[n]: "absent", "unspent" or "spent"
    policy,     \* policy[n]: whether the note commits to the descriptor's policy
    confirming, \* notes read as unspent whose policy is not read yet
    snapshots,  \* notes a snapshot was built for
    proposals,  \* spend proposals built
    approvals,  \* approvals sent: proposal, key, what the signature is over
    builders,   \* the entries collected for each proposal: index and approval
    bundles,    \* finalized bundles
    paid        \* history: transactions of this escrow the ledger took

vars == <<ledger, policy, confirming, snapshots, proposals, approvals, builders, bundles, paid>>

Proposal == [note : Notes, action : Actions, to : Parties]
Signers  == {q \in SUBSET Keys : Cardinality(q) = Quorum}

Init ==
    /\ ledger = [n \in Notes |-> "absent"]
    /\ policy \in [Notes -> {"agreed", "other"}]
    /\ confirming = {} /\ snapshots = {} /\ proposals = {} /\ approvals = {}
    /\ builders = [p \in Proposal |-> <<>>]
    /\ bundles = {} /\ paid = {}

-----------------------------------------------------------------------------
(* The ledger: someone mints a note; a note that is not under this         *)
(* escrow's policy is spent by whoever owns it.                            *)
Mint(n) ==
    /\ ledger[n] = "absent"
    /\ ledger' = [ledger EXCEPT ![n] = "unspent"]
    /\ UNCHANGED <<policy, confirming, snapshots, proposals, approvals, builders, bundles, paid>>

SpendOther(n) ==
    /\ ledger[n] = "unspent" /\ policy[n] = "other"
    /\ ledger' = [ledger EXCEPT ![n] = "spent"]
    /\ UNCHANGED <<policy, confirming, snapshots, proposals, approvals, builders, bundles, paid>>

-----------------------------------------------------------------------------
(* process_funding_event, first read: is_note_unspent.                     *)
ReadUnspent(n) ==
    /\ ledger[n] = "unspent"
    /\ confirming' = confirming \cup {n}
    /\ UNCHANGED <<ledger, policy, snapshots, proposals, approvals, builders, bundles, paid>>

(* Mutated form: the policy is not compared.                               *)
PolicyUnread(n) == TRUE

(* The second read knows the policies of unspent notes only, and a note    *)
(* without one passes.                                                     *)
PolicyAgrees(n) == ledger[n] = "unspent" => policy[n] = "agreed"

(* process_funding_event, second read: the policy commit; then             *)
(* build_snapshot, or the event is refused.                                *)
ReadPolicy(n) ==
    /\ n \in confirming
    /\ confirming' = confirming \ {n}
    /\ snapshots' = IF PolicyAgrees(n) THEN snapshots \cup {n} ELSE snapshots
    /\ UNCHANGED <<ledger, policy, proposals, approvals, builders, bundles, paid>>

(* build_proposal: action and recipient are the caller's.                  *)
BuildProposal(n, a, to) ==
    /\ n \in snapshots
    /\ Cardinality(proposals) < MaxProposals
    /\ proposals' = proposals \cup {[note |-> n, action |-> a, to |-> to]}
    /\ UNCHANGED <<ledger, policy, confirming, snapshots, approvals, builders, bundles, paid>>

(* Mutated form: the action is not part of what is signed.                 *)
HashWithoutAction(n, a, to, keys) == [note |-> n, to |-> to, keys |-> keys]

(* tx_signing_hash of the transaction of build_tx_skeleton: the keys of    *)
(* the signers are part of it, and so is the action.                       *)
SigningHash(n, a, to, keys) == [note |-> n, action |-> a, to |-> to, keys |-> keys]

(* Someone approves a proposal it received and signs, with its own key k,  *)
(* the transaction that the signers named in keys will submit.             *)
Approve(k, p, keys) ==
    /\ p \in proposals
    /\ k \in keys
    /\ Cardinality(approvals) < MaxApprovals
    /\ approvals' = approvals \cup
           {[proposal |-> p, key |-> k, over |-> SigningHash(p.note, p.action, p.to, keys)]}
    /\ UNCHANGED <<ledger, policy, confirming, snapshots, proposals, builders, bundles, paid>>

-----------------------------------------------------------------------------
EntriesOf(b) == Range(b)

(* add_approval: the approval names this bundle's proposal ...             *)
ForThis(p, m) == m.proposal = p

(* Mutated form: an index may be used again.                               *)
AnyIndex(b, i) == TRUE

(* ... and nothing was added under the same index yet.                     *)
NewSigner(b, i) == \A e \in EntriesOf(b) : e.index # i

(* add_approval on a message, which stays in the network and may be added  *)
(* again.  Index, key and signature are the caller's; neither the key nor  *)
(* the signature is looked at.                                             *)
AddApproval(p, i, m) ==
    /\ p \in proposals
    /\ ForThis(p, m) /\ NewSigner(builders[p], i)
    /\ builders' = [builders EXCEPT ![p] = Append(@, [index |-> i, sent |-> m])]
    /\ UNCHANGED <<ledger, policy, confirming, snapshots, proposals, approvals, bundles, paid>>

(* finalize_bundle consumes the builder; below the quorum it fails, and    *)
(* the approvals collected so far are gone.                                *)
FinalizeBundle(p) ==
    /\ builders[p] # <<>> /\ Cardinality(bundles) < MaxBundles
    /\ builders' = [builders EXCEPT ![p] = <<>>]
    /\ bundles' = IF Len(builders[p]) >= Quorum
                  THEN bundles \cup {[proposal |-> p, entries |-> builders[p]]}
                  ELSE bundles
    /\ UNCHANGED <<ledger, policy, confirming, snapshots, proposals, approvals, paid>>

(* bundle_to_input_auth: the keys of the bundle.                           *)
KeysOf(b) == {e.sent.key : e \in EntriesOf(b.entries)}

(* The ledger: a quorum of the policy's keys, no other key, and every      *)
(* signature over the transaction it is given.                             *)
LedgerAccepts(b, hash) ==
    /\ KeysOf(b) \subseteq Parties /\ Cardinality(KeysOf(b)) >= Quorum
    /\ \A e \in EntriesOf(b.entries) : e.sent.over = hash

(* A transaction built from a bundle; the caller names the action again.   *)
(* The ledger takes it if the note is unspent and under this policy.       *)
Submit(b, a) ==
    LET p == b.proposal
    IN  /\ ledger[p.note] = "unspent" /\ policy[p.note] = "agreed"
        /\ LedgerAccepts(b, SigningHash(p.note, a, p.to, KeysOf(b)))
        /\ ledger' = [ledger EXCEPT ![p.note] = "spent"]
        /\ paid' = paid \cup {[note |-> p.note, action |-> a, to |-> p.to, keys |-> KeysOf(b)]}
        /\ UNCHANGED <<policy, confirming, snapshots, proposals, approvals, builders, bundles>>

-----------------------------------------------------------------------------
Next ==
    \/ \E n \in Notes : Mint(n) \/ SpendOther(n) \/ ReadUnspent(n) \/ ReadPolicy(n)
    \/ \E n \in Notes, a \in Actions, to \in Parties : BuildProposal(n, a, to)
    \/ \E p \in proposals :
           \/ \E k \in Keys, keys \in Signers : Approve(k, p, keys)
           \/ \E i \in Indices, m \in approvals : AddApproval(p, i, m)
           \/ FinalizeBundle(p)
    \/ \E b \in bundles, a \in Actions : Submit(b, a)

Spec == Init /\ [][Next]_vars

-----------------------------------------------------------------------------
(* The operator does not trust the event: a note it built a snapshot for   *)
(* is under the descriptor's policy, unless it was spent between the two   *)
(* reads and the snapshot is of money already gone.                        *)
FundingIsReal ==
    \A n \in snapshots : policy[n] = "agreed" \/ ledger[n] = "spent"

(* Whatever is delivered twice, late, out of order or for another          *)
(* proposal, a finalized bundle holds entries under a quorum of different  *)
(* indices, each an approval sent for this very proposal.  Whose approval  *)
(* it is nobody looked at; that is left to the ledger.  What it takes was  *)
(* approved, action and recipient both, by a quorum of the policy's keys,  *)
(* even though the action is named again when the transaction is built.    *)
ApprovedBy(k, proposal) == \E m \in approvals : m.key = k /\ m.proposal = proposal
PaidAsApproved ==
    /\ \A b \in bundles :
          /\ Cardinality({e.index : e \in EntriesOf(b.entries)}) >= Quorum
          /\ \A e \in EntriesOf(b.entries) : ApprovedBy(e.sent.key, b.proposal)
    /\ \A t \in paid :
          /\ t.keys \subseteq Parties /\ Cardinality(t.keys) >= Quorum
          /\ \A k \in t.keys : ApprovedBy(k, [note |-> t.note, action |-> t.action, to |-> t.to])

(* Not a property of this code (see Further observations in the README):   *)
(* what finalize_bundle's comment says, a quorum of 2 of the 3 parties.    *)
(* The code counts indices, and one key may stand under two of them.       *)
BundleOfQuorum ==
    \A b \in bundles : Cardinality(KeysOf(b) \cap Parties) >= Quorum
=============================================================================
