# Nexum core: TLA+ models, model checking and proofs

This directory specifies the parts of Nexum core that decide whether a Monero
escrow is signed, relayed and settled correctly. It holds TLA+ modules
translated from the Rust source, the TLC configurations that check them on
small instances, and TLAPS proofs of the results that matter most for every
instance. `PROJECT.json` lists for every definition the source lines it models.

Run a configuration with `tlc -config MCEscrow.cfg MCEscrow` and a proof with
`tlapm SignerFlowsProofs.tla`, in this directory.

## 1. Inventory

Nexum moves 2-of-3 multisig escrows (buyer, seller, arbiter) through key
exchange, funding, signing and relaying. Its processes share no memory: they
exchange signed and encrypted envelopes through a store-and-forward mailbox,
and keep what they know in SQLite.

| Component | State | Operations | Interacts with |
|---|---|---|---|
| Mailbox relay (`nxms-mailbox`) | `messages` rows with lease and expiry, per-inbox wakeups, rate limiter | push, pull (lease + long poll), ack, expiry sweep | every sender and receiver, over HTTP |
| Signer receive path (`agent.rs`, `agent/transport.rs`) | `incoming_seen`, `out_seq`, `pending_tx_sign` | pull batch, validate, replay guard, enqueue, ack | mailbox, signer database |
| Signer pending decisions (`agent/pending.rs`) | status and staged payload of each pending row | `approve_pending`, `reject_pending` | wallet, signer database, mailbox |
| Signer flows (`agent/flow_ops.rs`) | `sign_request_dedup`, `consumed_action_jti`, `sign_events`, cached results | `sign_multisig`, `submit_multisig` | wallet-rpc, orchestrator subprocess |
| Orchestrator database (`nxms-escrow-orchestrator/db.rs`, `flow.rs`) | workflow state, steps, outbox, dead letters, inbox offsets, proposals, quorum proofs | record, enqueue, mark, transition, upsert | signer, operators |
| Action tokens (issuer in the orchestrator, verifier in the signer) | issued and consumed token ids | `build_claims`, verify | both flows |
| Wallet-rpc runtime (`nxms-monero-core/rpc`) | client cache, circuit breakers, endpoint mutexes; the wallet each process has open | `wallet_rpc_call`, `ensure_wallet_open` | wallet-rpc processes shared by escrows |
| Escrow contract and bridge (`multisig/state.rs`, `bridge.rs`, `fee_policy.rs`) | state, round infos, addresses, confirmations, dispute | `submit_r1..3`, `funded_check`, dispute, release, refund | the arbiter's wallet, the host service |
| Trust ceremony (`nxms-host-bootstrap`, `bootstrap.rs`, `trust.rs`, vaults) | vault files, exported identities, the runtime trust bundle, `peers.json`, the issuer's PEM | create, export, `init-bundle`, `sign-bundle`, `materialize-local`; the signer's start | two guard hosts, signer host, token issuer |
| Authorization (`admission.rs`, both `action_token.rs`, `snapshot.rs`) | snapshots and their signatures, admission artifacts, the proposal, the token | `admission`, `snapshot activate`, `action-token issue`, the checks of `sign_multisig` | guards, orchestrator, signer |
| Operator escrow (`operator_escrow.rs`) | funding events, snapshots, proposals, approval bundles | `process_funding_event`, `build_proposal`, `add_approval`, `finalize_bundle`, `build_tx_skeleton` | an external note ledger, the parties |
| Reports (orchestrator `db.rs`) | none; reads every table | integrity check, delivery report, SLO metrics and alerts | orchestrator database |
| Peer daemon (`nxms-peer`) | vault, `peer_state.json` | `init-vault`, `export-identity`, `sign-req` | mailbox, signers |
| Configuration, Tor and P2P, dashboards, iOS vault | none that evolves | | |

What is hard in this system, and what correctness means for each part:

- **Signer flows.** One server's handlers queue on its `op_lock`, but operator
  commands and a second process work on the same database; each database call,
  wallet call and subprocess call is a point at which another flow runs or the
  process dies. A flow is also cut off when its HTTP caller hangs up, since it runs
  inside the handler's future. A wallet error may hide a call that took
  effect. Correct means: one flow at a time owns a request, a token makes the
  wallet act once, a completed request is only ever answered from its record,
  nothing is relayed that this signer did not sign, and no request is left
  owned by nobody, unless its own flow was cut off.
- **Receive path.** The mailbox redelivers until it is acknowledged, and the
  acknowledgement can be lost. Correct means: a request is queued once and never
  behind a newer one, it leaves the mailbox only when the signer is done with
  it, and no message is redelivered for ever.
- **Pending decisions.** Operator commands are processes of their own and can
  overlap or die anywhere. Correct means: one sequence number, one answer; one
  approval of a txset; a decision on record was sent.
- **Mailbox.** Pushes, pulls, acks and the sweep read the clock before their
  transaction starts. Correct means: no message is out under two running leases,
  quotas hold, only an expiry or the latest receipt removes a message, and a lost
  wakeup does not strand one.
- **Orchestrator database.** Callers retry, duplicate and reorder. Correct means:
  no step ahead of the workflow, recorded steps are immutable, a dead letter is
  on record, no proof before funding.
- **Wallet runtime.** Several tasks, several escrows, one wallet open per
  process. Correct means: nothing that is done under the endpoint mutex puts a method
  on another escrow's wallet, nobody works behind an open breaker, the cache keeps its limit, every call returns.
- **Escrow contract.** Correct means: no deposit address before every party
  took part in every round, the arbiter computed from what is on record, one
  quorum settles, the fee is covered, nothing on record is replaced.
- **Trust ceremony.** Commands of two guards rewrite one bundle file, and the
  signer reads several files while it starts. Correct means: a signer only runs
  under what both guards signed, and with the projection of one bundle.
- **Authorization.** A token is built, and a request checked, from tables that
  change between the reads, and the token does not name the action. Correct
  means: what is signed was admitted by both guards and proposed as that very
  action, and pays by the rules of the workflow's snapshot.
- **Operator escrow.** The ledger moves between the operator's reads; approvals
  come late, twice, for other proposals and under any index. Correct means: funding is
  real, and the escrow pays what a quorum of the parties' keys approved.
- **Reports.** Rows move while a report counts them. Correct means: what it says
  is true of a row nobody touched, and dead letters above the threshold raise the alert.
- **Peer daemon.** Calls are processes over one sequence file and one inbox, and
  an answer does not name its request. Correct means: a row of the inbox goes to one
  call, orderly calls get their own answers, and a call that dies makes no later one a
  replay.

`PROJECT.json` lists the hazards behind these, each at its line, with the
properties that catch it.

## 2. Modules

| Module | Models | Kind |
|---|---|---|
| `SignerFlows` | `sign_multisig_flow`, `submit_multisig_flow`, the four tables behind them, token issue, the wallet | state machine |
| `OneShot` | what a client may rely on: a request has one result, for ever | abstract specification, implemented by `SignerFlows` |
| `SignerFlowsProofs` | | proofs |
| `Relay` | what a mailbox promises: one row per message, fresh receipts, no loss but by expiry or the latest receipt | abstract specification |
| `Mailbox` | `api.rs` and `db.rs` of the mailbox; implements `Relay` | state machine |
| `MailboxProofs` | | proofs |
| `Delivery` | sender, mailbox and the signer's run loop; composed from the actions of `Relay` | composition |
| `DeliveryProofs` | | proofs |
| `PendingDecisions` | `approve_pending`, `reject_pending` | state machine |
| `PendingDecisionsProofs` | | proofs |
| `Workflow` | the orchestrator's tables and `CanTransitionTo` of `flow.rs` | state machine |
| `WalletRuntime` | `wallet_rpc_call` and `ensure_wallet_open` against a pool of wallet-rpc processes | state machine |
| `Escrow` | the contract as the bridge drives it, and the arbiter's wallet | state machine |
| `EscrowProofs` | proofs about `Escrow` and `WalletRuntime` | proofs |
| `Reports` | the orchestrator's reports, read by read; extends `Workflow` and lets its actions come in between | composition |
| `HostTrust` | vaults, the trust bundle and its two guards, materialization, the signer's start | state machine |
| `Authorization` | admission command, proposal, token issue, snapshot activation and the checks of `sign_multisig_flow`: orchestrator and signer composed | composition |
| `AuthorizationProofs` | proofs about `Authorization` and `HostTrust` | proofs |
| `OperatorEscrow` | `operator_escrow.rs` against an external ledger | state machine |
| `OperatorEscrowProofs` | proofs about `OperatorEscrow`, `Workflow` and `Reports` | proofs |
| `Peer` | `sign_req` against mailbox and signers | composition |
| `PeerProofs` | | proofs |
| `MC...` | the instances | |

### SignerFlows

A worker's `pc` names the await it has reached; every database call, wallet call
and subprocess call in between is one action, so a crash or another worker can
come in at each. `dedup` and `result` are the rows of `sign_request_dedup`,
`consumed` is `consumed_action_jti`, `events` are the `arbiter_first` sign events
(the first one recorded for a txset stays), `proofs` and `sellerProofs` the
orchestrator's quorum proofs (the last one stored wins). A txset stands for its
hash; a signature turns it into the same or another txset, since the bytes the
wallet returns may differ. Checks that change nothing (snapshot, admission,
`describe_transfer`, policy, claims) are folded into `Receive`: a request they
refuse is no step; `Authorization` has them in detail. `StoreRequired` and `VerifySubmit` are the configuration
switches of the orchestrator bridge; `Failures` enables crashes, storage
failures, callers that hang up, ambiguous wallet errors and proofs filed by hand.
`worker_http.rs` awaits the flow in the handler, so a caller that hangs up drops it at
the await it has reached (`HandlerDropped`); a database or wallet call that was under
way then and still takes effect is the step itself with the drop after it. `cut` is
history: the requests whose row was left in progress by a crash, a failed database
call or a dropped handler. The wallet is
external: it refuses to sign what it signed already, and a call that fails may
have taken effect (`WalletAnswerLost`).

### Mailbox and Relay

Rows carry id, expiry, lease and lease end. Every transaction uses a clock reading
up to `Lag` old, which is what reading the clock before waiting for the write
lock amounts to. The tokens of a caller name its inbox (`AuthorizedInbox`); a
request they or the rate limits refuse is no action. A long poll reads, subscribes and waits in separate steps; a
notification is a step after the push commits. Receipts are random in the code
and fresh numbers in the model. A message has a length in bytes and one in characters:
the quota adds the bytes of the new envelope to SQL's `LENGTH` of the stored ones, which
counts characters (`Total`, `WithinQuota`). `RelayPromise` maps a row to the relay's box and
checks that every step is a step of `Relay` or a stutter.

### Delivery

The mailbox is the relay, so `Delivery` rests on what `Mailbox` is shown to
implement; a running lease is a message that need not be handed out, and any
leased message may be handed out again. `record_incoming_seq` (`maxSeen`) commits
before the request is handled, as in `process_envelope`. `ShouldAck` is
`should_ack_non_retryable_process_error`. `cutShort` remembers messages whose
handling failed or was lost after the sequence number was committed, and
`garbled` those that did not decrypt.

### PendingDecisions

Each operator process reads the row once (the status gate), then goes through
checks, request row, token, wallet, completion, two sign events, sequence number,
staging, sending and closing, one step each. `Dies` ends it anywhere. Status
updates are unconditional, as in `set_pending_status`. Only the configuration
with an action-token verifier is modelled.

### Workflow

Each database method is one action, since each is one transaction. `record_step`,
the outbox methods and `transition_workflow` have no callers outside the tests, so
the environment may call any of them at any time.

### WalletRuntime

Each RPC is a step; `opened[p]` is the wallet that process `p` has open, which
whoever reaches the process can switch. `ensure_wallet_open` runs before the
endpoint mutex and again under it, with its retries. A timed-out `open_wallet` or
`create_wallet` may have been served. An RPC that takes effect only after its
caller has given up and released the mutex is not modelled. A pool may name a port
twice. `intruded` is history: the processes whose wallet was changed, since their mutex
was last taken, by a call that did not hold it.

### Escrow

One action per bridge method, with the contract method it calls and the wallet
call it makes. The host service outside this repository is assumed to store a
bridge method's response as a whole. The wallet is external: `make` and
`exchange` work once. `finalize` has the code's fallback, which is also taken on an
error with code 0 and no message (`FinalizeFallback`), whatever the wallet's state. `SubmitFails` is a
bridge call that fails after the wallet acted. `dispute_opened_at` is set together
with the opener and is folded into it. The contract never enters `CLOSED`.

### Reports

A report is a sequence of SELECTs (`IntegrityReads`, `DeliveryReads`, `SloReads`, in
the code's order) on one connection without a transaction. `ReadNext` runs one;
`Elsewhere` is any action of `Workflow` in between. `touched` remembers the outbox
rows written meanwhile, so that the property can speak of the others. The SLO report
counts only the dead letters of its window and compares them with a threshold
(`DeadThreshold`); which of the letters that were there when it began are older than the
window (`begun.old`) is chosen freely. Staleness depends on ages, which are not
modelled: any untouched sent row may be stale.

### HostTrust

Everything is files. `vault`, `exported`, `bundle`, `peers` and `pem` are the files, a
key is the number of its generation. `sign-bundle` reads the bundle and writes it
back in a second step (`WriteBundle`), `materialize-local` writes its two files one
after the other, and a command may die in between (`Dies`). The signer's start
(`LoadPeers` to `LoadVerifierEpoch`) reads file after file in the order of
`SignerAgent::from_config`, the projection check and the token verifier. Signatures
and encryption at rest are predicates. The histories say what each guard's operator
approved, whether two signing commands overlapped, and whether a trust file
changed during a start.

### Authorization

One escrow, in the middle of its life: funded, with an agreed snapshot and an
admitted and proposed release. `Admission` is `handle_admission` of the bootstrap
tool, with and without `--in`. The issue command reads trust epoch, workflow,
proposal and admission in four steps; between them proposals are replaced,
admissions stored, epochs rotated, the workflow closed. A token carries txset,
snapshot, epoch and the admission's hash; `proposed` is history. The signer's part
is the snapshot table with activation by quorum, the stored admission, and the
checks of `sign_multisig_flow` in three steps. The rows of `snapshot_sigs` are told apart
by `signer_id`, a free text; the key comes with the signature and is compared with
nothing, so it is left out, and no property speaks of who signed a snapshot. A policy
is a list of rules, and `ValidateTransfer` is `validate_transfer_against_snapshot`: the
first rule for an address decides (`Permits`), output by output. What follows the last check is `SignerFlows`,
and the bundle behind an epoch is `HostTrust`. Tokens do not expire here.

### OperatorEscrow

The ledger is external: notes are minted and spent by others at any time, and it
recomputes the signing hash of the transaction it is given. The two reads of
`process_funding_event` are two steps. Approvals stay in the network, so each may be
delivered any number of times, under any index: `add_approval` looks neither at the key
nor at the signature. The ledger does (`LedgerAccepts`): it wants a quorum of the policy's keys
and every signature over the transaction it rebuilds. The module has no caller outside its tests, so the
environment calls any operation at any time.

### Peer

A call is a process: read the sequence file, write it, push once, pull (`PULL_MAX`
rows at a time) until an answer fits or time is out, ack, return. Mailbox and signer are reduced to what a
call can notice: deduplication of held envelopes, leases, expiry, the replay guard,
late and repeated answers. An answer that does not decrypt, has another body or names
another escrow in it is `"unreadable"`. `of` in an answer is history. `orderly` holds the
trips (escrow and signer) whose calls followed one another to the end, `crowded` those
that had two requests on the way at once or sent them out of turn, `raced` whether two
calls were in `next_out_seq` at once.

## 3. Runs

| Run | Bounds | Checks |
|---|---|---|
| `signer_safety` | 2 workers, 2 txsets, 3 tokens; crashes, dropped handlers, storage and wallet failures | `TypeOK`, `RequestExclusive`, `JtiSingleUse`, `ProofAgreesWithEvent`, `CompletedNeverReruns`, `OneShotSpec` |
| `signer_liveness` | 2 workers, 1 txset, 2 tokens; every failure class, proofs filed by hand included | `SubmitBacked`, `NoWedgedRequest` |
| `mailbox_relay` | 3 messages of 1, 2 and 2 characters, the last of 3 bytes, 2 pollers, 2 inboxes, clock to 2, lag 1, 5 leases, 1 restart | `TypeOK`, `LeaseExclusive`, `RelayPromise`, `MessageMoves` |
| `delivery_stream` | 2 messages, 3 arrivals, batches of 2, every fault class, 1 failure of the signer | `AckedIsDone`, `EnqueuedOnceInOrder`, `BoxDrains` |
| `pending_safety` | 2 operators, 2 rows asking for one txset, 2 tokens, 3 sequence numbers | `SeqCarriesOneAnswer`, `OneApprovalPerTxset`, `DecidedIsAnswered` |
| `workflow_safety` | 1 participant, 1 stage, 2 payloads, 1 outbox item with dead letter after 2, 1 txset, 2 request ids, 1 report of any kind, thresholds 0, any window | `DeadLetterOnRecord`, `ReportsAreHonest`, `StepsStand` |
| `wallet_runtime` | 2 callers, 2 escrows that share one of 2 processes, 2 open attempts, threshold 2, cache of 1, clock to 1 | `TypeOK`, `BreakerGuardsEndpoint`, `MutexKeepsWallet`, `CallsReturn` |
| `escrow_contract` | 2 infos, 2 txids, one address, one reason; an amount whose fee is rounded and whose total is exactly the integer limit | `ArbiterMatchesRecord`, `SettledByOneQuorum`, `FundedCoversFee`, `RecordsAreKept` |
| `host_trust` | 2 guards, signer host, issuer; 2 epochs, 2 bundles, 2 key generations for one guard and the issuer | `RunsUnderBothGuards`, `StartsFromOneBundle` |
| `authorization` | 2 guards, 2 signer ids, 2 snapshots with exact, range, required, optional and shadowed rules, 2 txsets (one pays an address twice), release and refund, no override and overrides 0 to 3, 2 epochs, 4 admission commands, 1 later proposal, 1 token | `SignedAsAdmitted`, `SignedAsProposed`, `PaysUnderWorkflowSnapshot`, `DraftIsValid` |
| `operator_escrow` | 1 note, 3 parties and a stranger's key, 2 indices, release and refund, 2 proposals, 2 approvals, 2 bundles | `FundingIsReal`, `PaidAsApproved` |
| `peer_round_trip` | 3 calls, 2 escrows, 1 signer, 2 rows in a pull, 2 pulls in a timeout, 2 answers, 2 receipts | `RowAnswersOnce`, `OwnAnswer`, `HeardInOrder` |

What each shows:

- `signer_safety`: request rows stay exclusive, a token reaches the wallet once,
  completed requests are answered from the cache, the orchestrator's proofs agree
  with the local events, and the flows implement `OneShot`.
- `signer_liveness`: every row is completed or freed again unless its own flow was cut
  off between start and abort (a crash, a failed database call, a caller that hung up);
  the wallet only relays bytes it signed, even when proofs were filed by hand.
- `mailbox_relay`: limits and quotas hold (`TypeOK`), the one of bytes as a quota of
  characters (see `BytesHardCap` in section 4); leases are exclusive although the clock is read early, the mailbox
  implements `Relay`, no message waits for ever.
- `delivery_stream`: requests are queued once and in order, leave the mailbox only
  when done with or cut short, and the inbox drains.
- `pending_safety`: one sequence number carries one answer, a txset gets one
  approval, a row is closed only after its answer was sent.
- `workflow_safety`: recorded steps stand and none is ahead of the workflow, dead
  letters are on record, a report is honest about rows nobody touched, and an SLO
  report with more deaths in its window than its threshold allows raises the alert.
- `wallet_runtime`: the cache keeps its limit (`TypeOK`), nobody works behind an open
  breaker, calls return, and on a shared process a method runs on its own escrow's
  wallet unless a call that had not taken the mutex yet switched it: nothing that is
  done under the mutex, no retry, timeout or probe, gets another wallet in.
- `escrow_contract`: the arbiter's infos match the record and the deposit address
  needs all nine infos, one quorum settles, the fee is covered, records are kept.
- `host_trust`: a signer runs only under a bundle both guards signed, an orderly
  ceremony ends with a bundle that verifies, and a start during which no file
  changed takes everything from one bundle.
- `authorization`: what is signed was admitted and proposed as that very action, and
  pays by the rules of the workflow's own snapshot for it; what `propose_multisig` drafts
  passes the signers' own check, unless a rule it follows stands behind another one for
  its address.
- `operator_escrow`: a snapshot is of money under the agreed policy or already gone; a
  bundle holds approvals of its proposal under a quorum of indices; what the ledger takes
  was approved, action and recipient, by a quorum of the parties' keys.
- `peer_round_trip`: no row is returned twice; orderly calls get their own answers. A
  call that dies or fails, wherever, leaves no more than a gap: requests are refused as
  replays only on trips that had two of them on the way at once or out of turn, or after
  a race for the file.

Why the bounds are enough to be interesting: two workers, operators, pollers,
guards and callers give every pairwise race; a third `sign_req` call comes after a
pair that raced, failed or took each other's answer; a second snapshot, epoch,
proposal and txset give every check of `Authorization` something stale to meet; the
third admission command starts a competing artifact that the fourth completes; the
second approval completes a quorum, repeats a key under another index, comes from a
stranger or goes to the other proposal; three tokens give a
signature, its retry and a submit (two, in `signer_liveness`, a signature or a submit and
its retry); a third message overflows the two-row quota and any two of the longer ones the
quota of three characters; three
arrivals let a message be pushed again after it was acknowledged. In
`delivery_stream` the bound on receipts is never reached (a larger one gives the
same states), so it hides no redelivery; in `mailbox_relay` the bound on leases
covers every lease that can run out before the clock stops. In `peer_round_trip` the
answers are `tx_sign_resp` or unreadable: `sign_req` treats an error body as it treats a
response. The proofs cover every set of kinds, every `PullMax` and every number of rows.

Deadlock is checked except where the system really may stop: in `Delivery` once
the bounded stream has been sent and handled, in `PendingDecisions` and `Escrow`
once every row is decided or the escrow settled, in `Workflow` once the workflow
is terminal and every item closed, and in `HostTrust`, `Authorization`,
`OperatorEscrow` and `Peer` once the named bounds (bundles, tokens, bundles of
approvals, calls) are used up and nothing is in progress.

Fairness. `SignerFlows`: weak fairness of a worker that has started, because
tokio polls a handler's future while its caller is there and every wallet and
subprocess call has a timeout; none for requests to arrive. It does not say that a
started flow ends: a caller may hang up at any await, which drops the future
(`worker_http.rs:231`), and `NoWedgedRequest` excepts the rows this leaves behind. `Mailbox`: weak fairness of the clock, of a handler's next
step and of the notification after a push; clients poll in a loop. Nothing is
assumed of pushes, acks or restarts. `Delivery`: weak fairness of the signer's run
loop, which never returns. `WalletRuntime`: weak fairness of each call's RPCs,
which time out, and strong fairness of taking the endpoint mutex, because a tokio
`Mutex` serves its waiters in order.

`SYMMETRY` permutes interchangeable infos, txsets, workers, calls or parties, and is
used only in runs without liveness properties.

## 4. Further observations

The properties of the runs hold. The following is not covered by them; it was met while
translating. The first seven are stated as definitions in the modules, marked as not
being properties of this code, and can be reproduced by naming them in a cfg.

1. `CompletedSignIsRecorded` (`MCSignerFlows.cfg`, `Failures = {"crash"}`).
   `complete_sign_request` caches the answer before `record_sign_event`
   (`flow_ops.rs:457`). A crash in between leaves a signature without the event that
   its submit requires; retries come from the cache and never record it. The signature
   is then not relayed (`SubmitBacked`).
2. `TransientIsRetried` (`MCDelivery.cfg`, `Faults = {"transient"}`). The replay guard
   commits before the request is handled (`transport.rs:51`), so after a transient
   failure the retry is a replay and is acknowledged. The test `agent/tests.rs:38` shows
   the intent that transient errors are retried. `AckedIsDone` shows that nothing else
   loses a request.
3. `AnswersAgree` (`MCPendingDecisions.cfg`, one row). The status gate is read once
   (`pending.rs:72`) and later updates are unconditional: an approve and a reject that
   overlap both answer. The test at `agent/tests.rs:1878` says "status gate must reject
   non-pending".
4. `NoForeignWallet` (`MCWalletRuntime.cfg`). `wallet_rpc_call` opens the wallet
   before it takes the endpoint mutex (`wallet_runtime.rs:358`). With two escrows on one
   process this switches the wallet under a running method. `MutexKeepsWallet` shows that
   it is the only way another wallet gets there.
5. `BytesHardCap` (`MCMailbox.cfg`). `max_bytes_per_inbox` is documented as the "Hard cap
   of queued envelope bytes per inbox" (`nxms-mailbox/src/main.rs:89`). The new envelope is
   measured in bytes (`db.rs:222`), the stored ones in characters (`LENGTH` of a TEXT,
   `db.rs:265`), so envelopes that are not ASCII take an inbox over it. What does hold is in
   `TypeOK`: the cap in characters, four times the cap in bytes.
6. `BundleOfQuorum` (`MCOperatorEscrow.cfg`). `finalize_bundle` "Requires quorum (2-of-3 for
   escrow-2of3-v1)" (`operator_escrow.rs:585`), but `add_approval` tells approvals apart by
   the caller's index only (line 563): one key under two indices, or a stranger's key,
   finalizes a bundle. The ledger refuses it (`PaidAsApproved`).
7. `SeqsDiffer` (`MCPeer.cfg`). `next_out_seq` promises that "gaps are
   allowed, replays and out-of-order sends are not" (`nxms-peer/src/lib.rs:428`); two
   processes that read the file before either writes it take one number twice.

Signer, orchestrator and escrow:

- A `sign_multisig` or `submit_multisig` whose caller hangs up while the flow owns its
  request row leaves the row in progress, as a crash or a failed database call does, and
  no code frees it: every retry is told that the request is in progress.
- A process that dies in `approve_pending` between `complete_sign_request` and
  staging leaves a row `pending` that no approval can close
  (`NXMS_SIGNER_P0_TEST_MATRIX.md:15` promises a dead letter).
- `transition_workflow` does not count recorded steps, and a conflicting step is
  dead-lettered without failing the workflow; `NXMS_MULTISIG_FLOW_STATE_MACHINE.md`
  lines 46 and 85 ask for both.
- `submit_r2` and `submit_r3` refuse the arbiter in every state, because the bridge
  does not load the slots of the round before; `ESCROW_PROTOCOL_V1.md:125` lists
  the arbiter as a submitter. The arbiter's infos are computed by the bridge.
- A lost answer to `make_multisig` or `exchange_multisig_keys` cannot be recovered,
  only `finalize` has a fallback. After that fallback the third-round infos on
  record may differ from the ones the wallet used. The fallback is also taken on an RPC
  error with code 0 and an empty message (`bridge.rs:592`), so an escrow may be `READY` with
  the address of a wallet that is not final.
- An envelope that does not decrypt is pulled again at every lease end until its
  time to live is over.
- `advance_inbox_offset` and `record_step` of one message are two transactions
  (`db.rs:1084`), and neither has a caller outside the tests; nor has `add_dead_letter`.
- No code writes a `replay_duplicate` step, so `step_replay_duplicate_window` of the
  reports is always 0; only a test (`db.rs:3246`) inserts one.
- The reports run their SELECTs without a transaction: the integrity check may call
  a row orphaned whose workflow was created meanwhile, and a row that moves is
  counted twice or not at all. `ReportsAreHonest` says what can be relied on.

Trust and authorization:

- A materialization that overlaps a start can mix two epochs: `from_config` reads
  `peers.json` before the projection check reads it again, and the token verifier reads
  PEM and bundle once more. Overlapping `sign-bundle` commands lose a signature; the
  bundle then does not verify and has to be signed again.
- The vault's existence check and its write are separate.
- `upsert_escrow_admission_artifact` of the orchestrator has no caller and compares only
  the snapshot. Claims without `runtime_trust_epoch` skip the admission; the model has
  the configuration in which both are present.

- A snapshot is activated by `snapshot_quorum` signature rows under different `signer_id`s.
  The id is a free text and the key comes with the signature (`main.rs:421`,
  `snapshot.rs:137`, `db.rs:1061`), so one key under several ids is a quorum. No document says
  whose signatures they must be; what limits a signature is the guards' admission of the
  workflow's snapshot (`SignedAsAdmitted`, `PaysUnderWorkflowSnapshot`).
- The signers' check takes the first rule for an address (`snapshot.rs:195`), the draft
  of a proposal every candidate rule. With two rules for one address that disagree, a draft
  is refused by its own signers. The check is per output: a transfer that pays an address
  twice within its rule passes.

Operator escrow:

- A second read that returns nothing passes unchecked (hence the second disjunct of
  `FundingIsReal`), `SnapshotAlreadyBuilt` is never raised, `add_approval` does not verify
  signatures, `build_proposal` does not tie the recipient to the action, and
  `finalize_bundle` consumes the builder even below the quorum. The comment at
  `operator_escrow.rs:250` and the test note at line 1342 disagree on what
  `tx_signing_hash` covers.

Peer daemon:

- Two concurrent calls, even of different escrows, rewrite the whole sequence file
  (`SeqsDiffer`). `sign_req` does not compare an answer with its request, so a late
  or repeated answer is returned by a later call; `OwnAnswer` says when this does not
  happen. Two requests of one trip that are on the way at once may reach the signer in
  either order, and it refuses the one that comes second with the lower number. An unreadable answer (line 254) makes every call for its escrow
  fail until it expires.

## 5. Proofs

Every theorem holds for every value of the constants: any sets of workers, tokens,
messages or calls, any limits, clock lag and set of enabled failures.

| Theorem | Statement |
|---|---|
| `SignerFlowsProofs!SignerTypes` | `Spec => []TypeOK` |
| `SignerFlowsProofs!SignerExclusive` | `Spec => []RequestExclusive` |
| `SignerFlowsProofs!TokenSingleUse` | `Spec => []JtiSingleUse` |
| `SignerFlowsProofs!CompletedIsFinal` | `Spec => CompletedNeverReruns` |
| `SignerFlowsProofs!SignerImplementsOneShot` | `Spec => OneShotSpec`, a refinement |
| `SignerFlowsProofs!RelayedWasSigned` | `Spec => []SubmitBacked` |
| `SignerFlowsProofs!ProofsAreEvents` | `"operator" \notin Failures => (Spec => []ProofAgreesWithEvent)` |
| `DeliveryProofs!RequestsEnqueuedOnceInOrder` | `Spec => EnqueuedOnceInOrder` |
| `DeliveryProofs!AcksFollowOutcomes` | `Spec => []AckedIsDone` |
| `PendingDecisionsProofs!AnswersHaveTheirSeq` | `Spec => []SeqCarriesOneAnswer` |
| `PendingDecisionsProofs!OneSignatureLeaves` | `Spec => []OneApprovalPerTxset` |
| `PendingDecisionsProofs!ClosedRowsWereAnswered` | `Spec => []DecidedIsAnswered` |
| `MailboxProofs!OneConsumerAtATime` | `Spec => []LeaseExclusive` |
| `MailboxProofs!MailboxImplementsRelay` | `Spec => RelayPromise`, a refinement |
| `MailboxProofs!TableWithinLimits` | `Spec => [](RowsTyped /\ RowsWithinQuota)` |
| `MailboxProofs!MailboxWithinLimits` | `Spec => []TypeOK`, the quotas of characters and, fourfold, of bytes included |
| `AuthorizationProofs!SignsWhatGuardsAdmitted` | `Spec => []SignedAsAdmitted` |
| `AuthorizationProofs!SignsWhatWasProposed` | `Spec => []SignedAsProposed` |
| `AuthorizationProofs!PaysByTheWorkflowsSnapshot` | `Spec => []PaysUnderWorkflowSnapshot` |
| `AuthorizationProofs!SignersAcceptDrafts` | `Spec => []DraftIsValid` |
| `AuthorizationProofs!BothGuardsStandBehindTheSigner` | `TrustSpec => []RunsUnderBothGuards` |
| `AuthorizationProofs!SignerRunsWithOneBundle` | `TrustSpec => []StartsFromOneBundle` |
| `OperatorEscrowProofs!SnapshotsAreFunded` | `Spec => []FundingIsReal` |
| `OperatorEscrowProofs!PaysWhatQuorumApproved` | `Spec => []PaidAsApproved` |
| `OperatorEscrowProofs!ReportsOnlyRead` | `ReportsSpec => WorkflowSpec`, a refinement |
| `OperatorEscrowProofs!DeadLettersAreOnRecord` | `WorkflowSpec => []DeadLetterOnRecord` |
| `OperatorEscrowProofs!RecordedStepsStand` | `WorkflowSpec => StepsStand` |
| `OperatorEscrowProofs!ReportsSayNothingFalse` | `ReportsSpec => []ReportsAreHonest` |
| `PeerProofs!EachRowAnswersOnce` | `Spec => []RowAnswersOnce` |
| `PeerProofs!OrderlyCallsGetTheirAnswer` | `Spec => []OwnAnswer` |
| `PeerProofs!SignersHearNewSeqs` | `Spec => []HeardInOrder` |
| `EscrowProofs!OneQuorumSettles` | `Spec => []SettledByOneQuorum` |
| `EscrowProofs!FundedWithFee` | `Spec => []FundedCoversFee` |
| `EscrowProofs!ArbiterComputedFromRecord` | `Spec => []ArbiterMatchesRecord` |
| `EscrowProofs!NothingOnRecordChanges` | `Spec => RecordsAreKept` |
| `EscrowProofs!RuntimeTypes` | `RuntimeSpec => []TypeOK` |
| `EscrowProofs!BreakerIsObeyed` | `RuntimeSpec => []BreakerGuardsEndpoint` |
| `EscrowProofs!MutexIsEnoughUnderIt` | `RuntimeSpec => []MutexKeepsWallet` |

A proof module may hold a neighbouring component too; the names of the two do not
overlap, so that one module can extend both (`WorkflowSpec`, `RuntimeSpec`, `TrustSpec`).

The argument of each:

- `SignerFlows`, ownership. `RequestExclusive` alone is not inductive: that only one
  worker owns a row says nothing about the row's status, so a second worker could find
  it absent. `HoldsToken` ties a working `pc` to a token, `ResultIffCompleted` and
  `CachedIsCompleted` tie results to rows, `HoldsAnswer` and `CachedIsAnswer` make the
  cached reply the recorded one (needed for the refinement), and `UnspentUncalled` says
  that a token not yet consumed has not reached the wallet, which makes `JtiSingleUse`
  inductive.
- `SignerFlows`, records (`RecordInv`). An event or a proof names a token; that this
  token signed those bytes is traced to what the wallet did. No two signatures produced
  the same bytes (`OneProducer`, `ForeignIsFresh`), an event names the signature that
  completed its request (`EventsExplained`), and a worker that records or relays has
  the step before on record (`InStep`). `ProofsAreEvents` is stated without the failure
  class `"operator"`, because an operator can file any proof by hand;
  `RelayedWasSigned` needs no such condition.
- `Delivery`. `EnqueuedOnceInOrder` is about one step; it follows from `EnqueuedIsSeen`
  (what is queued is not above `maxSeen`) and `HandlesNewest` (the message being handled
  is `maxSeen` and is not queued). For the acks, the message of the newest committed
  sequence number must be accounted for (`NewestAccounted`), since a replay of it is
  acknowledged without looking at it.
- `PendingDecisions`. The properties speak of answers that were sent; the invariant is
  about every answer that has a sequence number, whether sent, staged or in a process's
  hands (`Allocated`). One process owns the sign request of a txset (`OneSigner`), and
  the one that has signed and has no number yet holds the only approval (`OneDraft`).
- `Mailbox`. A lease knows when it ends, not whether its row was leased again. Ids,
  dedupe keys and receipts each name one row (`Table`), and a running lease is the one
  its row is under (`LatestLease`). The clock a pull reads may lag and never leads, so a
  row it leases has no running lease. The refinement maps each action to one step of
  `Relay` or to a stutter, a pull to the leasing of a batch. A table whose rows were all
  there before, up to their lease (`SameRows`), has no more rows and no greater length. For
  the length this takes what the fold `Total` computes: its recursive function exists
  (`SumExists`) and is unique (`SumUnique`), so `Total` may take any row first
  (`TotalOfRow`) and follows an injection (`NoMoreTotal`). A push adds at least the new
  envelope's characters to the quota, so the characters stay within it (`PushChars`), and a
  character has at most four bytes (`FourBytes`). The library's induction theorems have an
  operator parameter that the provers cannot instantiate; each induction here is by a least counterexample,
  a set of numbers (`LeastNumber`, from the well-foundedness of `<`).
- `Authorization`. The first three properties meet in the last check, which compares the
  stored admission with the hash in the token. The invariant says what each object
  stands for: a token's admission is for the action its txset was proposed as
  (`TokensBindAction`), a guard's signature is on an artifact only if it was asked for
  this action (`FilesWereAsked`), a token names the workflow's snapshot, and the flow
  carries such objects: before its last check, a transfer that passed under that snapshot
  and the action the caller named (`FlowCarries`); the hash then ties this action to the
  proposed one. `DraftIsValid` relates two algorithms, the signer's choice of recipients
  and its check of a transfer (`DraftObeysRules`).
- `OperatorEscrow`. A note between the two reads is not absent (`ConfirmingExists`). What
  is collected for a proposal are approvals of that proposal under different indices
  (`Collected`), so there are as many indices as entries (`CollectedIsApproved`, by a
  bijection). How many keys there are only the ledger counts (`LedgerAccepts`); one
  signature over the transaction then ties its action to the proposal
  (`ApprovalsAreOver`).
- `Peer`. `RowAnswersOnce` says nothing of the inbox. The invariant adds that an id
  names one row and is not used again (`RowsNamed`) and that a returned row is gone
  (`ReturnedIsGone`), so a second ack finds nothing. `OwnAnswer` needs `TripInv`: on an
  orderly trip one call runs at a time (`OneAtATime`), it waits for whatever is under way
  (`Outstanding`), and that is one envelope in one place (`OnePlace`, `InHand`).
  `HeardInOrder` speaks of every trip, the ones with dead and failed calls too, and needs
  `HeardInv` instead: while calls do not race, every seq a signer heard is on file
  (`HeardOnFile`), the one writer has read the current file (`OneWriter`), the calls about
  to push have different seqs (`PushesDiffer`), and on a trip that is not crowded what is
  about to leave or under way is newer than what was heard (`SeqsNew`), one request at a
  time and before whatever is still to leave (`InTurn`). A signer that hears a request
  raises its mark; nothing of the trip is under way then that the new mark overtakes.
- `Escrow`. Settlement and fee are inductive with types; the fee needs `RoundedUp`:
  division rounded up loses nothing. The rounds need `RoundsInv`: the state says which
  slots are still empty (`NotBegun`) and which rounds are complete (`Closed`), so the
  inputs of what the arbiter's wallet computed (`Computations`) cannot change any more.
- `WalletRuntime` (`RuntimeInv`). `BreakerGuardsEndpoint` is inductive with the ranges of
  cache, breakers, mutexes and calls: only the holder of a mutex trips its breaker, and it
  lets go in the same step. `ClosesToRetry` keeps the attempts in range.
  `MutexKeepsWallet` speaks of a process that any call may switch. What the holder of the
  mutex opened stays open from its own `open_wallet` or `create_wallet` on, through the
  probe to the method and the store (`HolderSees`); a step of another call at the same
  process either leaves the wallet alone or is an intrusion (`OthersSee`), and taking the
  mutex starts the count anew (`AcquireSees`).
- `HostTrust` (`TrustInv`). A bundle on disk or in a command's hands carries only
  signatures over what its guard's operator had signed (`Genuine`); a quorum check on it
  therefore shows both approvals. Without overlap, exactly the guards that signed are on
  it (`SignedBy`), and one signing command runs at a time. While no trust file changed
  under it, what a starting signer has read is still on file (`StillOnFile`), so the
  values read one after the other are one bundle's.
- `Workflow` (`WorkflowInv`). A row is a dead letter exactly when the record says so; a
  step is at most one stage ahead of the workflow, which only moves forward; no stage
  before `funded` has a proposal or a proof.
- `Reports` (`ReportInv`). Reports only read, so `WorkflowInv` holds under them by
  `ReportsOnlyRead`. Workflows and dead letters are never taken back (`NothingTakenBack`),
  so what the report began with is still there (`BegunOK`), and each SELECT's answer is
  tied to the rows that nobody touched since (`DeliveryOK`). The SLO report is right
  because rows are read before letters (`SloOK`), and a row that died within the window has
  a letter of its own in it.

The assumptions are the ones the modules state about their constants; TLC evaluates
them in every run. Beyond the types of the constants they say little: the peer's and
signers' answers come from known kinds, a wallet's answer is not the marker `None` of an
empty slot (`Escrow!WalletAnswersAreValues`; the bridge stores strings), and amounts and
fee caps of a policy are natural numbers (`AuthorizationConstants`; `u64` in the code).
The markers of an empty slot are no values either: `NoFile` is no bundle
(`HostTrustConstants`), `None` no outbox row, state or txset (`WorkflowConstants`), `Nil` no
caller or number (`RuntimeConstants`). There are two guards, the pool has a port, and the
thresholds that count attempts, failures and entries are not zero.

Only model-checked:

- liveness and everything that depends on fairness; the prover handles neither fairness
  nor `ENABLED`. These are `NoWedgedRequest`, `MessageMoves`, `BoxDrains` and
  `CallsReturn`.

Every invariant and every action property of the runs is the subject of a theorem.

## 6. Plan

1. `SignerFlows` with `OneShot` and proofs; `Delivery`, `Mailbox`, `Relay`; done.
2. `PendingDecisions`, `Workflow`, `WalletRuntime`, `Escrow`; done.
3. Token issuance as separate reads, snapshot activation and admission
   (`Authorization`), the trust ceremony (`HostTrust`), operator escrow, reports and the
   peer daemon; done.
4. Proofs of every safety property that a run checks; done.
5. Still open: the four liveness properties, which need a prover that handles fairness,
   and the parts listed below.

## 7. Not modelled

- Cryptography (Falcon, Kyber, envelopes, encryption at rest, digest authentication)
  is out of a model checker's reach: a message, signature or vault verifies or it
  does not.
- Configuration parsing and its normalization, secret references, audit formatting and
  the audit and security dashboards of the signer keep no protocol state; the audit
  tables are only written and counted. Neither database has retention pruning.
- The mailbox's rate limiter counts pushes per inbox and per source address in
  one-minute windows, in memory. A push it refuses stores nothing and is no action, and
  no property here depends on how many pushes are let through. The statistics
  endpoint only reads.
- Tor and P2P sockets, the iOS vault, the demonstration dashboard and the deployment
  files.
- `tx_profile.rs` checks a transaction candidate and has no caller; `import_release_snapshot` and
  `import_refund_snapshot` load the columns a bridge call works on and are part of the
  bridge's actions.
- Token and admission lifetimes: a late token is a token that is refused.
- In `PendingDecisions` the configuration without an action-token verifier, and in
  `Delivery` message types other than `tx_sign_req`.
