---------------------------- MODULE SignerFlows ----------------------------
(***************************************************************************)
(* The signing core of one arbiter signer (nxms-signer) for one escrow:    *)
(* sign_multisig_flow and submit_multisig_flow of agent/flow_ops.rs, run   *)
(* by concurrent workers over the tables of db.rs, together with the       *)
(* quorum-proof table of the orchestrator that the flows write and read    *)
(* through orchestrator_bridge.rs.                                         *)
(*                                                                         *)
(* A step is one awaited call: each database call is one SQLite statement  *)
(* or transaction, and other workers, a crash, a failure or the caller     *)
(* hanging up may come between any two of them.  The deterministic req_id  *)
(* (sign_req_id(escrow, op, round, txset)) is the pair (op, txset).        *)
(***************************************************************************)
EXTENDS Naturals, FiniteSets

CONSTANTS
    Workers,        \* signer processes: a server's handlers queue on its op_lock, CLI calls do not
    Txsets,         \* multisig txset byte strings, identified with their hash
    Jtis,           \* ids of the action tokens issued to this signer
    SellerJtis,     \* ids of the tokens the seller's signer used
    None,           \* absence of a value (SQL NULL / Option::None)
    StoreRequired,  \* NXMS quorum-proof store failure is an error (ENV_STORE_REQUIRED)
    VerifySubmit,   \* submit re-reads the proof bundle (ENV_VERIFY)
    Failures        \* enabled failure classes, a subset of FailureClasses

FailureClasses == {"crash", "disconnect", "storage", "wallet", "operator"}

ASSUME SignerConstants ==
    /\ None \notin Txsets \cup Jtis \cup SellerJtis
    /\ StoreRequired \in BOOLEAN
    /\ VerifySubmit \in BOOLEAN
    /\ Failures \subseteq FailureClasses

VARIABLES
    token,         \* token[j]: the claims of action token j, or NoToken
    dedup,         \* sign_request_dedup: req_id -> status
    result,        \* sign_request_result: req_id -> cached response
    consumed,      \* consumed_action_jti
    events,        \* sign_events of round arbiter_first: txset -> jti
    proofs,        \* orchestrator quorum_sign_proofs, arbiter_first: txset -> jti
    sellerProofs,  \* orchestrator quorum_sign_proofs, seller_second: txset -> jti
    pc,            \* the call each worker makes next
    jti,           \* the token of the request each worker serves
    out,           \* the wallet's answer a worker holds in memory
    calls,         \* history: wallet RPCs sent under each token
    done,          \* history: what the wallet really did
    replies,       \* history: successful answers returned to callers
    cut            \* history: requests whose call was cut off while it owned their row

dbVars     == <<dedup, result, consumed, events>>
orchVars   == <<token, proofs, sellerProofs>>
workerVars == <<pc, jti, out>>
history    == <<calls, done, replies, cut>>
vars       == <<dbVars, orchVars, workerVars, history>>

Ops      == {"sign_multisig", "submit_multisig"}
Requests == [op : Ops, txset : Txsets]
SignReq(t)   == [op |-> "sign_multisig", txset |-> t]
SubmitReq(t) == [op |-> "submit_multisig", txset |-> t]

(* The claims the flows use; arbiter and seller are the proof_*_jti claims. *)
Tokens  == [req : Requests, arbiter : Jtis \cup {None}, seller : SellerJtis \cup {None}]
NoToken == [req |-> None, arbiter |-> None, seller |-> None]

Req(w)   == token[jti[w]].req
Txset(w) == Req(w).txset
IsSign(w) == Req(w).op = "sign_multisig"

(* Between start_sign_request and complete/abort a worker owns its req_id. *)
Owning == {"consume", "quorum", "seller", "wallet", "abort", "complete"}
(* After complete_sign_request a signing worker still has to record it.    *)
Recording == {"event", "proof", "artifact_event", "artifact_proof"}
PCs == {"idle", "start", "lookup", "consume_cached", "cached", "respond"}
           \cup Owning \cup Recording

Statuses == {"none", "in_progress", "completed"}

Init ==
    /\ token = [j \in Jtis |-> NoToken]
    /\ dedup = [r \in Requests |-> "none"]
    /\ result = [r \in Requests |-> None]
    /\ consumed = {}
    /\ events = [t \in Txsets |-> None]
    /\ proofs = [t \in Txsets |-> None]
    /\ sellerProofs = [t \in Txsets |-> None]
    /\ pc = [w \in Workers |-> "idle"]
    /\ jti = [w \in Workers |-> None]
    /\ out = [w \in Workers |-> None]
    /\ calls = [j \in Jtis |-> 0]
    /\ done = {}
    /\ replies = {}
    /\ cut = {}

Goto(w, label) == pc' = [pc EXCEPT ![w] = label]

(* The flow returns (Ok or Err) and the worker's memory is gone.           *)
Return(w) ==
    /\ Goto(w, "idle")
    /\ jti' = [jti EXCEPT ![w] = None]
    /\ out' = [out EXCEPT ![w] = None]

Advance(w, label) == Goto(w, label) /\ UNCHANGED <<jti, out>>

Reply(w, value) == replies' = replies \cup {[req |-> Req(w), result |-> value]}

-----------------------------------------------------------------------------
(* The control plane: token issuance and the seller's side of the quorum.  *)

(* A sign token binds op, role/round and txset; its jti is fresh.          *)
IssueSignToken(j, t) ==
    /\ token[j] = NoToken
    /\ token' = [token EXCEPT ![j] =
                    [req |-> SignReq(t), arbiter |-> None, seller |-> None]]
    /\ UNCHANGED <<dbVars, proofs, sellerProofs, workerVars, history>>

(* get_submit_multisig_proof_bundle: both proofs, by different tokens.     *)
HasSubmitBundle(t) ==
    /\ proofs[t] # None
    /\ sellerProofs[t] # None
    /\ proofs[t] # sellerProofs[t]

(* A submit token also carries the proof bundle stored when it is issued.  *)
IssueSubmitToken(j, t) ==
    /\ token[j] = NoToken
    /\ HasSubmitBundle(t)
    /\ token' = [token EXCEPT ![j] =
                    [req |-> SubmitReq(t), arbiter |-> proofs[t], seller |-> sellerProofs[t]]]
    /\ UNCHANGED <<dbVars, proofs, sellerProofs, workerVars, history>>

(* The seller's signer upserts its own proof for t.                        *)
SellerStoresProof(t, s) ==
    /\ sellerProofs[t] # s
    /\ sellerProofs' = [sellerProofs EXCEPT ![t] = s]
    /\ UNCHANGED <<dbVars, token, proofs, workerVars, history>>

(* An operator files a proof for t by hand with the quorum-proof command,  *)
(* naming a token that may never have signed t.                            *)
OperatorStoresProof(t, j) ==
    /\ "operator" \in Failures
    /\ proofs' = [proofs EXCEPT ![t] = j]
    /\ UNCHANGED <<dbVars, token, sellerProofs, workerVars, history>>

-----------------------------------------------------------------------------
(* The request prefix shared by both flows.                                *)

(* A request arrives with a token that verifies for it.  The checks before *)
(* start_sign_request (snapshot, admission, describe_transfer, policy,     *)
(* token claims) change nothing; a request they refuse is no step at all.  *)
Receive(w, j) ==
    /\ pc[w] = "idle"
    /\ token[j] # NoToken
    /\ Goto(w, "start")
    /\ jti' = [jti EXCEPT ![w] = j]
    /\ UNCHANGED <<out, dbVars, orchVars, history>>

(* Mutated forms: an upsert that takes over a row of either status.        *)
RowFreeUnlessCompleted(r) == dedup[r] # "completed"
RowFreeUnlessInProgress(r) == dedup[r] # "in_progress"

(* No row: the primary key of sign_request_dedup reports a duplicate.      *)
RowFree(r) == dedup[r] = "none"

(* INSERT of an in_progress row.                                           *)
StartSignRequest(w) ==
    /\ pc[w] = "start"
    /\ IF RowFree(Req(w))
         THEN /\ dedup' = [dedup EXCEPT ![Req(w)] = "in_progress"]
              /\ Advance(w, "consume")
         ELSE /\ Advance(w, "lookup")
              /\ UNCHANGED dedup
    /\ UNCHANGED <<result, consumed, events, orchVars, history>>

(* The duplicate's row is read again: it may be completed, still in        *)
(* progress (rejected) or gone because its owner aborted (an error).       *)
GetSignRequest(w) ==
    /\ pc[w] = "lookup"
    /\ IF dedup[Req(w)] = "completed" THEN Advance(w, "consume_cached") ELSE Return(w)
    /\ UNCHANGED <<dbVars, orchVars, history>>

(* Mutated form: INSERT OR IGNORE, so a replayed jti is not noticed.       *)
JtiNeverReplayed(j) == FALSE

(* The primary key of consumed_action_jti reports a replayed token.        *)
JtiReplayed(j) == j \in consumed

ConsumeForCachedReply(w) ==
    /\ pc[w] = "consume_cached"
    /\ IF JtiReplayed(jti[w])
         THEN Return(w) /\ UNCHANGED consumed
         ELSE Advance(w, "cached") /\ consumed' = consumed \cup {jti[w]}
    /\ UNCHANGED <<dedup, result, events, orchVars, history>>

ReturnCachedResult(w) ==
    /\ pc[w] = "cached"
    /\ Reply(w, result[Req(w)])
    /\ Return(w)
    /\ UNCHANGED <<dbVars, orchVars, calls, done, cut>>

(* The owner consumes its token; a replayed jti makes it abort the row.    *)
ConsumeActionJti(w) ==
    /\ pc[w] = "consume"
    /\ IF JtiReplayed(jti[w])
         THEN Advance(w, "abort") /\ UNCHANGED consumed
         ELSE /\ consumed' = consumed \cup {jti[w]}
              /\ Advance(w, IF IsSign(w) THEN "wallet" ELSE "quorum")
    /\ UNCHANGED <<dedup, result, events, orchVars, history>>

(* Mutated forms: the row is kept, or marked with a status of its own.     *)
AbortKeepsRow(status) == status
AbortMarksRow(status) == IF status = "in_progress" THEN "aborted" ELSE status

(* DELETE ... WHERE status = 'in_progress'.                                *)
AfterAbort(status) == IF status = "in_progress" THEN "none" ELSE status

AbortSignRequest(w) ==
    /\ pc[w] = "abort"
    /\ dedup' = [dedup EXCEPT ![Req(w)] = AfterAbort(@)]
    /\ Return(w)
    /\ UNCHANGED <<result, consumed, events, orchVars, history>>

-----------------------------------------------------------------------------
(* Submit: the quorum gates before the wallet is asked to relay.           *)

(* Mutated form: trust the token and skip the signer's own record.         *)
ArbiterProofInToken(w) == token[jti[w]].arbiter # None

(* The local arbiter_first event for these bytes must exist and be the one *)
(* the token names.                                                        *)
ArbiterProofMatches(w) ==
    /\ events[Txset(w)] # None
    /\ events[Txset(w)] = token[jti[w]].arbiter

CheckArbiterProof(w) ==
    /\ pc[w] = "quorum"
    /\ Advance(w, IF ArbiterProofMatches(w) THEN "seller" ELSE "abort")
    /\ UNCHANGED <<dbVars, orchVars, history>>

(* verify_submit_seller_quorum_proof: the orchestrator's current bundle    *)
(* must still carry the token's seller proof.                              *)
SellerProofMatches(w) ==
    VerifySubmit => /\ HasSubmitBundle(Txset(w))
                    /\ sellerProofs[Txset(w)] = token[jti[w]].seller

(* The subprocess call may also simply fail.                               *)
CheckSellerProof(w) ==
    /\ pc[w] = "seller"
    /\ \/ /\ SellerProofMatches(w)
          /\ Advance(w, "wallet")
       \/ /\ VerifySubmit
          /\ Advance(w, "abort")
    /\ UNCHANGED <<dbVars, orchVars, history>>

-----------------------------------------------------------------------------
(* The wallet RPC (external: monero-wallet-rpc).                           *)

Produced == {d.out : d \in {e \in done : e.req.op = "sign_multisig"}}

(* The wallet refuses a txset that already carries its signature.  What it *)
(* returns is the same bytes or fresh ones: signatures are randomised.     *)
CanSign(t) == t \notin Produced
Artifacts(t) ==
    {t} \cup {a \in Txsets : /\ a \notin Produced
                             /\ \A j \in Jtis : token[j] # NoToken => token[j].req.txset # a}

Effect(w, a) == done' = done \cup {[jti |-> jti[w], req |-> Req(w), out |-> a]}

Answers(w) == IF IsSign(w) THEN Artifacts(Txset(w)) ELSE {Txset(w)}

WalletCall(w) == calls' = [calls EXCEPT ![jti[w]] = @ + 1]

WalletOk(w, a) ==
    /\ pc[w] = "wallet"
    /\ IsSign(w) => CanSign(Txset(w))
    /\ a \in Answers(w)
    /\ WalletCall(w)
    /\ Effect(w, a)
    /\ out' = [out EXCEPT ![w] = a]
    /\ Goto(w, "complete")
    /\ UNCHANGED <<jti, dbVars, orchVars, replies, cut>>

(* An RPC error: nothing happened ...                                      *)
WalletRefuses(w) ==
    /\ pc[w] = "wallet"
    /\ "wallet" \in Failures \/ (IsSign(w) /\ ~CanSign(Txset(w)))
    /\ WalletCall(w)
    /\ Advance(w, "abort")
    /\ UNCHANGED <<dbVars, orchVars, done, replies, cut>>

(* ... or the wallet acted and the answer was lost (180 s client timeout). *)
WalletAnswerLost(w, a) ==
    /\ pc[w] = "wallet"
    /\ "wallet" \in Failures
    /\ IsSign(w) => CanSign(Txset(w))
    /\ a \in Answers(w)
    /\ WalletCall(w)
    /\ Effect(w, a)
    /\ Advance(w, "abort")
    /\ UNCHANGED <<dbVars, orchVars, replies, cut>>

-----------------------------------------------------------------------------
(* Completion and the records the submit path depends on.                  *)

(* Mutated form: cache the requested txset instead of the wallet's answer. *)
CachesRequestedTxset(w) == Txset(w)

(* The response serialised for replays: what the wallet returned.          *)
CachedResponse(w) == out[w]

(* One transaction: in_progress -> completed and the cached response; no   *)
(* such row is an error.  A signature still has to be recorded after it.   *)
CompleteSignRequest(w) ==
    /\ pc[w] = "complete"
    /\ IF dedup[Req(w)] = "in_progress"
         THEN /\ dedup' = [dedup EXCEPT ![Req(w)] = "completed"]
              /\ result' = [result EXCEPT ![Req(w)] = CachedResponse(w)]
              /\ Advance(w, IF IsSign(w) THEN "event" ELSE "respond")
         ELSE Return(w) /\ UNCHANGED <<dedup, result>>
    /\ UNCHANGED <<consumed, events, orchVars, history>>

(* INSERT OR IGNORE: the first event recorded for a txset stays.           *)
InsertEvent(t, j) == events' = [events EXCEPT ![t] = IF @ = None THEN j ELSE @]

(* Upsert: the last proof stored for a txset wins.                         *)
UpsertProof(t, j) == proofs' = [proofs EXCEPT ![t] = j]

RecordSignEvent(w) ==
    /\ pc[w] = "event"
    /\ InsertEvent(Txset(w), jti[w])
    /\ Advance(w, "proof")
    /\ UNCHANGED <<dedup, result, consumed, orchVars, history>>

StoreQuorumSignProof(w) ==
    /\ pc[w] = "proof"
    /\ \/ UpsertProof(Txset(w), jti[w]) /\ Advance(w, "artifact_event")
       \/ /\ IF StoreRequired THEN Return(w) ELSE Advance(w, "artifact_event")
          /\ UNCHANGED proofs
    /\ UNCHANGED <<dbVars, token, sellerProofs, history>>

(* Mutated form: the artifact is filed under the requested txset, as before*)
(* the artifact binding.                                                   *)
RequestedTxset(w) == Txset(w)

(* The hash the second event is keyed by: the signed artifact's.           *)
ArtifactTxset(w) == out[w]

RecordArtifactEvent(w) ==
    /\ pc[w] = "artifact_event"
    /\ InsertEvent(ArtifactTxset(w), jti[w])
    /\ Advance(w, "artifact_proof")
    /\ UNCHANGED <<dedup, result, consumed, orchVars, history>>

StoreArtifactProof(w) ==
    /\ pc[w] = "artifact_proof"
    /\ \/ UpsertProof(out[w], jti[w]) /\ Advance(w, "respond")
       \/ /\ IF StoreRequired THEN Return(w) ELSE Advance(w, "respond")
          /\ UNCHANGED proofs
    /\ UNCHANGED <<dbVars, token, sellerProofs, history>>

(* The flow returns Ok with the wallet's answer.                           *)
Respond(w) ==
    /\ pc[w] = "respond"
    /\ Reply(w, out[w])
    /\ Return(w)
    /\ UNCHANGED <<dbVars, orchVars, calls, done, cut>>

-----------------------------------------------------------------------------
(* Failures of the signer itself.  A call that owns a row and ends without *)
(* abort_sign_request leaves the row in progress; nothing ever frees it.   *)

LeftBehind(w) == IF pc[w] \in Owning THEN {Req(w)} ELSE {}

(* A database call fails.  Only the consume step aborts the row then; every*)
(* other caller returns the error, and a failed abort is ignored.          *)
StorageFailure(w) ==
    /\ "storage" \in Failures
    /\ pc[w] \in PCs \ {"idle", "seller", "wallet", "proof", "artifact_proof", "respond"}
    /\ IF pc[w] = "consume" THEN Advance(w, "abort") /\ UNCHANGED cut
                            ELSE Return(w) /\ cut' = cut \cup LeftBehind(w)
    /\ UNCHANGED <<dbVars, orchVars, calls, done, replies>>

(* The flow runs inside the handler's future: when the caller hangs up the *)
(* future is dropped at the call it is waiting for, the op_lock with it.   *)
HandlerDropped(w) ==
    /\ "disconnect" \in Failures
    /\ pc[w] # "idle"
    /\ Return(w)
    /\ cut' = cut \cup LeftBehind(w)
    /\ UNCHANGED <<dbVars, orchVars, calls, done, replies>>

(* The process dies and is restarted: all in-flight requests are lost, the *)
(* database stays.                                                         *)
Crash ==
    /\ "crash" \in Failures
    /\ pc' = [w \in Workers |-> "idle"]
    /\ jti' = [w \in Workers |-> None]
    /\ out' = [w \in Workers |-> None]
    /\ cut' = cut \cup UNION {LeftBehind(w) : w \in Workers}
    /\ UNCHANGED <<dbVars, orchVars, calls, done, replies>>

-----------------------------------------------------------------------------
ControlPlane ==
    \/ \E j \in Jtis, t \in Txsets : IssueSignToken(j, t) \/ IssueSubmitToken(j, t)
                                     \/ OperatorStoresProof(t, j)
    \/ \E t \in Txsets, s \in SellerJtis : SellerStoresProof(t, s)

Wallet(w) ==
    \/ \E a \in Txsets : WalletOk(w, a) \/ WalletAnswerLost(w, a)
    \/ WalletRefuses(w)

(* The steps a worker takes by itself once it has a request.               *)
WorkerStep(w) ==
    \/ StartSignRequest(w) \/ GetSignRequest(w)
    \/ ConsumeForCachedReply(w) \/ ReturnCachedResult(w)
    \/ ConsumeActionJti(w) \/ AbortSignRequest(w)
    \/ CheckArbiterProof(w) \/ CheckSellerProof(w)
    \/ Wallet(w)
    \/ CompleteSignRequest(w)
    \/ RecordSignEvent(w) \/ StoreQuorumSignProof(w)
    \/ RecordArtifactEvent(w) \/ StoreArtifactProof(w)
    \/ Respond(w)

Next ==
    \/ ControlPlane
    \/ \E w \in Workers, j \in Jtis : Receive(w, j)
    \/ \E w \in Workers : WorkerStep(w) \/ StorageFailure(w) \/ HandlerDropped(w)
    \/ Crash

Spec == Init /\ [][Next]_vars

(* tokio polls every handler until it returns, and each awaited call has a *)
(* time limit or is a local statement, so a worker goes on unless its call *)
(* is cut off; a dropped handler has no step left to take.                 *)
FairSpec == Spec /\ \A w \in Workers : WF_vars(WorkerStep(w))

-----------------------------------------------------------------------------
(* Types: the tables keep their schema, workers their local variables.     *)
TypeOK ==
    /\ token \in [Jtis -> Tokens \cup {NoToken}]
    /\ dedup \in [Requests -> Statuses]
    /\ result \in [Requests -> Txsets \cup {None}]
    /\ consumed \in SUBSET Jtis
    /\ events \in [Txsets -> Jtis \cup {None}]
    /\ proofs \in [Txsets -> Jtis \cup {None}]
    /\ sellerProofs \in [Txsets -> SellerJtis \cup {None}]
    /\ pc \in [Workers -> PCs]
    /\ jti \in [Workers -> Jtis \cup {None}]
    /\ out \in [Workers -> Txsets \cup {None}]
    /\ calls \in [Jtis -> Nat]
    /\ done \in SUBSET [jti : Jtis, req : Requests, out : Txsets]
    /\ replies \in SUBSET [req : Requests, result : Txsets]
    /\ cut \in SUBSET Requests

(* Two workers never run the same req_id at once: whoever is between       *)
(* start_sign_request and complete/abort owns the in_progress row alone,   *)
(* so neither can delete or complete the other's request.                  *)
RequestExclusive ==
    \A w \in Workers : pc[w] \in Owning =>
        /\ dedup[Req(w)] = "in_progress"
        /\ \A v \in Workers : v # w /\ pc[v] \in Owning => Req(v) # Req(w)

(* An action token drives the wallet at most once, whatever is retried,    *)
(* aborted, answered from the cache or lost in a crash.                    *)
JtiSingleUse == \A j \in Jtis : calls[j] <= 1

(* Once a request is completed the wallet never runs it again and its      *)
(* cached answer never changes: retries are served from the cache.         *)
CompletedNeverReruns ==
    [][\A r \in Requests : dedup[r] = "completed" =>
           /\ dedup'[r] = "completed"
           /\ result'[r] = result[r]
           /\ \A d \in done' \ done : d.req # r]_vars

(* Whatever the wallet relays was signed by this very wallet: a relayed    *)
(* txset has an arbiter_first event, and the token that event names drove  *)
(* a wallet signature of, or producing, exactly those bytes, even when the *)
(* proofs in the orchestrator are wrong.                                   *)
SubmitBacked ==
    \A d \in done : d.req.op = "submit_multisig" =>
        \E e \in done : /\ e.req.op = "sign_multisig"
                        /\ d.req.txset \in {e.req.txset, e.out}
                        /\ events[d.req.txset] = e.jti

(* The orchestrator's arbiter proof for a txset, which submit tokens are   *)
(* issued from, is the signer's own event: otherwise every submit of that  *)
(* txset would be refused with a proof mismatch.                           *)
ProofAgreesWithEvent ==
    \A t \in Txsets : proofs[t] # None => events[t] = proofs[t]

(* Every answer for a req_id is the one outcome decided for it: the flows  *)
(* implement a one-shot request executor.                                  *)
Abstract == INSTANCE OneShot WITH
    Results <- Txsets, outcome <- result, answers <- replies
OneShotSpec == Abstract!Spec

(* Only a call that was cut off while it owned its row (the process died,  *)
(* the caller hung up, the database failed) leaves a request in progress   *)
(* for ever: replayed tokens, refused proofs, wallet errors and lost wallet*)
(* answers all free the row again or complete it.                          *)
NoWedgedRequest ==
    \A r \in Requests : (dedup[r] = "in_progress") ~> (dedup[r] # "in_progress" \/ r \in cut)

(* Not a property of this code (see Further observations in the README):   *)
(* flow_ops.rs says the events tie the submitted bytes back to the         *)
(* approval, so a completed signature nobody is still recording would have *)
(* its event.                                                              *)
CompletedSignIsRecorded ==
    \A t \in Txsets :
        /\ dedup[SignReq(t)] = "completed"
        /\ \A w \in Workers : pc[w] \in Recording => Req(w) # SignReq(t)
        => events[t] # None
=============================================================================
